------------------------------- MODULE MCDodo -------------------------------
(***************************************************************************)
(* Two payments of the same amount, which a payout cannot tell apart, one  *)
(* on a Friday before a holiday.                                           *)
(***************************************************************************)
EXTENDS Dodo
SameAmount == [p \in Payments |-> 15]
Fridays == [p \in Payments |-> 4]
=============================================================================
