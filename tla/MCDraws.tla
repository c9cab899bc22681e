------------------------------ MODULE MCDraws ------------------------------
(***************************************************************************)
(* Facilities whose limit does not divide into basis points, drawn to the  *)
(* ceiling, over it and not at all.                                        *)
(***************************************************************************)
EXTENDS Draws, TLC

Facility(limit, drawn, bps) == [limit |-> limit, drawn |-> drawn, max_utilization_bps |-> bps]
SomeFacilities == {Facility(0, 0, 8000), Facility(30001, 10000, 3333),
                   Facility(30001, 9998, 6667), Facility(7, 6, 8000), Facility(7, 0, 9999)}
SomeCeilings == {3333, 8000}

Proposal(action, class, days, amount, single_source, lead_time) ==
    [action |-> action, class |-> class, days |-> days, amount |-> amount,
     single_source |-> single_source, lead_time |-> lead_time]
SomeProposals ==
    {Proposal("revolver_draw", "none", 0, n, FALSE, <<>>) : n \in {0, 1, 2, 5, 6, 10003, 20003}}
    \cup {Proposal("ap_deferral", "payroll", 0, 5, FALSE, <<>>),
          Proposal("ap_deferral", "trade", 10, 5, TRUE, <<10>>),
          Proposal("ap_deferral", "trade", 11, 5, TRUE, <<10>>)}
SomeProjections ==
    {[min_cash |-> 20, liquidity |-> 30, headroom |-> <<>>],
     [min_cash |-> 19, liquidity |-> 40, headroom |-> <<-1>>]}

Symmetry == Permutations(Workers) \cup Permutations(Companies) \cup Permutations(People)
=============================================================================
