--------------------------------- MODULE Debt --------------------------------
(***************************************************************************)
(* backend/finance/debt.py: what borrowed money costs and when it is       *)
(* repaid.                                                                 *)
(***************************************************************************)
EXTENDS Cadence

Bps == 10000

DayCountBasis == 360

\* accrued_interest, actual/360
AccruedInterest(principal, rateBps, days) ==
    DivRound(principal * rateBps * days, Bps * DayCountBasis, "half_even")

\* amortisation_schedule: equal instalments; a row's interest runs from the row
\* before, on the balance before its instalment
AmortisationSchedule(principal, first, periods, rateBps, frequency) ==
    LET instalments == Allocate(principal, [i \in 1..periods |-> 1])
        due == [i \in 1..periods |->
                    Adjust(AddMonths(first, ServiceMonths[frequency] * (i - 1)),
                           "modified_following")]
        balance == [i \in 0..periods |-> principal - SumOver(instalments, 1..i)]
    IN  [i \in 1..periods |->
            [due |-> due[i], principal |-> instalments[i],
             interest |-> IF i = 1 THEN 0
                          ELSE AccruedInterest(balance[i - 1], rateBps, due[i] - due[i - 1]),
             closing |-> balance[i]]]

==============================================================================
