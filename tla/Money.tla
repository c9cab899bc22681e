-------------------------------- MODULE Money --------------------------------
(***************************************************************************)
(* backend/finance/money.py and rounding.py: integer minor units, one      *)
(* currency at a time, and the only two places a remainder can go.         *)
(***************************************************************************)
EXTENDS Tallies, Sequences

Magnitude(n) == IF n < 0 THEN -n ELSE n

Signed(negative, n) == IF negative THEN -n ELSE n

\* div_round: the sign is taken off, the magnitudes divided, the sign put back
DivRound(n, d, mode) ==
    LET q == Magnitude(n) \div Magnitude(d)
        r == Magnitude(n) % Magnitude(d)
        up == CASE mode = "down" -> FALSE
                [] mode = "half_up" -> 2 * r >= Magnitude(d)
                [] OTHER -> 2 * r > Magnitude(d) \/ (2 * r = Magnitude(d) /\ q % 2 = 1)
    IN  Signed((n < 0) # (d < 0), IF r # 0 /\ up THEN q + 1 ELSE q)

\* mutant: the leftover minor units are not handed out
AllocateFloors(amount, ratios) ==
    [i \in DOMAIN ratios |->
        Signed(amount < 0, (Magnitude(amount) * ratios[i]) \div SumOver(ratios, DOMAIN ratios))]

\* Money.allocate: floors first, then one minor unit each to the largest
\* remainders, the earlier ratio first among equals
Allocate(amount, ratios) ==
    LET total == SumOver(ratios, DOMAIN ratios)
        product == [i \in DOMAIN ratios |-> Magnitude(amount) * ratios[i]]
        floors == [i \in DOMAIN ratios |-> product[i] \div total]
        remainder == [i \in DOMAIN ratios |-> product[i] % total]
        leftover == Magnitude(amount) - SumOver(floors, DOMAIN floors)
        order == LargestFirst(remainder)
        topped == {order[k] : k \in 1..leftover}
    IN  [i \in DOMAIN ratios |->
            Signed(amount < 0, floors[i] + (IF i \in topped THEN 1 ELSE 0))]

==============================================================================
