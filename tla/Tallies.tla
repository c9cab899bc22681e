------------------------------ MODULE Tallies ------------------------------
(***************************************************************************)
(* What a loop over rows computes, without the loop: the sum of an amount  *)
(* per row, the places at which a condition holds, in the loop's order,    *)
(* the rows a condition keeps, and the rows in the order a sort puts them. *)
(***************************************************************************)
EXTENDS Integers, FiniteSets, FiniteSetsExt

\* sum(amount[x] for x in S)
SumOver(amount, S) == MapThenSumSet(LAMBDA x : amount[x], S)

\* The places of a loop that its condition holds at, in the loop's order.
Rank(S, i) == Cardinality({j \in S : j <= i})
InOrder(S) == [k \in 1..Cardinality(S) |-> CHOOSE i \in S : Rank(S, i) = k]

\* [x for x in s if ...], by the places the condition holds at
Only(s, places) == [k \in 1..Cardinality(places) |-> s[InOrder(places)[k]]]

\* The members of S in the order of a set of pairs: the k-th has k - 1 before it.
Sequenced(S, pairs) ==
    [k \in 1..Cardinality(S) |->
        CHOOSE x \in S : Cardinality({y \in S : <<y, x>> \in pairs}) = k - 1]

\* list.sort
SortedBy(S, before(_, _)) ==
    Sequenced(S, {p \in S \X S : p[1] # p[2] /\ before(p[1], p[2])})

\* sorted(..., reverse=True) by a figure per place; equal figures keep their order.
LargestFirst(figure) ==
    SortedBy(DOMAIN figure, LAMBDA i, j : \/ figure[i] > figure[j]
                                          \/ figure[i] = figure[j] /\ i < j)
=============================================================================
