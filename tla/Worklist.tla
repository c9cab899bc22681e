------------------------------ MODULE Worklist ------------------------------
(***************************************************************************)
(* Levers in, worklist out (backend/orchestrator/worklist.py): the gate,   *)
(* the four bundles, what each raises, the score, and the rows.            *)
(*                                                                         *)
(* `rows` are the deferral candidates: [doc, supplier, ref, protected,     *)
(* max_delay, amount, forgone], forgone -1 where no discount is at stake.  *)
(* `position` is [min_cash, week, floor, available, utilization].  Amounts *)
(* are in units of 10 000 dollars.  A percentage is kept to three decimal  *)
(* places where the code keeps 28; a score is in tenths of a point, as     *)
(* there.                                                                  *)
(***************************************************************************)
EXTENDS Integers, Sequences, FiniteSets, SequencesExt, Tallies

Least(a, b) == IF a <= b THEN a ELSE b
Most(a, b) == IF a >= b THEN a ELSE b
\* n / d to the nearest whole, halves to the even one.
Rounded(n, d) ==
    LET q == n \div d  r == n % d
    IN  IF 2 * r > d \/ (2 * r = d /\ q % 2 = 1) THEN q + 1 ELSE q

AR_KINDS     == {"collection_call", "early_pay_discount", "dispute_resolution"}
DODO_KINDS   == {"dodo_retry", "dodo_dunning"}
INFLOW_KINDS == AR_KINDS \cup DODO_KINDS \cup {"ap_defer", "revolver_draw"}
ActionKinds  == INFLOW_KINDS \cup {"ap_accelerate", "assumption_review"}

OWNERS ==
    [k \in ActionKinds |->
        CASE k \in AR_KINDS -> "Collections"
          [] k \in {"ap_defer", "ap_accelerate"} -> "AP Manager"
          [] k \in DODO_KINDS \cup {"revolver_draw"} -> "Treasury"
          [] OTHER -> "Treasury Analyst"]
DEFAULT_DUE_DAYS ==
    [collection_call |-> 6, early_pay_discount |-> 7, dispute_resolution |-> 12,
     ap_defer |-> 8, ap_accelerate |-> 8, dodo_retry |-> 5, dodo_dunning |-> 5,
     revolver_draw |-> 9, assumption_review |-> 10]

\* A later row for the same document replaces an earlier one, as in a dict.
LastRow(rows, hits) == IF hits = {} THEN <<>> ELSE <<rows[Max(hits)]>>
RowFor(rows, doc) == LastRow(rows, {i \in DOMAIN rows : rows[i].doc = doc})
ProtectedDocs(rows) == {r.doc : r \in {x \in Range(rows) : x.protected}}
MaxDelay(rows, doc) ==
    LET row == RowFor(rows, doc) IN IF row = <<>> THEN 30 ELSE row[1].max_delay

-----------------------------------------------------------------------------
(* The gate *)

\* `overruled` is the set of [doc, role]: a conflict on the document was
\* resolved against that role.
Objections(entry, world, overruled) ==
    LET lever == entry.lever
        row == RowFor(world.rows, lever.doc)
        If(why, holds) == [why |-> why, holds |-> holds]
    IN  << If("protected", world.protection /\ lever.doc \in ProtectedDocs(world.rows)),
           If("overruled", [doc |-> lever.doc, role |-> entry.role] \in overruled),
           If("terms", lever.kind = "ap_defer" /\ row # <<>> /\ lever.delay > row[1].max_delay),
           If("capacity", lever.kind = "revolver_draw"
                          /\ lever.amount > world.position.available) >>
Refusals(entry, world, overruled) ==
    LET objections == Objections(entry, world, overruled)
    IN  {i \in DOMAIN objections : objections[i].holds}

\* The first objection that holds is the reason on record.
Gate(entries, world, overruled) ==
    LET Refused(i) == Refusals(entries[i], world, overruled) # {}
        out == Only(entries, {i \in DOMAIN entries : Refused(i)})
        Why(e) == Objections(e, world, overruled)[Min(Refusals(e, world, overruled))].why
    IN  [kept |-> Only(entries, {i \in DOMAIN entries : ~Refused(i)}),
         rejected |-> [k \in DOMAIN out |->
                         [lever |-> out[k].lever, role |-> out[k].role, why |-> Why(out[k])]]]

-----------------------------------------------------------------------------
(* Pricing *)

Shortfall(position) == Most(position.floor - position.min_cash, 0)

\* `discounts`: the rows at which something is forgone.
PricedRow(rows, doc) ==
    LastRow(rows, {i \in DOMAIN rows : rows[i].doc = doc /\ rows[i].forgone >= 0})
Forgone(rows, doc) ==
    LET row == PricedRow(rows, doc) IN IF row = <<>> THEN 0 ELSE row[1].forgone

Impact(lever, rows) ==
    IF lever.kind \notin INFLOW_KINDS THEN 0
    ELSE lever.amount - (IF lever.kind = "ap_defer" THEN Forgone(rows, lever.doc) ELSE 0)

NetImpact(levers, rows) ==
    SumOver([i \in DOMAIN levers |-> Impact(levers[i], rows)], DOMAIN levers)

Draw(amount, ref) ==
    [kind |-> "revolver_draw", doc |-> "none", party |-> "Lender", amount |-> amount,
     delay |-> -1, refs |-> ref]

\* mutant: sized to the shortfall, not to what the levers leave of it
ComposeDrawWhole(levers, shortfall, position) ==
    LET amount == Least(shortfall, position.available)
    IN  IF amount > 0 THEN <<Draw(amount, position.refs)>> ELSE <<>>
\* _compose_draw: the residual gap or the facility, whichever is smaller.
ComposeDraw(levers, shortfall, position) ==
    LET residual == shortfall - NetImpact(levers, <<>>)
        amount == Least(residual, position.available)
    IN  IF shortfall > 0 /\ residual > 0 /\ amount > 0
        THEN <<Draw(amount, position.refs)>> ELSE <<>>

-----------------------------------------------------------------------------
(* Scoring: every objective is 0..100 with three decimals *)

Hundred == 100000
WEIGHTS ==
    [shortfall_closed |-> 40, financing_load |-> 15, supplier_disruption |-> 15,
     customer_relationship |-> 10, covenant_headroom |-> 10, operational_risk |-> 10]

Pct(numerator, denominator) ==
    IF denominator <= 0 THEN Hundred
    ELSE Least(Hundred, (Most(numerator, 0) * Hundred) \div denominator)

PlacesOf(levers, kinds) == {i \in DOMAIN levers : levers[i].kind \in kinds}
Drawn(levers) ==
    SumOver([i \in DOMAIN levers |-> levers[i].amount], PlacesOf(levers, {"revolver_draw"}))

Closed(position, impact) == Pct(impact, Shortfall(position))
Financing(levers, position) == Hundred - Pct(Drawn(levers), Most(position.available, 1))
Supplier(levers, rows) ==
    LET Stretch(l) ==
            (Most(l.delay, 0) * Hundred) \div Most(MaxDelay(rows, l.doc), 1)
            + (IF RowFor(rows, l.doc) # <<>> /\ MaxDelay(rows, l.doc) <= 7 THEN 50000 ELSE 0)
        stretches == [i \in DOMAIN levers |-> Stretch(levers[i])]
    IN  Hundred - Least(Hundred, SumOver(stretches, PlacesOf(levers, {"ap_defer"})) \div 2)
Customer(levers) ==
    Hundred - Least(Hundred, 20000 * Cardinality(PlacesOf(levers, {"dispute_resolution"}))
                             + 5000 * Cardinality(PlacesOf(levers, {"collection_call"})))
\* The facility's limit falls out of what is undrawn and how much is used.
FacilityLimit(position) ==
    IF position.utilization >= 100 THEN Most(position.available, 1)
    ELSE Most((position.available * 100) \div (100 - position.utilization), 1)
Covenant(levers, position) ==
    Most(0, Hundred - (position.utilization * 1000
                       + Pct(Drawn(levers), FacilityLimit(position))))
Operational(levers) == Hundred - Least(Hundred, 12000 * Most(Len(levers) - 2, 0))

\* In tenths of a point.
Score(levers, impact, position, rows) ==
    Rounded(WEIGHTS.shortfall_closed * Closed(position, impact)
            + WEIGHTS.financing_load * Financing(levers, position)
            + WEIGHTS.supplier_disruption * Supplier(levers, rows)
            + WEIGHTS.customer_relationship * Customer(levers)
            + WEIGHTS.covenant_headroom * Covenant(levers, position)
            + WEIGHTS.operational_risk * Operational(levers), 10000)

-----------------------------------------------------------------------------
(* Composition *)

Strategy(id, levers, world) ==
    LET impact == NetImpact(levers, world.rows)
    IN  [id |-> id, levers |-> levers, impact |-> impact,
         projected |-> world.position.min_cash + impact,
         score |-> Score(levers, impact, world.position, world.rows)]

OfKinds(levers, kinds) == Only(levers, PlacesOf(levers, kinds))

\* Four shapes.
Bundles(levers, position) ==
    LET receivables == OfKinds(levers, AR_KINDS)
        subscriptions == OfKinds(levers, DODO_KINDS)
        payables == OfKinds(levers, {"ap_defer"})
        receipts == receivables \o subscriptions
        Bundle(id, composed) == [id |-> id, levers |-> composed]
    IN  << Bundle("receivables-first", receipts),
           Bundle("working-capital", receipts \o payables),
           Bundle("financing-bridge",
                  receipts \o ComposeDraw(receipts, Shortfall(position), position)),
           Bundle("no-subscription", receivables \o payables) >>

\* compose(): the empty ones are left out.  The composition keeps the rows it
\* was priced on.
Compose(entries, world, overruled) ==
    LET gated == Gate(entries, world, overruled)
        levers == [k \in DOMAIN gated.kept |-> gated.kept[k].lever]
        bundles == Bundles(levers, world.position)
        filled == Only(bundles, {b \in DOMAIN bundles : bundles[b].levers # <<>>})
    IN  [strategies |-> [k \in DOMAIN filled |->
                           Strategy(filled[k].id, filled[k].levers, world)],
         rejected |-> gated.rejected, rows |-> world.rows, position |-> world.position]

\* Composition.ranked(): best score first.
Ranked(comp) ==
    LET S == comp.strategies
        order == LargestFirst([i \in DOMAIN S |-> S[i].score])
    IN  [p \in DOMAIN S |-> S[order[p]]]

-----------------------------------------------------------------------------
(* The rows *)

\* How a row's text begins, which is all that is left of the lever's kind.
Described ==
    [collection_call |-> "call", dispute_resolution |-> "resolve the dispute",
     early_pay_discount |-> "offer early-pay", ap_defer |-> "defer", ap_accelerate |-> "pay",
     dodo_retry |-> "retry the cohort", dodo_dunning |-> "run dunning",
     revolver_draw |-> "draw", assumption_review |-> "rationale"]

\* _ordered: largest amount first.
Ordered(levers) ==
    LET order == LargestFirst([i \in DOMAIN levers |-> levers[i].amount])
    IN  [p \in DOMAIN levers |-> levers[order[p]]]

\* to_worklist: `cited` are the references of the findings' evidence.
ToWorklist(strategy, rows, cited) ==
    LET ordered == Ordered(strategy.levers)
    IN  [seq \in DOMAIN ordered |->
            LET lever == ordered[seq]
            IN  [text |-> Described[lever.kind], doc |-> lever.doc, amount |-> lever.amount,
                 owner |-> OWNERS[lever.kind], due |-> DEFAULT_DUE_DAYS[lever.kind],
                 impact |-> Impact(lever, rows), evidence |-> lever.refs \cap cited]]
=============================================================================
