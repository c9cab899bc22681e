--------------------------- MODULE Recommendation ---------------------------
(***************************************************************************)
(* The data path of one War Room: the Commander's plan, the two waves, the *)
(* composition, the stress tests and the recommendation                    *)
(* (backend/orchestrator/investigation.py), and the approval pack made     *)
(* from it later (api/session.py, orchestrator/approvals.py).              *)
(*                                                                         *)
(* Every step reads the tenant's world afresh, and the world may move      *)
(* between two steps: a bill becomes protected, the facility is drawn, the *)
(* forecast is rolled.  Investigation.tla has the phases, the deadline and *)
(* the degradations; Conflicts.tla decides who is overruled; AgentWave.tla *)
(* the concurrency.  Here it is what each step computes from what it read. *)
(***************************************************************************)
EXTENDS Specialists, Worklist

CONSTANTS
    Names,       \* what documents, parties and references are called
    Worlds,      \* what the tools can answer from
    Manifests,   \* sets of connected sources
    Kinds,       \* sets of constraint kinds a breach can carry
    Raws,        \* Raws[role]: what the model may send back for that role
    MaxReplans,  \* max_replans
    MaxMoves     \* bound: how often the world moves during one War Room

\* What a provider hands over: `sent` says what came back, the rest are the
\* fields of an AgentFinding; one the model leaves out has its default.
RawFields == {"agent", "sent", "status", "evidence", "rejects", "followup", "long",
              "confidence", "levers"}

\* A ProposedAction, a deferral candidate, a liquidity position and a measured
\* error.  An amount of Money has either sign; an error is measured without.
Levers == [kind : ActionKinds, doc : Names, party : Names, amount : Int, delay : Int,
           refs : SUBSET Names]
Candidate == [doc : Names, supplier : Names, ref : Names, protected : BOOLEAN,
              max_delay : Int, amount : Int, forgone : Int]
Position == [min_cash : Int, week : Int, floor : Int, available : Int, utilization : Int,
             refs : SUBSET Names]
ErrorPercentile == [category : Names, horizon : Int, p90 : Nat]

ASSUME RecommendationAssumption ==
    /\ {"none", "Lender"} \subseteq Names
    /\ \A r \in Specialists : \A raw \in Raws[r] :
          DOMAIN raw = RawFields /\ raw.levers \in Seq(Levers)
    /\ \A w \in Worlds :
          /\ w.rows \in Seq(Candidate) /\ w.position \in Position
          /\ IsFiniteSet(w.percentiles) /\ w.percentiles \subseteq ErrorPercentile
    /\ MaxReplans \in Nat /\ MaxMoves \in Nat
    /\ \A m \in Manifests : m \subseteq Sources
    /\ \A ks \in Kinds : ks \subseteq BreachKinds

VARIABLES
    step,      \* where the War Room is, "raised" when an exception ended it
    provider,  \* the process-wide LLM provider
    world,     \* what the tools answer from now
    moves,     \* how often it has moved
    dispatch,  \* the Commander's Dispatch: plan, skips, whether the model chose
    manifest,  \* the manifest the Commander surveyed
    gathered,  \* what each specialist instance kept of its gather
    answered,  \* what the model sent each of them
    runs,      \* the AgentRuns of both waves
    overruled, \* who lost which document
    comp,      \* the Composition
    position,  \* the position the stress tests use
    reports,   \* the StressReports, in order
    rec,       \* the Recommendation
    pack       \* the ApprovalPack

agents == <<gathered, answered, runs>>
answer == <<comp, position, reports, rec>>
vars == <<step, provider, world, moves, dispatch, manifest, agents, overruled, answer, pack>>

Nobody == [r \in {} |-> {}]
NoComposition == [strategies |-> <<>>, rejected |-> <<>>, rows |-> <<>>, position |-> <<>>]
NoRecommendation == [id |-> "none", worklist |-> <<>>, impact |-> 0]
NoPack == [rows |-> <<>>, failed |-> FALSE]

Init ==
    /\ step = "plan"
    /\ provider \in {"gemini", "replay"}
    /\ world \in Worlds /\ moves = 0
    /\ dispatch = [plan |-> NoPlan, skipped |-> Nobody, model_selected |-> TRUE]
    /\ manifest = {}
    /\ gathered = Nobody /\ answered = Nobody /\ runs = Nobody
    /\ overruled = {}
    /\ comp = NoComposition /\ position = <<>> /\ reports = <<>>
    /\ rec = NoRecommendation /\ pack = NoPack

\* The books change under the War Room.
WorldMoves ==
    /\ moves < MaxMoves /\ step \notin {"plan", "packed", "raised"}
    /\ world' \in Worlds \ {world}
    /\ moves' = moves + 1
    /\ UNCHANGED <<step, provider, dispatch, manifest, agents, overruled, answer, pack>>

-----------------------------------------------------------------------------
(* Planning and the two waves *)

\* Commander.plan.  With no runnable plan it raises and the War Room is lost.
Plan ==
    /\ step = "plan"
    /\ \E m \in Manifests, kinds \in Kinds, choice \in Answers :
        /\ dispatch' = Selected(m, kinds, choice)
        /\ manifest' = m
    /\ step' = IF dispatch'.plan = NoPlan THEN "raised" ELSE "wave one"
    /\ UNCHANGED <<provider, world, moves, agents, overruled, answer, pack>>

FirstWave == Invoked(dispatch.plan) \ {"supplier_risk"}
SecondWave == Invoked(dispatch.plan) \cap {"supplier_risk"}

\* What a wave adds; the entries of other agents stay.
Joined(f, g) == [r \in DOMAIN f \cup DOMAIN g |-> IF r \in DOMAIN g THEN g[r] ELSE f[r]]
GatherAll(roles) == gathered' = Joined(gathered, [r \in roles |-> Gather(r, world)])
AnswerAll(roles) ==
    \E raw \in [roles -> UNION {Raws[r] : r \in roles}] :
        /\ \A r \in roles : raw[r] \in Raws[r]
        /\ answered' = Joined(answered, raw)
        /\ runs' = Joined(runs, [r \in roles |->
                                   RunOf(provider, r, gathered[r], world, raw[r])])

Wave(now, roles, next) ==
    /\ step = now /\ step' = next
    /\ GatherAll(roles)
    /\ UNCHANGED <<provider, world, moves, dispatch, manifest, answered, runs, overruled,
                   answer, pack>>
Answer(now, roles, next) ==
    /\ step = now /\ step' = next
    /\ AnswerAll(roles)
    /\ UNCHANGED <<provider, world, moves, dispatch, manifest, gathered, overruled,
                   answer, pack>>

Investigate ==
    \/ Wave("wave one", FirstWave, "answer one")
    \/ Answer("answer one", FirstWave, IF SecondWave = {} THEN "resolve" ELSE "wave two")
    \/ Wave("wave two", SecondWave, "answer two")
    \/ Answer("answer two", SecondWave, "resolve")

\* Dispatch.findings: the runs that reported, wave by wave.
Dispatched ==
    LET invokes == dispatch.plan.invokes
    IN  Only(invokes, {i \in DOMAIN invokes : invokes[i] # "supplier_risk"})
        \o (IF SecondWave = {} THEN <<>> ELSE <<"supplier_risk">>)
Reported == Only(Dispatched, {i \in DOMAIN Dispatched : runs[Dispatched[i]].reported})
\* The levers of the findings in the findings' order: finding i, action j.
Proposed == UNION {{i} \X DOMAIN runs[Reported[i]].levers : i \in DOMAIN Reported}
Entries ==
    LET order == SortedBy(Proposed, LAMBDA p, q : \/ p[1] < q[1]
                                                  \/ p[1] = q[1] /\ p[2] < q[2])
        Entry(p) == [role |-> Reported[p[1]], lever |-> runs[Reported[p[1]]].levers[p[2]]]
    IN  [k \in DOMAIN order |-> Entry(order[k])]
CitedByFindings == UNION {runs[r].evidence : r \in Range(Reported)}

\* Supplier Risk's rejections, upheld or not, document by document.
Contested ==
    IF "supplier_risk" \in Range(Reported) /\ runs["supplier_risk"].rejects
    THEN {[doc |-> e.lever.doc, role |-> e.role] :
            e \in {x \in Range(Entries) : x.role = "ap_optimization" /\ x.lever.doc # "none"}}
    ELSE {}
Resolve ==
    /\ step = "resolve" /\ step' = "compose"
    /\ overruled' \in SUBSET Contested
    /\ UNCHANGED <<provider, world, moves, dispatch, manifest, agents, answer, pack>>

\* _compose.  The specialists' instances are gone from here on.
ComposeStep ==
    /\ step = "compose" /\ step' = "stress"
    /\ comp' = Compose(Entries, world, overruled)
    /\ gathered' = Nobody /\ answered' = Nobody
    /\ UNCHANGED <<provider, world, moves, dispatch, manifest, runs, overruled, position,
                   reports, rec, pack>>

-----------------------------------------------------------------------------
(* Stress *)

CATEGORY_KINDS == [ar_collections |-> AR_KINDS, dodo_receipts |-> DODO_KINDS]
COMBINED_ID == "combined"
Abs(n) == IF n < 0 THEN -n ELSE n

\* calibrate(): per category the nearest measured horizon at or beyond the
\* trough, else the nearest; together they make the combined case.
Horizon(rows, trough) ==
    LET beyond == {r \in rows : r.horizon >= trough}
        pool == IF beyond = {} THEN rows ELSE beyond
    IN  CHOOSE r \in pool : \A s \in pool : Abs(r.horizon - trough) <= Abs(s.horizon - trough)
Calibrate(percentiles, trough) ==
    LET measured == {p.category : p \in percentiles} \cap DOMAIN CATEGORY_KINDS
        Shift(c) == -Horizon({p \in percentiles : p.category = c}, trough).p90
        combined == IF Cardinality(measured) > 1 THEN {COMBINED_ID} ELSE {}
    IN  [c \in measured \cup combined |->
            IF c \in measured THEN Shift(c) ELSE Min({Shift(m) : m \in measured})]

Shifts(stressor, menu) ==
    [c \in IF stressor = COMBINED_ID THEN DOMAIN menu \ {COMBINED_ID} ELSE {stressor} |->
        menu[c]]

\* apply(), in hundredths: a shift moves only the levers its category governs,
\* and moves what they claim to raise before any discount.
Stressed(lever, shifts) ==
    LET governed == {c \in DOMAIN shifts : lever.kind \in CATEGORY_KINDS[c]}
    IN  IF governed = {} THEN 100 * lever.amount
        ELSE (100 + shifts[CHOOSE c \in governed : TRUE]) * lever.amount
Headroom(strategy, stressor, menu) ==
    100 * (position.min_cash - position.floor)
    + SumOver([i \in DOMAIN strategy.levers |->
                  Stressed(strategy.levers[i], Shifts(stressor, menu))], DOMAIN strategy.levers)

\* StressTester.run: what the model names on the menu, or all of it.
Report(strategy, picked) ==
    LET menu == IF "get_forecast_error_percentiles" \in world.broken THEN Nobody
                ELSE Calibrate(world.percentiles, position.week)
        chosen == IF picked \cap DOMAIN menu = {} THEN DOMAIN menu ELSE picked \cap DOMAIN menu
    IN  [id |-> strategy.id, model_selected |-> picked \cap DOMAIN menu # {},
         headroom |-> [s \in chosen |-> Headroom(strategy, s, menu)]]
Passed(report) == \A s \in DOMAIN report.headroom : report.headroom[s] >= 0

Candidates == SubSeq(Ranked(comp), 1, Min({MaxReplans + 1, Len(comp.strategies)}))
Survivor == reports # <<>> /\ Passed(Last(reports))

\* The position is read once, before the first test.
ReadPosition ==
    /\ step = "stress" /\ position = <<>>
    /\ position' = world.position
    /\ UNCHANGED <<step, provider, world, moves, dispatch, manifest, agents, overruled, comp,
                   reports, rec, pack>>
Test ==
    /\ step = "stress" /\ position # <<>>
    /\ ~Survivor /\ Len(reports) < Len(Candidates)
    /\ \E picked \in SUBSET (DOMAIN CATEGORY_KINDS \cup {COMBINED_ID}) :
          reports' = Append(reports, Report(Candidates[Len(reports) + 1], picked))
    /\ UNCHANGED <<step, provider, world, moves, dispatch, manifest, agents, overruled, comp,
                   position, rec, pack>>
\* A survivor, no bundle left to try, or no time left to try it.
StopTesting ==
    /\ step = "stress" /\ position # <<>>
    /\ step' = "recommend"
    /\ UNCHANGED <<provider, world, moves, dispatch, manifest, agents, overruled, answer, pack>>

-----------------------------------------------------------------------------
(* The recommendation and the approval pack *)

\* The rows are rendered from the candidates the bundles were priced on.
RowsOf(chosen) == ToWorklist(chosen, comp.rows, CitedByFindings)

Recommend ==
    /\ step = "recommend"
    /\ LET ranked == Ranked(comp)
           chosen == IF Survivor THEN ranked[Len(reports)] ELSE ranked[1]
       IN  rec' = IF ranked = <<>> THEN [NoRecommendation EXCEPT !.id = "none-feasible"]
                  ELSE [id |-> chosen.id, worklist |-> RowsOf(chosen), impact |-> chosen.impact]
    /\ step' = "pack"
    /\ position' = <<>> /\ reports' = <<>>
    /\ UNCHANGED <<provider, world, moves, dispatch, manifest, agents, overruled, comp, pack>>

AUTO_SAFE_KINDS == {"collection_call", "dodo_retry", "dodo_dunning"}
ALWAYS_GATED == {"revolver_draw", "ap_defer", "early_pay_discount"}

\* _kind_of: the kind is read back from the row's text.
KindOf(row) == CHOOSE k \in ActionKinds : Described[k] = row.text

\* doa_matrix.yaml; no upper bound is <<>>.
Band(class, lower, upper, accountable) ==
    [class |-> class, lower |-> lower, upper |-> upper, accountable |-> accountable,
     blocked |-> FALSE]
Routes ==
    { Band("collection_call", 0, <<>>, "analyst"), Band("dodo_retry", 0, <<>>, "analyst"),
      Band("dodo_dunning", 0, <<>>, "analyst"), Band("dispute_resolution", 0, <<>>, "treasurer"),
      Band("early_pay_discount_le_2pct", 0, <<>>, "treasurer"),
      Band("early_pay_discount_gt_2pct", 0, <<>>, "cfo"),
      Band("ap_defer", 0, <<25>>, "treasurer"), Band("ap_defer", 25, <<100>>, "cfo"),
      Band("ap_defer", 100, <<>>, "cfo"), Band("ap_accelerate", 0, <<>>, "treasurer"),
      Band("revolver_draw", 0, <<200>>, "cfo"), Band("revolver_draw", 200, <<>>, "board"),
      Band("assumption_review", 0, <<>>, "treasurer"),
      [Band("protected_payment_class", 0, <<>>, "cfo") EXCEPT !.blocked = TRUE] }

\* mutant: bands closed at both ends
CoversClosed(route, amount) ==
    route.lower <= amount /\ (route.upper = <<>> \/ amount <= route.upper[1])
Covers(route, amount) ==
    route.lower <= amount /\ (route.upper = <<>> \/ amount < route.upper[1])

\* route_approval raises unless exactly one band matches.
RoutesFor(class, amount) == {r \in Routes : r.class = class /\ Covers(r, amount)}

\* _discount_pct, in basis points
DiscountBps(priced) ==
    IF priced.amount = 0 THEN 0 ELSE Rounded(10000 * priced.forgone, priced.amount)

\* Early-pay is banded on a rate only the deferral candidates carry; an unknown
\* rate is an expensive one.
ActionClass(row, rows) ==
    LET priced == PricedRow(rows, row.doc)
        cheap == priced # <<>> /\ DiscountBps(priced[1]) <= 200
    IN  IF row.doc \in ProtectedDocs(rows) THEN "protected_payment_class"
        ELSE IF KindOf(row) # "early_pay_discount" THEN KindOf(row)
        ELSE IF cheap THEN "early_pay_discount_le_2pct" ELSE "early_pay_discount_gt_2pct"

Classify(row, rows) ==
    IF row.doc \in ProtectedDocs(rows) THEN "blocked"
    ELSE IF KindOf(row) \in AUTO_SAFE_KINDS THEN "auto_safe" ELSE "requires_approval"

\* prepare(), row by row.  A card cites the row's evidence, or a stand-in.
Prepared(row, rows) ==
    LET risk == Classify(row, rows)
        route == CHOOSE r \in RoutesFor(ActionClass(row, rows), row.amount) : TRUE
    IN  [doc |-> row.doc, kind |-> KindOf(row), amount |-> row.amount,
         status |-> CASE risk = "auto_safe" -> "queued" [] risk = "blocked" -> "rejected"
                      [] OTHER -> "needs_approval",
         card |-> IF risk = "auto_safe" THEN <<>>
                  ELSE <<[required |-> route.accountable,
                          state |-> IF route.blocked THEN "blocked" ELSE "pending"]>>]
Routable(row, rows) ==
    Classify(row, rows) = "auto_safe"
    \/ Cardinality(RoutesFor(ActionClass(row, rows), row.amount)) = 1

\* approval_pack: the candidates are read again.
PreparePack ==
    /\ step = "pack" /\ step' = "packed"
    /\ LET rows == rec.worklist IN
       pack' = IF \A i \in DOMAIN rows : Routable(rows[i], world.rows)
               THEN [rows |-> [i \in DOMAIN rows |-> Prepared(rows[i], world.rows)],
                     failed |-> FALSE]
               ELSE [NoPack EXCEPT !.failed = TRUE]
    /\ UNCHANGED <<provider, world, moves, dispatch, manifest, agents, overruled, answer>>

Next == WorldMoves \/ Plan \/ Investigate \/ Resolve \/ ComposeStep \/ ReadPosition \/ Test
        \/ StopTesting \/ Recommend \/ PreparePack

Spec == Init /\ [][Next]_vars
-----------------------------------------------------------------------------
(* Properties *)

\* Whatever the model answers and whatever the tenant has connected, each of
\* the six specialists is either invoked, with its source there to read, or
\* skipped with the true reason; and a plan nobody chose is never narrower
\* than another one that could have run (plans.py, skips and fallback_plan).
EverySpecialistAccountedFor ==
    dispatch.plan # NoPlan =>
        /\ Invoked(dispatch.plan) \cup DOMAIN dispatch.skipped = Specialists
        /\ \A r \in Invoked(dispatch.plan) : ROLE_SOURCES[r] \in manifest
        /\ \A r \in DOMAIN dispatch.skipped :
              (dispatch.skipped[r] = "source missing") <=> ROLE_SOURCES[r] \notin manifest
        /\ ~dispatch.model_selected =>
              \A i \in AvailablePlans(manifest) :
                 Len(PLAN_CATALOGUE[i].invokes) <= Len(dispatch.plan.invokes)

\* A lever of the AP agent goes forward only from a proposal in which no
\* deferral touched, by document, supplier or citation, a payment that was
\* protected when the agent read the candidates (ap_optimization.py, review).
RefusalIsWhole ==
    \A r \in DOMAIN answered \cap {"ap_optimization"} :
        runs[r].levers # <<>> =>
            \A i \in DOMAIN answered[r].levers :
                answered[r].levers[i].kind = "ap_defer" =>
                    ~TouchesProtected(gathered[r], answered[r].levers[i])

\* The draw code adds to a bundle never exceeds the facility and never lifts
\* the projection above the floor; when it leaves the floor unmet it has used
\* the whole facility (worklist.py, _compose_draw).
DrawIsSizedToTheGap ==
    \A s \in Range(comp.strategies) :
        LET drawn == Drawn(s.levers) IN
        drawn > 0 =>
            /\ drawn <= comp.position.available
            /\ s.projected <= comp.position.floor
            /\ s.projected < comp.position.floor => drawn = comp.position.available

\* The combined case is at least as hard on a bundle as each stressor it
\* combines, so a bundle that passes it has not been flattered, provided that
\* no lever claims a negative amount (stress.py, _shifts and apply).
CombinedIsTheWorst ==
    \A i \in DOMAIN reports :
        LET h == reports[i].headroom
            levers == Candidates[i].levers
        IN  COMBINED_ID \in DOMAIN h /\ (\A j \in DOMAIN levers : levers[j].amount >= 0) =>
                \A s \in DOMAIN h : h[COMBINED_ID] <= h[s]

\* The rows of the worklist add up to what the recommended bundle was said to
\* raise, even if the candidates changed after it was priced (worklist.py,
\* Composition.candidates).
RowsAddUpToTheBundle ==
    rec.impact = SumOver([i \in DOMAIN rec.worklist |-> rec.worklist[i].impact],
                         DOMAIN rec.worklist)

\* When the cards are made no row on a payment that is protected by then is
\* queued or up for approval, and no deferral, discount or draw is queued
\* without a card someone has to sign (approvals.py, classify and prepare).
LiveRowsAreCleared ==
    step = "packed" =>
        \A row \in Range(pack.rows) :
            /\ row.doc \in ProtectedDocs(world.rows) =>
                  row.status = "rejected" /\ row.card[1].state = "blocked"
            /\ row.kind \in ALWAYS_GATED => row.card # <<>>

Authority == [analyst |-> 1, treasurer |-> 2, cfo |-> 3, board |-> 4]
\* Every row that has to be signed falls in exactly one band, on the boundaries
\* too, so the pack fails only over an amount below zero, which Money admits;
\* and of two rows of one kind the larger never needs the lesser signature,
\* except for early-pay, which is banded on its rate (doa_matrix.yaml,
\* controls.route_approval).
EveryRowFindsItsBand ==
    step = "packed" =>
        /\ pack.failed <=> \E i \in DOMAIN rec.worklist :
                               /\ Classify(rec.worklist[i], world.rows) # "auto_safe"
                               /\ rec.worklist[i].amount < 0
        /\ \A a, b \in Range(pack.rows) :
             a.kind = b.kind /\ a.kind # "early_pay_discount" /\ a.amount <= b.amount
             /\ a.status = "needs_approval" /\ b.status = "needs_approval" =>
                Authority[a.card[1].required] <= Authority[b.card[1].required]

\* A protected payment is out of reach from the agent's answer to the cards, even
\* if it became protected only after the bundle was priced.
ProtectedStaysProtected == RefusalIsWhole /\ LiveRowsAreCleared

\* The sums on the recommendation hold together: the draw closes the gap and no
\* more, the combined stress flatters nobody, and the rows make up the total.
FiguresAddUp == DrawIsSizedToTheGap /\ CombinedIsTheWorst /\ RowsAddUpToTheBundle
=============================================================================
