----------------------------- MODULE WeeklyCycle -----------------------------
(***************************************************************************)
(* backend/orchestrator/cycle.py and policy.py: one Monday.  Steps 1 to 7  *)
(* run on their own and stop at the review gate; step 10 checks policy     *)
(* once the treasurer has published.  Each step awaits one tool, and the   *)
(* book it reads may be loaded again between two of them.                  *)
(***************************************************************************)
EXTENDS Toolset

CONSTANTS Books,           \* the books a tenant may hold
          Reloads,         \* bound: loads that happen during the cycle
          LiquidityWeeks   \* LIQUIDITY_HORIZON_WEEKS

ASSUME CycleAssumption ==
    /\ \A b \in Books : BookOK(b)
    /\ Reloads \in Nat
    /\ LiquidityWeeks \in Nat \ {0}

VARIABLES book,      \* what the tools read from
          reloads,
          runner,    \* is there an agent runtime?
          pc,        \* the step to run next, or where the cycle stands
          position, bridge, drivers, forecast,   \* what the steps read
          cited,     \* categories whose bridge row the finding cites
          gaps,      \* degradation reasons
          queue,     \* the exceptions, in order
          feed,      \* events: <<kind, what>>
          check      \* the PolicyCheck

CycleVars == <<book, reloads, runner, pc, position, bridge, drivers, forecast, cited,
          gaps, queue, feed, check>>

read == <<position, bridge, drivers, forecast>>

Nothing == [nothing |-> TRUE]
EmptyBridge == [total |-> 0, shown |-> [rows |-> <<>>, of |-> 0]]

Shown(b) == Range(b.shown.rows)
Material(b) == {r.category : r \in {s \in Shown(b) : s.material}}

CycleInit ==
    /\ book \in Books
    /\ reloads = 0
    /\ runner \in BOOLEAN
    /\ pc = "actuals"
    /\ position = Nothing /\ bridge = Nothing /\ drivers = Nothing /\ forecast = Nothing
    /\ cited = {} /\ gaps = {} /\ queue = <<>> /\ feed = <<>>
    /\ check = Nothing

Emit(events) == feed' = feed \o events
Done(step) == <<<<"step", step>>>>
DegradedBy(what) == <<<<"degraded", what>>>>

(***************************************************************************)
(* Steps 1 to 7.                                                           *)
(***************************************************************************)
\* a ToolError of the first step takes the cycle down
RefreshActuals ==
    /\ pc = "actuals"
    /\ position' = Position(book)
    /\ IF position' = Refused
       THEN pc' = "failed" /\ UNCHANGED feed
       ELSE pc' = "bridge" /\ Emit(Done(1))
    /\ UNCHANGED <<book, reloads, runner, bridge, drivers, forecast, cited, gaps, queue, check>>

\* mutant: a refused bridge is not handled and the cycle hangs on it
BuildBridgeOrHang ==
    /\ pc = "bridge"
    /\ Bridge(book) # Refused
    /\ bridge' = Bridge(book)
    /\ Emit(Done(2))
    /\ pc' = "explain"
    /\ UNCHANGED <<book, reloads, runner, position, drivers, forecast, cited, gaps, queue, check>>

\* a book without a prior version has no bridge: a stated gap, not a broken cycle
BuildBridge ==
    /\ pc = "bridge"
    /\ LET built == Bridge(book) IN
       IF built = Refused
       THEN /\ bridge' = EmptyBridge
            /\ gaps' = gaps \cup {"variance"}
            /\ Emit(DegradedBy("variance") \o Done(2))
       ELSE bridge' = built /\ UNCHANGED gaps /\ Emit(Done(2))
    /\ pc' = "explain"
    /\ UNCHANGED <<book, reloads, runner, position, drivers, forecast, cited, queue, check>>

\* _explain before its await: nothing to explain, nobody to explain it, or a lane opened
AskForExplanation ==
    /\ pc = "explain"
    /\ CASE Material(bridge) = {} ->
                pc' = "drivers" /\ UNCHANGED gaps /\ Emit(Done(3))
         [] Material(bridge) # {} /\ ~runner ->
                pc' = "drivers" /\ gaps' = gaps \cup {"explanation"} /\ Emit(Done(3))
         [] OTHER ->
                pc' = "explaining" /\ UNCHANGED gaps /\ Emit(<<<<"lane", "started">>>>)
    /\ UNCHANGED <<book, reloads, runner, cited, queue, check>> /\ UNCHANGED read

\* what a timed-out explanation leaves on the feed: the cycle closes the lane itself
LaneClosedByCycle == <<<<"lane", "timeout">>>> \o Done(3)

ExplanationTimesOut ==
    /\ pc = "explaining"
    /\ gaps' = gaps \cup {"explanation"}
    /\ Emit(LaneClosedByCycle)
    /\ pc' = "drivers"
    /\ UNCHANGED <<book, reloads, runner, cited, queue, check>> /\ UNCHANGED read

\* the runner closes the lane; a run that is not complete explains nothing
ExplanationFails ==
    /\ pc = "explaining"
    /\ gaps' = gaps \cup {"explanation"}
    /\ Emit(<<<<"lane", "failed">>>> \o Done(3))
    /\ pc' = "drivers"
    /\ UNCHANGED <<book, reloads, runner, cited, queue, check>> /\ UNCHANGED read

\* _attach: matched on the row a citation names, never on the category it claims
ExplanationArrives(rows) ==
    /\ pc = "explaining"
    /\ rows \subseteq {r.category : r \in Shown(bridge)}
    /\ cited' = rows
    /\ Emit(<<<<"lane", "complete">>>> \o Done(3))
    /\ pc' = "drivers"
    /\ UNCHANGED <<book, reloads, runner, gaps, queue, check>> /\ UNCHANGED read

RefreshDrivers ==
    /\ pc = "drivers"
    /\ drivers' = Drivers(book)
    /\ pc' = "reforecast"
    /\ Emit(Done(4))
    /\ UNCHANGED <<book, reloads, runner, position, bridge, forecast, cited, gaps, queue, check>>

Reforecast ==
    /\ pc = "reforecast"
    /\ forecast' = Summary(book)
    /\ pc' = "accuracy"
    /\ Emit(Done(5))
    /\ UNCHANGED <<book, reloads, runner, position, bridge, drivers, cited, gaps, queue, check>>

\* the gap a refused accuracy read leaves
AccuracyGap(refused) == IF refused THEN {"accuracy"} ELSE {}

UpdateAccuracy ==
    /\ pc = "accuracy"
    /\ LET gap == AccuracyGap(Percentiles(book, 1) = Refused) IN
       /\ gaps' = gaps \cup gap
       /\ Emit((IF gap = {} THEN <<>> ELSE DegradedBy("accuracy")) \o Done(6))
    /\ pc' = "surface"
    /\ UNCHANGED <<book, reloads, runner, cited, queue, check>> /\ UNCHANGED read

\* mutant: only rows the agent failed on are surfaced, not rows it left out
UnexplainedIfFailed == IF "explanation" \in gaps THEN Material(bridge) ELSE {}

\* material rows nobody cited; every one of them when there is no finding
Unexplained == Material(bridge) \ cited

StaleDrivers == {r.driver : r \in {d \in Range(drivers.rows) : d.stale}}

\* the order two exception ids of one severity take as text: breach-w10 before breach-w2
TextBefore(a, b) ==
    LET key(n) == IF n < 10 THEN <<n, -1>> ELSE <<n \div 10, n % 10>>
    IN  \/ key(a)[1] < key(b)[1]
        \/ key(a)[1] = key(b)[1] /\ key(a)[2] < key(b)[2]

Tagged(kind, subjects) == [i \in DOMAIN subjects |-> <<kind, subjects[i]>>]

\* _surface_exceptions: weeks that breach, stale drivers, deltas unaccounted for
Listed(breaching, stale, unexplained) ==
    Tagged("breach", SortedBy(breaching, TextBefore))
      \o Tagged("stale", SortedBy(stale, <))
      \o Tagged("unexplained", SortedBy(unexplained, LAMBDA a, b : RankOf(a) < RankOf(b)))

Exceptions == Listed(forecast.breaching, StaleDrivers, Unexplained)

\* each degradation is announced once more with the result
SurfaceExceptions ==
    /\ pc = "surface"
    /\ queue' = Exceptions
    /\ Emit(Done(7) \o [i \in 1..Cardinality(gaps) |-> <<"degraded", "cycle">>])
    /\ pc' = "review"
    /\ UNCHANGED <<book, reloads, runner, cited, gaps, check>> /\ UNCHANGED read

(***************************************************************************)
(* Step 9 is the treasurer's (MondaySession has the ledger), step 10 reads *)
(* the constraints and the covenants as they are now and judges the        *)
(* figures the cycle read.                                                 *)
(***************************************************************************)
Publish ==
    /\ pc = "review"
    /\ pc' = "published"
    /\ UNCHANGED <<book, reloads, runner, cited, gaps, queue, feed, check>> /\ UNCHANGED read

\* mutant: liquidity is read at the thirty-day mark instead of on the way to it
LiquidityAtTheMark == forecast.closing[Min({LiquidityWeeks, Horizon})] + position.revolver

\* _check_30d_liquidity: the trough of four whole weeks plus what may still be drawn
LiquidityIn30Days ==
    LET weeks == 1..Min({LiquidityWeeks, Horizon})
    IN  forecast.closing[TroughWeek(forecast.closing, weeks)] + position.revolver

Judged(holds) == IF holds THEN "passed" ELSE "breached"
CheckMinCash(c) ==
    Judged(forecast.closing[TroughWeek(forecast.closing, Weeks)] >= c.threshold)
Check30dLiquidity(c) == Judged(LiquidityIn30Days >= c.threshold)
\* cross-multiplied, so nothing is rounded
CheckRevolver(c) == Judged(position.drawn * Bps <= c.threshold * position.limit)
\* the engine's answer on the covenants it tested
CheckCovenants(covenants) ==
    IF covenants = Refused \/ covenants.tested = {} THEN "unchecked"
    ELSE Judged(covenants.breached = {})

\* _check_one
CheckOne(c, covenants) ==
    CASE c.kind = "min_cash" -> CheckMinCash(c)
      [] c.kind = "min_30d_liquidity" -> Check30dLiquidity(c)
      [] c.kind = "max_revolver_utilization" -> CheckRevolver(c)
      [] c.kind = "covenant_ratio" -> CheckCovenants(covenants)
      [] OTHER -> "unchecked"

\* check_policy
CheckPolicy(constraints, covenants) ==
    [checked |-> {c \in constraints : CheckOne(c, covenants) # "unchecked"},
     unchecked |-> {c \in constraints : CheckOne(c, covenants) = "unchecked"},
     violations |-> {c \in constraints : CheckOne(c, covenants) = "breached"}]

Escalates(found) == found.violations # {}

PolicyCheck ==
    /\ pc = "published"
    /\ check' = CheckPolicy(Constraints(book), CovenantStatus(book))
    /\ pc' = "checked"
    /\ Emit(Done(10))
    /\ UNCHANGED <<book, reloads, runner, cited, gaps, queue>> /\ UNCHANGED read

\* the tenant's rows are loaded again underneath the cycle
Reload(b) ==
    /\ pc \notin {"checked", "failed"}
    /\ reloads < Reloads
    /\ b # book /\ b.kind = book.kind
    /\ book' = b
    /\ reloads' = reloads + 1
    /\ UNCHANGED <<runner, pc, cited, gaps, queue, feed, check>> /\ UNCHANGED read

CycleNext ==
    \/ RefreshActuals \/ BuildBridge
    \/ AskForExplanation \/ ExplanationTimesOut \/ ExplanationFails
    \/ \E rows \in SUBSET CategorySet : ExplanationArrives(rows)
    \/ RefreshDrivers \/ Reforecast \/ UpdateAccuracy \/ SurfaceExceptions
    \/ Publish \/ PolicyCheck
    \/ \E b \in Books : Reload(b)

\* every await of the automated half returns, and a timeout is one of the answers
Fairness ==
    WF_CycleVars(RefreshActuals \/ BuildBridge \/ AskForExplanation \/ ExplanationTimesOut
              \/ ExplanationFails \/ RefreshDrivers \/ Reforecast \/ UpdateAccuracy
              \/ SurfaceExceptions)

CycleSpec == CycleInit /\ [][CycleNext]_CycleVars /\ Fairness

------------------------------------------------------------------------------
AtReview == pc \in {"review", "published", "checked"}

Count(event) == Cardinality({i \in DOMAIN feed : feed[i] = event})

\* Step 3's promise: every material row the bridge shows is explained by a citation
\* of that very row or is waiting in the analyst's queue, never both; when the
\* explanation was lost to a timeout or a failure, all of them wait.
MaterialRowsAccountedFor ==
    AtReview =>
        /\ \A c \in Material(bridge) :
              (c \in cited) # (<<"unexplained", c>> \in Range(queue))
        /\ "explanation" \in gaps => cited = {}

\* A cycle that ran blind says so: what could not be read is a degradation, each is
\* announced on the feed, nothing else is, and the lane of the Variance Agent, if it
\* was opened, is closed exactly once whatever became of the model call.
GapsAreAnnounced ==
    AtReview =>
        /\ ("variance" \in gaps) = (bridge = EmptyBridge)
        /\ reloads = 0 => ("accuracy" \in gaps) = (Percentiles(book, 1) = Refused)
        /\ \A gap \in gaps \ {"explanation"} : Count(<<"degraded", gap>>) = 1
        /\ Count(<<"degraded", "cycle">>) = Cardinality(gaps)
        /\ Count(<<"lane", "started">>)
             = Count(<<"lane", "timeout">>) + Count(<<"lane", "failed">>)
                 + Count(<<"lane", "complete">>)

\* The rule about covenants that check_policy knows and that no toolset hands out.
CovenantRule == Rule("covenant_ratio", "", 0)

\* Of the rules a toolset hands out, the war room opens exactly when a figure the
\* treasurer published crosses a threshold of the policy now in force, and what nobody
\* could look at is listed as unchecked.  Covenants are not among those rules: one that
\* is breached opens no war room and one that cannot be read is in no list.  Were the
\* rule handed out, a breach would escalate and no reading would be listed.
PolicyJudgesWhatWasSigned ==
    pc = "checked" =>
        LET p == Policy(book)
            covenants == CovenantStatus(book)
            asked == CheckPolicy(Constraints(book) \cup {CovenantRule}, covenants)
        IN
        /\ Escalates(check) =
              \/ \E w \in Weeks : forecast.closing[w] < p.floor
              \/ \E w \in Weeks : /\ w <= LiquidityWeeks
                               /\ forecast.closing[w] + position.revolver < p.min30
              \/ book.kind = "engine" /\ position.drawn * Bps > position.limit * p.maxUtil
        /\ \A class \in p.protected : \E c \in check.unchecked : c.of = class
        /\ CovenantRule \notin check.checked \cup check.unchecked
        /\ covenants = Refused => CovenantRule \in asked.unchecked
        /\ covenants # Refused =>
              (CovenantRule \in asked.violations) = (covenants.breached # {})

\* Three readings of one shortfall agree when the book stood still: the position of
\* step 1, the critical exceptions of step 7 and the minimum-cash check of step 10.
OneStory ==
    (pc = "checked" /\ reloads = 0) =>
        LET breached == \E c \in check.violations : c.kind = "min_cash" IN
        /\ breached = (position.min < position.floor)
        /\ breached = (<<"breach", position.minWeek>> \in Range(queue))
        /\ book.kind = "tenant" => breached = (position.runway < Horizon)

\* No figure is flattered by hindsight: the closed week is bridged against a version
\* taken before it began, and accuracy counts only weeks that have begun.
NoHindsight ==
    bridge \notin {Nothing, EmptyBridge} /\ reloads = 0 =>
        LET monday == ClosedWeek(book)
            plan(c) == {v.lines[<<c, (monday - v.first) \div 7 + 1>>] :
                           v \in {w \in book.versions : w.asOf <= monday /\ w.first <= monday}}
        IN  \A r \in Shown(bridge) :
                Actual(book, r.category, monday) - r.delta \in plan(r.category)

\* The panes built from one book agree: aging adds up to the open receivables that
\* are ranked, none is expected at more than its face, and what may be deferred is
\* the open payables without the protected ones, of which none may wait a day; and
\* a source the manifest offers the Commander is one whose tools answer.
PanesTie ==
    /\ Total(1..5, LAMBDA b : Aging(book)[b]) = Collections(book).totalOpen
    /\ Collections(book).totalExpected <= Collections(book).totalOpen
    /\ Deferrals(book, 30).deferrable
         = Total({p \in OpenPayables(book) :
                    \A v \in book.vendors : v.id = p.vendor => v.class \notin Policy(book).protected},
                 LAMBDA p : p.open)
    /\ \A r \in Range(Deferrals(book, 30).shown.rows) : r.protected => r.days = 0
    /\ Total(book.vendors, LAMBDA v : SupplierRisk(book, v).concentration) <= 100
    /\ "debt" \in Available(book) => CovenantStatus(book) # Refused
    /\ "dodo" \in Available(book) =>
          /\ Declines(book).soft + Declines(book).hard = Declines(book).atRisk
          /\ Declines(book).recoverable <= Declines(book).soft

\* What the treasurer is not told is nothing: neither a material variance nor a
\* reading the cycle had to do without.
NothingIsSilent == MaterialRowsAccountedFor /\ GapsAreAnnounced

\* the citations that name no row: the tenant toolset's of its cash floor, by a field
\* the resolver does not know, and the engine's padding of its two decline rows
Dangling(kind) ==
    IF kind = "tenant" THEN {Cite("policy", "min_unrestricted_cash", NoField)}
    ELSE {Cite("dodo", id, NoField) : id \in Unavailable}

\* What the tools hand out as evidence resolves in the book it came from, whichever
\* of its sources is empty or whose rows are closed; these few citations alone do not.
CitationsResolve ==
    \A ref \in References(book) : Resolves(book, ref) = (ref \notin Dangling(book.kind))

\* The figures of one Monday agree with each other and owe nothing to hindsight,
\* and the rows they cite can be looked up.
FiguresAgree == OneStory /\ NoHindsight /\ PanesTie /\ CitationsResolve

\* Monday always reaches the review gate, or fails on its very first read; a model
\* that never answers does not hold it up.
MondayReachesReview == <>(AtReview \/ pc = "failed")
==============================================================================
