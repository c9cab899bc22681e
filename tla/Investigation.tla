--------------------------- MODULE Investigation ---------------------------
(***************************************************************************)
(* One war room (backend/orchestrator/investigation.py): its phases, the   *)
(* stress tester (orchestrator/stress.py) and the replan loop, up to the   *)
(* recommendation.                                                         *)
(*                                                                         *)
(* run() is one coroutine: an action is its code from one await to the     *)
(* next.  The agents' wave is AgentWave; here it only leaves a reason to   *)
(* degrade or none.  Which bundles compose() builds, what each survives    *)
(* and what the models choose are free choices; the arithmetic behind      *)
(* "survives" is fixed once the bundles are there.                         *)
(***************************************************************************)
EXTENDS Integers, Sequences, FiniteSets, SequencesExt

CONSTANTS
    None,        \* Python's None
    Stressors,   \* calibrate(): the menu when error percentiles can be read
    Combined,    \* COMBINED_ID, a member of the menu, or None
    MaxReplans,  \* MAX_REPLANS
    MaxBundles   \* bundles compose() builds at most: four in the code

ASSUME InvestigationAssumption ==
    /\ Stressors # {} /\ None \notin Stressors
    /\ Combined \in Stressors \cup {None}
    /\ MaxReplans \in Nat
    /\ MaxBundles \in Nat

VARIABLES
    at,             \* where run() is suspended, or how it ended
    late,           \* _out_of_time()
    shown,          \* the phases _phase() streamed
    degradations,   \* kinds of reason in `degradations`
    survives,       \* composition.ranked(), by what each bundle survives
    testing,        \* the bundle in the tester's hands, by rank; 0 when none
    reports,        \* StressReport per bundle tested
    attempts,       \* ReplanAttempt per bundle that failed
    recommendation  \* Recommendation

vars == <<at, late, shown, degradations, survives, testing, reports, attempts,
          recommendation>>

Points == {"new", "planning", "investigating", "resolving", "generating",
           "position", "menu", "choosing", "closed", "raised"}
Reasons == {"planning", "agents", "conflict", "wall clock", "selection",
            "no feasible bundle", "none passed"}
Phases == {"planning", "investigating", "resolving_conflicts", "generating_scenarios",
           "stress_testing", "replanning", "recommending", "closed"}

\* apply(): every shift is adverse, so a bundle that survives them together
\* survives each of them.
Survivals == {s \in SUBSET Stressors : Combined \in s => s = Stressors}
Bundles   == 1..MaxBundles
Reports   == [bundle : Bundles, tested : SUBSET Stressors, selected : BOOLEAN]
Attempts  == [attempt : 1..(MaxReplans + 1), bundle : Bundles, tightened : Stressors]
Answers   == [chosen : 0..MaxBundles, passed : BOOLEAN, degraded : BOOLEAN,
              reasons : SUBSET Reasons, replans : Seq(Attempts)]

Init ==
    /\ at = "new"
    /\ late = FALSE
    /\ shown = <<>>
    /\ degradations = {}
    /\ survives = <<>>
    /\ testing = 0
    /\ reports = <<>>
    /\ attempts = <<>>
    /\ recommendation = None

\* The wall clock runs out at any point after run() began.
Tick ==
    /\ at \notin {"new", "closed", "raised"}
    /\ ~late
    /\ late' = TRUE
    /\ UNCHANGED <<at, shown, degradations, survives, testing, reports, attempts,
                   recommendation>>

-----------------------------------------------------------------------------
(* Up to the bundles *)

\* run() to its first await.
Open ==
    /\ at = "new"
    /\ at' = "planning"
    /\ shown' = <<"planning">>
    /\ UNCHANGED <<late, degradations, survives, testing, reports, attempts,
                   recommendation>>

\* One phase returned, with or without a reason to degrade; the next begins.
Phase(from, to, phase, reason) ==
    /\ at = from
    /\ at' = to
    /\ shown' = Append(shown, phase)
    /\ degradations' \in {degradations, degradations \cup {reason}}

\* Commander.plan: the model's plan, or the fallback plan.
Plan ==
    /\ Phase("planning", "investigating", "investigating", "planning")
    /\ UNCHANGED <<late, survives, testing, reports, attempts, recommendation>>

\* Commander.investigate: Dispatch.degradation_reasons.
Investigate ==
    /\ Phase("investigating", "resolving", "resolving_conflicts", "agents")
    /\ UNCHANGED <<late, survives, testing, reports, attempts, recommendation>>

\* _resolve: a conflict no model resolved is a reason.
Resolve ==
    /\ Phase("resolving", "generating", "generating_scenarios", "conflict")
    /\ UNCHANGED <<late, survives, testing, reports, attempts, recommendation>>

\* _compose, and the phase change into _stress_and_replan's first await.
Compose ==
    /\ at = "generating"
    /\ at' = "position"
    /\ shown' = Append(shown, "stress_testing")
    /\ \E n \in 0..MaxBundles : survives' \in [1..n -> Survivals]
    /\ UNCHANGED <<late, degradations, testing, reports, attempts, recommendation>>

\* A ToolError from the Commander's survey, from _compose or from
\* _stress_and_replan's own position call leaves run().
Raises ==
    /\ at \in {"planning", "generating", "position"}
    /\ at' = "raised"
    /\ UNCHANGED <<late, shown, degradations, survives, testing, reports, attempts,
                   recommendation>>

-----------------------------------------------------------------------------
(* Stress and replan *)

\* _recommend: the bundle that passed, else the best one for review, else none.
Recommendation(passed, reasons, atts) ==
    LET chosen == IF passed # 0 THEN passed ELSE IF survives = <<>> THEN 0 ELSE 1
    IN  [chosen |-> chosen, passed |-> passed # 0,
         degraded |-> passed = 0 \/ reasons # {}, reasons |-> reasons, replans |-> atts]

\* The reasons the loop adds when it ends without a bundle that passed.
Unpassed(reps, atts) ==
    IF reps = <<>> THEN {"no feasible bundle"}
    ELSE IF atts # <<>> THEN {"none passed"} ELSE {}

\* From the return of _stress_and_replan to the end of run(): no await.
Close(passed, phases, reps, atts, reasons) ==
    /\ at' = "closed"
    /\ testing' = 0
    /\ reports' = reps
    /\ attempts' = atts
    /\ degradations' = reasons
    /\ shown' = phases \o <<"recommending", "closed">>
    /\ recommendation' = Recommendation(passed, reasons, atts)
    /\ UNCHANGED <<late, survives>>

Smaller(a, b) == IF a <= b THEN a ELSE b

\* The head of the loop over candidates[: max_replans + 1]: the next bundle is
\* tested unless there is none, or no time.
Loop(i, phases, reps, atts, reasons) ==
    IF i > Smaller(Len(survives), MaxReplans + 1)
      THEN Close(0, phases, reps, atts, reasons \cup Unpassed(reps, atts))
      ELSE IF late
      THEN Close(0, phases, reps, atts,
                 reasons \cup {"wall clock"} \cup Unpassed(reps, atts))
      ELSE /\ at' = "menu"
           /\ testing' = i
           /\ reports' = reps
           /\ attempts' = atts
           /\ degradations' = reasons
           /\ shown' = phases
           /\ UNCHANGED <<late, survives, recommendation>>

PositionRead ==
    /\ at = "position"
    /\ Loop(1, shown, reports, attempts, degradations)

\* mutant: an empty menu is not reported as a fallback
MenuMissingClean ==
    /\ at = "menu"
    /\ Close(testing, shown,
             Append(reports, [bundle |-> testing, tested |-> {}, selected |-> TRUE]),
             attempts, degradations)
\* No stressor could be calibrated: a report without results, which passes.
MenuMissing ==
    /\ at = "menu"
    /\ Close(testing, shown,
             Append(reports, [bundle |-> testing, tested |-> {}, selected |-> FALSE]),
             attempts, degradations \cup {"selection"})

MenuRead ==
    /\ at = "menu"
    /\ at' = "choosing"
    /\ UNCHANGED <<late, shown, degradations, survives, testing, reports, attempts,
                   recommendation>>

\* StressTester.run: stressors on the menu that were picked, else all of them.
Report(picked) ==
    [bundle |-> testing,
     tested |-> IF picked = {} THEN Stressors ELSE picked,
     selected |-> picked # {}]

Reason(report) == IF report.selected THEN {} ELSE {"selection"}

\* The entry for a bundle that failed; worst() is one of the stressors it failed.
Replan(report, worst) ==
    [attempt |-> testing, bundle |-> testing, tightened |-> worst]

\* mutant: a late answer is thrown away
StressUnlessLate(picked) ==
    LET report == Report(picked)
        reps == Append(reports, report)
        reasons == degradations \cup Reason(report)
        failed == report.tested \ survives[testing]
    IN  /\ at = "choosing" /\ ~late
        /\ \/ /\ failed = {}
              /\ Close(testing, shown, reps, attempts, reasons)
           \/ \E worst \in failed :
                 Loop(testing + 1, Append(shown, "replanning"), reps,
                      Append(attempts, Replan(report, worst)), reasons)
\* The choice returned (or failed: nothing picked), the bundle is tested, and
\* either it passes or the loop goes round.
Stress(picked) ==
    LET report == Report(picked)
        reps == Append(reports, report)
        reasons == degradations \cup Reason(report)
        failed == report.tested \ survives[testing]
    IN  /\ at = "choosing"
        /\ \/ /\ failed = {}
              /\ Close(testing, shown, reps, attempts, reasons)
           \/ \E worst \in failed :
                 Loop(testing + 1, Append(shown, "replanning"), reps,
                      Append(attempts, Replan(report, worst)), reasons)

-----------------------------------------------------------------------------
Run ==
    \/ Open \/ Plan \/ Investigate \/ Resolve \/ Compose \/ Raises
    \/ PositionRead \/ MenuMissing \/ MenuRead
    \/ \E picked \in SUBSET Stressors : Stress(picked)

Next == Run \/ Tick

Spec == Init /\ [][Next]_vars

\* Tool calls return or raise and model calls carry a timeout.
FairSpec == Spec /\ WF_vars(Run)

-----------------------------------------------------------------------------
(* Properties *)

TypeOK ==
    /\ at \in Points
    /\ late \in BOOLEAN
    /\ shown \in Seq(Phases)
    /\ degradations \subseteq Reasons
    /\ survives \in Seq(Survivals) /\ Len(survives) <= MaxBundles
    /\ testing \in 0..Len(survives)
    /\ reports \in Seq(Reports) /\ Len(reports) <= MaxReplans + 1
    /\ attempts \in Seq(Attempts)
    /\ recommendation \in Answers \cup {None}

\* A recommendation that asks for no human review is one the tester cleared: the
\* bundle shown is the last one tested, a model picked at least one stressor for
\* it and it survives every one picked.  A vacuous pass, a fallback and a bundle
\* shown because time ran out all arrive marked.
CleanMeansSurvived ==
    recommendation # None /\ ~recommendation.degraded =>
        /\ reports # <<>>
        /\ Last(reports).bundle = recommendation.chosen
        /\ Last(reports).selected /\ Last(reports).tested # {}
        /\ Last(reports).tested \subseteq survives[recommendation.chosen]

\* No failed attempt is deleted or swapped: the replan history is, in order, the
\* bundles tested before the one that passed, each with a stressor it was tested
\* against and did not survive; and the bundle recommended as passing is the
\* first in rank that did.
HistoryIsComplete ==
    recommendation # None =>
        LET replans == recommendation.replans
            failing == IF recommendation.passed THEN Len(reports) - 1 ELSE Len(reports)
        IN  /\ Len(replans) = failing
            /\ \A i \in 1..failing :
                  /\ replans[i].attempt = i
                  /\ replans[i].bundle = reports[i].bundle
                  /\ replans[i].tightened \in reports[i].tested \ survives[i]
            /\ recommendation.passed => recommendation.chosen = failing + 1

Opening == <<"planning", "investigating", "resolving_conflicts", "generating_scenarios",
             "stress_testing">>

\* The phases stream in the documented order, with one `replanning` for every
\* attempt that failed and nothing after `closed`.
PhaseOrder ==
    /\ \A i \in DOMAIN shown :
          /\ i <= 5 => shown[i] = Opening[i]
          /\ i > 5 /\ i <= 5 + Len(attempts) => shown[i] = "replanning"
    /\ Len(shown) > 5 =>
          SubSeq(shown, 6 + Len(attempts), Len(shown))
             = (IF at = "closed" THEN <<"recommending", "closed">> ELSE <<>>)

\* What reaches the treasurer is what happened: marked unless it was really
\* tested, with every attempt that failed, in the order the screen showed.
ReportIsHonest == TypeOK /\ CleanMeansSurvived /\ HistoryIsComplete /\ PhaseOrder

\* Every war room ends, with a recommendation or by raising.
WarRoomEnds == (at # "new") ~> (at \in {"closed", "raised"})

=============================================================================
