----------------------------- MODULE AgentWave -----------------------------
(***************************************************************************)
(* An investigation's agents: Commander.investigate (two waves), the       *)
(* executor that throttles them (orchestrator/executor.py), the runner     *)
(* each attempt goes through (agents/runner.py, agents/evidence.py) and    *)
(* the run store (orchestrator/runs.py).                                   *)
(*                                                                         *)
(* A unit is one coroutine of asyncio.gather; an action is its code        *)
(* between two awaits.  What tools and models answer is a free choice, and *)
(* wait_for may cut an attempt off at any of the runner's awaits.          *)
(***************************************************************************)
EXTENDS Integers, Sequences, FiniteSets

CONSTANTS
    First,        \* the units of wave one, in the order given
    Challenger,   \* Supplier Risk's unit, wave two; or NoChallenger
    NoChallenger,
    MaxInFlight,  \* ExecutorLimits.max_in_flight
    Capacity,     \* requests_per_minute: the bucket's capacity
    MaxAttempts,  \* ModelRoute.max_attempts
    MaxRetries,   \* ExecutorLimits.max_retries
    MaxRefills    \* bound: tokens the clock adds

FirstUnits == {First[i] : i \in DOMAIN First}
Units == FirstUnits \cup ({Challenger} \ {NoChallenger})

ASSUME WaveAssumption ==
    /\ First \in Seq(FirstUnits)
    /\ \A i, j \in DOMAIN First : First[i] = First[j] => i = j
    /\ Challenger \notin FirstUnits
    /\ NoChallenger \notin FirstUnits
    /\ MaxInFlight \in Nat \ {0}
    /\ Capacity \in Nat \ {0}
    /\ MaxAttempts \in Nat \ {0}
    /\ MaxRetries \in Nat
    /\ MaxRefills \in Nat

VARIABLES
    wave,      \* 1 or 2 while that gather is awaited; 0 before, 3 after
    phase,     \* what each unit awaits
    attempt,   \* the attempt under way, 0 before the first
    slots,     \* free places of the semaphore
    tokens,    \* TokenBucket._tokens
    refills,   \* tokens the clock has added
    paid,      \* tokens each unit has taken
    run,       \* the AgentRun _run_unit returned
    lane,      \* terminal status events and finding events, per unit
    store,     \* RunStore, in insertion order
    degraded   \* units a system.degraded event was emitted for

unitVars   == <<phase, attempt, slots, run, lane>>
bucketVars == <<tokens, refills, paid>>
waveVars   == <<wave, store, degraded>>
AllVars    == <<unitVars, bucketVars, waveVars>>

Statuses == {"complete", "degraded", "refused", "timeout", "failed"}
\* AgentRun: its status, and whether it carries a finding.
Runs  == [status : Statuses, finding : BOOLEAN]
NoRun == [status |-> "none", finding |-> FALSE]

\* "idle": not in a wave yet.  "queued": at the semaphore.  "bucket": at the
\* bucket, with a slot.  The runner awaits "gather", "model", "evidence".
Running == {"gather", "model", "evidence"}
Holding == {"bucket", "backoff"} \cup Running
Phases  == {"idle", "queued", "done"} \cup Holding

Smaller(a, b) == IF a <= b THEN a ELSE b
Larger(a, b)  == IF a >= b THEN a ELSE b

\* _run_unit: max(1, min(route.max_attempts, limits.max_retries))
Allowed == Larger(1, Smaller(MaxAttempts, MaxRetries))

-----------------------------------------------------------------------------
WaveInit ==
    /\ wave = 0
    /\ phase = [u \in Units |-> "idle"]
    /\ attempt = [u \in Units |-> 0]
    /\ slots = MaxInFlight
    /\ tokens = Capacity
    /\ refills = 0
    /\ paid = [u \in Units |-> 0]
    /\ run = [u \in Units |-> NoRun]
    /\ lane = [u \in Units |-> [closed |-> 0, findings |-> 0]]
    /\ store = <<>>
    /\ degraded = {}

\* run_wave up to the gather: every unit is announced as queued.
Queue(us) == phase' = [u \in Units |-> IF u \in us THEN "queued" ELSE phase[u]]

StartFirst ==
    /\ wave = 0
    /\ wave' = 1
    /\ Queue(FirstUnits)
    /\ UNCHANGED <<attempt, slots, bucketVars, run, lane, store, degraded>>

-----------------------------------------------------------------------------
(* One unit: the semaphore, the bucket, the attempts *)

EnterSemaphore(u) ==
    /\ phase[u] = "queued"
    /\ slots > 0
    /\ slots' = slots - 1
    /\ phase' = [phase EXCEPT ![u] = "bucket"]
    /\ UNCHANGED <<attempt, run, lane, bucketVars, waveVars>>

\* TokenBucket.acquire takes a token and the attempt begins: AgentRunner.run
\* announces agent.started and gathers.
TakeToken(u) ==
    /\ phase[u] = "bucket"
    /\ tokens > 0
    /\ tokens' = tokens - 1
    /\ paid' = [paid EXCEPT ![u] = @ + 1]
    /\ attempt' = [attempt EXCEPT ![u] = @ + 1]
    /\ phase' = [phase EXCEPT ![u] = "gather"]
    /\ UNCHANGED <<slots, run, lane, refills, waveVars>>

\* TokenBucket._refill: time adds tokens up to the capacity.
Refill ==
    /\ tokens < Capacity
    /\ refills < MaxRefills
    /\ tokens' = tokens + 1
    /\ refills' = refills + 1
    /\ UNCHANGED <<unitVars, paid, waveVars>>

\* mutant: the slot is not released
ReturnLeaks(u, r) ==
    /\ phase' = [phase EXCEPT ![u] = "done"]
    /\ run' = [run EXCEPT ![u] = r]
    /\ lane' = [lane EXCEPT ![u].closed = @ + 1,
                            ![u].findings = @ + (IF r.finding THEN 1 ELSE 0)]
    /\ UNCHANGED <<slots, attempt, bucketVars, waveVars>>
\* _run_unit returns r: the slot is released, and the lane is closed by the
\* runner's record() or the executor's _unfinished.
Return(u, r) ==
    /\ phase' = [phase EXCEPT ![u] = "done"]
    /\ slots' = slots + 1
    /\ run' = [run EXCEPT ![u] = r]
    /\ lane' = [lane EXCEPT ![u].closed = @ + 1,
                            ![u].findings = @ + (IF r.finding THEN 1 ELSE 0)]
    /\ UNCHANGED <<attempt, bucketVars, waveVars>>

Without(status) == [status |-> status, finding |-> FALSE]

\* A ToolError while gathering degrades the run.  ToolNotAllowed is re-raised,
\* and an over-budget prompt refused: both end as a failed run.
GatherFails(u) ==
    /\ phase[u] = "gather"
    /\ \E status \in {"degraded", "failed"} : Return(u, Without(status))

\* The request goes to the provider.
Ask(u) ==
    /\ phase[u] = "gather"
    /\ phase' = [phase EXCEPT ![u] = "model"]
    /\ UNCHANGED <<attempt, slots, run, lane, bucketVars, waveVars>>

\* An LLMError, a finding attributed to another agent, or a review that raises.
ModelFails(u) == phase[u] = "model" /\ Return(u, Without("failed"))

\* The finding passed review; its citations are looked up next.
Answered(u) ==
    /\ phase[u] = "model"
    /\ phase' = [phase EXCEPT ![u] = "evidence"]
    /\ UNCHANGED <<attempt, slots, run, lane, bucketVars, waveVars>>

\* Any citation that does not parse, was not seen or does not resolve.
EvidenceRejected(u) == phase[u] = "evidence" /\ Return(u, Without("degraded"))

\* AGENT_DECIDED: anything else the finding says of itself is recorded as
\* complete.
RecordedStatus(claimed) == IF claimed \in {"refused", "degraded"} THEN claimed ELSE "complete"

\* The finding is surfaced and recorded.
Accepted(u) ==
    /\ phase[u] = "evidence"
    /\ \E claimed \in Statuses :
          Return(u, [status |-> RecordedStatus(claimed), finding |-> TRUE])

\* LLMTimeout out of the model call, or wait_for cutting the attempt off: the
\* last attempt closes the run, an earlier one backs off.
TimedOut(u) ==
    /\ phase[u] \in Running
    /\ \/ attempt[u] >= Allowed /\ Return(u, Without("timeout"))
       \/ /\ attempt[u] < Allowed
          /\ phase' = [phase EXCEPT ![u] = "backoff"]
          /\ UNCHANGED <<attempt, slots, run, lane, bucketVars, waveVars>>

\* mutant: the retry queues again without having given its slot back
RetryReleases(u) ==
    /\ phase[u] = "backoff"
    /\ phase' = [phase EXCEPT ![u] = "queued"]
    /\ UNCHANGED <<attempt, slots, run, lane, bucketVars, waveVars>>
\* The backoff is slept with the slot held; then another token.
Retry(u) ==
    /\ phase[u] = "backoff"
    /\ phase' = [phase EXCEPT ![u] = "bucket"]
    /\ UNCHANGED <<attempt, slots, run, lane, bucketVars, waveVars>>

UnitStep(u) ==
    \/ EnterSemaphore(u) \/ TakeToken(u)
    \/ GatherFails(u) \/ Ask(u) \/ ModelFails(u) \/ Answered(u)
    \/ EvidenceRejected(u) \/ Accepted(u) \/ TimedOut(u) \/ Retry(u)

-----------------------------------------------------------------------------
(* The wave around its units *)

NotFinished(u) == run[u].status \notin {"complete", "refused"}

\* mutant: only the runs that finished are kept
CollectFinished(us, order) ==
    /\ \A u \in us : phase[u] = "done"
    /\ store' = store \o SelectSeq(order, LAMBDA u : ~NotFinished(u))
    /\ degraded' = degraded \cup {u \in us : NotFinished(u)}
\* run_wave after the gather: every run is stored, in the order given, and the
\* ones that did not complete are announced.
Collect(us, order) ==
    /\ \A u \in us : phase[u] = "done"
    /\ store' = store \o order
    /\ degraded' = degraded \cup {u \in us : NotFinished(u)}

\* investigate() starts wave two only when wave one has returned; without
\* Supplier Risk in the plan there is none.
FirstReturns ==
    /\ wave = 1
    /\ Collect(FirstUnits, First)
    /\ IF Challenger \in Units
         THEN wave' = 2 /\ Queue({Challenger})
         ELSE wave' = 3 /\ UNCHANGED phase
    /\ UNCHANGED <<attempt, slots, run, lane, bucketVars>>

ChallengeReturns ==
    /\ wave = 2
    /\ Collect({Challenger}, <<Challenger>>)
    /\ wave' = 3
    /\ UNCHANGED <<unitVars, bucketVars>>

Over == wave = 3 /\ UNCHANGED AllVars

WaveNext ==
    \/ StartFirst \/ FirstReturns \/ ChallengeReturns \/ Refill
    \/ \E u \in Units : UnitStep(u)
    \/ Over

WaveSpec == WaveInit /\ [][WaveNext]_AllVars

\* The loop runs what is ready, wait_for ends every attempt and time passes.
FairSpec ==
    /\ WaveSpec
    /\ WF_AllVars(StartFirst)
    /\ WF_AllVars(FirstReturns) /\ WF_AllVars(ChallengeReturns)
    /\ WF_AllVars(Refill)
    /\ \A u \in Units : WF_AllVars(UnitStep(u))

-----------------------------------------------------------------------------
(* Properties *)

TypeOK ==
    /\ wave \in 0..3
    /\ phase \in [Units -> Phases]
    /\ attempt \in [Units -> 0..Allowed]
    /\ slots \in 0..MaxInFlight
    /\ tokens \in 0..Capacity
    /\ refills \in 0..MaxRefills
    /\ paid \in [Units -> Nat]
    /\ run \in [Units -> Runs \cup {NoRun}]
    /\ lane \in [Units -> [closed : Nat, findings : Nat]]
    /\ store \in Seq(Units)
    /\ degraded \subseteq Units

InFlight == {u \in Units : phase[u] \in Holding}

\* The semaphore counts what is in flight: never more than max_in_flight, and
\* every path out of _run_unit, and out of a retry, gives back exactly one slot.
SlotsAccountedFor == Cardinality(InFlight) + slots = MaxInFlight

\* The wave cannot outrun its bucket: every attempt, retries included, took its
\* own token before it reached the runner.
EveryAttemptPaid ==
    \A u \in Units :
        /\ paid[u] = attempt[u]
        /\ phase[u] \in Running => attempt[u] > 0

\* Whoever opens a lane closes it: a unit that is done has exactly one terminal
\* status event and one run, whatever was retried, and a finding reached the
\* screen only with the run that carries it, never from an attempt that timed out.
LanesCloseOnce ==
    \A u \in Units :
        /\ lane[u].closed = (IF phase[u] = "done" THEN 1 ELSE 0)
        /\ lane[u].findings = (IF run[u].finding THEN 1 ELSE 0)
        /\ (phase[u] = "done") <=> (run[u] # NoRun)

\* Supplier Risk argues against a finished wave: it is queued only once every
\* wave-one run has been stored, so no proposal can arrive after its challenge.
ChallengeSeesTheWave ==
    \A u \in Units \ FirstUnits :
        phase[u] # "idle" =>
            /\ \A v \in FirstUnits : phase[v] = "done"
            /\ \E n \in 0..Len(store) : SubSeq(store, 1, n) = First

\* When the investigation goes on, every agent dispatched has exactly one stored
\* run, and the ones announced as degraded are the ones that did not finish.
EveryAgentStored ==
    wave = 3 =>
        /\ \A u \in Units : Cardinality({i \in DOMAIN store : store[i] = u}) = 1
        /\ degraded = {u \in Units : NotFinished(u)}

\* Every slot and every token is somebody's, at every moment of the wave.
WhatIsHeldIsAccountedFor == TypeOK /\ SlotsAccountedFor /\ EveryAttemptPaid

\* Every agent ends on one record, in the store and on the screen alike, and the
\* challenge comes after all of them.
EveryAgentAccountedFor == LanesCloseOnce /\ ChallengeSeesTheWave /\ EveryAgentStored

\* run_wave always returns, however many attempts time out.
WaveEnds == <>(wave = 3)
=============================================================================
