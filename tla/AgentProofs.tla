---------------------------- MODULE AgentProofs ----------------------------
(***************************************************************************)
(* Proofs about the agents of the War Room.                                *)
(*                                                                         *)
(* Their waves, for any number of agents, slots, tokens and attempts.      *)
(* Slots and tokens are counted per unit, and what is stored per wave, so  *)
(* the invariant, Throttled, has one part for each: Attempting says how    *)
(* many attempts a unit has made at each of its suspension points, Waves   *)
(* which units may be where while a wave is awaited, and Stored what the   *)
(* run store holds.                                                        *)
(*                                                                         *)
(* The data path from tool to work list, for every tenant, every set of    *)
(* answers a model may give and every way the books may move: no           *)
(* specialist is forgotten, and a protected payment stays out of reach.    *)
(* The inductive invariant, Thread, ties each run on record to what its    *)
(* agent gathered and what the model answered, across both waves.          *)
(*                                                                         *)
(* The figures of the recommendation, on the same path: the levers are     *)
(* gated, bundled, priced, ranked, stressed, listed and carded, and the    *)
(* sums hold together at every step.  The inductive invariant, Figures,    *)
(* says what the composition was priced on and whose report is whose.      *)
(***************************************************************************)
EXTENDS AgentWave, Recommendation, TallyProofs, SequenceTheorems

-----------------------------------------------------------------------------
(* The waves: the inductive invariant *)

\* A unit has an attempt left wherever it waits for one.
Attempting ==
    \A u \in Units :
        /\ phase[u] \in {"idle", "queued"} => attempt[u] = 0
        /\ phase[u] \in {"bucket", "backoff"} => attempt[u] < Allowed

\* Which units may be where while each gather is awaited.
Waves ==
    /\ wave = 0 => \A u \in Units : phase[u] = "idle"
    /\ wave = 1 => \A u \in Units : phase[u] = "idle" <=> u \notin FirstUnits
    /\ wave = 2 => /\ \A u \in FirstUnits : phase[u] = "done"
                   /\ Challenger \in Units /\ phase[Challenger] # "idle"
    /\ wave = 3 => \A u \in Units : phase[u] = "done"

\* What was stored and announced when each gather returned.
Stored ==
    /\ wave \in {0, 1} => store = <<>> /\ degraded = {}
    /\ wave = 2 => store = First /\ degraded = {u \in FirstUnits : NotFinished(u)}
    /\ wave = 3 => /\ store = (IF Challenger \in Units THEN First \o <<Challenger>> ELSE First)
                   /\ degraded = {u \in Units : NotFinished(u)}

\* The inductive invariant.
Throttled ==
    /\ TypeOK /\ SlotsAccountedFor /\ EveryAttemptPaid /\ Attempting
    /\ Waves /\ Stored /\ LanesCloseOnce

-----------------------------------------------------------------------------
(* Units, attempts and the semaphore *)

\* The units are finite, and at most one is not of the first wave.
LEMMA UnitsAre ==
    /\ IsFiniteSet(Units)
    /\ FirstUnits \subseteq Units
    /\ \A u \in Units \ FirstUnits : u = Challenger
    /\ Challenger \notin FirstUnits
    /\ First \in Seq(Units)
    /\ DOMAIN First = 1..Len(First) /\ Len(First) \in Nat
<1>1. First \in Seq(FirstUnits)
  BY WaveAssumption
<1>2. DOMAIN First = 1..Len(First) /\ Len(First) \in Nat
  BY <1>1
<1>3. IsFiniteSet(DOMAIN First)
  BY <1>2, FS_Interval
<1>4. IsFiniteSet(FirstUnits)
  <2>1. First \in [DOMAIN First -> FirstUnits]
    BY <1>1
  <2>2. First \in Surjection(DOMAIN First, FirstUnits)
    BY <2>1 DEF Surjection, FirstUnits
  <2>. QED
    BY <1>3, <2>2, FS_Surjection
<1>5. IsFiniteSet({Challenger} \ {NoChallenger})
  <2>1. IsFiniteSet({Challenger})
    BY FS_Singleton
  <2>. QED
    BY <2>1, FS_Subset
<1>6. IsFiniteSet(Units)
  BY <1>4, <1>5, FS_Union DEF Units
<1>7. FirstUnits \subseteq Units
  BY DEF Units
<1>8. First \in Seq(Units)
  BY <1>1, <1>7
<1>. QED
  BY <1>2, <1>6, <1>7, <1>8, WaveAssumption DEF Units

\* There is always a first attempt.
LEMMA AllowedOne == Allowed \in Nat \ {0}
  BY WaveAssumption DEF Allowed, Larger, Smaller

\* Taking a place and giving it back, by the number of units in flight.
LEMMA OneMore ==
    ASSUME NEW F, IsFiniteSet(F), NEW u, u \notin F
    PROVE  Cardinality(F \cup {u}) = Cardinality(F) + 1 /\ Cardinality(F) \in Nat
  BY FS_AddElement, FS_CardinalityType

LEMMA OneLess ==
    ASSUME NEW F, IsFiniteSet(F), NEW u \in F
    PROVE  /\ Cardinality(F \ {u}) = Cardinality(F) - 1
           /\ Cardinality(F) \in Nat \ {0}
<1>1. Cardinality(F \ {u}) = Cardinality(F) - 1 /\ IsFiniteSet(F \ {u})
  BY FS_RemoveElement
<1>2. Cardinality(F) \in Nat /\ Cardinality(F \ {u}) \in Nat
  BY <1>1, FS_CardinalityType
<1>. QED
  BY <1>1, <1>2

LEMMA InFlightFinite == IsFiniteSet(InFlight)
  BY UnitsAre, FS_Subset DEF InFlight

\* The semaphore is taken: one more in flight, one slot less.
LEMMA EnterHolds ==
    ASSUME Throttled, NEW u \in Units, EnterSemaphore(u)
    PROVE  Throttled'
<1>. USE DEF bucketVars, waveVars
<1>1. phase[u] = "queued" /\ phase' = [phase EXCEPT ![u] = "bucket"]
      /\ slots > 0 /\ slots' = slots - 1
      /\ UNCHANGED <<attempt, run, lane, tokens, refills, paid, wave, store, degraded>>
  BY DEF EnterSemaphore
<1>2. phase \in [Units -> Phases] /\ slots \in 0..MaxInFlight /\ MaxInFlight \in Nat
  BY WaveAssumption DEF Throttled, TypeOK
<1>3. TypeOK'
  BY <1>1, <1>2 DEF Throttled, TypeOK, Phases, Holding
<1>4. InFlight' = InFlight \cup {u} /\ u \notin InFlight
  BY <1>1, <1>2 DEF InFlight, Holding, Running
<1>5. Cardinality(InFlight') = Cardinality(InFlight) + 1 /\ Cardinality(InFlight) \in Nat
  BY <1>4, InFlightFinite, OneMore
<1>6. SlotsAccountedFor'
  BY <1>1, <1>2, <1>5 DEF Throttled, SlotsAccountedFor
<1>7. EveryAttemptPaid' /\ Attempting'
  BY <1>1, <1>2, AllowedOne DEF Throttled, EveryAttemptPaid, Attempting, Running
<1>8. Waves'
  BY <1>1, <1>2, UnitsAre DEF Throttled, Waves
<1>9. Stored'
  BY <1>1 DEF Throttled, Stored, NotFinished
<1>10. LanesCloseOnce'
  BY <1>1, <1>2 DEF Throttled, LanesCloseOnce
<1>. QED
  BY <1>3, <1>6, <1>7, <1>8, <1>9, <1>10 DEF Throttled

\* A unit that keeps its slot: from the bucket into an attempt, from one of the
\* runner's awaits to the next, into a backoff and out of it.
LEMMA MoveHolds ==
    ASSUME Throttled, NEW u \in Units, NEW to \in Holding, phase[u] \in Holding,
           phase' = [phase EXCEPT ![u] = to],
           UNCHANGED <<attempt, slots, run, lane, bucketVars, waveVars>>,
           to \in Running => attempt[u] > 0,
           to \in {"bucket", "backoff"} => attempt[u] < Allowed
    PROVE  Throttled'
<1>. USE DEF bucketVars, waveVars
<1>1. phase \in [Units -> Phases] /\ to \in Phases
  BY DEF Throttled, TypeOK, Phases
<1>2. TypeOK'
  BY <1>1 DEF Throttled, TypeOK
<1>3. InFlight' = InFlight
  BY <1>1 DEF InFlight
<1>4. SlotsAccountedFor'
  BY <1>3 DEF Throttled, SlotsAccountedFor
<1>5. to \notin {"idle", "queued", "done"} /\ phase[u] \notin {"idle", "queued", "done"}
  BY DEF Holding, Running
<1>6. EveryAttemptPaid' /\ Attempting'
  BY <1>1, <1>5 DEF Throttled, EveryAttemptPaid, Attempting
<1>7. Waves'
  BY <1>1, <1>5, UnitsAre DEF Throttled, Waves
<1>8. Stored'
  BY DEF Throttled, Stored, NotFinished
<1>9. LanesCloseOnce'
  BY <1>1, <1>5 DEF Throttled, LanesCloseOnce
<1>. QED
  BY <1>2, <1>4, <1>6, <1>7, <1>8, <1>9 DEF Throttled

\* A token is taken and the attempt counted, by the same unit.
LEMMA TokenHolds ==
    ASSUME Throttled, NEW u \in Units, TakeToken(u)
    PROVE  Throttled'
<1>. USE DEF waveVars
<1>1. /\ phase[u] = "bucket" /\ phase' = [phase EXCEPT ![u] = "gather"]
      /\ tokens > 0 /\ tokens' = tokens - 1
      /\ paid' = [paid EXCEPT ![u] = @ + 1] /\ attempt' = [attempt EXCEPT ![u] = @ + 1]
      /\ UNCHANGED <<slots, run, lane, refills, wave, store, degraded>>
  BY DEF TakeToken
<1>2. /\ phase \in [Units -> Phases] /\ attempt \in [Units -> 0..Allowed]
      /\ paid \in [Units -> Nat] /\ tokens \in 0..Capacity
      /\ attempt[u] < Allowed /\ paid[u] = attempt[u]
  BY <1>1 DEF Throttled, TypeOK, Attempting, EveryAttemptPaid
<1>3. attempt[u] + 1 \in 0..Allowed /\ paid[u] + 1 \in Nat
  BY <1>2, AllowedOne
<1>4. attempt' \in [Units -> 0..Allowed] /\ paid' \in [Units -> Nat]
      /\ tokens' \in 0..Capacity /\ phase' \in [Units -> Phases]
  BY <1>1, <1>2, <1>3, WaveAssumption DEF Phases, Holding, Running
<1>5. TypeOK'
  BY <1>1, <1>4 DEF Throttled, TypeOK
<1>6. InFlight' = InFlight
  BY <1>1, <1>2 DEF InFlight, Holding, Running
<1>7. SlotsAccountedFor'
  BY <1>1, <1>6 DEF Throttled, SlotsAccountedFor
<1>8. EveryAttemptPaid'
  BY <1>1, <1>2, <1>3 DEF Throttled, EveryAttemptPaid
<1>9. Attempting'
  BY <1>1, <1>2 DEF Throttled, Attempting
<1>10. Waves'
  BY <1>1, <1>2, UnitsAre DEF Throttled, Waves
<1>11. Stored'
  BY <1>1 DEF Throttled, Stored, NotFinished
<1>12. LanesCloseOnce'
  BY <1>1, <1>2 DEF Throttled, LanesCloseOnce
<1>. QED
  BY <1>5, <1>7, <1>8, <1>9, <1>10, <1>11, <1>12 DEF Throttled

\* One more terminal event on a lane, and k more findings.
LEMMA LaneGrows ==
    ASSUME NEW l \in [closed : Nat, findings : Nat], NEW k \in Nat
    PROVE  LET m == [l EXCEPT !.closed = @ + 1, !.findings = @ + k] IN
           /\ m.closed = l.closed + 1 /\ m.findings = l.findings + k
           /\ m \in [closed : Nat, findings : Nat]
<1>. DEFINE m == [l EXCEPT !.closed = @ + 1, !.findings = @ + k]
<1>1. m.closed = l.closed + 1
  OBVIOUS
<1>2. m.findings = l.findings + k
  OBVIOUS
<1>3. m \in [closed : Nat, findings : Nat]
  <2>. DEFINE a == [l EXCEPT !.closed = l.closed + 1]
              b == [a EXCEPT !.findings = a.findings + k]
  <2>1. a \in [closed : Nat, findings : Nat]
    OBVIOUS
  <2>2. b \in [closed : Nat, findings : Nat]
    <3>. HIDE DEF a
    <3>. QED
      BY <2>1
  <2>3. m = b
    OBVIOUS
  <2>. QED
    BY <2>2, <2>3
<1>. QED
  BY <1>1, <1>2, <1>3

\* _run_unit returns: the slot is given back, the lane closed and the run there,
\* whichever way the attempt ended.
LEMMA ReturnHolds ==
    ASSUME Throttled, NEW u \in Units, NEW r \in Runs, phase[u] \in Running, Return(u, r)
    PROVE  Throttled'
<1>. USE DEF bucketVars, waveVars
<1>1. /\ phase' = [phase EXCEPT ![u] = "done"]
      /\ slots' = slots + 1
      /\ run' = [run EXCEPT ![u] = r]
      /\ lane' = [lane EXCEPT ![u].closed = @ + 1,
                              ![u].findings = @ + (IF r.finding THEN 1 ELSE 0)]
      /\ UNCHANGED <<attempt, tokens, refills, paid, wave, store, degraded>>
  BY DEF Return
<1>2. /\ phase \in [Units -> Phases] /\ run \in [Units -> Runs \cup {NoRun}]
      /\ lane \in [Units -> [closed : Nat, findings : Nat]]
      /\ slots \in 0..MaxInFlight /\ MaxInFlight \in Nat
  BY WaveAssumption DEF Throttled, TypeOK
<1>3. phase[u] \in Holding /\ phase[u] \notin {"idle", "queued", "bucket", "backoff", "done"}
  BY DEF Running, Holding
<1>4. InFlight' = InFlight \ {u} /\ u \in InFlight
  BY <1>1, <1>2, <1>3 DEF InFlight, Holding, Running
<1>5. Cardinality(InFlight') = Cardinality(InFlight) - 1 /\ Cardinality(InFlight) \in Nat \ {0}
  BY <1>4, InFlightFinite, OneLess
<1>6. SlotsAccountedFor' /\ slots' \in 0..MaxInFlight
  <2>1. Cardinality(InFlight) + slots = MaxInFlight /\ slots' = slots + 1
    BY <1>1 DEF Throttled, SlotsAccountedFor
  <2>2. slots \in Nat /\ MaxInFlight \in Nat
    BY <1>2
  <2>3. Cardinality(InFlight') + slots' = MaxInFlight /\ slots' \in 0..MaxInFlight
    BY <1>5, <2>1, <2>2
  <2>. QED
    BY <2>3 DEF SlotsAccountedFor
<1>7. /\ lane[u].closed = 0 /\ lane[u].findings = (IF run[u].finding THEN 1 ELSE 0)
      /\ run[u] = NoRun
  BY <1>3 DEF Throttled, LanesCloseOnce
<1>8. lane[u].findings = 0
  BY <1>7 DEF NoRun
<1>. DEFINE k == IF r.finding THEN 1 ELSE 0
<1>9. /\ lane'[u].closed = 1 /\ lane'[u].findings = k
      /\ lane' \in [Units -> [closed : Nat, findings : Nat]]
      /\ \A v \in Units \ {u} : lane'[v] = lane[v]
  <2>1. lane'[u] = [lane[u] EXCEPT !.closed = @ + 1, !.findings = @ + k]
    BY <1>1, <1>2
  <2>2. k \in Nat
    OBVIOUS
  <2>3. lane' = [lane EXCEPT ![u] = lane'[u]]
    BY <1>1, <1>2
  <2>. HIDE DEF k
  <2>4. lane[u] \in [closed : Nat, findings : Nat]
    BY <1>2
  <2>5. /\ lane'[u].closed = lane[u].closed + 1 /\ lane'[u].findings = lane[u].findings + k
        /\ lane'[u] \in [closed : Nat, findings : Nat]
    BY <2>1, <2>2, <2>4, LaneGrows
  <2>6. lane'[u].closed = 1 /\ lane'[u].findings = k
    BY <1>7, <1>8, <2>2, <2>5
  <2>7. lane' \in [Units -> [closed : Nat, findings : Nat]]
    BY <1>2, <2>3, <2>5
  <2>. QED
    BY <1>2, <2>3, <2>6, <2>7
<1>. HIDE DEF k
<1>10. run' \in [Units -> Runs \cup {NoRun}] /\ phase' \in [Units -> Phases]
  BY <1>1, <1>2 DEF Phases
<1>11. TypeOK'
  BY <1>1, <1>6, <1>9, <1>10 DEF Throttled, TypeOK
<1>12. EveryAttemptPaid' /\ Attempting'
  BY <1>1, <1>2 DEF Throttled, EveryAttemptPaid, Attempting, Running
<1>13. wave \in {1, 2} /\ (wave = 2 => u \notin FirstUnits)
  BY <1>3, UnitsAre DEF Throttled, TypeOK, Waves
<1>14. Waves'
  BY <1>1, <1>2, <1>3, <1>13, UnitsAre DEF Throttled, Waves
<1>15. Stored'
  <2>1. wave = 2 => {v \in FirstUnits : NotFinished(v)'} = {v \in FirstUnits : NotFinished(v)}
    BY <1>1, <1>2, <1>13, UnitsAre DEF NotFinished
  <2>. QED
    BY <1>1, <1>13, <2>1 DEF Throttled, Stored
<1>16. LanesCloseOnce'
  <2>1. r # NoRun
    BY DEF Runs, NoRun, Statuses
  <2>2. /\ lane'[u].closed = 1 /\ lane'[u].findings = k
        /\ run'[u] = r /\ phase'[u] = "done"
    BY <1>1, <1>2, <1>9
  <2>3. \A v \in Units \ {u} : lane'[v] = lane[v] /\ run'[v] = run[v] /\ phase'[v] = phase[v]
    BY <1>1, <1>2, <1>9
  <2>. QED
    BY <2>1, <2>2, <2>3 DEF Throttled, LanesCloseOnce, k
<1>. QED
  BY <1>6, <1>11, <1>12, <1>14, <1>15, <1>16 DEF Throttled

-----------------------------------------------------------------------------
(* The wave around its units *)

\* Whatever one unit's coroutine does between two awaits.
LEMMA UnitStepHolds ==
    ASSUME Throttled, NEW u \in Units, UnitStep(u)
    PROVE  Throttled'
<1>. USE DEF Running, Holding
<1>0. /\ phase[u] \in Running => attempt[u] > 0
      /\ phase[u] \in {"bucket", "backoff"} => attempt[u] < Allowed
  BY DEF Throttled, EveryAttemptPaid, Attempting
<1>1. \A status \in Statuses : Without(status) \in Runs
  BY DEF Without, Runs
<1>2. CASE EnterSemaphore(u)
  BY <1>2, EnterHolds
<1>3. CASE TakeToken(u)
  BY <1>3, TokenHolds
<1>4. CASE GatherFails(u)
  <2>1. PICK status \in {"degraded", "failed"} : Return(u, Without(status))
    BY <1>4 DEF GatherFails
  <2>. QED
    BY <1>1, <1>4, <2>1, ReturnHolds DEF GatherFails, Statuses
<1>5. CASE Ask(u)
  BY <1>0, <1>5, MoveHolds DEF Ask
<1>6. CASE ModelFails(u)
  BY <1>1, <1>6, ReturnHolds DEF ModelFails, Statuses
<1>7. CASE Answered(u)
  BY <1>0, <1>7, MoveHolds DEF Answered
<1>8. CASE EvidenceRejected(u)
  BY <1>1, <1>8, ReturnHolds DEF EvidenceRejected, Statuses
<1>9. CASE Accepted(u)
  <2>1. PICK claimed \in Statuses :
            Return(u, [status |-> RecordedStatus(claimed), finding |-> TRUE])
    BY <1>9 DEF Accepted
  <2>2. RecordedStatus(claimed) \in Statuses
    BY DEF RecordedStatus, Statuses
  <2>3. [status |-> RecordedStatus(claimed), finding |-> TRUE] \in Runs
    BY <2>2 DEF Runs
  <2>. QED
    BY <1>9, <2>1, <2>3, ReturnHolds DEF Accepted
<1>10. CASE TimedOut(u)
  <2>1. CASE Return(u, Without("timeout"))
    BY <1>1, <1>10, <2>1, ReturnHolds DEF TimedOut, Statuses
  <2>2. CASE /\ attempt[u] < Allowed
             /\ phase' = [phase EXCEPT ![u] = "backoff"]
             /\ UNCHANGED <<attempt, slots, run, lane, bucketVars, waveVars>>
    BY <1>10, <2>2, MoveHolds DEF TimedOut
  <2>. QED
    BY <1>10, <2>1, <2>2 DEF TimedOut
<1>11. CASE Retry(u)
  BY <1>0, <1>11, MoveHolds DEF Retry
<1>. QED
  BY <1>2, <1>3, <1>4, <1>5, <1>6, <1>7, <1>8, <1>9, <1>10, <1>11 DEF UnitStep

\* The clock adds a token; no unit notices.
LEMMA RefillHolds ==
    ASSUME Throttled, Refill
    PROVE  Throttled'
<1>. USE DEF unitVars, waveVars
<1>1. TypeOK'
  BY WaveAssumption DEF Throttled, TypeOK, Refill
<1>2. SlotsAccountedFor' /\ EveryAttemptPaid' /\ Attempting'
  BY DEF Throttled, Refill, SlotsAccountedFor, InFlight, EveryAttemptPaid, Attempting
<1>3. Waves' /\ Stored' /\ LanesCloseOnce'
  BY DEF Throttled, Refill, Waves, Stored, NotFinished, LanesCloseOnce
<1>. QED
  BY <1>1, <1>2, <1>3 DEF Throttled

\* Idle units that are queued: nobody holds a slot for it, or has an attempt.
LEMMA QueueHolds ==
    ASSUME Throttled, NEW us \in SUBSET Units, Queue(us),
           \A u \in us : phase[u] = "idle",
           UNCHANGED <<attempt, slots, run, lane, bucketVars>>
    PROVE  /\ phase' \in [Units -> Phases]
           /\ \A u \in Units : phase'[u] = IF u \in us THEN "queued" ELSE phase[u]
           /\ SlotsAccountedFor' /\ EveryAttemptPaid' /\ Attempting' /\ LanesCloseOnce'
<1>. USE DEF bucketVars
<1>1. phase \in [Units -> Phases]
  BY DEF Throttled, TypeOK
<1>2. \A u \in Units : phase'[u] = IF u \in us THEN "queued" ELSE phase[u]
  BY DEF Queue
<1>3. phase' \in [Units -> Phases]
  BY <1>1 DEF Queue, Phases
<1>4. InFlight' = InFlight
  BY <1>2 DEF InFlight, Holding, Running
<1>5. SlotsAccountedFor'
  BY <1>4 DEF Throttled, SlotsAccountedFor
<1>6. EveryAttemptPaid' /\ Attempting'
  BY <1>2 DEF Throttled, EveryAttemptPaid, Attempting, Running
<1>7. LanesCloseOnce'
  BY <1>2 DEF Throttled, LanesCloseOnce
<1>. QED
  BY <1>2, <1>3, <1>5, <1>6, <1>7

\* run_wave begins the first wave.
LEMMA StartHolds ==
    ASSUME Throttled, StartFirst
    PROVE  Throttled'
<1>1. /\ wave = 0 /\ wave' = 1 /\ Queue(FirstUnits)
      /\ UNCHANGED <<attempt, slots, run, lane, bucketVars>>
      /\ UNCHANGED <<store, degraded>>
  BY DEF StartFirst
<1>2. \A u \in Units : phase[u] = "idle"
  BY <1>1 DEF Throttled, Waves
<1>3. /\ phase' \in [Units -> Phases]
      /\ \A u \in Units : phase'[u] = IF u \in FirstUnits THEN "queued" ELSE phase[u]
      /\ SlotsAccountedFor' /\ EveryAttemptPaid' /\ Attempting' /\ LanesCloseOnce'
  BY <1>1, <1>2, UnitsAre, QueueHolds
<1>4. TypeOK'
  BY <1>1, <1>3 DEF Throttled, TypeOK, bucketVars
<1>5. Waves'
  BY <1>1, <1>2, <1>3 DEF Waves
<1>6. Stored'
  BY <1>1 DEF Throttled, Stored
<1>. QED
  BY <1>3, <1>4, <1>5, <1>6 DEF Throttled

\* The first gather returns: what it ran is stored, and the challenge is queued
\* where there is one.
LEMMA FirstReturnsHolds ==
    ASSUME Throttled, FirstReturns
    PROVE  Throttled'
<1>1. /\ wave = 1 /\ \A u \in FirstUnits : phase[u] = "done"
      /\ store' = store \o First
      /\ degraded' = degraded \cup {u \in FirstUnits : NotFinished(u)}
      /\ UNCHANGED <<attempt, slots, run, lane, bucketVars>>
  BY DEF FirstReturns, Collect
<1>2. store' = First /\ degraded' = {u \in FirstUnits : NotFinished(u)}
  BY <1>1, UnitsAre DEF Throttled, Stored
<1>3. store' \in Seq(Units) /\ degraded' \subseteq Units
  BY <1>2, UnitsAre
<1>4. \A u \in Units : phase[u] = "idle" <=> u \notin FirstUnits
  BY <1>1 DEF Throttled, Waves
<1>5. CASE Challenger \in Units
  <2>1. wave' = 2 /\ Queue({Challenger})
    BY <1>5 DEF FirstReturns
  <2>2. /\ phase' \in [Units -> Phases]
        /\ \A u \in Units : phase'[u] = IF u \in {Challenger} THEN "queued" ELSE phase[u]
        /\ SlotsAccountedFor' /\ EveryAttemptPaid' /\ Attempting' /\ LanesCloseOnce'
    BY <1>1, <1>4, <1>5, <2>1, UnitsAre, QueueHolds
  <2>3. TypeOK'
    BY <1>1, <1>3, <2>1, <2>2 DEF Throttled, TypeOK, bucketVars
  <2>4. Waves'
    BY <1>1, <1>5, <2>1, <2>2, UnitsAre DEF Waves
  <2>5. Stored'
    BY <1>1, <1>2, <2>1 DEF Stored, NotFinished
  <2>. QED
    BY <2>2, <2>3, <2>4, <2>5 DEF Throttled
<1>6. CASE Challenger \notin Units
  <2>1. wave' = 3 /\ phase' = phase
    BY <1>6 DEF FirstReturns
  <2>2. Units = FirstUnits
    BY <1>6, UnitsAre
  <2>3. TypeOK'
    BY <1>1, <1>3, <2>1 DEF Throttled, TypeOK, bucketVars
  <2>4. Waves'
    BY <1>1, <2>1, <2>2 DEF Waves
  <2>5. Stored'
    BY <1>1, <1>2, <1>6, <2>1, <2>2 DEF Stored, NotFinished
  <2>6. SlotsAccountedFor' /\ EveryAttemptPaid' /\ Attempting' /\ LanesCloseOnce'
    BY <1>1, <2>1 DEF Throttled, SlotsAccountedFor, InFlight, EveryAttemptPaid, Attempting,
       LanesCloseOnce, bucketVars
  <2>. QED
    BY <2>3, <2>4, <2>5, <2>6 DEF Throttled
<1>. QED
  BY <1>5, <1>6

\* The second gather returns, of the one unit it ran.
LEMMA ChallengeReturnsHolds ==
    ASSUME Throttled, ChallengeReturns
    PROVE  Throttled'
<1>. USE DEF unitVars, bucketVars
<1>1. /\ wave = 2 /\ wave' = 3 /\ phase[Challenger] = "done"
      /\ store' = store \o <<Challenger>>
      /\ degraded' = degraded \cup {u \in {Challenger} : NotFinished(u)}
      /\ UNCHANGED <<phase, attempt, slots, run, lane, tokens, refills, paid>>
  BY DEF ChallengeReturns, Collect
<1>2. /\ \A u \in FirstUnits : phase[u] = "done"
      /\ Challenger \in Units
      /\ store = First /\ degraded = {u \in FirstUnits : NotFinished(u)}
  BY <1>1 DEF Throttled, Waves, Stored
<1>3. store' = First \o <<Challenger>> /\ store' \in Seq(Units)
  BY <1>1, <1>2, UnitsAre
<1>4. Units = FirstUnits \cup {Challenger}
  BY <1>2, UnitsAre
<1>5. degraded' = {u \in Units : NotFinished(u)}
  BY <1>1, <1>2, <1>4
<1>6. TypeOK'
  BY <1>1, <1>3, <1>5 DEF Throttled, TypeOK
<1>7. Waves'
  BY <1>1, <1>2, <1>4 DEF Waves
<1>8. Stored'
  BY <1>1, <1>2, <1>3, <1>5 DEF Stored, NotFinished
<1>9. SlotsAccountedFor' /\ EveryAttemptPaid' /\ Attempting' /\ LanesCloseOnce'
  BY <1>1 DEF Throttled, SlotsAccountedFor, InFlight, EveryAttemptPaid, Attempting,
     LanesCloseOnce
<1>. QED
  BY <1>6, <1>7, <1>8, <1>9 DEF Throttled

-----------------------------------------------------------------------------
(* The theorems *)

\* Slots, tokens, attempts, lanes and the store agree with one another in every
\* state of an investigation's waves, whatever is retried, refused or cut off.
THEOREM ThrottledHolds == WaveSpec => []Throttled
<1>1. WaveInit => Throttled
  <2>. SUFFICES ASSUME WaveInit PROVE Throttled
    OBVIOUS
  <2>1. TypeOK
    BY AllowedOne, WaveAssumption DEF WaveInit, TypeOK, Phases
  <2>2. SlotsAccountedFor
    <3>1. InFlight = {}
      BY DEF WaveInit, InFlight, Holding, Running
    <3>. QED
      BY <3>1, FS_EmptySet, WaveAssumption DEF WaveInit, SlotsAccountedFor
  <2>3. EveryAttemptPaid /\ Attempting
    BY AllowedOne DEF WaveInit, EveryAttemptPaid, Attempting, Running
  <2>4. Waves /\ Stored
    BY DEF WaveInit, Waves, Stored
  <2>5. LanesCloseOnce
    BY DEF WaveInit, LanesCloseOnce, NoRun
  <2>. QED
    BY <2>1, <2>2, <2>3, <2>4, <2>5 DEF Throttled
<1>2. Throttled /\ [WaveNext]_AllVars => Throttled'
  <2>. SUFFICES ASSUME Throttled, [WaveNext]_AllVars PROVE Throttled'
    OBVIOUS
  <2>1. ASSUME NEW u \in Units, UnitStep(u) PROVE Throttled'
    BY <2>1, UnitStepHolds
  <2>2. CASE UNCHANGED AllVars
    <3>. USE <2>2 DEF AllVars, unitVars, bucketVars, waveVars
    <3>1. TypeOK' /\ SlotsAccountedFor' /\ EveryAttemptPaid' /\ Attempting'
      BY DEF Throttled, TypeOK, SlotsAccountedFor, InFlight, EveryAttemptPaid, Attempting
    <3>2. Waves' /\ Stored' /\ LanesCloseOnce'
      BY DEF Throttled, Waves, Stored, NotFinished, LanesCloseOnce
    <3>. QED
      BY <3>1, <3>2 DEF Throttled
  <2>. QED
    BY <2>1, <2>2, StartHolds, FirstReturnsHolds, ChallengeReturnsHolds, RefillHolds
    DEF WaveNext, Over
<1>. QED
  BY <1>1, <1>2, PTL DEF WaveSpec

\* Every slot of the semaphore and every token of the bucket is accounted for,
\* for any max_in_flight, rate, number of agents and number of attempts.
THEOREM NothingOutrunsTheBucket == WaveSpec => []WhatIsHeldIsAccountedFor
<1>1. Throttled => WhatIsHeldIsAccountedFor
  BY DEF Throttled, WhatIsHeldIsAccountedFor
<1>. QED
  BY <1>1, ThrottledHolds, PTL

\* A unit has exactly one place in the order its wave was stored in.
LEMMA StoredOnce ==
    ASSUME Throttled, wave = 3, NEW u \in Units
    PROVE  Cardinality({i \in DOMAIN store : store[i] = u}) = 1
<1>1. \E n \in DOMAIN store : {i \in DOMAIN store : store[i] = u} = {n}
  <2>1. CASE Challenger \in Units
    <3>1. store = First \o <<Challenger>>
      BY <2>1 DEF Throttled, Stored
    <3>2. /\ DOMAIN store = 1..(Len(First) + 1)
          /\ \A i \in 1..Len(First) : store[i] = First[i]
          /\ store[Len(First) + 1] = Challenger
      BY <2>1, <3>1, UnitsAre
    <3>3. CASE u = Challenger
      <4>1. {i \in DOMAIN store : store[i] = u} = {Len(First) + 1}
        BY <3>2, <3>3, UnitsAre DEF FirstUnits
      <4>. QED
        BY <3>2, <4>1, UnitsAre
    <3>4. CASE u # Challenger
      <4>1. PICK n \in DOMAIN First : First[n] = u
        BY <3>4, UnitsAre DEF FirstUnits
      <4>2. {i \in DOMAIN store : store[i] = u} = {n}
        BY <3>2, <3>4, <4>1, UnitsAre, WaveAssumption
      <4>. QED
        BY <3>2, <4>1, <4>2, UnitsAre
    <3>. QED
      BY <3>3, <3>4
  <2>2. CASE Challenger \notin Units
    <3>1. store = First
      BY <2>2 DEF Throttled, Stored
    <3>2. PICK n \in DOMAIN First : First[n] = u
      BY <2>2, UnitsAre DEF FirstUnits
    <3>3. {i \in DOMAIN store : store[i] = u} = {n}
      BY <3>1, <3>2, WaveAssumption
    <3>. QED
      BY <3>1, <3>2, <3>3
  <2>. QED
    BY <2>1, <2>2
<1>. QED
  BY <1>1, FS_Singleton

\* Every agent of the plan ends on one record, in the store and on the screen
\* alike, and Supplier Risk's challenge comes after all of the first wave's.
THEOREM EveryAgentEndsOnOneRecord == WaveSpec => []EveryAgentAccountedFor
<1>1. Throttled => EveryAgentAccountedFor
  <2>. SUFFICES ASSUME Throttled PROVE EveryAgentAccountedFor
    OBVIOUS
  <2>1. ChallengeSeesTheWave
    <3>. SUFFICES ASSUME NEW u \in Units \ FirstUnits, phase[u] # "idle"
                  PROVE  /\ \A v \in FirstUnits : phase[v] = "done"
                         /\ \E n \in 0..Len(store) : SubSeq(store, 1, n) = First
      BY DEF ChallengeSeesTheWave
    <3>1. u = Challenger /\ Challenger \in Units
      BY UnitsAre
    <3>2. wave \in {2, 3}
      BY DEF Throttled, TypeOK, Waves
    <3>3. \A v \in FirstUnits : phase[v] = "done"
      BY <3>2, UnitsAre DEF Throttled, Waves
    <3>4. store = First \/ store = First \o <<Challenger>>
      BY <3>1, <3>2 DEF Throttled, Stored
    <3>5. Len(First) \in 0..Len(store) /\ SubSeq(store, 1, Len(First)) = First
      <4>1. CASE store = First
        BY <4>1, UnitsAre
      <4>2. CASE store = First \o <<Challenger>>
        BY <3>1, <4>2, UnitsAre
      <4>. QED
        BY <3>4, <4>1, <4>2
    <3>. QED
      BY <3>3, <3>5
  <2>2. EveryAgentStored
    BY StoredOnce DEF Throttled, Stored, EveryAgentStored
  <2>. QED
    BY <2>1, <2>2 DEF Throttled, EveryAgentAccountedFor
<1>. QED
  BY <1>1, ThrottledHolds, PTL

-----------------------------------------------------------------------------
(* The data path: the inductive invariant *)

\* Nobody has answered before its wave, and an agent that has answered gathered
\* before; its run is what the runner makes of the two.
Asked ==
    /\ step \in {"plan", "wave one", "answer one"} => DOMAIN answered = {}
    /\ step \in {"wave two", "answer two"} => DOMAIN answered \subseteq FirstWave
    /\ DOMAIN answered \subseteq DOMAIN gathered \cap DOMAIN runs
    /\ \A r \in DOMAIN answered :
          /\ r \in Specialists => answered[r] \in Raws[r]
          /\ \E p, w : runs[r] = RunOf(p, r, gathered[r], w, answered[r])

Gathered ==
    /\ step = "answer one" => FirstWave \subseteq DOMAIN gathered
    /\ step = "answer two" => SecondWave \subseteq DOMAIN gathered

Thread == EverySpecialistAccountedFor /\ Asked /\ Gathered /\ LiveRowsAreCleared

-----------------------------------------------------------------------------
(* The menu *)

LEMMA SpecialistsListed ==
    Specialists = {"forecast", "variance", "ar_collections", "ap_optimization",
                   "supplier_risk", "dodo_revenue"}
  BY DEF Specialists, SPECIALIST_ROLES, Range

\* The catalogue: no plan invokes a stranger, none is wider than the default,
\* and no two have the same id (InvestigationPlan.model_post_init).
LEMMA Catalogue ==
    /\ DOMAIN PLAN_CATALOGUE = 1..5
    /\ \A i \in 1..5 :
          /\ Invoked(PLAN_CATALOGUE[i]) \subseteq Specialists
          /\ Len(PLAN_CATALOGUE[i].invokes) \in 0..6
          /\ PLAN_CATALOGUE[i].id = DEFAULT_PLAN_ID => Len(PLAN_CATALOGUE[i].invokes) = 6
    /\ \A i, j \in 1..5 : PLAN_CATALOGUE[i].id = PLAN_CATALOGUE[j].id => i = j
<1>1. DOMAIN PLAN_CATALOGUE = 1..5
  BY DEF PLAN_CATALOGUE
<1>2. /\ PLAN_CATALOGUE[1] = PlanOf("full-liquidity-sweep", SPECIALIST_ROLES,
                                    {"min_cash", "min_30d_liquidity"})
      /\ PLAN_CATALOGUE[2] = PlanOf("receivables-shortfall",
                                    <<"forecast", "variance", "ar_collections">>, {"min_cash"})
      /\ PLAN_CATALOGUE[3] = PlanOf("payables-pressure",
                                    <<"forecast", "ap_optimization", "supplier_risk">>,
                                    {"min_cash", "max_supplier_delay"})
      /\ PLAN_CATALOGUE[4] = PlanOf("subscription-decline",
                                    <<"forecast", "variance", "dodo_revenue">>, {"min_cash"})
      /\ PLAN_CATALOGUE[5] = PlanOf("covenant-headroom",
                                    <<"forecast", "variance", "ap_optimization", "supplier_risk">>,
                                    {"covenant_ratio", "max_revolver_utilization"})
  BY DEF PLAN_CATALOGUE
<1>3. \A i, j \in 1..5 : PLAN_CATALOGUE[i].id = PLAN_CATALOGUE[j].id => i = j
  BY <1>2 DEF PlanOf
<1>4. ASSUME NEW i \in 1..5
      PROVE  /\ Invoked(PLAN_CATALOGUE[i]) \subseteq Specialists
             /\ Len(PLAN_CATALOGUE[i].invokes) \in 0..6
             /\ PLAN_CATALOGUE[i].id = DEFAULT_PLAN_ID => Len(PLAN_CATALOGUE[i].invokes) = 6
  <2>1. CASE i = 1
    BY <1>2, <2>1 DEF PlanOf, Invoked, Specialists, SPECIALIST_ROLES
  <2>2. CASE i = 2
    BY <1>2, <2>2, SpecialistsListed DEF PlanOf, Invoked, Range, DEFAULT_PLAN_ID
  <2>3. CASE i = 3
    BY <1>2, <2>3, SpecialistsListed DEF PlanOf, Invoked, Range, DEFAULT_PLAN_ID
  <2>4. CASE i = 4
    BY <1>2, <2>4, SpecialistsListed DEF PlanOf, Invoked, Range, DEFAULT_PLAN_ID
  <2>5. CASE i = 5
    BY <1>2, <2>5, SpecialistsListed DEF PlanOf, Invoked, Range, DEFAULT_PLAN_ID
  <2>. QED
    BY <2>1, <2>2, <2>3, <2>4, <2>5
<1>. QED
  BY <1>1, <1>3, <1>4

\* What is first on a menu is on it.
LEMMA FirstIsOn ==
    ASSUME NEW menu \in SUBSET (1..5), menu # {}
    PROVE  \E i \in menu : FirstOn(menu) = PLAN_CATALOGUE[i]
<1>1. \E i \in menu : \A j \in menu : i <= j
  BY LeastOf
<1>. QED
  BY <1>1 DEF FirstOn

\* Some plan of a menu is the widest.
LEMMA WidestExists ==
    ASSUME NEW menu \in SUBSET (1..5), menu # {}
    PROVE  Widest(menu) # {} /\ Widest(menu) \subseteq menu
<1>. DEFINE Width(i) == Len(PLAN_CATALOGUE[i].invokes)
            narrow == {6 - Width(i) : i \in menu}
<1>1. \A i \in menu : Width(i) \in 0..6
  BY Catalogue
<1>. HIDE DEF Width
<1>2. \A i \in menu : 6 - Width(i) \in Nat
  BY <1>1
<1>3. narrow \in SUBSET Nat /\ narrow # {}
  BY <1>2
<1>4. PICK t \in narrow : \A u \in narrow : t <= u
  BY <1>3, LeastOf
<1>5. PICK i \in menu : t = 6 - Width(i)
  BY <1>4
<1>6. \A j \in menu : 6 - Width(i) <= 6 - Width(j)
  BY <1>4, <1>5
<1>7. \A j \in menu : Width(i) >= Width(j)
  BY <1>1, <1>6
<1>. QED
  BY <1>7 DEF Widest, Width

\* Commander.plan settles on a runnable plan of the catalogue or on none, and a
\* plan the model did not choose is as wide as any that could have run.
LEMMA SelectedRuns ==
    ASSUME NEW m, NEW kinds, NEW choice \in Answers, Selected(m, kinds, choice).plan # NoPlan
    PROVE  \E i \in 1..5 :
              /\ Selected(m, kinds, choice).plan = PLAN_CATALOGUE[i]
              /\ RunnableWith(PLAN_CATALOGUE[i], m)
              /\ ~Selected(m, kinds, choice).model_selected =>
                    \A j \in AvailablePlans(m) :
                       Len(PLAN_CATALOGUE[j].invokes) <= Len(PLAN_CATALOGUE[i].invokes)
<1>. DEFINE offered == {PLAN_CATALOGUE[i].id : i \in PlansFor(m, kinds)}
            fell == choice = <<>> \/ choice[1] \notin offered
            plan == IF fell THEN FallbackPlan(m) ELSE PLANS_BY_ID(choice[1])
<1>1. /\ Selected(m, kinds, choice).plan = plan
      /\ Selected(m, kinds, choice).model_selected = ~fell
  BY DEF Selected
<1>2. AvailablePlans(m) \subseteq 1..5
  BY Catalogue DEF AvailablePlans
<1>3. CASE fell
  <2>. DEFINE default == {i \in AvailablePlans(m) : PLAN_CATALOGUE[i].id = DEFAULT_PLAN_ID}
              menu == IF default # {} THEN default ELSE Widest(AvailablePlans(m))
  <2>1. plan = FallbackPlan(m) /\ AvailablePlans(m) # {} /\ plan = FirstOn(menu)
    BY <1>1, <1>3 DEF FallbackPlan
  <2>2. menu \subseteq AvailablePlans(m) /\ menu # {}
    BY <1>2, <2>1, WidestExists
  <2>3. PICK i \in menu : plan = PLAN_CATALOGUE[i]
    BY <1>2, <2>1, <2>2, FirstIsOn
  <2>4. ASSUME NEW j \in AvailablePlans(m)
        PROVE  Len(PLAN_CATALOGUE[j].invokes) <= Len(PLAN_CATALOGUE[i].invokes)
    <3>1. /\ Len(PLAN_CATALOGUE[j].invokes) \in 0..6
          /\ PLAN_CATALOGUE[i].id = DEFAULT_PLAN_ID => Len(PLAN_CATALOGUE[i].invokes) = 6
      BY <1>2, <2>2, Catalogue
    <3>2. CASE default # {}
      <4>1. PLAN_CATALOGUE[i].id = DEFAULT_PLAN_ID
        BY <2>3, <3>2
      <4>2. Len(PLAN_CATALOGUE[i].invokes) = 6
        BY <3>1, <4>1
      <4>3. \A a \in 0..6 : a <= 6
        OBVIOUS
      <4>. QED
        BY <3>1, <4>2, <4>3, Zenon
    <3>3. CASE default = {}
      <4>1. i \in Widest(AvailablePlans(m))
        BY <2>3, <3>3
      <4>2. Len(PLAN_CATALOGUE[i].invokes) >= Len(PLAN_CATALOGUE[j].invokes)
        BY <4>1 DEF Widest
      <4>3. Len(PLAN_CATALOGUE[i].invokes) \in 0..6
        BY <1>2, <2>2, Catalogue
      <4>. QED
        BY <3>1, <4>2, <4>3
    <3>. QED
      BY <3>2, <3>3
  <2>5. i \in AvailablePlans(m) /\ RunnableWith(PLAN_CATALOGUE[i], m)
    BY <2>2 DEF AvailablePlans
  <2>. QED
    BY <1>1, <1>2, <2>3, <2>4, <2>5
<1>4. CASE ~fell
  <2>1. plan = PLANS_BY_ID(choice[1]) /\ choice[1] \in offered
    BY <1>4
  <2>2. PICK i \in PlansFor(m, kinds) : choice[1] = PLAN_CATALOGUE[i].id
    BY <2>1
  <2>3. i \in AvailablePlans(m)
    BY <2>2 DEF PlansFor
  <2>4. i \in 1..5 /\ RunnableWith(PLAN_CATALOGUE[i], m)
    BY <1>2, <2>3 DEF AvailablePlans
  <2>5. Range(PLAN_CATALOGUE) = {PLAN_CATALOGUE[j] : j \in 1..5}
    BY Catalogue DEF Range
  <2>6. PLANS_BY_ID(choice[1]) = PLAN_CATALOGUE[i]
    BY <2>2, <2>4, <2>5, Catalogue DEF PLANS_BY_ID
  <2>. QED
    BY <1>1, <1>4, <2>1, <2>4, <2>6
<1>. QED
  BY <1>3, <1>4

\* plans.skips: whoever is not invoked is skipped, for the true reason.
LEMMA PlanAccounts ==
    ASSUME EverySpecialistAccountedFor, Plan
    PROVE  EverySpecialistAccountedFor'
<1>1. PICK m \in Manifests, kinds \in Kinds, choice \in Answers :
          dispatch' = Selected(m, kinds, choice) /\ manifest' = m
  BY DEF Plan
<1>. SUFFICES ASSUME dispatch'.plan # NoPlan
              PROVE  EverySpecialistAccountedFor'
  BY DEF EverySpecialistAccountedFor
<1>2. PICK i \in 1..5 :
         /\ Selected(m, kinds, choice).plan = PLAN_CATALOGUE[i]
         /\ RunnableWith(PLAN_CATALOGUE[i], m)
         /\ ~Selected(m, kinds, choice).model_selected =>
               \A j \in AvailablePlans(m) :
                  Len(PLAN_CATALOGUE[j].invokes) <= Len(PLAN_CATALOGUE[i].invokes)
  BY <1>1, SelectedRuns
<1>. DEFINE P == PLAN_CATALOGUE[i]
<1>3. dispatch'.plan = P /\ dispatch'.skipped = Skips(P, m)
  BY <1>1, <1>2 DEF Selected
<1>4. /\ \A r \in Invoked(P) : ROLE_SOURCES[r] \in m
      /\ Invoked(P) \subseteq Specialists
  BY <1>2, Catalogue DEF RunnableWith, RequiredSources
<1>5. ~dispatch'.model_selected =>
         \A j \in AvailablePlans(m) : Len(PLAN_CATALOGUE[j].invokes) <= Len(P.invokes)
  BY <1>1, <1>2
<1>. HIDE DEF P
<1>6. /\ DOMAIN Skips(P, m) = Specialists \ Invoked(P)
      /\ \A r \in DOMAIN Skips(P, m) :
            (Skips(P, m)[r] = "source missing") <=> ROLE_SOURCES[r] \notin m
  BY DEF Skips
<1>. QED
  BY <1>1, <1>3, <1>4, <1>5, <1>6 DEF EverySpecialistAccountedFor

-----------------------------------------------------------------------------
(* The waves *)

\* The AP agent's review, whatever the provider did to the payload before: a
\* run with levers comes from an answer without a deferral of a protected
\* payment.
LEMMA WholeOrNothing ==
    ASSUME NEW p, NEW g, NEW w, NEW raw, DOMAIN raw = RawFields,
           RunOf(p, "ap_optimization", g, w, raw).levers # <<>>,
           NEW i \in DOMAIN raw.levers, raw.levers[i].kind = "ap_defer"
    PROVE  ~TouchesProtected(g, raw.levers[i])
<1>. DEFINE reply == Complete(p, raw)
            reviewed == Review("ap_optimization", g, reply.raw)
<1>1. reply.raw = raw \/ reply.raw = Repaired(raw)
  BY DEF Complete, GeminiComplete, ReplayComplete, Reply
<1>2. Repaired(raw).levers = raw.levers /\ DOMAIN Repaired(raw) = RawFields
  BY DEF Repaired, RawFields
<1>3. reply.raw.levers = raw.levers /\ DOMAIN reply.raw = RawFields
  BY <1>1, <1>2
<1>4. \A status : Run(status).levers = <<>>
  BY DEF Run
<1>5. Found(reviewed).levers = reviewed.levers
  BY DEF Found
<1>6. RunOf(p, "ap_optimization", g, w, raw) = Found(reviewed)
  BY <1>4 DEF RunOf
<1>7. reviewed.levers # <<>>
  BY <1>5, <1>6
<1>. HIDE DEF reply
<1>8. ASSUME TouchesProtected(g, raw.levers[i]) PROVE FALSE
  <2>1. \E j \in DOMAIN reply.raw.levers :
           reply.raw.levers[j].kind = "ap_defer" /\ TouchesProtected(g, reply.raw.levers[j])
    BY <1>3, <1>8
  <2>2. reviewed = [reply.raw EXCEPT !.status = "refused", !.levers = <<>>,
                       !.evidence = IF g.protection THEN {"policy:protected"} ELSE @]
    BY <2>1 DEF Review
  <2>3. reviewed.levers = <<>>
    BY <1>3, <2>2 DEF RawFields
  <2>. QED
    BY <1>7, <2>3
<1>. QED
  BY <1>8

LEMMA WavesAreApart == FirstWave \cap SecondWave = {}
  BY DEF FirstWave, SecondWave

\* A wave gathers for agents that have not answered.
LEMMA WaveHolds ==
    ASSUME Thread, NEW now, NEW roles, NEW next, Wave(now, roles, next),
           \/ now = "wave one" /\ roles = FirstWave /\ next = "answer one"
           \/ now = "wave two" /\ roles = SecondWave /\ next = "answer two"
    PROVE  Thread'
<1>1. /\ step = now /\ step' = next
      /\ gathered' = [r \in DOMAIN gathered \cup roles |->
                         IF r \in roles THEN Gather(r, world) ELSE gathered[r]]
      /\ UNCHANGED <<provider, world, moves, dispatch, manifest, answered, runs, overruled,
                     comp, position, reports, rec, pack>>
  BY DEF Wave, GatherAll, Joined, answer
<1>2. FirstWave' = FirstWave /\ SecondWave' = SecondWave
  BY <1>1 DEF FirstWave, SecondWave
<1>3. EverySpecialistAccountedFor' /\ LiveRowsAreCleared'
  BY <1>1 DEF Thread, EverySpecialistAccountedFor, LiveRowsAreCleared
<1>4. Gathered'
  BY <1>1, <1>2 DEF Gathered
<1>5. DOMAIN answered \cap roles = {} /\ DOMAIN answered \subseteq DOMAIN gathered \cap DOMAIN runs
  BY <1>1, WavesAreApart DEF Thread, Asked
<1>6. \A r \in DOMAIN answered : gathered'[r] = gathered[r]
  BY <1>1, <1>5
<1>7. DOMAIN answered' \subseteq DOMAIN gathered' \cap DOMAIN runs'
  BY <1>1, <1>5
<1>8. \A r \in DOMAIN answered' :
        /\ r \in Specialists => answered'[r] \in Raws[r]
        /\ \E p, w : runs'[r] = RunOf(p, r, gathered'[r], w, answered'[r])
  BY <1>1, <1>6 DEF Thread, Asked
<1>9. /\ step' \in {"plan", "wave one", "answer one"} => DOMAIN answered' = {}
      /\ step' \in {"wave two", "answer two"} => DOMAIN answered' \subseteq FirstWave'
  BY <1>1, <1>2 DEF Thread, Asked
<1>10. Asked'
  BY <1>1, <1>7, <1>8, <1>9 DEF Asked
<1>. QED
  BY <1>3, <1>4, <1>10 DEF Thread

\* Each answer is put on record with the gather of the agent it was asked of.
LEMMA AnswerHolds ==
    ASSUME Thread, NEW now, NEW roles, NEW next, Answer(now, roles, next),
           \/ now = "answer one" /\ roles = FirstWave /\ next \in {"resolve", "wave two"}
           \/ now = "answer two" /\ roles = SecondWave /\ next = "resolve"
    PROVE  Thread'
<1>1. PICK raw \in [roles -> UNION {Raws[r] : r \in roles}] :
        /\ \A r \in roles : raw[r] \in Raws[r]
        /\ answered' = [r \in DOMAIN answered \cup roles |->
                           IF r \in roles THEN raw[r] ELSE answered[r]]
        /\ runs' = [r \in DOMAIN runs \cup roles |->
                       IF r \in roles THEN RunOf(provider, r, gathered[r], world, raw[r])
                       ELSE runs[r]]
  BY DEF Answer, AnswerAll, Joined
<1>2. /\ step = now /\ step' = next
      /\ UNCHANGED <<provider, world, moves, dispatch, manifest, gathered, overruled, comp,
                     position, reports, rec, pack>>
  BY DEF Answer, answer
<1>3. FirstWave' = FirstWave /\ SecondWave' = SecondWave
  BY <1>2 DEF FirstWave, SecondWave
<1>4. EverySpecialistAccountedFor' /\ LiveRowsAreCleared' /\ Gathered'
  BY <1>2 DEF Thread, EverySpecialistAccountedFor, LiveRowsAreCleared, Gathered
<1>5. /\ DOMAIN answered \cap roles = {}
      /\ DOMAIN answered \subseteq DOMAIN gathered \cap DOMAIN runs
      /\ roles \subseteq DOMAIN gathered
      /\ step' \in {"wave two", "answer two"} => DOMAIN answered = {} /\ roles = FirstWave
  BY <1>2, WavesAreApart DEF Thread, Asked, Gathered
<1>6. DOMAIN answered' = DOMAIN answered \cup roles /\ DOMAIN runs' = DOMAIN runs \cup roles
  BY <1>1
<1>7. ASSUME NEW r \in DOMAIN answered'
      PROVE  /\ r \in Specialists => answered'[r] \in Raws[r]
             /\ \E p, w : runs'[r] = RunOf(p, r, gathered'[r], w, answered'[r])
  <2>1. CASE r \in roles
    <3>1. answered'[r] = raw[r] /\ runs'[r] = RunOf(provider, r, gathered[r], world, raw[r])
      BY <1>1, <2>1
    <3>. QED
      BY <1>1, <1>2, <2>1, <3>1
  <2>2. CASE r \notin roles
    <3>1. r \in DOMAIN answered /\ answered'[r] = answered[r]
      BY <1>1, <1>6, <2>2
    <3>2. PICK p, w : runs[r] = RunOf(p, r, gathered[r], w, answered[r])
      BY <3>1 DEF Thread, Asked
    <3>3. runs'[r] = runs[r]
      BY <1>1, <2>2, <3>1 DEF Thread, Asked
    <3>. QED
      BY <1>2, <3>1, <3>2, <3>3 DEF Thread, Asked
  <2>. QED
    BY <2>1, <2>2
<1>8. Asked'
  BY <1>2, <1>3, <1>5, <1>6, <1>7 DEF Asked
<1>. QED
  BY <1>4, <1>8 DEF Thread

-----------------------------------------------------------------------------
(* The cards *)

\* doa_matrix.yaml: the band of the protected class is the blocked one.
LEMMA ProtectedBandBlocks ==
    ASSUME NEW route \in Routes, route.class = "protected_payment_class"
    PROVE  route.blocked = TRUE
  BY DEF Routes, Band

\* prepare(): what classify() calls blocked gets a blocked card.
LEMMA PreparedCleared ==
    ASSUME NEW row, NEW rows, Routable(row, rows)
    PROVE  /\ Prepared(row, rows).doc \in ProtectedDocs(rows) =>
                 /\ Prepared(row, rows).status = "rejected"
                 /\ Prepared(row, rows).card[1].state = "blocked"
           /\ Prepared(row, rows).kind \in ALWAYS_GATED => Prepared(row, rows).card # <<>>
<1>. DEFINE prepared == Prepared(row, rows)
            risk == Classify(row, rows)
            route == CHOOSE r \in RoutesFor(ActionClass(row, rows), row.amount) : TRUE
<1>1. /\ prepared.doc = row.doc /\ prepared.kind = KindOf(row)
      /\ prepared.status = (CASE risk = "auto_safe" -> "queued" [] risk = "blocked" -> "rejected"
                              [] OTHER -> "needs_approval")
      /\ prepared.card = IF risk = "auto_safe" THEN <<>>
                         ELSE <<[required |-> route.accountable,
                                 state |-> IF route.blocked THEN "blocked" ELSE "pending"]>>
  BY DEF Prepared
<1>. HIDE DEF prepared, route
<1>2. ASSUME row.doc \in ProtectedDocs(rows)
      PROVE  prepared.status = "rejected" /\ prepared.card[1].state = "blocked"
  <2>1. risk = "blocked" /\ ActionClass(row, rows) = "protected_payment_class"
    BY <1>2 DEF Classify, ActionClass
  <2>2. Cardinality(RoutesFor("protected_payment_class", row.amount)) = 1
    BY <2>1 DEF Routable
  <2>3. RoutesFor("protected_payment_class", row.amount) # {}
    BY <2>2, FS_EmptySet
  <2>4. route \in RoutesFor("protected_payment_class", row.amount)
    BY <2>1, <2>3 DEF route
  <2>5. route.blocked = TRUE
    BY <2>4, ProtectedBandBlocks DEF RoutesFor
  <2>. QED
    BY <1>1, <2>1, <2>5
<1>3. ASSUME KindOf(row) \in ALWAYS_GATED PROVE prepared.card # <<>>
  <2>1. risk # "auto_safe"
    BY <1>3 DEF Classify, ALWAYS_GATED, AUTO_SAFE_KINDS
  <2>. QED
    BY <1>1, <2>1
<1>4. /\ prepared.doc \in ProtectedDocs(rows) =>
            prepared.status = "rejected" /\ prepared.card[1].state = "blocked"
      /\ prepared.kind \in ALWAYS_GATED => prepared.card # <<>>
  BY <1>1, <1>2, <1>3
<1>. QED
  BY <1>4 DEF prepared

\* approval_pack reads the candidates again, so the cards judge what is
\* protected by then.
LEMMA PackHolds ==
    ASSUME Thread, PreparePack
    PROVE  Thread'
<1>1. /\ step' = "packed"
      /\ UNCHANGED <<provider, world, moves, dispatch, manifest, gathered, answered, runs,
                     overruled, comp, position, reports, rec>>
  BY DEF PreparePack, agents, answer
<1>2. EverySpecialistAccountedFor' /\ Asked' /\ Gathered'
  BY <1>1 DEF Thread, EverySpecialistAccountedFor, Asked, Gathered
<1>. DEFINE rows == rec.worklist
<1>3. CASE \A i \in DOMAIN rows : Routable(rows[i], world.rows)
  <2>1. pack' = [rows |-> [i \in DOMAIN rows |-> Prepared(rows[i], world.rows)],
                 failed |-> FALSE]
    BY <1>3 DEF PreparePack
  <2>2. pack'.rows = [i \in DOMAIN rows |-> Prepared(rows[i], world.rows)]
    BY <2>1
  <2>3. ASSUME NEW row \in Range(pack'.rows)
        PROVE  /\ row.doc \in ProtectedDocs(world.rows) =>
                     row.status = "rejected" /\ row.card[1].state = "blocked"
               /\ row.kind \in ALWAYS_GATED => row.card # <<>>
    <3>1. PICK i \in DOMAIN rows : row = Prepared(rows[i], world.rows)
      BY <2>2 DEF Range
    <3>. QED
      BY <1>3, <3>1, PreparedCleared
  <2>. QED
    BY <1>1, <1>2, <2>3 DEF Thread, LiveRowsAreCleared
<1>4. CASE ~(\A i \in DOMAIN rows : Routable(rows[i], world.rows))
  <2>1. pack' = [NoPack EXCEPT !.failed = TRUE]
    BY <1>4 DEF PreparePack
  <2>2. Range(pack'.rows) = {}
    BY <2>1 DEF NoPack, Range
  <2>. QED
    BY <1>2, <2>2 DEF Thread, LiveRowsAreCleared
<1>. QED
  BY <1>3, <1>4

-----------------------------------------------------------------------------
(* The War Room as a whole *)

\* The steps that leave the agents' part alone, and the one that ends it.
LEMMA OtherHolds ==
    ASSUME Thread,
           WorldMoves \/ Resolve \/ ComposeStep \/ ReadPosition \/ Test \/ StopTesting \/ Recommend
    PROVE  Thread'
<1>. USE DEF agents, answer
<1>1. UNCHANGED <<dispatch, manifest, pack>>
  BY DEF WorldMoves, Resolve, ComposeStep, ReadPosition, Test, StopTesting, Recommend
<1>2. EverySpecialistAccountedFor' /\ FirstWave' = FirstWave /\ SecondWave' = SecondWave
  BY <1>1 DEF Thread, EverySpecialistAccountedFor, FirstWave, SecondWave
<1>3. step' # "packed"
  BY DEF WorldMoves, Resolve, ComposeStep, ReadPosition, Test, StopTesting, Recommend
<1>4. LiveRowsAreCleared'
  BY <1>3 DEF LiveRowsAreCleared
<1>5. /\ \/ step' = step
         \/ step' \notin {"plan", "wave one", "answer one", "wave two", "answer two"}
      /\ \/ UNCHANGED <<gathered, answered, runs>>
         \/ /\ DOMAIN answered' = {}
            /\ step' \notin {"plan", "wave one", "answer one", "wave two", "answer two"}
  BY DEF WorldMoves, Resolve, ComposeStep, ReadPosition, Test, StopTesting, Recommend, Nobody
<1>6. Gathered' /\ Asked'
  BY <1>2, <1>5 DEF Thread, Gathered, Asked
<1>. QED
  BY <1>2, <1>4, <1>6 DEF Thread

\* The plan is made before anybody is asked.
LEMMA PlanHolds ==
    ASSUME Thread, Plan
    PROVE  Thread'
<1>1. EverySpecialistAccountedFor'
  BY PlanAccounts DEF Thread
<1>2. /\ step = "plan" /\ step' \in {"raised", "wave one"}
      /\ UNCHANGED <<gathered, answered, runs>>
  BY DEF Plan, agents
<1>3. DOMAIN answered' = {}
  BY <1>2 DEF Thread, Asked
<1>4. Asked' /\ Gathered' /\ LiveRowsAreCleared'
  BY <1>2, <1>3 DEF Asked, Gathered, LiveRowsAreCleared
<1>. QED
  BY <1>1, <1>4 DEF Thread

LEMMA InvestigateHolds ==
    ASSUME Thread, Investigate
    PROVE  Thread'
<1>1. CASE Wave("wave one", FirstWave, "answer one")
  BY <1>1, WaveHolds
<1>2. CASE Answer("answer one", FirstWave, IF SecondWave = {} THEN "resolve" ELSE "wave two")
  BY <1>2, AnswerHolds
<1>3. CASE Wave("wave two", SecondWave, "answer two")
  BY <1>3, WaveHolds
<1>4. CASE Answer("answer two", SecondWave, "resolve")
  BY <1>4, AnswerHolds
<1>. QED
  BY <1>1, <1>2, <1>3, <1>4 DEF Investigate

\* The inductive invariant of the data path: every run on record is what the
\* runner made of its own agent's gather and answer, wave by wave.
THEOREM ThreadHolds == Spec => []Thread
<1>1. Init => Thread
  BY DEF Init, Thread, EverySpecialistAccountedFor, Asked, Gathered, LiveRowsAreCleared, Nobody,
         NoPlan
<1>2. Thread /\ [Next]_vars => Thread'
  <2>. SUFFICES ASSUME Thread, [Next]_vars PROVE Thread'
    OBVIOUS
  <2>1. CASE UNCHANGED vars
    BY <2>1, ZenonT(40) DEF vars, agents, Thread, EverySpecialistAccountedFor, Asked, Gathered,
                            FirstWave, SecondWave, LiveRowsAreCleared
  <2>. QED
    BY <2>1, PlanHolds, InvestigateHolds, OtherHolds, PackHolds DEF Next
<1>. QED
  BY <1>1, <1>2, PTL DEF Spec

\* Whatever the model chooses and whatever is connected, each specialist is
\* invoked with its source or skipped with the true reason, and a plan nobody
\* chose is never narrower than it had to be.
THEOREM NoSpecialistIsForgotten == Spec => []EverySpecialistAccountedFor
<1>1. Thread => EverySpecialistAccountedFor
  BY DEF Thread
<1>. QED
  BY <1>1, ThreadHolds, PTL

\* A protected payment is out of reach: an answer that touches one goes forward
\* with no lever at all, and no row on one is queued or up for approval, even
\* if the books moved after the bundle was priced.
THEOREM ProtectedIsOutOfReach == Spec => []ProtectedStaysProtected
<1>1. Thread => RefusalIsWhole
  <2>. SUFFICES ASSUME Thread, NEW r \in DOMAIN answered \cap {"ap_optimization"},
                       runs[r].levers # <<>>, NEW i \in DOMAIN answered[r].levers,
                       answered[r].levers[i].kind = "ap_defer"
                PROVE  ~TouchesProtected(gathered[r], answered[r].levers[i])
    BY DEF RefusalIsWhole
  <2>1. r = "ap_optimization" /\ r \in Specialists
    BY SpecialistsListed
  <2>2. answered[r] \in Raws[r] /\ DOMAIN answered[r] = RawFields
    BY <2>1, RecommendationAssumption DEF Thread, Asked
  <2>3. PICK p, w : runs[r] = RunOf(p, "ap_optimization", gathered[r], w, answered[r])
    BY <2>1 DEF Thread, Asked
  <2>. QED
    BY <2>2, <2>3, WholeOrNothing
<1>2. Thread => ProtectedStaysProtected
  BY <1>1 DEF Thread, ProtectedStaysProtected
<1>. QED
  BY <1>2, ThreadHolds, PTL

-----------------------------------------------------------------------------
(* The bundles: what the gate keeps and what each shape raises *)

BundleIds == {"receivables-first", "working-capital", "financing-bridge", "no-subscription"}
Strategies == [id : BundleIds, levers : Seq(Levers), impact : Int, projected : Int, score : Int]
Proposal == [role : Specialists, lever : Levers]

\* A dict of rows answers with a row.
LEMMA LastRowIs ==
    ASSUME NEW rows \in Seq(Candidate), NEW hits \in SUBSET (DOMAIN rows)
    PROVE  hits # {} => LastRow(rows, hits)[1] \in Candidate /\ LastRow(rows, hits) # <<>>
<1>. SUFFICES ASSUME hits # {}
              PROVE  LastRow(rows, hits)[1] \in Candidate /\ LastRow(rows, hits) # <<>>
  OBVIOUS
<1>1. Len(rows) \in Nat /\ hits \in SUBSET (0..Len(rows))
  OBVIOUS
<1>2. Max(hits) \in hits
  BY <1>1, LargestOf
<1>3. rows[Max(hits)] \in Candidate
  BY <1>2
<1>. QED
  BY <1>3 DEF LastRow

LEMMA ForgoneIs ==
    ASSUME NEW rows \in Seq(Candidate), NEW doc
    PROVE  Forgone(rows, doc) \in Int
<1>. DEFINE hits == {i \in DOMAIN rows : rows[i].doc = doc /\ rows[i].forgone >= 0}
<1>1. PricedRow(rows, doc) = LastRow(rows, hits)
  BY DEF PricedRow
<1>2. hits = {} => LastRow(rows, hits) = <<>>
  BY DEF LastRow
<1>3. hits # {} => LastRow(rows, hits)[1] \in Candidate
  BY LastRowIs
<1>. HIDE DEF hits
<1>. QED
  BY <1>1, <1>2, <1>3 DEF Forgone, Candidate

LEMMA MaxDelayIs ==
    ASSUME NEW rows \in Seq(Candidate), NEW doc
    PROVE  MaxDelay(rows, doc) \in Int
<1>. DEFINE hits == {i \in DOMAIN rows : rows[i].doc = doc}
<1>1. RowFor(rows, doc) = LastRow(rows, hits)
  BY DEF RowFor
<1>2. hits = {} => LastRow(rows, hits) = <<>>
  BY DEF LastRow
<1>3. hits # {} => LastRow(rows, hits)[1] \in Candidate
  BY LastRowIs
<1>. HIDE DEF hits
<1>. QED
  BY <1>1, <1>2, <1>3 DEF MaxDelay, Candidate

LEMMA ImpactIs ==
    ASSUME NEW lever \in Levers, NEW rows \in Seq(Candidate)
    PROVE  Impact(lever, rows) \in Int
  BY ForgoneIs DEF Impact, Levers

LEMMA PlacesAre ==
    ASSUME NEW levers \in Seq(Levers), NEW kinds
    PROVE  /\ IsFiniteSet(DOMAIN levers) /\ IsFiniteSet(PlacesOf(levers, kinds))
           /\ PlacesOf(levers, kinds) \in SUBSET (DOMAIN levers)
           /\ Cardinality(PlacesOf(levers, kinds)) \in Nat
<1>1. Len(levers) \in Nat /\ DOMAIN levers = 1..Len(levers)
  OBVIOUS
<1>2. PlacesOf(levers, kinds) \in SUBSET (DOMAIN levers)
  BY DEF PlacesOf
<1>3. IsFiniteSet(1..Len(levers))
  <2>1. 1 \in Int /\ Len(levers) \in Int
    BY <1>1
  <2>. QED
    BY <2>1, FS_Interval
<1>. QED
  BY <1>1, <1>2, <1>3, FS_Subset, FS_CardinalityType

LEMMA NetImpactIs ==
    ASSUME NEW levers \in Seq(Levers), NEW rows \in Seq(Candidate)
    PROVE  NetImpact(levers, rows) \in Int
<1>. DEFINE raised == [i \in DOMAIN levers |-> Impact(levers[i], rows)]
<1>1. \A i \in DOMAIN levers : raised[i] \in Int
  BY ImpactIs
<1>2. IsFiniteSet(DOMAIN levers)
  BY PlacesAre
<1>. HIDE DEF raised
<1>3. SumOver(raised, DOMAIN levers) \in Int
  BY <1>1, <1>2, SumIsNumber
<1>. QED
  BY <1>3 DEF NetImpact, raised

LEMMA DrawnIs ==
    ASSUME NEW levers \in Seq(Levers)
    PROVE  Drawn(levers) \in Int
<1>. DEFINE amounts == [i \in DOMAIN levers |-> levers[i].amount]
            S == PlacesOf(levers, {"revolver_draw"})
<1>1. \A i \in DOMAIN levers : amounts[i] \in Int
  <2>1. \A i \in DOMAIN levers : levers[i] \in Levers
    OBVIOUS
  <2>2. \A l \in Levers : l.amount \in Int
    BY DEF Levers
  <2>. QED
    BY <2>1, <2>2
<1>2. IsFiniteSet(S) /\ S \subseteq DOMAIN levers
  BY PlacesAre
<1>. HIDE DEF amounts, S
<1>3. SumOver(amounts, S) \in Int
  BY <1>1, <1>2, SumIsNumber
<1>. QED
  BY <1>3 DEF Drawn, amounts, S

\* A quotient is a whole number.
LEMMA Quotient ==
    ASSUME NEW n \in Int, NEW d \in Int, d > 0
    PROVE  n \div d \in Int /\ n % d \in Int /\ Rounded(n, d) \in Int
<1>1. n \div d \in Int /\ n % d \in Int
  OBVIOUS
<1>. QED
  BY <1>1 DEF Rounded

LEMMA PctIs ==
    ASSUME NEW n \in Int, NEW d \in Int
    PROVE  Pct(n, d) \in Int
<1>1. Most(n, 0) \in Int /\ Hundred \in Int
  BY DEF Most, Hundred
<1>. HIDE DEF Hundred
<1>2. Most(n, 0) * Hundred \in Int
  BY <1>1
<1>3. d > 0 => (Most(n, 0) * Hundred) \div d \in Int
  BY <1>2, Quotient
<1>. QED
  BY <1>1, <1>3 DEF Pct, Least

\* A score is a whole number of tenths, so that scores can be compared.
LEMMA ScoreIs ==
    ASSUME NEW levers \in Seq(Levers), NEW impact \in Int, NEW pos \in Position,
           NEW rows \in Seq(Candidate)
    PROVE  Score(levers, impact, pos, rows) \in Int
<1>1. /\ pos.min_cash \in Int /\ pos.floor \in Int /\ pos.available \in Int
      /\ pos.utilization \in Int
  BY DEF Position
<1>2. Hundred \in Int
  BY DEF Hundred
<1>3. Drawn(levers) \in Int
  BY DrawnIs
<1>4. Closed(pos, impact) \in Int
  <2>1. Shortfall(pos) \in Int
    BY <1>1 DEF Shortfall, Most
  <2>. QED
    BY <2>1, PctIs DEF Closed
<1>5. Financing(levers, pos) \in Int
  <2>1. Most(pos.available, 1) \in Int
    BY <1>1 DEF Most
  <2>2. Pct(Drawn(levers), Most(pos.available, 1)) \in Int
    BY <1>3, <2>1, PctIs
  <2>. HIDE DEF Hundred
  <2>. QED
    BY <1>2, <2>2 DEF Financing
<1>6. Supplier(levers, rows) \in Int
  <2>. DEFINE Stretch(l) ==
                 (Most(l.delay, 0) * Hundred) \div Most(MaxDelay(rows, l.doc), 1)
                 + (IF RowFor(rows, l.doc) # <<>> /\ MaxDelay(rows, l.doc) <= 7
                    THEN 50000 ELSE 0)
              stretches == [i \in DOMAIN levers |-> Stretch(levers[i])]
              S == PlacesOf(levers, {"ap_defer"})
  <2>1. ASSUME NEW l \in Levers PROVE Stretch(l) \in Int
    <3>1. l.delay \in Int /\ MaxDelay(rows, l.doc) \in Int
      BY MaxDelayIs DEF Levers
    <3>2. /\ Most(l.delay, 0) \in Int
          /\ Most(MaxDelay(rows, l.doc), 1) \in Int /\ Most(MaxDelay(rows, l.doc), 1) > 0
      BY <3>1 DEF Most
    <3>. HIDE DEF Hundred
    <3>3. Most(l.delay, 0) * Hundred \in Int
      BY <1>2, <3>2
    <3>4. (Most(l.delay, 0) * Hundred) \div Most(MaxDelay(rows, l.doc), 1) \in Int
      BY <3>2, <3>3, Quotient
    <3>. QED
      BY <3>4
  <2>2. \A i \in DOMAIN levers : levers[i] \in Levers
    OBVIOUS
  <2>. HIDE DEF Stretch
  <2>3. \A i \in DOMAIN levers : stretches[i] \in Int
    BY <2>1, <2>2
  <2>4. IsFiniteSet(S) /\ S \subseteq DOMAIN levers
    BY PlacesAre
  <2>5. Supplier(levers, rows) = Hundred - Least(Hundred, SumOver(stretches, S) \div 2)
    BY DEF Supplier, Stretch
  <2>. HIDE DEF stretches, S, Hundred
  <2>6. SumOver(stretches, S) \in Int
    BY <2>3, <2>4, SumIsNumber
  <2>7. SumOver(stretches, S) \div 2 \in Int
    BY <2>6
  <2>. QED
    BY <1>2, <2>5, <2>7 DEF Least
<1>7. Customer(levers) \in Int
  <2>. DEFINE disputes == Cardinality(PlacesOf(levers, {"dispute_resolution"}))
              calls == Cardinality(PlacesOf(levers, {"collection_call"}))
  <2>1. disputes \in Nat /\ calls \in Nat
    BY PlacesAre
  <2>2. Customer(levers) = Hundred - Least(Hundred, 20000 * disputes + 5000 * calls)
    BY DEF Customer
  <2>. HIDE DEF disputes, calls, Hundred
  <2>3. 20000 * disputes + 5000 * calls \in Int
    BY <2>1
  <2>. QED
    BY <1>2, <2>2, <2>3 DEF Least
<1>8. Covenant(levers, pos) \in Int
  <2>1. FacilityLimit(pos) \in Int
    <3>1. CASE pos.utilization >= 100
      BY <1>1, <3>1 DEF FacilityLimit, Most
    <3>2. CASE ~(pos.utilization >= 100)
      <4>1. pos.available * 100 \in Int /\ 100 - pos.utilization \in Int
            /\ 100 - pos.utilization > 0
        BY <1>1, <3>2
      <4>2. (pos.available * 100) \div (100 - pos.utilization) \in Int
        BY <4>1, Quotient
      <4>. QED
        BY <3>2, <4>2 DEF FacilityLimit, Most
    <3>. QED
      BY <3>1, <3>2
  <2>2. Pct(Drawn(levers), FacilityLimit(pos)) \in Int
    BY <1>3, <2>1, PctIs
  <2>. DEFINE after == pos.utilization * 1000 + Pct(Drawn(levers), FacilityLimit(pos))
  <2>3. after \in Int
    BY <1>1, <2>2
  <2>4. Covenant(levers, pos) = Most(0, Hundred - after)
    BY DEF Covenant
  <2>. HIDE DEF Hundred, after
  <2>. QED
    BY <1>2, <2>3, <2>4 DEF Most
<1>9. Operational(levers) \in Int
  <2>1. Len(levers) - 2 \in Int
    OBVIOUS
  <2>. DEFINE penalty == 12000 * Most(Len(levers) - 2, 0)
  <2>2. penalty \in Int
    BY <2>1 DEF Most
  <2>3. Operational(levers) = Hundred - Least(Hundred, penalty)
    BY DEF Operational
  <2>. HIDE DEF Hundred, penalty
  <2>. QED
    BY <1>2, <2>2, <2>3 DEF Least
<1>. DEFINE sum == WEIGHTS.shortfall_closed * Closed(pos, impact)
                   + WEIGHTS.financing_load * Financing(levers, pos)
                   + WEIGHTS.supplier_disruption * Supplier(levers, rows)
                   + WEIGHTS.customer_relationship * Customer(levers)
                   + WEIGHTS.covenant_headroom * Covenant(levers, pos)
                   + WEIGHTS.operational_risk * Operational(levers)
<1>10. sum \in Int
  <2>1. \A w, v \in Int : w * v \in Int
    OBVIOUS
  <2>2. /\ WEIGHTS.shortfall_closed \in Int /\ WEIGHTS.financing_load \in Int
        /\ WEIGHTS.supplier_disruption \in Int /\ WEIGHTS.customer_relationship \in Int
        /\ WEIGHTS.covenant_headroom \in Int /\ WEIGHTS.operational_risk \in Int
    BY DEF WEIGHTS
  <2>3. WEIGHTS.shortfall_closed * Closed(pos, impact) \in Int
    BY <1>4, <2>1, <2>2
  <2>4. WEIGHTS.financing_load * Financing(levers, pos) \in Int
    BY <1>5, <2>1, <2>2
  <2>5. WEIGHTS.supplier_disruption * Supplier(levers, rows) \in Int
    BY <1>6, <2>1, <2>2
  <2>6. WEIGHTS.customer_relationship * Customer(levers) \in Int
    BY <1>7, <2>1, <2>2
  <2>7. WEIGHTS.covenant_headroom * Covenant(levers, pos) \in Int
    BY <1>8, <2>1, <2>2
  <2>8. WEIGHTS.operational_risk * Operational(levers) \in Int
    BY <1>9, <2>1, <2>2
  <2>9. \A a, b, c, d, e, f \in Int : a + b + c + d + e + f \in Int
    OBVIOUS
  <2>. QED
    BY <2>3, <2>4, <2>5, <2>6, <2>7, <2>8, <2>9
<1>11. Score(levers, impact, pos, rows) = Rounded(sum, 10000)
  BY DEF Score
<1>. HIDE DEF sum
<1>12. 10000 \in Int /\ 10000 > 0
  OBVIOUS
<1>. QED
  BY <1>10, <1>11, <1>12, Quotient

\* What a condition keeps of the levers are levers that meet it.
LEMMA OfKindsAre ==
    ASSUME NEW levers \in Seq(Levers), NEW kinds
    PROVE  /\ OfKinds(levers, kinds) \in Seq(Levers)
           /\ \A k \in DOMAIN OfKinds(levers, kinds) : OfKinds(levers, kinds)[k].kind \in kinds
<1>. DEFINE S == PlacesOf(levers, kinds)
<1>1. S \in SUBSET (DOMAIN levers) /\ \A i \in S : levers[i].kind \in kinds
  BY DEF PlacesOf
<1>2. OfKinds(levers, kinds) = Only(levers, S)
  BY DEF OfKinds
<1>. HIDE DEF S
<1>3. /\ Only(levers, S) \in Seq(Levers)
      /\ Cardinality(S) \in Nat /\ Len(Only(levers, S)) = Cardinality(S)
      /\ \A k \in 1..Cardinality(S) : \E i \in S : Only(levers, S)[k] = levers[i]
  BY <1>1, OnlyIs
<1>4. DOMAIN Only(levers, S) = 1..Cardinality(S)
  BY <1>3
<1>. QED
  BY <1>1, <1>2, <1>3, <1>4

\* The levers that get past the gate.
LEMMA KeptAre ==
    ASSUME NEW entries \in Seq(Proposal), NEW w, NEW o
    PROVE  [k \in DOMAIN Gate(entries, w, o).kept |-> Gate(entries, w, o).kept[k].lever]
              \in Seq(Levers)
<1>. DEFINE S == {i \in DOMAIN entries : ~(Refusals(entries[i], w, o) # {})}
            kept == Gate(entries, w, o).kept
<1>1. kept = Only(entries, S)
  BY DEF Gate
<1>2. S \in SUBSET (DOMAIN entries)
  OBVIOUS
<1>. HIDE DEF S, kept
<1>3. kept \in Seq(Proposal)
  BY <1>1, <1>2, OnlyIs
<1>4. Len(kept) \in Nat /\ DOMAIN kept = 1..Len(kept) /\ \A k \in DOMAIN kept : kept[k] \in Proposal
  BY <1>3
<1>5. \A e \in Proposal : e.lever \in Levers
  BY DEF Proposal
<1>6. [k \in DOMAIN kept |-> kept[k].lever] \in [1..Len(kept) -> Levers]
  BY <1>4, <1>5
<1>7. [k \in DOMAIN kept |-> kept[k].lever] \in Seq(Levers)
  BY <1>4, <1>6
<1>. QED
  BY <1>7 DEF kept

\* Adding up bundles.
Receipts == AR_KINDS \cup DODO_KINDS
AllOf(levers, kinds) == levers \in Seq(Levers) /\ \A i \in DOMAIN levers : levers[i].kind \in kinds

LEMMA JoinedBundles ==
    ASSUME NEW kinds, NEW s, NEW t, AllOf(s, kinds), AllOf(t, kinds)
    PROVE  AllOf(s \o t, kinds)
<1>1. /\ s \in Seq(Levers) /\ t \in Seq(Levers)
      /\ \A i \in DOMAIN s : s[i].kind \in kinds
      /\ \A i \in DOMAIN t : t[i].kind \in kinds
  BY DEF AllOf
<1>2. s \o t \in Seq(Levers)
  BY <1>1
<1>3. ASSUME NEW i \in DOMAIN (s \o t) PROVE (s \o t)[i].kind \in kinds
  <2>1. i \in 1..(Len(s) + Len(t)) /\ Len(s) \in Nat /\ Len(t) \in Nat
    BY <1>1, <1>3
  <2>2. CASE i <= Len(s)
    <3>1. (s \o t)[i] = s[i] /\ i \in DOMAIN s
      BY <1>1, <2>1, <2>2
    <3>. QED
      BY <1>1, <3>1
  <2>3. CASE i > Len(s)
    <3>1. (s \o t)[i] = t[i - Len(s)] /\ i - Len(s) \in DOMAIN t
      BY <1>1, <2>1, <2>3
    <3>. QED
      BY <1>1, <3>1
  <2>. QED
    BY <2>1, <2>2, <2>3
<1>. QED
  BY <1>2, <1>3 DEF AllOf

LEMMA NoDraw ==
    ASSUME NEW levers, NEW kinds, AllOf(levers, kinds), "revolver_draw" \notin kinds
    PROVE  Drawn(levers) = 0
<1>1. PlacesOf(levers, {"revolver_draw"}) = {}
  BY DEF PlacesOf, AllOf
<1>. QED
  BY <1>1, SumOfNone DEF Drawn

\* The discount forgone is a deferral's: receipts raise the same on any rows.
LEMMA ReceiptsStandAlone ==
    ASSUME NEW levers, AllOf(levers, Receipts), NEW rows
    PROVE  NetImpact(levers, rows) = NetImpact(levers, <<>>)
<1>. DEFINE here == [i \in DOMAIN levers |-> Impact(levers[i], rows)]
            bare == [i \in DOMAIN levers |-> Impact(levers[i], <<>>)]
<1>1. \A i \in DOMAIN levers : here[i] = bare[i]
  BY DEF AllOf, Receipts, AR_KINDS, DODO_KINDS, Impact
<1>2. IsFiniteSet(DOMAIN levers)
  BY PlacesAre DEF AllOf
<1>. HIDE DEF here, bare
<1>3. SumOver(here, DOMAIN levers) = SumOver(bare, DOMAIN levers)
  BY <1>1, <1>2, SumSame
<1>. QED
  BY <1>3 DEF NetImpact, here, bare

\* The draw code adds counts once, in what is drawn and in what is raised.
LEMMA DrawAppended ==
    ASSUME NEW levers, AllOf(levers, Receipts), NEW rows \in Seq(Candidate),
           NEW a \in Int, NEW refs \in SUBSET Names
    PROVE  /\ AllOf(levers \o <<Draw(a, refs)>>, Receipts \cup {"revolver_draw"})
           /\ Drawn(levers \o <<Draw(a, refs)>>) = a
           /\ NetImpact(levers \o <<Draw(a, refs)>>, rows) = NetImpact(levers, rows) + a
<1>. DEFINE d == Draw(a, refs)
            s == levers \o <<d>>
            n == Len(levers)
            S == 1..(n + 1)
<1>1. d \in Levers /\ d.kind = "revolver_draw" /\ d.amount = a
  <2>1. "revolver_draw" \in ActionKinds
    BY DEF ActionKinds, INFLOW_KINDS
  <2>2. -1 \in Int
    OBVIOUS
  <2>3. "none" \in Names /\ "Lender" \in Names
    BY RecommendationAssumption
  <2>. QED
    BY <2>1, <2>2, <2>3 DEF Draw, Levers
<1>2. /\ levers \in Seq(Levers) /\ \A i \in DOMAIN levers : levers[i].kind \in Receipts
  BY DEF AllOf
<1>. HIDE DEF d
<1>3. AllOf(s, Receipts \cup {"revolver_draw"})
  <2>1. AllOf(levers, Receipts \cup {"revolver_draw"})
    BY <1>2 DEF AllOf
  <2>2. AllOf(<<d>>, Receipts \cup {"revolver_draw"})
    BY <1>1 DEF AllOf
  <2>. QED
    BY <2>1, <2>2, JoinedBundles
<1>4. n \in Nat /\ DOMAIN s = S /\ s[n + 1] = d /\ \A i \in 1..n : s[i] = levers[i]
  BY <1>1, <1>2
<1>5. IsFiniteSet(S) /\ \A i \in S : s[i] \in Levers
  <2>1. s \in Seq(Levers)
    BY <1>3 DEF AllOf
  <2>2. IsFiniteSet(DOMAIN s) /\ \A i \in DOMAIN s : s[i] \in Levers
    <3>. HIDE DEF s
    <3>. QED
      BY <2>1, PlacesAre
  <2>. QED
    BY <1>4, <2>2
<1>6. n + 1 \in S /\ S \ {n + 1} = 1..n /\ DOMAIN levers = 1..n
  BY <1>2, <1>4
<1>. HIDE DEF n, S, s
<1>7. Drawn(s) = a
  <2>. DEFINE amounts == [i \in DOMAIN s |-> s[i].amount]
  <2>1. amounts[n + 1] = a
    BY <1>1, <1>4, <1>6
  <2>2. PlacesOf(s, {"revolver_draw"}) = {n + 1}
    <3>1. "revolver_draw" \notin Receipts
      BY DEF Receipts, AR_KINDS, DODO_KINDS
    <3>2. \A i \in 1..n : s[i].kind \in Receipts
      BY <1>2, <1>4, <1>6
    <3>3. \A i \in S : i = n + 1 \/ i \in 1..n
      BY <1>6
    <3>4. s[n + 1].kind = "revolver_draw"
      BY <1>1, <1>4
    <3>. QED
      BY <1>4, <1>6, <3>1, <3>2, <3>3, <3>4 DEF PlacesOf
  <2>3. Drawn(s) = SumOver(amounts, {n + 1})
    BY <2>2 DEF Drawn
  <2>. HIDE DEF amounts
  <2>4. IsFiniteSet({n + 1}) /\ {n + 1} \ {n + 1} = {} /\ \A x \in {n + 1} : amounts[x] \in Int
    BY <2>1, FS_Singleton
  <2>5. SumOver(amounts, {n + 1}) = amounts[n + 1] + SumOver(amounts, {n + 1} \ {n + 1})
    BY <2>4, SumWithout
  <2>6. SumOver(amounts, {n + 1} \ {n + 1}) = 0
    BY <2>4, SumOfNone
  <2>. QED
    BY <2>1, <2>3, <2>5, <2>6
<1>8. NetImpact(s, rows) = NetImpact(levers, rows) + a
  <2>. DEFINE all == [i \in DOMAIN s |-> Impact(s[i], rows)]
              part == [i \in DOMAIN levers |-> Impact(levers[i], rows)]
  <2>1. all[n + 1] = a
    <3>1. Impact(d, rows) = a
      BY <1>1 DEF Impact, INFLOW_KINDS
    <3>. QED
      BY <1>4, <1>6, <3>1
  <2>2. \A i \in 1..n : all[i] = part[i]
    BY <1>4, <1>6
  <2>3. \A i \in S : all[i] \in Int
    BY <1>4, <1>5, ImpactIs
  <2>4. NetImpact(s, rows) = SumOver(all, S) /\ NetImpact(levers, rows) = SumOver(part, 1..n)
    BY <1>4, <1>6 DEF NetImpact
  <2>. HIDE DEF all, part
  <2>5. SumOver(all, S) = all[n + 1] + SumOver(all, 1..n)
    <3>1. SumOver(all, S) = all[n + 1] + SumOver(all, S \ {n + 1})
      BY <1>5, <1>6, <2>3, SumWithout
    <3>. QED
      BY <1>6, <3>1
  <2>6. IsFiniteSet(1..n)
    BY <1>5, <1>6, FS_Subset
  <2>7. SumOver(all, 1..n) = SumOver(part, 1..n)
    BY <2>2, <2>6, SumSame
  <2>8. NetImpact(levers, rows) \in Int
    BY <1>2, NetImpactIs
  <2>. QED
    BY <2>1, <2>4, <2>5, <2>7, <2>8
<1>. QED
  BY <1>3, <1>7, <1>8 DEF s, d

\* _compose_draw closes the gap the receipts leave, or as much of it as the
\* facility allows.
LEMMA DrawClosesTheGap ==
    ASSUME NEW levers, AllOf(levers, Receipts), NEW rows \in Seq(Candidate), NEW pos \in Position,
           NEW bridge, bridge = levers \o ComposeDraw(levers, Shortfall(pos), pos),
           NEW projected, projected = pos.min_cash + NetImpact(bridge, rows)
    PROVE  /\ AllOf(bridge, Receipts \cup {"revolver_draw"})
           /\ Drawn(bridge) > 0 =>
                 /\ Drawn(bridge) <= pos.available
                 /\ projected <= pos.floor
                 /\ projected < pos.floor => Drawn(bridge) = pos.available
<1>. DEFINE net == NetImpact(levers, rows)
            short == Shortfall(pos)
            a == Least(short - net, pos.available)
<1>1. /\ pos.min_cash \in Int /\ pos.floor \in Int /\ pos.available \in Int
      /\ pos.refs \in SUBSET Names
  BY DEF Position
<1>2. net \in Int /\ NetImpact(levers, <<>>) = net
  BY NetImpactIs, ReceiptsStandAlone DEF AllOf
<1>3. short \in Int /\ (short > 0 => short = pos.floor - pos.min_cash)
  BY <1>1 DEF Shortfall, Most
<1>4. ComposeDraw(levers, short, pos) =
        IF short > 0 /\ short - net > 0 /\ a > 0 THEN <<Draw(a, pos.refs)>> ELSE <<>>
  BY <1>2 DEF ComposeDraw
<1>5. a \in Int /\ a <= short - net /\ a <= pos.available
      /\ (a = short - net \/ a = pos.available)
  BY <1>1, <1>2, <1>3 DEF Least
<1>6. CASE short > 0 /\ short - net > 0 /\ a > 0
  <2>1. bridge = levers \o <<Draw(a, pos.refs)>>
    BY <1>4, <1>6
  <2>. HIDE DEF a
  <2>2. /\ AllOf(bridge, Receipts \cup {"revolver_draw"}) /\ Drawn(bridge) = a
        /\ NetImpact(bridge, rows) = net + a
    <3>1. \A refs \in SUBSET Names :
             /\ AllOf(levers \o <<Draw(a, refs)>>, Receipts \cup {"revolver_draw"})
             /\ Drawn(levers \o <<Draw(a, refs)>>) = a
             /\ NetImpact(levers \o <<Draw(a, refs)>>, rows) = NetImpact(levers, rows) + a
      BY <1>5, DrawAppended
    <3>. QED
      BY <1>1, <2>1, <3>1
  <2>. HIDE DEF net, short
  <2>. QED
    BY <1>1, <1>2, <1>3, <1>5, <1>6, <2>2
<1>7. CASE ~(short > 0 /\ short - net > 0 /\ a > 0)
  <2>1. bridge = levers
    <3>1. ComposeDraw(levers, short, pos) = <<>>
      BY <1>4, <1>7
    <3>. QED
      BY <3>1 DEF AllOf
  <2>2. "revolver_draw" \notin Receipts
    BY DEF Receipts, AR_KINDS, DODO_KINDS
  <2>3. Drawn(bridge) = 0
    BY <2>1, <2>2, NoDraw
  <2>4. AllOf(bridge, Receipts \cup {"revolver_draw"})
    BY <2>1 DEF AllOf
  <2>. QED
    BY <2>3, <2>4
<1>. QED
  BY <1>6, <1>7

\* What a draw in a bundle is sized to.
Sized(levers, projected, pos) ==
    Drawn(levers) > 0 =>
        /\ Drawn(levers) <= pos.available
        /\ projected <= pos.floor
        /\ projected < pos.floor => Drawn(levers) = pos.available

LEMMA BundlesAre ==
    ASSUME NEW levers \in Seq(Levers), NEW rows \in Seq(Candidate), NEW pos \in Position
    PROVE  /\ DOMAIN Bundles(levers, pos) = 1..4
           /\ \A b \in 1..4 :
                 /\ Bundles(levers, pos)[b].id \in BundleIds
                 /\ Bundles(levers, pos)[b].levers \in Seq(Levers)
                 /\ Sized(Bundles(levers, pos)[b].levers,
                          pos.min_cash + NetImpact(Bundles(levers, pos)[b].levers, rows), pos)
           /\ Bundles(levers, pos) \in Seq([id : BundleIds, levers : Seq(Levers)])
<1>. DEFINE ar == OfKinds(levers, AR_KINDS)
            dodo == OfKinds(levers, DODO_KINDS)
            ap == OfKinds(levers, {"ap_defer"})
            receipts == ar \o dodo
            bridge == receipts \o ComposeDraw(receipts, Shortfall(pos), pos)
            plain == Receipts \cup {"ap_defer"}
            all == Bundles(levers, pos)
<1>1. all = << [id |-> "receivables-first", levers |-> receipts],
               [id |-> "working-capital", levers |-> receipts \o ap],
               [id |-> "financing-bridge", levers |-> bridge],
               [id |-> "no-subscription", levers |-> ar \o ap] >>
  BY DEF Bundles
<1>2. AllOf(ar, Receipts) /\ AllOf(dodo, Receipts)
  BY OfKindsAre DEF AllOf, Receipts
<1>3. AllOf(ar, plain) /\ AllOf(dodo, plain) /\ AllOf(ap, plain)
  BY <1>2, OfKindsAre DEF AllOf
<1>. HIDE DEF ar, dodo, ap, all
<1>4. AllOf(receipts, Receipts)
  BY <1>2, JoinedBundles
<1>5. AllOf(receipts, plain)
  BY <1>3, JoinedBundles
<1>. HIDE DEF receipts
<1>6. AllOf(receipts \o ap, plain) /\ AllOf(ar \o ap, plain)
  BY <1>3, <1>5, JoinedBundles
<1>7. "revolver_draw" \notin plain
  BY DEF Receipts, AR_KINDS, DODO_KINDS
<1>. HIDE DEF plain
<1>8. Drawn(receipts) = 0 /\ Drawn(receipts \o ap) = 0 /\ Drawn(ar \o ap) = 0
  BY <1>5, <1>6, <1>7, NoDraw
<1>9. bridge \in Seq(Levers) /\ Sized(bridge, pos.min_cash + NetImpact(bridge, rows), pos)
  BY <1>4, DrawClosesTheGap DEF AllOf, Sized
<1>10. receipts \in Seq(Levers) /\ receipts \o ap \in Seq(Levers) /\ ar \o ap \in Seq(Levers)
  BY <1>5, <1>6 DEF AllOf
<1>. HIDE DEF bridge
<1>11. /\ DOMAIN all = 1..4
       /\ all[1].levers = receipts /\ all[1].id = "receivables-first"
       /\ all[2].levers = receipts \o ap /\ all[2].id = "working-capital"
       /\ all[3].levers = bridge /\ all[3].id = "financing-bridge"
       /\ all[4].levers = ar \o ap /\ all[4].id = "no-subscription"
  BY <1>1
<1>12. \A s, projected : Drawn(s) = 0 => Sized(s, projected, pos)
  BY DEF Sized
<1>13. ASSUME NEW b \in 1..4
       PROVE  /\ all[b].id \in BundleIds
              /\ all[b].levers \in Seq(Levers)
              /\ Sized(all[b].levers, pos.min_cash + NetImpact(all[b].levers, rows), pos)
  <2>1. CASE b = 1
    BY <1>8, <1>10, <1>11, <1>12, <2>1 DEF BundleIds
  <2>2. CASE b = 2
    BY <1>8, <1>10, <1>11, <1>12, <2>2 DEF BundleIds
  <2>3. CASE b = 3
    BY <1>9, <1>11, <2>3 DEF BundleIds
  <2>4. CASE b = 4
    BY <1>8, <1>10, <1>11, <1>12, <2>4 DEF BundleIds
  <2>. QED
    BY <2>1, <2>2, <2>3, <2>4
<1>14. all \in Seq([id : BundleIds, levers : Seq(Levers)])
  BY <1>1, <1>9, <1>10 DEF BundleIds
<1>. QED
  BY <1>11, <1>13, <1>14 DEF all

\* What a strategy says it raises, and how its draw is sized.
Priced(s, rows, pos) == s.impact = NetImpact(s.levers, rows) /\ Sized(s.levers, s.projected, pos)

LEMMA ComposeIs ==
    ASSUME NEW entries \in Seq(Proposal), NEW w \in Worlds, NEW o
    PROVE  /\ Compose(entries, w, o).strategies \in Seq(Strategies)
           /\ Compose(entries, w, o).rows = w.rows /\ w.rows \in Seq(Candidate)
           /\ Compose(entries, w, o).position = w.position /\ w.position \in Position
           /\ \A i \in DOMAIN Compose(entries, w, o).strategies :
                 Priced(Compose(entries, w, o).strategies[i], w.rows, w.position)
<1>. DEFINE kept == Gate(entries, w, o).kept
            levers == [k \in DOMAIN kept |-> kept[k].lever]
            bundles == Bundles(levers, w.position)
            S == {b \in DOMAIN bundles : bundles[b].levers # <<>>}
            filled == Only(bundles, S)
            made == Compose(entries, w, o).strategies
            BundleSet == [id : BundleIds, levers : Seq(Levers)]
<1>1. w.rows \in Seq(Candidate) /\ w.position \in Position
  BY RecommendationAssumption
<1>2. levers \in Seq(Levers)
  BY KeptAre
<1>3. /\ made = [k \in DOMAIN filled |-> Strategy(filled[k].id, filled[k].levers, w)]
      /\ Compose(entries, w, o).rows = w.rows /\ Compose(entries, w, o).position = w.position
  BY DEF Compose
<1>. HIDE DEF levers, made
<1>4. /\ DOMAIN bundles = 1..4 /\ bundles \in Seq(BundleSet)
      /\ \A b \in 1..4 :
            /\ bundles[b].id \in BundleIds /\ bundles[b].levers \in Seq(Levers)
            /\ Sized(bundles[b].levers,
                     w.position.min_cash + NetImpact(bundles[b].levers, w.rows), w.position)
  BY <1>1, <1>2, BundlesAre
<1>5. S \in SUBSET (DOMAIN bundles)
  OBVIOUS
<1>. HIDE DEF bundles, S, BundleSet
<1>6. /\ filled \in Seq(BundleSet)
      /\ Cardinality(S) \in Nat /\ Len(filled) = Cardinality(S)
      /\ \A k \in 1..Cardinality(S) : \E b \in S : filled[k] = bundles[b]
  BY <1>4, <1>5, OnlyIs
<1>. DEFINE n == Cardinality(S)
<1>7. DOMAIN filled = 1..n /\ n \in Nat
  BY <1>6
<1>. HIDE DEF filled
<1>8. ASSUME NEW k \in 1..n
      PROVE  /\ Strategy(filled[k].id, filled[k].levers, w) \in Strategies
             /\ Priced(Strategy(filled[k].id, filled[k].levers, w), w.rows, w.position)
  <2>1. PICK b \in 1..4 : filled[k] = bundles[b]
    BY <1>4, <1>5, <1>6
  <2>. DEFINE L == bundles[b].levers
              net == NetImpact(L, w.rows)
              s == Strategy(filled[k].id, filled[k].levers, w)
  <2>2. /\ L \in Seq(Levers) /\ bundles[b].id \in BundleIds
        /\ Sized(L, w.position.min_cash + net, w.position)
    BY <1>4
  <2>3. s = [id |-> bundles[b].id, levers |-> L, impact |-> net,
             projected |-> w.position.min_cash + net,
             score |-> Score(L, net, w.position, w.rows)]
    BY <2>1 DEF Strategy
  <2>4. net \in Int /\ w.position.min_cash \in Int
    BY <1>1, <2>2, NetImpactIs DEF Position
  <2>5. Score(L, net, w.position, w.rows) \in Int
    BY <1>1, <2>2, <2>4, ScoreIs
  <2>. HIDE DEF L, s
  <2>6. s.impact = NetImpact(s.levers, w.rows) /\ s.levers = L
        /\ s.projected = w.position.min_cash + net
    BY <2>3
  <2>7. Priced(s, w.rows, w.position)
    BY <2>2, <2>6 DEF Priced
  <2>8. s \in Strategies
    <3>. HIDE DEF net
    <3>1. w.position.min_cash + net \in Int
      BY <2>4
    <3>. QED
      BY <2>2, <2>3, <2>4, <2>5, <3>1 DEF Strategies
  <2>. QED
    BY <2>7, <2>8 DEF s
<1>. DEFINE Nth(k) == Strategy(filled[k].id, filled[k].levers, w)
<1>9. made = [k \in 1..n |-> Nth(k)] /\ \A k \in 1..n : Nth(k) \in Strategies
  BY <1>3, <1>7, <1>8
<1>. HIDE DEF Nth, n
<1>10. made \in [1..n -> Strategies]
  BY <1>9
<1>11. made \in Seq(Strategies) /\ DOMAIN made = 1..n
  BY <1>7, <1>10
<1>12. \A i \in DOMAIN made : Priced(made[i], w.rows, w.position)
  <2>1. \A i \in 1..n : made[i] = Nth(i)
    BY <1>9
  <2>. QED
    BY <1>8, <1>11, <2>1 DEF Nth
<1>. QED
  BY <1>1, <1>3, <1>11, <1>12 DEF made

-----------------------------------------------------------------------------
(* From the runs to the levers the gate is given *)

\* Whatever the provider and the review did to an answer, the levers of a run
\* are levers.
LEMMA RunLevers ==
    ASSUME NEW p, NEW r, NEW g, NEW w, NEW raw, DOMAIN raw = RawFields, raw.levers \in Seq(Levers)
    PROVE  RunOf(p, r, g, w, raw).levers \in Seq(Levers)
<1>. DEFINE reply == Complete(p, raw)
            reviewed == Review(r, g, reply.raw)
<1>1. reply.raw = raw \/ reply.raw = Repaired(raw)
  BY DEF Complete, GeminiComplete, ReplayComplete, Reply
<1>2. Repaired(raw).levers = raw.levers /\ DOMAIN Repaired(raw) = RawFields
  BY DEF Repaired, RawFields
<1>3. reply.raw.levers = raw.levers /\ DOMAIN reply.raw = RawFields
  BY <1>1, <1>2
<1>. HIDE DEF reply
<1>4. reviewed.levers \in {<<>>, raw.levers}
  <2>. DEFINE refused == [reply.raw EXCEPT !.status = "refused", !.levers = <<>>,
                            !.evidence = IF g.protection THEN {"policy:protected"} ELSE @]
  <2>1. refused.levers = <<>>
    BY <1>3 DEF RawFields
  <2>2. reviewed = refused \/ reviewed = reply.raw
    BY DEF Review
  <2>. QED
    BY <1>3, <2>1, <2>2
<1>5. <<>> \in Seq(Levers)
  OBVIOUS
<1>6. \A status : Run(status).levers = <<>>
  BY DEF Run
<1>7. Found(reviewed).levers = reviewed.levers
  BY DEF Found
<1>8. \/ \E status : RunOf(p, r, g, w, raw) = Run(status)
      \/ RunOf(p, r, g, w, raw) = Found(reviewed)
  BY DEF RunOf, reply
<1>. QED
  BY <1>4, <1>5, <1>6, <1>7, <1>8

\* The runs a dispatch reads: those of the plan's specialists.
LEMMA ReportedAre ==
    ASSUME dispatch.plan.invokes \in Seq(Specialists)
    PROVE  /\ Reported \in Seq(Specialists)
           /\ \A i \in DOMAIN Reported : Reported[i] \in Invoked(dispatch.plan)
<1>. DEFINE invokes == dispatch.plan.invokes
            S == {i \in DOMAIN invokes : invokes[i] # "supplier_risk"}
            T == {i \in DOMAIN Dispatched : runs[Dispatched[i]].reported}
            there == {invokes[i] : i \in DOMAIN invokes}
            tail == IF SecondWave = {} THEN <<>> ELSE <<"supplier_risk">>
<1>1. Invoked(dispatch.plan) = there /\ there \subseteq Specialists
  BY DEF Invoked, Range
<1>2. invokes \in Seq(there)
  <2>1. /\ Len(invokes) \in Nat /\ DOMAIN invokes = 1..Len(invokes)
        /\ invokes = [i \in 1..Len(invokes) |-> invokes[i]]
    OBVIOUS
  <2>2. invokes \in [1..Len(invokes) -> there]
    BY <2>1
  <2>. HIDE DEF there, invokes
  <2>. QED
    BY <2>1, <2>2
<1>3. Only(invokes, S) \in Seq(there)
  <2>1. S \in SUBSET (DOMAIN invokes)
    OBVIOUS
  <2>. HIDE DEF S, there
  <2>. QED
    BY <1>2, <2>1, OnlyIs
<1>4. tail \in Seq(there)
  <2>1. SecondWave # {} => "supplier_risk" \in there
    BY <1>1 DEF SecondWave
  <2>. HIDE DEF there
  <2>. QED
    BY <2>1
<1>5. Dispatched = Only(invokes, S) \o tail
  BY DEF Dispatched
<1>. HIDE DEF there, S, tail
<1>6. Dispatched \in Seq(there)
  BY <1>3, <1>4, <1>5
<1>7. Reported = Only(Dispatched, T) /\ T \in SUBSET (DOMAIN Dispatched)
  BY DEF Reported
<1>. HIDE DEF T
<1>8. Reported \in Seq(there)
  BY <1>6, <1>7, OnlyIs
<1>9. \A i \in DOMAIN Reported : Reported[i] \in there
  BY <1>8
<1>10. Reported \in Seq(Specialists)
  BY <1>1, <1>8
<1>. QED
  BY <1>1, <1>9, <1>10

\* The levers of the findings, one list, in the findings' order.
LEMMA EntriesAre ==
    ASSUME dispatch.plan.invokes \in Seq(Specialists),
           \A r \in Invoked(dispatch.plan) : runs[r].levers \in Seq(Levers)
    PROVE  Entries \in Seq(Proposal)
<1>. DEFINE At(i) == {i} \X DOMAIN runs[Reported[i]].levers
            here == {p \in Proposed \X Proposed :
                        /\ p[1] # p[2]
                        /\ \/ p[1][1] < p[2][1]
                           \/ p[1][1] = p[2][1] /\ p[1][2] < p[2][2]}
            Entry(p) == [role |-> Reported[p[1]], lever |-> runs[Reported[p[1]]].levers[p[2]]]
            order == Sequenced(Proposed, here)
<1>1. /\ Reported \in Seq(Specialists)
      /\ \A i \in DOMAIN Reported : runs[Reported[i]].levers \in Seq(Levers)
  BY ReportedAre
<1>2. Proposed = UNION {At(i) : i \in DOMAIN Reported}
  BY DEF Proposed
<1>3. \A p \in Proposed : /\ p[1] \in DOMAIN Reported /\ p[2] \in DOMAIN runs[Reported[p[1]]].levers
                          /\ p = <<p[1], p[2]>>
  BY <1>2
<1>4. \A p \in Proposed : p[1] \in Int /\ p[2] \in Int
  <2>. SUFFICES ASSUME NEW p \in Proposed PROVE p[1] \in Int /\ p[2] \in Int
    OBVIOUS
  <2>1. p[1] \in DOMAIN Reported /\ p[2] \in DOMAIN runs[Reported[p[1]]].levers
    BY <1>3
  <2>2. runs[Reported[p[1]]].levers \in Seq(Levers)
    BY <1>1, <2>1
  <2>3. \A s \in Seq(Levers) : DOMAIN s \subseteq Int
    OBVIOUS
  <2>4. DOMAIN Reported \subseteq Int
    BY <1>1
  <2>. QED
    BY <2>1, <2>2, <2>3, <2>4
<1>5. IsFiniteSet(Proposed)
  <2>1. \A s : s \in Seq(Levers) \/ s \in Seq(Specialists) => IsFiniteSet(DOMAIN s)
    <3>. SUFFICES ASSUME NEW s, s \in Seq(Levers) \/ s \in Seq(Specialists)
                  PROVE  IsFiniteSet(DOMAIN s)
      OBVIOUS
    <3>1. Len(s) \in Nat /\ DOMAIN s = 1..Len(s)
      OBVIOUS
    <3>2. 1 \in Int /\ Len(s) \in Int
      BY <3>1
    <3>. QED
      BY <3>1, <3>2, FS_Interval
  <2>2. IsFiniteSet(DOMAIN Reported)
    BY <1>1, <2>1
  <2>3. \A i \in DOMAIN Reported : IsFiniteSet(At(i))
    <3>. SUFFICES ASSUME NEW i \in DOMAIN Reported PROVE IsFiniteSet(At(i))
      OBVIOUS
    <3>1. IsFiniteSet({i}) /\ IsFiniteSet(DOMAIN runs[Reported[i]].levers)
      BY <1>1, <2>1, FS_Singleton
    <3>. QED
      BY <3>1, FS_Product
  <2>. DEFINE all == {At(i) : i \in DOMAIN Reported}
              f == [i \in DOMAIN Reported |-> At(i)]
  <2>. HIDE DEF At
  <2>4. f \in Surjection(DOMAIN Reported, all)
    BY DEF Surjection
  <2>5. IsFiniteSet(all)
    <3>. HIDE DEF f, all
    <3>. QED
      BY <2>2, <2>4, FS_Surjection
  <2>6. \A x \in all : IsFiniteSet(x)
    BY <2>3
  <2>. HIDE DEF all
  <2>7. IsFiniteSet(UNION all)
    BY <2>5, <2>6, FS_UNION
  <2>. QED
    BY <1>2, <2>7 DEF all
<1>. HIDE DEF At
<1>6. Orders(here, Proposed)
  <2>1. \A x, y \in Proposed : x[1] = y[1] /\ x[2] = y[2] => x = y
    BY <1>3
  <2>. QED
    BY <1>4, <2>1, PairsInOrder
<1>8. /\ order \in Seq(Proposed)
      /\ Len(order) \in Nat /\ DOMAIN order = 1..Len(order)
      /\ \A k \in DOMAIN order : order[k] \in Proposed
  <2>. HIDE DEF here
  <2>1. order \in Seq(Proposed)
    BY <1>5, <1>6, SequencedSeq
  <2>. HIDE DEF order
  <2>. QED
    BY <2>1
<1>9. Entries = [k \in DOMAIN order |-> Entry(order[k])]
  BY DEF Entries, SortedBy
<1>10. \A p \in Proposed : Entry(p) \in Proposal
  <2>. SUFFICES ASSUME NEW p \in Proposed PROVE Entry(p) \in Proposal
    OBVIOUS
  <2>1. p[1] \in DOMAIN Reported /\ p[2] \in DOMAIN runs[Reported[p[1]]].levers
    BY <1>3
  <2>2. runs[Reported[p[1]]].levers \in Seq(Levers) /\ Reported[p[1]] \in Specialists
    BY <1>1, <2>1
  <2>3. runs[Reported[p[1]]].levers[p[2]] \in Levers
    BY <2>1, <2>2
  <2>. QED
    BY <2>2, <2>3 DEF Proposal
<1>. HIDE DEF Entry, order
<1>11. Entries \in [1..Len(order) -> Proposal]
  BY <1>8, <1>9, <1>10
<1>. QED
  BY <1>8, <1>11

-----------------------------------------------------------------------------
(* The ranking and the rows *)

\* ranked() lists the strategies there are.
LEMMA RankedIs ==
    ASSUME NEW c, c.strategies \in Seq(Strategies)
    PROVE  /\ Ranked(c) \in Seq(Strategies) /\ Len(Ranked(c)) = Len(c.strategies)
           /\ \A k \in DOMAIN Ranked(c) :
                 \E i \in DOMAIN c.strategies : Ranked(c)[k] = c.strategies[i]
<1>. DEFINE S == c.strategies
            n == Len(S)
            scores == [i \in DOMAIN S |-> S[i].score]
            order == LargestFirst(scores)
<1>1. n \in Nat /\ DOMAIN S = 1..n /\ \A i \in 1..n : S[i] \in Strategies
  OBVIOUS
<1>2. DOMAIN scores = 1..n /\ \A i \in 1..n : scores[i] \in Int
  <2>1. \A s \in Strategies : s.score \in Int
    BY DEF Strategies
  <2>. HIDE DEF S, n
  <2>. QED
    BY <1>1, <2>1
<1>3. Ranked(c) = [p \in 1..n |-> S[order[p]]]
  BY <1>1 DEF Ranked
<1>. HIDE DEF scores
<1>4. \A k \in 1..n : order[k] \in 1..n
  BY <1>1, <1>2, LargestFirstIs
<1>. HIDE DEF S, n, order
<1>5. Ranked(c) \in [1..n -> Strategies] /\ \A k \in 1..n : Ranked(c)[k] = S[order[k]]
  BY <1>1, <1>3, <1>4
<1>6. Ranked(c) \in Seq(Strategies) /\ Len(Ranked(c)) = n
  BY <1>1, <1>5
<1>. QED
  BY <1>1, <1>4, <1>5, <1>6 DEF S, n

\* A row of which the kind can be read back, with an amount.
Listed(row) == (\E k \in ActionKinds : row.text = Described[k]) /\ row.amount \in Int

LEMMA KindReadBack ==
    ASSUME NEW row, Listed(row)
    PROVE  KindOf(row) \in ActionKinds
  BY DEF Listed, KindOf

\* to_worklist sorts the levers and prices each: what the rows raise is what the
\* levers raise.
LEMMA WorklistIs ==
    ASSUME NEW s, s.levers \in Seq(Levers), NEW rows \in Seq(Candidate), NEW cited
    PROVE  /\ \A i \in DOMAIN ToWorklist(s, rows, cited) : Listed(ToWorklist(s, rows, cited)[i])
           /\ NetImpact(s.levers, rows)
                = SumOver([i \in DOMAIN ToWorklist(s, rows, cited) |->
                              ToWorklist(s, rows, cited)[i].impact],
                          DOMAIN ToWorklist(s, rows, cited))
<1>. DEFINE L == s.levers
            n == Len(L)
            amounts == [i \in DOMAIN L |-> L[i].amount]
            order == LargestFirst(amounts)
            list == ToWorklist(s, rows, cited)
            impacts == [i \in DOMAIN list |-> list[i].impact]
            raised == [i \in DOMAIN L |-> Impact(L[i], rows)]
            Row(lever) == [text |-> Described[lever.kind], doc |-> lever.doc,
                           amount |-> lever.amount, owner |-> OWNERS[lever.kind],
                           due |-> DEFAULT_DUE_DAYS[lever.kind], impact |-> Impact(lever, rows),
                           evidence |-> lever.refs \cap cited]
<1>1. n \in Nat /\ DOMAIN L = 1..n /\ \A i \in 1..n : L[i] \in Levers
  OBVIOUS
<1>2. \A l \in Levers : l.amount \in Int /\ l.kind \in ActionKinds
  BY DEF Levers
<1>3. list = [p \in DOMAIN L |-> Row(L[order[p]])]
  BY DEF ToWorklist, Ordered
<1>4. DOMAIN amounts = 1..n /\ \A i \in 1..n : amounts[i] \in Int
  <2>. HIDE DEF L, n
  <2>. QED
    BY <1>1, <1>2
<1>. HIDE DEF amounts
<1>5. /\ \A k \in 1..n : order[k] \in 1..n
      /\ \A i \in 1..n : \E k \in 1..n : order[k] = i
      /\ \A k, l \in 1..n : order[k] = order[l] => k = l
  BY <1>1, <1>4, LargestFirstIs
<1>6. \A lever : /\ Row(lever).text = Described[lever.kind] /\ Row(lever).amount = lever.amount
                 /\ Row(lever).impact = Impact(lever, rows)
  OBVIOUS
<1>. HIDE DEF L, n, order, list, Row
<1>7. DOMAIN list = 1..n /\ \A k \in 1..n : list[k] = Row(L[order[k]])
  BY <1>1, <1>3
<1>8. \A i \in DOMAIN list : Listed(list[i])
  <2>. SUFFICES ASSUME NEW i \in 1..n PROVE Listed(list[i])
    BY <1>7
  <2>1. list[i] = Row(L[order[i]]) /\ L[order[i]] \in Levers
    BY <1>1, <1>5, <1>7
  <2>2. list[i].text = Described[L[order[i]].kind] /\ list[i].amount = L[order[i]].amount
    BY <1>6, <2>1
  <2>. QED
    BY <1>2, <2>1, <2>2 DEF Listed
<1>9. /\ \A k \in 1..n : impacts[k] \in Int /\ raised[order[k]] = impacts[k]
      /\ \A i \in 1..n : raised[i] \in Int
  <2>1. \A i \in 1..n : Impact(L[i], rows) \in Int
    BY <1>1, ImpactIs
  <2>2. \A i \in 1..n : raised[i] = Impact(L[i], rows)
    BY <1>1
  <2>3. \A k \in 1..n : impacts[k] = list[k].impact
    BY <1>7
  <2>4. \A k \in 1..n : list[k].impact = Impact(L[order[k]], rows)
    BY <1>6, <1>7
  <2>. HIDE DEF raised, impacts
  <2>5. ASSUME NEW k \in 1..n PROVE impacts[k] \in Int /\ raised[order[k]] = impacts[k]
    <3>1. order[k] \in 1..n
      BY <1>5
    <3>2. raised[order[k]] = Impact(L[order[k]], rows) /\ Impact(L[order[k]], rows) \in Int
      BY <2>1, <2>2, <3>1
    <3>. QED
      BY <2>3, <2>4, <3>2
  <2>. QED
    BY <2>1, <2>2, <2>5
<1>11. IsFiniteSet(1..n)
  <2>1. 1 \in Int /\ n \in Int
    BY <1>1
  <2>. QED
    BY <2>1, FS_Interval
<1>12. /\ NetImpact(L, rows) = SumOver(raised, 1..n)
       /\ SumOver(impacts, DOMAIN list) = SumOver(impacts, 1..n)
  BY <1>1, <1>7 DEF NetImpact
<1>. HIDE DEF impacts, raised
<1>13. SumOver(raised, 1..n) = SumOver(impacts, 1..n)
  <2>. DEFINE S == 1..n
  <2>1. /\ IsFiniteSet(S)
        /\ \A x \in S : impacts[x] \in Int /\ raised[order[x]] = impacts[x] /\ order[x] \in S
        /\ \A x, y \in S : order[x] = order[y] => x = y
        /\ \A t \in S : \E x \in S : order[x] = t
    BY <1>5, <1>9, <1>11
  <2>. HIDE DEF S
  <2>2. SumOver(raised, S) = SumOver(impacts, S)
    BY <2>1, SumMovedOnto
  <2>. QED
    BY <2>2 DEF S
<1>14. NetImpact(L, rows) = SumOver(impacts, DOMAIN list)
  BY <1>12, <1>13
<1>. QED
  BY <1>8, <1>14 DEF L, list, impacts

-----------------------------------------------------------------------------
(* The bands *)

\* doa_matrix.yaml, class by class.
LEMMA RouteTable ==
    /\ \A c \in {"collection_call", "dodo_retry", "dodo_dunning"} :
          {r \in Routes : r.class = c} = {Band(c, 0, <<>>, "analyst")}
    /\ \A c \in {"dispute_resolution", "early_pay_discount_le_2pct", "ap_accelerate",
                 "assumption_review"} :
          {r \in Routes : r.class = c} = {Band(c, 0, <<>>, "treasurer")}
    /\ {r \in Routes : r.class = "early_pay_discount_gt_2pct"}
          = {Band("early_pay_discount_gt_2pct", 0, <<>>, "cfo")}
    /\ {r \in Routes : r.class = "ap_defer"}
          = {Band("ap_defer", 0, <<25>>, "treasurer"), Band("ap_defer", 25, <<100>>, "cfo"),
             Band("ap_defer", 100, <<>>, "cfo")}
    /\ {r \in Routes : r.class = "revolver_draw"}
          = {Band("revolver_draw", 0, <<200>>, "cfo"), Band("revolver_draw", 200, <<>>, "board")}
    /\ {r \in Routes : r.class = "protected_payment_class"}
          = {[Band("protected_payment_class", 0, <<>>, "cfo") EXCEPT !.blocked = TRUE]}
<1>. DEFINE shut == [Band("protected_payment_class", 0, <<>>, "cfo") EXCEPT !.blocked = TRUE]
<1>1. \A c, lo, up, who : Band(c, lo, up, who).class = c
  BY DEF Band
<1>2. shut.class = "protected_payment_class"
  BY DEF Band
<1>. HIDE DEF shut
<1>3. Routes =
    { Band("collection_call", 0, <<>>, "analyst"), Band("dodo_retry", 0, <<>>, "analyst"),
      Band("dodo_dunning", 0, <<>>, "analyst"), Band("dispute_resolution", 0, <<>>, "treasurer"),
      Band("early_pay_discount_le_2pct", 0, <<>>, "treasurer"),
      Band("early_pay_discount_gt_2pct", 0, <<>>, "cfo"),
      Band("ap_defer", 0, <<25>>, "treasurer"), Band("ap_defer", 25, <<100>>, "cfo"),
      Band("ap_defer", 100, <<>>, "cfo"), Band("ap_accelerate", 0, <<>>, "treasurer"),
      Band("revolver_draw", 0, <<200>>, "cfo"), Band("revolver_draw", 200, <<>>, "board"),
      Band("assumption_review", 0, <<>>, "treasurer"), shut }
  BY DEF Routes, shut
<1>4. \A c \in {"collection_call", "dodo_retry", "dodo_dunning"} :
          {r \in Routes : r.class = c} = {Band(c, 0, <<>>, "analyst")}
  BY <1>1, <1>2, <1>3
<1>5. \A c \in {"dispute_resolution", "early_pay_discount_le_2pct", "ap_accelerate",
                "assumption_review"} :
          {r \in Routes : r.class = c} = {Band(c, 0, <<>>, "treasurer")}
  BY <1>1, <1>2, <1>3
<1>6. {r \in Routes : r.class = "early_pay_discount_gt_2pct"}
          = {Band("early_pay_discount_gt_2pct", 0, <<>>, "cfo")}
  BY <1>1, <1>2, <1>3
<1>7. {r \in Routes : r.class = "ap_defer"}
          = {Band("ap_defer", 0, <<25>>, "treasurer"), Band("ap_defer", 25, <<100>>, "cfo"),
             Band("ap_defer", 100, <<>>, "cfo")}
  BY <1>1, <1>2, <1>3
<1>8. {r \in Routes : r.class = "revolver_draw"}
          = {Band("revolver_draw", 0, <<200>>, "cfo"), Band("revolver_draw", 200, <<>>, "board")}
  BY <1>1, <1>2, <1>3
<1>9. {r \in Routes : r.class = "protected_payment_class"} = {shut}
  BY <1>1, <1>2, <1>3
<1>. QED
  BY <1>4, <1>5, <1>6, <1>7, <1>8, <1>9 DEF shut

\* Where a band starts and ends, ends excluded.
LEMMA BandCovers ==
    ASSUME NEW c, NEW lo \in Int, NEW who, NEW amount \in Int
    PROVE  /\ Covers(Band(c, lo, <<>>, who), amount) <=> lo <= amount
           /\ \A up \in Int :
                 Covers(Band(c, lo, <<up>>, who), amount) <=> lo <= amount /\ amount < up
<1>1. \A up : /\ Band(c, lo, up, who).lower = lo /\ Band(c, lo, up, who).upper = up
  BY DEF Band
<1>2. \A up \in Int : <<up>> # <<>> /\ <<up>>[1] = up
  OBVIOUS
<1>. QED
  BY <1>1, <1>2 DEF Covers

Classes == (ActionKinds \ {"early_pay_discount"})
           \cup {"early_pay_discount_le_2pct", "early_pay_discount_gt_2pct",
                 "protected_payment_class"}
Deferring(amount) == Band("ap_defer", IF amount < 25 THEN 0 ELSE IF amount < 100 THEN 25 ELSE 100,
                          IF amount < 25 THEN <<25>> ELSE IF amount < 100 THEN <<100>> ELSE <<>>,
                          IF amount < 25 THEN "treasurer" ELSE "cfo")
Drawing(amount) == Band("revolver_draw", IF amount < 200 THEN 0 ELSE 200,
                        IF amount < 200 THEN <<200>> ELSE <<>>,
                        IF amount < 200 THEN "cfo" ELSE "board")

LEMMA OneBand ==
    ASSUME NEW class \in Classes, NEW amount \in Int
    PROVE  /\ amount < 0 => RoutesFor(class, amount) = {}
           /\ amount >= 0 =>
                 /\ \E r : RoutesFor(class, amount) = {r}
                 /\ class = "ap_defer" => RoutesFor(class, amount) = {Deferring(amount)}
                 /\ class = "revolver_draw" => RoutesFor(class, amount) = {Drawing(amount)}
                 /\ class \notin {"ap_defer", "revolver_draw"} =>
                       \A r \in Routes : r.class = class => RoutesFor(class, amount) = {r}
<1>. DEFINE S == {r \in Routes : r.class = class}
            shut == [Band("protected_payment_class", 0, <<>>, "cfo") EXCEPT !.blocked = TRUE]
<1>1. RoutesFor(class, amount) = {r \in S : Covers(r, amount)}
  BY DEF RoutesFor
<1>2. Covers(shut, amount) <=> 0 <= amount
  BY DEF Band, Covers
<1>. HIDE DEF shut
<1>3. CASE class = "ap_defer"
  <2>1. S = {Band("ap_defer", 0, <<25>>, "treasurer"), Band("ap_defer", 25, <<100>>, "cfo"),
             Band("ap_defer", 100, <<>>, "cfo")}
    BY <1>3, RouteTable
  <2>2. /\ Covers(Band("ap_defer", 0, <<25>>, "treasurer"), amount) <=> 0 <= amount /\ amount < 25
        /\ Covers(Band("ap_defer", 25, <<100>>, "cfo"), amount) <=> 25 <= amount /\ amount < 100
        /\ Covers(Band("ap_defer", 100, <<>>, "cfo"), amount) <=> 100 <= amount
    BY DEF Band, Covers
  <2>. HIDE DEF S
  <2>3. amount < 0 => RoutesFor(class, amount) = {}
    BY <1>1, <2>1, <2>2
  <2>4. 0 <= amount => RoutesFor(class, amount) = {Deferring(amount)}
    <3>1. CASE 0 <= amount /\ amount < 25
      BY <1>1, <2>1, <2>2, <3>1 DEF Deferring
    <3>2. CASE 25 <= amount /\ amount < 100
      BY <1>1, <2>1, <2>2, <3>2 DEF Deferring
    <3>3. CASE 100 <= amount
      BY <1>1, <2>1, <2>2, <3>3 DEF Deferring
    <3>. QED
      BY <3>1, <3>2, <3>3
  <2>. QED
    BY <1>3, <2>3, <2>4
<1>4. CASE class = "revolver_draw"
  <2>1. S = {Band("revolver_draw", 0, <<200>>, "cfo"), Band("revolver_draw", 200, <<>>, "board")}
    BY <1>4, RouteTable
  <2>2. /\ Covers(Band("revolver_draw", 0, <<200>>, "cfo"), amount) <=> 0 <= amount /\ amount < 200
        /\ Covers(Band("revolver_draw", 200, <<>>, "board"), amount) <=> 200 <= amount
    BY DEF Band, Covers
  <2>. HIDE DEF S
  <2>3. amount < 0 => RoutesFor(class, amount) = {}
    BY <1>1, <2>1, <2>2
  <2>4. 0 <= amount => RoutesFor(class, amount) = {Drawing(amount)}
    <3>1. CASE 0 <= amount /\ amount < 200
      BY <1>1, <2>1, <2>2, <3>1 DEF Drawing
    <3>2. CASE 200 <= amount
      BY <1>1, <2>1, <2>2, <3>2 DEF Drawing
    <3>. QED
      BY <3>1, <3>2
  <2>. QED
    BY <1>4, <2>3, <2>4
<1>5. CASE class \notin {"ap_defer", "revolver_draw"}
  <2>1. \E r : S = {r} /\ (Covers(r, amount) <=> 0 <= amount)
    <3>1. \A c, who : Covers(Band(c, 0, <<>>, who), amount) <=> 0 <= amount
      BY BandCovers
    <3>2. CASE class = "protected_payment_class"
      BY <1>2, <3>2, RouteTable DEF shut
    <3>3. CASE class = "early_pay_discount_gt_2pct"
      BY <3>1, <3>3, RouteTable
    <3>4. CASE class \in {"collection_call", "dodo_retry", "dodo_dunning"}
      BY <3>1, <3>4, RouteTable
    <3>5. CASE class \in {"dispute_resolution", "early_pay_discount_le_2pct", "ap_accelerate",
                          "assumption_review"}
      BY <3>1, <3>5, RouteTable
    <3>. QED
      BY <1>5, <3>2, <3>3, <3>4, <3>5 DEF Classes, ActionKinds, INFLOW_KINDS, AR_KINDS, DODO_KINDS
  <2>2. PICK r : S = {r} /\ (Covers(r, amount) <=> 0 <= amount)
    BY <2>1
  <2>3. \A t \in Routes : t.class = class => t = r
    BY <2>2
  <2>. HIDE DEF S
  <2>. QED
    BY <1>1, <1>5, <2>2, <2>3
<1>. QED
  BY <1>3, <1>4, <1>5

-----------------------------------------------------------------------------
(* Stress *)

Categories == DOMAIN CATEGORY_KINDS

LEMMA CategoriesApart ==
    /\ Categories = {"ar_collections", "dodo_receipts"} /\ COMBINED_ID \notin Categories
    /\ \A k, c, d : c \in Categories /\ d \in Categories
                    /\ k \in CATEGORY_KINDS[c] /\ k \in CATEGORY_KINDS[d] => c = d
  BY DEF Categories, CATEGORY_KINDS, COMBINED_ID, AR_KINDS, DODO_KINDS

\* The horizon a category is calibrated on is one that was measured.
LEMMA HorizonIs ==
    ASSUME NEW rows \in SUBSET ErrorPercentile, IsFiniteSet(rows), rows # {}, NEW trough \in Int
    PROVE  Horizon(rows, trough) \in rows
<1>. DEFINE beyond == {r \in rows : r.horizon >= trough}
            pool == IF beyond = {} THEN rows ELSE beyond
            near == [r \in pool |-> -Abs(r.horizon - trough)]
<1>1. pool # {} /\ pool \subseteq rows
  OBVIOUS
<1>2. Horizon(rows, trough)
        = CHOOSE r \in pool : \A s \in pool : Abs(r.horizon - trough) <= Abs(s.horizon - trough)
  BY DEF Horizon
<1>3. IsFiniteSet(pool)
  BY <1>1, FS_Subset
<1>. HIDE DEF pool
<1>4. \A r \in pool : /\ near[r] \in Int /\ near[r] = -Abs(r.horizon - trough)
                       /\ Abs(r.horizon - trough) \in Int
  <2>1. \A r \in rows : r.horizon \in Int
    BY DEF ErrorPercentile
  <2>. QED
    BY <1>1, <2>1 DEF Abs
<1>5. \E r \in pool : \A s \in pool : near[s] <= near[r]
  <2>. HIDE DEF near
  <2>. QED
    BY <1>1, <1>3, <1>4, MostOf
<1>. HIDE DEF near
<1>6. \E r \in pool : \A s \in pool : Abs(r.horizon - trough) <= Abs(s.horizon - trough)
  <2>1. PICK r \in pool : \A s \in pool : near[s] <= near[r]
    BY <1>5
  <2>2. \A a, b \in Int : -a <= -b => b <= a
    OBVIOUS
  <2>3. \A s \in pool : Abs(r.horizon - trough) <= Abs(s.horizon - trough)
    BY <1>4, <2>1, <2>2
  <2>. QED
    BY <2>3
<1>. QED
  BY <1>1, <1>2, <1>6

\* The menu: what was measured, each shift no gain, and their combination.
LEMMA MenuIs ==
    ASSUME NEW percentiles \in SUBSET ErrorPercentile, IsFiniteSet(percentiles), NEW trough \in Int
    PROVE  /\ DOMAIN Calibrate(percentiles, trough) \subseteq Categories \cup {COMBINED_ID}
           /\ \A c \in DOMAIN Calibrate(percentiles, trough) \ {COMBINED_ID} :
                 /\ Calibrate(percentiles, trough)[c] \in Int
                 /\ Calibrate(percentiles, trough)[c] <= 0
<1>. DEFINE measured == {p.category : p \in percentiles} \cap DOMAIN CATEGORY_KINDS
            of(c) == {p \in percentiles : p.category = c}
            Shift(c) == -Horizon(of(c), trough).p90
            combined == IF Cardinality(measured) > 1 THEN {COMBINED_ID} ELSE {}
            menu == Calibrate(percentiles, trough)
<1>1. menu = [c \in measured \cup combined |->
                IF c \in measured THEN Shift(c) ELSE Min({Shift(m) : m \in measured})]
  BY DEF Calibrate
<1>2. measured \subseteq Categories /\ combined \subseteq {COMBINED_ID}
  BY DEF Categories
<1>3. ASSUME NEW c \in measured PROVE Shift(c) \in Int /\ Shift(c) <= 0
  <2>1. of(c) # {} /\ of(c) \in SUBSET ErrorPercentile /\ IsFiniteSet(of(c))
    BY FS_Subset
  <2>. HIDE DEF of
  <2>2. Horizon(of(c), trough) \in ErrorPercentile
    BY <2>1, HorizonIs
  <2>3. Horizon(of(c), trough).p90 \in Nat
    BY <2>2 DEF ErrorPercentile
  <2>. QED
    BY <2>3
<1>. HIDE DEF measured, combined, Shift, menu
<1>4. DOMAIN menu = measured \cup combined
  BY <1>1
<1>5. \A c \in DOMAIN menu \ {COMBINED_ID} : c \in measured /\ menu[c] = Shift(c)
  BY <1>1, <1>2, <1>4
<1>6. DOMAIN menu \subseteq Categories \cup {COMBINED_ID}
  BY <1>2, <1>4
<1>7. \A c \in DOMAIN menu \ {COMBINED_ID} : menu[c] \in Int /\ menu[c] <= 0
  BY <1>3, <1>5
<1>. QED
  BY <1>6, <1>7 DEF menu

\* A cut takes nothing below zero off an amount.
LEMMA CutBack ==
    ASSUME NEW m \in Int, m <= 0, NEW a \in Int, a >= 0
    PROVE  (100 + m) * a \in Int /\ 100 * a \in Int /\ (100 + m) * a <= 100 * a
<1>1. (100 + m) * a = 100 * a + m * a
  OBVIOUS
<1>2. m * a <= 0 /\ m * a \in Int
  OBVIOUS
<1>. QED
  BY <1>1, <1>2

\* One lever is hit at least as hard by all the cuts as by one of them.
LEMMA HitByAll ==
    ASSUME NEW menu, DOMAIN menu \subseteq Categories \cup {COMBINED_ID},
           \A c \in DOMAIN menu \ {COMBINED_ID} : menu[c] \in Int /\ menu[c] <= 0,
           COMBINED_ID \in DOMAIN menu, NEW s \in DOMAIN menu,
           NEW lever \in Levers, lever.amount >= 0
    PROVE  /\ Stressed(lever, Shifts(COMBINED_ID, menu)) \in Int
           /\ Stressed(lever, Shifts(s, menu)) \in Int
           /\ Stressed(lever, Shifts(COMBINED_ID, menu)) <= Stressed(lever, Shifts(s, menu))
<1>. DEFINE a == lever.amount
            M == DOMAIN menu \ {COMBINED_ID}
            Hit(S) == {c \in S : lever.kind \in CATEGORY_KINDS[c]}
            Left(S) == IF Hit(S) = {} THEN 100 * a ELSE (100 + menu[CHOOSE c \in Hit(S) : TRUE]) * a
<1>1. a \in Int /\ a >= 0 /\ M \subseteq Categories
  BY DEF Levers
<1>2. \A S : \A f : f = [c \in S |-> menu[c]] => Stressed(lever, f) = Left(S)
  <2>. SUFFICES ASSUME NEW S, NEW f, f = [c \in S |-> menu[c]] PROVE Stressed(lever, f) = Left(S)
    OBVIOUS
  <2>1. {c \in DOMAIN f : lever.kind \in CATEGORY_KINDS[c]} = Hit(S)
    OBVIOUS
  <2>2. Hit(S) # {} => (CHOOSE c \in Hit(S) : TRUE) \in S
    OBVIOUS
  <2>3. Hit(S) # {} => f[CHOOSE c \in Hit(S) : TRUE] = menu[CHOOSE c \in Hit(S) : TRUE]
    BY <2>2
  <2>4. Stressed(lever, f) = IF Hit(S) = {} THEN 100 * a
                             ELSE (100 + f[CHOOSE c \in Hit(S) : TRUE]) * a
    BY <2>1 DEF Stressed
  <2>. HIDE DEF Hit, a
  <2>. QED
    BY <2>3, <2>4
<1>3. /\ Stressed(lever, Shifts(COMBINED_ID, menu)) = Left(M)
      /\ s # COMBINED_ID => Stressed(lever, Shifts(s, menu)) = Left({s})
  <2>1. Shifts(COMBINED_ID, menu) = [c \in M |-> menu[c]]
    BY DEF Shifts
  <2>2. s # COMBINED_ID => Shifts(s, menu) = [c \in {s} |-> menu[c]]
    BY DEF Shifts
  <2>. HIDE DEF Left, M
  <2>. QED
    BY <1>2, <2>1, <2>2
<1>4. ASSUME NEW c \in M
      PROVE  (100 + menu[c]) * a \in Int /\ 100 * a \in Int /\ (100 + menu[c]) * a <= 100 * a
  <2>1. menu[c] \in Int /\ menu[c] <= 0
    OBVIOUS
  <2>. HIDE DEF a
  <2>. QED
    BY <1>1, <2>1, CutBack
<1>5. 100 * a \in Int
  BY <1>1
<1>6. \A c \in M : lever.kind \in CATEGORY_KINDS[c] => Hit(M) = {c}
  BY <1>1, CategoriesApart
<1>. DEFINE Cut(c) == (100 + menu[c]) * a
            full == 100 * a
<1>7. \A c \in M : Cut(c) \in Int /\ Cut(c) <= full
  BY <1>4
<1>8. \A S : Left(S) = IF Hit(S) = {} THEN full ELSE Cut(CHOOSE c \in Hit(S) : TRUE)
  OBVIOUS
<1>9. \A S : Hit(S) \subseteq S
  OBVIOUS
<1>10. full \in Int
  BY <1>5
<1>. HIDE DEF Cut, full, Left
<1>11. Left(M) \in Int /\ Left(M) <= full
  <2>1. CASE Hit(M) = {}
    BY <1>8, <1>10, <2>1
  <2>2. CASE Hit(M) # {}
    <3>1. (CHOOSE c \in Hit(M) : TRUE) \in M
      BY <1>9, <2>2
    <3>. QED
      BY <1>7, <1>8, <2>2, <3>1
  <2>. QED
    BY <2>1, <2>2
<1>12. CASE s = COMBINED_ID
  BY <1>3, <1>11, <1>12
<1>13. CASE s # COMBINED_ID
  <2>1. s \in M
    BY <1>13
  <2>2. CASE lever.kind \in CATEGORY_KINDS[s]
    <3>1. Hit(M) = {s} /\ Hit({s}) = {s}
      BY <1>6, <2>1, <2>2
    <3>2. Left(M) = Left({s})
      <4>. HIDE DEF Hit
      <4>. QED
        BY <1>8, <3>1
    <3>. QED
      BY <1>3, <1>11, <1>13, <3>2
  <2>3. CASE lever.kind \notin CATEGORY_KINDS[s]
    <3>1. Hit({s}) = {}
      BY <2>3
    <3>2. Left({s}) = full
      BY <1>8, <3>1
    <3>. QED
      BY <1>3, <1>10, <1>11, <1>13, <3>2
  <2>. QED
    BY <2>2, <2>3
<1>. QED
  BY <1>12, <1>13

\* A report on a bundle without negative amounts: the combined case is the worst.
LEMMA ReportIsHonest ==
    ASSUME world \in Worlds, position \in Position,
           NEW strategy, strategy.levers \in Seq(Levers), NEW picked,
           \A j \in DOMAIN strategy.levers : strategy.levers[j].amount >= 0,
           COMBINED_ID \in DOMAIN Report(strategy, picked).headroom,
           NEW s \in DOMAIN Report(strategy, picked).headroom
    PROVE  Report(strategy, picked).headroom[COMBINED_ID] <= Report(strategy, picked).headroom[s]
<1>. DEFINE menu == IF "get_forecast_error_percentiles" \in world.broken THEN Nobody
                    ELSE Calibrate(world.percentiles, position.week)
            chosen == IF picked \cap DOMAIN menu = {} THEN DOMAIN menu ELSE picked \cap DOMAIN menu
            h == Report(strategy, picked).headroom
            L == strategy.levers
            Left(x) == [i \in DOMAIN L |-> Stressed(L[i], Shifts(x, menu))]
            base == 100 * (position.min_cash - position.floor)
<1>1. h = [x \in chosen |-> Headroom(strategy, x, menu)]
  BY DEF Report
<1>2. \A x : Headroom(strategy, x, menu) = base + SumOver(Left(x), DOMAIN L)
  BY DEF Headroom
<1>3. base \in Int
  BY DEF Position
<1>4. chosen \subseteq DOMAIN menu
  OBVIOUS
<1>. HIDE DEF menu, chosen, h, base
<1>5. /\ DOMAIN h = chosen /\ COMBINED_ID \in DOMAIN menu /\ s \in DOMAIN menu
      /\ h[COMBINED_ID] = Headroom(strategy, COMBINED_ID, menu)
      /\ h[s] = Headroom(strategy, s, menu)
  BY <1>1, <1>4 DEF h
<1>6. /\ DOMAIN menu \subseteq Categories \cup {COMBINED_ID}
      /\ \A c \in DOMAIN menu \ {COMBINED_ID} : menu[c] \in Int /\ menu[c] <= 0
  <2>1. world.percentiles \in SUBSET ErrorPercentile /\ IsFiniteSet(world.percentiles)
    BY RecommendationAssumption
  <2>2. position.week \in Int
    BY DEF Position
  <2>3. menu = Nobody \/ menu = Calibrate(world.percentiles, position.week)
    BY DEF menu
  <2>4. DOMAIN Nobody = {}
    BY DEF Nobody
  <2>5. menu = Calibrate(world.percentiles, position.week)
    BY <1>5, <2>3, <2>4
  <2>. QED
    BY <2>1, <2>2, <2>5, MenuIs
<1>7. \A i \in DOMAIN L : L[i] \in Levers /\ L[i].amount >= 0
  OBVIOUS
<1>8. \A i \in DOMAIN L :
        /\ Stressed(L[i], Shifts(COMBINED_ID, menu)) \in Int
        /\ Stressed(L[i], Shifts(s, menu)) \in Int
        /\ Stressed(L[i], Shifts(COMBINED_ID, menu)) <= Stressed(L[i], Shifts(s, menu))
  BY <1>5, <1>6, <1>7, HitByAll
<1>. DEFINE f == Left(COMBINED_ID)
            f2 == Left(s)
<1>9. \A i \in DOMAIN L : f[i] \in Int /\ f2[i] \in Int /\ f[i] <= f2[i]
  BY <1>8
<1>10. IsFiniteSet(DOMAIN L)
  BY PlacesAre
<1>11. h[COMBINED_ID] = base + SumOver(f, DOMAIN L) /\ h[s] = base + SumOver(f2, DOMAIN L)
  BY <1>2, <1>5
<1>. HIDE DEF f, f2
<1>12. SumOver(f, DOMAIN L) <= SumOver(f2, DOMAIN L)
  BY <1>9, <1>10, SumsInOrder
<1>13. SumOver(f, DOMAIN L) \in Int /\ SumOver(f2, DOMAIN L) \in Int
  BY <1>9, <1>10, SumIsNumber
<1>14. h[COMBINED_ID] <= h[s]
  BY <1>3, <1>11, <1>12, <1>13
<1>. QED
  BY <1>14 DEF h

-----------------------------------------------------------------------------
(* The cards: exactly one band, or an amount below zero *)

LEMMA ActionClassIs ==
    ASSUME NEW row, Listed(row), NEW rows
    PROVE  /\ ActionClass(row, rows) \in Classes
           /\ KindOf(row) \in ActionKinds
           /\ Classify(row, rows) = "requires_approval" /\ KindOf(row) # "early_pay_discount" =>
                 ActionClass(row, rows) = KindOf(row)
<1>1. KindOf(row) \in ActionKinds
  BY KindReadBack
<1>. QED
  BY <1>1 DEF ActionClass, Classify, Classes

LEMMA RoutableIs ==
    ASSUME NEW row, Listed(row), NEW rows
    PROVE  Routable(row, rows) <=> Classify(row, rows) = "auto_safe" \/ row.amount >= 0
<1>. DEFINE R == RoutesFor(ActionClass(row, rows), row.amount)
<1>1. row.amount \in Int /\ ActionClass(row, rows) \in Classes
  BY ActionClassIs DEF Listed
<1>2. (row.amount < 0 => R = {}) /\ (row.amount >= 0 => \E r : R = {r})
  BY <1>1, OneBand
<1>3. Cardinality({}) = 0 /\ \A r : Cardinality({r}) = 1
  BY FS_EmptySet, FS_Singleton
<1>. HIDE DEF R
<1>4. Cardinality(R) = 1 <=> row.amount >= 0
  <2>1. CASE row.amount >= 0
    BY <1>2, <1>3, <2>1
  <2>2. CASE ~(row.amount >= 0)
    BY <1>1, <1>2, <1>3, <2>2
  <2>. QED
    BY <2>1, <2>2
<1>. QED
  BY <1>4 DEF Routable, R

\* Who signs a row that is up for approval.
Signer(kind, amount) == (CHOOSE r \in RoutesFor(kind, amount) : TRUE).accountable

LEMMA NeedsApproval ==
    ASSUME NEW row, Listed(row), NEW rows, Routable(row, rows),
           Prepared(row, rows).status = "needs_approval",
           Prepared(row, rows).kind # "early_pay_discount"
    PROVE  /\ Prepared(row, rows).kind \in ActionKinds \ {"early_pay_discount"}
           /\ Prepared(row, rows).amount \in Int /\ Prepared(row, rows).amount >= 0
           /\ Prepared(row, rows).card[1].required
                = Signer(Prepared(row, rows).kind, Prepared(row, rows).amount)
<1>. DEFINE made == Prepared(row, rows)
            risk == Classify(row, rows)
            route == CHOOSE r \in RoutesFor(ActionClass(row, rows), row.amount) : TRUE
<1>1. /\ made.kind = KindOf(row) /\ made.amount = row.amount
      /\ made.status = CASE risk = "auto_safe" -> "queued" [] risk = "blocked" -> "rejected"
                         [] OTHER -> "needs_approval"
      /\ made.card = IF risk = "auto_safe" THEN <<>>
                     ELSE <<[required |-> route.accountable,
                             state |-> IF route.blocked THEN "blocked" ELSE "pending"]>>
  BY DEF Prepared
<1>2. risk \in {"auto_safe", "blocked", "requires_approval"}
  BY DEF Classify
<1>. HIDE DEF made, risk, route
<1>3. made.status = "needs_approval" /\ made.kind # "early_pay_discount"
  BY DEF made
<1>4. risk = "requires_approval"
  BY <1>1, <1>2, <1>3
<1>5. row.amount >= 0 /\ row.amount \in Int
  BY <1>4, RoutableIs DEF risk, Listed
<1>6. ActionClass(row, rows) = KindOf(row) /\ KindOf(row) \in ActionKinds
  BY <1>1, <1>3, <1>4, ActionClassIs DEF risk
<1>7. made.card[1].required = route.accountable
  BY <1>1, <1>4
<1>8. route.accountable = Signer(made.kind, made.amount)
  BY <1>1, <1>6 DEF route, Signer
<1>. QED
  BY <1>1, <1>3, <1>5, <1>6, <1>7, <1>8 DEF made

\* A larger amount of one kind never asks for a lesser signature.
LEMMA SignersInOrder ==
    ASSUME NEW kind \in ActionKinds \ {"early_pay_discount"},
           NEW a \in Int, NEW b \in Int, 0 <= a, a <= b
    PROVE  Authority[Signer(kind, a)] <= Authority[Signer(kind, b)]
<1>1. kind \in Classes /\ 0 <= b
  BY DEF Classes
<1>2. \A x : (CHOOSE r \in {x} : TRUE) = x
  OBVIOUS
<1>3. \A c, lo, up, who : Band(c, lo, up, who).accountable = who
  BY DEF Band
<1>4. CASE kind = "ap_defer"
  <2>1. RoutesFor(kind, a) = {Deferring(a)} /\ RoutesFor(kind, b) = {Deferring(b)}
    BY <1>1, <1>4, OneBand
  <2>2. /\ Signer(kind, a) = IF a < 25 THEN "treasurer" ELSE "cfo"
        /\ Signer(kind, b) = IF b < 25 THEN "treasurer" ELSE "cfo"
    BY <1>2, <1>3, <2>1 DEF Signer, Deferring
  <2>3. Authority["treasurer"] = 2 /\ Authority["cfo"] = 3
    BY DEF Authority
  <2>. QED
    BY <2>2, <2>3
<1>5. CASE kind = "revolver_draw"
  <2>1. RoutesFor(kind, a) = {Drawing(a)} /\ RoutesFor(kind, b) = {Drawing(b)}
    BY <1>1, <1>5, OneBand
  <2>2. /\ Signer(kind, a) = IF a < 200 THEN "cfo" ELSE "board"
        /\ Signer(kind, b) = IF b < 200 THEN "cfo" ELSE "board"
    BY <1>2, <1>3, <2>1 DEF Signer, Drawing
  <2>3. Authority["cfo"] = 3 /\ Authority["board"] = 4
    BY DEF Authority
  <2>. QED
    BY <2>2, <2>3
<1>6. CASE kind \notin {"ap_defer", "revolver_draw"}
  <2>1. PICK r : RoutesFor(kind, a) = {r}
    BY <1>1, OneBand
  <2>2. r \in Routes /\ r.class = kind
    BY <2>1 DEF RoutesFor
  <2>3. RoutesFor(kind, b) = {r}
    BY <1>1, <1>6, <2>2, OneBand
  <2>4. Signer(kind, a) = r.accountable /\ Signer(kind, b) = r.accountable
    BY <1>2, <2>1, <2>3 DEF Signer
  <2>5. r.accountable \in {"analyst", "treasurer", "cfo", "board"}
    BY <2>2 DEF Routes, Band
  <2>6. \A who \in {"analyst", "treasurer", "cfo", "board"} : Authority[who] \in Int
    BY DEF Authority
  <2>. QED
    BY <2>4, <2>5, <2>6
<1>. QED
  BY <1>4, <1>5, <1>6

LEMMA PackBands ==
    ASSUME \A i \in DOMAIN rec.worklist : Listed(rec.worklist[i]), PreparePack
    PROVE  EveryRowFindsItsBand'
<1>. DEFINE list == rec.worklist
            w == world.rows
<1>1. rec' = rec /\ world' = world
  BY DEF PreparePack, answer
<1>2. \A i \in DOMAIN list : Routable(list[i], w) <=>
                                Classify(list[i], w) = "auto_safe" \/ list[i].amount >= 0
  BY RoutableIs
<1>3. \A i \in DOMAIN list : list[i].amount \in Int
  BY DEF Listed
<1>4. \A i \in DOMAIN list : ~Routable(list[i], w) <=>
                                Classify(list[i], w) # "auto_safe" /\ list[i].amount < 0
  BY <1>2, <1>3
<1>5. CASE \A i \in DOMAIN list : Routable(list[i], w)
  <2>1. pack' = [rows |-> [i \in DOMAIN list |-> Prepared(list[i], w)], failed |-> FALSE]
    BY <1>5 DEF PreparePack
  <2>2. pack'.rows = [i \in DOMAIN list |-> Prepared(list[i], w)] /\ pack'.failed = FALSE
    BY <2>1
  <2>3. /\ ~pack'.failed
        /\ ~ \E i \in DOMAIN list : Classify(list[i], w) # "auto_safe" /\ list[i].amount < 0
    BY <1>4, <1>5, <2>2
  <2>4. ASSUME NEW a \in Range(pack'.rows), NEW b \in Range(pack'.rows),
               a.kind = b.kind, a.kind # "early_pay_discount", a.amount <= b.amount,
               a.status = "needs_approval", b.status = "needs_approval"
        PROVE  Authority[a.card[1].required] <= Authority[b.card[1].required]
    <3>1. PICK i \in DOMAIN list : a = Prepared(list[i], w)
      BY <2>2 DEF Range
    <3>2. PICK j \in DOMAIN list : b = Prepared(list[j], w)
      BY <2>2 DEF Range
    <3>3. /\ a.kind \in ActionKinds \ {"early_pay_discount"} /\ a.amount \in Int /\ a.amount >= 0
          /\ a.card[1].required = Signer(a.kind, a.amount)
      BY <1>5, <2>4, <3>1, NeedsApproval
    <3>4. b.amount \in Int /\ b.card[1].required = Signer(b.kind, b.amount)
      BY <1>5, <2>4, <3>2, NeedsApproval
    <3>. QED
      BY <2>4, <3>3, <3>4, SignersInOrder
  <2>. QED
    BY <1>1, <2>3, <2>4 DEF EveryRowFindsItsBand
<1>6. CASE ~(\A i \in DOMAIN list : Routable(list[i], w))
  <2>1. pack' = [NoPack EXCEPT !.failed = TRUE]
    BY <1>6 DEF PreparePack
  <2>2. Range(pack'.rows) = {} /\ pack'.failed = TRUE
    BY <2>1 DEF NoPack, Range
  <2>3. \E i \in DOMAIN list : Classify(list[i], w) # "auto_safe" /\ list[i].amount < 0
    BY <1>4, <1>6
  <2>. QED
    BY <1>1, <2>2, <2>3 DEF EveryRowFindsItsBand
<1>. QED
  BY <1>5, <1>6

-----------------------------------------------------------------------------
(* The figures: the inductive invariant *)

\* The plan invokes specialists, the runs on record carry levers, and every
\* agent a wave was made of has a run once the wave is over.
Manned ==
    /\ step \notin {"plan", "raised"} => dispatch.plan.invokes \in Seq(Specialists)
    /\ \A r \in DOMAIN runs : runs[r].levers \in Seq(Levers)
    /\ step \in {"wave two", "answer two"} => FirstWave \subseteq DOMAIN runs
    /\ step \in {"resolve", "compose"} => Invoked(dispatch.plan) \subseteq DOMAIN runs

\* The composition was priced on the rows and the position it keeps.
Composed ==
    /\ comp.strategies \in Seq(Strategies) /\ comp.rows \in Seq(Candidate)
    /\ \A i \in DOMAIN comp.strategies : Priced(comp.strategies[i], comp.rows, comp.position)

\* Reports exist only while the bundles are tested, and each is of the bundle at
\* its own place in the ranking.
Tested ==
    /\ position = <<>> \/ position \in Position
    /\ step \notin {"stress", "recommend"} => reports = <<>> /\ position = <<>>
    /\ \E outcomes : reports \in Seq(outcomes)
    /\ Len(reports) <= Len(Candidates)
    /\ CombinedIsTheWorst

\* The rows say what kind of action they are, and add up.
Listing ==
    /\ \A i \in DOMAIN rec.worklist : Listed(rec.worklist[i])
    /\ RowsAddUpToTheBundle

Figures ==
    /\ world \in Worlds
    /\ Manned /\ Composed /\ Tested /\ Listing
    /\ EveryRowFindsItsBand

-----------------------------------------------------------------------------
(* Every step keeps the figures *)

\* The bundles that may be tested are the best of the ranking.
LEMMA BestAre ==
    ASSUME NEW c, c.strategies \in Seq(Strategies)
    PROVE  /\ Ranked(c) \in Seq(Strategies)
           /\ \A k \in DOMAIN Ranked(c) :
                 \E i \in DOMAIN c.strategies : Ranked(c)[k] = c.strategies[i]
           /\ SubSeq(Ranked(c), 1, Min({MaxReplans + 1, Len(c.strategies)})) \in Seq(Strategies)
           /\ Len(SubSeq(Ranked(c), 1, Min({MaxReplans + 1, Len(c.strategies)})))
                \in 0..Len(Ranked(c))
<1>. DEFINE R == Ranked(c)
            n == Len(c.strategies)
            a == MaxReplans + 1
            m == Min({a, n})
<1>1. /\ R \in Seq(Strategies) /\ Len(R) = n /\ n \in Nat
      /\ \A k \in DOMAIN R : \E i \in DOMAIN c.strategies : R[k] = c.strategies[i]
  BY RankedIs
<1>2. a \in Int /\ a >= 1 /\ n \in Int
  BY <1>1, RecommendationAssumption
<1>. HIDE DEF R, n, a
<1>3. m = IF a <= n THEN a ELSE n
  BY <1>2, SmallerOfTwo
<1>. HIDE DEF m
<1>4. m \in 0..n
  BY <1>1, <1>2, <1>3
<1>5. SubSeq(R, 1, m) \in Seq(Strategies) /\ Len(SubSeq(R, 1, m)) = m
  BY <1>1, <1>4
<1>. QED
  BY <1>1, <1>4, <1>5 DEF R, n, a, m

LEMMA CandidatesAre ==
    ASSUME Composed
    PROVE  /\ Ranked(comp) \in Seq(Strategies) /\ Candidates \in Seq(Strategies)
           /\ Len(Candidates) \in Nat /\ Len(Candidates) <= Len(Ranked(comp))
           /\ \A i \in DOMAIN Ranked(comp) : Priced(Ranked(comp)[i], comp.rows, comp.position)
<1>1. comp.strategies \in Seq(Strategies)
  BY DEF Composed
<1>2. /\ Ranked(comp) \in Seq(Strategies) /\ Candidates \in Seq(Strategies)
      /\ \A k \in DOMAIN Ranked(comp) :
            \E i \in DOMAIN comp.strategies : Ranked(comp)[k] = comp.strategies[i]
      /\ Len(Candidates) \in 0..Len(Ranked(comp))
  BY <1>1, BestAre DEF Candidates
<1>. QED
  BY <1>2 DEF Composed

\* Nothing of the answer changed.
LEMMA SameFigures ==
    ASSUME Figures, UNCHANGED <<comp, position, reports, rec>>,
           step' \in {"stress", "recommend"} \/ step \notin {"stress", "recommend"}
    PROVE  Composed' /\ Tested' /\ Listing'
<1>1. Composed' /\ Listing'
  BY DEF Figures, Composed, Listing, RowsAddUpToTheBundle
<1>2. Candidates' = Candidates
  BY DEF Candidates
<1>3. CombinedIsTheWorst'
  BY <1>2 DEF Figures, Tested, CombinedIsTheWorst
<1>4. Tested'
  BY <1>2, <1>3 DEF Figures, Tested
<1>. QED
  BY <1>1, <1>4

LEMMA InvokeSpecialists == \A i \in 1..5 : PLAN_CATALOGUE[i].invokes \in Seq(Specialists)
<1>1. /\ PLAN_CATALOGUE[1].invokes = SPECIALIST_ROLES
      /\ PLAN_CATALOGUE[2].invokes = <<"forecast", "variance", "ar_collections">>
      /\ PLAN_CATALOGUE[3].invokes = <<"forecast", "ap_optimization", "supplier_risk">>
      /\ PLAN_CATALOGUE[4].invokes = <<"forecast", "variance", "dodo_revenue">>
      /\ PLAN_CATALOGUE[5].invokes = <<"forecast", "variance", "ap_optimization", "supplier_risk">>
  BY DEF PLAN_CATALOGUE, PlanOf
<1>2. SPECIALIST_ROLES \in Seq(Specialists)
  BY SpecialistsListed DEF SPECIALIST_ROLES
<1>3. /\ <<"forecast", "variance", "ar_collections">> \in Seq(Specialists)
      /\ <<"forecast", "ap_optimization", "supplier_risk">> \in Seq(Specialists)
      /\ <<"forecast", "variance", "dodo_revenue">> \in Seq(Specialists)
      /\ <<"forecast", "variance", "ap_optimization", "supplier_risk">> \in Seq(Specialists)
  BY SpecialistsListed
<1>4. \A i \in 1..5 : i = 1 \/ i = 2 \/ i = 3 \/ i = 4 \/ i = 5
  OBVIOUS
<1>. QED
  BY <1>1, <1>2, <1>3, <1>4, Zenon

LEMMA RolesListed ==
    ASSUME NEW q \in Seq(Specialists)
    PROVE  Range(q) \subseteq Specialists
<1>1. \A i \in DOMAIN q : q[i] \in Specialists
  OBVIOUS
<1>. QED
  BY <1>1 DEF Range

LEMMA PlanFigures ==
    ASSUME Figures, Plan
    PROVE  Figures'
<1>1. /\ step = "plan" /\ step' \in {"raised", "wave one"}
      /\ UNCHANGED <<world, gathered, answered, runs, comp, position, reports, rec, pack>>
      /\ step' = "wave one" => dispatch'.plan # NoPlan
  BY DEF Plan, agents, answer
<1>2. PICK m \in Manifests, kinds \in Kinds, choice \in Answers :
         dispatch' = Selected(m, kinds, choice)
  BY DEF Plan
<1>3. step' = "wave one" => dispatch'.plan.invokes \in Seq(Specialists)
  BY <1>1, <1>2, SelectedRuns, InvokeSpecialists
<1>4. Manned'
  BY <1>1, <1>3 DEF Figures, Manned
<1>5. Composed' /\ Tested' /\ Listing'
  BY <1>1, SameFigures
<1>6. EveryRowFindsItsBand'
  BY <1>1 DEF EveryRowFindsItsBand
<1>. QED
  BY <1>1, <1>4, <1>5, <1>6 DEF Figures

\* The world moves only before the cards are made.
LEMMA QuietFigures ==
    ASSUME Figures, WorldMoves \/ Resolve \/ StopTesting
    PROVE  Figures'
<1>. USE DEF agents, answer
<1>1. /\ UNCHANGED <<dispatch, runs, comp, position, reports, rec>>
      /\ world' \in Worlds /\ step' # "packed"
      /\ \/ step' = step
         \/ step = "resolve" /\ step' = "compose"
         \/ step = "stress" /\ step' = "recommend"
  BY DEF Figures, WorldMoves, Resolve, StopTesting
<1>2. Manned'
  BY <1>1 DEF Figures, Manned, FirstWave
<1>3. Composed' /\ Tested' /\ Listing'
  BY <1>1, SameFigures
<1>4. EveryRowFindsItsBand'
  BY <1>1 DEF EveryRowFindsItsBand
<1>. QED
  BY <1>1, <1>2, <1>3, <1>4 DEF Figures

\* What a wave gathers carries no figures yet.
LEMMA WaveFigures ==
    ASSUME Figures, NEW now, NEW roles, NEW next, Wave(now, roles, next),
           \/ now = "wave one" /\ next = "answer one"
           \/ now = "wave two" /\ next = "answer two"
    PROVE  Figures'
<1>1. /\ step = now /\ step' = next
      /\ UNCHANGED <<world, dispatch, runs, comp, position, reports, rec>>
  BY DEF Wave, answer
<1>2. Manned'
  BY <1>1 DEF Figures, Manned, FirstWave
<1>3. Composed' /\ Tested' /\ Listing'
  BY <1>1, SameFigures
<1>4. EveryRowFindsItsBand'
  BY <1>1 DEF EveryRowFindsItsBand
<1>. QED
  BY <1>1, <1>2, <1>3, <1>4 DEF Figures

\* Answers become runs with levers.
LEMMA AnswerFigures ==
    ASSUME Figures, NEW now, NEW roles, NEW next, Answer(now, roles, next),
           \/ /\ now = "answer one" /\ roles = FirstWave
              /\ next = IF SecondWave = {} THEN "resolve" ELSE "wave two"
           \/ now = "answer two" /\ roles = SecondWave /\ next = "resolve"
    PROVE  Figures'
<1>1. PICK raw \in [roles -> UNION {Raws[r] : r \in roles}] :
        /\ \A r \in roles : raw[r] \in Raws[r]
        /\ runs' = [r \in DOMAIN runs \cup roles |->
                       IF r \in roles THEN RunOf(provider, r, gathered[r], world, raw[r])
                       ELSE runs[r]]
  BY DEF Answer, AnswerAll, Joined
<1>2. /\ step = now /\ step' = next
      /\ UNCHANGED <<world, dispatch, comp, position, reports, rec>>
  BY DEF Answer, answer
<1>3. roles \subseteq Specialists
  <2>1. dispatch.plan.invokes \in Seq(Specialists)
    BY <1>2 DEF Figures, Manned
  <2>2. \A q \in Seq(Specialists) : Range(q) \subseteq Specialists
    BY RolesListed
  <2>3. Invoked(dispatch.plan) \subseteq Specialists
    BY <2>1, <2>2 DEF Invoked
  <2>. QED
    BY <2>3 DEF FirstWave, SecondWave
<1>4. DOMAIN runs' = DOMAIN runs \cup roles
  BY <1>1
<1>5. ASSUME NEW r \in DOMAIN runs' PROVE runs'[r].levers \in Seq(Levers)
  <2>1. CASE r \in roles
    <3>1. DOMAIN raw[r] = RawFields /\ raw[r].levers \in Seq(Levers)
      BY <1>1, <1>3, <2>1, RecommendationAssumption
    <3>2. runs'[r] = RunOf(provider, r, gathered[r], world, raw[r])
      BY <1>1, <2>1
    <3>. QED
      BY <3>1, <3>2, RunLevers
  <2>2. CASE r \notin roles
    BY <1>1, <1>4, <2>2 DEF Figures, Manned
  <2>. QED
    BY <2>1, <2>2
<1>6. /\ FirstWave' = FirstWave /\ Invoked(dispatch.plan)' = Invoked(dispatch.plan)
      /\ FirstWave \cup SecondWave = Invoked(dispatch.plan)
  BY <1>2 DEF FirstWave, SecondWave, Invoked
<1>7. /\ step' = "wave two" => FirstWave \subseteq DOMAIN runs'
      /\ step' = "resolve" => Invoked(dispatch.plan) \subseteq DOMAIN runs'
  BY <1>2, <1>4, <1>6 DEF Figures, Manned
<1>8. Manned'
  BY <1>2, <1>5, <1>6, <1>7 DEF Figures, Manned
<1>9. Composed' /\ Tested' /\ Listing'
  BY <1>2, SameFigures
<1>10. EveryRowFindsItsBand'
  BY <1>2 DEF EveryRowFindsItsBand
<1>. QED
  BY <1>2, <1>8, <1>9, <1>10 DEF Figures

\* _compose prices the bundles on the world of that moment and keeps it.
LEMMA ComposeFigures ==
    ASSUME Figures, ComposeStep
    PROVE  Figures'
<1>1. /\ step = "compose" /\ step' = "stress" /\ comp' = Compose(Entries, world, overruled)
      /\ UNCHANGED <<world, dispatch, runs, position, reports, rec>>
  BY DEF ComposeStep
<1>2. Entries \in Seq(Proposal)
  BY <1>1, EntriesAre DEF Figures, Manned
<1>3. Composed'
  BY <1>1, <1>2, ComposeIs DEF Figures, Composed
<1>4. reports = <<>> /\ position = <<>>
  BY <1>1 DEF Figures, Tested
<1>5. Candidates' \in Seq(Strategies) /\ Len(Candidates') \in Nat
  <2>1. comp'.strategies \in Seq(Strategies)
    BY <1>3 DEF Composed
  <2>2. SubSeq(Ranked(comp'), 1, Min({MaxReplans + 1, Len(comp'.strategies)}))
           \in Seq(Strategies)
    BY <2>1, BestAre
  <2>3. Candidates' = SubSeq(Ranked(comp'), 1, Min({MaxReplans + 1, Len(comp'.strategies)}))
    BY DEF Candidates
  <2>4. Candidates' \in Seq(Strategies)
    BY <2>2, <2>3
  <2>. QED
    BY <2>4
<1>6. CombinedIsTheWorst'
  BY <1>1, <1>4 DEF CombinedIsTheWorst
<1>7. Tested'
  BY <1>1, <1>4, <1>5, <1>6 DEF Tested
<1>8. Manned' /\ Listing'
  BY <1>1 DEF Figures, Manned, Listing, RowsAddUpToTheBundle
<1>9. EveryRowFindsItsBand'
  BY <1>1 DEF EveryRowFindsItsBand
<1>. QED
  BY <1>1, <1>3, <1>7, <1>8, <1>9 DEF Figures

LEMMA ReadPositionFigures ==
    ASSUME Figures, ReadPosition
    PROVE  Figures'
<1>1. /\ step = "stress" /\ step' = step /\ position' = world.position
      /\ UNCHANGED <<world, dispatch, runs, comp, reports, rec>>
  BY DEF ReadPosition, agents
<1>2. position' \in Position
  BY <1>1, RecommendationAssumption DEF Figures
<1>3. Candidates' = Candidates
  BY <1>1 DEF Candidates
<1>4. CombinedIsTheWorst'
  BY <1>1, <1>3 DEF Figures, Tested, CombinedIsTheWorst
<1>5. Tested'
  BY <1>1, <1>2, <1>3, <1>4 DEF Figures, Tested
<1>6. Manned' /\ Composed' /\ Listing'
  BY <1>1 DEF Figures, Manned, FirstWave, Composed, Listing, RowsAddUpToTheBundle
<1>7. EveryRowFindsItsBand'
  BY <1>1 DEF EveryRowFindsItsBand
<1>. QED
  BY <1>1, <1>5, <1>6, <1>7 DEF Figures

\* A test adds the report of the next bundle in the ranking.
LEMMA TestFigures ==
    ASSUME Figures, Test
    PROVE  Figures'
<1>. DEFINE n == Len(reports)
<1>1. /\ step = "stress" /\ step' = step /\ position # <<>>
      /\ n < Len(Candidates)
      /\ UNCHANGED <<world, dispatch, runs, comp, position, rec>>
  BY DEF Test, agents
<1>2. PICK picked : reports' = Append(reports, Report(Candidates[n + 1], picked))
  BY DEF Test
<1>3. PICK outcomes : reports \in Seq(outcomes)
  BY DEF Figures, Tested
<1>. DEFINE new == Report(Candidates[n + 1], picked)
            all == outcomes \cup {new}
<1>4. n \in Nat /\ reports' \in Seq(all) /\ Len(reports') = n + 1
      /\ (\A i \in 1..n : reports'[i] = reports[i]) /\ reports'[n + 1] = new
  <2>1. reports \in Seq(all) /\ n \in Nat /\ new \in all
    BY <1>3
  <2>. HIDE DEF all, new
  <2>. QED
    BY <1>2, <2>1 DEF new
<1>5. /\ Candidates' = Candidates /\ Candidates \in Seq(Strategies) /\ Len(Candidates) \in Nat
  BY <1>1, CandidatesAre DEF Figures, Candidates
<1>. HIDE DEF new, all
<1>6. n + 1 \in 1..Len(Candidates) /\ Candidates[n + 1] \in Strategies
  BY <1>1, <1>4, <1>5
<1>7. Candidates[n + 1].levers \in Seq(Levers)
  BY <1>6 DEF Strategies
<1>8. world \in Worlds /\ position \in Position
  BY <1>1 DEF Figures, Tested
<1>9. ASSUME NEW i \in DOMAIN reports',
             COMBINED_ID \in DOMAIN reports'[i].headroom,
             \A j \in DOMAIN Candidates[i].levers : Candidates[i].levers[j].amount >= 0,
             NEW s \in DOMAIN reports'[i].headroom
      PROVE  reports'[i].headroom[COMBINED_ID] <= reports'[i].headroom[s]
  <2>1. i \in 1..n \/ i = n + 1
    BY <1>4
  <2>2. CASE i \in 1..n
    <3>1. i \in DOMAIN reports /\ reports'[i] = reports[i]
      BY <1>3, <1>4, <2>2
    <3>. QED
      BY <1>9, <3>1 DEF Figures, Tested, CombinedIsTheWorst
  <2>3. CASE i = n + 1
    <3>1. reports'[i] = Report(Candidates[n + 1], picked)
      BY <1>4, <2>3 DEF new
    <3>. QED
      BY <1>7, <1>8, <1>9, <2>3, <3>1, ReportIsHonest
  <2>. QED
    BY <2>1, <2>2, <2>3
<1>10. CombinedIsTheWorst'
  BY <1>5, <1>9 DEF CombinedIsTheWorst
<1>11. Tested'
  BY <1>1, <1>4, <1>5, <1>6, <1>10 DEF Figures, Tested
<1>12. Manned' /\ Composed' /\ Listing'
  BY <1>1 DEF Figures, Manned, FirstWave, Composed, Listing, RowsAddUpToTheBundle
<1>13. EveryRowFindsItsBand'
  BY <1>1 DEF EveryRowFindsItsBand
<1>. QED
  BY <1>1, <1>11, <1>12, <1>13 DEF Figures

\* The rows of the chosen bundle are priced on what the bundle was priced on.
LEMMA RecommendFigures ==
    ASSUME Figures, Recommend
    PROVE  Figures'
<1>. DEFINE ranked == Ranked(comp)
            chosen == IF Survivor THEN ranked[Len(reports)] ELSE ranked[1]
            list == RowsOf(chosen)
<1>1. /\ step = "recommend" /\ step' = "pack" /\ position' = <<>> /\ reports' = <<>>
      /\ UNCHANGED <<world, dispatch, runs, comp>>
      /\ ranked = <<>> => rec' = [NoRecommendation EXCEPT !.id = "none-feasible"]
      /\ ranked # <<>> => rec' = [id |-> chosen.id, worklist |-> list, impact |-> chosen.impact]
  BY DEF Recommend, agents
<1>2. /\ ranked \in Seq(Strategies) /\ Len(Candidates) \in Nat /\ Len(Candidates) <= Len(ranked)
      /\ Candidates \in Seq(Strategies)
      /\ \A i \in DOMAIN ranked : Priced(ranked[i], comp.rows, comp.position)
  BY CandidatesAre DEF Figures
<1>3. Listing'
  <2>1. CASE ranked = <<>>
    <3>1. rec'.worklist = <<>> /\ rec'.impact = 0
      BY <1>1, <2>1 DEF NoRecommendation
    <3>2. DOMAIN rec'.worklist = {}
      BY <3>1
    <3>3. rec'.impact = SumOver([i \in DOMAIN rec'.worklist |-> rec'.worklist[i].impact],
                                DOMAIN rec'.worklist)
      BY <3>1, <3>2, SumOfNone
    <3>. QED
      BY <3>2, <3>3 DEF Listing, RowsAddUpToTheBundle
  <2>2. CASE ranked # <<>>
    <3>1. chosen \in Strategies /\ Priced(chosen, comp.rows, comp.position)
      <4>1. PICK outcomes : reports \in Seq(outcomes)
        BY DEF Figures, Tested
      <4>2. Survivor => Len(reports) \in 1..Len(ranked)
        BY <1>2, <4>1 DEF Figures, Tested, Survivor
      <4>. HIDE DEF ranked
      <4>3. 1 \in 1..Len(ranked)
        BY <1>2, <2>2
      <4>. QED
        BY <1>2, <4>2, <4>3
    <3>. HIDE DEF chosen
    <3>2. chosen.levers \in Seq(Levers) /\ comp.rows \in Seq(Candidate)
      BY <3>1 DEF Strategies, Figures, Composed
    <3>3. list = ToWorklist(chosen, comp.rows, CitedByFindings)
      BY DEF RowsOf
    <3>4. /\ \A i \in DOMAIN list : Listed(list[i])
          /\ NetImpact(chosen.levers, comp.rows)
                = SumOver([i \in DOMAIN list |-> list[i].impact], DOMAIN list)
      BY <3>2, <3>3, WorklistIs
    <3>. HIDE DEF list
    <3>5. rec'.worklist = list /\ rec'.impact = chosen.impact
      BY <1>1, <2>2
    <3>. QED
      BY <3>1, <3>4, <3>5 DEF Listing, RowsAddUpToTheBundle, Priced
  <2>. QED
    BY <2>1, <2>2
<1>4. Candidates' = Candidates
  BY <1>1 DEF Candidates
<1>5. CombinedIsTheWorst'
  BY <1>1 DEF CombinedIsTheWorst
<1>6. Tested'
  <2>1. reports' \in Seq({}) /\ Len(reports') = 0
    BY <1>1
  <2>. QED
    BY <1>1, <1>2, <1>4, <1>5, <2>1 DEF Tested
<1>7. Manned' /\ Composed'
  BY <1>1 DEF Figures, Manned, FirstWave, Composed
<1>8. EveryRowFindsItsBand'
  BY <1>1 DEF EveryRowFindsItsBand
<1>. QED
  BY <1>1, <1>3, <1>6, <1>7, <1>8 DEF Figures

LEMMA PackFigures ==
    ASSUME Figures, PreparePack
    PROVE  Figures'
<1>1. /\ step = "pack" /\ step' = "packed"
      /\ UNCHANGED <<world, dispatch, runs, comp, position, reports, rec>>
  BY DEF PreparePack, agents, answer
<1>2. Manned'
  BY <1>1 DEF Figures, Manned
<1>3. Composed' /\ Tested' /\ Listing'
  BY <1>1, SameFigures
<1>4. EveryRowFindsItsBand'
  BY PackBands DEF Figures, Listing
<1>. QED
  BY <1>1, <1>2, <1>3, <1>4 DEF Figures

LEMMA InitialFigures ==
    ASSUME Init
    PROVE  Figures
<1>1. /\ step = "plan" /\ world \in Worlds /\ comp = NoComposition /\ position = <<>>
      /\ reports = <<>> /\ rec = NoRecommendation /\ DOMAIN runs = {}
  BY DEF Init, Nobody
<1>2. Manned
  BY <1>1 DEF Manned
<1>3. Composed
  BY <1>1 DEF Composed, NoComposition
<1>4. reports \in Seq({}) /\ Len(reports) = 0 /\ CombinedIsTheWorst
  BY <1>1 DEF CombinedIsTheWorst
<1>5. Tested
  <2>1. Len(Candidates) \in Nat
    BY <1>3, CandidatesAre
  <2>. QED
    BY <1>1, <1>4, <2>1 DEF Tested
<1>6. rec.worklist = <<>> /\ rec.impact = 0
  BY <1>1 DEF NoRecommendation
<1>7. Listing
  BY <1>6, SumOfNone DEF Listing, RowsAddUpToTheBundle
<1>. QED
  BY <1>1, <1>2, <1>3, <1>5, <1>7 DEF Figures, EveryRowFindsItsBand

\* The inductive invariant of the figures: the reports follow the ranking of a
\* composition that keeps what it was priced on, and the rows its bundles.
THEOREM FiguresHold == Spec => []Figures
<1>1. Init => Figures
  BY InitialFigures
<1>2. Figures /\ [Next]_vars => Figures'
  <2>. SUFFICES ASSUME Figures, [Next]_vars PROVE Figures'
    OBVIOUS
  <2>1. CASE UNCHANGED vars
    <3>1. UNCHANGED <<step, world, dispatch, runs, comp, position, reports, rec, pack>>
      BY <2>1 DEF vars, agents, answer
    <3>2. Composed' /\ Tested' /\ Listing'
      BY <3>1, SameFigures
    <3>3. Manned' /\ EveryRowFindsItsBand'
      BY <3>1 DEF Figures, Manned, FirstWave, EveryRowFindsItsBand
    <3>. QED
      BY <3>1, <3>2, <3>3 DEF Figures
  <2>2. CASE Investigate
    <3>1. CASE Wave("wave one", FirstWave, "answer one")
      BY <3>1, WaveFigures
    <3>2. CASE Answer("answer one", FirstWave, IF SecondWave = {} THEN "resolve" ELSE "wave two")
      BY <3>2, AnswerFigures
    <3>3. CASE Wave("wave two", SecondWave, "answer two")
      BY <3>3, WaveFigures
    <3>4. CASE Answer("answer two", SecondWave, "resolve")
      BY <3>4, AnswerFigures
    <3>. QED
      BY <2>2, <3>1, <3>2, <3>3, <3>4 DEF Investigate
  <2>. QED
    BY <2>1, <2>2, PlanFigures, QuietFigures, ComposeFigures, ReadPositionFigures, TestFigures,
       RecommendFigures, PackFigures DEF Next
<1>. QED
  BY <1>1, <1>2, PTL DEF Spec

\* The sums on the recommendation hold together, for any levers the models
\* propose and any move of the books between two steps.
THEOREM RecommendationsAddUp == Spec => []FiguresAddUp
<1>1. Figures => FiguresAddUp
  <2>. SUFFICES ASSUME Figures PROVE FiguresAddUp
    OBVIOUS
  <2>1. DrawIsSizedToTheGap
    BY DEF Figures, Composed, Priced, Sized, DrawIsSizedToTheGap, Range
  <2>. QED
    BY <2>1 DEF Figures, Tested, Listing, FiguresAddUp
<1>. QED
  BY <1>1, FiguresHold, PTL

\* Every amount falls in exactly one band of its class: a pack fails only over an
\* amount below zero, and a larger amount never needs a lesser signature.
THEOREM BandsLeaveNoGap == Spec => []EveryRowFindsItsBand
<1>1. Figures => EveryRowFindsItsBand
  BY DEF Figures
<1>. QED
  BY <1>1, FiguresHold, PTL
=============================================================================
