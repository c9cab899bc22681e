---------------------------- MODULE MondaySession ----------------------------
(***************************************************************************)
(* One tenant's Monday (backend/api/session.py) with the review ledger     *)
(* (orchestrator/review.py) and the approval ledger and executor           *)
(* (orchestrator/approvals.py) it owns, as the HTTP handlers drive it.     *)
(*                                                                         *)
(* Handlers are tasks of one asyncio loop.  A step that holds the          *)
(* session's lock across an await is a Begin action (acquire, checks and   *)
(* assignments before the await) and an End or a Fails action (what        *)
(* follows when the awaited call returns or raises; `async with` releases  *)
(* the lock either way).  Handlers without an await are one action, and    *)
(* nothing but the lock keeps them from running between a Begin and its    *)
(* End; record_override and publish do not take it.                        *)
(*                                                                         *)
(* What the engine and the models answer is a free choice: which forecast  *)
(* version, whether the check escalates, which worklist is recommended.    *)
(***************************************************************************)
EXTENDS Integers, Sequences, FiniteSets

CONSTANTS
    None,              \* Python's None
    People,            \* who may press a button
    Preparer,          \* Session.prepared_by
    Versions,          \* forecast versions the engine may answer with
    Kinds,             \* classes of worklist row: see Row
    MaxRows,           \* bound: rows of a worklist
    MaxRuns,           \* bound: cycle runs of a session
    MaxOverrides,      \* bound: overrides of a session
    MaxInvestigations, \* bound: war rooms of a session
    MaxManual,         \* bound: agents started by hand
    MaxSessions        \* bound: times a source is bound or unloaded

\* ApprovalRole
Roles == {"analyst", "treasurer", "cfo", "board"}

\* A row, as far as prepare() tells rows apart: an auto-safe kind, a protected
\* document (the blocked route), or the role its route makes accountable.
Row == {"auto_safe", "blocked"} \cup Roles

ASSUME SessionAssumption ==
    /\ Preparer \in People
    /\ Versions # {}
    /\ Kinds \subseteq Row
    /\ MaxRows \in Nat \ {0}
    /\ {MaxRuns, MaxOverrides, MaxInvestigations, MaxManual, MaxSessions} \subseteq Nat
    /\ None \notin Versions

VARIABLES
    generation,    \* how many times the process-wide session was replaced
    data_source,   \* Session.data_source is not None
    lock,          \* the step that holds Session._lock, or "free"
    manual,        \* Session._manual_seq and len(manual_runs)
    runs,          \* cycles started; a run is its number
    cycle,         \* Session._cycle, by number
    result,        \* Session.cycle_result
    overrides,     \* len(ReviewLedger._overrides)
    published,     \* ReviewLedger._published
    checking,      \* the local `result` of check_policy across its await
    policy,        \* Session.policy
    opened,        \* war rooms that have returned
    investigation, \* Session.investigation
    pack,          \* Session.pack, by the investigation it was prepared from
    card,          \* ApprovalLedger._requests
    decision,      \* ApprovalLedger._decisions
    audit,         \* AuditLog._entries
    executed       \* DryRunAdapter.executed, repeats of a row left out

cycleVars    == <<runs, cycle, result>>
reviewVars   == <<overrides, published>>
policyVars   == <<checking, policy>>
warRoomVars  == <<opened, investigation, pack>>
approvalVars == <<card, decision, audit, executed>>
sessionVars  == <<lock, manual, cycleVars, reviewVars, policyVars, warRoomVars,
                  approvalVars>>
vars == <<generation, data_source, sessionVars>>

Investigations == 1..MaxInvestigations
Seqs  == 1..MaxRows
Cards == Investigations \X Seqs   \* request_id: a fresh uuid per row prepared

\* A name as typed; strip().lower() is what makes two spellings one person.
Names == [who : People, spelling : {"plain", "shouted"}]
SamePerson(name, person) == name.who = person

Results   == [run : 1..MaxRuns, version : Versions]
Published == [run : 1..MaxRuns, version : Versions, by : Names, role : Roles,
              overrides : 0..MaxOverrides]
Checks    == [run : 1..MaxRuns, version : Versions, escalate : BOOLEAN]
\* Recommendation.worklist; empty when no bundle survived the constraint gate.
Worklists == UNION {[1..n -> Kinds] : n \in 0..MaxRows}
Reports   == [no : Investigations, check : Checks, worklist : Worklists]
Requests  == [row : Row, snapshot : Versions \cup {None}]
Decisions == [by : Names, role : Roles, approved : BOOLEAN]

\* None is no object of the program.
ASSUME NoneIsNoObject ==
    None \notin Results \cup Published \cup Checks \cup Reports \cup Requests \cup Decisions

Locked == {"run_agent", "run_cycle", "check_policy", "open_war_room", "approval_pack"}

-----------------------------------------------------------------------------
(* Session.__init__ and its replacement *)

NoManual == [started |-> 0, recorded |-> 0]
NoCards  == [id \in Cards |-> None]

\* get_session: the API process starts with nothing loaded.
Init ==
    /\ generation = 0
    /\ data_source = FALSE
    /\ lock = "free" /\ manual = NoManual
    /\ runs = 0 /\ cycle = 0 /\ result = None
    /\ overrides = 0 /\ published = None
    /\ checking = None /\ policy = None
    /\ opened = 0 /\ investigation = None /\ pack = 0
    /\ card = NoCards /\ decision = NoCards
    /\ audit = <<>> /\ executed = {}

\* bind and clear: a new Session replaces the old one.  A handler still running
\* on the old one goes on writing to an object nobody can reach.
Replace(source) ==
    /\ generation < MaxSessions
    /\ generation' = generation + 1
    /\ data_source' = source
    /\ lock' = "free" /\ manual' = NoManual
    /\ runs' = 0 /\ cycle' = 0 /\ result' = None
    /\ overrides' = 0 /\ published' = None
    /\ checking' = None /\ policy' = None
    /\ opened' = 0 /\ investigation' = None /\ pack' = 0
    /\ card' = NoCards /\ decision' = NoCards
    /\ audit' = <<>> /\ executed' = {}

Bind  == Replace(TRUE)
Clear == Replace(FALSE)

-----------------------------------------------------------------------------
(* Taking and releasing the lock *)

Acquire(step) == lock = "free" /\ lock' = step

\* The awaited call raised: ToolError, LLMTimeout, a matrix without a route.
Raised(step) == lock = step /\ lock' = "free"

Fails(step) ==
    /\ Raised(step)
    /\ checking' = None
    /\ UNCHANGED <<generation, data_source, manual, cycleVars, reviewVars, policy,
                   warRoomVars, approvalVars>>

-----------------------------------------------------------------------------
(* Running one agent by hand *)

RunAgentBegin ==
    /\ Acquire("run_agent")
    /\ data_source
    /\ manual.started < MaxManual
    /\ manual' = [manual EXCEPT !.started = @ + 1]
    /\ UNCHANGED <<generation, data_source, cycleVars, reviewVars, policyVars,
                   warRoomVars, approvalVars>>

\* AgentRunner.run returned: its record joins manual_runs.
RunAgentEnd ==
    /\ lock = "run_agent"
    /\ lock' = "free"
    /\ manual' = [manual EXCEPT !.recorded = @ + 1]
    /\ UNCHANGED <<generation, data_source, cycleVars, reviewVars, policyVars,
                   warRoomVars, approvalVars>>

-----------------------------------------------------------------------------
(* Steps 1-9: run, override, publish *)

RunCycleBegin ==
    /\ Acquire("run_cycle")
    /\ data_source
    /\ published = None
    /\ runs < MaxRuns
    /\ runs' = runs + 1
    /\ cycle' = runs + 1
    /\ UNCHANGED <<generation, data_source, manual, result, reviewVars, policyVars,
                   warRoomVars, approvalVars>>

\* mutant: the lock is acquired by hand and not given back
RunCycleKeepsLock ==
    /\ lock = "run_cycle"
    /\ \E v \in Versions : result' = [run |-> cycle, version |-> v]
    /\ UNCHANGED <<generation, data_source, lock, manual, runs, cycle, reviewVars,
                   policyVars, warRoomVars, approvalVars>>
RunCycleEnd ==
    /\ lock = "run_cycle"
    /\ lock' = "free"
    /\ \E v \in Versions : result' = [run |-> cycle, version |-> v]
    /\ UNCHANGED <<generation, data_source, manual, runs, cycle, reviewVars, policyVars,
                   warRoomVars, approvalVars>>

\* Session.record_override and ReviewLedger.record_override.  The session's
\* close calendar is empty, so no period is closed.
RecordOverride ==
    /\ result # None
    /\ published = None
    /\ overrides < MaxOverrides
    /\ overrides' = overrides + 1
    /\ UNCHANGED <<generation, data_source, lock, manual, cycleVars, published,
                   policyVars, warRoomVars, approvalVars>>

\* ReviewLedger.PUBLISHER_ROLES
PublisherRoles == {"treasurer", "cfo"}

\* Session.publish and ReviewLedger.publish: no await, and no lock.
Publish(by, role) ==
    /\ result # None
    /\ published = None
    /\ ~SamePerson(by, Preparer)
    /\ role \in PublisherRoles
    /\ published' = [run |-> result.run, version |-> result.version, by |-> by,
                     role |-> role, overrides |-> overrides]
    /\ UNCHANGED <<generation, data_source, lock, manual, cycleVars, overrides,
                   policyVars, warRoomVars, approvalVars>>

-----------------------------------------------------------------------------
(* Step 10 and the war room *)

\* mutant: the check does not wait for the signature
CheckPolicyOnDraft ==
    /\ Acquire("check_policy")
    /\ result # None
    /\ checking' = result
    /\ UNCHANGED <<generation, data_source, manual, cycleVars, reviewVars, policy,
                   warRoomVars, approvalVars>>
CheckPolicyBegin ==
    /\ Acquire("check_policy")
    /\ result # None
    /\ published # None
    /\ checking' = result
    /\ UNCHANGED <<generation, data_source, manual, cycleVars, reviewVars, policy,
                   warRoomVars, approvalVars>>

\* WeeklyCycle.policy_check evaluates the position and forecast of `result`.
CheckPolicyEnd ==
    /\ lock = "check_policy"
    /\ lock' = "free"
    /\ \E escalate \in BOOLEAN :
          policy' = [run |-> checking.run, version |-> checking.version,
                     escalate |-> escalate]
    /\ checking' = None
    /\ UNCHANGED <<generation, data_source, manual, cycleVars, reviewVars, warRoomVars,
                   approvalVars>>

OpenWarRoomBegin ==
    /\ Acquire("open_war_room")
    /\ policy # None
    /\ policy.escalate
    /\ opened < MaxInvestigations
    /\ UNCHANGED <<generation, data_source, manual, cycleVars, reviewVars, policyVars,
                   warRoomVars, approvalVars>>

\* mutant: the cards of the last recommendation are kept
OpenWarRoomKeepsPack ==
    /\ lock = "open_war_room"
    /\ lock' = "free"
    /\ opened' = opened + 1
    /\ \E w \in Worklists :
          investigation' = [no |-> opened + 1, check |-> policy, worklist |-> w]
    /\ UNCHANGED <<generation, data_source, manual, cycleVars, reviewVars, policyVars,
                   pack, approvalVars>>
OpenWarRoomEnd ==
    /\ lock = "open_war_room"
    /\ lock' = "free"
    /\ opened' = opened + 1
    /\ \E w \in Worklists :
          investigation' = [no |-> opened + 1, check |-> policy, worklist |-> w]
    /\ pack' = 0
    /\ UNCHANGED <<generation, data_source, manual, cycleVars, reviewVars, policyVars,
                   approvalVars>>

-----------------------------------------------------------------------------
(* Approvals *)

\* The rows the current pack was prepared from.
PackRows == investigation.worklist

\* Session.approval_pack, not cached.
ApprovalPackBegin ==
    /\ Acquire("approval_pack")
    /\ pack = 0
    /\ investigation # None
    /\ UNCHANGED <<generation, data_source, manual, cycleVars, reviewVars, policyVars,
                   warRoomVars, approvalVars>>

\* prepare(): an auto-safe row gets no request.
NeedsCard(row) == row # "auto_safe"

\* The rest of approval_pack: prepare, with the snapshot read after the await,
\* and register.  Earlier requests stay in the ledger.
ApprovalPackEnd ==
    /\ lock = "approval_pack"
    /\ lock' = "free"
    /\ pack' = investigation.no
    /\ card' = [id \in Cards |->
          IF /\ id[1] = investigation.no
             /\ id[2] \in DOMAIN PackRows
             /\ NeedsCard(PackRows[id[2]])
            THEN [row |-> PackRows[id[2]],
                  snapshot |-> IF published # None THEN published.version ELSE None]
            ELSE card[id]]
    /\ UNCHANGED <<generation, data_source, manual, cycleVars, reviewVars, policyVars,
                   opened, investigation, decision, audit, executed>>

\* POST /{id}/decide and POST /worklist/{seq}/execute begin with approval_pack,
\* which waits for the lock and, once there are cards, returns without an await.
CardsReady == lock = "free" /\ pack # 0

\* check_maker_checker
MakerChecker(id, by) == card[id].row # "blocked" /\ ~SamePerson(by, Preparer)

\* ApprovalRequest.approval_required: the route's accountable role.
RoleMayApprove(id, role) == role = card[id].row

Signed(id, d) ==
    /\ decision' = [decision EXCEPT ![id] = d]
    /\ audit' = Append(audit, [id |-> id, decision |-> d, card |-> card[id]])

\* mutant: the last decision wins
DecideAgain(id, by, role, approved) ==
    /\ CardsReady
    /\ card[id] # None
    /\ Len(audit) < 3
    /\ MakerChecker(id, by)
    /\ approved => RoleMayApprove(id, role)
    /\ Signed(id, [by |-> by, role |-> role, approved |-> approved])
    /\ UNCHANGED <<generation, data_source, lock, manual, cycleVars, reviewVars,
                   policyVars, warRoomVars, card, executed>>
\* Session.decide, ApprovalLedger.decide and AuditLog.record.
Decide(id, by, role, approved) ==
    /\ CardsReady
    /\ card[id] # None
    /\ decision[id] = None
    /\ MakerChecker(id, by)
    /\ approved => RoleMayApprove(id, role)
    /\ Signed(id, [by |-> by, role |-> role, approved |-> approved])
    /\ UNCHANGED <<generation, data_source, lock, manual, cycleVars, reviewVars,
                   policyVars, warRoomVars, card, executed>>

\* ApprovalLedger.state_of
StateOf(id) ==
    CASE card[id] = None             -> "draft"
      [] card[id] # None /\ card[id].row = "blocked" -> "blocked"
      [] OTHER -> IF decision[id] = None THEN "pending"
                  ELSE IF decision[id].approved THEN "approved" ELSE "rejected"

\* mutant: a pending card does not stop the row
GateLenient(seq) ==
    \/ ~NeedsCard(PackRows[seq])
    \/ StateOf(<<pack, seq>>) \in {"approved", "pending"}
\* Executor.execute: a REJECTED row refuses, a row without a request runs, any
\* other needs its card approved.
Gate(seq) ==
    \/ ~NeedsCard(PackRows[seq])
    \/ PackRows[seq] # "blocked" /\ StateOf(<<pack, seq>>) = "approved"

\* Session.execute; nothing marks a row as done, so it may be executed again.
Execute(seq) ==
    /\ CardsReady
    /\ seq \in DOMAIN PackRows
    /\ Gate(seq)
    /\ executed' = executed \cup {[pack |-> pack, seq |-> seq, row |-> PackRows[seq],
                                   decision |-> decision[<<pack, seq>>]]}
    /\ UNCHANGED <<generation, data_source, lock, manual, cycleVars, reviewVars,
                   policyVars, warRoomVars, card, decision, audit>>

-----------------------------------------------------------------------------
Finish ==
    \/ RunAgentEnd \/ RunCycleEnd \/ CheckPolicyEnd \/ OpenWarRoomEnd \/ ApprovalPackEnd
    \/ \E step \in Locked : Fails(step)

Next ==
    \/ Bind \/ Clear
    \/ RunAgentBegin \/ RunCycleBegin \/ CheckPolicyBegin \/ OpenWarRoomBegin
    \/ ApprovalPackBegin
    \/ Finish
    \/ RecordOverride
    \/ \E by \in Names, role \in Roles : Publish(by, role)
    \/ \E id \in Cards, by \in Names, role \in Roles, approved \in BOOLEAN :
          Decide(id, by, role, approved)
    \/ \E seq \in Seqs : Execute(seq)

Spec == Init /\ [][Next]_vars

\* Tool calls are local reads and model calls carry a timeout, so what a locked
\* step awaits ends one way or the other.
FairSpec == Spec /\ WF_vars(Finish)
-----------------------------------------------------------------------------
(* Properties *)

TypeOK ==
    /\ generation \in 0..MaxSessions
    /\ data_source \in BOOLEAN
    /\ lock \in Locked \cup {"free"}
    /\ manual \in [started : 0..MaxManual, recorded : 0..MaxManual]
    /\ runs \in 0..MaxRuns /\ cycle \in 0..MaxRuns
    /\ result \in Results \cup {None}
    /\ overrides \in 0..MaxOverrides
    /\ published \in Published \cup {None}
    /\ checking \in Results \cup {None}
    /\ policy \in Checks \cup {None}
    /\ opened \in 0..MaxInvestigations
    /\ investigation \in Reports \cup {None}
    /\ pack \in 0..MaxInvestigations
    /\ card \in [Cards -> Requests \cup {None}]
    /\ decision \in [Cards -> Decisions \cup {None}]
    /\ audit \in Seq([id : Cards, decision : Decisions, card : Requests])
    /\ executed \subseteq [pack : Investigations, seq : Seqs, row : Row,
                           decision : Decisions \cup {None}]

\* A clean signature: approved, by the role the matrix makes accountable, by
\* somebody other than the preparer however they spell their name.
CleanApproval(d, row) ==
    /\ d # None
    /\ d.approved
    /\ d.role = row
    /\ ~SamePerson(d.by, Preparer)

\* Executor: "No approved, matching, maker-checker-clean decision, no
\* execution."  Whatever was executed was auto-safe, or its own card carries a
\* clean approval, still on the ledger and in the audit log, whatever war rooms
\* were reopened and cards decided since.
ExecutionGate ==
    \A x \in executed :
        \/ x.row = "auto_safe"
        \/ /\ CleanApproval(x.decision, x.row)
           /\ decision[<<x.pack, x.seq>>] = x.decision
           /\ \E i \in DOMAIN audit : /\ audit[i].id = <<x.pack, x.seq>>
                                       /\ audit[i].decision = x.decision

\* The board shows the cards of the recommendation it stands beside: after a
\* war room is opened again no row is executed on an earlier bundle's card.
CardsOfThisRecommendation ==
    pack # 0 =>
        /\ investigation # None /\ pack = investigation.no
        /\ \A seq \in DOMAIN PackRows :
              NeedsCard(PackRows[seq]) => /\ card[<<pack, seq>>] # None
                                          /\ card[<<pack, seq>>].row = PackRows[seq]

\* The audit log is the ledger: one entry for each decision taken, saying what
\* was decided and the card as it was seen, so no decision was overwritten.
AuditIsTheLedger ==
    /\ \A i \in DOMAIN audit :
          /\ decision[audit[i].id] = audit[i].decision
          /\ card[audit[i].id] = audit[i].card
    /\ \A i, j \in DOMAIN audit : audit[i].id = audit[j].id => i = j
    /\ \A id \in Cards : decision[id] # None => \E i \in DOMAIN audit : audit[i].id = id

\* Every card names the signed version it was shown against: the gates before
\* it make "published.version_id if published else None" never None.
CardsNameTheSignedVersion ==
    \A id \in Cards :
        card[id] # None => published # None /\ card[id].snapshot = published.version

\* A war room stands on a hard breach found in the very result the screens still
\* show, under a signature, even when a later check of it no longer escalates.
\* That result need not be the one that was signed: see PolicyOnPublished.
WarRoomOnBreach ==
    investigation # None =>
        /\ published # None /\ result # None
        /\ investigation.check.escalate
        /\ investigation.check.run = result.run
        /\ investigation.check.version = result.version

\* The signature covers every override there will be.
SignatureCoversOverrides ==
    published # None => published.overrides = overrides

\* The result the screens show is the result that was checked: no run, not even
\* one in flight when the version was signed, replaces it after the check.
CheckedIsShown ==
    policy # None => result # None /\ policy.run = result.run
                                   /\ policy.version = result.version

\* A card on the board is of the recommendation and of the version the reader sees.
CardsOfTheSignedVersion ==
    TypeOK /\ CardsOfThisRecommendation /\ CardsNameTheSignedVersion

\* Everything after the signature stands on it: no override escapes it, the check
\* judged what is shown, and the war room answers a breach that a check found in it.
EveryStepStandsOnTheSignature ==
    SignatureCoversOverrides /\ CheckedIsShown /\ WarRoomOnBreach

\* However a locked step ends, the lock is free again.
LockReleased == (lock # "free") ~> (lock = "free")

-----------------------------------------------------------------------------
(* What the documentation says of the session *)

\* session.py:332, "Run against the version the Treasurer actually published,
\* never a draft."
PolicyOnPublished ==
    policy # None => published # None /\ policy.run = published.run
=============================================================================
