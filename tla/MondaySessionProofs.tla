------------------------ MODULE MondaySessionProofs ------------------------
(***************************************************************************)
(* Proofs about one tenant's Monday, for any people, versions, worklists   *)
(* and any number of runs, overrides, war rooms and sessions.              *)
(*                                                                         *)
(* The properties are not inductive: what a step does after its await is   *)
(* only right because of what was true when it took the lock.  InFlight    *)
(* says what each holder of the lock still knows, Gates that each stage    *)
(* stands on the one before it, Board which cards exist, and Ledger what   *)
(* decided cards, the audit log and the executed rows have in common.      *)
(***************************************************************************)
EXTENDS MondaySession, TLAPS

-----------------------------------------------------------------------------
(* The inductive invariant *)

\* What the step that holds the lock checked before its await still holds.
InFlight ==
    /\ manual.recorded <= manual.started
    /\ lock = "run_agent" => manual.recorded < manual.started
    /\ lock = "run_cycle" => cycle # 0 /\ policy = None
    /\ lock = "check_policy" => checking # None /\ checking = result /\ published # None
    /\ lock # "check_policy" => checking = None
    /\ lock = "open_war_room" => policy # None /\ policy.escalate
                                               /\ opened < MaxInvestigations
    /\ lock = "approval_pack" => investigation # None /\ pack = 0

\* No stage is reached but through the one before it.
Gates ==
    /\ published # None => result # None /\ published.overrides = overrides
    /\ policy # None => /\ published # None /\ result # None
                        /\ policy.run = result.run /\ policy.version = result.version
    /\ investigation # None => /\ policy # None
                               /\ investigation.check.escalate
                               /\ investigation.check.run = result.run
                               /\ investigation.check.version = result.version
                               /\ investigation.no = opened
    /\ pack # 0 => investigation # None /\ pack = investigation.no

\* No card is made for a war room before it is over, or twice.
CardsOnce ==
    \A id \in Cards : card[id] # None => id[1] <= opened /\ (id[1] = opened => pack = opened)

Board == CardsOfThisRecommendation /\ CardsNameTheSignedVersion /\ CardsOnce

\* A decision is of a card, and of a person and a role that may take it.
DecisionsAreClean ==
    \A id \in Cards : decision[id] # None =>
        /\ card[id] # None
        /\ ~SamePerson(decision[id].by, Preparer)
        /\ decision[id].approved => decision[id].role = card[id].row

Ledger == DecisionsAreClean /\ AuditIsTheLedger /\ ExecutionGate

\* The inductive invariant.
Monday == TypeOK /\ InFlight /\ Gates /\ Board /\ Ledger

-----------------------------------------------------------------------------
(* Worklists and the fields of what is stored *)

\* The rows of a worklist: numbered from one, within the bound, of known kinds.
LEMMA WorklistRows ==
    ASSUME NEW w \in Worklists
    PROVE  /\ DOMAIN w \subseteq Seqs
           /\ \A seq \in DOMAIN w : w[seq] \in Row
<1>1. PICK n \in 0..MaxRows : w \in [1..n -> Kinds]
  BY DEF Worklists
<1>. QED
  BY <1>1, SessionAssumption DEF Seqs

\* What is not None is an object with its fields.
LEMMA Objects ==
    ASSUME TypeOK
    PROVE  /\ result # None => result \in Results
           /\ published # None => published \in Published
           /\ checking # None => checking \in Results
           /\ policy # None => policy \in Checks
           /\ investigation # None => investigation \in Reports
           /\ \A id \in Cards : card[id] # None => card[id] \in Requests
           /\ \A id \in Cards : decision[id] # None => decision[id] \in Decisions
  BY DEF TypeOK

-----------------------------------------------------------------------------
(* Type correctness *)

\* A fresh session is well typed (Session.__init__).
LEMMA InitTyped == Init => TypeOK
<1>. SUFFICES ASSUME Init PROVE TypeOK
  OBVIOUS
<1>. USE SessionAssumption DEF Init
<1>1. 0 \in 0..MaxSessions /\ 0 \in 0..MaxRuns /\ 0 \in 0..MaxOverrides
      /\ 0 \in 0..MaxInvestigations /\ 0 \in 0..MaxManual
  OBVIOUS
<1>2. manual \in [started : 0..MaxManual, recorded : 0..MaxManual]
  BY <1>1 DEF NoManual
<1>3. /\ card \in [Cards -> Requests \cup {None}]
      /\ decision \in [Cards -> Decisions \cup {None}]
  BY DEF NoCards
<1>4. audit \in Seq([id : Cards, decision : Decisions, card : Requests])
  OBVIOUS
<1>. QED
  BY <1>1, <1>2, <1>3, <1>4 DEF TypeOK

\* Every handler leaves the session well typed; what ends after an await needs
\* what its beginning checked.
LEMMA StepTyped == TypeOK /\ InFlight /\ Gates /\ [Next]_vars => TypeOK'
<1>. SUFFICES ASSUME TypeOK, InFlight, Gates, [Next]_vars PROVE TypeOK'
  OBVIOUS
<1>. USE SessionAssumption DEF cycleVars, reviewVars, policyVars, warRoomVars, approvalVars
<1>1. ASSUME NEW source \in BOOLEAN, Replace(source) PROVE TypeOK'
  <2>1. generation' \in 0..MaxSessions
    BY <1>1 DEF Replace, TypeOK
  <2>2. /\ 0 \in 0..MaxRuns /\ 0 \in 0..MaxOverrides
        /\ 0 \in 0..MaxInvestigations /\ 0 \in 0..MaxManual
    OBVIOUS
  <2>3. manual' \in [started : 0..MaxManual, recorded : 0..MaxManual]
    BY <1>1, <2>2 DEF Replace, NoManual
  <2>4. /\ card' \in [Cards -> Requests \cup {None}]
        /\ decision' \in [Cards -> Decisions \cup {None}]
    BY <1>1 DEF Replace, NoCards
  <2>5. audit' \in Seq([id : Cards, decision : Decisions, card : Requests])
    BY <1>1 DEF Replace
  <2>. QED
    BY <1>1, <2>1, <2>2, <2>3, <2>4, <2>5 DEF Replace, TypeOK
<1>2. CASE RunAgentBegin
  <2>1. manual' \in [started : 0..MaxManual, recorded : 0..MaxManual]
    BY <1>2, SMTT(40) DEF RunAgentBegin, TypeOK
  <2>. QED
    BY <1>2, <2>1 DEF RunAgentBegin, Acquire, TypeOK, Locked
<1>3. CASE RunAgentEnd
  <2>1. /\ manual \in [started : 0..MaxManual, recorded : 0..MaxManual]
        /\ manual.recorded < manual.started
        /\ manual' = [manual EXCEPT !.recorded = @ + 1]
    BY <1>3 DEF RunAgentEnd, TypeOK, InFlight
  <2>2. manual.recorded + 1 \in 0..MaxManual
    BY <2>1
  <2>3. manual' \in [started : 0..MaxManual, recorded : 0..MaxManual]
    BY <2>1, <2>2
  <2>. QED
    BY <1>3, <2>3 DEF RunAgentEnd, TypeOK
<1>4. CASE RunCycleBegin
  BY <1>4 DEF RunCycleBegin, Acquire, TypeOK, Locked
<1>5. CASE RunCycleEnd
  <2>1. result' \in Results
    BY <1>5 DEF RunCycleEnd, TypeOK, InFlight, Results
  <2>. QED
    BY <1>5, <2>1 DEF RunCycleEnd, TypeOK
<1>6. CASE CheckPolicyBegin
  BY <1>6 DEF CheckPolicyBegin, Acquire, TypeOK, Locked
<1>7. CASE CheckPolicyEnd
  <2>1. checking \in Results
    BY <1>7, Objects DEF CheckPolicyEnd, InFlight
  <2>2. policy' \in Checks
    BY <1>7, <2>1 DEF CheckPolicyEnd, Results, Checks
  <2>. QED
    BY <1>7, <2>2 DEF CheckPolicyEnd, TypeOK
<1>8. CASE OpenWarRoomBegin
  BY <1>8 DEF OpenWarRoomBegin, Acquire, TypeOK, Locked
<1>9. CASE OpenWarRoomEnd
  <2>1. policy \in Checks
    BY <1>9, Objects DEF OpenWarRoomEnd, InFlight
  <2>2. opened' \in 0..MaxInvestigations /\ opened + 1 \in Investigations
    BY <1>9 DEF OpenWarRoomEnd, InFlight, TypeOK, Investigations
  <2>3. investigation' \in Reports
    BY <1>9, <2>1, <2>2 DEF OpenWarRoomEnd, Reports
  <2>. QED
    BY <1>9, <2>2, <2>3 DEF OpenWarRoomEnd, TypeOK
<1>10. CASE ApprovalPackBegin
  BY <1>10 DEF ApprovalPackBegin, Acquire, TypeOK, Locked
<1>11. CASE ApprovalPackEnd
  <2>1. investigation \in Reports
    BY <1>11, Objects DEF ApprovalPackEnd, InFlight
  <2>2. investigation.no \in Investigations /\ PackRows \in Worklists
    BY <2>1 DEF Reports, PackRows
  <2>3. published # None => published.version \in Versions
    BY Objects DEF Published
  <2>4. ASSUME NEW id \in Cards PROVE card'[id] \in Requests \cup {None}
    <3>1. CASE /\ id[1] = investigation.no
               /\ id[2] \in DOMAIN PackRows
               /\ NeedsCard(PackRows[id[2]])
      <4>1. card'[id] = [row |-> PackRows[id[2]],
                         snapshot |-> IF published # None THEN published.version ELSE None]
        BY <1>11, <3>1 DEF ApprovalPackEnd
      <4>2. PackRows[id[2]] \in Row
        BY <2>2, <3>1, WorklistRows
      <4>. QED
        BY <4>1, <4>2, <2>3 DEF Requests
    <3>2. CASE ~(/\ id[1] = investigation.no
                 /\ id[2] \in DOMAIN PackRows
                 /\ NeedsCard(PackRows[id[2]]))
      <4>1. card'[id] = card[id]
        BY <1>11, <3>2 DEF ApprovalPackEnd
      <4>. QED
        BY <4>1 DEF TypeOK
    <3>. QED
      BY <3>1, <3>2
  <2>5. card' \in [Cards -> Requests \cup {None}]
    BY <1>11, <2>4 DEF ApprovalPackEnd
  <2>6. pack' \in 0..MaxInvestigations
    BY <1>11, <2>2 DEF ApprovalPackEnd, Investigations
  <2>. QED
    BY <1>11, <2>5, <2>6 DEF ApprovalPackEnd, TypeOK
<1>12. ASSUME NEW step \in Locked, Fails(step) PROVE TypeOK'
  BY <1>12 DEF Fails, Raised, TypeOK
<1>13. CASE RecordOverride
  BY <1>13 DEF RecordOverride, TypeOK
<1>14. ASSUME NEW by \in Names, NEW role \in Roles, Publish(by, role) PROVE TypeOK'
  <2>1. result \in Results
    BY <1>14, Objects DEF Publish
  <2>2. published' \in Published
    BY <1>14, <2>1 DEF Publish, Published, Results, TypeOK
  <2>. QED
    BY <1>14, <2>2 DEF Publish, TypeOK
<1>15. ASSUME NEW id \in Cards, NEW by \in Names, NEW role \in Roles,
              NEW approved \in BOOLEAN, Decide(id, by, role, approved)
       PROVE  TypeOK'
  <2>. DEFINE d == [by |-> by, role |-> role, approved |-> approved]
  <2>1. d \in Decisions
    BY DEF Decisions
  <2>2. card[id] \in Requests
    BY <1>15, Objects DEF Decide
  <2>3. decision' = [decision EXCEPT ![id] = d]
        /\ audit' = Append(audit, [id |-> id, decision |-> d, card |-> card[id]])
    BY <1>15 DEF Decide, Signed
  <2>. HIDE DEF d
  <2>4. decision' \in [Cards -> Decisions \cup {None}]
    BY <2>1, <2>3 DEF TypeOK
  <2>5. [id |-> id, decision |-> d, card |-> card[id]]
            \in [id : Cards, decision : Decisions, card : Requests]
    BY <2>1, <2>2
  <2>6. audit' \in Seq([id : Cards, decision : Decisions, card : Requests])
    BY <2>3, <2>5 DEF TypeOK
  <2>. QED
    BY <1>15, <2>4, <2>6 DEF Decide, TypeOK
<1>16. ASSUME NEW seq \in Seqs, Execute(seq) PROVE TypeOK'
  <2>1. pack \in Investigations
    BY <1>16 DEF Execute, CardsReady, TypeOK, Investigations
  <2>2. investigation \in Reports
    BY <1>16, Objects DEF Execute, CardsReady, Gates
  <2>3. PackRows[seq] \in Row
    BY <1>16, <2>2, WorklistRows DEF Execute, Reports, PackRows
  <2>4. decision[<<pack, seq>>] \in Decisions \cup {None}
    BY <2>1 DEF TypeOK, Cards
  <2>5. executed' \subseteq [pack : Investigations, seq : Seqs, row : Row,
                             decision : Decisions \cup {None}]
    BY <1>16, <2>1, <2>3, <2>4, SMTT(40) DEF Execute, TypeOK
  <2>. QED
    BY <1>16, <2>5 DEF Execute, TypeOK
<1>17. CASE UNCHANGED vars
  BY <1>17 DEF vars, sessionVars, TypeOK
<1>. QED
  BY <1>1, <1>2, <1>3, <1>4, <1>5, <1>6, <1>7, <1>8, <1>9, <1>10, <1>11, <1>12, <1>13,
     <1>14, <1>15, <1>16, <1>17 DEF Next, Finish, Bind, Clear

-----------------------------------------------------------------------------
(* What the holder of the lock knows, and the gates between the stages *)

\* The gates and the lock hold from the start and through every handler: while
\* a step awaits, only handlers that take no lock run, and none of them takes
\* away what it checked.
LEMMA StepGated ==
    TypeOK /\ InFlight /\ Gates /\ TypeOK' /\ [Next]_vars => InFlight' /\ Gates'
<1>. SUFFICES ASSUME TypeOK, InFlight, Gates, TypeOK', [Next]_vars
              PROVE  InFlight' /\ Gates'
  OBVIOUS
<1>. USE SessionAssumption, NoneIsNoObject
     DEF cycleVars, reviewVars, policyVars, warRoomVars, approvalVars
<1>1. ASSUME NEW source \in BOOLEAN, Replace(source) PROVE InFlight' /\ Gates'
  BY <1>1 DEF Replace, NoManual, InFlight, Gates
<1>2. CASE RunAgentBegin
  <2>1. /\ manual'.started = manual.started + 1
        /\ manual'.recorded = manual.recorded
        /\ manual.started \in Nat /\ manual.recorded \in Nat
    BY <1>2 DEF RunAgentBegin, TypeOK
  <2>. QED
    BY <1>2, <2>1 DEF RunAgentBegin, Acquire, InFlight, Gates
<1>3. CASE RunAgentEnd
  <2>1. /\ manual'.started = manual.started
        /\ manual'.recorded = manual.recorded + 1
        /\ manual.started \in Nat /\ manual.recorded \in Nat
    BY <1>3 DEF RunAgentEnd, TypeOK
  <2>. QED
    BY <1>3, <2>1 DEF RunAgentEnd, InFlight, Gates
<1>4. CASE RunCycleBegin
  BY <1>4 DEF RunCycleBegin, Acquire, InFlight, Gates, TypeOK
<1>5. CASE RunCycleEnd
  <2>1. PICK v \in Versions : result' = [run |-> cycle, version |-> v]
    BY <1>5 DEF RunCycleEnd
  <2>2. result' \in Results
    BY <1>5, <2>1 DEF RunCycleEnd, InFlight, TypeOK, Results
  <2>3. result' # None
    BY <2>2
  <2>. QED
    BY <1>5, <2>3 DEF RunCycleEnd, InFlight, Gates
<1>6. CASE CheckPolicyBegin
  BY <1>6 DEF CheckPolicyBegin, Acquire, InFlight, Gates
<1>7. CASE CheckPolicyEnd
  <2>1. checking = result /\ result \in Results /\ published # None
    BY <1>7, Objects DEF CheckPolicyEnd, InFlight
  <2>2. PICK escalate \in BOOLEAN :
            policy' = [run |-> checking.run, version |-> checking.version,
                       escalate |-> escalate]
    BY <1>7 DEF CheckPolicyEnd
  <2>3. policy'.run = result.run /\ policy'.version = result.version
    BY <2>1, <2>2
  <2>4. policy' \in Checks
    BY <2>1, <2>2 DEF Results, Checks
  <2>5. policy' # None
    BY <2>4
  <2>. QED
    BY <1>7, <2>1, <2>3, <2>5, Objects DEF CheckPolicyEnd, InFlight, Gates
<1>8. CASE OpenWarRoomBegin
  BY <1>8 DEF OpenWarRoomBegin, Acquire, InFlight, Gates
<1>9. CASE OpenWarRoomEnd
  <2>1. policy # None /\ policy \in Checks /\ policy.escalate
    BY <1>9, Objects DEF OpenWarRoomEnd, InFlight
  <2>2. PICK w \in Worklists :
            investigation' = [no |-> opened + 1, check |-> policy, worklist |-> w]
    BY <1>9 DEF OpenWarRoomEnd
  <2>3. /\ investigation'.no = opened' /\ investigation'.check.escalate
       /\ investigation'.check.run = result'.run
       /\ investigation'.check.version = result'.version
    BY <1>9, <2>1, <2>2 DEF OpenWarRoomEnd, Gates, cycleVars
  <2>. QED
    BY <1>9, <2>1, <2>3 DEF OpenWarRoomEnd, InFlight, Gates
<1>10. CASE ApprovalPackBegin
  BY <1>10 DEF ApprovalPackBegin, Acquire, InFlight, Gates
<1>11. CASE ApprovalPackEnd
  BY <1>11 DEF ApprovalPackEnd, InFlight, Gates
<1>12. ASSUME NEW step \in Locked, Fails(step) PROVE InFlight' /\ Gates'
  BY <1>12 DEF Fails, Raised, Locked, InFlight, Gates
<1>13. CASE RecordOverride
  BY <1>13 DEF RecordOverride, InFlight, Gates
<1>14. ASSUME NEW by \in Names, NEW role \in Roles, Publish(by, role)
       PROVE  InFlight' /\ Gates'
  <2>1. published'.overrides = overrides' /\ result # None
    BY <1>14 DEF Publish
  <2>. QED
    BY <1>14, <2>1 DEF Publish, InFlight, Gates
<1>15. ASSUME NEW id \in Cards, NEW by \in Names, NEW role \in Roles,
              NEW approved \in BOOLEAN, Decide(id, by, role, approved)
       PROVE  InFlight' /\ Gates'
  BY <1>15 DEF Decide, InFlight, Gates
<1>16. ASSUME NEW seq \in Seqs, Execute(seq) PROVE InFlight' /\ Gates'
  BY <1>16 DEF Execute, InFlight, Gates
<1>17. CASE UNCHANGED vars
  BY <1>17 DEF vars, sessionVars, InFlight, Gates
<1>. QED
  BY <1>1, <1>2, <1>3, <1>4, <1>5, <1>6, <1>7, <1>8, <1>9, <1>10, <1>11, <1>12, <1>13,
     <1>14, <1>15, <1>16, <1>17 DEF Next, Finish, Bind, Clear

-----------------------------------------------------------------------------
(* The cards on the board *)

\* A handler that touches neither the war room, the signature nor the cards
\* leaves the board as it was.
LEMMA QuietBoard ==
    ASSUME Board, UNCHANGED <<published, warRoomVars, card>>
    PROVE  Board'
  BY DEF Board, CardsOfThisRecommendation, CardsNameTheSignedVersion, CardsOnce, PackRows,
         warRoomVars

\* approval_pack prepares the cards of its own war room, against the signed
\* version, and overwrites no card there was.
LEMMA PackPrepared ==
    ASSUME TypeOK, InFlight, Gates, Board, ApprovalPackEnd
    PROVE  /\ \A id \in Cards : card[id] # None => card'[id] = card[id]
           /\ \A id \in Cards : card'[id] # None =>
                 \/ card'[id] = card[id]
                 \/ id[1] = opened /\ card'[id].snapshot = published.version
           /\ \A seq \in DOMAIN PackRows : NeedsCard(PackRows[seq]) =>
                 /\ card'[<<opened, seq>>] # None
                 /\ card'[<<opened, seq>>].row = PackRows[seq]
           /\ published # None
           /\ investigation.no = opened /\ opened \in Investigations
<1>1. investigation # None /\ pack = 0 /\ investigation \in Reports
  BY Objects DEF ApprovalPackEnd, InFlight
<1>2. investigation.no = opened /\ opened \in Investigations /\ published # None
  BY <1>1 DEF Gates, Reports
<1>3. opened # 0
  BY <1>2 DEF Investigations
<1>4. ASSUME NEW id \in Cards, card[id] # None PROVE card'[id] = card[id]
  <2>1. id[1] # opened
    BY <1>1, <1>3, <1>4 DEF Board, CardsOnce
  <2>. QED
    BY <1>2, <2>1 DEF ApprovalPackEnd
<1>5. ASSUME NEW id \in Cards
      PROVE  \/ card'[id] = card[id]
             \/ id[1] = opened /\ card'[id].snapshot = published.version
  BY <1>2 DEF ApprovalPackEnd
<1>6. ASSUME NEW seq \in DOMAIN PackRows, NeedsCard(PackRows[seq])
      PROVE  card'[<<opened, seq>>] # None /\ card'[<<opened, seq>>].row = PackRows[seq]
  <2>. DEFINE c == [row |-> PackRows[seq], snapshot |-> published.version]
  <2>1. PackRows \in Worklists
    BY <1>1 DEF Reports, PackRows
  <2>2. seq \in Seqs /\ PackRows[seq] \in Row
    BY <2>1, WorklistRows
  <2>3. <<opened, seq>> \in Cards
    BY <1>2, <2>2 DEF Cards
  <2>4. card'[<<opened, seq>>] = c
    BY <1>2, <1>6, <2>3 DEF ApprovalPackEnd
  <2>5. published.version \in Versions
    BY <1>2, Objects DEF Published
  <2>6. c \in Requests
    BY <2>2, <2>5 DEF Requests
  <2>7. c # None
    BY <2>6, NoneIsNoObject
  <2>. QED
    BY <2>4, <2>7
<1>. QED
  BY <1>2, <1>4, <1>5, <1>6

\* The board is right after every handler.
LEMMA StepBoard ==
    TypeOK /\ InFlight /\ Gates /\ Board /\ [Next]_vars => Board'
<1>. SUFFICES ASSUME TypeOK, InFlight, Gates, Board, [Next]_vars PROVE Board'
  OBVIOUS
<1>. USE DEF cycleVars, reviewVars, policyVars, warRoomVars, approvalVars
<1>1. ASSUME NEW source \in BOOLEAN, Replace(source) PROVE Board'
  BY <1>1 DEF Replace, NoCards, Board, CardsOfThisRecommendation,
              CardsNameTheSignedVersion, CardsOnce
<1>2. CASE OpenWarRoomEnd
  <2>1. opened \in Nat /\ opened' = opened + 1 /\ pack' = 0
        /\ UNCHANGED <<card, published>>
    BY <1>2 DEF OpenWarRoomEnd, TypeOK
  <2>2. ASSUME NEW id \in Cards, card[id] # None
        PROVE  id[1] <= opened' /\ id[1] # opened'
    <3>1. id[1] \in Nat /\ id[1] <= opened
      BY <2>2 DEF Board, CardsOnce, Cards, Investigations
    <3>. QED
      BY <2>1, <3>1
  <2>3. CardsOnce'
    BY <2>1, <2>2 DEF CardsOnce
  <2>. QED
    BY <2>1, <2>3 DEF Board, CardsOfThisRecommendation, CardsNameTheSignedVersion
<1>3. CASE ApprovalPackEnd
  <2>1. pack' = opened /\ UNCHANGED <<opened, investigation, published>>
    BY <1>3, PackPrepared DEF ApprovalPackEnd
  <2>2. CardsOfThisRecommendation'
    <3>1. PackRows' = PackRows /\ investigation' # None /\ pack' = investigation'.no
      BY <1>3, <2>1, PackPrepared DEF PackRows, InFlight, ApprovalPackEnd
    <3>. QED
      BY <1>3, <2>1, <3>1, PackPrepared DEF CardsOfThisRecommendation
  <2>3. CardsNameTheSignedVersion'
    BY <1>3, <2>1, PackPrepared DEF Board, CardsNameTheSignedVersion
  <2>4. CardsOnce'
    <3>1. ASSUME NEW id \in Cards, card'[id] # None PROVE id[1] <= opened
      <4>1. opened \in Nat
        BY DEF TypeOK
      <4>. QED
        BY <1>3, <3>1, <4>1, PackPrepared DEF Board, CardsOnce
    <3>. QED
      BY <2>1, <3>1 DEF CardsOnce
  <2>. QED
    BY <2>2, <2>3, <2>4 DEF Board
<1>4. ASSUME NEW by \in Names, NEW role \in Roles, Publish(by, role) PROVE Board'
  <2>1. \A id \in Cards : card'[id] = None
    BY <1>4 DEF Publish, Board, CardsNameTheSignedVersion
  <2>2. PackRows' = PackRows
    BY <1>4 DEF Publish, PackRows
  <2>. QED
    BY <1>4, <2>1, <2>2 DEF Publish, Board, CardsOfThisRecommendation,
                            CardsNameTheSignedVersion, CardsOnce
<1>5. CASE UNCHANGED <<published, warRoomVars, card>>
  BY <1>5, QuietBoard
<1>6. CASE \/ RunAgentBegin \/ RunCycleBegin \/ CheckPolicyBegin \/ OpenWarRoomBegin
           \/ ApprovalPackBegin \/ RunAgentEnd \/ RunCycleEnd \/ CheckPolicyEnd
           \/ RecordOverride \/ \E step \in Locked : Fails(step)
  BY <1>5, <1>6 DEF RunAgentBegin, RunCycleBegin, CheckPolicyBegin, OpenWarRoomBegin,
                    ApprovalPackBegin, RunAgentEnd, RunCycleEnd, CheckPolicyEnd,
                    RecordOverride, Fails
<1>7. ASSUME NEW id \in Cards, NEW by \in Names, NEW role \in Roles,
             NEW approved \in BOOLEAN, Decide(id, by, role, approved)
      PROVE  Board'
  BY <1>5, <1>7 DEF Decide
<1>8. ASSUME NEW seq \in Seqs, Execute(seq) PROVE Board'
  BY <1>5, <1>8 DEF Execute
<1>9. CASE UNCHANGED vars
  BY <1>5, <1>9 DEF vars, sessionVars
<1>. QED
  BY <1>1, <1>2, <1>3, <1>4, <1>6, <1>7, <1>8, <1>9 DEF Next, Finish, Bind, Clear

-----------------------------------------------------------------------------
(* Decisions, the audit log and what was executed *)

\* Every entry of the audit log is of a card that was there, as it was shown.
LEMMA AuditEntries ==
    ASSUME TypeOK, NEW i \in DOMAIN audit
    PROVE  /\ audit[i].id \in Cards
           /\ audit[i].decision \in Decisions
           /\ audit[i].card \in Requests
<1>. DEFINE Entry == [id : Cards, decision : Decisions, card : Requests]
<1>1. audit \in Seq(Entry)
  BY DEF TypeOK
<1>. HIDE DEF Entry
<1>2. audit[i] \in Entry
  BY <1>1
<1>. QED
  BY <1>2 DEF Entry

\* A handler that keeps every card there was, and touches neither decisions,
\* audit log nor adapter, leaves the ledger right.
LEMMA QuietLedger ==
    ASSUME TypeOK, Ledger, UNCHANGED <<decision, audit, executed>>,
           \A id \in Cards : card[id] # None => card'[id] = card[id]
    PROVE  Ledger'
<1>1. DecisionsAreClean'
  BY DEF Ledger, DecisionsAreClean
<1>2. ASSUME NEW i \in DOMAIN audit PROVE card'[audit[i].id] = audit[i].card
  <2>1. audit[i].id \in Cards /\ audit[i].card \in Requests
    BY AuditEntries
  <2>2. card[audit[i].id] = audit[i].card /\ audit[i].card # None
    BY <2>1, NoneIsNoObject DEF Ledger, AuditIsTheLedger
  <2>. QED
    BY <2>1, <2>2
<1>3. AuditIsTheLedger'
  BY <1>2 DEF Ledger, AuditIsTheLedger
<1>. QED
  BY <1>1, <1>3 DEF Ledger, ExecutionGate

\* decide() adds one decision nobody had taken and one audit entry for it; every
\* earlier decision, and every execution that rests on one, stands.
LEMMA DecideLedger ==
    ASSUME TypeOK, Ledger, NEW id \in Cards, NEW by \in Names, NEW role \in Roles,
           NEW approved \in BOOLEAN, Decide(id, by, role, approved)
    PROVE  Ledger'
<1>. DEFINE d == [by |-> by, role |-> role, approved |-> approved]
            e == [id |-> id, decision |-> d, card |-> card[id]]
<1>1. d \in Decisions /\ d.by = by /\ d.role = role /\ d.approved = approved
  BY DEF Decisions
<1>2. d # None
  BY <1>1, NoneIsNoObject
<1>3. e.id = id /\ e.decision = d /\ e.card = card[id]
  OBVIOUS
<1>4. /\ decision' = [decision EXCEPT ![id] = d]
      /\ audit' = Append(audit, e)
      /\ UNCHANGED <<card, executed>>
      /\ card[id] # None /\ decision[id] = None
      /\ ~SamePerson(d.by, Preparer)
      /\ d.approved => d.role = card[id].row
  BY <1>1 DEF Decide, Signed, MakerChecker, RoleMayApprove
<1>5. /\ decision'[id] = d
      /\ \A other \in Cards \ {id} : decision'[other] = decision[other]
  BY <1>4 DEF TypeOK
<1>6. audit \in Seq([id : Cards, decision : Decisions, card : Requests])
  BY DEF TypeOK
<1>. HIDE DEF d, e
<1>7. /\ DOMAIN audit = 1..Len(audit) /\ Len(audit) \in Nat
      /\ DOMAIN audit' = 1..(Len(audit) + 1)
      /\ \A i \in DOMAIN audit : audit'[i] = audit[i]
      /\ audit'[Len(audit) + 1] = e
  BY <1>4, <1>6
<1>8. \A i \in DOMAIN audit : audit[i].id \in Cards /\ audit[i].id # id
  <2>. SUFFICES ASSUME NEW i \in DOMAIN audit PROVE audit[i].id \in Cards /\ audit[i].id # id
    OBVIOUS
  <2>1. audit[i].id \in Cards /\ audit[i].decision \in Decisions
    BY AuditEntries
  <2>2. decision[audit[i].id] # None
    BY <2>1, NoneIsNoObject DEF Ledger, AuditIsTheLedger
  <2>. QED
    BY <1>4, <2>1, <2>2
<1>9. DecisionsAreClean'
  BY <1>4, <1>5 DEF Ledger, DecisionsAreClean
<1>10. AuditIsTheLedger'
  <2>1. ASSUME NEW i \in DOMAIN audit'
        PROVE  decision'[audit'[i].id] = audit'[i].decision
               /\ card'[audit'[i].id] = audit'[i].card
    <3>1. CASE i = Len(audit) + 1
      BY <3>1, <1>3, <1>4, <1>5, <1>7
    <3>2. CASE i \in DOMAIN audit
      BY <3>2, <1>4, <1>5, <1>7, <1>8 DEF Ledger, AuditIsTheLedger
    <3>. QED
      BY <3>1, <3>2, <1>7
  <2>2. ASSUME NEW i \in DOMAIN audit', NEW j \in DOMAIN audit', audit'[i].id = audit'[j].id
        PROVE  i = j
    <3>1. \A k \in DOMAIN audit' : k = Len(audit) + 1 \/ k \in DOMAIN audit
      BY <1>7
    <3>. QED
      BY <2>2, <3>1, <1>3, <1>7, <1>8 DEF Ledger, AuditIsTheLedger
  <2>3. ASSUME NEW other \in Cards, decision'[other] # None
        PROVE  \E i \in DOMAIN audit' : audit'[i].id = other
    <3>1. CASE other = id
      <4>1. Len(audit) + 1 \in DOMAIN audit'
        BY <1>7
      <4>. QED
        BY <3>1, <4>1, <1>3, <1>7
    <3>2. CASE other # id
      <4>1. PICK i \in DOMAIN audit : audit[i].id = other
        BY <2>3, <3>2, <1>5 DEF Ledger, AuditIsTheLedger
      <4>2. i \in DOMAIN audit'
        BY <1>7
      <4>. QED
        BY <4>1, <4>2, <1>7
    <3>. QED
      BY <3>1, <3>2
  <2>. QED
    BY <2>1, <2>2, <2>3 DEF AuditIsTheLedger
<1>11. ExecutionGate'
  <2>. SUFFICES ASSUME NEW x \in executed, x.row # "auto_safe"
                PROVE  /\ CleanApproval(x.decision, x.row)
                       /\ decision'[<<x.pack, x.seq>>] = x.decision
                       /\ \E i \in DOMAIN audit' : /\ audit'[i].id = <<x.pack, x.seq>>
                                                   /\ audit'[i].decision = x.decision
    BY <1>4 DEF ExecutionGate
  <2>1. /\ CleanApproval(x.decision, x.row)
        /\ decision[<<x.pack, x.seq>>] = x.decision
        /\ \E i \in DOMAIN audit : /\ audit[i].id = <<x.pack, x.seq>>
                                   /\ audit[i].decision = x.decision
    BY DEF Ledger, ExecutionGate
  <2>2. <<x.pack, x.seq>> \in Cards /\ <<x.pack, x.seq>> # id
    BY <2>1, <1>4 DEF TypeOK, Cards, CleanApproval
  <2>3. PICK i \in DOMAIN audit : audit[i].id = <<x.pack, x.seq>>
                                  /\ audit[i].decision = x.decision
    BY <2>1
  <2>4. i \in DOMAIN audit' /\ audit'[i] = audit[i]
    BY <1>7
  <2>. QED
    BY <2>1, <2>2, <2>3, <2>4, <1>5
<1>. QED
  BY <1>9, <1>10, <1>11 DEF Ledger

\* execute() passes its row only on an approved card of this very row.
LEMMA ExecuteLedger ==
    ASSUME TypeOK, Gates, Board, Ledger, NEW seq \in Seqs, Execute(seq)
    PROVE  Ledger'
<1>. DEFINE id == <<pack, seq>>
            x == [pack |-> pack, seq |-> seq, row |-> PackRows[seq], decision |-> decision[id]]
<1>1. pack # 0 /\ seq \in DOMAIN PackRows /\ Gate(seq)
      /\ executed' = executed \cup {x} /\ UNCHANGED <<card, decision, audit>>
  BY DEF Execute, CardsReady
<1>2. id \in Cards
  BY <1>1 DEF TypeOK, Cards, Investigations
<1>3. x.pack = pack /\ x.seq = seq /\ x.row = PackRows[seq] /\ x.decision = decision[id]
  OBVIOUS
<1>4. CASE NeedsCard(PackRows[seq])
  <2>1. StateOf(id) = "approved"
    BY <1>1, <1>4 DEF Gate
  <2>2. card[id] # None /\ card[id].row = PackRows[seq]
    BY <1>1, <1>4 DEF Board, CardsOfThisRecommendation
  <2>3. decision[id] # None /\ decision[id].approved
    BY <2>1, <2>2 DEF StateOf
  <2>4. CleanApproval(decision[id], PackRows[seq])
    BY <1>2, <2>2, <2>3 DEF Ledger, DecisionsAreClean, CleanApproval
  <2>5. PICK i \in DOMAIN audit : audit[i].id = id
    BY <1>2, <2>3 DEF Ledger, AuditIsTheLedger
  <2>6. audit[i].decision = decision[id]
    BY <2>5 DEF Ledger, AuditIsTheLedger
  <2>. HIDE DEF x
  <2>7. ExecutionGate'
    BY <1>1, <1>3, <2>4, <2>5, <2>6 DEF Ledger, ExecutionGate
  <2>. QED
    BY <1>1, <2>7 DEF Ledger, DecisionsAreClean, AuditIsTheLedger
<1>5. CASE ~NeedsCard(PackRows[seq])
  <2>1. x.row = "auto_safe"
    BY <1>3, <1>5 DEF NeedsCard
  <2>. HIDE DEF x
  <2>2. ExecutionGate'
    BY <1>1, <2>1 DEF Ledger, ExecutionGate
  <2>. QED
    BY <1>1, <2>2 DEF Ledger, DecisionsAreClean, AuditIsTheLedger
<1>. QED
  BY <1>4, <1>5

\* The ledger is right after every handler.
LEMMA StepLedger ==
    TypeOK /\ InFlight /\ Gates /\ Board /\ Ledger /\ [Next]_vars => Ledger'
<1>. SUFFICES ASSUME TypeOK, InFlight, Gates, Board, Ledger, [Next]_vars PROVE Ledger'
  OBVIOUS
<1>. USE DEF cycleVars, reviewVars, policyVars, warRoomVars, approvalVars
<1>1. ASSUME NEW source \in BOOLEAN, Replace(source) PROVE Ledger'
  BY <1>1 DEF Replace, NoCards, Ledger, DecisionsAreClean, AuditIsTheLedger, ExecutionGate
<1>2. CASE ApprovalPackEnd
  BY <1>2, PackPrepared, QuietLedger DEF ApprovalPackEnd
<1>3. CASE UNCHANGED approvalVars
  BY <1>3, QuietLedger
<1>4. CASE \/ RunAgentBegin \/ RunCycleBegin \/ CheckPolicyBegin \/ OpenWarRoomBegin
           \/ ApprovalPackBegin \/ RunAgentEnd \/ RunCycleEnd \/ CheckPolicyEnd
           \/ OpenWarRoomEnd \/ RecordOverride
           \/ (\E by \in Names, role \in Roles : Publish(by, role))
           \/ \E step \in Locked : Fails(step)
  BY <1>3, <1>4 DEF RunAgentBegin, RunCycleBegin, CheckPolicyBegin, OpenWarRoomBegin,
                    ApprovalPackBegin, RunAgentEnd, RunCycleEnd, CheckPolicyEnd,
                    OpenWarRoomEnd, RecordOverride, Publish, Fails
<1>5. CASE UNCHANGED vars
  BY <1>3, <1>5 DEF vars, sessionVars
<1>. QED
  BY <1>1, <1>2, <1>4, <1>5, DecideLedger, ExecuteLedger DEF Next, Finish, Bind, Clear

-----------------------------------------------------------------------------
(* The theorems *)

\* The inductive invariant holds of every Monday.
THEOREM MondayHolds == Spec => []Monday
<1>1. Init => Monday
  <2>. SUFFICES ASSUME Init PROVE Monday
    OBVIOUS
  <2>1. InFlight /\ Gates
    BY DEF Init, InFlight, Gates, NoManual
  <2>2. Board /\ Ledger
    BY DEF Init, NoCards, Board, CardsOfThisRecommendation, CardsNameTheSignedVersion,
           CardsOnce, Ledger, DecisionsAreClean, AuditIsTheLedger, ExecutionGate
  <2>. QED
    BY <2>1, <2>2, InitTyped DEF Monday
<1>2. Monday /\ [Next]_vars => Monday'
  BY StepTyped, StepGated, StepBoard, StepLedger DEF Monday
<1>. QED
  BY <1>1, <1>2, PTL DEF Spec

\* Executor.execute: nothing is executed but auto-safe rows and rows whose own
\* card carries a clean approval, on the ledger and in the audit log for good.
THEOREM NothingRunsUnapproved == Spec => []ExecutionGate
  BY MondayHolds, PTL DEF Monday, Ledger

\* AuditLog.record: the log and the ledger tell the same decisions, each once,
\* with the card as it was seen.
THEOREM AuditTellsTheDecisions == Spec => []AuditIsTheLedger
  BY MondayHolds, PTL DEF Monday, Ledger

\* approval_pack: the cards on the board are the current recommendation's and
\* name the version that was signed, even when a war room was opened again.
THEOREM BoardIsCurrent == Spec => []CardsOfTheSignedVersion
<1>1. Monday => CardsOfTheSignedVersion
  BY DEF Monday, Board, CardsOfTheSignedVersion
<1>. QED
  BY <1>1, MondayHolds, PTL

\* publish, check_policy and open_war_room: no override escapes the signature,
\* the check judged the result that is shown, and a war room has its breach.
THEOREM StagesStandOnTheSignature == Spec => []EveryStepStandsOnTheSignature
<1>1. Monday => EveryStepStandsOnTheSignature
  BY DEF Monday, Gates, EveryStepStandsOnTheSignature, SignatureCoversOverrides,
         CheckedIsShown, WarRoomOnBreach
<1>. QED
  BY <1>1, MondayHolds, PTL
=============================================================================
