----------------------------- MODULE CashProofs -----------------------------
(***************************************************************************)
(* Proofs about what moves and measures cash: drawing on the revolver, for *)
(* any facilities, ceilings, proposals, companies and people and any       *)
(* number of sessions; the Dodo boundary, for any payments, calendar and   *)
(* deliveries; the finance engine, for any company, Monday and horizon.    *)
(***************************************************************************)
EXTENDS Draws, Dodo, Variance, TallyProofs

-----------------------------------------------------------------------------
(* The two floors *)

\* A draw (to a balance of t) within a ceiling (m of B parts of the limit L,
\* rounded down) stays within the limit, and its utilization, rounded down,
\* within m: rounding the amount first loses nothing that rounding the ratio
\* would forgive.
LEMMA WithinTheCeiling ==
    ASSUME NEW B \in Nat \ {0}, NEW L \in Nat, NEW m \in 0..B, NEW t \in Nat \ {0},
           t <= (L * m) \div B
    PROVE  t <= L /\ L # 0 /\ (t * B) \div L <= m
<1>1. L * m \in Nat /\ t * B \in Nat
  BY Times
<1>2. (L * m) \div B \in Nat /\ ((L * m) \div B) * B <= L * m
  BY <1>1, Floor
<1>3. t * B <= L * m
  BY <1>1, <1>2, Times
<1>4. t <= L /\ L # 0
  <2>. SUFFICES ASSUME L + 1 <= t PROVE FALSE
    OBVIOUS
  <2>1. (L + 1) * B <= t * B
    BY Times
  <2>2. L * m <= L * B
    OBVIOUS
  <2>. QED
    BY <1>1, <1>3, <2>1, <2>2
<1>. DEFINE q == (t * B) \div L
<1>5. q \in Nat /\ q * L <= t * B
  BY <1>1, <1>4, Floor
<1>. HIDE DEF q
<1>6. q * L <= L * m
  BY <1>1, <1>3, <1>5
<1>7. q <= m
  <2>. SUFFICES ASSUME m + 1 <= q PROVE FALSE
    BY <1>5
  <2>1. (m + 1) * L <= q * L
    BY <1>5, Times
  <2>. QED
    BY <1>4, <1>5, <1>6, <2>1
<1>. QED
  BY <1>4, <1>7 DEF q

\* Rounded down and within a ceiling, a balance is less than one part of the
\* limit over it.
LEMMA LessThanABasisPoint ==
    ASSUME NEW B \in Nat \ {0}, NEW L \in Nat \ {0}, NEW m \in Nat, NEW t \in Nat,
           (t * B) \div L <= m
    PROVE  t * B < (m + 1) * L
<1>. DEFINE q == (t * B) \div L
<1>1. t * B \in Nat
  BY Times
<1>2. q \in Nat /\ t * B < (q + 1) * L
  BY <1>1, Floor
<1>3. q <= m
  OBVIOUS
<1>. HIDE DEF q
<1>4. (q + 1) * L <= (m + 1) * L
  BY <1>2, <1>3, Times
<1>. QED
  BY <1>1, <1>2, <1>4

\* The numbers of a facility, as the database's constraints bound them.
LEMMA FacilityNumbers ==
    ASSUME NEW f \in Facilities, NEW bps \in Ceilings
    PROVE  /\ f.limit \in Nat /\ f.drawn \in Nat
           /\ f.max_utilization_bps \in 0..BPS /\ bps \in 0..BPS
  BY DrawsAssumption, SMTT(40) DEF BPS

LEMMA BasisPoints == BPS \in Nat \ {0}
  BY DEF BPS

\* effective_utilization_ceiling: within both ceilings.
LEMMA EffectiveCeiling ==
    ASSUME NEW f \in Facilities, NEW bps \in Ceilings
    PROVE  /\ EffectiveUtilizationCeiling(f, bps) \in 0..BPS
           /\ EffectiveUtilizationCeiling(f, bps) <= bps
<1>. DEFINE c == f.max_utilization_bps
            m == EffectiveUtilizationCeiling(f, bps)
<1>1. c \in 0..BPS /\ bps \in 0..BPS
  BY FacilityNumbers
<1>2. m = Min({c, bps})
  BY DEF EffectiveUtilizationCeiling
<1>. HIDE DEF c, m
<1>3. c \in Int /\ bps \in Int
  BY <1>1, BasisPoints
<1>4. m = IF c <= bps THEN c ELSE bps
  BY <1>2, <1>3, SmallerOfTwo, Zenon
<1>5. m \in 0..BPS /\ m <= bps
  BY <1>1, <1>4, BasisPoints
<1>. QED
  BY <1>5 DEF m

\* A draw that max_safe_draw allows leaves the balance within the ceiling.
LEMMA SafeDraw ==
    ASSUME NEW f \in Facilities, NEW bps \in Ceilings, NEW n,
           n \in 1..MaxSafeDraw(f, bps)
    PROVE  /\ f.drawn + n <= f.limit /\ f.limit # 0
           /\ ((f.drawn + n) * BPS) \div f.limit <= bps
<1>. DEFINE L == f.limit
            d == f.drawn
            m == EffectiveUtilizationCeiling(f, bps)
            s == (L * m) \div BPS
<1>1. L \in Nat /\ d \in Nat /\ bps \in 0..BPS
  BY FacilityNumbers, Zenon
<1>2. m \in 0..BPS /\ m <= bps
  BY EffectiveCeiling, Zenon
<1>3. n \in 1..Max({0, s - d})
  BY Zenon DEF MaxSafeDraw
<1>. HIDE DEF L, d, m
<1>4. s \in Nat
  <2>1. m \in Nat
    BY <1>2, BasisPoints
  <2>2. L * m \in Nat
    BY <1>1, <2>1, Times
  <2>. QED
    BY <2>2, BasisPoints, Floor
<1>. HIDE DEF s
<1>5. n \in 1..(IF 0 >= s - d THEN 0 ELSE s - d)
  <2>. DEFINE z == s - d
  <2>1. 0 \in Int /\ z \in Int
    BY <1>1, <1>4
  <2>2. n \in 1..Max({0, z})
    BY <1>3
  <2>. HIDE DEF z
  <2>3. n \in 1..(IF 0 >= z THEN 0 ELSE z)
    BY <2>1, <2>2, LargerOfTwo, Zenon
  <2>. QED
    BY <2>3, Zenon DEF z
<1>6. d + n \in Nat \ {0} /\ d + n <= s
  BY <1>1, <1>4, <1>5
<1>7. d + n <= L /\ L # 0 /\ ((d + n) * BPS) \div L <= m
  BY <1>1, <1>2, <1>6, BasisPoints, WithinTheCeiling DEF s
<1>. DEFINE q == ((d + n) * BPS) \div L
<1>8. q \in Int
  BY <1>1, <1>6, <1>7, BasisPoints
<1>9. q <= bps
  <2>1. q <= m
    BY <1>7
  <2>. HIDE DEF q
  <2>. QED
    BY <1>1, <1>2, <1>8, <2>1, BasisPoints
<1>. QED
  BY <1>7, <1>9, Zenon DEF L, d, q

\* What the gate reports of its two revolver constraints.
LEMMA RevolverFailures ==
    ASSUME NEW p, NEW f, NEW bps, NEW projection
    PROVE  /\ "revolver_capacity" \in Failures(p, f, bps, projection)
                 <=> ~RevolverCapacity(p, f)
           /\ "max_revolver_utilization" \in Failures(p, f, bps, projection)
                 <=> ~RevolverUtilization(p, f, bps)
  BY DEF Failures

\* What the gate answered last, and of what.
GateAnswered ==
    \/ evaluated = <<>>
    \/ \E p \in Proposals, f \in Facilities, bps \in Ceilings, projection \in Projections :
          evaluated = <<[proposal |-> p, facility |-> f, policy_bps |-> bps,
                         failed |-> Failures(p, f, bps, projection)]>>

LEMMA GateInvariant == Spec => []GateAnswered
<1>1. Init => GateAnswered
  BY DEF Init, GateAnswered
<1>2. GateAnswered /\ [Next]_vars => GateAnswered'
  <2>. SUFFICES ASSUME GateAnswered, [Next]_vars PROVE GateAnswered'
    OBVIOUS
  <2>1. CASE Validate
    BY <2>1 DEF Validate, GateAnswered
  <2>2. CASE evaluated' = <<>>
    BY <2>2 DEF GateAnswered
  <2>3. CASE InsertApproval \/ UpdateApproval \/ ExecuteUnlogged
    BY <2>2, <2>3 DEF InsertApproval, UpdateApproval, ExecuteUnlogged, Unasked
  <2>4. ASSUME NEW w \in Workers, OpenLog(w) \/ Execute(w) \/ Commit(w) \/ Rollback(w)
        PROVE  GateAnswered'
    BY <2>2, <2>4 DEF OpenLog, Execute, Commit, Rollback, Unasked
  <2>5. CASE UNCHANGED vars
    BY <2>5 DEF vars, GateAnswered
  <2>. QED
    BY <2>1, <2>3, <2>4, <2>5 DEF Next
<1>. QED
  BY <1>1, <1>2, PTL DEF Spec

\* max_safe_draw and the gate agree: a draw the first calls safe is one the
\* second lets through, and what the second lets through is never a whole basis
\* point over the policy's ceiling, for any facility, ceiling and amount.
THEOREM SafeDrawsPass == Spec => []SafeDrawPassesTheGate
<1>1. GateAnswered => SafeDrawPassesTheGate
  <2>1. CASE evaluated = <<>>
    BY <2>1 DEF SafeDrawPassesTheGate
  <2>2. ASSUME NEW p \in Proposals, NEW f \in Facilities, NEW bps \in Ceilings,
               NEW projection \in Projections,
               evaluated = <<[proposal |-> p, facility |-> f, policy_bps |-> bps,
                              failed |-> Failures(p, f, bps, projection)]>>
        PROVE  SafeDrawPassesTheGate
    <3>. DEFINE n == Requested(p)
                failed == Failures(p, f, bps, projection)
    <3>1. n \in Nat
      BY DrawsAssumption DEF Requested
    <3>2. f.limit \in Nat /\ f.drawn \in Nat /\ bps \in Nat
      BY FacilityNumbers, BasisPoints
    <3>3. ASSUME n \in 1..MaxSafeDraw(f, bps)
          PROVE  failed \cap {"revolver_capacity", "max_revolver_utilization"} = {}
      <4>1. f.drawn + n <= f.limit /\ ((f.drawn + n) * BPS) \div f.limit <= bps
        BY <3>3, SafeDraw, Zenon
      <4>2. RevolverUtilization(p, f, bps)
        BY <4>1, Zenon DEF RevolverUtilization
      <4>. HIDE DEF n
      <4>3. f.limit - f.drawn - n >= 0
        BY <3>1, <3>2, <4>1
      <4>4. RevolverCapacity(p, f)
        BY <4>3 DEF RevolverCapacity, Undrawn, n
      <4>. QED
        BY <4>2, <4>4, RevolverFailures
    <3>4. ASSUME "max_revolver_utilization" \notin failed
          PROVE  (f.drawn + n) * BPS < (bps + 1) * f.limit \/ f.limit = 0
      <4>1. f.limit = 0 \/ ((f.drawn + n) * BPS) \div f.limit <= bps
        BY <3>4, RevolverFailures DEF RevolverUtilization
      <4>. HIDE DEF n
      <4>2. f.drawn + n \in Nat
        BY <3>1, <3>2
      <4>. QED
        BY <4>1, <4>2, <3>2, BasisPoints, LessThanABasisPoint
    <3>. HIDE DEF n, failed
    <3>5. /\ DOMAIN evaluated = {1}
          /\ evaluated[1] = [proposal |-> p, facility |-> f, policy_bps |-> bps,
                             failed |-> failed]
      BY <2>2 DEF failed
    <3>6. /\ evaluated[1].proposal = p /\ evaluated[1].facility = f
          /\ evaluated[1].policy_bps = bps /\ evaluated[1].failed = failed
      BY <3>5
    <3>. QED
      BY <3>3, <3>4, <3>5, <3>6, Zenon DEF SafeDrawPassesTheGate, n
  <2>. QED
    BY <2>1, <2>2 DEF GateAnswered
<1>. QED
  BY <1>1, GateInvariant, PTL

-----------------------------------------------------------------------------
(* The tables *)

AuditRows ==
    [event_type : {"execution", "execution_blocked"}, company : Companies,
     seq : 0..HighestSeq, amount : Amounts, approval : Nat]
Logs == [company : Companies, seq : 0..HighestSeq]

Tables ==
    /\ approvals \in Seq(ApprovalRows)
    /\ entries \in SUBSET AuditRows
    /\ flushed \in [Workers -> SUBSET AuditRows]
    /\ log \in [Workers -> Seq(Logs)]

\* The number a new AuditLog counts on from: no row its session can see has a
\* higher one.
LEMMA HighestSeen ==
    ASSUME Tables, NEW w \in Workers, NEW c \in Companies
    PROVE  /\ MaxSeq(w, c) \in 0..HighestSeq
           /\ \A e \in entries \cup flushed[w] : e.company = c => e.seq <= MaxSeq(w, c)
<1>. DEFINE S == {0} \cup {e.seq : e \in {x \in entries \cup flushed[w] : x.company = c}}
<1>1. \A e \in entries \cup flushed[w] : e.seq \in 0..HighestSeq
  BY DEF Tables, AuditRows
<1>2. HighestSeq \in Nat
  BY DrawsAssumption
<1>3. S \in SUBSET (0..HighestSeq) /\ S # {}
  BY <1>1, <1>2
<1>4. MaxSeq(w, c) = Max(S)
  BY DEF MaxSeq
<1>5. \A e \in entries \cup flushed[w] : e.company = c => e.seq \in S
  OBVIOUS
<1>. HIDE DEF S
<1>6. Max(S) \in S /\ \A y \in S : y <= Max(S)
  BY <1>2, <1>3, LargestOf
<1>. QED
  BY <1>3, <1>4, <1>5, <1>6

\* What execute does to the log, the transaction and the results.
LEMMA Appended ==
    ASSUME Tables, NEW w \in Workers, Execute(w)
    PROVE  \E entry \in AuditRows :
              /\ entry.company = log[w][1].company /\ entry.seq = log[w][1].seq + 1
              /\ \/ /\ entry.event_type = "execution_blocked"
                    /\ AppendEntry(w, entry, EmptyBag)
                 \/ /\ entry.event_type = "execution"
                    /\ entry.approval \in RequireApproval(entry.company, entry.amount)
                    /\ AppendEntry(w, entry, SetToBag({ResultOf(entry)}))
<1>1. log[w][1] \in Logs
  BY DEF Tables, Execute
<1>. DEFINE company == log[w][1].company
<1>2. PICK amount \in Amounts :
        IF RequireApproval(company, amount) = {}
        THEN AppendEntry(w, Entry(w, "execution_blocked", amount, 0), EmptyBag)
        ELSE \E i \in Smallest(RequireApproval(company, amount)) :
                AppendEntry(w, Entry(w, "execution", amount, i),
                            SetToBag({Result(company, amount, i)}))
  BY DEF Execute
<1>3. company \in Companies /\ log[w][1].seq \in 0..HighestSeq
  BY <1>1 DEF Logs
<1>4. CASE RequireApproval(company, amount) = {}
  <2>. DEFINE entry == Entry(w, "execution_blocked", amount, 0)
  <2>1. AppendEntry(w, entry, EmptyBag)
    BY <1>2, <1>4
  <2>2. log[w][1].seq < HighestSeq
    BY <2>1 DEF AppendEntry
  <2>3. /\ entry \in AuditRows /\ entry.event_type = "execution_blocked"
        /\ entry.company = log[w][1].company /\ entry.seq = log[w][1].seq + 1
    BY <1>3, <2>2, DrawsAssumption DEF Entry, AuditRows
  <2>. HIDE DEF entry
  <2>. QED
    BY <2>1, <2>3, Zenon
<1>5. CASE RequireApproval(company, amount) # {}
  <2>1. PICK i \in RequireApproval(company, amount) :
            AppendEntry(w, Entry(w, "execution", amount, i),
                        SetToBag({Result(company, amount, i)}))
    BY <1>2, <1>5 DEF Smallest
  <2>. DEFINE entry == Entry(w, "execution", amount, i)
  <2>2. log[w][1].seq < HighestSeq
    BY <2>1 DEF AppendEntry
  <2>3. i \in Nat
    <3>1. i \in DOMAIN approvals
      BY DEF RequireApproval
    <3>2. approvals \in Seq(ApprovalRows)
      BY DEF Tables
    <3>. QED
      BY <3>1, <3>2
  <2>4. /\ entry \in AuditRows /\ entry.event_type = "execution"
        /\ entry.company = log[w][1].company /\ entry.seq = log[w][1].seq + 1
        /\ entry.amount = amount /\ entry.approval = i
    BY <1>3, <2>2, <2>3, DrawsAssumption DEF Entry, AuditRows
  <2>5. ResultOf(entry) = Result(company, amount, i)
    BY <2>4 DEF ResultOf
  <2>6. AppendEntry(w, entry, SetToBag({ResultOf(entry)}))
    BY <2>1, <2>5
  <2>. HIDE DEF entry
  <2>. QED
    BY <2>1, <2>4, <2>6, Zenon
<1>. QED
  BY <1>4, <1>5

\* The tables stay well formed.
LEMMA TablesStep == Tables /\ [Next]_vars => Tables'
<1>. SUFFICES ASSUME Tables, [Next]_vars PROVE Tables'
  OBVIOUS
<1>. USE DEF ledger
<1>1. CASE Validate
  BY <1>1 DEF Validate, Tables
<1>2. CASE InsertApproval
  <2>1. PICK a \in ApprovalRows : approvals' = Append(approvals, a)
    BY <1>2 DEF InsertApproval
  <2>2. approvals' \in Seq(ApprovalRows)
    BY <2>1 DEF Tables
  <2>. QED
    BY <1>2, <2>2 DEF InsertApproval, Tables
<1>3. CASE UpdateApproval \/ ExecuteUnlogged
  <2>1. CASE UpdateApproval
    <3>1. PICK i \in DOMAIN approvals, a \in ApprovalRows :
              approvals' = [approvals EXCEPT ![i] = a]
      BY <2>1 DEF UpdateApproval
    <3>2. approvals' \in Seq(ApprovalRows)
      BY <3>1 DEF Tables
    <3>. QED
      BY <2>1, <3>2 DEF UpdateApproval, Tables
  <2>2. CASE ExecuteUnlogged
    BY <2>2 DEF ExecuteUnlogged, Tables
  <2>. QED
    BY <1>3, <2>1, <2>2
<1>4. ASSUME NEW w \in Workers, OpenLog(w) PROVE Tables'
  <2>1. PICK c \in Companies :
            log' = [log EXCEPT ![w] = <<[company |-> c, seq |-> MaxSeq(w, c)]>>]
    BY <1>4 DEF OpenLog
  <2>2. [company |-> c, seq |-> MaxSeq(w, c)] \in Logs
    BY HighestSeen DEF Logs
  <2>3. log' \in [Workers -> Seq(Logs)]
    BY <2>1, <2>2 DEF Tables
  <2>. QED
    BY <1>4, <2>3 DEF OpenLog, Tables
<1>5. ASSUME NEW w \in Workers, Execute(w) PROVE Tables'
  <2>0. PICK entry \in AuditRows : \E result : AppendEntry(w, entry, result)
    BY <1>5, Appended
  <2>1. PICK result : AppendEntry(w, entry, result)
    BY <2>0
  <2>2. flushed' \in [Workers -> SUBSET AuditRows]
    <3>1. flushed \in [Workers -> SUBSET AuditRows]
      BY DEF Tables
    <3>2. \/ flushed' = [flushed EXCEPT ![w] = {}]
          \/ flushed' = [flushed EXCEPT ![w] = flushed[w] \cup {entry}]
      BY <2>1 DEF AppendEntry, Flush
    <3>. QED
      BY <3>1, <3>2
  <2>3. log[w] \in Seq(Logs) /\ log[w] # <<>> /\ log[w][1].seq < HighestSeq
    BY <1>5, <2>1 DEF Execute, AppendEntry, Tables
  <2>4. log[w][1] \in Logs
    BY <2>3
  <2>5. [log[w][1] EXCEPT !.seq = @ + 1] \in Logs
    BY <2>3, <2>4, DrawsAssumption DEF Logs
  <2>6. [log[w] EXCEPT ![1].seq = @ + 1] \in Seq(Logs)
    BY <2>3, <2>4, <2>5
  <2>7. log' \in [Workers -> Seq(Logs)]
    BY <2>1, <2>6 DEF AppendEntry, Tables
  <2>. QED
    BY <1>5, <2>2, <2>7 DEF Execute, Tables
<1>6. ASSUME NEW w \in Workers, Commit(w) PROVE Tables'
  BY <1>6 DEF Commit, Tables
<1>7. ASSUME NEW w \in Workers, Rollback(w) PROVE Tables'
  BY <1>7 DEF Rollback, Tables
<1>8. CASE UNCHANGED vars
  BY <1>8 DEF vars, Tables
<1>. QED
  BY <1>1, <1>2, <1>3, <1>4, <1>5, <1>6, <1>7, <1>8 DEF Next

-----------------------------------------------------------------------------
(* Every draw is covered when it is made *)

LEMMA TablesInvariant == Spec => []Tables
<1>1. Init => Tables
  BY DEF Init, Tables
<1>. QED
  BY <1>1, TablesStep, PTL DEF Spec

\* What require_approval_before_draw finds covers what is asked for: the table
\* lets nobody approve what they prepared, and nothing be approved by nobody.
LEMMA FoundCovers ==
    ASSUME Tables, NEW draw, draw.approval \in RequireApproval(draw.company, draw.amount)
    PROVE  Covered(draw)
<1>. DEFINE i == draw.approval
            a == approvals[i]
<1>1. /\ i \in DOMAIN approvals /\ a.decision = "approved" /\ a.company = draw.company
      /\ a.action = "Revolver draw" /\ a.amount >= draw.amount
  BY DEF RequireApproval
<1>2. a \in ApprovalRows
  <2>1. approvals \in Seq(ApprovalRows)
    BY DEF Tables
  <2>2. \A k \in DOMAIN approvals : approvals[k] \in ApprovalRows
    BY <2>1
  <2>. QED
    BY <1>1, <2>2
<1>3. SchemaAllows(a)
  BY <1>2 DEF ApprovalRows
<1>4. a.decided_by \notin {Nobody, a.prepared_by}
  BY <1>1, <1>3 DEF SchemaAllows
<1>. QED
  BY <1>1, <1>4 DEF Covered

\* A draw with a log adds one row, of what was found; one without returns it.
LEMMA MadeCovered ==
    ASSUME Tables, Next
    PROVE  /\ \A w \in Workers : \A e \in flushed'[w] \ flushed[w] :
                e.event_type = "execution" => Covered(e)
           /\ \A i \in DOMAIN unlogged' : Covered(unlogged'[i])
<1>. USE DEF ledger
<1>1. CASE ExecuteUnlogged
  <2>1. PICK company \in Companies, amount \in Amounts :
           IF RequireApproval(company, amount) = {} THEN unlogged' = <<>>
           ELSE \E i \in Smallest(RequireApproval(company, amount)) :
                    unlogged' = <<Result(company, amount, i)>>
    BY <1>1 DEF ExecuteUnlogged
  <2>2. CASE unlogged' = <<>>
    BY <1>1, <2>2 DEF ExecuteUnlogged
  <2>3. ASSUME NEW i \in RequireApproval(company, amount),
               unlogged' = <<Result(company, amount, i)>>
        PROVE  \A k \in DOMAIN unlogged' : Covered(unlogged'[k])
    <3>. DEFINE draw == Result(company, amount, i)
    <3>1. draw.company = company /\ draw.amount = amount /\ draw.approval = i
      BY DEF Result
    <3>. HIDE DEF draw
    <3>2. Covered(draw)
      BY <3>1, FoundCovers
    <3>. QED
      BY <2>3, <3>2 DEF draw
  <2>. QED
    BY <1>1, <2>1, <2>2, <2>3 DEF ExecuteUnlogged, Smallest
<1>2. ASSUME NEW w \in Workers, Execute(w)
      PROVE  \A v \in Workers : \A e \in flushed'[v] \ flushed[v] :
                e.event_type = "execution" => Covered(e)
  <2>0. PICK entry \in AuditRows :
            /\ \E result : AppendEntry(w, entry, result)
            /\ entry.event_type = "execution" =>
                  entry.approval \in RequireApproval(entry.company, entry.amount)
    BY <1>2, Appended
  <2>1. PICK result : AppendEntry(w, entry, result)
    BY <2>0
  <2>2. entry.event_type = "execution" => Covered(entry)
    BY <2>0, FoundCovers
  <2>3. \A v \in Workers : flushed'[v] \subseteq flushed[v] \cup {entry}
    BY <2>1 DEF AppendEntry, Flush, Tables
  <2>. QED
    BY <2>2, <2>3
<1>3. ASSUME NEW w \in Workers, Commit(w) \/ Rollback(w)
      PROVE  \A v \in Workers : flushed'[v] \ flushed[v] = {}
  BY <1>3 DEF Commit, Rollback, Tables
<1>4. CASE Validate \/ InsertApproval \/ UpdateApproval \/ (\E w \in Workers : OpenLog(w))
  BY <1>4 DEF Validate, InsertApproval, UpdateApproval, OpenLog, Unasked
<1>5. ASSUME NEW w \in Workers, Execute(w) \/ Commit(w) \/ Rollback(w)
      PROVE  unlogged' = <<>>
  BY <1>5 DEF Execute, Commit, Rollback, Unasked
<1>. QED
  BY <1>1, <1>2, <1>3, <1>4, <1>5 DEF Next

\* require_approval_before_draw and the approvals table: every draw, with a log
\* or without, is covered when it is made by the approval it names: approved, of
\* its company, for a draw, of at least its amount and by another person.
THEOREM DrawsAreCovered == Spec => EveryExecutionIsCovered
<1>1. Tables /\ [Next]_vars =>
        [/\ \A w \in Workers : \A e \in flushed'[w] \ flushed[w] :
              e.event_type = "execution" => Covered(e)
         /\ \A i \in DOMAIN unlogged' : Covered(unlogged'[i])]_vars
  <2>. SUFFICES ASSUME Tables, Next
                PROVE  /\ \A w \in Workers : \A e \in flushed'[w] \ flushed[w] :
                            e.event_type = "execution" => Covered(e)
                       /\ \A i \in DOMAIN unlogged' : Covered(unlogged'[i])
    OBVIOUS
  <2>. QED
    BY MadeCovered
<1>. QED
  BY <1>1, TablesInvariant, PTL DEF Spec, EveryExecutionIsCovered

-----------------------------------------------------------------------------
(* Every committed draw has an audit row of its own *)

Executions(rows) == {e \in rows : e.event_type = "execution"}

\* The bag of results is what the execution rows say, row by row.
Mirrored(rows, bag) ==
    /\ IsFiniteSet(rows)
    /\ DOMAIN bag = {ResultOf(e) : e \in Executions(rows)}
    /\ \A r \in DOMAIN bag : bag[r] = Cardinality({e \in Executions(rows) : ResultOf(e) = r})

UidOf(e) == <<e.event_type, e.company, e.seq>>

\* A row flushed and not committed shares its uid with no committed row and with
\* none that another session has flushed.
Distinct ==
    /\ \A w \in Workers : \A e \in flushed[w], x \in entries : UidOf(e) # UidOf(x)
    /\ \A v, w \in Workers : v # w =>
          \A e \in flushed[v], x \in flushed[w] : UidOf(e) # UidOf(x)

\* A session's log has counted past every row of its company the session flushed.
CountedPast ==
    \A w \in Workers : log[w] # <<>> =>
        \A e \in flushed[w] : e.company = log[w][1].company => e.seq <= log[w][1].seq

Audited ==
    /\ Distinct /\ CountedPast
    /\ results = [w \in Workers |-> results[w]]
    /\ Mirrored(entries, done)
    /\ \A w \in Workers : Mirrored(flushed[w], results[w])

\* No rows, no results.
LEMMA NothingMirrored == Mirrored({}, EmptyBag)
<1>1. IsFiniteSet({})
  BY FS_EmptySet
<1>. QED
  BY <1>1 DEF Mirrored, Executions, EmptyBag, SetToBag

\* One row and its result; a blocked attempt has none.
LEMMA OneMirrored ==
    ASSUME NEW e
    PROVE  /\ e.event_type = "execution" => Mirrored({e}, SetToBag({ResultOf(e)}))
           /\ e.event_type # "execution" => Mirrored({e}, EmptyBag)
<1>1. IsFiniteSet({e}) /\ Cardinality({e}) = 1
  BY FS_Singleton
<1>2. ASSUME e.event_type = "execution" PROVE Mirrored({e}, SetToBag({ResultOf(e)}))
  <2>1. Executions({e}) = {e} /\ {x \in {e} : ResultOf(x) = ResultOf(e)} = {e}
    BY <1>2 DEF Executions
  <2>2. SetToBag({ResultOf(e)}) = [r \in {ResultOf(e)} |-> 1]
    BY DEF SetToBag
  <2>. QED
    BY <1>1, <2>1, <2>2 DEF Mirrored
<1>3. ASSUME e.event_type # "execution" PROVE Mirrored({e}, EmptyBag)
  <2>1. Executions({e}) = {}
    BY <1>3 DEF Executions
  <2>. QED
    BY <1>1, <2>1 DEF Mirrored, EmptyBag, SetToBag
<1>. QED
  BY <1>2, <1>3

\* Rows that have nothing in common, and their results, put together.
LEMMA MergeMirrored ==
    ASSUME NEW R1, NEW R2, NEW B1, NEW B2, Mirrored(R1, B1), Mirrored(R2, B2),
           R1 \cap R2 = {}
    PROVE  Mirrored(R1 \cup R2, B1 (+) B2)
<1>. DEFINE Rows(R, r) == {e \in Executions(R) : ResultOf(e) = r}
            Copies(B, r) == IF r \in DOMAIN B THEN B[r] ELSE 0
<1>1. IsFiniteSet(R1) /\ IsFiniteSet(R2) /\ IsFiniteSet(R1 \cup R2)
  BY FS_Union DEF Mirrored
<1>2. Executions(R1 \cup R2) = Executions(R1) \cup Executions(R2)
  BY DEF Executions
<1>3. DOMAIN (B1 (+) B2) = {ResultOf(e) : e \in Executions(R1 \cup R2)}
  <2>1. DOMAIN (B1 (+) B2) = DOMAIN B1 \cup DOMAIN B2
    BY DEF (+)
  <2>. QED
    BY <1>2, <2>1 DEF Mirrored
<1>4. ASSUME NEW r \in DOMAIN (B1 (+) B2)
      PROVE  (B1 (+) B2)[r] = Cardinality(Rows(R1 \cup R2, r))
  <2>1. (B1 (+) B2)[r] = Copies(B1, r) + Copies(B2, r)
    BY DEF (+)
  <2>2. ASSUME NEW R, NEW B, Mirrored(R, B)
        PROVE  Copies(B, r) = Cardinality(Rows(R, r)) /\ IsFiniteSet(Rows(R, r))
    <3>1. Rows(R, r) \subseteq R
      BY DEF Executions
    <3>2. IsFiniteSet(Rows(R, r))
      BY <2>2, <3>1, FS_Subset DEF Mirrored
    <3>3. r \notin DOMAIN B => Rows(R, r) = {}
      BY <2>2 DEF Mirrored
    <3>. QED
      BY <2>2, <3>2, <3>3, FS_EmptySet DEF Mirrored
  <2>3. Rows(R1 \cup R2, r) = Rows(R1, r) \cup Rows(R2, r)
    BY <1>2
  <2>4. Rows(R1, r) \cap Rows(R2, r) = {}
    BY DEF Executions
  <2>. HIDE DEF Rows, Copies
  <2>5. /\ Copies(B1, r) = Cardinality(Rows(R1, r)) /\ IsFiniteSet(Rows(R1, r))
        /\ Copies(B2, r) = Cardinality(Rows(R2, r)) /\ IsFiniteSet(Rows(R2, r))
    BY <2>2
  <2>6. Cardinality(Rows(R1, r) \cup Rows(R2, r)) =
          Cardinality(Rows(R1, r)) + Cardinality(Rows(R2, r)) - Cardinality({})
    BY <2>4, <2>5, FS_Union
  <2>7. /\ Cardinality(Rows(R1, r)) \in Nat /\ Cardinality(Rows(R2, r)) \in Nat
        /\ Cardinality({}) = 0
    BY <2>5, FS_CardinalityType, FS_EmptySet
  <2>8. Cardinality(Rows(R1, r) \cup Rows(R2, r)) =
          Cardinality(Rows(R1, r)) + Cardinality(Rows(R2, r))
    BY <2>6, <2>7
  <2>. QED
    BY <2>1, <2>3, <2>5, <2>8, Zenon
<1>. QED
  BY <1>1, <1>3, <1>4 DEF Mirrored

\* The uids a session's flush is checked against are those of the rows.
LEMMA UidsOfRows ==
    ASSUME NEW rows PROVE \A x \in rows : UidOf(x) \in Uids(rows)
  BY DEF Uids, UidOf

\* execute(): the row is new to its own transaction because the log has counted
\* past it, and to everybody else's because of the unique index.
LEMMA ExecuteAudited ==
    ASSUME Tables, Audited, NEW w \in Workers, Execute(w)
    PROVE  Audited'
<1>0. PICK entry \in AuditRows :
        /\ entry.company = log[w][1].company /\ entry.seq = log[w][1].seq + 1
        /\ \E result : AppendEntry(w, entry, result) /\ Mirrored({entry}, result)
  BY Appended, OneMirrored
<1>1. PICK result :
        /\ entry.company = log[w][1].company /\ entry.seq = log[w][1].seq + 1
        /\ AppendEntry(w, entry, result) /\ Mirrored({entry}, result)
  BY <1>0
<1>2. UNCHANGED <<entries, done>> /\ log[w] # <<>>
  BY DEF Execute
<1>3. log[w] \in Seq(Logs) /\ log[w][1] \in Logs
  BY <1>2 DEF Tables
<1>4. log[w][1].seq \in Nat /\ log[w][1].company \in Companies
  BY <1>3, DrawsAssumption DEF Logs
<1>5. Uid(w, entry.event_type) = UidOf(entry)
  BY <1>1 DEF Uid, UidOf
<1>6. flushed \in [Workers -> SUBSET AuditRows] /\ log \in [Workers -> Seq(Logs)]
  BY DEF Tables
<1>7. /\ \A v \in Workers \ {w} : log'[v] = log[v]
      /\ log'[w][1].company = log[w][1].company
      /\ log'[w][1].seq = log[w][1].seq + 1
  <2>1. log' = [log EXCEPT ![w][1].seq = @ + 1]
    BY <1>1 DEF AppendEntry
  <2>2. 1 \in DOMAIN log[w]
    BY <1>2, <1>3
  <2>3. log'[w] = [log[w] EXCEPT ![1].seq = @ + 1]
    BY <1>6, <2>1
  <2>4. log'[w][1] = [log[w][1] EXCEPT !.seq = @ + 1]
    BY <1>3, <2>2, <2>3
  <2>. QED
    BY <1>3, <1>6, <2>1, <2>4 DEF Logs
<1>8. results = [v \in Workers |-> results[v]]
  BY DEF Audited
<1>9. CASE UidOf(entry) \in Uids(entries)
  <2>1. /\ flushed' = [flushed EXCEPT ![w] = {}]
        /\ results' = [results EXCEPT ![w] = EmptyBag]
    BY <1>1, <1>5, <1>9 DEF AppendEntry, Flush
  <2>2. \A v \in Workers \ {w} : flushed'[v] = flushed[v] /\ results'[v] = results[v]
    BY <1>6, <1>8, <2>1
  <2>3. flushed'[w] = {} /\ results'[w] = EmptyBag
        /\ results' = [v \in Workers |-> results'[v]]
    BY <1>6, <1>8, <2>1
  <2>4. Distinct'
    BY <1>2, <2>2, <2>3 DEF Audited, Distinct
  <2>5. CountedPast'
    BY <1>7, <2>2, <2>3 DEF Audited, CountedPast
  <2>. QED
    BY <1>2, <2>2, <2>3, <2>4, <2>5, NothingMirrored DEF Audited
<1>10. CASE UidOf(entry) \notin Uids(entries)
  <2>1. /\ flushed' = [flushed EXCEPT ![w] = flushed[w] \cup {entry}]
        /\ results' = [results EXCEPT ![w] = results[w] (+) result]
    BY <1>1, <1>5, <1>10 DEF AppendEntry, Flush
  <2>2. \A v \in Workers \ {w} : flushed'[v] = flushed[v] /\ results'[v] = results[v]
    BY <1>6, <1>8, <2>1
  <2>3. flushed'[w] = flushed[w] \cup {entry} /\ results'[w] = results[w] (+) result
        /\ results' = [v \in Workers |-> results'[v]]
    BY <1>6, <1>8, <2>1
  <2>4. \A v \in Workers \ {w} : UidOf(entry) \notin Uids(flushed[v])
    BY <1>1, <1>5 DEF AppendEntry
  <2>5. Distinct'
    BY <1>2, <1>10, <2>2, <2>3, <2>4, UidsOfRows DEF Audited, Distinct
  <2>6. \A e \in flushed[w] : e.company = log[w][1].company =>
                                 e.seq \in Nat /\ e.seq <= log[w][1].seq
    BY <1>2, <1>6, DrawsAssumption DEF Audited, CountedPast, AuditRows
  <2>7. CountedPast'
    <3>1. \A e \in flushed'[w] : e.company = log'[w][1].company => e.seq <= log'[w][1].seq
      BY <1>1, <1>4, <1>7, <2>3, <2>6
    <3>. QED
      BY <1>7, <2>2, <3>1 DEF Audited, CountedPast
  <2>8. entry \notin flushed[w]
    BY <1>1, <1>4, <2>6
  <2>9. Mirrored(flushed'[w], results'[w])
    BY <1>1, <2>3, <2>8, MergeMirrored DEF Audited
  <2>. QED
    BY <1>2, <2>2, <2>3, <2>5, <2>7, <2>9 DEF Audited
<1>. QED
  BY <1>9, <1>10

\* Commit moves a transaction's rows and results together; a rollback drops both.
LEMMA EndAudited ==
    ASSUME Tables, Audited, NEW w \in Workers, Commit(w) \/ Rollback(w)
    PROVE  Audited'
<1>1. /\ flushed' = [flushed EXCEPT ![w] = {}]
      /\ results' = [results EXCEPT ![w] = EmptyBag]
      /\ UNCHANGED log
  BY DEF Commit, Rollback
<1>2. results = [v \in Workers |-> results[v]] /\ flushed \in [Workers -> SUBSET AuditRows]
  BY DEF Audited, Tables
<1>3. /\ \A v \in Workers \ {w} : flushed'[v] = flushed[v] /\ results'[v] = results[v]
      /\ flushed'[w] = {} /\ results'[w] = EmptyBag
      /\ results' = [v \in Workers |-> results'[v]]
  BY <1>1, <1>2
<1>4. \/ UNCHANGED <<entries, done>>
      \/ entries' = entries \cup flushed[w] /\ done' = done (+) results[w]
  BY DEF Commit, Rollback
<1>5. Distinct'
  BY <1>3, <1>4 DEF Audited, Distinct
<1>6. CountedPast'
  BY <1>1, <1>3 DEF Audited, CountedPast
<1>7. entries \cap flushed[w] = {}
  BY DEF Audited, Distinct
<1>8. Mirrored(entries', done')
  BY <1>4, <1>7, MergeMirrored DEF Audited
<1>. QED
  BY <1>3, <1>5, <1>6, <1>8, NothingMirrored DEF Audited

LEMMA AuditedStep == Tables /\ Audited /\ [Next]_vars => Audited'
<1>. SUFFICES ASSUME Tables, Audited, [Next]_vars PROVE Audited'
  OBVIOUS
<1>. USE DEF ledger
<1>1. CASE UNCHANGED ledger
  BY <1>1 DEF Audited, Distinct, CountedPast
<1>2. CASE Validate \/ InsertApproval \/ UpdateApproval \/ ExecuteUnlogged \/ UNCHANGED vars
  BY <1>1, <1>2 DEF Validate, InsertApproval, UpdateApproval, ExecuteUnlogged, vars
<1>3. ASSUME NEW w \in Workers, OpenLog(w) PROVE Audited'
  <2>1. PICK c \in Companies :
            log' = [log EXCEPT ![w] = <<[company |-> c, seq |-> MaxSeq(w, c)]>>]
    BY <1>3 DEF OpenLog
  <2>2. \A v \in Workers \ {w} : log'[v] = log[v]
    BY <2>1 DEF Tables
  <2>3. log'[w][1].company = c /\ log'[w][1].seq = MaxSeq(w, c)
    BY <2>1 DEF Tables
  <2>4. \A e \in flushed[w] : e.company = c => e.seq <= MaxSeq(w, c)
    BY HighestSeen
  <2>5. UNCHANGED <<entries, flushed, results, done>>
    BY <1>3 DEF OpenLog
  <2>6. CountedPast'
    BY <2>2, <2>3, <2>4, <2>5 DEF Audited, CountedPast
  <2>. QED
    BY <2>5, <2>6 DEF Audited, Distinct
<1>. QED
  BY <1>2, <1>3, ExecuteAudited, EndAudited DEF Next

\* AuditLog.append and DebtDrawAdapter.execute: even when two sessions count from
\* the same number, every committed draw has an execution row of its own and
\* every committed execution row a draw.
THEOREM DrawsAreAudited == Spec => []DoneIsAudited
<1>1. Init => Audited
  <2>. SUFFICES ASSUME Init PROVE Audited
    OBVIOUS
  <2>1. results = [w \in Workers |-> results[w]]
    BY DEF Init
  <2>2. Distinct /\ CountedPast
    BY DEF Init, Distinct, CountedPast
  <2>. QED
    BY <2>1, <2>2, NothingMirrored DEF Init, Audited
<1>2. Audited => DoneIsAudited
  BY DEF Audited, Mirrored, Executions, DoneIsAudited, BagToSet
<1>. QED
  BY <1>1, <1>2, TablesInvariant, AuditedStep, PTL DEF Spec

-----------------------------------------------------------------------------
(* The webhook intake *)

LEMMA CountedUp ==
    ASSUME NEW W, NEW f \in [W -> Nat], NEW k \in W, f[k] = 0
    PROVE  LET g == [f EXCEPT ![k] = @ + 1] IN
           g \in [W -> Nat] /\ \A id \in W : g[id] = IF id = k THEN 1 ELSE f[id]
  OBVIOUS

\* A rejected delivery leaves the store as it was, an accepted one is counted
\* once (receive_webhook).
LEMMA ReceivedOnce ==
    ASSUME AcceptedOnce, fresh \in [WebhookIds -> Nat], NEW d,
           d.id \in WebhookIds \cup {""}, Receive(d)
    PROVE  /\ AcceptedOnce'
           /\ fresh' \in [WebhookIds -> Nat]
<1>1. CASE VerifySignature(d) /\ d.body = "event" /\ d.id \notin seen
  <2>. DEFINE k == d.id
  <2>1. /\ seen' = seen \cup {k} /\ answer' = "received"
        /\ fresh' = [fresh EXCEPT ![k] = @ + 1]
    BY <1>1 DEF Receive
  <2>2. k \in WebhookIds /\ fresh[k] = 0
    BY <1>1 DEF VerifySignature, AcceptedOnce
  <2>. HIDE DEF k
  <2>3. fresh' \in [WebhookIds -> Nat]
    BY <2>1, <2>2, CountedUp, Zenon
  <2>4. \A id \in WebhookIds : fresh'[id] = IF id = k THEN 1 ELSE fresh[id]
    BY <2>1, <2>2, CountedUp, Zenon
  <2>5. \A id \in WebhookIds : fresh[id] = IF id \in seen THEN 1 ELSE 0
    BY DEF AcceptedOnce
  <2>6. \A id \in WebhookIds : fresh'[id] = IF id \in seen' THEN 1 ELSE 0
    BY <2>1, <2>4, <2>5
  <2>. QED
    BY <2>1, <2>3, <2>6 DEF AcceptedOnce
<1>2. CASE VerifySignature(d) /\ d.body = "event" /\ d.id \in seen
  <2>1. seen' = seen /\ fresh' = fresh
    BY <1>2 DEF Receive
  <2>. QED
    BY <1>2, <2>1 DEF AcceptedOnce
<1>3. CASE ~(VerifySignature(d) /\ d.body = "event")
  <2>1. seen' = seen /\ fresh' = fresh /\ answer' = "401"
    BY <1>3 DEF Receive
  <2>. QED
    BY <2>1 DEF AcceptedOnce
<1>. QED
  BY <1>1, <1>2, <1>3

\* What is under way carries one of the ids, or none.
Intake ==
    /\ AcceptedOnce
    /\ fresh \in [WebhookIds -> Nat]
    /\ \A d \in wire : d.id \in WebhookIds \cup {""}

\* However deliveries are repeated, delayed, wrongly signed or malformed, one
\* process takes an event for new at most once, and calls a duplicate only what
\* it has accepted (webhooks.py, receive_webhook).
THEOREM EventsAreAcceptedOnce == DodoSpec => []AcceptedOnce
<1>1. DodoInit => Intake
  BY DEF DodoInit, Intake, AcceptedOnce
<1>2. Intake /\ [DodoNext]_DodoVars => Intake'
  <2>. SUFFICES ASSUME Intake, [DodoNext]_DodoVars PROVE Intake'
    OBVIOUS
  <2>1. CASE UNCHANGED intake
    BY <2>1 DEF Intake, AcceptedOnce, intake
  <2>2. CASE Send
    <3>1. UNCHANGED <<seen, fresh, answer>>
      BY <2>2 DEF Send
    <3>2. PICK d : d.id \in WebhookIds \cup {""} /\ wire' = wire \cup {d}
      BY <2>2 DEF Send
    <3>. QED
      BY <3>1, <3>2 DEF Intake, AcceptedOnce
  <2>3. CASE Lose \/ Tick
    BY <2>3 DEF Lose, Tick, Intake, AcceptedOnce
  <2>4. CASE Deliver
    <3>1. PICK d \in wire : Receive(d)
      BY <2>4 DEF Deliver
    <3>2. wire' \subseteq wire
      BY <2>4 DEF Deliver
    <3>3. d.id \in WebhookIds \cup {""}
      BY DEF Intake
    <3>4. AcceptedOnce' /\ fresh' \in [WebhookIds -> Nat]
      BY <3>1, <3>3, ReceivedOnce DEF Intake
    <3>. QED
      BY <3>2, <3>4 DEF Intake
  <2>5. CASE NotConfigured
    BY <2>5 DEF NotConfigured, Intake, AcceptedOnce
  <2>6. CASE Restart
    BY <2>6 DEF Restart, Intake, AcceptedOnce
  <2>. QED
    BY <2>1, <2>2, <2>3, <2>4, <2>5, <2>6 DEF DodoNext, DodoVars, IntakeNext
<1>3. Intake => AcceptedOnce
  BY DEF Intake
<1>. QED
  BY <1>1, <1>2, <1>3, PTL DEF DodoSpec

-----------------------------------------------------------------------------
(* Metrics *)

\* One payment in part recoverable: no more than the profile's share of it.
LEMMA ShareOf ==
    ASSUME NEW B \in Nat \ {0}, NEW n \in Nat, NEW share \in Nat, NEW bps \in {share, 0}
    PROVE  (n * bps) \div B \in Nat /\ ((n * bps) \div B) * B <= n * share
<1>1. n * bps \in Nat /\ n * share \in Nat /\ n * bps <= n * share
  <2>1. CASE bps = share
    BY <2>1
  <2>2. CASE bps = 0
    BY <2>2
  <2>. QED
    BY <2>1, <2>2
<1>. DEFINE m == n * bps
<1>2. m \div B \in Nat /\ (m \div B) * B <= m
  <2>. HIDE DEF m
  <2>1. m \in Nat
    BY <1>1 DEF m
  <2>2. m \div B \in Int /\ m = B * (m \div B) + (m % B) /\ m % B \in 0..(B - 1)
    BY <2>1
  <2>. QED
    BY <2>1, <2>2
<1>3. (m \div B) * B \in Nat
  BY <1>2
<1>. QED
  BY <1>1, <1>2, <1>3

\* A share of successes in basis points.
LEMMA RateOf ==
    ASSUME NEW B \in Nat \ {0}, NEW s \in Nat, NEW t \in Nat \ {0}, s <= t
    PROVE  (B * s) \div t \in 0..B
<1>. DEFINE m == B * s
            q == m \div t
<1>1. m \in Nat /\ m <= B * t /\ B * t \in Nat
  OBVIOUS
<1>2. q \in Int /\ m = t * q + (m % t) /\ m % t \in 0..(t - 1)
  <2>. HIDE DEF m
  <2>. QED
    BY <1>1
<1>. HIDE DEF q
<1>3. t * q \in Int /\ t * q <= m /\ t * q > m - t
  BY <1>1, <1>2
<1>4. q >= 0
  <2>. SUFFICES ASSUME q <= -1 PROVE FALSE
    BY <1>2
  <2>1. t * q <= t * (-1)
    BY <1>2
  <2>. QED
    BY <1>1, <1>3, <2>1
<1>5. q <= B
  <2>. SUFFICES ASSUME q >= B + 1 PROVE FALSE
    BY <1>2
  <2>1. t * q >= t * (B + 1) /\ t * (B + 1) = B * t + t
    BY <1>2
  <2>. QED
    BY <1>1, <1>3, <2>1
<1>. QED
  BY <1>2, <1>4, <1>5 DEF q

\* The figures of one set of payments hold together (compute_metrics).
Sound(m) ==
    /\ m = [expected |-> m.expected, at_risk |-> m.at_risk, recoverable |-> m.recoverable,
            success_rate_bps |-> m.success_rate_bps, degraded |-> FALSE]
    /\ m.recoverable * 10000 <= m.at_risk * SoftRecoveryBps
    /\ m.success_rate_bps \in 0..10000

LEMMA MetricsAreSound ==
    ASSUME NEW payments PROVE Sound(ComputeMetrics(payments))
<1>. DEFINE successes == {p \in Payments : IsSuccess(payments[p].status)}
            failures == {p \in Payments : IsFailed(payments[p].status)}
            total == Cardinality(successes) + Cardinality(failures)
            share == Recoverable(payments)
            B == 10000
            m == ComputeMetrics(payments)
<1>1. m = [expected |-> SumOver(Amount, successes), at_risk |-> SumOver(Amount, failures),
           recoverable |-> SumOver(share, failures),
           success_rate_bps |->
              IF total = 0 THEN 0 ELSE (B * Cardinality(successes)) \div total,
           degraded |-> FALSE]
  BY DEF ComputeMetrics
<1>2. B \in Nat \ {0} /\ SoftRecoveryBps \in Nat
  BY DodoAssumption
<1>3. /\ IsFiniteSet(failures)
      /\ Cardinality(successes) \in Nat /\ Cardinality(failures) \in Nat
  <2>1. IsFiniteSet(Payments)
    BY DodoAssumption
  <2>2. IsFiniteSet(successes) /\ IsFiniteSet(failures)
    BY <2>1, FS_Subset
  <2>. QED
    BY <2>2, FS_CardinalityType
<1>4. \A p \in Payments : Amount[p] \in Nat
  BY DodoAssumption
<1>5. \A p \in Payments : share[p] = (Amount[p] * RecoveryBps(payments[p].code)) \div B
  BY DEF Recoverable
<1>. HIDE DEF share, B, m, failures, successes
<1>6. \A p \in failures : share[p] \in Nat /\ Amount[p] \in Nat
                            /\ share[p] * B <= Amount[p] * SoftRecoveryBps
  <2>. SUFFICES ASSUME NEW p \in failures
                PROVE  share[p] \in Nat /\ Amount[p] \in Nat
                            /\ share[p] * B <= Amount[p] * SoftRecoveryBps
    OBVIOUS
  <2>1. p \in Payments
    BY DEF failures
  <2>2. RecoveryBps(payments[p].code) \in {SoftRecoveryBps, 0}
    BY DEF RecoveryBps
  <2>. QED
    BY <1>2, <1>4, <1>5, <2>1, <2>2, ShareOf
<1>7. PICK g : AddsUp(g, share, failures) /\ SumOver(share, failures) = g[failures]
  BY <1>3, SumOverIs
<1>8. PICK h : AddsUp(h, Amount, failures) /\ SumOver(Amount, failures) = h[failures]
  BY <1>3, SumOverIs
<1>9. g[failures] * B <= h[failures] * SoftRecoveryBps
  BY <1>2, <1>3, <1>6, <1>7, <1>8, SumsKeepTheOrder
<1>10. m.recoverable * B <= m.at_risk * SoftRecoveryBps
  BY <1>1, <1>7, <1>8, <1>9
<1>11. m.success_rate_bps \in 0..B
  <2>1. total \in Nat /\ Cardinality(successes) <= total
    BY <1>3
  <2>2. CASE total = 0
    BY <1>1, <1>2, <2>2
  <2>3. CASE total # 0
    <3>1. m.success_rate_bps = (B * Cardinality(successes)) \div total
      BY <1>1, <2>3
    <3>. HIDE DEF total
    <3>. QED
      BY <1>2, <1>3, <2>1, <2>3, <3>1, RateOf
  <2>. QED
    BY <2>2, <2>3
<1>12. m = [expected |-> m.expected, at_risk |-> m.at_risk, recoverable |-> m.recoverable,
            success_rate_bps |-> m.success_rate_bps, degraded |-> FALSE]
  BY <1>1
<1>. QED
  BY <1>10, <1>11, <1>12 DEF Sound, B, m

\* Figures are shown as computed last, or degraded from them.
Outage ==
    /\ known = <<>> \/ \E payments : known = <<ComputeMetrics(payments)>>
    /\ \/ source = "none" /\ metrics = <<>>
       \/ source = "computed" /\ metrics = known /\ known # <<>>
       \/ source = "unavailable" /\ metrics = <<DegradeMetrics(known)>>

LEMMA DegradedSound ==
    ASSUME NEW m, Sound(m)
    PROVE  LET d == [m EXCEPT !.degraded = TRUE] IN
           /\ [d EXCEPT !.degraded = FALSE] = m
           /\ [m EXCEPT !.degraded = FALSE] = m
           /\ m.degraded = FALSE /\ d.degraded = TRUE
           /\ d.recoverable = m.recoverable /\ d.at_risk = m.at_risk
           /\ d.success_rate_bps = m.success_rate_bps
<1>. DEFINE e == m.expected
            a == m.at_risk
            r == m.recoverable
            b == m.success_rate_bps
<1>1. m = [expected |-> e, at_risk |-> a, recoverable |-> r, success_rate_bps |-> b,
           degraded |-> FALSE]
  BY DEF Sound
<1>. HIDE DEF e, a, r, b
<1>. DEFINE All(t) == [expected |-> e, at_risk |-> a, recoverable |-> r,
                       success_rate_bps |-> b, degraded |-> t]
<1>2. \A t, u \in BOOLEAN : [All(t) EXCEPT !.degraded = u] = All(u)
  OBVIOUS
<1>3. m = All(FALSE)
  BY <1>1
<1>4. [m EXCEPT !.degraded = TRUE] = All(TRUE) /\ [m EXCEPT !.degraded = FALSE] = m
  <2>. HIDE DEF All
  <2>. QED
    BY <1>2, <1>3
<1>5. [All(TRUE) EXCEPT !.degraded = FALSE] = All(FALSE)
  <2>. HIDE DEF All
  <2>. QED
    BY <1>2
<1>6. /\ All(TRUE).recoverable = All(FALSE).recoverable
      /\ All(TRUE).at_risk = All(FALSE).at_risk
      /\ All(TRUE).success_rate_bps = All(FALSE).success_rate_bps
      /\ All(FALSE).degraded = FALSE /\ All(TRUE).degraded = TRUE
  OBVIOUS
<1>. HIDE DEF All
<1>. QED
  BY <1>3, <1>4, <1>5, <1>6

\* An outage shows exactly the figures computed last and marks them as degraded,
\* after any number of failed refreshes; figures just computed are not marked; and
\* no more is called recoverable than the profile's share of what is at risk
\* (metrics.py, compute_metrics and degrade_metrics).
THEOREM OutagesKeepTheFigures == DodoSpec => []FiguresSurviveAnOutage
<1>1. DodoInit => Outage
  BY DEF DodoInit, Outage
<1>2. Outage /\ [DodoNext]_DodoVars => Outage'
  <2>. SUFFICES ASSUME Outage, [DodoNext]_DodoVars PROVE Outage'
    OBVIOUS
  <2>1. CASE UNCHANGED <<known, metrics, source>>
    BY <2>1 DEF Outage
  <2>2. CASE Unavailable
    BY <2>2 DEF Unavailable, Outage
  <2>3. CASE /\ known' = <<ComputeMetrics(got.payments[1])>>
             /\ metrics' = known' /\ source' = "computed"
    BY <2>3 DEF Outage
  <2>. QED
    BY <2>1, <2>2, <2>3 DEF DodoNext, DodoVars, intake, reads, ReadsNext, Provider, Refresh,
       ListPayments, ListBalanceLedger, ListPayouts, Fails, Raises
<1>3. Outage => FiguresSurviveAnOutage
  <2>. SUFFICES ASSUME Outage, NEW i \in DOMAIN metrics PROVE AsComputed(metrics[i])
    BY DEF FiguresSurviveAnOutage
  <2>. DEFINE m == metrics[i]
  <2>1. CASE known = <<>>
    <3>1. m = Zero /\ source = "unavailable"
      BY <2>1 DEF Outage, DegradeMetrics
    <3>2. 0 * 10000 <= 0 * SoftRecoveryBps /\ 0 \in 0..10000
      BY DodoAssumption
    <3>3. Zero.degraded = TRUE /\ (source = "unavailable") = TRUE
      BY <3>1 DEF Zero
    <3>4. m.degraded = (source = "unavailable")
      BY <3>1, <3>3, Zenon
    <3>. HIDE DEF m
    <3>5. /\ m.recoverable * 10000 <= m.at_risk * SoftRecoveryBps
          /\ m.success_rate_bps \in 0..10000
      BY <3>1, <3>2 DEF Zero
    <3>6. /\ known = <<>> => m = Zero
          /\ known # <<>> => [m EXCEPT !.degraded = FALSE] = known[1]
      BY <2>1, <3>1
    <3>7. AsComputed(m)
      BY <3>4, <3>5, <3>6 DEF AsComputed
    <3>. QED
      BY <3>7 DEF m
  <2>2. CASE known # <<>>
    <3>1. PICK payments : known = <<ComputeMetrics(payments)>>
      BY <2>2 DEF Outage
    <3>. DEFINE k == ComputeMetrics(payments)
    <3>2. Sound(k)
      BY MetricsAreSound
    <3>. HIDE DEF k
    <3>3. known[1] = k
      BY <3>1 DEF k
    <3>4. \/ source = "computed" /\ m = k
          \/ source = "unavailable" /\ m = [k EXCEPT !.degraded = TRUE]
      BY <2>2, <3>1, <3>3 DEF Outage, DegradeMetrics, k
    <3>5. /\ [m EXCEPT !.degraded = FALSE] = k
          /\ m.recoverable = k.recoverable /\ m.at_risk = k.at_risk
          /\ m.success_rate_bps = k.success_rate_bps
      BY <3>2, <3>4, DegradedSound
    <3>6. m.degraded = (source = "unavailable")
      BY <3>2, <3>4, DegradedSound
    <3>. QED
      <4>1. m.recoverable * 10000 <= m.at_risk * SoftRecoveryBps
        BY <3>2, <3>5 DEF Sound
      <4>2. m.success_rate_bps \in 0..10000
        BY <3>2, <3>5 DEF Sound
      <4>3. known # <<>> => [m EXCEPT !.degraded = FALSE] = known[1]
        BY <3>3, <3>5
      <4>. HIDE DEF m
      <4>4. AsComputed(m)
        BY <2>2, <3>6, <4>1, <4>2, <4>3 DEF AsComputed
      <4>. QED
        BY <4>4 DEF m
  <2>. QED
    BY <2>1, <2>2, Zenon
<1>. QED
  BY <1>1, <1>2, <1>3, PTL DEF DodoSpec

-----------------------------------------------------------------------------
(* The day cash is expected on *)

\* Every day is followed by an open one, however many holidays come first.
LEMMA OpensAgain ==
    ASSUME NEW day \in Nat
    PROVE  NextOpen(day) \in Nat /\ NextOpen(day) > day /\ Open(NextOpen(day))
<1>. DEFINE M == Max(Holidays \cup {day})
            After == {d \in day + 1 .. M + 7 : Open(d)}
<1>1. M \in Nat /\ day <= M /\ \A h \in Holidays : h <= M
  <2>0. IsFiniteSet(Holidays) /\ Holidays \subseteq Nat
    BY DodoAssumption
  <2>1. IsFiniteSet(Holidays \cup {day}) /\ Holidays \cup {day} \subseteq Nat
    <3>1. IsFiniteSet(Holidays \cup {day})
      BY <2>0, FS_AddElement
    <3>. QED
      BY <2>0, <3>1
  <2>2. PICK H \in Nat : Holidays \cup {day} \subseteq 0..H
    BY <2>1, Bounded
  <2>3. M \in Holidays \cup {day} /\ \A y \in Holidays \cup {day} : y <= M
    BY <2>2, LargestOf
  <2>. QED
    BY <2>1, <2>3
<1>. HIDE DEF M
<1>2. \E e \in M + 1 .. M + 7 : e % 7 < 5
  <2>1. CASE (M + 1) % 7 < 5
    BY <1>1, <2>1
  <2>2. CASE ~((M + 1) % 7 < 5)
    <3>1. (M + 3) % 7 < 5
      BY <1>1, <2>2
    <3>. QED
      BY <1>1, <3>1
  <2>. QED
    BY <2>1, <2>2
<1>3. After # {}
  <2>1. PICK e \in M + 1 .. M + 7 : e % 7 < 5
    BY <1>2
  <2>2. e \notin Holidays /\ e \in day + 1 .. M + 7
    BY <1>1
  <2>. QED
    BY <2>1, <2>2 DEF Open
<1>4. PICK d \in After : \A e \in After : d <= e
  <2>1. After \subseteq Nat
    BY <1>1
  <2>. HIDE DEF After
  <2>. QED
    BY <1>3, <2>1, LeastOf
<1>5. Open(d) /\ \A e \in day + 1 .. d - 1 : ~Open(e)
  <2>1. Open(d) /\ d \in day + 1 .. M + 7
    BY <1>4
  <2>2. ASSUME NEW e \in day + 1 .. d - 1 PROVE ~Open(e)
    <3>1. e \in day + 1 .. M + 7 /\ ~(d <= e)
      BY <1>1, <2>1
    <3>. QED
      BY <1>4, <3>1
  <2>. QED
    BY <2>1, <2>2
<1>6. NextOpen(day) \in day + 1 .. M + 7 /\ Open(NextOpen(day))
  BY <1>4, <1>5 DEF NextOpen, M
<1>. QED
  BY <1>1, <1>6

\* The lag is counted in open days: never before the payment, and on an open day
\* unless there is no lag (expected_settlement_date).
LEMMA SettlesOnAnOpenDay ==
    ASSUME NEW day \in Nat
    PROVE  /\ ExpectedSettlementDate(day) >= day
           /\ LagBusinessDays > 0 => Open(ExpectedSettlementDate(day))
<1>. DEFINE Part(g, k) == g = [n \in 0..k |-> IF n = 0 THEN day ELSE NextOpen(g[n - 1])]
            Upto == {k \in Nat : \E g : Part(g, k)}
            L == LagBusinessDays
<1>0. L \in Nat
  BY DodoAssumption
<1>1. 0 \in Upto
  <2>. DEFINE g == [n \in 0..0 |-> day]
  <2>1. Part(g, 0)
    OBVIOUS
  <2>. QED
    BY <2>1
<1>2. ASSUME NEW k \in Nat, k \in Upto PROVE k + 1 \in Upto
  <2>1. PICK g : Part(g, k)
    BY <1>2
  <2>. DEFINE h == [n \in 0..(k + 1) |-> IF n = 0 THEN day ELSE NextOpen(g[n - 1])]
  <2>2. \A n \in 0..k : h[n] = g[n]
    <3>. SUFFICES ASSUME NEW n \in 0..k PROVE h[n] = g[n]
      OBVIOUS
    <3>1. n \in 0..(k + 1)
      OBVIOUS
    <3>2. h[n] = IF n = 0 THEN day ELSE NextOpen(g[n - 1])
      BY <3>1
    <3>3. g[n] = IF n = 0 THEN day ELSE NextOpen(g[n - 1])
      BY <2>1
    <3>. QED
      BY <3>2, <3>3
  <2>3. \A n \in 0..(k + 1) : n # 0 => h[n - 1] = g[n - 1]
    <3>. HIDE DEF h
    <3>1. \A n \in 0..(k + 1) : n # 0 => n - 1 \in 0..k
      OBVIOUS
    <3>. QED
      BY <2>2, <3>1
  <2>4. Part(h, k + 1)
    BY <2>3
  <2>5. k + 1 \in Nat
    OBVIOUS
  <2>6. \E f : Part(f, k + 1)
    BY <2>4, Zenon
  <2>. HIDE DEF Part
  <2>. QED
    BY <2>5, <2>6
<1>3. Nat \subseteq Upto
  <2>. HIDE DEF Upto
  <2>. QED
    BY <1>1, <1>2, Counting
<1>. DEFINE after == CHOOSE g : Part(g, L)
<1>4. Part(after, L)
  <2>1. \E g : Part(g, L)
    BY <1>0, <1>3
  <2>. HIDE DEF Part
  <2>. QED
    BY <2>1
<1>5. ExpectedSettlementDate(day) = after[L]
  BY DEF ExpectedSettlementDate
<1>. HIDE DEF after
<1>. DEFINE Fine == {n \in Nat : n \in 0..L =>
                        /\ after[n] \in Nat /\ after[n] >= day
                        /\ n > 0 => Open(after[n])}
<1>6. 0 \in Fine
  BY <1>0, <1>4
<1>7. ASSUME NEW n \in Nat, n \in Fine PROVE n + 1 \in Fine
  <2>. SUFFICES ASSUME n + 1 \in 0..L
                PROVE  after[n + 1] \in Nat /\ after[n + 1] >= day /\ Open(after[n + 1])
    OBVIOUS
  <2>1. after[n] \in Nat /\ after[n] >= day
    BY <1>0, <1>7
  <2>2. (n + 1) - 1 = n /\ n + 1 # 0
    OBVIOUS
  <2>3. after[n + 1] = NextOpen(after[(n + 1) - 1])
    BY <1>4, <2>2
  <2>. QED
    BY <2>1, <2>2, <2>3, OpensAgain
<1>8. Nat \subseteq Fine
  <2>. HIDE DEF Fine
  <2>. QED
    BY <1>6, <1>7, Counting
<1>. QED
  BY <1>0, <1>5, <1>8

-----------------------------------------------------------------------------
(* Payment, ledger, payout, settled *)

Succeeded(payments, p) == payments[p].status = "succeeded"

\* How far the provider's books bear out the stage a payment is shown at.
Reached(p, stage) ==
    /\ stage \in DOMAIN Stages
    /\ stage # "payment" => Succeeded(books.payments, p) /\ p \in books.ledger
    /\ stage \in {"payout", "settled"} =>
          \E i \in PayoutHit(p, books.ledger, books.payouts) :
              stage = "settled" => books.payouts[i].status = "paid"

Expects(p, settlement) ==
    \A i \in DOMAIN settlement :
        settlement[i] >= Day[p] /\ (LagBusinessDays > 0 => Open(settlement[i]))

\* What a refresh under way has read: no older than what is shown, no newer than
\* the books.
Between(p, stage) ==
    /\ got.step # "idle" =>
          /\ stage # "payment" => Succeeded(got.payments[1], p)
          /\ Succeeded(got.payments[1], p) => Succeeded(books.payments, p)
    /\ got.step = "payouts" =>
          /\ stage # "payment" => p \in got.ledger
          /\ p \in got.ledger => p \in books.ledger

BooksOK ==
    /\ books = [payments |-> books.payments, ledger |-> books.ledger, payouts |-> books.payouts]
    /\ books.payments \in [Payments -> [status : {"processing", "succeeded", "Succeeded", "failed"},
                                        code : FailureCodes]]
    /\ books.payouts \in Seq([amount : Nat, status : {"pending", "paid"}])
    /\ books.ledger \subseteq Payments

\* The stages shown are borne out as long as every list read came whole.
Timing ==
    /\ BooksOK
    /\ got.step \in {"idle", "ledger", "payouts"}
    /\ dropped \in BOOLEAN
    /\ \A p \in Payments :
          /\ Expects(p, timing[p].settlement)
          /\ ~dropped => Reached(p, timing[p].stage) /\ Between(p, timing[p].stage)

\* The provider's books only grow: nothing that bears a stage out is taken back.
Grown ==
    /\ BooksOK'
    /\ \A p \in Payments : Succeeded(books.payments, p) => Succeeded(books'.payments, p)
    /\ books.ledger \subseteq books'.ledger
    /\ \A p \in books.ledger : \A i \in PayoutHit(p, books.ledger, books.payouts) :
          /\ i \in PayoutHit(p, books'.ledger, books'.payouts)
          /\ books.payouts[i].status = "paid" => books'.payouts[i].status = "paid"

LEMMA Beginnings ==
    ASSUME NEW R, NEW rows \in Seq(R), NEW i \in DOMAIN rows
    PROVE  rows[i] \in R /\ \A j \in 1 .. i - 1 : j \in DOMAIN rows
  OBVIOUS

LEMMA ProviderGrows ==
    ASSUME BooksOK, PaymentMoves \/ LedgerCredit \/ PayoutMade \/ PayoutPaid
    PROVE  Grown
<1>1. CASE PaymentMoves
  <2>1. PICK p \in Payments, status \in {"succeeded", "Succeeded", "failed"},
             code \in FailureCodes :
          /\ books.payments[p].status \in {"processing", "failed"}
          /\ books' = [books EXCEPT !.payments[p] = [status |-> status, code |-> code]]
    BY <1>1 DEF PaymentMoves
  <2>. DEFINE now == [status |-> status, code |-> code]
  <2>2. /\ books' = [payments |-> [books.payments EXCEPT ![p] = now],
                     ledger |-> books.ledger, payouts |-> books.payouts]
    BY <2>1 DEF BooksOK
  <2>3. /\ books'.payments = [books.payments EXCEPT ![p] = now]
        /\ books'.ledger = books.ledger /\ books'.payouts = books.payouts
    BY <2>2
  <2>4. now \in [status : {"processing", "succeeded", "Succeeded", "failed"}, code : FailureCodes]
    OBVIOUS
  <2>. HIDE DEF now
  <2>5. BooksOK'
    BY <2>2, <2>3, <2>4 DEF BooksOK
  <2>6. \A q \in Payments : Succeeded(books.payments, q) => Succeeded(books'.payments, q)
    BY <2>1, <2>3 DEF BooksOK, Succeeded
  <2>. QED
    BY <2>3, <2>5, <2>6 DEF Grown
<1>2. CASE LedgerCredit
  <2>1. PICK p \in Payments : books' = [books EXCEPT !.ledger = @ \cup {p}]
    BY <1>2 DEF LedgerCredit
  <2>2. books' = [payments |-> books.payments, ledger |-> books.ledger \cup {p},
                  payouts |-> books.payouts]
    BY <2>1 DEF BooksOK
  <2>3. /\ books'.payments = books.payments
        /\ books'.ledger = books.ledger \cup {p} /\ books'.payouts = books.payouts
    BY <2>2
  <2>4. BooksOK'
    BY <2>2, <2>3 DEF BooksOK
  <2>5. \A q \in books.ledger :
           PayoutHit(q, books'.ledger, books'.payouts) = PayoutHit(q, books.ledger, books.payouts)
    BY <2>3 DEF PayoutHit
  <2>. QED
    BY <2>3, <2>4, <2>5 DEF Grown
<1>3. CASE PayoutMade
  <2>1. PICK p \in books.ledger :
          books' = [books EXCEPT !.payouts =
                       Append(@, [amount |-> Amount[p], status |-> "pending"])]
    BY <1>3 DEF PayoutMade
  <2>. DEFINE new == [amount |-> Amount[p], status |-> "pending"]
              all == Append(books.payouts, new)
  <2>2. new \in [amount : Nat, status : {"pending", "paid"}]
    BY DodoAssumption DEF BooksOK
  <2>3. books' = [payments |-> books.payments, ledger |-> books.ledger, payouts |-> all]
    BY <2>1 DEF BooksOK
  <2>. HIDE DEF new
  <2>4. /\ all \in Seq([amount : Nat, status : {"pending", "paid"}])
        /\ Len(all) = Len(books.payouts) + 1 /\ DOMAIN all = 1 .. Len(all)
        /\ Len(books.payouts) \in Nat /\ DOMAIN books.payouts = 1 .. Len(books.payouts)
        /\ \A i \in 1 .. Len(books.payouts) : all[i] = books.payouts[i]
    BY <2>2 DEF BooksOK
  <2>. HIDE DEF all
  <2>5. /\ books'.payments = books.payments
        /\ books'.ledger = books.ledger /\ books'.payouts = all
    BY <2>3
  <2>6. BooksOK'
    BY <2>3, <2>4, <2>5 DEF BooksOK
  <2>7. ASSUME NEW q \in books.ledger, NEW i \in PayoutHit(q, books.ledger, books.payouts)
        PROVE  i \in PayoutHit(q, books.ledger, all) /\ all[i] = books.payouts[i]
    <3>1. /\ i \in DOMAIN books.payouts /\ books.payouts[i].amount = Amount[q]
          /\ \A j \in 1 .. i - 1 : books.payouts[j].amount # Amount[q]
      BY DEF PayoutHit
    <3>2. i \in 1 .. Len(books.payouts) /\ \A j \in 1 .. i - 1 : j \in 1 .. Len(books.payouts)
      BY <2>4, <3>1
    <3>3. i \in DOMAIN all /\ all[i].amount = Amount[q] /\ all[i] = books.payouts[i]
      BY <2>4, <3>1, <3>2
    <3>4. \A j \in 1 .. i - 1 : all[j].amount # Amount[q]
      BY <2>4, <3>1, <3>2, Zenon
    <3>. QED
      BY <3>3, <3>4 DEF PayoutHit
  <2>. QED
    BY <2>5, <2>6, <2>7 DEF Grown
<1>4. CASE PayoutPaid
  <2>1. PICK k \in DOMAIN books.payouts : books' = [books EXCEPT !.payouts[k].status = "paid"]
    BY <1>4 DEF PayoutPaid
  <2>. DEFINE one == [books.payouts[k] EXCEPT !.status = "paid"]
              all == [books.payouts EXCEPT ![k] = one]
              T == [amount : Nat, status : {"pending", "paid"}]
  <2>2. books' = [payments |-> books.payments, ledger |-> books.ledger, payouts |-> all]
    BY <2>1 DEF BooksOK
  <2>3. books.payouts[k] \in T
    <3>. HIDE DEF T
    <3>. QED
      BY Beginnings DEF BooksOK, T
  <2>4. one \in T /\ one.amount = books.payouts[k].amount /\ one.status = "paid"
    BY <2>3
  <2>. HIDE DEF one
  <2>5. /\ all \in Seq(T) /\ DOMAIN all = DOMAIN books.payouts
        /\ \A i \in DOMAIN all : all[i] = IF i = k THEN one ELSE books.payouts[i]
    <3>. HIDE DEF T
    <3>. QED
      BY <2>4 DEF BooksOK, T
  <2>. HIDE DEF all, T
  <2>6. /\ books'.payments = books.payments
        /\ books'.ledger = books.ledger /\ books'.payouts = all
    BY <2>2
  <2>7. BooksOK'
    BY <2>2, <2>5, <2>6 DEF BooksOK, T
  <2>8. \A i \in DOMAIN all :
           /\ all[i].amount = books.payouts[i].amount
           /\ books.payouts[i].status = "paid" => all[i].status = "paid"
    BY <2>4, <2>5
  <2>9. ASSUME NEW q \in books.ledger, NEW i \in PayoutHit(q, books.ledger, books.payouts)
        PROVE  /\ i \in PayoutHit(q, books.ledger, all)
               /\ books.payouts[i].status = "paid" => all[i].status = "paid"
    <3>1. /\ i \in DOMAIN books.payouts /\ books.payouts[i].amount = Amount[q]
          /\ \A j \in 1 .. i - 1 : books.payouts[j].amount # Amount[q]
      BY DEF PayoutHit
    <3>2. \A j \in 1 .. i - 1 : j \in DOMAIN books.payouts
      BY <3>1, Beginnings DEF BooksOK
    <3>. DEFINE old == books.payouts
    <3>0. DOMAIN all = DOMAIN old /\ \A j \in DOMAIN all : all[j].amount = old[j].amount
      BY <2>5, <2>8
    <3>. HIDE DEF old
    <3>3. i \in DOMAIN all /\ all[i].amount = Amount[q]
      BY <3>0, <3>1 DEF old
    <3>4. \A j \in 1 .. i - 1 : all[j].amount # Amount[q]
      <4>. SUFFICES ASSUME NEW j \in 1 .. i - 1 PROVE all[j].amount # Amount[q]
        OBVIOUS
      <4>1. j \in DOMAIN all /\ old[j].amount # Amount[q]
        BY <3>0, <3>1, <3>2 DEF old
      <4>. QED
        BY <3>0, <4>1
    <3>. QED
      BY <2>5, <2>8, <3>1, <3>3, <3>4 DEF PayoutHit
  <2>. QED
    BY <2>6, <2>7, <2>9 DEF Grown
<1>. QED
  BY <1>1, <1>2, <1>3, <1>4

LEMMA StagesListed ==
    /\ DOMAIN Stages = {"payment", "ledger", "payout", "settled"}
    /\ Stages["payment"] = 0 /\ Stages["ledger"] = 1
    /\ Stages["payout"] = 2 /\ Stages["settled"] = 3
  BY DEF Stages

\* resolve_cash_timing, case by case; a payout is found by its amount, and there
\* is one first of it.
LEMMA Resolved ==
    ASSUME NEW p \in Payments, NEW payments, NEW read, NEW payouts,
           payouts \in Seq([amount : Nat, status : {"pending", "paid"}])
    PROVE  LET t == ResolveCashTiming(p, payments, read, payouts)
               hit == PayoutHit(p, read, payouts) IN
           /\ t.stage \in DOMAIN Stages
           /\ Expects(p, t.settlement)
           /\ t.stage # "payment" => Succeeded(payments, p) /\ p \in read
           /\ Succeeded(payments, p) /\ p \in read => t.stage # "payment"
           /\ t.stage \in {"payout", "settled"} =>
                \E i \in hit : t.stage = "settled" => payouts[i].status = "paid"
           /\ Succeeded(payments, p) /\ hit # {} => t.stage \in {"payout", "settled"}
           /\ Succeeded(payments, p) /\ (\E i \in hit : payouts[i].status = "paid") =>
                t.stage = "settled"
<1>. DEFINE t == ResolveCashTiming(p, payments, read, payouts)
            hit == PayoutHit(p, read, payouts)
            stage == CASE \E i \in hit : payouts[i].status = "paid" -> "settled"
                       [] \E i \in hit : payouts[i].status # "paid" -> "payout"
                       [] hit = {} /\ p \in read -> "ledger"
                       [] OTHER -> "payment"
            date == IF hit = {} THEN <<ExpectedSettlementDate(Day[p])>> ELSE <<>>
<1>1. p \notin read => hit = {}
  BY DEF PayoutHit
<1>2. \A i, j \in hit : i = j
  <2>. SUFFICES ASSUME NEW i \in hit, NEW j \in hit PROVE i = j
    OBVIOUS
  <2>1. /\ i \in DOMAIN payouts /\ payouts[i].amount = Amount[p]
        /\ \A k \in 1 .. i - 1 : payouts[k].amount # Amount[p]
    BY <1>1 DEF PayoutHit
  <2>2. /\ j \in DOMAIN payouts /\ payouts[j].amount = Amount[p]
        /\ \A k \in 1 .. j - 1 : payouts[k].amount # Amount[p]
    BY <1>1 DEF PayoutHit
  <2>3. i \in Nat \ {0} /\ j \in Nat \ {0}
    BY <2>1, <2>2
  <2>4. ~(i < j)
    <3>. SUFFICES ASSUME i < j PROVE FALSE
      OBVIOUS
    <3>1. i \in 1 .. j - 1
      BY <2>3
    <3>. QED
      BY <2>1, <2>2, <3>1
  <2>5. ~(j < i)
    <3>. SUFFICES ASSUME j < i PROVE FALSE
      OBVIOUS
    <3>1. j \in 1 .. i - 1
      BY <2>3
    <3>. QED
      BY <2>1, <2>2, <3>1
  <2>. QED
    BY <2>3, <2>4, <2>5
<1>3. Expects(p, date)
  <2>1. Day[p] \in Nat
    BY DodoAssumption
  <2>. DEFINE day == ExpectedSettlementDate(Day[p])
  <2>2. day >= Day[p] /\ (LagBusinessDays > 0 => Open(day))
    BY <2>1, SettlesOnAnOpenDay
  <2>. HIDE DEF day, hit
  <2>3. CASE hit = {}
    <3>1. DOMAIN <<day>> = {1} /\ <<day>>[1] = day
      OBVIOUS
    <3>2. date = <<day>>
      BY <2>3 DEF day
    <3>. HIDE DEF date
    <3>. QED
      BY <2>2, <3>1, <3>2 DEF Expects
  <2>4. CASE hit # {}
    BY <2>4 DEF Expects
  <2>. QED
    BY <2>3, <2>4
<1>4. Expects(p, <<>>)
  BY DEF Expects
<1>5. t = IF ~Succeeded(payments, p) THEN [stage |-> "payment", settlement |-> <<>>]
          ELSE [stage |-> stage, settlement |-> date]
  BY DEF ResolveCashTiming, Succeeded
<1>. HIDE DEF t, hit, date
<1>. DEFINE Told ==
       /\ stage \in DOMAIN Stages
       /\ stage # "payment" => p \in read
       /\ p \in read => stage # "payment"
       /\ stage \in {"payout", "settled"} =>
            \E i \in hit : stage = "settled" => payouts[i].status = "paid"
       /\ hit # {} => stage \in {"payout", "settled"}
       /\ (\E i \in hit : payouts[i].status = "paid") => stage = "settled"
<1>6. Told
  <2>1. CASE hit = {} /\ p \in read
    <3>1. stage = "ledger"
      BY <2>1
    <3>. HIDE DEF stage
    <3>. QED
      BY <2>1, <3>1, StagesListed
  <2>2. CASE p \notin read
    <3>1. stage = "payment" /\ hit = {}
      BY <1>1, <2>2
    <3>. HIDE DEF stage
    <3>. QED
      BY <2>2, <3>1, StagesListed
  <2>3. ASSUME NEW i \in hit PROVE Told
    <3>0. p \in read
      BY <1>1
    <3>1. CASE payouts[i].status = "paid"
      <4>1. stage = "settled"
        BY <1>2, <3>1
      <4>. HIDE DEF stage
      <4>. QED
        BY <3>0, <3>1, <4>1, StagesListed
    <3>2. CASE payouts[i].status # "paid"
      <4>1. stage = "payout" /\ ~\E j \in hit : payouts[j].status = "paid"
        BY <1>2, <3>2
      <4>. HIDE DEF stage
      <4>. QED
        BY <3>0, <3>2, <4>1, StagesListed
    <3>. QED
      BY <3>1, <3>2
  <2>. QED
    BY <2>1, <2>2, <2>3
<1>. HIDE DEF stage
<1>7. CASE ~Succeeded(payments, p)
  <2>1. t.stage = "payment" /\ t.settlement = <<>>
    BY <1>5, <1>7
  <2>2. "payment" \in DOMAIN Stages
    BY StagesListed
  <2>. QED
    BY <1>4, <1>7, <2>1, <2>2 DEF t
<1>8. CASE Succeeded(payments, p)
  <2>1. t.stage = stage /\ t.settlement = date
    BY <1>5, <1>8
  <2>. QED
    BY <1>3, <1>6, <1>8, <2>1 DEF t, hit
<1>. QED
  BY <1>7, <1>8

\* The date of any resolution is an open day, or the payout's own.
LEMMA AlwaysExpects ==
    ASSUME NEW p \in Payments, NEW payments, NEW read, NEW payouts
    PROVE  Expects(p, ResolveCashTiming(p, payments, read, payouts).settlement)
<1>. DEFINE day == ExpectedSettlementDate(Day[p])
            t == ResolveCashTiming(p, payments, read, payouts)
<1>1. day >= Day[p] /\ (LagBusinessDays > 0 => Open(day))
  <2>1. Day[p] \in Nat
    BY DodoAssumption
  <2>. QED
    BY <2>1, SettlesOnAnOpenDay
<1>2. t.settlement = <<>> \/ t.settlement = <<day>>
  BY DEF ResolveCashTiming
<1>. HIDE DEF day, t
<1>3. DOMAIN <<day>> = {1} /\ <<day>>[1] = day
  OBVIOUS
<1>4. Expects(p, <<day>>)
  BY <1>1, <1>3 DEF Expects
<1>5. Expects(p, <<>>)
  BY DEF Expects
<1>. QED
  BY <1>2, <1>4, <1>5 DEF t

LEMMA TimingGrows ==
    ASSUME Timing, Grown, UNCHANGED <<got, timing, dropped>>
    PROVE  Timing'
<1>0. CASE dropped
  BY <1>0 DEF Timing, Grown, Expects
<1>1. ASSUME ~dropped, NEW p \in Payments PROVE Reached(p, timing[p].stage)'
  <2>. DEFINE stage == timing[p].stage
  <2>1. Reached(p, stage) /\ stage' = stage
    BY <1>1 DEF Timing
  <2>. HIDE DEF stage
  <2>2. stage # "payment" => Succeeded(books'.payments, p) /\ p \in books'.ledger
    BY <2>1 DEF Reached, Grown
  <2>3. ASSUME stage \in {"payout", "settled"}
        PROVE  \E i \in PayoutHit(p, books'.ledger, books'.payouts) :
                  stage = "settled" => books'.payouts[i].status = "paid"
    <3>1. PICK i \in PayoutHit(p, books.ledger, books.payouts) :
              stage = "settled" => books.payouts[i].status = "paid"
      BY <2>1, <2>3 DEF Reached
    <3>2. p \in books.ledger
      BY <2>1, <2>3 DEF Reached
    <3>. QED
      BY <3>1, <3>2 DEF Grown
  <2>4. stage \in DOMAIN Stages
    BY <2>1 DEF Reached
  <2>. QED
    BY <2>1, <2>2, <2>3, <2>4 DEF Reached, stage
<1>2. ASSUME ~dropped, NEW p \in Payments PROVE Between(p, timing[p].stage)'
  <2>. DEFINE stage == timing[p].stage
  <2>1. Between(p, stage) /\ stage' = stage
    BY <1>2 DEF Timing
  <2>. HIDE DEF stage
  <2>2. /\ Succeeded(books.payments, p) => Succeeded(books'.payments, p)
        /\ p \in books.ledger => p \in books'.ledger
    BY DEF Grown
  <2>. QED
    BY <2>1, <2>2 DEF Between, stage
<1>. QED
  BY <1>0, <1>1, <1>2 DEF Timing, Grown, Expects

Advances ==
    \A p \in Payments :
        /\ dropped' \/ Stages[timing'[p].stage] >= Stages[timing[p].stage]
        /\ Expects(p, timing'[p].settlement)

LEMMA StandsStill ==
    ASSUME Timing, UNCHANGED timing, dropped => dropped'
    PROVE  Advances
<1>1. ~dropped => \A p \in Payments : timing[p].stage \in DOMAIN Stages
  BY DEF Timing, Reached
<1>2. \A st \in DOMAIN Stages : Stages[st] >= Stages[st]
  BY StagesListed
<1>. QED
  BY <1>1, <1>2 DEF Timing, Advances

\* What was read of one payment, and how its timing follows.
Resolution(p, payouts) ==
    IF got.payments[1][p] = Absent THEN timing[p]
    ELSE ResolveCashTiming(p, got.payments[1], got.ledger, payouts)

\* The three lists of a refresh are read one after the other; what is shown in the
\* end is no less than what was shown before it began.
LEMMA ReadInTurn ==
    ASSUME Timing, got.step = "payouts", ~dropped, NEW p \in Payments
    PROVE  LET t == Resolution(p, books.payouts) IN
           /\ Reached(p, t.stage)
           /\ Stages[t.stage] >= Stages[timing[p].stage]
<1>. DEFINE old == timing[p].stage
<1>1. Reached(p, old) /\ Between(p, old)
  BY DEF Timing
<1>2. old \in DOMAIN Stages
  BY <1>1 DEF Reached
<1>3. CASE got.payments[1][p] = Absent
  <2>1. Resolution(p, books.payouts) = timing[p]
    BY <1>3 DEF Resolution
  <2>. HIDE DEF old
  <2>2. Stages[old] >= Stages[old]
    BY <1>2, StagesListed
  <2>. QED
    BY <1>1, <2>1, <2>2 DEF old
<1>4. CASE got.payments[1][p] # Absent
  <2>. DEFINE T == ResolveCashTiming(p, got.payments[1], got.ledger, books.payouts)
              new == T.stage
              hit == PayoutHit(p, got.ledger, books.payouts)
  <2>0. books.payouts \in Seq([amount : Nat, status : {"pending", "paid"}])
    BY DEF Timing, BooksOK
  <2>1. /\ new \in DOMAIN Stages
        /\ new # "payment" => Succeeded(got.payments[1], p) /\ p \in got.ledger
        /\ Succeeded(got.payments[1], p) /\ p \in got.ledger => new # "payment"
        /\ new \in {"payout", "settled"} =>
             \E i \in hit : new = "settled" => books.payouts[i].status = "paid"
        /\ Succeeded(got.payments[1], p) /\ hit # {} => new \in {"payout", "settled"}
        /\ Succeeded(got.payments[1], p) /\ (\E i \in hit : books.payouts[i].status = "paid")
             => new = "settled"
    BY <2>0, Resolved
  <2>2. p \in got.ledger =>
           hit = PayoutHit(p, books.ledger, books.payouts) \/ p \notin books.ledger
    BY DEF PayoutHit
  <2>3. Resolution(p, books.payouts) = T
    BY <1>4 DEF Resolution
  <2>. HIDE DEF T, hit
  <2>4. /\ Succeeded(got.payments[1], p) => Succeeded(books.payments, p)
        /\ p \in got.ledger => p \in books.ledger
    BY <1>1 DEF Between
  <2>5. Reached(p, new)
    BY <2>1, <2>2, <2>4 DEF Reached
  <2>6. old # "payment" => /\ Succeeded(got.payments[1], p) /\ p \in got.ledger
                           /\ p \in books.ledger
    BY <1>1, <2>4 DEF Between
  <2>7. old # "payment" => new # "payment"
    BY <2>1, <2>6
  <2>8. old \in {"payout", "settled"} =>
           \E i \in hit : old = "settled" => books.payouts[i].status = "paid"
    BY <1>1, <2>2, <2>6 DEF Reached
  <2>9. old \in {"payout", "settled"} => new \in {"payout", "settled"}
    BY <2>1, <2>6, <2>8
  <2>10. old = "settled" => new = "settled"
    BY <2>1, <2>6, <2>8
  <2>. HIDE DEF old, new
  <2>11. Stages[new] >= Stages[old]
    BY <1>2, <2>1, <2>7, <2>9, <2>10, StagesListed
  <2>. QED
    BY <2>3, <2>5, <2>11 DEF old, new
<1>. QED
  BY <1>3, <1>4

\* The end of a refresh, whatever was left out of the lists.
LEMMA ReadToTheEnd ==
    ASSUME Timing, got.step = "payouts", UNCHANGED books, got' = NotReading,
           dropped' \in BOOLEAN, dropped => dropped',
           NEW payouts, ~dropped' => payouts = books.payouts,
           timing' = [p \in Payments |-> Resolution(p, payouts)]
    PROVE  Timing' /\ Advances
<1>1. \A p \in Payments : timing'[p] = Resolution(p, payouts)
  OBVIOUS
<1>2. got'.step = "idle"
  BY DEF NotReading
<1>3. ASSUME NEW p \in Payments PROVE Expects(p, timing'[p].settlement)
  BY <1>1, AlwaysExpects DEF Timing, Resolution
<1>4. ASSUME ~dropped', NEW p \in Payments
      PROVE  /\ Reached(p, timing[p].stage)' /\ Between(p, timing[p].stage)'
             /\ Stages[timing'[p].stage] >= Stages[timing[p].stage]
  <2>1. /\ Reached(p, timing'[p].stage)
        /\ Stages[timing'[p].stage] >= Stages[timing[p].stage]
    BY <1>1, <1>4, ReadInTurn
  <2>. QED
    BY <1>2, <2>1 DEF Reached, Between
<1>5. Advances
  BY <1>3, <1>4 DEF Advances
<1>6. Timing'
  BY <1>2, <1>3, <1>4 DEF Timing, BooksOK, Expects
<1>. QED
  BY <1>5, <1>6

LEMMA TimingStep == Timing /\ [DodoNext]_DodoVars => Timing' /\ Advances
<1>. SUFFICES ASSUME Timing, [DodoNext]_DodoVars PROVE Timing' /\ Advances
  OBVIOUS
<1>1. CASE UNCHANGED reads
  <2>1. Timing'
    BY <1>1 DEF reads, Timing, BooksOK, Reached, Expects, Between
  <2>. QED
    BY <1>1, <2>1, StandsStill DEF reads
<1>2. CASE Provider
  <2>1. Grown
    BY <1>2, ProviderGrows DEF Provider, Timing
  <2>2. UNCHANGED <<got, timing, dropped>>
    BY <1>2 DEF Provider
  <2>. QED
    BY <2>1, <2>2, TimingGrows, StandsStill
<1>3. CASE UNCHANGED <<books, timing, dropped>> /\ got' = NotReading
  <2>1. got'.step = "idle"
    BY <1>3 DEF NotReading
  <2>2. Timing'
    BY <1>3, <2>1 DEF Timing, BooksOK, Reached, Expects, Between
  <2>. QED
    BY <1>3, <2>2, StandsStill
<1>4. ASSUME UNCHANGED <<books, timing>>, NEW response \in Get, Listed(response),
             NEW lost \in LeftOut(response, Payments),
             got' = [step |-> "ledger", ledger |-> {},
                     payments |-> <<[p \in Payments |->
                         IF p \in lost THEN Absent ELSE books.payments[p]]>>]
      PROVE  Timing' /\ Advances
  <2>1. dropped' \in BOOLEAN /\ (dropped => dropped') /\ (~dropped' => lost = {})
    BY <1>4 DEF Listed, LeftOut, OutcomeOf, Timing
  <2>2. /\ got'.step = "ledger"
        /\ \A p \in Payments : p \notin lost => got'.payments[1][p] = books.payments[p]
    BY <1>4
  <2>3. ASSUME ~dropped', NEW p \in Payments
        PROVE  Reached(p, timing[p].stage)' /\ Between(p, timing[p].stage)'
    <3>1. Reached(p, timing[p].stage)
      BY <2>1, <2>3 DEF Timing
    <3>2. got'.payments[1][p] = books.payments[p]
      BY <2>1, <2>2, <2>3
    <3>. QED
      BY <1>4, <2>2, <3>1, <3>2 DEF Between, Reached, Succeeded
  <2>4. Timing'
    BY <1>4, <2>1, <2>2, <2>3 DEF Timing, BooksOK, Expects
  <2>. QED
    BY <1>4, <2>1, <2>4, StandsStill
<1>5. ASSUME UNCHANGED <<books, timing>>, got.step = "ledger",
             NEW response \in Get, Listed(response),
             NEW lost \in LeftOut(response, books.ledger),
             got' = [got EXCEPT !.step = "payouts", !.ledger = books.ledger \ lost]
      PROVE  Timing' /\ Advances
  <2>1. dropped' \in BOOLEAN /\ (dropped => dropped') /\ (~dropped' => lost = {})
    BY <1>5 DEF Listed, LeftOut, OutcomeOf, Timing
  <2>2. /\ got'.step = "payouts" /\ got'.payments = got.payments
        /\ got'.ledger = books.ledger \ lost
    BY <1>5 DEF Timing
  <2>3. ASSUME ~dropped', NEW p \in Payments
        PROVE  Reached(p, timing[p].stage)' /\ Between(p, timing[p].stage)'
    <3>1. Reached(p, timing[p].stage) /\ Between(p, timing[p].stage)
      BY <2>1, <2>3 DEF Timing
    <3>2. got'.ledger = books.ledger
      BY <2>1, <2>2, <2>3
    <3>. QED
      BY <1>5, <2>2, <3>1, <3>2 DEF Between, Reached, Succeeded
  <2>4. Timing'
    BY <1>5, <2>1, <2>2, <2>3 DEF Timing, BooksOK, Expects
  <2>. QED
    BY <1>5, <2>1, <2>4, StandsStill
<1>6. ASSUME got.step = "payouts", UNCHANGED books, got' = NotReading,
             NEW response \in Get, Listed(response),
             NEW payouts \in IF response = "items" THEN {books.payouts}
                             ELSE AllSubSeqs(books.payouts),
             timing' = [p \in Payments |-> Resolution(p, payouts)]
      PROVE  Timing' /\ Advances
  <2>1. /\ dropped' \in BOOLEAN /\ (dropped => dropped')
        /\ ~dropped' => payouts = books.payouts
    BY <1>6 DEF Listed, OutcomeOf, Timing
  <2>. QED
    BY <1>6, <2>1, ReadToTheEnd
<1>7. ASSUME NEW response \in Get, ListPayments(response), UNCHANGED books
      PROVE  Timing' /\ Advances
  BY <1>3, <1>4, <1>7 DEF ListPayments, Fails, Unavailable, Raises
<1>8. ASSUME NEW response \in Get, ListBalanceLedger(response), UNCHANGED books
      PROVE  Timing' /\ Advances
  BY <1>3, <1>5, <1>8 DEF ListBalanceLedger, Fails, Unavailable, Raises
<1>9. ASSUME NEW response \in Get, ListPayouts(response), UNCHANGED books
      PROVE  Timing' /\ Advances
  BY <1>3, <1>6, <1>9 DEF ListPayouts, Fails, Unavailable, Raises, Resolution
<1>. QED
  BY <1>1, <1>2, <1>7, <1>8, <1>9 DEF DodoNext, DodoVars, reads, ReadsNext, Refresh

\* However the provider's books move between the three reads of a refresh, a
\* payment never falls back from a stage it was shown to have reached, as long as
\* every list came whole; its cash is always expected on an open day not before
\* the payment (normalize.py,
\* resolve_cash_timing and expected_settlement_date).
THEOREM PaymentsNeverFallBack == DodoSpec => StagesOnlyAdvance
<1>1. DodoInit => Timing
  <2>. SUFFICES ASSUME DodoInit PROVE Timing
    OBVIOUS
  <2>1. /\ books.payments = [p \in Payments |-> [status |-> "processing", code |-> "none"]]
        /\ books.ledger = {} /\ books.payouts = <<>>
    BY DEF DodoInit
  <2>2. BooksOK
    BY <2>1 DEF DodoInit, BooksOK, FailureCodes
  <2>3. got.step = "idle"
    BY DEF DodoInit, NotReading
  <2>4. \A p \in Payments : timing[p].stage = "payment" /\ timing[p].settlement = <<>>
    BY DEF DodoInit
  <2>5. dropped = FALSE
    BY DEF DodoInit
  <2>6. \A p \in Payments : Expects(p, timing[p].settlement)
    BY <2>4 DEF Expects
  <2>7. \A p \in Payments : Reached(p, timing[p].stage) /\ Between(p, timing[p].stage)
    BY <2>3, <2>4, StagesListed DEF Reached, Between
  <2>. QED
    BY <2>2, <2>3, <2>5, <2>6, <2>7 DEF Timing
<1>2. Timing /\ [DodoNext]_DodoVars => Timing'
  BY TimingStep
<1>3. Timing /\ [DodoNext]_DodoVars =>
        [\A p \in Payments :
           /\ dropped' \/ Stages[timing'[p].stage] >= Stages[timing[p].stage]
           /\ \A i \in DOMAIN timing'[p].settlement :
                LET day == timing'[p].settlement[i] IN
                day >= Day[p] /\ (LagBusinessDays > 0 => Open(day))]_DodoVars
  BY TimingStep DEF Advances, Expects
<1>. QED
  BY <1>1, <1>2, <1>3, PTL DEF DodoSpec, StagesOnlyAdvance

-----------------------------------------------------------------------------
(* Splitting an amount *)

\* A division leaves less than the divisor over.
LEMMA Division ==
    ASSUME NEW a \in Nat, NEW d \in Nat \ {0}
    PROVE  /\ a \div d \in Nat /\ a % d \in Nat /\ a % d < d
           /\ a = d * (a \div d) + (a % d)
<1>1. a \div d \in Int /\ a = d * (a \div d) + (a % d) /\ a % d \in 0..(d - 1)
  OBVIOUS
<1>2. a \div d \in Nat
  BY Floor
<1>3. \A r \in 0..(d - 1) : r \in Nat /\ r < d
  OBVIOUS
<1>4. a % d \in Nat /\ a % d < d
  BY <1>1, <1>3
<1>. QED
  BY <1>1, <1>2, <1>4, Zenon

\* What one amount times a number exceeds, the other does not fall short of.
LEMMA Cancel ==
    ASSUME NEW a \in Nat, NEW b \in Nat, NEW c \in Nat \ {0}, a * c <= b * c
    PROVE  a <= b
<1>. SUFFICES ASSUME b + 1 <= a PROVE FALSE
  OBVIOUS
<1>1. (b + 1) * c <= a * c
  BY Times
<1>2. (b + 1) * c = b * c + c /\ b * c \in Nat
  OBVIOUS
<1>. QED
  BY <1>1, <1>2

\* The magnitude of an amount, with its sign, is the amount.
LEMMA SignedMagnitude ==
    ASSUME NEW a \in Int
    PROVE  /\ Magnitude(a) \in Nat /\ Signed(a < 0, Magnitude(a)) = a
           /\ a >= 0 => Magnitude(a) = a
  BY DEF Magnitude, Signed

\* The members of 1..n.
LEMMA UpToN ==
    ASSUME NEW n \in Nat
    PROVE  IsFiniteSet(1..n) /\ Cardinality(1..n) = n
<1>1. 1 \in Int /\ n \in Int
  OBVIOUS
<1>2. IsFiniteSet(1..n) /\ Cardinality(1..n) = IF 1 > n THEN 0 ELSE n - 1 + 1
  BY <1>1, FS_Interval
<1>. QED
  BY <1>2

\* What Money.allocate computes of a magnitude A on its way.
Floored(A, S, ratios, total, product, floors, remainder) ==
    /\ \A i \in S : ratios[i] \in Nat /\ product[i] = A * ratios[i]
    /\ total = SumOver(ratios, S)
    /\ \A i \in S : floors[i] = product[i] \div total /\ remainder[i] = product[i] % total
    /\ DOMAIN remainder = S
ToppedUp(left, S, floors, remainder, topped, parts) ==
    /\ topped = {LargestFirst(remainder)[k] : k \in 1..left}
    /\ \A i \in S : parts[i] = floors[i] + (IF i \in topped THEN 1 ELSE 0)

Shared(A, S, total, product, parts) ==
    /\ \A i \in S : /\ parts[i] \in Nat
                    /\ parts[i] * total - product[i] < total
                    /\ product[i] - parts[i] * total < total
    /\ SumOver(parts, S) = A

\* A figure that is one at every place, counts them.
LEMMA Counted ==
    ASSUME NEW K, IsFiniteSet(K), NEW row, NEW T, NEW unit,
           \A k \in K : row[k] \in T /\ unit[row[k]] = 1,
           \A k, l \in K : row[k] = row[l] => k = l,
           \A t \in T : \E k \in K : row[k] = t
    PROVE  SumOver(unit, T) = Cardinality(K)
<1>. DEFINE one == [k \in K |-> 1]
<1>1. \A k \in K : one[k] = 1
  OBVIOUS
<1>. HIDE DEF one
<1>2. \A k \in K : one[k] \in Int /\ unit[row[k]] = one[k] /\ row[k] \in T
  BY <1>1
<1>3. SumOver(unit, T) = SumOver(one, K)
  BY <1>2, SumMovedOnto
<1>. QED
  BY <1>1, <1>3, SumOfOnes

\* The units a round of floors leaves over go one each to the largest remainders; they
\* are all handed out, and none to a part whose floor is its exact share.
LEMMA LargestRemainders ==
    ASSUME NEW n \in Nat, NEW total \in Nat \ {0}, NEW left \in Nat, NEW floors, NEW remainder,
           DOMAIN remainder = 1..n,
           \A i \in 1..n : floors[i] \in Nat /\ remainder[i] \in Nat /\ remainder[i] < total,
           left * total = SumOver(remainder, 1..n),
           NEW topped, NEW parts, ToppedUp(left, 1..n, floors, remainder, topped, parts)
    PROVE  /\ SumOver(parts, 1..n) = SumOver(floors, 1..n) + left
           /\ \A i \in topped : remainder[i] > 0
<1>. DEFINE S == 1..n
            order == LargestFirst(remainder)
            unit == [i \in S |-> IF i \in topped THEN 1 ELSE 0]
            some == [i \in S |-> IF remainder[i] > 0 THEN 1 ELSE 0]
            Some == {i \in S : remainder[i] > 0}
<1>1. IsFiniteSet(S) /\ Cardinality(S) = n
  BY UpToN
<1>2. \A i \in S : /\ floors[i] \in Nat /\ remainder[i] \in Nat /\ remainder[i] < total
                   /\ unit[i] \in Int /\ parts[i] = floors[i] + unit[i]
                   /\ unit[i] = IF i \in topped THEN 1 ELSE 0
                   /\ some[i] = IF remainder[i] > 0 THEN 1 ELSE 0
  BY DEF ToppedUp
<1>3. \A k \in Nat : k >= 1 /\ k <= n <=> k \in S
  OBVIOUS
<1>4. /\ \A k \in S : order[k] \in S
      /\ \A k, l \in S : order[k] = order[l] => k = l
      /\ \A k \in S : Cardinality({i \in S : remainder[i] > remainder[order[k]]}) <= k - 1
  <2>1. \A i \in 1..n : remainder[i] \in Int
    OBVIOUS
  <2>. QED
    BY <2>1, LargestFirstIs, Zenon
<1>. HIDE DEF S, unit, some, order
<1>5. Cardinality(Some) \in Nat /\ Cardinality(Some) <= n /\ IsFiniteSet(Some)
  <2>1. Some \subseteq S
    OBVIOUS
  <2>. HIDE DEF Some
  <2>2. IsFiniteSet(Some) /\ Cardinality(Some) <= Cardinality(S)
    BY <1>1, <2>1, FS_Subset
  <2>. QED
    BY <1>1, <2>2, FS_CardinalityType
<1>6. SumOver(some, S) = Cardinality(Some)
  <2>1. IsFiniteSet(S \ Some) /\ Some \cup (S \ Some) = S /\ Some \cap (S \ Some) = {}
    BY <1>1, FS_Subset
  <2>2. /\ \A i \in Some : some[i] = 1
        /\ \A i \in S \ Some : some[i] = 0
        /\ \A i \in Some \cup (S \ Some) : some[i] \in Int
    BY <1>2
  <2>. HIDE DEF Some
  <2>3. SumOver(some, Some \cup (S \ Some)) = SumOver(some, Some) + SumOver(some, S \ Some)
    BY <1>5, <2>1, <2>2, SumApart
  <2>4. SumOver(some, Some) = Cardinality(Some) /\ SumOver(some, S \ Some) = 0
    BY <1>5, <2>1, <2>2, SumOfOnes, SumOfZeros
  <2>5. SumOver(some, Some \cup (S \ Some)) = Cardinality(Some)
    BY <1>5, <2>3, <2>4
  <2>. QED
    BY <2>1, <2>5
<1>7. left <= Cardinality(Some)
  <2>1. \A i \in S : /\ remainder[i] \in Nat /\ some[i] \in Nat
                     /\ remainder[i] * 1 <= some[i] * total
    <3>. SUFFICES ASSUME NEW i \in S
                  PROVE  some[i] \in Nat /\ remainder[i] * 1 <= some[i] * total
      BY <1>2
    <3>1. remainder[i] \in Nat /\ remainder[i] < total /\ some[i] = IF remainder[i] > 0 THEN 1 ELSE 0
      BY <1>2
    <3>. QED
      BY <3>1
  <2>. HIDE DEF Some
  <2>2. SumOver(remainder, S) * 1 <= SumOver(some, S) * total
    BY <1>1, <2>1, SumsCompare
  <2>3. left * total <= Cardinality(Some) * total
    <3>1. left * total = SumOver(remainder, S) /\ left * total \in Nat
      BY DEF S
    <3>. QED
      BY <1>6, <2>2, <3>1
  <2>. QED
    BY <1>5, <2>3, Cancel
<1>8. \A k \in 1..left : k \in S /\ k \in Nat /\ k <= left /\ order[k] \in topped
  <2>1. topped = {order[k] : k \in 1..left}
    BY DEF order, ToppedUp
  <2>2. left <= n
    BY <1>5, <1>7
  <2>3. \A k \in 1..left : k \in Nat /\ k >= 1 /\ k <= left /\ k <= n
    BY <2>2
  <2>. QED
    BY <1>3, <2>1, <2>3, Zenon
<1>9. \A i \in topped : \E k \in 1..left : i = order[k]
  BY DEF order, ToppedUp
<1>10. topped \subseteq S /\ IsFiniteSet(topped)
  <2>1. ASSUME NEW i \in topped PROVE i \in S
    <3>1. PICK k \in 1..left : i = order[k]
      BY <1>9, Zenon
    <3>. QED
      BY <1>4, <1>8, <3>1, Zenon
  <2>. QED
    <3>1. topped \subseteq S
      BY <2>1, Zenon
    <3>. QED
      BY <1>1, <3>1, FS_Subset
<1>11. \A i \in topped : remainder[i] > 0
  <2>. SUFFICES ASSUME NEW k \in 1..left, ~(remainder[order[k]] > 0) PROVE FALSE
    BY <1>9
  <2>. DEFINE better == {i \in S : remainder[i] > remainder[order[k]]}
  <2>1. k \in S /\ k \in Nat /\ k - 1 < left
    BY <1>8
  <2>2. order[k] \in S /\ Cardinality(better) <= k - 1
    BY <1>4, <2>1
  <2>3. remainder[order[k]] = 0
    BY <1>2, <2>2
  <2>4. better = Some
    BY <2>3
  <2>. HIDE DEF better, Some
  <2>. QED
    BY <1>5, <1>7, <2>1, <2>2, <2>4
<1>12. SumOver(unit, S) = left
  <2>. DEFINE places == 1..left
              row == [k \in places |-> order[k]]
  <2>1. IsFiniteSet(places) /\ Cardinality(places) = left
    BY UpToN
  <2>2. \A k \in places : row[k] = order[k]
    OBVIOUS
  <2>. HIDE DEF row
  <2>3. \A k \in places : row[k] \in topped /\ unit[row[k]] = 1
    <3>. SUFFICES ASSUME NEW k \in places PROVE row[k] \in topped /\ unit[row[k]] = 1
      OBVIOUS
    <3>1. row[k] = order[k] /\ order[k] \in topped /\ order[k] \in S
      BY <1>4, <1>8, <2>2, Zenon
    <3>2. unit[order[k]] = 1
      BY <1>2, <3>1, Zenon
    <3>. QED
      BY <3>1, <3>2
  <2>4. \A k, l \in places : row[k] = row[l] => k = l
    BY <1>4, <1>8, <2>2
  <2>5. \A i \in topped : \E k \in places : row[k] = i
    BY <1>9, <2>2, Zenon
  <2>. HIDE DEF places
  <2>8. SumOver(unit, topped) = left
    BY <2>1, <2>3, <2>4, <2>5, Counted
  <2>9. \A i \in S \ topped : unit[i] = 0
    BY <1>2
  <2>10. /\ \A i \in topped \cup (S \ topped) : unit[i] \in Int
         /\ topped \cap (S \ topped) = {}
    BY <1>2, <1>10
  <2>11. IsFiniteSet(S \ topped) /\ topped \cup (S \ topped) = S
    BY <1>1, <1>10, FS_Subset
  <2>12. SumOver(unit, topped \cup (S \ topped)) = SumOver(unit, topped) + SumOver(unit, S \ topped)
    BY <1>10, <2>10, <2>11, SumApart
  <2>13. SumOver(unit, S \ topped) = 0
    BY <2>9, <2>11, SumOfZeros
  <2>14. SumOver(unit, topped \cup (S \ topped)) = left
    BY <2>8, <2>12, <2>13
  <2>. QED
    BY <2>11, <2>14
<1>13. SumOver(parts, S) = SumOver(floors, S) + SumOver(unit, S)
  <2>1. \A i \in S : floors[i] \in Int /\ unit[i] \in Int /\ parts[i] = floors[i] + unit[i]
    BY <1>2
  <2>. QED
    BY <1>1, <2>1, SumPlus, SMTT(30)
<1>. QED
  BY <1>11, <1>12, <1>13 DEF S

\* A part that is its floor, or a unit more than a floor short of it, is less than a unit
\* from its exact share.
LEMMA CloseToShare ==
    ASSUME NEW F \in Nat, NEW R \in Nat, NEW total \in Nat \ {0}, R < total,
           NEW p \in {F, F + 1}, p = F + 1 => R > 0
    PROVE  /\ p * total - (total * F + R) < total
           /\ (total * F + R) - p * total < total
<1>. DEFINE TF == total * F
<1>1. TF \in Nat /\ F * total = TF /\ (F + 1) * total = TF + total
  OBVIOUS
<1>. HIDE DEF TF
<1>2. CASE p = F
  BY <1>1, <1>2 DEF TF
<1>3. CASE p = F + 1
  BY <1>1, <1>3 DEF TF
<1>. QED
  BY <1>2, <1>3

\* Money.allocate, on magnitudes: nothing is lost and no part is a unit off its share.
LEMMA Shares ==
    ASSUME NEW A \in Nat, NEW n \in Nat, NEW ratios, NEW total \in Nat \ {0},
           NEW product, NEW floors, NEW remainder,
           Floored(A, 1..n, ratios, total, product, floors, remainder),
           NEW topped, NEW parts, ToppedUp(A - SumOver(floors, 1..n), 1..n, floors, remainder, topped, parts)
    PROVE  Shared(A, 1..n, total, product, parts)
<1>. DEFINE S == 1..n
            F == SumOver(floors, S)
            R == SumOver(remainder, S)
            left == A - F
<1>1. IsFiniteSet(S)
  BY UpToN
<1>a. Floored(A, S, ratios, total, product, floors, remainder)
  OBVIOUS
<1>b. ToppedUp(left, S, floors, remainder, topped, parts)
  OBVIOUS
<1>. HIDE DEF S
<1>2. ASSUME NEW i \in S
      PROVE  /\ product[i] \in Nat /\ floors[i] \in Nat
             /\ remainder[i] \in Nat /\ remainder[i] < total
             /\ product[i] = total * floors[i] + remainder[i]
  <2>1. ratios[i] \in Nat /\ product[i] = A * ratios[i]
    BY <1>a, Zenon DEF Floored
  <2>2. product[i] \in Nat
    BY <2>1, Times
  <2>3. floors[i] = product[i] \div total /\ remainder[i] = product[i] % total
    BY <1>a, Zenon DEF Floored
  <2>. QED
    BY <2>2, <2>3, Division
<1>3. SumOver(product, S) = A * total
  <2>1. \A i \in S : ratios[i] \in Nat /\ product[i] = A * ratios[i]
    BY <1>a, Zenon DEF Floored
  <2>2. total = SumOver(ratios, S)
    BY <1>a, Zenon DEF Floored
  <2>3. SumOver(product, S) = A * SumOver(ratios, S)
    <3>1. A \in Nat
      OBVIOUS
    <3>. QED
      BY <1>1, <2>1, <3>1, SumTimes
  <2>. QED
    BY <2>2, <2>3
<1>4. F \in Nat /\ R \in Nat
  <2>1. \A i \in S : floors[i] \in Nat /\ remainder[i] \in Nat
    BY <1>2
  <2>. QED
    BY <1>1, <2>1, SumIsNumber
<1>5. SumOver(product, S) = total * F + R
  <2>. DEFINE times == [i \in S |-> total * floors[i]]
  <2>1. \A i \in S : floors[i] \in Nat /\ times[i] = total * floors[i]
    BY <1>2
  <2>2. ASSUME NEW i \in S
        PROVE  times[i] \in Int /\ remainder[i] \in Int /\ product[i] = times[i] + remainder[i]
    <3>1. floors[i] \in Nat /\ times[i] = total * floors[i]
      BY <2>1
    <3>2. times[i] \in Nat
      BY <3>1, Times
    <3>. HIDE DEF times
    <3>. QED
      BY <1>2, <3>1, <3>2
  <2>. HIDE DEF times
  <2>3. SumOver(times, S) = total * F
    <3>1. total \in Nat
      OBVIOUS
    <3>. QED
      BY <1>1, <2>1, <3>1, SumTimes
  <2>4. SumOver(product, S) = SumOver(times, S) + R
    BY <1>1, <2>2, SumPlus
  <2>. QED
    BY <2>3, <2>4
<1>6. left \in Nat /\ left * total = R
  <2>1. F \in Nat /\ R \in Nat /\ A * total = total * F + R
    BY <1>3, <1>4, <1>5
  <2>2. A \in Nat /\ total \in Nat \ {0}
    OBVIOUS
  <2>. HIDE DEF F, R
  <2>3. F * total = total * F /\ F * total \in Nat
    BY <2>1, <2>2
  <2>4. F * total <= A * total
    BY <2>1, <2>2, <2>3
  <2>5. F <= A
    BY <2>1, <2>2, <2>4, Cancel
  <2>6. (A - F) * total = A * total - F * total
    BY <2>1, <2>2
  <2>. QED
    BY <2>1, <2>2, <2>3, <2>5, <2>6
<1>7. /\ SumOver(parts, S) = F + left
      /\ \A i \in topped : remainder[i] > 0
  <2>1. \A i \in S : floors[i] \in Nat /\ remainder[i] \in Nat /\ remainder[i] < total
    BY <1>2
  <2>2. left * total = SumOver(remainder, S) /\ left \in Nat
    BY <1>6
  <2>4. ToppedUp(left, S, floors, remainder, topped, parts)
    BY <1>b, Zenon
  <2>5. DOMAIN remainder = S
    BY <1>a, Zenon DEF Floored
  <2>. HIDE DEF left
  <2>6. n \in Nat /\ total \in Nat \ {0}
    OBVIOUS
  <2>7. /\ SumOver(parts, 1..n) = SumOver(floors, 1..n) + left
        /\ \A i \in topped : remainder[i] > 0
    <3>1. \A i \in 1..n : floors[i] \in Nat /\ remainder[i] \in Nat /\ remainder[i] < total
      BY <2>1 DEF S
    <3>2. left * total = SumOver(remainder, 1..n) /\ left \in Nat
      BY <2>2 DEF S
    <3>3. ToppedUp(left, 1..n, floors, remainder, topped, parts) /\ DOMAIN remainder = 1..n
      BY <2>4, <2>5 DEF S
    <3>. QED
      BY <2>6, <3>1, <3>2, <3>3, LargestRemainders, Zenon
  <2>. QED
    BY <2>7 DEF S
<1>8. ASSUME NEW i \in S
      PROVE  /\ parts[i] \in Nat
             /\ parts[i] * total - product[i] < total
             /\ product[i] - parts[i] * total < total
  <2>1. /\ floors[i] \in Nat /\ remainder[i] \in Nat /\ remainder[i] < total
        /\ product[i] = total * floors[i] + remainder[i]
    BY <1>2
  <2>2. parts[i] = floors[i] + (IF i \in topped THEN 1 ELSE 0)
    BY <1>b, Zenon DEF ToppedUp
  <2>3. parts[i] \in {floors[i], floors[i] + 1} /\ (parts[i] = floors[i] + 1 => remainder[i] > 0)
    <3>1. CASE i \in topped
      BY <1>7, <2>2, <3>1
    <3>2. CASE i \notin topped
      <4>1. parts[i] = floors[i] + 0
        BY <2>2, <3>2, Zenon
      <4>2. \A f \in Nat : f + 0 = f /\ f # f + 1
        OBVIOUS
      <4>. QED
        BY <2>1, <4>1, <4>2, Zenon
    <3>. QED
      BY <3>1, <3>2
  <2>4. parts[i] \in Nat
    BY <2>1, <2>3
  <2>5. /\ parts[i] * total - (total * floors[i] + remainder[i]) < total
        /\ (total * floors[i] + remainder[i]) - parts[i] * total < total
    BY <2>1, <2>3, CloseToShare
  <2>. QED
    BY <2>1, <2>4, <2>5
<1>9. F + left = A
  <2>. HIDE DEF F
  <2>. QED
    BY <1>4
<1>10. Shared(A, S, total, product, parts)
  BY <1>7, <1>8, <1>9 DEF Shared
<1>. QED
  BY <1>10 DEF S

\* What Money.allocate returns: the amount, to the last minor unit, in parts that are each
\* less than a unit off their exact share.
Conserves(parts, amount, ratios, total, S) ==
    /\ DOMAIN parts = S
    /\ \A i \in S : /\ parts[i] \in Int
                    /\ parts[i] * total - amount * ratios[i] < total
                    /\ amount * ratios[i] - parts[i] * total < total
    /\ SumOver(parts, S) = amount

LEMMA AllocateIs ==
    ASSUME NEW amount \in Int, NEW n \in Nat, NEW ratios, DOMAIN ratios = 1..n,
           \A i \in 1..n : ratios[i] \in Nat, SumOver(ratios, 1..n) > 0
    PROVE  Conserves(Allocate(amount, ratios), amount, ratios, SumOver(ratios, 1..n), 1..n)
<1>. DEFINE S == 1..n
            total == SumOver(ratios, S)
            A == Magnitude(amount)
            product == [i \in S |-> A * ratios[i]]
            floors == [i \in S |-> product[i] \div total]
            remainder == [i \in S |-> product[i] % total]
            left == A - SumOver(floors, S)
            topped == {LargestFirst(remainder)[k] : k \in 1..left}
            parts == [i \in S |-> floors[i] + (IF i \in topped THEN 1 ELSE 0)]
            all == [i \in S |-> Signed(amount < 0, parts[i])]
<1>1. Allocate(amount, ratios) = all
  BY DEF Allocate
<1>2. A \in Nat
  BY SignedMagnitude
<1>3. total \in Nat \ {0}
  <2>1. IsFiniteSet(S)
    BY UpToN
  <2>2. \A i \in S : ratios[i] \in Nat
    OBVIOUS
  <2>. HIDE DEF S
  <2>3. SumOver(ratios, S) \in Nat
    BY <2>1, <2>2, SumIsNumber
  <2>. QED
    BY <2>3 DEF S
<1>4. Floored(A, S, ratios, total, product, floors, remainder)
  <2>1. /\ \A i \in S : product[i] = A * ratios[i]
        /\ \A i \in S : floors[i] = product[i] \div total /\ remainder[i] = product[i] % total
        /\ DOMAIN remainder = S
    OBVIOUS
  <2>2. \A i \in S : ratios[i] \in Nat
    OBVIOUS
  <2>. HIDE DEF S, product, floors, remainder, A
  <2>. QED
    BY <2>1, <2>2 DEF Floored
<1>5. ToppedUp(left, S, floors, remainder, topped, parts)
  <2>1. \A i \in S : parts[i] = floors[i] + (IF i \in topped THEN 1 ELSE 0)
    OBVIOUS
  <2>2. topped = {LargestFirst(remainder)[k] : k \in 1..left}
    OBVIOUS
  <2>. HIDE DEF S, floors, remainder, left, topped, parts
  <2>. QED
    BY <2>1, <2>2, Zenon DEF ToppedUp
<1>6. \A i \in S : all[i] = Signed(amount < 0, parts[i]) /\ product[i] = A * ratios[i] /\ ratios[i] \in Nat
  <2>. HIDE DEF parts, A
  <2>. QED
    OBVIOUS
<1>7. DOMAIN all = S /\ IsFiniteSet(S) /\ S = 1..n
  BY UpToN
<1>. HIDE DEF product, floors, remainder, topped, parts, all
<1>8. /\ \A i \in S : /\ parts[i] \in Nat
                      /\ parts[i] * total - product[i] < total
                      /\ product[i] - parts[i] * total < total
      /\ SumOver(parts, S) = A
  <2>. HIDE DEF A, total, left
  <2>1. ToppedUp(A - SumOver(floors, S), S, floors, remainder, topped, parts)
    BY <1>5 DEF left
  <2>2. n \in Nat
    OBVIOUS
  <2>3. Shared(A, S, total, product, parts)
    BY <1>2, <1>3, <1>4, <2>1, <2>2, Shares
  <2>. QED
    BY <2>3 DEF Shared
<1>9. ASSUME NEW i \in S
      PROVE  /\ all[i] \in Int
             /\ all[i] * total - amount * ratios[i] < total
             /\ amount * ratios[i] - all[i] * total < total
             /\ amount < 0 => all[i] = -parts[i]
             /\ amount >= 0 => all[i] = parts[i]
  <2>1. /\ parts[i] \in Nat /\ total \in Nat /\ ratios[i] \in Nat
        /\ parts[i] * total - A * ratios[i] < total
        /\ A * ratios[i] - parts[i] * total < total
        /\ all[i] = Signed(amount < 0, parts[i])
    BY <1>3, <1>6, <1>8
  <2>. HIDE DEF total, S
  <2>2. CASE amount < 0
    <3>1. A = -amount /\ all[i] = -parts[i]
      BY <2>1, <2>2 DEF Magnitude, Signed
    <3>. DEFINE M == amount * ratios[i]
                P == parts[i] * total
    <3>2. (-amount) * ratios[i] = -M /\ (-parts[i]) * total = -P /\ M \in Int /\ P \in Int
      BY <2>1
    <3>3. A * ratios[i] = -M /\ all[i] * total = -P
      BY <3>1, <3>2
    <3>. HIDE DEF A, M
    <3>4. P - (-M) < total /\ -M - P < total
      BY <2>1, <3>3
    <3>. HIDE DEF P
    <3>5. all[i] * total - M < total /\ M - all[i] * total < total
      BY <2>1, <3>2, <3>3, <3>4
    <3>. QED
      BY <2>1, <2>2, <3>1, <3>5 DEF M
  <2>3. CASE amount >= 0
    <3>1. A = amount /\ all[i] = parts[i]
      BY <2>1, <2>3 DEF Magnitude, Signed
    <3>. HIDE DEF A
    <3>. QED
      BY <2>1, <2>3, <3>1
  <2>. QED
    BY <2>2, <2>3
<1>10. SumOver(all, S) = amount
  <2>1. CASE amount < 0
    <3>1. A = -amount
      BY <2>1 DEF Magnitude
    <3>2. \A i \in S : parts[i] \in Int /\ all[i] = -parts[i]
      BY <1>8, <1>9, <2>1
    <3>. HIDE DEF A, S
    <3>3. SumOver(all, S) = -SumOver(parts, S)
      BY <1>7, <3>2, SumNegated
    <3>. QED
      BY <1>8, <3>1, <3>3
  <2>2. CASE amount >= 0
    <3>1. A = amount
      BY <2>2 DEF Magnitude
    <3>2. \A i \in S : all[i] = parts[i]
      BY <1>9, <2>2
    <3>. HIDE DEF A, S
    <3>3. SumOver(all, S) = SumOver(parts, S)
      BY <1>7, <3>2, SumSame
    <3>. QED
      BY <1>8, <3>1, <3>3
  <2>. QED
    BY <2>1, <2>2
<1>. HIDE DEF total, S
<1>11. Conserves(all, amount, ratios, total, S)
  BY <1>7, <1>9, <1>10 DEF Conserves
<1>. QED
  BY <1>1, <1>11 DEF total, S

-----------------------------------------------------------------------------
(* The calendar *)

\* The first days of the months, in closed form.
Before(k) == <<0, 31, 59, 90, 120, 151, 181, 212, 243, 273, 304, 334>>[k + 1]

LEMMA DaysBefore ==
    /\ Before(0) = 0 /\ Before(1) = 31 /\ Before(2) = 59 /\ Before(3) = 90
    /\ Before(4) = 120 /\ Before(5) = 151 /\ Before(6) = 181 /\ Before(7) = 212
    /\ Before(8) = 243 /\ Before(9) = 273 /\ Before(10) = 304 /\ Before(11) = 334
  BY DEF Before

LEMMA FirstInYear ==
    ASSUME NEW y \in Nat, NEW k \in 0..11
    PROVE  FirstOf(12 * y + k) = 365 * y + (y + 3) \div 4 + Before(k)
                                   + (IF k > 1 /\ y % 4 = 0 THEN 1 ELSE 0)
<1>. DEFINE m == 12 * y + k
<1>1. m \div 12 = y /\ m % 12 = k
  OBVIOUS
<1>. HIDE DEF m
<1>. QED
  BY <1>1 DEF FirstOf, Before, m

\* A month has 28 to 31 days, and December 31.
LEMMA MonthLength ==
    ASSUME NEW m \in Nat
    PROVE  /\ FirstOf(m) \in Nat /\ FirstOf(m + 1) \in Nat
           /\ FirstOf(m) + 28 <= FirstOf(m + 1) /\ FirstOf(m + 1) <= FirstOf(m) + 31
           /\ m % 12 = 11 => FirstOf(m + 1) = FirstOf(m) + 31
<1>. DEFINE y == m \div 12
            k == m % 12
            leap == IF y % 4 = 0 THEN 1 ELSE 0
            q == (y + 3) \div 4
<1>1. y \in Nat /\ k \in 0..11 /\ m = 12 * y + k
  OBVIOUS
<1>2. q \in Nat /\ (y + 4) \div 4 = q + leap /\ leap \in 0..1
  BY <1>1
<1>. HIDE DEF y, k
<1>3. FirstOf(m) = 365 * y + q + Before(k) + (IF k > 1 THEN leap ELSE 0)
  BY <1>1, FirstInYear
<1>4. CASE k = 11
  <2>1. m + 1 = 12 * (y + 1) + 0 /\ y + 1 \in Nat /\ 0 \in 0..11
    BY <1>1, <1>4
  <2>2. FirstOf(m + 1) = 365 * (y + 1) + (y + 1 + 3) \div 4 + Before(0) + 0
    BY <2>1, FirstInYear
  <2>3. y + 1 + 3 = y + 4
    BY <1>1
  <2>4. FirstOf(m + 1) = 365 * y + 365 + q + leap
    BY <1>1, <1>2, <2>2, <2>3, DaysBefore
  <2>. HIDE DEF q, leap
  <2>. QED
    BY <1>1, <1>2, <1>3, <1>4, <2>4, DaysBefore
<1>5. CASE k # 11
  <2>1. m + 1 = 12 * y + (k + 1) /\ k + 1 \in 0..11
    BY <1>1, <1>5
  <2>2. FirstOf(m + 1) = 365 * y + q + Before(k + 1) + (IF k + 1 > 1 THEN leap ELSE 0)
    BY <1>1, <2>1, FirstInYear
  <2>3. k \in {0, 1, 2, 3, 4, 5, 6, 7, 8, 9, 10}
    BY <1>1, <1>5
  <2>. HIDE DEF q, leap
  <2>4. /\ Before(k) \in Nat /\ Before(k + 1) \in Nat
        /\ Before(k) + 28 <= Before(k + 1) /\ Before(k + 1) <= Before(k) + 31
        /\ k = 1 => Before(k + 1) = Before(k) + 28
    BY <2>3, DaysBefore
  <2>. QED
    BY <1>1, <1>2, <1>3, <1>5, <2>2, <2>4 DEF k
<1>. QED
  BY <1>4, <1>5

\* The months follow each other.
LEMMA MonthsForward ==
    ASSUME NEW a \in Nat, NEW b \in Nat, a <= b
    PROVE  FirstOf(a) + 28 * (b - a) <= FirstOf(b) /\ FirstOf(b) <= FirstOf(a) + 31 * (b - a)
<1>. DEFINE G == {n \in Nat : /\ FirstOf(a) + 28 * n <= FirstOf(a + n)
                              /\ FirstOf(a + n) <= FirstOf(a) + 31 * n}
<1>1. 0 \in G
  <2>1. FirstOf(a) \in Nat /\ a + 0 = a
    BY MonthLength
  <2>. QED
    BY <2>1
<1>2. ASSUME NEW n \in Nat, n \in G PROVE n + 1 \in G
  <2>1. a + n \in Nat /\ a + (n + 1) = (a + n) + 1
    OBVIOUS
  <2>2. /\ FirstOf(a + n) \in Nat /\ FirstOf((a + n) + 1) \in Nat /\ FirstOf(a) \in Nat
        /\ FirstOf(a + n) + 28 <= FirstOf((a + n) + 1)
        /\ FirstOf((a + n) + 1) <= FirstOf(a + n) + 31
    BY <2>1, MonthLength
  <2>3. FirstOf(a) + 28 * n <= FirstOf(a + n) /\ FirstOf(a + n) <= FirstOf(a) + 31 * n
    BY <1>2
  <2>. QED
    BY <2>1, <2>2, <2>3
<1>3. Nat \subseteq G
  <2>. HIDE DEF G
  <2>. QED
    BY <1>1, <1>2, Counting
<1>4. b - a \in G /\ a + (b - a) = b
  BY <1>3
<1>. QED
  BY <1>4

LEMMA FirstMonth == FirstOf(0) = 0
<1>1. 0 \in Nat /\ 0 \in 0..11 /\ 12 * 0 + 0 = 0 /\ (0 + 3) \div 4 = 0
  OBVIOUS
<1>2. FirstOf(12 * 0 + 0) = 365 * 0 + (0 + 3) \div 4 + Before(0) + 0
  BY <1>1, FirstInYear
<1>. QED
  BY <1>1, <1>2, DaysBefore

\* The day lies in the month.
LiesIn(n, m) == FirstOf(m) <= n /\ n < FirstOf(m + 1)

\* A day lies in one month.
LEMMA OneMonth ==
    ASSUME NEW n \in Int, NEW a \in Nat, NEW b \in Nat, LiesIn(n, a), LiesIn(n, b)
    PROVE  a = b
<1>1. ASSUME NEW x \in Nat, NEW y \in Nat, x < y, LiesIn(n, x), LiesIn(n, y) PROVE FALSE
  <2>1. /\ x + 1 \in Nat /\ x + 1 <= y /\ FirstOf(x + 1) \in Nat /\ FirstOf(y) \in Nat
    BY <1>1, MonthLength
  <2>2. FirstOf(x + 1) + 28 * (y - (x + 1)) <= FirstOf(y)
    BY <2>1, MonthsForward
  <2>. QED
    BY <1>1, <2>1, <2>2 DEF LiesIn
<1>. QED
  BY <1>1

LEMMA MonthOf ==
    ASSUME NEW n \in Nat
    PROVE  MonthNo(n) \in Nat /\ LiesIn(n, MonthNo(n))
<1>. DEFINE G == {d \in Nat : \E m \in Nat : LiesIn(d, m)}
<1>1. 0 \in G
  <2>1. FirstOf(0) = 0 /\ FirstOf(0) + 28 <= FirstOf(0 + 1) /\ FirstOf(0 + 1) \in Nat
    BY FirstMonth, MonthLength
  <2>2. LiesIn(0, 0)
    BY <2>1 DEF LiesIn
  <2>. QED
    BY <2>2
<1>2. ASSUME NEW d \in Nat, d \in G PROVE d + 1 \in G
  <2>1. PICK m \in Nat : LiesIn(d, m)
    BY <1>2
  <2>2. /\ FirstOf(m) \in Nat /\ FirstOf(m + 1) \in Nat /\ FirstOf((m + 1) + 1) \in Nat
        /\ FirstOf(m + 1) + 28 <= FirstOf((m + 1) + 1) /\ m + 1 \in Nat
    BY MonthLength
  <2>3. LiesIn(d + 1, m) \/ LiesIn(d + 1, m + 1)
    BY <2>1, <2>2 DEF LiesIn
  <2>. QED
    BY <2>2, <2>3
<1>3. Nat \subseteq G
  <2>. HIDE DEF G
  <2>. QED
    BY <1>1, <1>2, Counting
<1>4. PICK m \in Nat : LiesIn(n, m)
  BY <1>3
<1>5. m \in (n \div 31)..(n \div 28 + 1)
  <2>1. 0 + 28 * (m - 0) <= FirstOf(m) /\ FirstOf(m) \in Nat
    <3>1. 0 \in Nat /\ 0 <= m /\ FirstOf(m) \in Nat
      BY MonthLength
    <3>2. FirstOf(0) + 28 * (m - 0) <= FirstOf(m)
      BY <3>1, MonthsForward
    <3>. QED
      BY <3>1, <3>2, FirstMonth
  <2>2. FirstOf(m + 1) <= 0 + 31 * ((m + 1) - 0) /\ FirstOf(m + 1) \in Nat
    <3>1. 0 \in Nat /\ m + 1 \in Nat /\ 0 <= m + 1 /\ FirstOf(m + 1) \in Nat
      BY MonthLength
    <3>2. FirstOf(m + 1) <= FirstOf(0) + 31 * ((m + 1) - 0)
      BY <3>1, MonthsForward
    <3>. QED
      BY <3>1, <3>2, FirstMonth
  <2>3. 28 * m <= n /\ n < 31 * (m + 1)
    BY <1>4, <2>1, <2>2 DEF LiesIn
  <2>4. n \div 31 <= m /\ m <= n \div 28 + 1 /\ n \div 31 \in Int /\ n \div 28 + 1 \in Int
    BY <2>3
  <2>. QED
    BY <2>4
<1>6. FirstOf(m) <= n /\ n < FirstOf(m + 1)
  BY <1>4 DEF LiesIn
<1>. DEFINE c == MonthNo(n)
<1>7. c \in (n \div 31)..(n \div 28 + 1) /\ FirstOf(c) <= n /\ n < FirstOf(c + 1)
  BY <1>5, <1>6 DEF MonthNo
<1>8. c \in Nat
  BY <1>7
<1>. QED
  BY <1>7, <1>8 DEF LiesIn

\* The month of a day is the one it lies in.
LEMMA MonthIs ==
    ASSUME NEW n \in Int, NEW m \in Nat, LiesIn(n, m)
    PROVE  n \in Nat /\ MonthNo(n) = m
<1>1. n \in Nat
  BY MonthLength DEF LiesIn
<1>. QED
  BY <1>1, MonthOf, OneMonth

\* A later day lies in no earlier month.
LEMMA MonthsInOrder ==
    ASSUME NEW a \in Nat, NEW b \in Nat, a <= b
    PROVE  MonthNo(a) <= MonthNo(b)
<1>. DEFINE x == MonthNo(a)
            y == MonthNo(b)
<1>1. x \in Nat /\ y \in Nat /\ LiesIn(a, x) /\ LiesIn(b, y)
  BY MonthOf
<1>. HIDE DEF x, y
<1>2. ASSUME y < x PROVE FALSE
  <2>1. y + 1 \in Nat /\ y + 1 <= x /\ FirstOf(y + 1) \in Nat /\ FirstOf(x) \in Nat
    BY <1>1, <1>2, MonthLength
  <2>2. FirstOf(y + 1) + 28 * (x - (y + 1)) <= FirstOf(x)
    BY <1>1, <2>1, MonthsForward
  <2>. QED
    BY <1>1, <2>1, <2>2 DEF LiesIn
<1>3. x <= y
  BY <1>1, <1>2
<1>. QED
  BY <1>3 DEF x, y

\* A day of the month numbered from 1 to 28 lies in it.
LEMMA DayInMonth ==
    ASSUME NEW m \in Nat, NEW d \in 1..28
    PROVE  DateOf(m, d) \in Nat /\ LiesIn(DateOf(m, d), m) /\ DateOf(m, d) = FirstOf(m) + d - 1
<1>1. FirstOf(m) \in Nat /\ FirstOf(m + 1) \in Nat /\ FirstOf(m) + 28 <= FirstOf(m + 1)
  BY MonthLength
<1>2. DateOf(m, d) = FirstOf(m) + d - 1
  BY DEF DateOf
<1>3. DateOf(m, d) \in Nat /\ FirstOf(m) <= DateOf(m, d) /\ DateOf(m, d) < FirstOf(m + 1)
  BY <1>1, <1>2
<1> QED
  BY <1>2, <1>3 DEF LiesIn

LEMMA MonthOfYear ==
    ASSUME NEW z \in Nat, NEW k \in 0..11
    PROVE  12 * z + k \in Nat /\ (12 * z + k) % 12 = k
  OBVIOUS

LEMMA NthWeekdayIs ==
    ASSUME NEW m \in Nat, NEW w, w = Monday \/ w = Thursday, NEW nth \in 1..4
    PROVE  /\ NthWeekday(m, w, nth) \in (FirstOf(m) + 7 * (nth - 1))..(FirstOf(m) + 7 * (nth - 1) + 6)
           /\ Weekday(NthWeekday(m, w, nth)) = w /\ FirstOf(m) \in Nat
<1>. DEFINE F == FirstOf(m)
            x == (w - (F % 7)) % 7
<1>1. F \in Nat
  BY MonthLength
<1>2. w \in {0, 3}
  BY DEF Monday, Thursday
<1>. HIDE DEF F
<1>3. x \in 0..6 /\ (F + x) % 7 = w
  BY <1>1, <1>2
<1>. HIDE DEF x
<1>4. (F + x + 7 * (nth - 1)) % 7 = w
  BY <1>1, <1>2, <1>3
<1>5. NthWeekday(m, w, nth) = F + x + 7 * (nth - 1)
  BY DEF NthWeekday, Weekday, F, x
<1>6. F + x + 7 * (nth - 1) \in (F + 7 * (nth - 1))..(F + 7 * (nth - 1) + 6)
  BY <1>1, <1>3
<1>. QED
  BY <1>1, <1>4, <1>5, <1>6 DEF Weekday, F

LEMMA LastMondayIs ==
    ASSUME NEW m \in Nat
    PROVE  /\ LastWeekday(m, Monday) \in (FirstOf(m + 1) - 7)..(FirstOf(m + 1) - 1)
           /\ Weekday(LastWeekday(m, Monday)) = 0
<1>. DEFINE last == FirstOf(m + 1) - 1
<1>1. last \in Int
  BY MonthLength
<1>2. LastWeekday(m, Monday) = last - (((last % 7) - 0) % 7)
  BY DEF LastWeekday, Weekday, Monday
<1>3. last \in Int => /\ last - (((last % 7) - 0) % 7) \in (last - 6)..last
                      /\ (last - (((last % 7) - 0) % 7)) % 7 = 0
  <2>. HIDE DEF last
  <2>. QED
    OBVIOUS
<1>. HIDE DEF last
<1>4. \A v \in (last - 6)..last : v \in (last + 1 - 7)..(last + 1 - 1)
  BY <1>1
<1>5. FirstOf(m + 1) = last + 1
  BY MonthLength DEF last
<1>. QED
  BY <1>1, <1>2, <1>3, <1>4, <1>5 DEF Weekday

\* The holidays of a fixed date, by the month of the year and the day.
FixedOn(k, d) == <<k, d>> \in {<<0, 1>>, <<5, 19>>, <<6, 4>>, <<10, 11>>, <<11, 25>>}

\* The places of the holidays: month of the year, day and weekday.
Place(k, d, w) ==
    \/ FixedOn(k, d) /\ w \in 0..4
    \/ FixedOn(k, d - 1) /\ w = 0
    \/ /\ w = 0
       /\ \/ k \in {0, 1} /\ d \in 15..21
          \/ k = 4 /\ d \in 22..31
          \/ k = 8 /\ d \in 1..7
          \/ k = 9 /\ d \in 8..14
    \/ w = 3 /\ k = 10 /\ d \in 22..28

HolidayIn(h, m) == Place(m % 12, h - FirstOf(m) + 1, Weekday(h))

LEMMA Observed ==
    ASSUME NEW m \in Nat, NEW d \in 1..25, FixedOn(m % 12, d), NEW h \in FedObserved(DateOf(m, d))
    PROVE  h \in Nat /\ LiesIn(h, m) /\ HolidayIn(h, m)
<1>. DEFINE n == DateOf(m, d)
            k == m % 12
<1>1. d \in 1..28 /\ FirstOf(m) \in Nat /\ d \in Nat /\ 1 <= d /\ d <= 25
  BY MonthLength
<1>2. n \in Nat /\ n = FirstOf(m) + d - 1
  BY <1>1, DayInMonth
<1>. HIDE DEF n
<1>3. FirstOf(m) + 28 <= FirstOf(m + 1) /\ FirstOf(m + 1) \in Nat
  BY MonthLength
<1>4. /\ Weekday(n) \in 0..6
      /\ Weekday(n) = 6 => Weekday(n + 1) = 0 /\ h = n + 1
      /\ Weekday(n) # 6 => Weekday(n) \in 0..4 /\ h = n
  BY <1>2 DEF Weekday, FedObserved, Sunday, Saturday, n
<1>5. CASE Weekday(n) = 6
  <2>1. h = n + 1 /\ Weekday(h) = 0 /\ (h - FirstOf(m) + 1) - 1 = d /\ h \in Nat
    BY <1>1, <1>2, <1>4, <1>5
  <2>2. HolidayIn(h, m)
    BY <2>1 DEF HolidayIn, Place
  <2>3. FirstOf(m) <= h /\ h < FirstOf(m + 1)
    <3>. DEFINE F == FirstOf(m)
                N == FirstOf(m + 1)
    <3>1. F \in Nat /\ N \in Nat /\ F + 28 <= N /\ d \in Nat /\ 1 <= d /\ d <= 25
          /\ n = F + d - 1 /\ (h = n \/ h = n + 1)
      BY <1>1, <1>2, <1>3, <2>1
    <3>. HIDE DEF F, N
    <3>2. F <= h /\ h < N
      BY <3>1
    <3>. QED
      BY <3>2 DEF F, N
  <2>. QED
    BY <2>1, <2>2, <2>3 DEF LiesIn
<1>6. CASE Weekday(n) # 6
  <2>1. h = n /\ Weekday(h) \in 0..4 /\ h - FirstOf(m) + 1 = d /\ h \in Nat
    BY <1>1, <1>2, <1>4, <1>6
  <2>2. HolidayIn(h, m)
    BY <2>1 DEF HolidayIn, Place
  <2>3. FirstOf(m) <= h /\ h < FirstOf(m + 1)
    <3>. DEFINE F == FirstOf(m)
                N == FirstOf(m + 1)
    <3>1. F \in Nat /\ N \in Nat /\ F + 28 <= N /\ d \in Nat /\ 1 <= d /\ d <= 25
          /\ n = F + d - 1 /\ (h = n \/ h = n + 1)
      BY <1>1, <1>2, <1>3, <2>1
    <3>. HIDE DEF F, N
    <3>2. F <= h /\ h < N
      BY <3>1
    <3>. QED
      BY <3>2 DEF F, N
  <2>. QED
    BY <2>1, <2>2, <2>3 DEF LiesIn
<1>. QED
  BY <1>5, <1>6

\* A bank holiday falls where it may.
LEMMA HolidayIs ==
    ASSUME NEW h \in BankHolidays
    PROVE  \E m \in Nat : h \in Nat /\ LiesIn(h, m) /\ HolidayIn(h, m)
<1>1. PICK year \in 2024..LastYear : h \in FederalHolidays(year)
  BY DEF BankHolidays
<1>. DEFINE z == year - 2024
            jan == 12 * z
            fixed == {<<0, 1>>, <<5, 19>>, <<6, 4>>, <<10, 11>>, <<11, 25>>}
<1>2. z \in Nat /\ jan = JanuaryOf(year) /\ jan \in Nat
  <2>1. LastYear \in Int
    BY CadenceAssumption
  <2>2. z \in Nat
    BY <2>1
  <2>. HIDE DEF z
  <2>3. jan \in Nat
    BY <2>2
  <2>. QED
    BY <2>2, <2>3 DEF JanuaryOf, z
<1>. HIDE DEF z, jan
<1>3. \/ h = NthWeekday(jan, Monday, 3) \/ h = NthWeekday(jan + 1, Monday, 3)
      \/ h = LastWeekday(jan + 4, Monday) \/ h = NthWeekday(jan + 8, Monday, 1)
      \/ h = NthWeekday(jan + 9, Monday, 2) \/ h = NthWeekday(jan + 10, Thursday, 4)
      \/ \E f \in fixed : h \in FedObserved(DateOf(jan + f[1], f[2]))
  BY <1>1, <1>2 DEF FederalHolidays
<1>4. ASSUME NEW k \in 0..11, NEW w, NEW nth \in 1..4,
             h = NthWeekday(jan + k, w, nth),
             \/ w = Monday /\ <<k, nth>> \in {<<0, 3>>, <<1, 3>>, <<8, 1>>, <<9, 2>>}
             \/ w = Thursday /\ k = 10 /\ nth = 4
      PROVE  h \in Nat /\ LiesIn(h, jan + k) /\ HolidayIn(h, jan + k)
  <2>. DEFINE F == FirstOf(jan + k)
              d == h - F + 1
  <2>1. jan + k \in Nat /\ (jan + k) % 12 = k
    BY <1>2, MonthOfYear DEF jan
  <2>0. w = Monday \/ w = Thursday
    BY <1>4
  <2>2. h \in (F + 7 * (nth - 1))..(F + 7 * (nth - 1) + 6) /\ Weekday(h) = w /\ F \in Nat
    <3>. DEFINE m == jan + k
    <3>1. m \in Nat /\ h = NthWeekday(m, w, nth)
      BY <1>4, <2>1
    <3>. HIDE DEF m
    <3>2. /\ NthWeekday(m, w, nth) \in (FirstOf(m) + 7 * (nth - 1))..(FirstOf(m) + 7 * (nth - 1) + 6)
          /\ Weekday(NthWeekday(m, w, nth)) = w /\ FirstOf(m) \in Nat
      BY <2>0, <3>1, NthWeekdayIs
    <3>. QED
      BY <3>1, <3>2 DEF m
  <2>3. F + 28 <= FirstOf(jan + k + 1) /\ FirstOf(jan + k + 1) \in Nat
    BY <2>1, MonthLength
  <2>. HIDE DEF F
  <2>4. h \in Nat /\ h >= F /\ h < F + 28 /\ d \in (7 * nth - 6)..(7 * nth)
    BY <2>2
  <2>5. LiesIn(h, jan + k)
    BY <2>2, <2>3, <2>4 DEF LiesIn, F
  <2>. HIDE DEF d
  <2>6. \/ w = 0 /\ k \in {0, 1} /\ d \in 15..21
        \/ w = 0 /\ k = 8 /\ d \in 1..7
        \/ w = 0 /\ k = 9 /\ d \in 8..14
        \/ w = 3 /\ k = 10 /\ d \in 22..28
    <3>1. CASE w = Monday /\ <<k, nth>> \in {<<0, 3>>, <<1, 3>>, <<8, 1>>, <<9, 2>>}
      BY <2>4, <3>1 DEF Monday
    <3>2. CASE w = Thursday /\ k = 10 /\ nth = 4
      BY <2>4, <3>2 DEF Thursday
    <3>. QED
      BY <1>4, <3>1, <3>2
  <2>7. HolidayIn(h, jan + k)
    BY <2>1, <2>2, <2>6 DEF HolidayIn, Place, d, F
  <2>. QED
    BY <2>4, <2>5, <2>7
<1>5. ASSUME h = LastWeekday(jan + 4, Monday)
      PROVE  h \in Nat /\ LiesIn(h, jan + 4) /\ HolidayIn(h, jan + 4)
  <2>. DEFINE F == FirstOf(jan + 4)
              N == FirstOf(jan + 4 + 1)
              d == h - F + 1
  <2>1. jan + 4 \in Nat /\ (jan + 4) % 12 = 4
    BY <1>2 DEF jan
  <2>2. h \in (N - 7)..(N - 1) /\ Weekday(h) = 0
    BY <1>5, <2>1, LastMondayIs
  <2>3. F \in Nat /\ N \in Nat /\ F + 28 <= N /\ N <= F + 31
    BY <2>1, MonthLength
  <2>. HIDE DEF F, N
  <2>4. h \in Nat /\ F <= h /\ h < N /\ d \in 22..31
    BY <2>2, <2>3
  <2>5. LiesIn(h, jan + 4)
    BY <2>4 DEF LiesIn, F, N
  <2>. HIDE DEF d
  <2>6. HolidayIn(h, jan + 4)
    BY <2>1, <2>2, <2>4 DEF HolidayIn, Place, d, F
  <2>. QED
    BY <2>4, <2>5, <2>6
<1>7. jan + 0 = jan /\ \A k \in 0..11 : jan + k \in Nat
  BY <1>2 DEF jan
<1>8. ASSUME h = NthWeekday(jan, Monday, 3) PROVE h = NthWeekday(jan + 0, Monday, 3)
  BY <1>7, <1>8
<1>9. {1, 2, 3, 4} \subseteq 1..4
      /\ {0, 1, 4, 8, 9, 10} \subseteq 0..11
  OBVIOUS
<1>. QED
  <2>1. CASE h = NthWeekday(jan, Monday, 3)
    BY <1>4, <1>7, <1>8, <1>9, <2>1
  <2>2. CASE h = NthWeekday(jan + 1, Monday, 3)
    BY <1>4, <1>7, <1>9, <2>2
  <2>3. CASE h = LastWeekday(jan + 4, Monday)
    BY <1>5, <1>7, <1>9, <2>3
  <2>4. CASE h = NthWeekday(jan + 8, Monday, 1)
    BY <1>4, <1>7, <1>9, <2>4
  <2>5. CASE h = NthWeekday(jan + 9, Monday, 2)
    BY <1>4, <1>7, <1>9, <2>5
  <2>6. CASE h = NthWeekday(jan + 10, Thursday, 4)
    BY <1>4, <1>7, <1>9, <2>6
  <2>7. CASE \E f \in fixed : h \in FedObserved(DateOf(jan + f[1], f[2]))
    <3>1. \E k \in 0..11, d \in 1..25 : FixedOn(k, d) /\ h \in FedObserved(DateOf(jan + k, d))
      <4>1. PICK f \in fixed : h \in FedObserved(DateOf(jan + f[1], f[2]))
        BY <2>7
      <4>2. f[1] \in 0..11 /\ f[2] \in 1..25 /\ f = <<f[1], f[2]>>
        OBVIOUS
      <4>3. FixedOn(f[1], f[2])
        BY <4>2 DEF FixedOn
      <4>. QED
        BY <4>1, <4>2, <4>3
    <3>2. PICK k \in 0..11, d \in 1..25 : FixedOn(k, d) /\ h \in FedObserved(DateOf(jan + k, d))
      BY <3>1
    <3>3. h \in Nat /\ LiesIn(h, jan + k) /\ HolidayIn(h, jan + k)
      <4>. DEFINE m == jan + k
      <4>1. m \in Nat /\ m % 12 = k
        BY <1>2, MonthOfYear DEF jan
      <4>2. h \in FedObserved(DateOf(m, d))
        BY <3>2
      <4>. HIDE DEF m
      <4>3. h \in Nat /\ LiesIn(h, m) /\ HolidayIn(h, m)
        BY <3>2, <4>1, <4>2, Observed
      <4>. QED
        BY <4>3 DEF m
    <3>. QED
      BY <1>7, <3>3
  <2>. QED
    BY <1>3, <2>1, <2>2, <2>3, <2>4, <2>5, <2>6, <2>7

\* Two holidays of one month, or of two that follow each other, are six days apart.
LEMMA ApartInMonth ==
    ASSUME NEW k \in 0..11, NEW d \in Int, NEW e \in Int, NEW w \in 0..6, NEW v \in 0..6,
           d < e, v = (w + e - d) % 7, Place(k, d, w), Place(k, e, v)
    PROVE  e >= d + 6
<1>. SUFFICES ASSUME e <= d + 5 PROVE FALSE
  OBVIOUS
<1>1. e - d \in {1, 2, 3, 4, 5}
  OBVIOUS
<1>2. v # w
  BY <1>1
<1>3. e = d + 1 /\ v = 0 => w = 6
  BY <1>1
<1>4. CASE k = 0
  BY <1>1, <1>2, <1>3, <1>4 DEF Place, FixedOn
<1>5. CASE k = 5
  BY <1>1, <1>2, <1>3, <1>5 DEF Place, FixedOn
<1>6. CASE k = 6
  BY <1>1, <1>2, <1>3, <1>6 DEF Place, FixedOn
<1>7. CASE k = 10
  BY <1>1, <1>2, <1>3, <1>7 DEF Place, FixedOn
<1>8. CASE k = 11
  BY <1>1, <1>2, <1>3, <1>8 DEF Place, FixedOn
<1>9. CASE k \in {1, 4, 8, 9}
  BY <1>1, <1>2, <1>9 DEF Place, FixedOn
<1>10. CASE k \in {2, 3, 7}
  BY <1>10 DEF Place, FixedOn
<1>. QED
  BY <1>4, <1>5, <1>6, <1>7, <1>8, <1>9, <1>10

LEMMA ApartOverMonths ==
    ASSUME NEW k \in 0..11, NEW l \in 0..11, NEW d \in Int, NEW e \in Int, NEW n \in 28..31,
           NEW w, NEW v, l = (k + 1) % 12, k = 11 => n = 31,
           1 <= e, Place(k, d, w), Place(l, e, v)
    PROVE  n + e >= d + 6
<1>1. k = 11 => l = 0
  OBVIOUS
<1>2. k # 11 => l = k + 1
  OBVIOUS
<1>3. CASE k = 11
  <2>1. d \in {25, 26}
    BY <1>3 DEF Place, FixedOn
  <2>. QED
    BY <1>3, <2>1
<1>4. CASE k = 0
  BY <1>2, <1>4 DEF Place, FixedOn
<1>5. CASE k \in {1, 2, 3, 6, 7}
  BY <1>2, <1>5 DEF Place, FixedOn
<1>6. CASE k \in {4, 5, 8, 9, 10}
  BY <1>2, <1>6 DEF Place, FixedOn
<1>. QED
  BY <1>3, <1>4, <1>5, <1>6

\* Bank holidays are six days apart.
LEMMA HolidaysApart ==
    ASSUME NEW h \in BankHolidays, NEW j \in BankHolidays, h < j
    PROVE  h \in Nat /\ j \in Nat /\ j >= h + 6
<1>1. PICK m \in Nat : h \in Nat /\ LiesIn(h, m) /\ HolidayIn(h, m)
  BY HolidayIs
<1>2. PICK o \in Nat : j \in Nat /\ LiesIn(j, o) /\ HolidayIn(j, o)
  BY HolidayIs
<1>. DEFINE F == FirstOf(m)
            N == FirstOf(m + 1)
            d == h - F + 1
            k == m % 12
<1>3. F \in Nat /\ N \in Nat /\ F + 28 <= N /\ N <= F + 31 /\ k \in 0..11 /\ (k = 11 => N = F + 31)
  BY MonthLength
<1>4. F <= h /\ h < N /\ Place(k, d, h % 7) /\ d \in Int /\ h % 7 \in 0..6
  BY <1>1, <1>3 DEF LiesIn, HolidayIn, Weekday
<1>. SUFFICES ASSUME j <= h + 5 PROVE FALSE
  BY <1>1, <1>2
<1>5. CASE o = m
  <2>. DEFINE e == j - F + 1
  <2>. HIDE DEF F
  <2>1. Place(k, e, j % 7) /\ e \in Int /\ j % 7 \in 0..6
    BY <1>2, <1>3, <1>5 DEF HolidayIn, Weekday, F
  <2>2. j % 7 = ((h % 7) + e - d) % 7
    <3>1. e - d = j - h
      BY <1>1, <1>2, <1>3
    <3>2. \A x \in 0..5 : (h + x) % 7 = ((h % 7) + x) % 7
      BY <1>1
    <3>3. j - h \in 0..5 /\ j = h + (j - h)
      BY <1>1, <1>2
    <3>4. j % 7 = ((h % 7) + (j - h)) % 7
      BY <3>2, <3>3
    <3>5. (h % 7) + e - d = (h % 7) + (j - h)
      BY <1>1, <1>2, <1>3
    <3>. QED
      BY <3>4, <3>5
  <2>3. d < e /\ e <= d + 5
    BY <1>1, <1>2, <1>3
  <2>. DEFINE w == h % 7
              v == j % 7
  <2>4. /\ k \in 0..11 /\ d \in Int /\ e \in Int /\ w \in 0..6 /\ v \in 0..6
        /\ d < e /\ v = (w + e - d) % 7 /\ Place(k, d, w) /\ Place(k, e, v)
    BY <1>3, <1>4, <2>1, <2>2, <2>3
  <2>. HIDE DEF d, e, k, w, v
  <2>5. e >= d + 6
    BY <2>4, ApartInMonth
  <2>. QED
    BY <2>3, <2>4, <2>5
<1>6. CASE o # m
  <2>1. o = m + 1
    <3>1. h \in Nat /\ j \in Nat /\ MonthNo(h) = m /\ MonthNo(j) = o
      BY <1>1, <1>2, MonthIs
    <3>2. m <= o
      BY <3>1, MonthsInOrder
    <3>3. ASSUME m + 2 <= o PROVE FALSE
      <4>1. m + 1 \in Nat /\ m + 1 <= o
        BY <3>3
      <4>2. FirstOf(m + 1) + 28 * (o - (m + 1)) <= FirstOf(o) /\ FirstOf(o) \in Nat
        BY <4>1, MonthsForward, MonthLength
      <4>3. N + 28 <= FirstOf(o)
        BY <1>3, <3>3, <4>2
      <4>4. FirstOf(o) <= j
        BY <1>2 DEF LiesIn
      <4>. HIDE DEF N
      <4>. QED
        BY <1>1, <1>2, <1>3, <1>4, <4>2, <4>3, <4>4
    <3>. QED
      BY <1>6, <3>2, <3>3
  <2>. DEFINE e == j - N + 1
              l == o % 12
              n == N - F
  <2>2. Place(l, e, j % 7) /\ e \in Int /\ l \in 0..11
    BY <1>2, <1>3, <2>1 DEF HolidayIn, Weekday
  <2>3. l = (k + 1) % 12
    BY <2>1
  <2>4. 1 <= e
    BY <1>2, <1>3, <2>1 DEF LiesIn
  <2>. HIDE DEF F, N
  <2>5. n \in 28..31 /\ (k = 11 => n = 31)
    BY <1>3
  <2>6. n + e = j - F + 1
    BY <1>2, <1>3
  <2>7. n + e <= d + 5
    BY <1>1, <1>2, <1>3, <2>6
  <2>. HIDE DEF d, e, k, l, n
  <2>8. n + e >= d + 6
    BY <1>3, <1>4, <2>2, <2>3, <2>4, <2>5, ApartOverMonths
  <2>. QED
    BY <1>4, <2>2, <2>5, <2>7, <2>8
<1>. QED
  BY <1>5, <1>6

-----------------------------------------------------------------------------
(* Business days *)

\* Of five days in a row, banks are open on one.
LEMMA OpenWithin ==
    ASSUME NEW n \in Int
    PROVE  \E d \in n..(n + 4) : IsBusinessDay(d)
<1>1. \E a \in n..(n + 3) : a % 7 \in 0..3
  <2>1. n % 7 \in {0, 1, 2, 3, 4, 5, 6}
    OBVIOUS
  <2>2. CASE n % 7 \in 0..3
    BY <2>2
  <2>3. CASE n % 7 = 4
    <3>1. (n + 3) % 7 = 0
      BY <2>3
    <3>. QED
      BY <3>1
  <2>4. CASE n % 7 = 5
    <3>1. (n + 2) % 7 = 0
      BY <2>4
    <3>. QED
      BY <3>1
  <2>5. CASE n % 7 = 6
    <3>1. (n + 1) % 7 = 0
      BY <2>5
    <3>. QED
      BY <3>1
  <2>. QED
    BY <2>1, <2>2, <2>3, <2>4, <2>5
<1>2. PICK a \in n..(n + 3) : a % 7 \in 0..3
  BY <1>1
<1>3. a \in n..(n + 4) /\ a + 1 \in n..(n + 4) /\ (a + 1) % 7 \in 0..4 /\ a % 7 \in 0..4
  BY <1>2
<1>4. ASSUME ~IsBusinessDay(a), ~IsBusinessDay(a + 1) PROVE FALSE
  <2>1. a \in BankHolidays /\ a + 1 \in BankHolidays
    BY <1>3, <1>4 DEF IsBusinessDay, Weekday, Saturday, Sunday
  <2>2. a < a + 1 /\ a + 1 < a + 6
    BY <1>3
  <2>. QED
    BY <2>1, <2>2, HolidaysApart
<1>. QED
  BY <1>3, <1>4

\* The least and the largest of some integers.
LEMMA LeastInt ==
    ASSUME NEW S \in SUBSET Int, S # {}, NEW a \in Int, \A s \in S : a <= s
    PROVE  Min(S) \in S /\ \A s \in S : Min(S) <= s
<1>. DEFINE T == {s - a : s \in S}
<1>0. \A s \in S : s \in Int /\ s - a \in Nat /\ a <= s
  OBVIOUS
<1>1. T \in SUBSET Nat /\ T # {}
  BY <1>0
<1>2. PICK t \in T : \A u \in T : t <= u
  BY <1>1, LeastOf
<1>3. PICK s \in S : t = s - a
  BY <1>2
<1>4. \A u \in S : s <= u
  <2>1. \A u \in S : t <= u - a
    BY <1>2
  <2>. QED
    BY <1>0, <1>3, <2>1
<1>. QED
  BY <1>3, <1>4 DEF Min

LEMMA LargestInt ==
    ASSUME NEW S \in SUBSET Int, S # {}, NEW a \in Int, \A s \in S : s <= a
    PROVE  Max(S) \in S /\ \A s \in S : s <= Max(S)
<1>. DEFINE T == {a - s : s \in S}
<1>0. \A s \in S : s \in Int /\ a - s \in Nat /\ s <= a
  OBVIOUS
<1>1. T \in SUBSET Nat /\ T # {}
  BY <1>0
<1>2. PICK t \in T : \A u \in T : t <= u
  BY <1>1, LeastOf
<1>3. PICK s \in S : t = a - s
  BY <1>2
<1>4. \A u \in S : s >= u
  <2>1. \A u \in S : t <= a - u
    BY <1>2
  <2>. QED
    BY <1>0, <1>3, <2>1
<1>. QED
  BY <1>3, <1>4 DEF Max

\* The business day after a day, and the one before it, are at most five days away.
LEMMA NextIs ==
    ASSUME NEW n \in Int
    PROVE  /\ NextBusinessDay(n) \in (n + 1)..(n + 5) /\ IsBusinessDay(NextBusinessDay(n))
           /\ \A d \in (n + 1)..(n + 5) : IsBusinessDay(d) => NextBusinessDay(n) <= d
<1>. DEFINE S == {d \in (n + 1)..(n + MaxClosedRun) : IsBusinessDay(d)}
<1>1. MaxClosedRun \in Nat /\ MaxClosedRun >= 7
  BY CadenceAssumption
<1>2. \E d \in (n + 1)..((n + 1) + 4) : IsBusinessDay(d)
  BY OpenWithin
<1>3. PICK d \in S : d <= n + 5
  BY <1>1, <1>2
<1>4. S \in SUBSET Int /\ S # {} /\ n + 1 \in Int /\ \A s \in S : n + 1 <= s
  BY <1>1, <1>3
<1>5. \A e \in (n + 1)..(n + 5) : IsBusinessDay(e) => e \in S
  BY <1>1
<1>6. \A s \in S : s \in Int /\ n + 1 <= s /\ IsBusinessDay(s)
  BY <1>1
<1>7. NextBusinessDay(n) = Min(S)
  BY DEF NextBusinessDay
<1>. HIDE DEF S
<1>8. Min(S) \in S /\ \A s \in S : Min(S) <= s
  BY <1>4, LeastInt
<1>9. Min(S) \in Int /\ n + 1 <= Min(S) /\ Min(S) <= n + 5
  BY <1>3, <1>6, <1>8
<1>. QED
  BY <1>5, <1>6, <1>7, <1>8, <1>9

LEMMA PreviousIs ==
    ASSUME NEW n \in Int
    PROVE  /\ PreviousBusinessDay(n) \in (n - 5)..(n - 1) /\ IsBusinessDay(PreviousBusinessDay(n))
           /\ \A d \in (n - 5)..(n - 1) : IsBusinessDay(d) => d <= PreviousBusinessDay(n)
<1>. DEFINE S == {d \in (n - MaxClosedRun)..(n - 1) : IsBusinessDay(d)}
<1>1. MaxClosedRun \in Nat /\ MaxClosedRun >= 7
  BY CadenceAssumption
<1>2. \E d \in (n - 5)..((n - 5) + 4) : IsBusinessDay(d)
  <2>1. n - 5 \in Int
    OBVIOUS
  <2>. QED
    BY <2>1, OpenWithin
<1>3. PICK d \in S : n - 5 <= d
  BY <1>1, <1>2
<1>4. S \in SUBSET Int /\ S # {} /\ n - 1 \in Int /\ \A s \in S : s <= n - 1
  BY <1>1, <1>3
<1>5. \A e \in (n - 5)..(n - 1) : IsBusinessDay(e) => e \in S
  BY <1>1
<1>6. \A s \in S : s \in Int /\ s <= n - 1 /\ IsBusinessDay(s)
  BY <1>1
<1>7. PreviousBusinessDay(n) = Max(S)
  BY DEF PreviousBusinessDay
<1>. HIDE DEF S
<1>8. Max(S) \in S /\ \A s \in S : s <= Max(S)
  BY <1>4, LargestInt
<1>9. Max(S) \in Int /\ n - 5 <= Max(S) /\ Max(S) <= n - 1
  BY <1>3, <1>6, <1>8
<1>. QED
  BY <1>5, <1>6, <1>7, <1>8, <1>9

\* What the conventions do to a date: nothing to a business day, and otherwise they move
\* it by four days at most.
LEMMA Following ==
    ASSUME NEW n \in Int
    PROVE  /\ Adjust(n, "following") \in n..(n + 4) /\ IsBusinessDay(Adjust(n, "following"))
           /\ \A d \in n..(n + 4) : IsBusinessDay(d) => Adjust(n, "following") <= d
<1>1. CASE IsBusinessDay(n)
  <2>1. Adjust(n, "following") = n
    BY <1>1 DEF Adjust
  <2>. QED
    BY <1>1, <2>1
<1>2. CASE ~IsBusinessDay(n)
  <2>1. Adjust(n, "following") = NextBusinessDay(n)
    BY <1>2 DEF Adjust
  <2>2. PICK d \in n..(n + 4) : IsBusinessDay(d)
    BY OpenWithin
  <2>3. d # n /\ d \in (n + 1)..(n + 5)
    BY <1>2, <2>2
  <2>4. /\ NextBusinessDay(n) \in (n + 1)..(n + 5) /\ IsBusinessDay(NextBusinessDay(n))
        /\ \A e \in (n + 1)..(n + 5) : IsBusinessDay(e) => NextBusinessDay(n) <= e
    BY NextIs
  <2>5. NextBusinessDay(n) <= d
    BY <2>2, <2>3, <2>4
  <2>6. NextBusinessDay(n) \in n..(n + 4)
    BY <2>2, <2>4, <2>5
  <2>7. ASSUME NEW e \in n..(n + 4), IsBusinessDay(e) PROVE NextBusinessDay(n) <= e
    <3>1. e # n
      BY <1>2, <2>7
    <3>. QED
      BY <2>4, <2>7, <3>1
  <2>. QED
    BY <2>1, <2>4, <2>6, <2>7
<1>. QED
  BY <1>1, <1>2

LEMMA Preceding ==
    ASSUME NEW n \in Int
    PROVE  /\ Adjust(n, "preceding") \in (n - 4)..n /\ IsBusinessDay(Adjust(n, "preceding"))
           /\ \A d \in (n - 4)..n : IsBusinessDay(d) => d <= Adjust(n, "preceding")
<1>1. CASE IsBusinessDay(n)
  <2>1. Adjust(n, "preceding") = n
    BY <1>1 DEF Adjust
  <2>. QED
    BY <1>1, <2>1
<1>2. CASE ~IsBusinessDay(n)
  <2>1. Adjust(n, "preceding") = PreviousBusinessDay(n)
    BY <1>2 DEF Adjust
  <2>2. \E d \in (n - 4)..((n - 4) + 4) : IsBusinessDay(d)
    <3>1. n - 4 \in Int
      OBVIOUS
    <3>. QED
      BY <3>1, OpenWithin
  <2>3. PICK d \in (n - 4)..n : IsBusinessDay(d)
    BY <2>2
  <2>4. /\ PreviousBusinessDay(n) \in (n - 5)..(n - 1) /\ IsBusinessDay(PreviousBusinessDay(n))
        /\ \A e \in (n - 5)..(n - 1) : IsBusinessDay(e) => e <= PreviousBusinessDay(n)
    BY PreviousIs
  <2>5. d # n /\ d \in (n - 5)..(n - 1)
    BY <1>2, <2>3
  <2>6. d <= PreviousBusinessDay(n)
    BY <2>3, <2>4, <2>5
  <2>7. PreviousBusinessDay(n) \in (n - 4)..n
    BY <2>3, <2>4, <2>6
  <2>8. ASSUME NEW e \in (n - 4)..n, IsBusinessDay(e) PROVE e <= PreviousBusinessDay(n)
    <3>1. e # n
      BY <1>2, <2>8
    <3>. QED
      BY <2>4, <2>8, <3>1
  <2>. QED
    BY <2>1, <2>4, <2>7, <2>8
<1>. QED
  BY <1>1, <1>2

\* Modified following: forward, unless that leaves the month, then back.  It never leaves
\* the month.
LEMMA ModifiedFollowing ==
    ASSUME NEW n \in Int, NEW m \in Nat, LiesIn(n, m)
    PROVE  /\ LiesIn(Adjust(n, "modified_following"), m)
           /\ Adjust(n, "modified_following") \in (n - 4)..(n + 4)
           /\ IsBusinessDay(Adjust(n, "modified_following"))
<1>. DEFINE due == Adjust(n, "modified_following")
<1>1. CASE IsBusinessDay(n)
  <2>1. due = n
    BY <1>1 DEF Adjust
  <2>. QED
    BY <1>1, <2>1
<1>2. CASE ~IsBusinessDay(n)
  <2>1. /\ Adjust(n, "following") = NextBusinessDay(n)
        /\ Adjust(n, "preceding") = PreviousBusinessDay(n)
        /\ due = IF MonthNo(NextBusinessDay(n)) = MonthNo(n)
                 THEN NextBusinessDay(n) ELSE PreviousBusinessDay(n)
    BY <1>2 DEF Adjust
  <2>. DEFINE next == NextBusinessDay(n)
              prev == PreviousBusinessDay(n)
  <2>2. /\ next \in n..(n + 4) /\ IsBusinessDay(next)
        /\ prev \in (n - 4)..n /\ IsBusinessDay(prev)
    BY <2>1, Following, Preceding
  <2>3. n \in Nat /\ MonthNo(n) = m
    BY MonthIs
  <2>4. next \in Nat
    BY <2>2, <2>3
  <2>. HIDE DEF next, prev
  <2>5. CASE MonthNo(next) = MonthNo(n)
    <3>1. due = next /\ LiesIn(next, m)
      BY <2>1, <2>3, <2>4, <2>5, MonthOf DEF next
    <3>. QED
      BY <2>2, <2>3, <3>1
  <2>6. CASE MonthNo(next) # MonthNo(n)
    <3>1. due = prev
      BY <2>1, <2>6 DEF next, prev
    <3>2. ~LiesIn(next, m)
      BY <2>2, <2>3, <2>6, MonthIs
    <3>3. FirstOf(m) \in Nat /\ FirstOf(m + 1) \in Nat /\ FirstOf(m) + 28 <= FirstOf(m + 1)
      BY MonthLength
    <3>4. FirstOf(m + 1) <= next
      BY <2>2, <2>3, <3>2, <3>3 DEF LiesIn
    <3>5. LiesIn(prev, m)
      BY <2>2, <2>3, <3>3, <3>4 DEF LiesIn
    <3>. QED
      BY <2>2, <2>3, <3>1, <3>5
  <2>. QED
    BY <2>5, <2>6
<1>. QED
  BY <1>1, <1>2

-----------------------------------------------------------------------------
(* Cash is conserved *)

\* What every reachable version is of: one of the companies, from a Monday on.
OnMondays == drivers \in DriverSets /\ monday \in Nat /\ monday % 7 = 0 /\ monday >= Far

LEMMA OnMondaysAlways == ForecastSpec => []OnMondays
<1>1. ForecastInit => OnMondays
  BY ForecastAssumption, VarianceAssumption DEF ForecastInit, OnMondays, Weekday, Monday
<1>2. OnMondays /\ [ForecastNext]_ForecastVars => OnMondays'
  <2>. SUFFICES ASSUME OnMondays, [ForecastNext]_ForecastVars PROVE OnMondays'
    OBVIOUS
  <2>1. ASSUME NEW cell \in OverrideCells, NEW amount \in OverrideAmounts, Override(cell, amount)
        PROVE  OnMondays'
    BY <2>1 DEF Override, OnMondays
  <2>2. ASSUME NEW cash, RollForward(cash) PROVE OnMondays'
    <3>1. drivers' = drivers /\ monday' = monday + 7
      BY <2>2 DEF RollForward
    <3>2. monday + 7 \in Nat /\ (monday + 7) % 7 = 0 /\ monday + 7 >= Far
      BY DEF OnMondays, Far
    <3>. QED
      BY <3>1, <3>2 DEF OnMondays
  <2>3. CASE UNCHANGED ForecastVars
    BY <2>3 DEF ForecastVars, OnMondays
  <2>. QED
    BY <2>1, <2>2, <2>3 DEF ForecastNext
<1>. QED
  BY <1>1, <1>2, PTL DEF ForecastSpec

\* A company's drivers are well formed.
LEMMA DriversAreFormed == OnMondays => DriversOK(drivers)
  BY ForecastAssumption DEF OnMondays

\* A distance below a bound, in either direction.
LEMMA Distance ==
    ASSUME NEW x \in Int, NEW y \in Int, NEW t \in Int, x - y < t, y - x < t
    PROVE  Magnitude(x - y) < t
  BY DEF Magnitude

LEMMA Bucket ==
    ASSUME NEW n \in Int
    PROVE  AgingBucket(n) \in {"current", "1-30", "31-60", "61-90", "90+"}
  BY DEF AgingBucket

\* A share in basis points of an amount is a number of minor units.
LEMMA BpsOf ==
    ASSUME NEW a \in Int, NEW b \in Nat
    PROVE  (a * b) \div Bps \in Int /\ (a >= 0 => (a * b) \div Bps >= 0)
<1>. DEFINE p == a * b
<1>1. p \in Int /\ (a >= 0 => p >= 0)
  <2>1. p \in Int
    OBVIOUS
  <2>2. a >= 0 => p >= 0
    BY Times
  <2>. QED
    BY <2>1, <2>2
<1>. HIDE DEF p
<1>2. p \div 10000 \in Int /\ (p >= 0 => p \div 10000 >= 0)
  BY <1>1
<1>. QED
  BY <1>1, <1>2 DEF p, Bps

\* An invoice is expected to bring in a number of minor units.
LEMMA ExpectedIs ==
    ASSUME NEW d, DriversOK(d), NEW invoice \in d.invoices, NEW asOf \in Int
    PROVE  ExpectedOf(d, invoice, asOf) \in Int
<1>. DEFINE bucket == AgingBucket(asOf - invoice.due)
            p == ProbabilityBps(d.curve, bucket, invoice.disputed)
<1>1. invoice.open \in Int /\ invoice.due \in Nat
  BY DEF DriversOK
<1>2. bucket \in {"current", "1-30", "31-60", "61-90", "90+"}
  BY <1>1, Bucket
<1>. HIDE DEF bucket
<1>3. d.curve.probability[bucket] \in Nat /\ d.curve.haircut \in Nat
  BY <1>2 DEF DriversOK, CurveOK
<1>4. p \in Nat
  BY <1>3, BpsOf DEF ProbabilityBps
<1>. HIDE DEF p
<1>5. (invoice.open * p) \div Bps \in Int
  BY <1>1, <1>4, BpsOf
<1>. QED
  BY <1>5 DEF ExpectedOf, bucket, p

\* The mixture an invoice is spread over is complete.
LEMMA MixtureIs ==
    ASSUME NEW curve, CurveOK(curve), NEW segment
    PROVE  /\ Len(MixtureFor(curve, segment)) \in Nat
           /\ DOMAIN MixtureFor(curve, segment) = 1..Len(MixtureFor(curve, segment))
           /\ \A i \in DOMAIN MixtureFor(curve, segment) :
                MixtureFor(curve, segment)[i].weight \in Nat
           /\ SumOver([i \in DOMAIN MixtureFor(curve, segment) |->
                          MixtureFor(curve, segment)[i].weight],
                      DOMAIN MixtureFor(curve, segment)) = Bps
<1>. DEFINE mixture == MixtureFor(curve, segment)
<1>1. \E s \in DOMAIN curve.mixture : mixture = curve.mixture[s]
  BY DEF MixtureFor, CurveOK
<1>2. PICK s \in DOMAIN curve.mixture : mixture = curve.mixture[s]
  BY <1>1
<1>3. /\ curve.mixture[s] \in Seq([weight : Nat, lag : Nat])
      /\ SumOver([i \in DOMAIN curve.mixture[s] |-> curve.mixture[s][i].weight],
                 DOMAIN curve.mixture[s]) = Bps
  BY DEF CurveOK
<1>. HIDE DEF mixture
<1>4. mixture \in Seq([weight : Nat, lag : Nat])
  BY <1>2, <1>3
<1>5. Len(mixture) \in Nat /\ DOMAIN mixture = 1..Len(mixture)
      /\ \A i \in DOMAIN mixture : mixture[i].weight \in Nat
  <2>. DEFINE E == [weight : Nat, lag : Nat]
  <2>1. \A e \in E : e.weight \in Nat
    OBVIOUS
  <2>. HIDE DEF E
  <2>2. mixture \in Seq(E)
    BY <1>4 DEF E
  <2>3. Len(mixture) \in Nat /\ DOMAIN mixture = 1..Len(mixture)
        /\ \A i \in DOMAIN mixture : mixture[i] \in E
    BY <2>2
  <2>. QED
    BY <2>1, <2>3
<1>6. SumOver([i \in DOMAIN mixture |-> mixture[i].weight], DOMAIN mixture) = Bps
  BY <1>2, <1>3
<1>. QED
  BY <1>5, <1>6 DEF mixture

\* The one draft of a promise carries the whole amount.
LEMMA SumOfOne ==
    ASSUME NEW x, NEW f, f[x] \in Int
    PROVE  SumOver(f, {x}) = f[x]
<1>1. IsFiniteSet({x})
  BY FS_Singleton
<1>2. SumOver(f, {x}) = f[x] + SumOver(f, {x} \ {x})
  BY <1>1, SumWithout
<1>3. {x} \ {x} = {}
  OBVIOUS
<1>4. SumOver(f, {x} \ {x}) = 0
  BY <1>3, SumOfNone
<1>. QED
  BY <1>2, <1>4

\* An invoice's expected cash is split over its lag modes without loss.
LEMMA OneInvoiceConserved ==
    ASSUME NEW d, DriversOK(d), NEW invoice \in d.invoices, NEW asOf \in Int,
           NEW modes, modes = InvoiceDrafts(d, invoice, asOf),
           NEW expected, expected = ExpectedOf(d, invoice, asOf),
           NEW mixture, mixture = MixtureFor(d.curve, invoice.segment)
    PROVE  /\ SumAmounts(modes) = expected
           /\ \A m \in modes : m.reference[2] # 0 =>
                    Magnitude(m.amount * Bps - expected * mixture[m.reference[2]].weight) < Bps
<1>1. expected \in Int
  BY ExpectedIs
<1>. DEFINE n == Len(mixture)
            S == 1..n
            weights == [i \in S |-> mixture[i].weight]
            parts == Allocate(expected, weights)
            amount == [m \in modes |-> m.amount]
<1>2. CurveOK(d.curve)
  BY DEF DriversOK
<1>3. /\ n \in Nat /\ DOMAIN mixture = S
      /\ \A i \in S : mixture[i].weight \in Nat
      /\ SumOver(weights, S) = Bps
  BY <1>2, MixtureIs
<1>4. DOMAIN weights = S /\ \A i \in S : weights[i] = mixture[i].weight
  OBVIOUS
<1>5. Conserves(parts, expected, weights, Bps, S)
  <2>. HIDE DEF n, weights
  <2>1. \A i \in S : weights[i] \in Nat
    BY <1>3, <1>4
  <2>2. SumOver(weights, S) > 0
    BY <1>3 DEF Bps
  <2>3. Conserves(Allocate(expected, weights), expected, weights, SumOver(weights, S), S)
    BY <1>1, <1>3, <1>4, <2>1, <2>2, AllocateIs
  <2>. QED
    BY <1>3, <2>3
<1>6. CASE invoice.promise # NoPromise
  <2>. DEFINE only == Draft("receipts_trade_ar", Adjust(invoice.promise, "following"), expected,
                            <<invoice.ref, 0>>)
  <2>1. modes = {only}
    BY <1>6 DEF InvoiceDrafts
  <2>2. only.amount = expected /\ only.reference[2] = 0
    BY DEF Draft
  <2>3. amount[only] = expected
    BY <2>1, <2>2
  <2>. HIDE DEF only, amount
  <2>4. SumOver(amount, modes) = expected
    BY <1>1, <2>1, <2>3, SumOfOne
  <2>. QED
    BY <2>1, <2>2, <2>4 DEF SumAmounts, amount
<1>7. CASE invoice.promise = NoPromise
  <2>. DEFINE row == [i \in S |-> Draft("receipts_trade_ar",
                                        Adjust(invoice.due + mixture[i].lag, "following"),
                                        parts[i], <<invoice.ref, i>>)]
  <2>1. modes = {Draft("receipts_trade_ar", Adjust(invoice.due + mixture[i].lag, "following"),
                       parts[i], <<invoice.ref, i>>) : i \in S}
    <3>1. modes = {Draft("receipts_trade_ar", Adjust(invoice.due + mixture[i].lag, "following"),
                         Allocate(expected, [j \in DOMAIN mixture |-> mixture[j].weight])[i],
                         <<invoice.ref, i>>) : i \in DOMAIN mixture}
      BY <1>7 DEF InvoiceDrafts
    <3>. QED
      BY <1>3, <3>1
  <2>. HIDE DEF parts
  <2>2. \A i \in S : row[i].amount = parts[i] /\ row[i].reference = <<invoice.ref, i>>
    BY DEF Draft
  <2>3. modes = {row[i] : i \in S}
    BY <2>1
  <2>. HIDE DEF row
  <2>4. ASSUME NEW i \in S
        PROVE  parts[i] \in Int /\ amount[row[i]] = parts[i] /\ row[i] \in modes
    BY <1>5, <2>2, <2>3 DEF Conserves
  <2>5. ASSUME NEW i \in S, NEW j \in S, row[i] = row[j] PROVE i = j
    <3>1. <<invoice.ref, i>> = <<invoice.ref, j>>
      BY <2>2, <2>5
    <3>. QED
      BY <3>1
  <2>6. \A t \in modes : \E i \in S : row[i] = t
    BY <2>3
  <2>7. IsFiniteSet(S)
    BY <1>3, UpToN
  <2>8. SumAmounts(modes) = expected
    <3>. HIDE DEF amount, S
    <3>1. SumOver(amount, modes) = SumOver(parts, S)
      BY <2>4, <2>5, <2>6, <2>7, SumMovedOnto
    <3>. QED
      BY <1>5, <3>1 DEF Conserves, SumAmounts, amount
  <2>9. ASSUME NEW m \in modes
        PROVE  Magnitude(m.amount * Bps - expected * mixture[m.reference[2]].weight) < Bps
    <3>1. PICK i \in S : m = row[i]
      BY <2>6
    <3>2. m.amount = parts[i] /\ m.reference[2] = i
      BY <2>2, <3>1
    <3>3. /\ parts[i] \in Int /\ parts[i] * Bps - expected * weights[i] < Bps
          /\ expected * weights[i] - parts[i] * Bps < Bps
      BY <1>5 DEF Conserves
    <3>. HIDE DEF weights
    <3>4. parts[i] * Bps \in Int /\ expected * weights[i] \in Int /\ Bps \in Int
      BY <1>1, <1>3, <1>4, <3>3 DEF Bps
    <3>5. Magnitude(parts[i] * Bps - expected * weights[i]) < Bps
      BY <3>3, <3>4, Distance
    <3>. QED
      BY <1>4, <3>2, <3>5
  <2>. QED
    BY <2>8, <2>9
<1>. QED
  BY <1>6, <1>7

LEMMA InvoicesAreConserved == OnMondays => InvoicesConserved
<1>. SUFFICES ASSUME OnMondays PROVE InvoicesConserved
  OBVIOUS
<1>1. DriversOK(drivers) /\ monday \in Int
  BY DriversAreFormed DEF OnMondays
<1>. QED
  BY <1>1, OneInvoiceConserved DEF InvoicesConserved

\* Some days, in order.
LEMMA DaysInOrder ==
    ASSUME NEW D \in SUBSET Int, IsFiniteSet(D)
    PROVE  /\ Cardinality(D) \in Nat
           /\ DOMAIN SortedBy(D, LAMBDA a, b : a < b) = 1..Cardinality(D)
           /\ \A k \in 1..Cardinality(D) : SortedBy(D, LAMBDA a, b : a < b)[k] \in D
<1>. DEFINE id == [x \in D |-> x]
            pairs == {p \in D \X D : p[1] # p[2] /\ p[1] < p[2]}
<1>1. /\ \A x \in D : id[x] = x /\ id[x] \in Int
      /\ \A x, y \in D : id[x] = id[y] /\ id[x] = id[y] => x = y
  OBVIOUS
<1>2. Orders(Keyed(D, id, id), D)
  <2>. HIDE DEF id
  <2>. QED
    BY <1>1, KeyedOrder
<1>3. Keyed(D, id, id) = pairs
  <2>1. \A p \in D \X D : id[p[1]] = p[1] /\ id[p[2]] = p[2] /\ p[1] \in Int /\ p[2] \in Int
    OBVIOUS
  <2>. HIDE DEF id
  <2>. QED
    BY <2>1 DEF Keyed
<1>4. SortedBy(D, LAMBDA a, b : a < b) = Sequenced(D, pairs)
  BY DEF SortedBy
<1>. HIDE DEF pairs, id
<1>. QED
  BY <1>2, <1>3, <1>4, SequencedIs

\* A sum of positive figures is positive.
LEMMA SumPositive ==
    ASSUME NEW S, IsFiniteSet(S), S # {}, NEW f, \A x \in S : f[x] \in Nat \ {0}
    PROVE  SumOver(f, S) \in Nat /\ SumOver(f, S) > 0
<1>1. PICK x \in S : TRUE
  OBVIOUS
<1>2. IsFiniteSet(S \ {x}) /\ \A y \in S : f[y] \in Int
  BY FS_Subset
<1>3. SumOver(f, S) = f[x] + SumOver(f, S \ {x})
  BY <1>2, SumWithout
<1>4. SumOver(f, S \ {x}) \in Nat
  <2>1. \A y \in S \ {x} : f[y] \in Nat
    OBVIOUS
  <2>. QED
    BY <1>2, <2>1, SumIsNumber
<1>. QED
  BY <1>3, <1>4

\* A week's receipts are spread over the days banks are open, without loss.
LEMMA OneWeekConserved ==
    ASSUME NEW amount \in Int, NEW start \in Nat, start % 7 = 0,
           NEW parts, parts = DistributeOverWeek(amount, start)
    PROVE  /\ SumOver([i \in DOMAIN parts |-> parts[i].amount], DOMAIN parts) = amount
           /\ \A i \in DOMAIN parts : IsBusinessDay(parts[i].date)
<1>. DEFINE D == BusinessDaysBetween(start, start + 6)
            n == Cardinality(D)
            S == 1..n
            days == SortedBy(D, LAMBDA a, b : a < b)
            weights == WeekdayWeights(days)
            shares == Allocate(amount, weights)
            amounts == [i \in DOMAIN parts |-> parts[i].amount]
<1>1. D \in SUBSET Int /\ \A d \in D : IsBusinessDay(d)
  BY DEF BusinessDaysBetween
<1>2. IsFiniteSet(D)
  <2>1. start \in Int /\ start + 6 \in Int
    OBVIOUS
  <2>2. IsFiniteSet(start..(start + 6))
    BY <2>1, FS_Interval
  <2>3. D \subseteq start..(start + 6)
    BY DEF BusinessDaysBetween
  <2>. HIDE DEF D
  <2>. QED
    BY <2>2, <2>3, FS_Subset
<1>3. D # {}
  <2>0. start \in Int
    OBVIOUS
  <2>1. PICK d \in start..(start + 4) : IsBusinessDay(d)
    BY <2>0, OpenWithin
  <2>2. d \in start..(start + 6)
    BY <2>1
  <2>. QED
    BY <2>1, <2>2 DEF BusinessDaysBetween
<1>. HIDE DEF D
<1>4. n \in Nat /\ DOMAIN days = S /\ \A i \in S : days[i] \in D
  BY <1>1, <1>2, DaysInOrder
<1>5. S # {} /\ IsFiniteSet(S)
  <2>1. n # 0
    BY <1>2, <1>3, FS_EmptySet
  <2>2. n \in Nat \ {0}
    BY <1>4, <2>1
  <2>. HIDE DEF n
  <2>3. 1 \in 1..n
    BY <2>2
  <2>. QED
    BY <2>2, <2>3, UpToN
<1>6. parts = [i \in S |-> [date |-> days[i], amount |-> shares[i]]]
  <2>1. parts = [i \in DOMAIN days |-> [date |-> days[i], amount |-> shares[i]]]
    BY DEF DistributeOverWeek, D
  <2>. HIDE DEF days, S, shares
  <2>. QED
    BY <1>4, <2>1
<1>. HIDE DEF n, days
<1>7. DOMAIN weights = S /\ \A i \in S : weights[i] \in Nat \ {0}
  <2>1. DOMAIN weights = S /\ \A i \in S : weights[i] = DEFAULT_RECEIPT_WEIGHTS_BPS[Weekday(days[i]) + 1]
    BY <1>4 DEF WeekdayWeights
  <2>2. ASSUME NEW i \in S PROVE Weekday(days[i]) \in {0, 1, 2, 3, 4}
    <3>1. IsBusinessDay(days[i]) /\ days[i] \in Int
      BY <1>1, <1>4
    <3>. QED
      BY <3>1 DEF IsBusinessDay, Weekday, Saturday, Sunday
  <2>3. \A x \in {0, 1, 2, 3, 4} : DEFAULT_RECEIPT_WEIGHTS_BPS[x + 1] \in Nat \ {0}
    BY DEF DEFAULT_RECEIPT_WEIGHTS_BPS
  <2>. HIDE DEF weights, S
  <2>. QED
    BY <2>1, <2>2, <2>3
<1>8. Conserves(shares, amount, weights, SumOver(weights, S), S)
  <2>. HIDE DEF weights
  <2>1. SumOver(weights, S) > 0
    <3>. HIDE DEF S
    <3>. QED
      BY <1>5, <1>7, SumPositive
  <2>2. \A i \in S : weights[i] \in Nat
    BY <1>7
  <2>. QED
    BY <1>4, <1>7, <2>1, <2>2, AllocateIs
<1>. HIDE DEF shares, S, weights
<1>9. DOMAIN parts = S /\ \A i \in S : parts[i].date = days[i] /\ parts[i].amount = shares[i]
  BY <1>6
<1>10. \A i \in S : amounts[i] = shares[i]
  BY <1>9
<1>11. SumOver(amounts, S) = SumOver(shares, S)
  <2>. HIDE DEF amounts
  <2>. QED
    BY <1>5, <1>10, SumSame
<1>12. SumOver(shares, S) = amount
  BY <1>8 DEF Conserves
<1>13. SumOver(amounts, DOMAIN parts) = amount
  BY <1>9, <1>11, <1>12
<1>. QED
  BY <1>1, <1>4, <1>9, <1>13

LEMMA WeeksAreConserved == OnMondays => WeeksConserved
<1>. SUFFICES ASSUME OnMondays, NEW w \in Weeks,
                     NEW parts, parts = DistributeOverWeek(drivers.opening + w, monday + 7 * (w - 1))
              PROVE  /\ SumOver([i \in DOMAIN parts |-> parts[i].amount], DOMAIN parts)
                          = drivers.opening + w
                     /\ \A i \in DOMAIN parts : IsBusinessDay(parts[i].date)
  BY DEF WeeksConserved
<1>1. w \in Nat /\ w >= 1
  BY ForecastAssumption DEF Weeks
<1>2. drivers.opening + w \in Int
  <2>1. DriversOK(drivers)
    BY DriversAreFormed
  <2>. QED
    BY <1>1, <2>1 DEF DriversOK
<1>3. monday + 7 * (w - 1) \in Nat /\ (monday + 7 * (w - 1)) % 7 = 0
  BY <1>1 DEF OnMondays
<1>. QED
  BY <1>2, <1>3, OneWeekConserved

\* A month is added to the month; the day stays inside it.
LEMMA AddMonthsIs ==
    ASSUME NEW n \in Nat, NEW k \in Int, MonthNo(n) + k \in Nat
    PROVE  AddMonths(n, k) \in Nat /\ LiesIn(AddMonths(n, k), MonthNo(n) + k)
<1>. DEFINE m == MonthNo(n) + k
            day == DayOfMonth(n)
            last == FirstOf(m + 1) - FirstOf(m)
            d == Min({day, last})
<1>1. MonthNo(n) \in Nat /\ LiesIn(n, MonthNo(n))
  BY MonthOf
<1>2. FirstOf(MonthNo(n)) \in Nat
  BY <1>1, MonthLength
<1>3. day \in Nat /\ 1 <= day
  BY <1>1, <1>2 DEF DayOfMonth, LiesIn
<1>. HIDE DEF day
<1>4. FirstOf(m) \in Nat /\ FirstOf(m + 1) \in Nat /\ FirstOf(m) + 28 <= FirstOf(m + 1)
  BY MonthLength
<1>5. last \in Int /\ 28 <= last
  BY <1>4
<1>6. d = IF day <= last THEN day ELSE last
  <2>. HIDE DEF last
  <2>1. day \in Int
    BY <1>3
  <2>. QED
    BY <1>5, <2>1, SmallerOfTwo
<1>7. d \in Nat /\ 1 <= d /\ d <= last
  BY <1>3, <1>5, <1>6
<1>8. AddMonths(n, k) = FirstOf(m) + d - 1
  BY DEF AddMonths, DateOf, day
<1>. HIDE DEF d
<1>. QED
  BY <1>4, <1>7, <1>8 DEF LiesIn

\* A day of an earlier month is the earlier day.
LEMMA MonthsApart ==
    ASSUME NEW x \in Int, NEW y \in Int, NEW a \in Nat, NEW b \in Nat,
           LiesIn(x, a), LiesIn(y, b), a < b
    PROVE  x < y
<1>1. a + 1 \in Nat /\ a + 1 <= b /\ FirstOf(a + 1) \in Nat /\ FirstOf(b) \in Nat
  BY MonthLength
<1>2. FirstOf(a + 1) + 28 * (b - (a + 1)) <= FirstOf(b)
  BY <1>1, MonthsForward
<1>. QED
  BY <1>1, <1>2 DEF LiesIn

LEMMA Steps ==
    ASSUME NEW frequency \in DOMAIN ServiceMonths
    PROVE  ServiceMonths[frequency] \in {1, 3, 6, 12}
  BY DEF ServiceMonths

\* Equal shares of an amount: none negative, no two more than a unit apart, and what is
\* left after any of them is not negative.
LEMMA EqualShares ==
    ASSUME NEW a \in Nat, NEW n \in Nat \ {0},
           NEW parts, parts = Allocate(a, [i \in 1..n |-> 1])
    PROVE  /\ \A i \in 1..n : parts[i] \in Nat
           /\ \A i, j \in 1..n : Magnitude(parts[i] - parts[j]) <= 1
           /\ SumOver(parts, 1..n) = a
           /\ \A k \in 0..n : a - SumOver(parts, 1..k) \in Nat
<1>. DEFINE S == 1..n
            ones == [i \in S |-> 1]
<1>1. IsFiniteSet(S) /\ Cardinality(S) = n
  BY UpToN
<1>2. DOMAIN ones = S /\ \A i \in S : ones[i] = 1
  OBVIOUS
<1>. HIDE DEF ones
<1>3. SumOver(ones, S) = n
  <2>. HIDE DEF S
  <2>. QED
    BY <1>1, <1>2, SumOfOnes
<1>4. Conserves(parts, a, ones, n, S)
  <2>1. \A i \in S : ones[i] \in Nat
    BY <1>2
  <2>2. SumOver(ones, S) > 0 /\ a \in Int /\ n \in Nat
    BY <1>3
  <2>3. Conserves(Allocate(a, ones), a, ones, SumOver(ones, S), S)
    BY <1>2, <2>1, <2>2, AllocateIs
  <2>. QED
    BY <1>3, <2>3 DEF ones
<1>5. ASSUME NEW i \in S
      PROVE  /\ parts[i] \in Nat
             /\ parts[i] * n - a < n /\ a - parts[i] * n < n
  <2>1. parts[i] \in Int /\ parts[i] * n - a * 1 < n /\ a * 1 - parts[i] * n < n
    BY <1>2, <1>4 DEF Conserves
  <2>2. parts[i] * n - a < n /\ a - parts[i] * n < n
    BY <2>1
  <2>3. ASSUME parts[i] < 0 PROVE FALSE
    <3>1. 1 * n <= (-parts[i]) * n
      <4>1. -parts[i] \in Nat /\ 1 <= -parts[i] /\ 1 \in Nat /\ n \in Nat
        BY <2>1, <2>3
      <4>. HIDE DEF S
      <4>. QED
        BY <4>1, Times
    <3>2. (-parts[i]) * n = -(parts[i] * n) /\ parts[i] * n \in Int /\ 1 * n = n
      BY <2>1
    <3>. QED
      BY <2>2, <3>1, <3>2
  <2>. QED
    BY <2>1, <2>2, <2>3
<1>6. ASSUME NEW i \in S, NEW j \in S PROVE parts[i] - parts[j] < 2
  <2>. DEFINE p == parts[i]
              q == parts[j]
  <2>1. p \in Nat /\ q \in Nat /\ p * n - a < n /\ a - q * n < n
    BY <1>5
  <2>. HIDE DEF p, q
  <2>2. ASSUME p >= q + 2 PROVE FALSE
    <3>1. (q + 2) * n <= p * n
      BY <2>1, <2>2, Times
    <3>2. (q + 2) * n = q * n + 2 * n /\ q * n \in Int /\ p * n \in Int
      BY <2>1
    <3>. QED
      BY <2>1, <3>1, <3>2
  <2>3. p - q < 2
    BY <2>1, <2>2
  <2>. QED
    BY <2>3 DEF p, q
<1>7. ASSUME NEW i \in S, NEW j \in S PROVE Magnitude(parts[i] - parts[j]) <= 1
  <2>1. parts[i] \in Nat /\ parts[j] \in Nat /\ parts[i] - parts[j] < 2 /\ parts[j] - parts[i] < 2
    BY <1>5, <1>6
  <2>. QED
    BY <2>1 DEF Magnitude
<1>8. SumOver(parts, S) = a
  BY <1>4 DEF Conserves
<1>9. ASSUME NEW k \in 0..n PROVE a - SumOver(parts, 1..k) \in Nat
  <2>. DEFINE A == 1..k
              B == S \ A
  <2>1. A \subseteq S /\ A \cup B = S /\ A \cap B = {}
    OBVIOUS
  <2>2. IsFiniteSet(A) /\ IsFiniteSet(B)
    BY <1>1, <2>1, FS_Subset
  <2>3. \A x \in S : parts[x] \in Nat /\ parts[x] \in Int
    BY <1>5
  <2>. HIDE DEF A, B, S
  <2>4. SumOver(parts, A \cup B) = SumOver(parts, A) + SumOver(parts, B)
    BY <2>1, <2>2, <2>3, SumApart
  <2>5. SumOver(parts, A) \in Nat /\ SumOver(parts, B) \in Nat
    BY <2>1, <2>2, <2>3, SumIsNumber
  <2>6. a = SumOver(parts, A) + SumOver(parts, B)
    BY <1>8, <2>1, <2>4
  <2>7. a - SumOver(parts, A) \in Nat
    BY <2>5, <2>6
  <2>. QED
    BY <2>7 DEF A
<1>. QED
  BY <1>5, <1>7, <1>8, <1>9

\* Interest on what is not negative is not.
LEMMA InterestIs ==
    ASSUME NEW principal \in Nat, NEW rateBps \in Nat, NEW days \in Nat
    PROVE  AccruedInterest(principal, rateBps, days) \in Nat
<1>. DEFINE p == principal * rateBps * days
            q == p \div 3600000
<1>1. p \in Nat
  <2>1. principal * rateBps \in Nat
    BY Times
  <2>. HIDE DEF p
  <2>2. (principal * rateBps) * days \in Nat
    BY <2>1, Times
  <2>. QED
    BY <2>2 DEF p
<1>. HIDE DEF p
<1>2. q \in Nat
  BY <1>1
<1>3. Bps * DayCountBasis = 3600000
  BY DEF Bps, DayCountBasis
<1>4. AccruedInterest(principal, rateBps, days) = DivRound(p, 3600000, "half_even")
  BY <1>3 DEF AccruedInterest, p
<1>5. Magnitude(p) = p /\ Magnitude(3600000) = 3600000 /\ ~(p < 0) /\ ~(3600000 < 0)
  BY <1>1 DEF Magnitude
<1>6. DivRound(p, 3600000, "half_even") \in {q, q + 1}
  BY <1>5 DEF DivRound, Signed
<1>. HIDE DEF q
<1>. QED
  BY <1>2, <1>4, <1>6

\* A loan is repaid to the last minor unit, in instalments a unit apart, on dates that go
\* forward.
Repays(rows, periods) ==
    /\ rows[periods].closing = 0
    /\ \A i, j \in DOMAIN rows :
          /\ Magnitude(rows[i].principal - rows[j].principal) <= 1
          /\ i < j => rows[i].due < rows[j].due /\ rows[j].interest >= 0

LEMMA OneLoanConserved ==
    ASSUME NEW principal \in Nat, NEW first \in Nat, NEW periods \in Nat \ {0},
           NEW rateBps \in Nat, NEW frequency \in DOMAIN ServiceMonths,
           NEW rows, rows = AmortisationSchedule(principal, first, periods, rateBps, frequency)
    PROVE  Repays(rows, periods)
<1>. DEFINE S == 1..periods
            step == ServiceMonths[frequency]
            parts == Allocate(principal, [i \in S |-> 1])
            due == [i \in S |-> Adjust(AddMonths(first, step * (i - 1)), "modified_following")]
            balance == [i \in 0..periods |-> principal - SumOver(parts, 1..i)]
<1>1. rows = [i \in S |->
                [due |-> due[i], principal |-> parts[i],
                 interest |-> IF i = 1 THEN 0
                              ELSE AccruedInterest(balance[i - 1], rateBps, due[i] - due[i - 1]),
                 closing |-> balance[i]]]
  BY DEF AmortisationSchedule
<1>2. step \in {1, 3, 6, 12}
  BY Steps
<1>3. /\ \A i \in S : parts[i] \in Nat
      /\ \A i, j \in S : Magnitude(parts[i] - parts[j]) <= 1
      /\ SumOver(parts, S) = principal
      /\ \A k \in 0..periods : principal - SumOver(parts, 1..k) \in Nat
  <2>. HIDE DEF parts
  <2>1. parts = Allocate(principal, [i \in 1..periods |-> 1])
    BY DEF parts
  <2>. QED
    BY <2>1, EqualShares
<1>4. \A k \in 0..periods : balance[k] = principal - SumOver(parts, 1..k) /\ balance[k] \in Nat
  <2>. HIDE DEF parts
  <2>. QED
    BY <1>3
<1>5. balance[periods] = 0
  <2>1. principal - principal = 0 /\ periods \in 0..periods
    OBVIOUS
  <2>. HIDE DEF parts, balance
  <2>. QED
    BY <1>3, <1>4, <2>1
<1>. DEFINE month(i) == MonthNo(first) + step * (i - 1)
<1>6. MonthNo(first) \in Nat
  BY MonthOf
<1>. HIDE DEF step, parts, balance
<1>7. ASSUME NEW i \in S PROVE due[i] \in Int /\ LiesIn(due[i], month(i)) /\ month(i) \in Nat
  <2>1. step * (i - 1) \in Int /\ month(i) \in Nat
    BY <1>2, <1>6
  <2>. DEFINE n == AddMonths(first, step * (i - 1))
  <2>2. n \in Nat /\ LiesIn(n, month(i))
    BY <2>1, AddMonthsIs
  <2>3. due[i] = Adjust(n, "modified_following")
    OBVIOUS
  <2>4. n \in Int
    BY <2>2
  <2>. HIDE DEF n, due, month
  <2>5. /\ LiesIn(Adjust(n, "modified_following"), month(i))
        /\ Adjust(n, "modified_following") \in (n - 4)..(n + 4)
    BY <2>1, <2>2, <2>4, ModifiedFollowing
  <2>6. Adjust(n, "modified_following") \in Int
    BY <2>4, <2>5
  <2>. QED
    BY <2>1, <2>3, <2>5, <2>6
<1>8. ASSUME NEW i \in S, NEW j \in S, i < j PROVE due[i] < due[j]
  <2>1. month(i) < month(j)
    BY <1>2, <1>6, <1>8
  <2>. HIDE DEF due, month
  <2>. QED
    BY <1>7, <2>1, MonthsApart
<1>. HIDE DEF due
<1>9. \A i \in S : /\ rows[i].due = due[i] /\ rows[i].principal = parts[i]
                   /\ rows[i].closing = balance[i]
                   /\ rows[i].interest = IF i = 1 THEN 0
                        ELSE AccruedInterest(balance[i - 1], rateBps, due[i] - due[i - 1])
  BY <1>1
<1>10. DOMAIN rows = S
  BY <1>1
<1>11. ASSUME NEW j \in S, j # 1 PROVE rows[j].interest \in Nat
  <2>1. j - 1 \in S /\ j - 1 < j /\ j - 1 \in 0..periods
    BY <1>11
  <2>2. due[j - 1] < due[j] /\ due[j - 1] \in Int /\ due[j] \in Int /\ balance[j - 1] \in Nat
    BY <1>4, <1>7, <1>8, <2>1
  <2>3. due[j] - due[j - 1] \in Nat
    BY <2>2
  <2>4. rows[j].interest = AccruedInterest(balance[j - 1], rateBps, due[j] - due[j - 1])
    BY <1>9, <1>11
  <2>. DEFINE b == balance[j - 1]
              days == due[j] - due[j - 1]
  <2>5. b \in Nat /\ days \in Nat /\ rateBps \in Nat
    BY <2>2, <2>3
  <2>. HIDE DEF b, days
  <2>6. AccruedInterest(b, rateBps, days) \in Nat
    BY <2>5, InterestIs
  <2>. QED
    BY <2>4, <2>6 DEF b, days
<1>12. ASSUME NEW i \in S, NEW j \in S
       PROVE  /\ Magnitude(rows[i].principal - rows[j].principal) <= 1
              /\ i < j => rows[i].due < rows[j].due /\ rows[j].interest >= 0
  <2>1. Magnitude(rows[i].principal - rows[j].principal) <= 1
    BY <1>3, <1>9
  <2>2. ASSUME i < j PROVE rows[i].due < rows[j].due /\ rows[j].interest >= 0
    <3>1. j # 1
      BY <2>2
    <3>2. rows[j].interest \in Nat
      BY <1>11, <3>1
    <3>3. \A x \in Nat : x >= 0
      OBVIOUS
    <3>. QED
      BY <1>8, <1>9, <2>2, <3>2, <3>3
  <2>. QED
    BY <2>1, <2>2
<1>13. rows[periods].closing = 0
  <2>1. periods \in S
    OBVIOUS
  <2>. HIDE DEF S
  <2>. QED
    BY <1>5, <1>9, <2>1
<1>. QED
  BY <1>10, <1>12, <1>13 DEF Repays

LEMMA LoansAreConserved == OnMondays => LoansConserved
<1>. SUFFICES ASSUME OnMondays, NEW f \in drivers.debt, NEW periods \in 1..MaxPeriods, NEW rows,
                     rows = AmortisationSchedule(f.drawn, f.first, periods, f.rateBps, f.frequency)
              PROVE  /\ rows[periods].closing = 0
                     /\ \A i, j \in DOMAIN rows :
                           /\ Magnitude(rows[i].principal - rows[j].principal) <= 1
                           /\ i < j => rows[i].due < rows[j].due /\ rows[j].interest >= 0
  BY DEF LoansConserved
<1>1. /\ f.drawn \in Nat /\ f.first \in Nat /\ f.rateBps \in Nat
      /\ f.frequency \in DOMAIN ServiceMonths
  BY DriversAreFormed DEF DriversOK
<1>2. periods \in Nat \ {0}
  BY VarianceAssumption
<1>3. rows = AmortisationSchedule(f.drawn, f.first, periods, f.rateBps, f.frequency)
  OBVIOUS
<1>. DEFINE principal == f.drawn
            first == f.first
            rate == f.rateBps
            frequency == f.frequency
<1>4. /\ principal \in Nat /\ first \in Nat /\ rate \in Nat /\ frequency \in DOMAIN ServiceMonths
      /\ rows = AmortisationSchedule(principal, first, periods, rate, frequency)
  BY <1>1, <1>3
<1>. HIDE DEF principal, first, rate, frequency
<1>5. Repays(rows, periods)
  BY <1>2, <1>4, OneLoanConserved
<1>. QED
  BY <1>5 DEF Repays

\* Splitting an amount conserves it, whoever splits it and over whatever: an invoice over
\* its lag modes, a week's receipts over its open days, a loan over its instalments.
THEOREM SplitsConserveCash == ForecastSpec => []CashIsConserved
<1>1. OnMondays => CashIsConserved
  BY InvoicesAreConserved, WeeksAreConserved, LoansAreConserved DEF CashIsConserved
<1>. QED
  BY <1>1, OnMondaysAlways, PTL

-----------------------------------------------------------------------------
(* Schedules do not depend on the window *)

\* A date paid in the month it falls due in is found by looking at the months a window
\* touches, however wide the window around it.
LEMMA WindowedDates ==
    ASSUME NEW start \in Nat, NEW end \in Nat, NEW s \in Nat, NEW e \in Nat,
           s <= start, start <= end, end <= e,
           NEW dates, \A m \in Nat : \A d \in dates[m] : d \in Int /\ LiesIn(d, m)
    PROVE  Within(UNION {dates[m] : m \in MonthStarts(start, end)}, start, end)
             = Within(Within(UNION {dates[m] : m \in MonthStarts(s, e)}, s, e), start, end)
<1>. DEFINE near == UNION {dates[m] : m \in MonthStarts(start, end)}
            wide == UNION {dates[m] : m \in MonthStarts(s, e)}
<1>1. /\ MonthStarts(start, end) = MonthNo(start)..MonthNo(end)
      /\ MonthStarts(s, e) = MonthNo(s)..MonthNo(e)
  BY DEF MonthStarts
<1>2. /\ MonthNo(start) \in Nat /\ MonthNo(end) \in Nat /\ MonthNo(s) \in Nat /\ MonthNo(e) \in Nat
      /\ MonthNo(s) <= MonthNo(start) /\ MonthNo(end) <= MonthNo(e)
  BY MonthOf, MonthsInOrder
<1>3. /\ MonthStarts(start, end) \subseteq MonthStarts(s, e)
      /\ MonthStarts(s, e) \subseteq Nat
  BY <1>1, <1>2
<1>4. near \subseteq wide
  BY <1>3
<1>5. ASSUME NEW d \in wide, start <= d, d <= end PROVE d \in near
  <2>1. PICK m \in MonthStarts(s, e) : d \in dates[m]
    OBVIOUS
  <2>2. m \in Nat /\ d \in Int /\ LiesIn(d, m)
    BY <1>3, <2>1
  <2>3. d \in Nat /\ MonthNo(d) = m
    BY <2>2, MonthIs
  <2>4. MonthNo(start) <= m /\ m <= MonthNo(end)
    BY <1>5, <2>3, MonthsInOrder
  <2>5. m \in MonthStarts(start, end)
    BY <1>1, <1>2, <2>2, <2>4
  <2>. QED
    BY <2>1, <2>5
<1>6. \A d \in wide : d \in Int
  BY <1>3
<1>. HIDE DEF near, wide
<1>7. \A d \in wide : start <= d /\ d <= end => s <= d /\ d <= e
  BY <1>6
<1>8. Within(near, start, end) = Within(Within(wide, s, e), start, end)
  BY <1>4, <1>5, <1>7 DEF Within
<1>. QED
  BY <1>8 DEF near, wide

\* Windows: the horizon, and as many months around it as Far.
LEMMA Windows ==
    ASSUME OnMondays
    PROVE  /\ monday \in Nat /\ HorizonEnd(monday) \in Nat /\ monday - Far \in Nat
           /\ HorizonEnd(monday) + Far \in Nat /\ monday - Far <= monday
           /\ monday <= HorizonEnd(monday) /\ HorizonEnd(monday) <= HorizonEnd(monday) + Far
           /\ HorizonEnd(monday) % 7 = 6 /\ monday % 7 = 0
<1>1. Horizon \in Nat /\ Horizon >= 1
  BY ForecastAssumption
<1>2. monday \in Nat /\ monday % 7 = 0 /\ monday >= 90
  BY DEF OnMondays, Far
<1>3. \A a, h \in Nat : a % 7 = 0 => (a + 7 * h - 1) % 7 = 6
  OBVIOUS
<1>. QED
  BY <1>1, <1>2, <1>3 DEF HorizonEnd, Far

LEMMA RentDaysInReach ==
    ASSUME NEW day \in 1..31, PaidInItsMonth(day) PROVE day \in 1..22
  BY CadenceAssumption DEF PaidInItsMonth

LEMMA RentWindow ==
    ASSUME NEW start \in Nat, NEW end \in Nat, NEW s \in Nat, NEW e \in Nat,
           s <= start, start <= end, end <= e, NEW day \in Nat \ {0}, day <= 22
    PROVE  MonthlyDates(start, end, day) = Within(MonthlyDates(s, e, day), start, end)
<1>. DEFINE len(m) == FirstOf(m + 1) - FirstOf(m)
            paid(m) == Adjust(DateOf(m, Min({day, len(m)})), "following")
            dates == [m \in Nat |-> {paid(m)}]
<1>1. day \in 1..22
  OBVIOUS
<1>2. ASSUME NEW m \in Nat PROVE paid(m) \in Int /\ LiesIn(paid(m), m)
  <2>1. FirstOf(m) \in Nat /\ FirstOf(m + 1) \in Nat /\ FirstOf(m) + 28 <= FirstOf(m + 1)
    BY MonthLength
  <2>2. len(m) \in Int /\ day \in Int /\ day <= len(m)
    BY <1>1, <2>1
  <2>. HIDE DEF len
  <2>3. Min({day, len(m)}) = day
    BY <2>2, SmallerOfTwo
  <2>4. DateOf(m, day) = FirstOf(m) + day - 1 /\ DateOf(m, day) \in Int
    BY <1>1, <2>1 DEF DateOf
  <2>5. paid(m) = Adjust(DateOf(m, day), "following")
    BY <2>3
  <2>. HIDE DEF paid
  <2>6. paid(m) \in DateOf(m, day)..(DateOf(m, day) + 4)
    BY <2>4, <2>5, Following
  <2>. QED
    BY <1>1, <2>1, <2>4, <2>6 DEF LiesIn
<1>3. ASSUME NEW a \in Nat, NEW b \in Nat
      PROVE  MonthlyDates(a, b, day) = Within(UNION {dates[m] : m \in MonthStarts(a, b)}, a, b)
  <2>1. MonthStarts(a, b) \subseteq Nat
    BY MonthOf DEF MonthStarts
  <2>2. {paid(m) : m \in MonthStarts(a, b)} = UNION {dates[m] : m \in MonthStarts(a, b)}
    <3>. HIDE DEF paid
    <3>1. \A m \in MonthStarts(a, b) : dates[m] = {paid(m)}
      BY <2>1
    <3>. HIDE DEF dates
    <3>2. \A x : x \in UNION {dates[m] : m \in MonthStarts(a, b)}
                <=> \E m \in MonthStarts(a, b) : x = paid(m)
      BY <3>1
    <3>. QED
      BY <3>2
  <2>3. MonthlyDates(a, b, day) = Within({paid(m) : m \in MonthStarts(a, b)}, a, b)
    BY DEF MonthlyDates
  <2>. QED
    BY <2>2, <2>3
<1>4. \A m \in Nat : \A d \in dates[m] : d \in Int /\ LiesIn(d, m)
  <2>. HIDE DEF paid
  <2>. QED
    BY <1>2
<1>. HIDE DEF dates
<1>5. \A a, b \in Nat :
        MonthlyDates(a, b, day) = Within(UNION {dates[m] : m \in MonthStarts(a, b)}, a, b)
  BY <1>3
<1>6. Within(UNION {dates[m] : m \in MonthStarts(start, end)}, start, end)
        = Within(Within(UNION {dates[m] : m \in MonthStarts(s, e)}, s, e), start, end)
  BY <1>4, WindowedDates
<1>. QED
  BY <1>5, <1>6

\* A semi-monthly pay date is paid in its month.
LEMMA SemiMonthly ==
    ASSUME NEW m \in Nat,
           NEW d \in {Adjust(DateOf(m, 15), "preceding"), Adjust(FirstOf(m + 1) - 1, "preceding")}
    PROVE  d \in Int /\ LiesIn(d, m) /\ FirstOf(m) + 10 <= d
<1>1. FirstOf(m) \in Nat /\ FirstOf(m + 1) \in Nat /\ FirstOf(m) + 28 <= FirstOf(m + 1)
  BY MonthLength
<1>. DEFINE a == DateOf(m, 15)
            b == FirstOf(m + 1) - 1
<1>2. a \in Int /\ b \in Int /\ a = FirstOf(m) + 14
  BY <1>1 DEF DateOf
<1>. HIDE DEF a, b
<1>3. Adjust(a, "preceding") \in (a - 4)..a /\ Adjust(b, "preceding") \in (b - 4)..b
  BY <1>2, Preceding
<1>4. d = Adjust(a, "preceding") \/ d = Adjust(b, "preceding")
  BY DEF a, b
<1>5. b = FirstOf(m + 1) - 1
  BY DEF b
<1>. QED
  BY <1>1, <1>2, <1>3, <1>4, <1>5 DEF LiesIn

LEMMA SemiMonthlyWindow ==
    ASSUME NEW start \in Nat, NEW end \in Nat, NEW s \in Nat, NEW e \in Nat,
           s <= start, start <= end, end <= e
    PROVE  SemiMonthlyPayDates(start, end) = Within(SemiMonthlyPayDates(s, e), start, end)
<1>. DEFINE pair(m) == {Adjust(DateOf(m, 15), "preceding"), Adjust(FirstOf(m + 1) - 1, "preceding")}
            dates == [m \in Nat |-> pair(m)]
<1>1. \A m \in Nat : \A d \in dates[m] : d \in Int /\ LiesIn(d, m)
  BY SemiMonthly
<1>2. ASSUME NEW a \in Nat, NEW b \in Nat
      PROVE  SemiMonthlyPayDates(a, b) = Within(UNION {dates[m] : m \in MonthStarts(a, b)}, a, b)
  <2>1. MonthStarts(a, b) \subseteq Nat
    BY MonthOf DEF MonthStarts
  <2>2. {pair(m) : m \in MonthStarts(a, b)} = {dates[m] : m \in MonthStarts(a, b)}
    <3>. HIDE DEF pair
    <3>. QED
      BY <2>1
  <2>3. SemiMonthlyPayDates(a, b) = Within(UNION {pair(m) : m \in MonthStarts(a, b)}, a, b)
    BY DEF SemiMonthlyPayDates
  <2>. QED
    BY <2>2, <2>3
<1>. HIDE DEF dates
<1>3. Within(UNION {dates[m] : m \in MonthStarts(start, end)}, start, end)
        = Within(Within(UNION {dates[m] : m \in MonthStarts(s, e)}, s, e), start, end)
  BY <1>1, WindowedDates
<1>. QED
  BY <1>2, <1>3

LEMMA TaxWindow ==
    ASSUME NEW start \in Nat, NEW end \in Nat, NEW s \in Nat, NEW e \in Nat,
           s <= start, start <= end, end <= e
    PROVE  QuarterlyEstimatedTaxDates(start, end)
             = Within(QuarterlyEstimatedTaxDates(s, e), start, end)
<1>. DEFINE months(a, b) == {k \in (MonthNo(a) - 12)..(MonthNo(b) + 12) :
                                k >= 0 /\ k % 12 \in {3, 5, 8, 11}}
            paid(m) == Adjust(DateOf(m, 15), "following")
            near == {paid(m) : m \in months(start, end)}
            wide == {paid(m) : m \in months(s, e)}
<1>1. /\ QuarterlyEstimatedTaxDates(start, end) = Within(near, start, end)
      /\ QuarterlyEstimatedTaxDates(s, e) = Within(wide, s, e)
  BY DEF QuarterlyEstimatedTaxDates
<1>2. /\ MonthNo(start) \in Nat /\ MonthNo(end) \in Nat /\ MonthNo(s) \in Nat /\ MonthNo(e) \in Nat
      /\ MonthNo(s) <= MonthNo(start) /\ MonthNo(end) <= MonthNo(e)
  BY MonthOf, MonthsInOrder
<1>3. /\ months(start, end) \subseteq months(s, e)
      /\ \A m \in months(s, e) : m \in Nat
      /\ \A m \in months(s, e) : MonthNo(start) <= m /\ m <= MonthNo(end) => m \in months(start, end)
  BY <1>2
<1>4. ASSUME NEW m \in Nat PROVE paid(m) \in Int /\ LiesIn(paid(m), m)
  <2>1. FirstOf(m) \in Nat /\ FirstOf(m + 1) \in Nat /\ FirstOf(m) + 28 <= FirstOf(m + 1)
    BY MonthLength
  <2>2. DateOf(m, 15) = FirstOf(m) + 14 /\ DateOf(m, 15) \in Int
    BY <2>1 DEF DateOf
  <2>. HIDE DEF months
  <2>3. paid(m) \in DateOf(m, 15)..(DateOf(m, 15) + 4)
    BY <2>2, Following
  <2>. HIDE DEF paid
  <2>. QED
    BY <2>1, <2>2, <2>3 DEF LiesIn
<1>. HIDE DEF paid, months
<1>5. near \subseteq wide
  BY <1>3
<1>6. ASSUME NEW d \in wide, start <= d, d <= end PROVE d \in near
  <2>1. PICK m \in months(s, e) : d = paid(m)
    OBVIOUS
  <2>2. m \in Nat /\ d \in Int /\ LiesIn(d, m)
    BY <1>3, <1>4, <2>1
  <2>3. d \in Nat /\ MonthNo(d) = m
    BY <2>2, MonthIs
  <2>4. MonthNo(start) <= m /\ m <= MonthNo(end)
    BY <1>6, <2>3, MonthsInOrder
  <2>5. m \in months(start, end)
    BY <1>3, <2>4
  <2>. QED
    BY <2>1, <2>5
<1>7. \A d \in wide : d \in Int
  BY <1>3, <1>4
<1>. HIDE DEF near, wide
<1>8. \A d \in wide : start <= d /\ d <= end => s <= d /\ d <= e
  BY <1>7
<1>9. Within(near, start, end) = Within(Within(wide, s, e), start, end)
  BY <1>5, <1>6, <1>8 DEF Within
<1>. QED
  BY <1>1, <1>9

\* A payment run of the week after the horizon is not paid inside it: Monday and Tuesday are
\* never both closed.
LEMMA RunWindow ==
    ASSUME NEW start \in Nat, NEW end \in Nat, NEW s \in Nat, NEW e \in Nat,
           s <= start, start <= end, end <= e, end % 7 = 6, NEW weekday \in 1..6
    PROVE  ApRunDates(start, end, weekday) = Within(ApRunDates(s, e, weekday), start, end)
<1>. DEFINE days(a, b) == {n \in a..b : Weekday(n) = weekday}
            paid(d) == Adjust(d, "preceding")
            near == {paid(d) : d \in days(start, end)}
            wide == {paid(d) : d \in days(s, e)}
<1>1. /\ ApRunDates(start, end, weekday) = Within(near, start, end)
      /\ ApRunDates(s, e, weekday) = Within(wide, s, e)
  BY DEF ApRunDates
<1>2. /\ days(start, end) \subseteq days(s, e)
      /\ \A n \in days(s, e) : n \in Int /\ n % 7 = weekday
      /\ \A n \in days(s, e) : start <= n /\ n <= end => n \in days(start, end)
  BY DEF Weekday
<1>3. ASSUME NEW n \in Int
      PROVE  /\ paid(n) \in Int /\ paid(n) <= n
             /\ \A d \in (n - 4)..n : IsBusinessDay(d) => d <= paid(n)
  BY Preceding
<1>. HIDE DEF paid, days
<1>4. near \subseteq wide
  BY <1>2
<1>5. ASSUME NEW d \in wide, start <= d, d <= end PROVE d \in near
  <2>1. PICK n \in days(s, e) : d = paid(n)
    OBVIOUS
  <2>2. n \in Int /\ n % 7 = weekday /\ start <= n
    BY <1>2, <1>3, <1>5, <2>1
  <2>3. n <= end
    <3>. SUFFICES ASSUME end < n PROVE FALSE
      BY <2>2
    <3>1. end + 2 <= n
      <4>1. (end + 1) % 7 = 0
        OBVIOUS
      <4>. QED
        BY <2>2, <4>1
    <3>2. \E o \in {end + 1, end + 2} : IsBusinessDay(o)
      <4>1. (end + 1) % 7 = 0 /\ (end + 2) % 7 = 1
        OBVIOUS
      <4>2. ASSUME ~IsBusinessDay(end + 1), ~IsBusinessDay(end + 2) PROVE FALSE
        <5>1. end + 1 \in BankHolidays /\ end + 2 \in BankHolidays
          BY <4>1, <4>2 DEF IsBusinessDay, Weekday, Saturday, Sunday
        <5>2. end + 1 < end + 2 /\ end + 2 < (end + 1) + 6
          OBVIOUS
        <5>. QED
          BY <5>1, <5>2, HolidaysApart
      <4>. QED
        BY <4>2
    <3>3. PICK o \in {end + 1, end + 2} : IsBusinessDay(o)
      BY <3>2
    <3>4. d \in Int /\ d <= end
      BY <1>3, <1>5, <2>1, <2>2
    <3>5. CASE n - 4 <= o
      <4>1. o \in (n - 4)..n
        BY <2>2, <3>1, <3>3, <3>5
      <4>2. o <= paid(n)
        BY <1>3, <2>2, <3>3, <4>1
      <4>. QED
        BY <2>1, <3>3, <3>4, <4>2
    <3>6. CASE o < n - 4
      <4>1. PICK c \in (n - 4)..((n - 4) + 4) : IsBusinessDay(c)
        <5>1. n - 4 \in Int
          BY <2>2
        <5>. QED
          BY <5>1, OpenWithin
      <4>2. c \in (n - 4)..n /\ c \in Int /\ end < c
        BY <2>2, <3>3, <3>6, <4>1
      <4>3. c <= paid(n)
        BY <1>3, <2>2, <4>1, <4>2
      <4>. QED
        BY <2>1, <3>4, <4>2, <4>3
    <3>. QED
      BY <2>2, <3>3, <3>5, <3>6
  <2>4. n \in days(start, end)
    BY <1>2, <2>2, <2>3
  <2>. QED
    BY <2>1, <2>4
<1>6. \A d \in wide : d \in Int
  BY <1>2, <1>3
<1>. HIDE DEF near, wide
<1>7. \A d \in wide : start <= d /\ d <= end => s <= d /\ d <= e
  BY <1>6
<1>8. Within(near, start, end) = Within(Within(wide, s, e), start, end)
  BY <1>4, <1>5, <1>7 DEF Within
<1>. QED
  BY <1>1, <1>8

\* Rent, estimated tax, semi-monthly pay and payment runs are found whatever the window.
THEOREM WindowsDoNotMatter == ForecastSpec => []SchedulesAreWindowIndependent
<1>1. OnMondays => SchedulesAreWindowIndependent
  <2>. SUFFICES ASSUME OnMondays PROVE SchedulesAreWindowIndependent
    OBVIOUS
  <2>. DEFINE start == monday
              end == HorizonEnd(monday)
              s == monday - Far
              e == HorizonEnd(monday) + Far
  <2>1. /\ start \in Nat /\ end \in Nat /\ s \in Nat /\ e \in Nat
        /\ s <= start /\ start <= end /\ end <= e /\ end % 7 = 6
    BY Windows
  <2>2. drivers.rentDay \in 1..31 /\ drivers.apWeekday \in 0..6
    BY DriversAreFormed DEF DriversOK
  <2>. HIDE DEF start, end, s, e
  <2>3. PaidInItsMonth(drivers.rentDay) =>
          MonthlyDates(start, end, drivers.rentDay)
            = Within(MonthlyDates(s, e, drivers.rentDay), start, end)
    <3>1. PaidInItsMonth(drivers.rentDay) => drivers.rentDay \in 1..22
      BY <2>2, RentDaysInReach
    <3>2. ASSUME NEW day \in Nat \ {0}, day <= 22
          PROVE  MonthlyDates(start, end, day) = Within(MonthlyDates(s, e, day), start, end)
      BY <2>1, <3>2, RentWindow
    <3>. QED
      BY <3>1, <3>2
  <2>4. QuarterlyEstimatedTaxDates(start, end) = Within(QuarterlyEstimatedTaxDates(s, e), start, end)
    BY <2>1, TaxWindow
  <2>5. SemiMonthlyPayDates(start, end) = Within(SemiMonthlyPayDates(s, e), start, end)
    BY <2>1, SemiMonthlyWindow
  <2>6. drivers.apWeekday # Monday =>
          ApRunDates(start, end, drivers.apWeekday)
            = Within(ApRunDates(s, e, drivers.apWeekday), start, end)
    <3>1. drivers.apWeekday # Monday => drivers.apWeekday \in 1..6
      BY <2>2 DEF Monday
    <3>. QED
      BY <2>1, <3>1, RunWindow
  <2>. QED
    BY <2>3, <2>4, <2>5, <2>6 DEF SchedulesAreWindowIndependent, start, end, s, e
<1>. QED
  BY <1>1, OnMondaysAlways, PTL

-----------------------------------------------------------------------------
(* Every obligation falls due *)

\* The version shown is always the one the drivers make for its Monday.
GridIsBuilt == grid = Build(drivers, monday, opening, overrides)

LEMMA GridIsAlwaysBuilt == ForecastSpec => []GridIsBuilt
<1>1. ForecastInit => GridIsBuilt
  BY DEF ForecastInit, GridIsBuilt
<1>2. GridIsBuilt /\ [ForecastNext]_ForecastVars => GridIsBuilt'
  BY DEF ForecastNext, Override, RollForward, ForecastVars, GridIsBuilt
<1>. QED
  BY <1>1, <1>2, PTL DEF ForecastSpec

LEMMA DraftsAreBuilt == GridIsBuilt => grid.drafts = Kept(AllDrafts(drivers, monday), monday)
  BY DEF GridIsBuilt, Build

\* An anniversary of a loan lies in the month it is counted to.
LEMMA AnniversaryIs ==
    ASSUME NEW n \in Nat, NEW k \in Int, MonthNo(n) + k \in Nat
    PROVE  AddMonthsEom(n, k) \in Nat /\ LiesIn(AddMonthsEom(n, k), MonthNo(n) + k)
<1>. DEFINE m == MonthNo(n) + k
<1>1. CASE n = MonthEnd(n)
  <2>1. AddMonthsEom(n, k) = FirstOf(m + 1) - 1
    BY <1>1 DEF AddMonthsEom
  <2>. HIDE DEF m
  <2>2. FirstOf(m) \in Nat /\ FirstOf(m + 1) \in Nat /\ FirstOf(m) + 28 <= FirstOf(m + 1)
    BY MonthLength DEF m
  <2>3. AddMonthsEom(n, k) \in Nat /\ LiesIn(AddMonthsEom(n, k), m)
    BY <2>1, <2>2 DEF LiesIn
  <2>. QED
    BY <2>3 DEF m
<1>2. CASE n # MonthEnd(n)
  BY <1>2, AddMonthsIs DEF AddMonthsEom
<1>. QED
  BY <1>1, <1>2

\* Debt service falls in the month of the anniversary it is for.
LEMMA ServicedInMonth ==
    ASSUME NEW anchor \in Nat, NEW start \in Nat, NEW end \in Nat,
           NEW frequency \in DOMAIN ServiceMonths,
           NEW date \in DebtServiceDates(anchor, start, end, frequency)
    PROVE  /\ IsBusinessDay(date)
           /\ \E due \in Anniversaries(anchor, frequency, start, end) :
                 MonthNo(due) = MonthNo(date) /\ Magnitude(due - date) < MaxClosedRun
<1>. DEFINE all == Anniversaries(anchor, frequency, start, end)
            step == ServiceMonths[frequency]
<1>1. PICK due \in all : date = Adjust(due, "modified_following")
  BY DEF DebtServiceDates, Within
<1>2. step \in {1, 3, 6, 12} /\ MonthNo(anchor) \in Nat /\ MonthNo(start) \in Nat /\ MonthNo(end) \in Nat
  BY Steps, MonthOf
<1>3. PICK p \in Int : MonthNo(anchor) + p * step >= 0 /\ due = AddMonthsEom(anchor, p * step)
  <2>1. PICK p \in ((MonthNo(start) - MonthNo(anchor)) \div step - 1)
                     ..((MonthNo(end) - MonthNo(anchor)) \div step + 1) :
                MonthNo(anchor) + p * step >= 0 /\ due = AddMonthsEom(anchor, p * step)
    BY DEF Anniversaries, Anniversary
  <2>. QED
    BY <2>1
<1>. DEFINE k == p * step
            m == MonthNo(anchor) + k
<1>4. k \in Int /\ m \in Nat
  BY <1>2, <1>3
<1>. HIDE DEF all, step, k
<1>5. due \in Nat /\ LiesIn(due, m)
  BY <1>3, <1>4, AnniversaryIs DEF k
<1>. HIDE DEF m
<1>6. /\ LiesIn(date, m) /\ date \in (due - 4)..(due + 4) /\ IsBusinessDay(date)
  BY <1>1, <1>4, <1>5, ModifiedFollowing
<1>7. MonthNo(due) = m /\ MonthNo(date) = m
  BY <1>4, <1>5, <1>6, MonthIs
<1>8. Magnitude(due - date) < MaxClosedRun
  BY <1>5, <1>6, CadenceAssumption, Distance
<1>. QED
  BY <1>6, <1>7, <1>8 DEF all

\* What one service date of a facility is drafted as.
LEMMA ServiceIs ==
    ASSUME NEW f, NEW due
    PROVE  \A m \in ServiceDrafts(f, due) : m.reference = <<f.id, due>> /\ m.date = due
  BY DEF ServiceDrafts, Draft

\* Interest is drafted by the loans alone.
LEMMA InterestDrafts ==
    ASSUME NEW d, DriversOK(d), NEW start, NEW n \in AllDrafts(d, start), n.category = "debt_interest"
    PROVE  \E f \in d.debt :
              /\ n.reference[1] = f.id
              /\ n.date \in DebtServiceDates(f.first, start, HorizonEnd(start), f.frequency)
<1>. DEFINE end == HorizonEnd(start)
<1>1. n \in DebtDrafts(d, start, end)
  <2>1. n \notin TradeReceipts(d, start)
    <3>1. ASSUME NEW invoice, n \in InvoiceDrafts(d, invoice, start) PROVE FALSE
      <4>. DEFINE expected == ExpectedOf(d, invoice, start)
                  mixture == MixtureFor(d.curve, invoice.segment)
                  parts == Allocate(expected, [i \in DOMAIN mixture |-> mixture[i].weight])
                  promised == {Draft("receipts_trade_ar", Adjust(invoice.promise, "following"),
                                     expected, <<invoice.ref, 0>>)}
                  spread == {Draft("receipts_trade_ar",
                                   Adjust(invoice.due + mixture[i].lag, "following"),
                                   parts[i], <<invoice.ref, i>>) : i \in DOMAIN mixture}
      <4>1. n \in promised \/ n \in spread
        BY <3>1 DEF InvoiceDrafts
      <4>2. \A date, amount, reference :
              Draft("receipts_trade_ar", date, amount, reference).category = "receipts_trade_ar"
        BY DEF Draft
      <4>. HIDE DEF expected, mixture, parts
      <4>. QED
        BY <4>1, <4>2
    <3>. QED
      BY <3>1 DEF TradeReceipts
  <2>2. n \notin SubscriptionReceipts(d, start, end)
    BY DEF SubscriptionReceipts, Draft
  <2>3. ASSUME NEW items \in SUBSET d.dated PROVE n \notin Dated(items)
    BY DEF Dated, Draft, DriversOK, DatedCategories
  <2>4. n \notin OtherReceipts(d) /\ n \notin CommittedDrafts(d)
    BY <2>3 DEF OtherReceipts, CommittedDrafts
  <2>5. n \notin PayrollDrafts(d, start, end)
    BY DEF PayrollDrafts, Draft
  <2>6. n \notin PayableDrafts(d, start, end)
    BY DEF PayableDrafts, Draft
  <2>7. n \notin RentDrafts(d, start, end)
    BY DEF RentDrafts, Draft
  <2>8. n \notin TaxDrafts(d, start, end)
    BY <2>3 DEF TaxDrafts, Draft
  <2>. QED
    BY <2>1, <2>2, <2>4, <2>5, <2>6, <2>7, <2>8 DEF AllDrafts
<1>2. PICK f \in d.debt : \E due \in DebtServiceDates(f.first, start, end, f.frequency) :
         n \in ServiceDrafts(f, due)
  BY <1>1 DEF DebtDrafts
<1>. PICK due \in DebtServiceDates(f.first, start, end, f.frequency) : n \in ServiceDrafts(f, due)
  BY <1>2
<1>3. n.reference = <<f.id, due>> /\ n.date = due
  BY ServiceIs
<1>. QED
  BY <1>3

LEMMA DebtIsServicedInItsMonth == OnMondays /\ GridIsBuilt => DebtServicedInItsMonth
<1>. SUFFICES ASSUME OnMondays, GridIsBuilt,
                     NEW f \in drivers.debt, NEW n \in grid.drafts,
                     n.category = "debt_interest", n.reference[1] = f.id
              PROVE  /\ IsBusinessDay(n.date)
                     /\ \E due \in Anniversaries(f.first, f.frequency, monday, HorizonEnd(monday)) :
                           MonthNo(due) = MonthNo(n.date) /\ Magnitude(due - n.date) < MaxClosedRun
  BY DEF DebtServicedInItsMonth
<1>1. DriversOK(drivers)
  BY DriversAreFormed
<1>2. n \in AllDrafts(drivers, monday)
  BY DraftsAreBuilt DEF Kept
<1>3. PICK g \in drivers.debt :
         /\ n.reference[1] = g.id
         /\ n.date \in DebtServiceDates(g.first, monday, HorizonEnd(monday), g.frequency)
  BY <1>1, <1>2, InterestDrafts
<1>4. g = f /\ f.first \in Nat /\ f.frequency \in DOMAIN ServiceMonths
  BY <1>1, <1>3 DEF DriversOK
<1>5. monday \in Nat /\ HorizonEnd(monday) \in Nat
  BY Windows
<1>. QED
  BY <1>3, <1>4, <1>5, ServicedInMonth

\* The tax withheld on a payday is deposited within eleven days, or by the middle of the
\* month after, put off while banks are closed.
LEMMA DepositIs ==
    ASSUME NEW p \in Nat, NEW schedule
    PROVE  /\ DepositDate(p, schedule) \in Int
           /\ schedule # "monthly" => DepositDate(p, schedule) <= p + 11
           /\ schedule = "monthly" =>
                DepositDate(p, schedule) <= FirstOf(MonthNo(p) + 1) + 18
<1>. DEFINE target == IF Weekday(p) \in {Wednesday, Thursday, Friday} THEN Wednesday ELSE Friday
            offset == (target - Weekday(p)) % 7
            soon == p + (IF offset = 0 THEN 7 ELSE offset)
            late == DateOf(MonthNo(p) + 1, 15)
<1>1. DepositDate(p, schedule) = Adjust(IF schedule = "monthly" THEN late ELSE soon, "following")
  BY DEF DepositDate
<1>2. soon \in Int /\ soon <= p + 7
  <2>1. target \in Int /\ Weekday(p) \in Int
    BY DEF Wednesday, Thursday, Friday, Weekday
  <2>. HIDE DEF target
  <2>2. offset \in 0..6
    BY <2>1
  <2>. HIDE DEF offset
  <2>. QED
    BY <2>2
<1>3. late \in Int /\ late = FirstOf(MonthNo(p) + 1) + 14
  <2>1. FirstOf(MonthNo(p) + 1) \in Nat
    BY MonthOf, MonthLength
  <2>. QED
    BY <2>1 DEF DateOf
<1>. HIDE DEF soon, late
<1>4. Adjust(soon, "following") \in soon..(soon + 4) /\ Adjust(late, "following") \in late..(late + 4)
  BY <1>2, <1>3, Following
<1>5. FirstOf(MonthNo(p) + 1) \in Nat
  BY MonthOf, MonthLength
<1>6. CASE schedule = "monthly"
  <2>1. DepositDate(p, schedule) = Adjust(late, "following")
    BY <1>1, <1>6
  <2>. QED
    BY <1>3, <1>4, <1>5, <1>6, <2>1
<1>7. CASE schedule # "monthly"
  <2>1. DepositDate(p, schedule) = Adjust(soon, "following")
    BY <1>1, <1>7
  <2>. QED
    BY <1>2, <1>4, <1>7, <2>1
<1>. QED
  BY <1>6, <1>7

\* A payday paid twice a month, after its tenth day.
LEMMA SemiMonthlyPaydayIs ==
    ASSUME NEW start \in Nat, NEW end \in Nat, NEW p \in SemiMonthlyPayDates(start, end)
    PROVE  p \in Nat /\ start <= p /\ p <= end /\ FirstOf(MonthNo(p)) + 10 <= p
<1>1. PICK m \in MonthStarts(start, end) :
         p \in {Adjust(DateOf(m, 15), "preceding"), Adjust(FirstOf(m + 1) - 1, "preceding")}
  BY DEF SemiMonthlyPayDates, Within
<1>2. m \in Nat
  BY MonthOf DEF MonthStarts
<1>3. p \in Int /\ LiesIn(p, m) /\ FirstOf(m) + 10 <= p
  BY <1>1, <1>2, SemiMonthly
<1>4. p \in Nat /\ MonthNo(p) = m
  BY <1>2, <1>3, MonthIs
<1>. QED
  BY <1>3, <1>4 DEF SemiMonthlyPayDates, Within

\* Where the walk through a biweekly calendar starts does not matter once it has started.
LEMMA CursorIs ==
    ASSUME NEW anchor \in Nat, NEW start \in Int
    PROVE  /\ BiweeklyCursor(anchor, start) \in Int
           /\ BiweeklyCursor(anchor, start) <= start
           /\ (anchor - BiweeklyCursor(anchor, start)) % 14 = 0
<1>. DEFINE q == (anchor - start) \div 14 + 1
<1>1. CASE anchor > start
  <2>1. q \in Int /\ anchor - start < 14 * q
    BY <1>1
  <2>2. BiweeklyCursor(anchor, start) = anchor - 14 * q
    BY <1>1 DEF BiweeklyCursor
  <2>. HIDE DEF q
  <2>3. (14 * q) % 14 = 0
    BY <2>1
  <2>4. anchor - (anchor - 14 * q) = 14 * q
    BY <2>1
  <2>. QED
    BY <2>1, <2>2, <2>3, <2>4
<1>2. CASE ~(anchor > start)
  BY <1>2 DEF BiweeklyCursor
<1>. QED
  BY <1>1, <1>2

LEMMA BiweeklyWindow ==
    ASSUME NEW anchor \in Nat, NEW s \in Nat, NEW start \in Nat, NEW end \in Nat,
           s <= start, NEW p \in BiweeklyPayDates(anchor, s, end), start <= p
    PROVE  p \in Nat /\ p <= end /\ p \in BiweeklyPayDates(anchor, start, end)
<1>. DEFINE far == BiweeklyCursor(anchor, s)
            near == BiweeklyCursor(anchor, start)
            raw(a, c) == {d \in (a - 13)..end : d >= c /\ (d - c) % 14 = 0}
<1>1. /\ BiweeklyPayDates(anchor, s, end)
           = Within({Adjust(d, "preceding") : d \in raw(s, far)}, s, end)
      /\ BiweeklyPayDates(anchor, start, end)
           = Within({Adjust(d, "preceding") : d \in raw(start, near)}, start, end)
  BY DEF BiweeklyPayDates
<1>2. /\ far \in Int /\ near \in Int /\ near <= start
      /\ (anchor - far) % 14 = 0 /\ (anchor - near) % 14 = 0
  BY CursorIs
<1>. HIDE DEF far, near
<1>3. PICK d \in raw(s, far) : p = Adjust(d, "preceding")
  BY <1>1 DEF Within
<1>4. p <= end
  BY <1>1 DEF Within
<1>5. d \in Int /\ d <= end /\ (d - far) % 14 = 0
  BY <1>2
<1>6. p \in (d - 4)..d
  BY <1>3, <1>5, Preceding
<1>7. start <= d
  BY <1>5, <1>6
<1>8. (d - near) % 14 = 0
  BY <1>2, <1>5
<1>9. d \in raw(start, near)
  BY <1>2, <1>5, <1>7, <1>8
<1>. HIDE DEF raw
<1>10. p \in BiweeklyPayDates(anchor, start, end)
  BY <1>1, <1>3, <1>4, <1>9 DEF Within
<1>. QED
  BY <1>4, <1>6, <1>5, <1>10

\* A window that ends where a wider one does has exactly the wider one's late paydays.
LEMMA SemiMonthlyTail ==
    ASSUME NEW s \in Nat, NEW l \in Nat, NEW e \in Nat, s <= l, l <= e
    PROVE  SemiMonthlyPayDates(l, e) = Within(SemiMonthlyPayDates(s, e), l, e)
<1>1. e <= e
  OBVIOUS
<1>. QED
  BY <1>1, SemiMonthlyWindow

\* Whatever schedule the deposits follow, a payday taxed inside the horizon is within the
\* lookback.
LEMMA WithinLookback ==
    ASSUME NEW d, DriversOK(d), NEW start \in Nat, NEW end \in Nat, start >= Far,
           d.payroll.schedule = "monthly" => d.payroll.frequency = "semi_monthly",
           NEW p \in PayDates(d.payroll.frequency, d.payroll.anchor, start - Far, end),
           start <= DepositDate(p, d.payroll.schedule)
    PROVE  p \in SalariedDates(d, start, end)
<1>. DEFINE frequency == d.payroll.frequency
            schedule == d.payroll.schedule
            anchor == d.payroll.anchor
            s == start - Far
            l == start - Lookback
<1>1. /\ frequency \in {"semi_monthly", "biweekly"} /\ anchor \in Nat
      /\ schedule = "monthly" => frequency = "semi_monthly"
  BY DEF DriversOK
<1>2. s \in Nat /\ l \in Nat /\ s <= l /\ l = start - 45
  BY DEF Far, Lookback
<1>3. SalariedDates(d, start, end) = PayDates(frequency, anchor, l, end)
  BY DEF SalariedDates, PayrollStart
<1>4. p \in PayDates(frequency, anchor, s, end) /\ start <= DepositDate(p, schedule)
  OBVIOUS
<1>. HIDE DEF frequency, schedule, anchor, s, l
<1>5. CASE frequency = "semi_monthly"
  <2>1. p \in SemiMonthlyPayDates(s, end)
    BY <1>4, <1>5 DEF PayDates
  <2>2. p \in Nat /\ p <= end /\ FirstOf(MonthNo(p)) + 10 <= p
    BY <1>2, <2>1, SemiMonthlyPaydayIs
  <2>3. /\ FirstOf(MonthNo(p)) \in Nat /\ FirstOf(MonthNo(p) + 1) \in Nat
        /\ FirstOf(MonthNo(p) + 1) <= FirstOf(MonthNo(p)) + 31
    BY <2>2, MonthOf, MonthLength
  <2>4. DepositDate(p, schedule) <= p + 39
    BY <2>2, <2>3, DepositIs
  <2>5. l <= p
    BY <1>2, <1>4, <2>2, <2>4, DepositIs
  <2>6. SemiMonthlyPayDates(l, end) = Within(SemiMonthlyPayDates(s, end), l, end)
    <3>1. l <= end
      BY <1>2, <2>2, <2>5
    <3>2. s \in Nat /\ l \in Nat /\ s <= l
      BY <1>2
    <3>. QED
      BY <3>1, <3>2, SemiMonthlyTail, Zenon
  <2>7. p \in SemiMonthlyPayDates(l, end)
    BY <2>1, <2>2, <2>5, <2>6 DEF Within
  <2>. QED
    BY <1>3, <1>5, <2>7 DEF PayDates
<1>6. CASE frequency = "biweekly"
  <2>1. p \in BiweeklyPayDates(anchor, s, end) /\ schedule # "monthly"
    BY <1>1, <1>4, <1>6 DEF PayDates
  <2>2. s <= p
    BY <2>1 DEF BiweeklyPayDates, Within
  <2>3. p \in Nat
    BY <1>1, <1>2, <2>1, <2>2, BiweeklyWindow
  <2>4. DepositDate(p, schedule) \in Int /\ DepositDate(p, schedule) <= p + 11
    BY <2>1, <2>3, DepositIs
  <2>5. l <= p
    BY <1>2, <1>4, <2>3, <2>4
  <2>6. p \in BiweeklyPayDates(anchor, l, end)
    BY <1>1, <1>2, <2>1, <2>5, BiweeklyWindow
  <2>. QED
    BY <1>3, <1>6, <2>6 DEF PayDates
<1>. QED
  BY <1>1, <1>5, <1>6

\* A whole minor unit withheld on the salaries alone is withheld on the whole payroll.
LEMMA TaxIsWithheld ==
    ASSUME NEW s \in Nat, NEW h \in Nat, NEW bps \in Nat, s * bps >= Bps
    PROVE  ((s + h) * bps) \div Bps \in Nat /\ ((s + h) * bps) \div Bps >= 1
<1>. DEFINE m == (s + h) * bps
<1>1. m \in Nat /\ m >= 10000
  <2>1. m = s * bps + h * bps /\ s * bps \in Nat /\ h * bps \in Nat
    OBVIOUS
  <2>. HIDE DEF m
  <2>. QED
    BY <2>1 DEF Bps
<1>. HIDE DEF m
<1>2. m \div 10000 \in Nat /\ m \div 10000 >= 1
  BY <1>1
<1>. QED
  BY <1>2 DEF m, Bps

LEMMA PaydaysAreAllTaxed == OnMondays /\ GridIsBuilt => PaydaysAreTaxed
<1>. DEFINE d == drivers
            start == monday
            end == HorizonEnd(monday)
            deposit(p) == DepositDate(p, d.payroll.schedule)
<1>. SUFFICES ASSUME OnMondays, GridIsBuilt,
                     d.payroll.schedule = "monthly" => d.payroll.frequency = "semi_monthly",
                     d.payroll.salaried * d.payroll.taxBps >= Bps,
                     NEW p \in PayDates(d.payroll.frequency, d.payroll.anchor, start - Far, end),
                     start <= deposit(p), deposit(p) <= end
              PROVE  \E m \in grid.drafts : m.reference = <<"tax", p>>
  BY DEF PaydaysAreTaxed
<1>1. DriversOK(d)
  BY DriversAreFormed
<1>2. start \in Nat /\ end \in Nat /\ start >= Far
  BY Windows DEF OnMondays
<1>. DEFINE salaried == SalariedDates(d, start, end)
            hourly == HourlyDates(d, start, end)
            tax == (GrossOn(d, p, salaried, hourly) * d.payroll.taxBps) \div Bps
            m == Draft("payroll_taxes_benefits", deposit(p), -tax, <<"tax", p>>)
<1>3. grid.drafts = Kept(AllDrafts(d, start), start)
  BY DraftsAreBuilt
<1>. HIDE DEF d, start, end
<1>4. p \in salaried
  BY <1>1, <1>2, WithinLookback
<1>5. tax \in Nat /\ tax >= 1
  <2>1. d.payroll.salaried \in Nat /\ d.payroll.hourly \in Nat /\ d.payroll.taxBps \in Nat
    BY <1>1 DEF DriversOK
  <2>2. PICK h \in Nat : GrossOn(d, p, salaried, hourly) = d.payroll.salaried + h
    <3>. HIDE DEF salaried, hourly
    <3>1. CASE p \in hourly
      BY <1>4, <2>1, <3>1 DEF GrossOn
    <3>2. CASE p \notin hourly
      BY <1>4, <2>1, <3>2 DEF GrossOn
    <3>. QED
      BY <3>1, <3>2
  <2>. HIDE DEF salaried, hourly
  <2>. QED
    BY <2>1, <2>2, TaxIsWithheld
<1>6. m \in PayrollDrafts(d, start, end)
  <2>1. p \in salaried \cup hourly
    BY <1>4
  <2>2. m \in {Draft("payroll_taxes_benefits", DepositDate(q, d.payroll.schedule),
                     -((GrossOn(d, q, salaried, hourly) * d.payroll.taxBps) \div Bps),
                     <<"tax", q>>) : q \in salaried \cup hourly}
    <3>. HIDE DEF salaried, hourly
    <3>. QED
      BY <2>1
  <2>. HIDE DEF m
  <2>. QED
    BY <2>2 DEF PayrollDrafts
<1>7. m.amount = -tax /\ m.date = deposit(p) /\ m.reference = <<"tax", p>>
  BY DEF Draft
<1>. HIDE DEF tax, m, deposit
<1>8. m \in AllDrafts(d, start)
  BY <1>6 DEF AllDrafts, end, start
<1>9. m.amount # 0
  BY <1>5, <1>7
<1>10. m \in Kept(AllDrafts(d, start), start)
  BY <1>7, <1>8, <1>9 DEF Kept, end, start
<1>. QED
  BY <1>3, <1>7, <1>10

\* No obligation is lost at an edge of the horizon or moved out of its month: every payday
\* taxed inside it is in the grid, and debt service is paid in the month of its anniversary.
THEOREM ObligationsFallDue == ForecastSpec => []EveryObligationFallsDue
<1>1. OnMondays /\ GridIsBuilt => EveryObligationFallsDue
  BY PaydaysAreAllTaxed, DebtIsServicedInItsMonth DEF EveryObligationFallsDue
<1>. QED
  BY <1>1, OnMondaysAlways, GridIsAlwaysBuilt, PTL

-----------------------------------------------------------------------------
(* A roll is explained *)

\* The drafts a sum can be taken of.
DraftsOK(S) == IsFiniteSet(S) /\ \A m \in S : m.amount \in Int

LEMMA FiniteMap ==
    ASSUME NEW S, IsFiniteSet(S), NEW f
    PROVE  IsFiniteSet({f[x] : x \in S})
<1>. DEFINE T == {f[x] : x \in S}
            g == [x \in S |-> f[x]]
<1>1. g \in Surjection(S, T)
  BY DEF Surjection
<1>. HIDE DEF g, T
<1>2. IsFiniteSet(T)
  BY <1>1, FS_Surjection
<1>. QED
  BY <1>2 DEF T

LEMMA DraftsOf ==
    ASSUME NEW S, IsFiniteSet(S), NEW f, \A x \in S : f[x].amount \in Int
    PROVE  DraftsOK({f[x] : x \in S})
  BY FiniteMap DEF DraftsOK

LEMMA DraftsOfEach ==
    ASSUME NEW S, IsFiniteSet(S), NEW f, \A x \in S : DraftsOK(f[x])
    PROVE  DraftsOK(UNION {f[x] : x \in S})
<1>1. IsFiniteSet({f[x] : x \in S})
  BY FiniteMap
<1>2. IsFiniteSet(UNION {f[x] : x \in S})
  <2>. DEFINE T == {f[x] : x \in S}
  <2>1. \A t \in T : IsFiniteSet(t)
    BY DEF DraftsOK
  <2>. HIDE DEF T
  <2>. QED
    BY <1>1, <2>1, FS_UNION DEF T
<1>. QED
  BY <1>2 DEF DraftsOK

LEMMA DraftsTogether ==
    ASSUME NEW A, NEW B, DraftsOK(A), DraftsOK(B)
    PROVE  DraftsOK(A \cup B)
<1>1. IsFiniteSet(A \cup B)
  BY FS_Union DEF DraftsOK
<1>. QED
  BY <1>1 DEF DraftsOK

LEMMA DraftsWithin ==
    ASSUME NEW A, DraftsOK(A), NEW B \in SUBSET A
    PROVE  DraftsOK(B)
<1>1. IsFiniteSet(B)
  BY FS_Subset DEF DraftsOK
<1>. QED
  BY <1>1 DEF DraftsOK

LEMMA NoDrafts == DraftsOK({})
  BY FS_EmptySet DEF DraftsOK

\* Dates between two days.
LEMMA FiniteDates ==
    ASSUME NEW a \in Int, NEW b \in Int, NEW S, \A p \in S : p \in Int /\ a <= p /\ p <= b
    PROVE  IsFiniteSet(S)
<1>1. IsFiniteSet(a..b)
  BY FS_Interval
<1>2. S \in SUBSET (a..b)
  OBVIOUS
<1>. QED
  BY <1>1, <1>2, FS_Subset

\* Where debt service falls, without the walk.
LEMMA DebtServiceIs ==
    ASSUME NEW anchor \in Nat, NEW start \in Nat, NEW end \in Nat, start <= end,
           NEW frequency \in DOMAIN ServiceMonths, NEW date
    PROVE  /\ date \in DebtServiceDates(anchor, start, end, frequency) =>
                date \in Int /\ start <= date /\ date <= end
           /\ date \in DebtServiceDates(anchor, start, end, frequency) <=>
                /\ start <= date /\ date <= end
                /\ \E p \in Int :
                     /\ MonthNo(anchor) + p * ServiceMonths[frequency] >= 0
                     /\ AddMonthsEom(anchor, p * ServiceMonths[frequency]) <= end
                     /\ date = Adjust(AddMonthsEom(anchor, p * ServiceMonths[frequency]),
                                      "modified_following")
<1>. DEFINE all == Anniversaries(anchor, frequency, start, end)
            step == ServiceMonths[frequency]
            M == MonthNo(anchor)
            low == (MonthNo(start) - M) \div step - 1
            high == (MonthNo(end) - M) \div step + 1
            A(p) == AddMonthsEom(anchor, p * step)
            first == Max({0} \cup {d \in all : d <= start})
<1>1. step \in {1, 3, 6, 12} /\ M \in Nat /\ MonthNo(start) \in Nat /\ MonthNo(end) \in Nat
  BY Steps, MonthOf
<1>2. /\ all = {A(p) : p \in {q \in low..high : M + q * step >= 0}}
      /\ DebtServiceDates(anchor, start, end, frequency)
           = Within({Adjust(d, "modified_following") : d \in {e \in all : first <= e /\ e <= end}},
                    start, end)
  BY DEF Anniversaries, Anniversary, DebtServiceDates
<1>3. ASSUME NEW p \in Int, M + p * step >= 0
      PROVE  /\ M + p * step \in Nat /\ A(p) \in Nat /\ LiesIn(A(p), M + p * step)
             /\ MonthNo(A(p)) = M + p * step
             /\ LiesIn(Adjust(A(p), "modified_following"), M + p * step)
             /\ Adjust(A(p), "modified_following") \in Int
  <2>. DEFINE k == p * step
              m == M + k
  <2>1. k \in Int /\ m \in Nat
    BY <1>1, <1>3
  <2>. HIDE DEF k, step
  <2>2. AddMonthsEom(anchor, k) \in Nat /\ LiesIn(AddMonthsEom(anchor, k), m)
    BY <2>1, AnniversaryIs
  <2>. DEFINE x == AddMonthsEom(anchor, k)
  <2>. HIDE DEF x, m
  <2>3. x \in Nat /\ LiesIn(x, m) /\ m \in Nat
    BY <2>1, <2>2 DEF x, m
  <2>4. LiesIn(Adjust(x, "modified_following"), m) /\ Adjust(x, "modified_following") \in Int
    BY <2>3, ModifiedFollowing
  <2>5. MonthNo(x) = m
    BY <2>3, MonthIs
  <2>. QED
    BY <2>3, <2>4, <2>5 DEF x, m, k
<1>4. low \in Int /\ high \in Int
  BY <1>1
<1>5. \A a \in all : a \in Nat
  BY <1>2, <1>3, <1>4
<1>6. first \in Nat /\ \A a \in all : a <= start => a <= first
  <2>. DEFINE S == {0} \cup {d \in all : d <= start}
  <2>1. S \in SUBSET Int /\ S # {} /\ (\A s \in S : s <= start) /\ start \in Int
    BY <1>5
  <2>2. \A s \in S : s \in Nat
    BY <1>5
  <2>. HIDE DEF all, S
  <2>3. Max(S) \in S /\ \A s \in S : s <= Max(S)
    BY <2>1, LargestInt
  <2>. QED
    BY <2>2, <2>3 DEF S
<1>7. first = 0 \/ (first \in all /\ first <= start)
  <2>. DEFINE S == {0} \cup {d \in all : d <= start}
  <2>1. S \in SUBSET Int /\ S # {} /\ (\A s \in S : s <= start) /\ start \in Int
    BY <1>5
  <2>. HIDE DEF all, S
  <2>2. Max(S) \in S
    BY <2>1, LargestInt
  <2>. QED
    BY <2>2 DEF S
<1>. HIDE DEF first, all, low, high, A
<1>8. ASSUME date \in DebtServiceDates(anchor, start, end, frequency)
      PROVE  /\ date \in Int /\ start <= date /\ date <= end
             /\ \E p \in Int : M + p * step >= 0 /\ A(p) <= end
                                /\ date = Adjust(A(p), "modified_following")
  <2>1. PICK d \in all : d <= end /\ date = Adjust(d, "modified_following")
    BY <1>2, <1>8 DEF Within
  <2>2. PICK p \in low..high : M + p * step >= 0 /\ d = A(p)
    BY <1>2
  <2>3. p \in Int
    BY <1>4
  <2>4. date \in Int
    BY <1>3, <2>1, <2>2, <2>3
  <2>5. start <= date /\ date <= end
    BY <1>2, <1>8 DEF Within
  <2>. QED
    BY <2>1, <2>2, <2>3, <2>4, <2>5
<1>9. ASSUME start <= date, date <= end, NEW p \in Int, M + p * step >= 0, A(p) <= end,
             date = Adjust(A(p), "modified_following")
      PROVE  date \in DebtServiceDates(anchor, start, end, frequency)
  <2>. DEFINE m == M + p * step
  <2>1. /\ m \in Nat /\ A(p) \in Nat /\ LiesIn(A(p), m) /\ MonthNo(A(p)) = m
        /\ LiesIn(date, m) /\ date \in Int
    BY <1>3, <1>9
  <2>2. date \in Nat /\ MonthNo(date) = m
    BY <2>1, MonthIs
  <2>3. MonthNo(start) <= m /\ m <= MonthNo(end)
    BY <1>9, <2>2, MonthsInOrder
  <2>4. p \in low..high
    <3>1. MonthNo(start) - M <= p * step /\ p * step <= MonthNo(end) - M
      BY <1>1, <2>3
    <3>. HIDE DEF M, step
    <3>2. (MonthNo(start) - M) \div step <= p /\ p <= (MonthNo(end) - M) \div step
      BY <1>1, <3>1
    <3>. QED
      BY <1>1, <3>2 DEF low, high
  <2>5. A(p) \in all
    BY <1>2, <1>9, <2>4
  <2>6. first <= A(p)
    <3>1. CASE first = 0
      BY <2>1, <3>1
    <3>2. CASE start < A(p)
      BY <1>6, <1>7, <2>1, <3>2
    <3>3. CASE A(p) <= start /\ first # 0
      <4>1. first \in all /\ first <= start
        BY <1>7, <3>3
      <4>2. PICK q \in low..high : M + q * step >= 0 /\ first = A(q)
        BY <1>2, <4>1
      <4>3. q \in Int
        BY <1>4
      <4>4. MonthNo(first) = M + q * step /\ first \in Nat
        BY <1>3, <4>2, <4>3
      <4>5. A(p) <= first
        BY <1>6, <2>5, <3>3
      <4>6. m <= M + q * step /\ M + q * step <= MonthNo(start)
        BY <2>1, <4>1, <4>4, <4>5, MonthsInOrder
      <4>7. m = M + q * step
        BY <1>1, <2>1, <2>3, <4>4, <4>6
      <4>8. p = q
        <5>1. p * step = q * step
          BY <1>1, <4>3, <4>7
        <5>. HIDE DEF step
        <5>. QED
          BY <1>1, <4>3, <5>1
      <4>. QED
        BY <2>1, <4>2, <4>8
    <3>. QED
      BY <1>6, <2>1, <3>1, <3>2, <3>3
  <2>7. A(p) \in {e \in all : first <= e /\ e <= end}
    BY <1>9, <2>5, <2>6
  <2>. QED
    BY <1>2, <1>9, <2>7 DEF Within
<1>. QED
  BY <1>8, <1>9 DEF A

LEMMA InvoiceDraftsOK ==
    ASSUME NEW d, DriversOK(d), NEW invoice \in d.invoices, NEW asOf \in Int
    PROVE  DraftsOK(InvoiceDrafts(d, invoice, asOf))
<1>. DEFINE expected == ExpectedOf(d, invoice, asOf)
            mixture == MixtureFor(d.curve, invoice.segment)
            n == Len(mixture)
            S == 1..n
            weights == [i \in S |-> mixture[i].weight]
            parts == Allocate(expected, weights)
<1>1. expected \in Int
  BY ExpectedIs
<1>2. /\ n \in Nat /\ DOMAIN mixture = S
      /\ \A i \in S : mixture[i].weight \in Nat
      /\ SumOver(weights, S) = Bps
  BY MixtureIs DEF DriversOK
<1>3. \A i \in S : parts[i] \in Int
  <2>. HIDE DEF n, expected
  <2>1. DOMAIN weights = S /\ \A i \in S : weights[i] \in Nat
    BY <1>2
  <2>. HIDE DEF weights
  <2>2. SumOver(weights, S) > 0
    BY <1>2 DEF Bps
  <2>3. Conserves(Allocate(expected, weights), expected, weights, SumOver(weights, S), S)
    BY <1>1, <1>2, <2>1, <2>2, AllocateIs
  <2>. QED
    BY <2>3 DEF Conserves
<1>. DEFINE only == Draft("receipts_trade_ar", Adjust(invoice.promise, "following"), expected,
                          <<invoice.ref, 0>>)
            row == [i \in S |-> Draft("receipts_trade_ar",
                                      Adjust(invoice.due + mixture[i].lag, "following"),
                                      parts[i], <<invoice.ref, i>>)]
<1>4. DraftsOK({only})
  <2>1. only.amount \in Int
    BY <1>1 DEF Draft
  <2>. HIDE DEF only
  <2>2. IsFiniteSet({only})
    BY FS_Singleton
  <2>. QED
    BY <2>1, <2>2 DEF DraftsOK
<1>5. DraftsOK({row[i] : i \in S})
  <2>1. IsFiniteSet(S)
    BY <1>2, UpToN
  <2>2. \A i \in S : row[i].amount = parts[i]
    BY DEF Draft
  <2>. HIDE DEF row, S, parts
  <2>3. \A i \in S : row[i].amount \in Int
    BY <1>3, <2>2
  <2>. QED
    BY <2>1, <2>3, DraftsOf
<1>6. InvoiceDrafts(d, invoice, asOf)
        = IF invoice.promise # NoPromise THEN {only} ELSE {row[i] : i \in S}
  <2>1. InvoiceDrafts(d, invoice, asOf)
          = IF invoice.promise # NoPromise THEN {only}
            ELSE {Draft("receipts_trade_ar", Adjust(invoice.due + mixture[i].lag, "following"),
                        Allocate(expected, [j \in DOMAIN mixture |-> mixture[j].weight])[i],
                        <<invoice.ref, i>>) : i \in DOMAIN mixture}
    BY DEF InvoiceDrafts
  <2>. HIDE DEF only, expected, mixture
  <2>. QED
    BY <1>2, <2>1
<1>. HIDE DEF only, row
<1>. QED
  BY <1>4, <1>5, <1>6

LEMMA ReceiptDraftsOK ==
    ASSUME NEW d, DriversOK(d), NEW start \in Int
    PROVE  DraftsOK(TradeReceipts(d, start))
<1>. DEFINE S == {i \in d.invoices : i.open > 0 /\ ExpectedOf(d, i, start) # 0}
            f == [i \in S |-> InvoiceDrafts(d, i, start)]
<1>1. IsFiniteSet(S)
  BY FS_Subset DEF DriversOK
<1>2. \A i \in S : DraftsOK(f[i])
  BY InvoiceDraftsOK
<1>3. TradeReceipts(d, start) = UNION {f[i] : i \in S}
  BY DEF TradeReceipts
<1>. HIDE DEF S, f
<1>. QED
  BY <1>1, <1>2, <1>3, DraftsOfEach

LEMMA BillingsAreFinite ==
    ASSUME NEW s, s.next \in Nat, NEW start, NEW end \in Nat
    PROVE  IsFiniteSet(BillingDates(s, start, end))
<1>. DEFINE n == Max({0, MonthNo(end) - MonthNo(s.next) + 1})
            step == ServiceMonths[s.interval]
            walk == CHOOSE g : g = [i \in 0..n |-> IF i = 0 THEN s.next
                                                   ELSE AddMonths(g[i - 1], step)]
<1>1. BillingDates(s, start, end)
        = {b \in {walk[i] : i \in 0..n} : start - 14 <= b /\ b <= end}
  BY Zenon DEF BillingDates
<1>2. n \in Nat
  <2>1. MonthNo(end) - MonthNo(s.next) + 1 \in Int
    BY MonthOf
  <2>. QED
    BY <2>1, LargerOfTwo
<1>. HIDE DEF n, walk
<1>3. IsFiniteSet(0..n)
  BY <1>2, FS_Interval
<1>4. IsFiniteSet({walk[i] : i \in 0..n})
  BY <1>3, FiniteMap
<1>. QED
  BY <1>1, <1>4, FS_Subset

LEMMA SubscriptionDraftsOK ==
    ASSUME NEW d, DriversOK(d), NEW start, NEW end \in Nat
    PROVE  DraftsOK(SubscriptionReceipts(d, start, end))
<1>. DEFINE S == {t \in d.subscriptions : t.status = "active" /\ t.amount > 0}
            dates(s) == BillingDates(s, start, end)
            row(s) == [b \in dates(s) |->
                          Draft("receipts_subscription", SettlementDate(b, d.payoutLag),
                                (s.amount * d.successBps) \div Bps, <<s.ref, b>>)]
            f == [s \in S |-> {row(s)[b] : b \in dates(s)}]
<1>1. IsFiniteSet(S)
  BY FS_Subset DEF DriversOK
<1>2. ASSUME NEW s \in S PROVE DraftsOK(f[s])
  <2>1. s.amount \in Int /\ s.next \in Nat /\ d.successBps \in Nat
    BY DEF DriversOK
  <2>2. (s.amount * d.successBps) \div Bps \in Int
    BY <2>1, BpsOf
  <2>3. \A b \in dates(s) : row(s)[b].amount \in Int
    BY <2>2 DEF Draft
  <2>4. IsFiniteSet(dates(s))
    BY <2>1, BillingsAreFinite
  <2>. HIDE DEF dates, row
  <2>5. DraftsOK({row(s)[b] : b \in dates(s)})
    BY <2>3, <2>4, DraftsOf
  <2>. QED
    BY <2>5
<1>3. SubscriptionReceipts(d, start, end) = UNION {f[s] : s \in S}
  <2>1. \A s \in S :
          f[s] = {Draft("receipts_subscription", SettlementDate(b, d.payoutLag),
                        (s.amount * d.successBps) \div Bps, <<s.ref, b>>) :
                      b \in BillingDates(s, start, end)}
    OBVIOUS
  <2>2. SubscriptionReceipts(d, start, end)
          = UNION {{Draft("receipts_subscription", SettlementDate(b, d.payoutLag),
                          (s.amount * d.successBps) \div Bps, <<s.ref, b>>) :
                        b \in BillingDates(s, start, end)} : s \in S}
    BY DEF SubscriptionReceipts
  <2>. DEFINE F(s) == {Draft("receipts_subscription", SettlementDate(b, d.payoutLag),
                             (s.amount * d.successBps) \div Bps, <<s.ref, b>>) :
                           b \in BillingDates(s, start, end)}
  <2>3. \A s \in S : f[s] = F(s)
    BY <2>1
  <2>4. SubscriptionReceipts(d, start, end) = UNION {F(s) : s \in S}
    BY <2>2
  <2>. HIDE DEF f, S, F
  <2>5. {F(s) : s \in S} = {f[s] : s \in S}
    BY <2>3
  <2>. QED
    BY <2>4, <2>5
<1>. HIDE DEF S, f
<1>. QED
  BY <1>1, <1>2, <1>3, DraftsOfEach

LEMMA DatedDraftsOK ==
    ASSUME NEW d, DriversOK(d), NEW items \in SUBSET d.dated
    PROVE  DraftsOK(Dated(items))
<1>. DEFINE f == [item \in items |->
                     Draft(item.category, item.due, item.amount, <<item.ref, item.due>>)]
<1>1. IsFiniteSet(items)
  BY FS_Subset DEF DriversOK
<1>2. \A item \in items : f[item].amount \in Int
  BY DEF Draft, DriversOK
<1>3. Dated(items) = {f[item] : item \in items}
  BY DEF Dated
<1>. HIDE DEF f
<1>. QED
  BY <1>1, <1>2, <1>3, DraftsOf

\* Every date a schedule gives is a day of its window.
LEMMA PaydaysAreDays ==
    ASSUME NEW frequency, NEW anchor \in Nat, NEW start \in Nat, NEW end \in Nat,
           NEW p \in PayDates(frequency, anchor, start, end)
    PROVE  p \in Nat /\ start <= p /\ p <= end
<1>1. CASE frequency = "semi_monthly"
  BY <1>1, SemiMonthlyPaydayIs DEF PayDates
<1>2. CASE frequency # "semi_monthly"
  <2>1. p \in BiweeklyPayDates(anchor, start, end)
    BY <1>2 DEF PayDates
  <2>2. start <= p
    BY <2>1 DEF BiweeklyPayDates, Within
  <2>. QED
    BY <2>1, <2>2, BiweeklyWindow
<1>. QED
  BY <1>1, <1>2

LEMMA RentDaysAreDays ==
    ASSUME NEW start \in Nat, NEW end \in Nat, NEW day \in 1..31,
           NEW p \in MonthlyDates(start, end, day)
    PROVE  p \in Int /\ start <= p /\ p <= end
<1>1. PICK m \in MonthStarts(start, end) :
         p = Adjust(DateOf(m, Min({day, FirstOf(m + 1) - FirstOf(m)})), "following")
  BY DEF MonthlyDates, Within
<1>2. m \in Nat
  BY MonthOf DEF MonthStarts
<1>3. FirstOf(m) \in Nat /\ FirstOf(m + 1) \in Nat
  BY <1>2, MonthLength
<1>. DEFINE x == Min({day, FirstOf(m + 1) - FirstOf(m)})
<1>4. x \in Int
  BY <1>3, SmallerOfTwo
<1>. HIDE DEF x
<1>5. DateOf(m, x) \in Int
  BY <1>3, <1>4 DEF DateOf
<1>6. p \in Int
  BY <1>1, <1>5, Following DEF x
<1>. QED
  BY <1>6 DEF MonthlyDates, Within

LEMMA TaxDaysAreDays ==
    ASSUME NEW start \in Nat, NEW end \in Nat, NEW p \in QuarterlyEstimatedTaxDates(start, end)
    PROVE  p \in Int /\ start <= p /\ p <= end
<1>1. PICK m \in {k \in (MonthNo(start) - 12)..(MonthNo(end) + 12) :
                    k >= 0 /\ k % 12 \in {3, 5, 8, 11}} : p = Adjust(DateOf(m, 15), "following")
  BY DEF QuarterlyEstimatedTaxDates, Within
<1>2. m \in Nat
  BY MonthOf
<1>3. FirstOf(m) \in Nat
  BY <1>2, MonthLength
<1>4. DateOf(m, 15) \in Int
  BY <1>3 DEF DateOf
<1>5. p \in Int
  BY <1>1, <1>4, Following
<1>. QED
  BY <1>5 DEF QuarterlyEstimatedTaxDates, Within

\* What a payday withholds is a number.
LEMMA WithheldIs ==
    ASSUME NEW d, DriversOK(d), NEW p, NEW salaried, NEW hourly
    PROVE  (GrossOn(d, p, salaried, hourly) * d.payroll.taxBps) \div Bps \in Int
<1>1. d.payroll.salaried \in Nat /\ d.payroll.hourly \in Nat /\ d.payroll.taxBps \in Nat
  BY DEF DriversOK
<1>2. GrossOn(d, p, salaried, hourly) \in Int
  BY <1>1 DEF GrossOn
<1>. QED
  BY <1>1, <1>2, BpsOf

LEMMA PayrollDraftsOK ==
    ASSUME NEW d, DriversOK(d), NEW start \in Nat, NEW end \in Nat, start >= Far
    PROVE  DraftsOK(PayrollDrafts(d, start, end))
<1>. DEFINE salaried == SalariedDates(d, start, end)
            hourly == HourlyDates(d, start, end)
            both == salaried \cup hourly
            withheld(p) == (GrossOn(d, p, salaried, hourly) * d.payroll.taxBps) \div Bps
            pay == [p \in salaried |-> Draft("payroll_salaried", p, -d.payroll.salaried, <<"pay", p>>)]
            wage == [p \in hourly |-> Draft("payroll_hourly", p, -d.payroll.hourly, <<"pay", p>>)]
            tax == [p \in both |-> Draft("payroll_taxes_benefits",
                                         DepositDate(p, d.payroll.schedule),
                                         -withheld(p), <<"tax", p>>)]
            ben == [p \in salaried |-> Draft("payroll_taxes_benefits", p, -d.payroll.benefits,
                                             <<"benefits", p>>)]
<1>1. /\ d.payroll.salaried \in Nat /\ d.payroll.hourly \in Nat /\ d.payroll.benefits \in Nat
      /\ HourlyAnchor(d) \in Nat /\ d.payroll.anchor \in Nat /\ PayrollStart(start) \in Nat
  BY DEF DriversOK, Far, PayrollStart, Lookback, HourlyAnchor, NoAnchor
<1>2. IsFiniteSet(salaried)
  <2>1. \A p \in salaried : p \in Int /\ PayrollStart(start) <= p /\ p <= end
    BY <1>1, PaydaysAreDays DEF SalariedDates
  <2>. HIDE DEF salaried
  <2>. QED
    BY <1>1, <2>1, FiniteDates
<1>3. IsFiniteSet(hourly)
  <2>1. \A p \in hourly : p \in Int /\ PayrollStart(start) <= p /\ p <= end
    <3>1. \A p \in hourly : p \in PayDates("biweekly", HourlyAnchor(d), PayrollStart(start), end)
      BY DEF HourlyDates, PayDates
    <3>. QED
      BY <1>1, <3>1, PaydaysAreDays
  <2>. HIDE DEF hourly
  <2>. QED
    BY <1>1, <2>1, FiniteDates
<1>4. IsFiniteSet(both)
  BY <1>2, <1>3, FS_Union
<1>5. \A p \in salaried : pay[p].amount \in Int /\ ben[p].amount \in Int
  BY <1>1 DEF Draft
<1>6. \A p \in hourly : wage[p].amount \in Int
  BY <1>1 DEF Draft
<1>7. \A p \in both : tax[p].amount \in Int
  <2>1. \A p \in both : withheld(p) \in Int
    BY WithheldIs
  <2>. HIDE DEF withheld, both
  <2>. QED
    BY <2>1 DEF Draft
<1>8. PayrollDrafts(d, start, end)
        = {pay[p] : p \in salaried} \cup {wage[p] : p \in hourly}
            \cup {tax[p] : p \in both} \cup {ben[p] : p \in salaried}
  <2>1. {pay[p] : p \in salaried}
          = {Draft("payroll_salaried", p, -d.payroll.salaried, <<"pay", p>>) : p \in salaried}
    OBVIOUS
  <2>2. {wage[p] : p \in hourly}
          = {Draft("payroll_hourly", p, -d.payroll.hourly, <<"pay", p>>) : p \in hourly}
    OBVIOUS
  <2>3. {tax[p] : p \in both}
          = {Draft("payroll_taxes_benefits", DepositDate(p, d.payroll.schedule),
                   -((GrossOn(d, p, salaried, hourly) * d.payroll.taxBps) \div Bps),
                   <<"tax", p>>) : p \in salaried \cup hourly}
    OBVIOUS
  <2>4. {ben[p] : p \in salaried}
          = {Draft("payroll_taxes_benefits", p, -d.payroll.benefits, <<"benefits", p>>) :
                p \in salaried}
    OBVIOUS
  <2>. HIDE DEF pay, wage, tax, ben, both
  <2>. QED
    BY <2>1, <2>2, <2>3, <2>4 DEF PayrollDrafts
<1>. HIDE DEF pay, wage, tax, ben, salaried, hourly, both
<1>9. /\ DraftsOK({pay[p] : p \in salaried}) /\ DraftsOK({wage[p] : p \in hourly})
      /\ DraftsOK({tax[p] : p \in both}) /\ DraftsOK({ben[p] : p \in salaried})
  BY <1>2, <1>3, <1>4, <1>5, <1>6, <1>7, DraftsOf
<1>. DEFINE A == {pay[p] : p \in salaried}
            B == {wage[p] : p \in hourly}
            C == {tax[p] : p \in both}
            D == {ben[p] : p \in salaried}
<1>. HIDE DEF A, B, C, D
<1>10. DraftsOK(A) /\ DraftsOK(B) /\ DraftsOK(C) /\ DraftsOK(D)
  BY <1>9 DEF A, B, C, D
<1>11. DraftsOK(A \cup B \cup C \cup D)
  BY <1>10, DraftsTogether
<1>. QED
  BY <1>8, <1>11 DEF A, B, C, D

LEMMA PayableDraftsOK ==
    ASSUME NEW d, DriversOK(d), NEW start, NEW end
    PROVE  DraftsOK(PayableDrafts(d, start, end))
<1>. DEFINE runs == ApRunDates(start, end, d.apWeekday)
            S == {q \in d.payables : q.open > 0}
            f == [p \in S |-> Draft("ap_trade", RunFor(p, runs), -p.open, <<p.ref, p.due>>)]
<1>1. IsFiniteSet(S)
  BY FS_Subset DEF DriversOK
<1>2. \A p \in S : f[p].amount \in Int
  BY DEF Draft, DriversOK
<1>3. PayableDrafts(d, start, end) = IF runs = {} THEN {} ELSE {f[p] : p \in S}
  BY DEF PayableDrafts
<1>. HIDE DEF f, S, runs
<1>4. DraftsOK({f[p] : p \in S})
  BY <1>1, <1>2, DraftsOf
<1>. QED
  BY <1>3, <1>4, NoDrafts

LEMMA RentDraftsOK ==
    ASSUME NEW d, DriversOK(d), NEW start \in Nat, NEW end \in Nat
    PROVE  DraftsOK(RentDrafts(d, start, end))
<1>. DEFINE S == {x \in MonthlyDates(start, end, d.rentDay) : d.rent # 0}
            f == [due \in S |-> Draft("rent_leases", due, -d.rent, <<"rent", due>>)]
<1>1. IsFiniteSet(S)
  <2>1. d.rentDay \in 1..31
    BY DEF DriversOK
  <2>2. \A x \in S : x \in Int /\ start <= x /\ x <= end
    BY <2>1, RentDaysAreDays
  <2>. HIDE DEF S
  <2>. QED
    BY <2>2, FiniteDates
<1>2. \A p \in S : f[p].amount \in Int
  BY DEF Draft, DriversOK
<1>3. RentDrafts(d, start, end) = {f[p] : p \in S}
  BY DEF RentDrafts
<1>. HIDE DEF f, S
<1>. QED
  BY <1>1, <1>2, <1>3, DraftsOf

LEMMA TaxDraftsOK ==
    ASSUME NEW d, DriversOK(d), NEW start \in Nat, NEW end \in Nat
    PROVE  DraftsOK(TaxDrafts(d, start, end))
<1>. DEFINE S == {x \in QuarterlyEstimatedTaxDates(start, end) : d.quarterlyTax > 0}
            f == [due \in S |->
                    Draft("tax_income_estimated", due, -d.quarterlyTax, <<"est-tax", due>>)]
            vat == Dated({item \in d.dated : item.category = "tax_sales_vat"})
<1>1. IsFiniteSet(S)
  <2>1. \A x \in S : x \in Int /\ start <= x /\ x <= end
    BY TaxDaysAreDays
  <2>. HIDE DEF S
  <2>. QED
    BY <2>1, FiniteDates
<1>2. \A p \in S : f[p].amount \in Int
  BY DEF Draft, DriversOK
<1>3. TaxDrafts(d, start, end) = {f[p] : p \in S} \cup vat
  BY DEF TaxDrafts
<1>4. DraftsOK(vat)
  BY DatedDraftsOK
<1>. HIDE DEF f, S, vat
<1>5. DraftsOK({f[p] : p \in S})
  BY <1>1, <1>2, DraftsOf
<1>. QED
  BY <1>3, <1>4, <1>5, DraftsTogether

LEMMA DebtDraftsOK ==
    ASSUME NEW d, DriversOK(d), NEW start \in Nat, NEW end \in Nat, start <= end
    PROVE  DraftsOK(DebtDrafts(d, start, end))
<1>. DEFINE dates(f) == DebtServiceDates(f.first, start, end, f.frequency)
            interest(f) == AccruedInterest(f.drawn, f.rateBps, 30 * ServiceMonths[f.frequency])
            both(f, due) == ServiceDrafts(f, due)
            pair == [f \in d.debt |-> [due \in dates(f) |-> both(f, due)]]
            each == [f \in d.debt |-> UNION {pair[f][due] : due \in dates(f)}]
<1>1. ASSUME NEW f \in d.debt PROVE DraftsOK(each[f])
  <2>1. /\ f.drawn \in Nat /\ f.rateBps \in Nat /\ f.first \in Nat /\ f.principal \in Int
        /\ f.frequency \in DOMAIN ServiceMonths
    BY DEF DriversOK
  <2>2. interest(f) \in Int
    <3>1. 30 * ServiceMonths[f.frequency] \in Nat
      BY <2>1, Steps
    <3>. DEFINE days == 30 * ServiceMonths[f.frequency]
    <3>. HIDE DEF days
    <3>2. AccruedInterest(f.drawn, f.rateBps, days) \in Nat
      BY <2>1, <3>1, InterestIs DEF days
    <3>. QED
      BY <3>2 DEF days
  <2>3. IsFiniteSet(dates(f))
    <3>. DEFINE D == dates(f)
    <3>1. \A x \in D : x \in Int /\ start <= x /\ x <= end
      BY <2>1, DebtServiceIs
    <3>2. start \in Int /\ end \in Int
      OBVIOUS
    <3>. HIDE DEF D
    <3>3. IsFiniteSet(D)
      BY <3>1, <3>2, FiniteDates
    <3>. QED
      BY <3>3 DEF D
  <2>4. ASSUME NEW due \in dates(f) PROVE DraftsOK(pair[f][due])
    <3>. DEFINE x == Draft("debt_interest", due, -interest(f), <<f.id, due>>)
                y == Draft("debt_principal", due, -f.principal, <<f.id, due>>)
    <3>0. both(f, due) \subseteq {x} \cup {y}
      BY DEF ServiceDrafts
    <3>. HIDE DEF interest, dates, both
    <3>1. \A m \in both(f, due) : m.amount \in Int
      <4>1. x.amount \in Int /\ y.amount \in Int
        BY <2>1, <2>2 DEF Draft
      <4>. HIDE DEF x, y
      <4>. QED
        BY <3>0, <4>1
    <3>2. IsFiniteSet(both(f, due))
      <4>. HIDE DEF x, y
      <4>1. IsFiniteSet({x} \cup {y})
        BY FS_Singleton, FS_Union
      <4>. QED
        BY <3>0, <4>1, FS_Subset
    <3>. HIDE DEF both
    <3>. QED
      BY <3>1, <3>2 DEF DraftsOK
  <2>5. each[f] = UNION {pair[f][due] : due \in dates(f)}
    OBVIOUS
  <2>. HIDE DEF each, pair, dates
  <2>. QED
    BY <2>3, <2>4, <2>5, DraftsOfEach
<1>2. DebtDrafts(d, start, end) = UNION {each[f] : f \in d.debt}
  <2>. DEFINE F(f) == UNION {both(f, due) : due \in dates(f)}
  <2>1. DebtDrafts(d, start, end) = UNION {F(f) : f \in d.debt}
    BY DEF DebtDrafts
  <2>2. \A f \in d.debt : \A due \in dates(f) : pair[f][due] = both(f, due)
    OBVIOUS
  <2>3. \A f \in d.debt : each[f] = UNION {pair[f][due] : due \in dates(f)}
    OBVIOUS
  <2>. HIDE DEF each, pair, dates, both
  <2>4. \A f \in d.debt : F(f) = each[f]
    BY <2>2, <2>3
  <2>. HIDE DEF F
  <2>. QED
    BY <2>1, <2>4
<1>3. IsFiniteSet(d.debt)
  BY DEF DriversOK
<1>. HIDE DEF each
<1>. QED
  BY <1>1, <1>2, <1>3, DraftsOfEach

\* The movements of a version are finitely many, and amounts of money.
LEMMA AllDraftsOK ==
    ASSUME NEW d, DriversOK(d), NEW start \in Nat, start >= Far
    PROVE  DraftsOK(AllDrafts(d, start)) /\ DraftsOK(Kept(AllDrafts(d, start), start))
<1>. DEFINE end == HorizonEnd(start)
<1>1. end \in Nat /\ start <= end
  BY ForecastAssumption DEF HorizonEnd
<1>. HIDE DEF end
<1>2. /\ DraftsOK(TradeReceipts(d, start)) /\ DraftsOK(SubscriptionReceipts(d, start, end))
      /\ DraftsOK(PayrollDrafts(d, start, end)) /\ DraftsOK(PayableDrafts(d, start, end))
      /\ DraftsOK(RentDrafts(d, start, end)) /\ DraftsOK(TaxDrafts(d, start, end))
      /\ DraftsOK(DebtDrafts(d, start, end))
  BY <1>1, ReceiptDraftsOK, SubscriptionDraftsOK, PayrollDraftsOK, PayableDraftsOK, RentDraftsOK,
     TaxDraftsOK, DebtDraftsOK
<1>3. DraftsOK(OtherReceipts(d)) /\ DraftsOK(CommittedDrafts(d))
  BY DatedDraftsOK DEF OtherReceipts, CommittedDrafts
<1>4. AllDrafts(d, start)
        = TradeReceipts(d, start) \cup SubscriptionReceipts(d, start, end)
            \cup OtherReceipts(d) \cup CommittedDrafts(d) \cup PayrollDrafts(d, start, end)
            \cup PayableDrafts(d, start, end) \cup RentDrafts(d, start, end)
            \cup TaxDrafts(d, start, end) \cup DebtDrafts(d, start, end)
  BY DEF AllDrafts, end
<1>5. DraftsOK(AllDrafts(d, start))
  BY <1>2, <1>3, <1>4, DraftsTogether
<1>6. Kept(AllDrafts(d, start), start) \in SUBSET AllDrafts(d, start)
  BY DEF Kept
<1>. QED
  BY <1>5, <1>6, DraftsWithin

\* The figures a version is made of are whole numbers of minor units.
Numbers ==
    /\ opening \in Int /\ rolls \in Nat
    /\ \A cell \in DOMAIN overrides : overrides[cell] \in Int

FiguresOf(version) ==
    /\ \A c \in Categories, w \in Weeks : version.cells[<<c, w>>] \in Int
    /\ \A w \in Weeks : WeekTotal(version.cells, w) \in Int

LEMMA CategoriesAreFinite == IsFiniteSet(Categories) /\ Immaterial \notin Categories
<1>1. \A x : IsFiniteSet({x})
  BY FS_Singleton
<1>2. Categories = {"receipts_trade_ar"} \cup {"receipts_subscription"} \cup {"receipts_other"}
        \cup {"payroll_salaried"} \cup {"payroll_hourly"} \cup {"payroll_taxes_benefits"}
        \cup {"ap_trade"} \cup {"rent_leases"} \cup {"tax_income_estimated"}
        \cup {"tax_sales_vat"} \cup {"debt_interest"} \cup {"debt_principal"} \cup {"capex"}
        \cup {"insurance_software"}
  BY DEF Categories, InflowCategories
<1>3. \A S, x : IsFiniteSet(S) => IsFiniteSet(S \cup {x})
  BY <1>1, FS_Union
<1>4. IsFiniteSet(Categories)
  BY <1>1, <1>2, <1>3
<1>. QED
  BY <1>4 DEF Categories, InflowCategories, Immaterial

LEMMA WeeksAre == Horizon \in Nat /\ Horizon >= 2 /\ Weeks = 1..Horizon /\ IsFiniteSet(Weeks)
  BY ForecastAssumption, VarianceAssumption, FS_Interval DEF Weeks

LEMMA SumOfDrafts ==
    ASSUME NEW drafts, DraftsOK(drafts)
    PROVE  SumAmounts(drafts) \in Int
<1>. DEFINE f == [m \in drafts |-> m.amount]
<1>1. \A m \in drafts : f[m] \in Int
  BY DEF DraftsOK
<1>. HIDE DEF f
<1>2. SumOver(f, drafts) \in Int
  BY <1>1, SumIsNumber DEF DraftsOK
<1>. QED
  BY <1>2 DEF SumAmounts, f

LEMMA FiguresAreNumbers ==
    ASSUME NEW d, DriversOK(d), NEW start \in Nat, start >= Far, NEW open,
           NEW over, \A cell \in DOMAIN over : over[cell] \in Int
    PROVE  FiguresOf(Build(d, start, open, over))
<1>. DEFINE drafts == Kept(AllDrafts(d, start), start)
            cells == Build(d, start, open, over).cells
            here(cell) == {m \in drafts :
                              m.category = cell[1] /\ WeekIndex(m.date, start) = cell[2]}
<1>1. DraftsOK(drafts)
  BY AllDraftsOK
<1>2. cells = CellsOf(drafts, start, over)
  BY DEF Build
<1>. HIDE DEF drafts, cells
<1>3. ASSUME NEW c \in Categories, NEW w \in Weeks PROVE cells[<<c, w>>] \in Int
  <2>. DEFINE cell == <<c, w>>
  <2>1. cell \in Categories \X Weeks
    OBVIOUS
  <2>. HIDE DEF cell
  <2>2. cells[cell] = IF cell \in DOMAIN over THEN over[cell] ELSE SumAmounts(here(cell))
    BY <1>2, <2>1 DEF CellsOf
  <2>3. here(cell) \in SUBSET drafts
    OBVIOUS
  <2>. HIDE DEF here
  <2>4. SumAmounts(here(cell)) \in Int
    BY <1>1, <2>3, DraftsWithin, SumOfDrafts
  <2>. QED
    BY <2>2, <2>4 DEF cell
<1>4. ASSUME NEW w \in Weeks PROVE WeekTotal(cells, w) \in Int
  <2>. DEFINE f == [c \in Categories |-> cells[<<c, w>>]]
  <2>1. \A c \in Categories : f[c] \in Int
    BY <1>3
  <2>. HIDE DEF f
  <2>2. SumOver(f, Categories) \in Int
    BY <2>1, CategoriesAreFinite, SumIsNumber
  <2>. QED
    BY <2>2 DEF WeekTotal, f
<1>. QED
  BY <1>3, <1>4 DEF FiguresOf, cells

\* The balance of a week is the one before it, and what moved in the week.
LEMMA ClosingIs ==
    ASSUME NEW d, NEW start, NEW open \in Int, NEW over, NEW version,
           version = Build(d, start, open, over), FiguresOf(version)
    PROVE  LET total == [w \in Weeks |-> WeekTotal(version.cells, w)] IN
           \A w \in Weeks : /\ version.closing[w] = open + SumOver(total, 1..w)
                            /\ SumOver(total, 1..w) \in Int /\ version.closing[w] \in Int
<1>. DEFINE total == [w \in Weeks |-> WeekTotal(version.cells, w)]
<1>1. version.closing = [w \in Weeks |-> open + SumOver(total, 1..w)]
  BY DEF Build, ClosingOf
<1>2. \A w \in Weeks : total[w] \in Int
  BY DEF FiguresOf
<1>. HIDE DEF total
<1>3. ASSUME NEW w \in Weeks PROVE SumOver(total, 1..w) \in Int
  <2>1. w \in Nat /\ 1..w \subseteq Weeks
    BY WeeksAre
  <2>2. IsFiniteSet(1..w) /\ \A i \in 1..w : total[i] \in Int
    BY <1>2, <2>1, FS_Interval
  <2>. QED
    BY <2>2, SumIsNumber
<1>4. \A w \in Weeks : /\ version.closing[w] = open + SumOver(total, 1..w)
                       /\ SumOver(total, 1..w) \in Int /\ version.closing[w] \in Int
  BY <1>1, <1>3
<1>. QED
  BY <1>4 DEF total

LEMMA GridFigures == OnMondays /\ GridIsBuilt /\ Numbers => FiguresOf(grid)
<1>. SUFFICES ASSUME OnMondays, GridIsBuilt, Numbers PROVE FiguresOf(grid)
  OBVIOUS
<1>1. DriversOK(drivers) /\ monday \in Nat /\ monday >= Far
  BY DriversAreFormed DEF OnMondays
<1>2. FiguresOf(Build(drivers, monday, opening, overrides))
  BY <1>1, FiguresAreNumbers DEF Numbers
<1>. QED
  BY <1>2 DEF GridIsBuilt

LEMMA NumbersAlways == ForecastSpec => []Numbers
<1>1. \A cell : cell \notin DOMAIN NoOverrides
  BY DEF NoOverrides
<1>2. ForecastInit => Numbers
  <2>1. ForecastInit => drivers.opening \in Int
    BY ForecastAssumption DEF ForecastInit, DriversOK
  <2>. QED
    BY <1>1, <2>1 DEF ForecastInit, Numbers
<1>3. OnMondays /\ GridIsBuilt /\ Numbers /\ [ForecastNext]_ForecastVars => Numbers'
  <2>. SUFFICES ASSUME OnMondays, GridIsBuilt, Numbers, [ForecastNext]_ForecastVars PROVE Numbers'
    OBVIOUS
  <2>1. ASSUME NEW cell \in OverrideCells, NEW amount \in OverrideAmounts, Override(cell, amount)
        PROVE  Numbers'
    <3>1. amount \in Int
      BY ForecastAssumption
    <3>2. /\ overrides' = [c \in DOMAIN overrides \cup {cell} |->
                               IF c = cell THEN amount ELSE overrides[c]]
          /\ UNCHANGED <<opening, rolls>>
      BY <2>1 DEF Override
    <3>. QED
      BY <3>1, <3>2 DEF Numbers
  <2>2. ASSUME NEW cash \in OpeningBalances \cup {grid.closing[1]}, RollForward(cash)
        PROVE  Numbers'
    <3>1. opening' = cash /\ overrides' = NoOverrides /\ rolls' = rolls + 1
      BY <2>2 DEF RollForward, RolledOverrides
    <3>2. grid.closing[1] \in Int
      <4>1. 1 \in Weeks
        BY WeeksAre
      <4>2. FiguresOf(grid)
        BY GridFigures
      <4>. QED
        BY <4>1, <4>2, ClosingIs DEF GridIsBuilt, Numbers
    <3>3. cash \in Int
      BY <3>2, ForecastAssumption
    <3>. QED
      BY <1>1, <3>1, <3>3 DEF Numbers
  <2>3. CASE UNCHANGED ForecastVars
    BY <2>3 DEF ForecastVars, Numbers
  <2>. QED
    BY <2>1, <2>2, <2>3 DEF ForecastNext
<1>. QED
  BY <1>2, <1>3, OnMondaysAlways, GridIsAlwaysBuilt, PTL DEF ForecastSpec

\* The last line of a bridge stands for those it replaces: the rows keep the total.
LEMMA GateKeeps ==
    ASSUME NEW lines, IsFiniteSet(lines),
           \A line \in lines : line.variance \in Int /\ line.material \in BOOLEAN
    PROVE  Total(Gate(lines), "variance") = Total(lines, "variance")
<1>. DEFINE small == {line \in lines : ~line.material}
            large == lines \ small
            one == [category |-> Immaterial, forecast |-> Total(small, "forecast"),
                    comparator |-> Total(small, "comparator"),
                    variance |-> Total(small, "variance"), material |-> FALSE]
            f(S) == [line \in S |-> line["variance"]]
<1>1. \A S : Total(S, "variance") = SumOver(f(S), S)
  BY DEF Total
<1>2. Gate(lines) = large \cup (IF small = {} THEN {} ELSE {one})
  BY DEF Gate
<1>3. /\ IsFiniteSet(small) /\ IsFiniteSet(large) /\ IsFiniteSet({one})
      /\ small \cap large = {} /\ lines = large \cup small
  BY FS_Subset, FS_Singleton
<1>4. one.material = FALSE /\ one.variance = Total(small, "variance")
  OBVIOUS
<1>5. one \notin large
  <2>1. \A line \in large : line.material
    OBVIOUS
  <2>. HIDE DEF one, large
  <2>. QED
    BY <1>4, <2>1
<1>6. \A line \in lines : line.variance = line["variance"] /\ line["variance"] \in Int
  OBVIOUS
<1>7. SumOver(f(lines), lines) = SumOver(f(large), large) + SumOver(f(small), small)
  <2>. DEFINE g == f(lines)
  <2>1. \A line \in large \cup small : g[line] \in Int
    BY <1>3, <1>6
  <2>2. (\A line \in large : g[line] = f(large)[line]) /\ (\A line \in small : g[line] = f(small)[line])
    BY <1>3
  <2>. HIDE DEF g, small, large, f
  <2>3. SumOver(g, large \cup small) = SumOver(g, large) + SumOver(g, small)
    BY <1>3, <2>1, SumApart
  <2>4. SumOver(g, large) = SumOver(f(large), large) /\ SumOver(g, small) = SumOver(f(small), small)
    BY <1>3, <2>2, SumSame
  <2>. QED
    BY <1>3, <2>3, <2>4 DEF g
<1>8. CASE small = {}
  <2>1. Gate(lines) = lines
    BY <1>2, <1>3, <1>8
  <2>. QED
    BY <2>1
<1>9. CASE small # {}
  <2>. DEFINE rows == large \cup {one}
              h == f(rows)
  <2>1. SumOver(f(small), small) \in Int
    <3>1. \A line \in small : f(small)[line] \in Int
      BY <1>3, <1>6
    <3>. HIDE DEF f, small
    <3>. QED
      BY <1>3, <3>1, SumIsNumber
  <2>2. one["variance"] = SumOver(f(small), small)
    BY <1>1, <1>4
  <2>. HIDE DEF one
  <2>3. h[one] = SumOver(f(small), small)
    BY <2>2
  <2>4. \A line \in large : h[line] = f(large)[line] /\ h[line] \in Int
    BY <1>3, <1>6
  <2>. HIDE DEF h, f, small, large
  <2>5. large \cap {one} = {} /\ \A line \in large \cup {one} : h[line] \in Int
    BY <1>5, <2>1, <2>3, <2>4
  <2>6. SumOver(h, rows) = SumOver(h, large) + SumOver(h, {one})
    BY <1>3, <2>5, SumApart
  <2>7. SumOver(h, {one}) = SumOver(f(small), small)
    BY <2>1, <2>3, SumOfOne
  <2>8. SumOver(h, large) = SumOver(f(large), large)
    BY <1>3, <2>4, SumSame
  <2>9. Gate(lines) = rows
    BY <1>2, <1>9
  <2>. QED
    BY <1>1, <1>7, <2>6, <2>7, <2>8, <2>9 DEF h
<1>. QED
  BY <1>8, <1>9

\* A bridge with one line for each category, of the difference of two figures of it.
Lines(now, before, variance) ==
    {BridgeLine(c, now[c], before[c], variance[c]) : c \in Categories}

LEMMA BridgeTies ==
    ASSUME NEW now, NEW before, NEW variance, \A c \in Categories : variance[c] \in Int, NEW end,
           NEW bridge, bridge = Bridge(Lines(now, before, variance), end)
    PROVE  /\ Ties(bridge)
           /\ bridge.closing = SumOver(variance, Categories)
           /\ (\A c \in Categories : variance[c] = 0) =>
                \A row \in bridge.rows : row.variance = 0
<1>. DEFINE line == [c \in Categories |-> BridgeLine(c, now[c], before[c], variance[c])]
            lines == Lines(now, before, variance)
            f(S) == [x \in S |-> x["variance"]]
<1>1. lines = {line[c] : c \in Categories}
  BY DEF Lines
<1>2. \A c \in Categories : /\ line[c].category = c /\ line[c].variance = variance[c]
                            /\ line[c].material = IsMaterial(variance[c])
                            /\ line[c]["variance"] = variance[c]
  BY DEF BridgeLine
<1>3. \A v : IsMaterial(v) \in BOOLEAN
  BY DEF IsMaterial
<1>. HIDE DEF line, lines
<1>4. IsFiniteSet(lines)
  BY <1>1, CategoriesAreFinite, FiniteMap
<1>5. \A x \in lines : x.variance \in Int /\ x.material \in BOOLEAN
  BY <1>1, <1>2, <1>3
<1>6. /\ bridge.rows = Gate(lines) /\ bridge.closing = Total(lines, "variance")
  BY DEF Bridge, lines
<1>7. Ties(bridge)
  BY <1>4, <1>5, <1>6, GateKeeps DEF Ties
<1>8. Total(lines, "variance") = SumOver(variance, Categories)
  <2>1. Total(lines, "variance") = SumOver(f(lines), lines)
    BY DEF Total
  <2>2. \A c \in Categories : /\ variance[c] \in Int /\ f(lines)[line[c]] = variance[c]
                              /\ line[c] \in lines
    BY <1>1, <1>2
  <2>3. \A c, e \in Categories : line[c] = line[e] => c = e
    BY <1>2
  <2>4. \A x \in lines : \E c \in Categories : line[c] = x
    BY <1>1
  <2>. HIDE DEF f
  <2>5. SumOver(f(lines), lines) = SumOver(variance, Categories)
    BY <2>2, <2>3, <2>4, CategoriesAreFinite, SumMovedOnto
  <2>. QED
    BY <2>1, <2>5
<1>9. ASSUME \A c \in Categories : variance[c] = 0, NEW row \in Gate(lines) PROVE row.variance = 0
  <2>. DEFINE small == {x \in lines : ~x.material}
              one == [category |-> Immaterial, forecast |-> Total(small, "forecast"),
                      comparator |-> Total(small, "comparator"),
                      variance |-> Total(small, "variance"), material |-> FALSE]
  <2>1. \A x \in lines : x.variance = 0 /\ x["variance"] = 0
    BY <1>1, <1>2, <1>9
  <2>2. row \in lines \/ row = one
    BY <1>9 DEF Gate
  <2>3. Total(small, "variance") = 0
    <3>1. IsFiniteSet(small) /\ \A x \in small : f(small)[x] = 0
      BY <1>4, <2>1, FS_Subset
    <3>2. Total(small, "variance") = SumOver(f(small), small)
      BY DEF Total
    <3>. HIDE DEF f, small
    <3>. QED
      BY <3>1, <3>2, SumOfZeros
  <2>4. one.variance = Total(small, "variance")
    OBVIOUS
  <2>. HIDE DEF one, small
  <2>. QED
    BY <2>1, <2>2, <2>3, <2>4
<1>. QED
  BY <1>6, <1>7, <1>8, <1>9

\* A table summed by its rows or by its columns.
Table(F, across, down, S, T) ==
    \A s \in S, t \in T : /\ F[<<s, t>>] \in Int
                          /\ across[s][t] = F[<<s, t>>] /\ down[t][s] = F[<<s, t>>]

Sums(total, lines, S, T) == \A s \in S : total[s] = SumOver(lines[s], T)

LEMMA SumOfRow ==
    ASSUME NEW S, NEW T, IsFiniteSet(T), NEW F, NEW s \in S, NEW f,
           \A t \in T : F[<<s, t>>] \in Int /\ f[t] = F[<<s, t>>],
           NEW P, P = S \X T, NEW first, first = [x \in P |-> x[1]]
    PROVE  SumOver(f, T) = SumOver(F, OfClass(P, first, s))
<1>. DEFINE at == [t \in T |-> <<s, t>>]
            C == OfClass(P, first, s)
<1>1. \A t \in T : f[t] \in Int /\ F[at[t]] = f[t] /\ at[t] \in C
  BY DEF OfClass
<1>2. \A t, u \in T : at[t] = at[u] => t = u
  OBVIOUS
<1>3. \A x \in C : \E t \in T : at[t] = x
  BY DEF OfClass
<1>. HIDE DEF at, C
<1>4. SumOver(F, C) = SumOver(f, T)
  BY <1>1, <1>2, <1>3, SumMovedOnto
<1>. QED
  BY <1>4 DEF C

LEMMA SumOfColumn ==
    ASSUME NEW S, NEW T, IsFiniteSet(S), NEW F, NEW t \in T, NEW f,
           \A s \in S : F[<<s, t>>] \in Int /\ f[s] = F[<<s, t>>],
           NEW P, P = S \X T, NEW second, second = [x \in P |-> x[2]]
    PROVE  SumOver(f, S) = SumOver(F, OfClass(P, second, t))
<1>. DEFINE at == [s \in S |-> <<s, t>>]
            C == OfClass(P, second, t)
<1>1. \A s \in S : f[s] \in Int /\ F[at[s]] = f[s] /\ at[s] \in C
  BY DEF OfClass
<1>2. \A s, u \in S : at[s] = at[u] => s = u
  OBVIOUS
<1>3. \A x \in C : \E s \in S : at[s] = x
  BY DEF OfClass
<1>. HIDE DEF at, C
<1>4. SumOver(F, C) = SumOver(f, S)
  BY <1>1, <1>2, <1>3, SumMovedOnto
<1>. QED
  BY <1>4 DEF C

LEMMA RowsAndColumns ==
    ASSUME NEW S, NEW T, IsFiniteSet(S), IsFiniteSet(T), NEW F, NEW across, NEW down,
           Table(F, across, down, S, T),
           NEW row, Sums(row, across, S, T), NEW column, Sums(column, down, T, S)
    PROVE  SumOver(row, S) = SumOver(column, T)
<1>. DEFINE P == S \X T
            byRow == [x \in P |-> x[1]]
            byColumn == [x \in P |-> x[2]]
<1>1. IsFiniteSet(P)
  BY FS_Product
<1>2. \A x \in P : F[x] \in Int /\ byRow[x] \in S /\ byColumn[x] \in T
  BY DEF Table
<1>3. ASSUME NEW s \in S PROVE row[s] = SumOver(F, OfClass(P, byRow, s))
  <2>. DEFINE f == across[s]
  <2>1. \A t \in T : F[<<s, t>>] \in Int /\ f[t] = F[<<s, t>>]
    BY DEF Table
  <2>2. row[s] = SumOver(f, T)
    BY DEF Sums
  <2>3. P = S \X T /\ byRow = [x \in P |-> x[1]]
    OBVIOUS
  <2>. HIDE DEF f, P, byRow
  <2>. QED
    BY <2>1, <2>2, <2>3, SumOfRow
<1>4. ASSUME NEW t \in T PROVE column[t] = SumOver(F, OfClass(P, byColumn, t))
  <2>. DEFINE f == down[t]
  <2>1. \A s \in S : F[<<s, t>>] \in Int /\ f[s] = F[<<s, t>>]
    BY DEF Table
  <2>2. column[t] = SumOver(f, S)
    BY DEF Sums
  <2>3. P = S \X T /\ byColumn = [x \in P |-> x[2]]
    OBVIOUS
  <2>. HIDE DEF f, P, byColumn
  <2>. QED
    BY <2>1, <2>2, <2>3, SumOfColumn
<1>. HIDE DEF P, byRow, byColumn
<1>5. SumOver(row, S) = SumOver(F, P)
  BY <1>1, <1>2, <1>3, SumByClass
<1>6. SumOver(column, T) = SumOver(F, P)
  BY <1>1, <1>2, <1>4, SumByClass
<1>. QED
  BY <1>5, <1>6

\* The weeks a version shares with the next: the second here is the first there.
Later(s) == {s + 7 * w : w \in 1..(Horizon - 1)}

LEMMA WeekOf ==
    ASSUME NEW s \in Nat, s % 7 = 0, NEW w \in Int, w >= 0
    PROVE  WeekIndex(s + 7 * w, s) = w + 1
<1>1. (s + 7 * w) % 7 = 0 /\ (s + 7 * w - s) \div 7 = w
  OBVIOUS
<1>2. WeekStart(s + 7 * w) = s + 7 * w
  BY <1>1 DEF WeekStart, Weekday
<1>. QED
  BY <1>1, <1>2 DEF WeekIndex

LEMMA SharedWeeks ==
    ASSUME NEW s \in Nat, NEW current, current.start = s + 7, NEW prior, prior.start = s
    PROVE  WeekStarts(current) \cap WeekStarts(prior) = Later(s)
<1>1. /\ WeekStarts(current) = {s + 7 + 7 * (w - 1) : w \in Weeks}
      /\ WeekStarts(prior) = {s + 7 * (w - 1) : w \in Weeks}
  BY DEF WeekStarts
<1>2. Horizon \in Nat /\ Horizon >= 2 /\ Weeks = 1..Horizon
  BY WeeksAre
<1>3. ASSUME NEW w \in 1..(Horizon - 1)
      PROVE  s + 7 * w \in WeekStarts(current) /\ s + 7 * w \in WeekStarts(prior)
  <2>1. w \in Weeks /\ w + 1 \in Weeks
    BY <1>2
  <2>2. s + 7 * w = s + 7 + 7 * (w - 1) /\ s + 7 * w = s + 7 * ((w + 1) - 1)
    BY <1>2
  <2>. QED
    BY <1>1, <2>1, <2>2
<1>4. ASSUME NEW x \in WeekStarts(current), x \in WeekStarts(prior) PROVE x \in Later(s)
  <2>1. PICK w \in Weeks : x = s + 7 + 7 * (w - 1)
    BY <1>1
  <2>2. PICK v \in Weeks : x = s + 7 * (v - 1)
    BY <1>1, <1>4
  <2>3. v = w + 1 /\ w \in 1..(Horizon - 1) /\ x = s + 7 * w
    BY <1>2, <2>1, <2>2
  <2>. QED
    BY <2>3 DEF Later
<1>. QED
  BY <1>3, <1>4 DEF Later

\* What a category moves over the shared weeks, in the weeks of the prior version and of
\* the current one.
LEMMA OverPrior ==
    ASSUME NEW s \in Nat, s % 7 = 0, NEW prior, prior.start = s, NEW c \in Categories,
           \A w \in Weeks : prior.cells[<<c, w>>] \in Int
    PROVE  /\ Over(prior, c, Later(s)) = SumOver([w \in 2..Horizon |-> prior.cells[<<c, w>>]],
                                                 2..Horizon)
           /\ Over(prior, c, Later(s)) \in Int
<1>. DEFINE f == [w \in 2..Horizon |-> prior.cells[<<c, w>>]]
            g == [day \in Later(s) |-> prior.cells[<<c, WeekIndex(day, prior.start)>>]]
            row == [w \in 2..Horizon |-> s + 7 * (w - 1)]
<1>1. Horizon \in Nat /\ Horizon >= 2 /\ Weeks = 1..Horizon /\ IsFiniteSet(2..Horizon)
  BY WeeksAre, FS_Interval
<1>2. ASSUME NEW w \in 2..Horizon
      PROVE  row[w] \in Later(s) /\ g[row[w]] = f[w] /\ f[w] \in Int
  <2>1. w - 1 \in 1..(Horizon - 1)
    BY <1>1
  <2>2. row[w] \in Later(s)
    BY <2>1 DEF Later
  <2>3. WeekIndex(row[w], s) = w
    <3>1. w - 1 \in Int /\ w - 1 >= 0 /\ (w - 1) + 1 = w
      BY <2>1
    <3>2. WeekIndex(s + 7 * (w - 1), s) = (w - 1) + 1
      BY <3>1, WeekOf
    <3>. QED
      BY <3>1, <3>2
  <2>. QED
    BY <1>1, <2>2, <2>3
<1>3. \A w, v \in 2..Horizon : row[w] = row[v] => w = v
  BY <1>1
<1>4. ASSUME NEW t \in Later(s) PROVE \E w \in 2..Horizon : row[w] = t
  <2>1. PICK v \in 1..(Horizon - 1) : t = s + 7 * v
    BY DEF Later
  <2>2. v + 1 \in 2..Horizon /\ s + 7 * ((v + 1) - 1) = t
    BY <1>1, <2>1
  <2>. QED
    BY <2>2
<1>. HIDE DEF f, g, row
<1>5. SumOver(g, Later(s)) = SumOver(f, 2..Horizon)
  BY <1>1, <1>2, <1>3, <1>4, SumMovedOnto
<1>6. SumOver(f, 2..Horizon) \in Int
  BY <1>1, <1>2, SumIsNumber
<1>. QED
  BY <1>5, <1>6 DEF Over, f, g

LEMMA OverCurrent ==
    ASSUME NEW s \in Nat, s % 7 = 0, NEW current, current.start = s + 7, NEW c \in Categories,
           \A w \in Weeks : current.cells[<<c, w>>] \in Int
    PROVE  /\ Over(current, c, Later(s))
                = SumOver([w \in 1..(Horizon - 1) |-> current.cells[<<c, w>>]], 1..(Horizon - 1))
           /\ Over(current, c, Later(s)) \in Int
<1>. DEFINE S == 1..(Horizon - 1)
            f == [w \in S |-> current.cells[<<c, w>>]]
            g == [day \in Later(s) |-> current.cells[<<c, WeekIndex(day, current.start)>>]]
            row == [w \in S |-> s + 7 * w]
<1>1. Horizon \in Nat /\ Horizon >= 2 /\ Weeks = 1..Horizon /\ IsFiniteSet(S)
  BY WeeksAre, FS_Interval
<1>2. ASSUME NEW w \in S PROVE row[w] \in Later(s) /\ g[row[w]] = f[w] /\ f[w] \in Int
  <2>1. w \in Int /\ w - 1 >= 0 /\ w \in Weeks /\ w - 1 \in Int
    BY <1>1
  <2>2. row[w] \in Later(s)
    BY DEF Later
  <2>3. s + 7 \in Nat /\ (s + 7) % 7 = 0 /\ row[w] = (s + 7) + 7 * (w - 1) /\ (w - 1) + 1 = w
    BY <2>1
  <2>4. WeekIndex(row[w], s + 7) = w
    <3>1. WeekIndex((s + 7) + 7 * (w - 1), s + 7) = (w - 1) + 1
      BY <2>1, <2>3, WeekOf
    <3>. QED
      BY <2>3, <3>1
  <2>. QED
    BY <2>1, <2>2, <2>4
<1>3. \A w, v \in S : row[w] = row[v] => w = v
  BY <1>1
<1>4. \A t \in Later(s) : \E w \in S : row[w] = t
  BY DEF Later
<1>. HIDE DEF f, g, row, S
<1>5. SumOver(g, Later(s)) = SumOver(f, S)
  BY <1>1, <1>2, <1>3, <1>4, SumMovedOnto
<1>6. SumOver(f, S) \in Int
  BY <1>1, <1>2, SumIsNumber
<1>. QED
  BY <1>5, <1>6 DEF Over, f, g, S

\* What all the categories move over some weeks is what those weeks move.
Across(version, across, W) ==
    \A c \in Categories, w \in W : across[c][w] = version.cells[<<c, w>>]

LEMMA WeeksTogether ==
    ASSUME NEW version, FiguresOf(version), NEW W \in SUBSET Weeks,
           NEW across, Across(version, across, W),
           NEW moved, Sums(moved, across, Categories, W),
           NEW total, \A w \in W : total[w] = WeekTotal(version.cells, w)
    PROVE  SumOver(moved, Categories) = SumOver(total, W)
<1>. DEFINE cells == version.cells
            down == [w \in W |-> [c \in Categories |-> cells[<<c, w>>]]]
<1>1. IsFiniteSet(W)
  BY WeeksAre, FS_Subset
<1>2. Sums(total, down, W, Categories)
  <2>1. \A w \in W : down[w] = [c \in Categories |-> version.cells[<<c, w>>]]
    OBVIOUS
  <2>2. \A w \in W :
          total[w] = SumOver([c \in Categories |-> version.cells[<<c, w>>]], Categories)
    BY DEF WeekTotal
  <2>. HIDE DEF down
  <2>. QED
    BY <2>1, <2>2 DEF Sums
<1>3. Table(cells, across, down, Categories, W)
  BY DEF FiguresOf, Across, Table
<1>. HIDE DEF cells, down
<1>. QED
  BY <1>1, <1>2, <1>3, CategoriesAreFinite, RowsAndColumns

\* The two bridges, of any two consecutive versions.
Totals(version) == [w \in Weeks |-> WeekTotal(version.cells, w)]

LEMMA RevisionTies ==
    ASSUME NEW s \in Nat, s % 7 = 0, NEW prior, NEW current, prior.start = s, current.start = s + 7,
           FiguresOf(prior), FiguresOf(current),
           NEW revision, revision = ForecastVsPrior(current, prior)
    PROVE  /\ Ties(revision)
           /\ revision.closing = SumOver(Totals(current), 1..(Horizon - 1))
                                   - SumOver(Totals(prior), 2..Horizon)
           /\ (\A c \in Categories : Over(current, c, Later(s)) = Over(prior, c, Later(s))) =>
                \A row \in revision.rows : row.variance = 0
<1>. DEFINE now == [c \in Categories |-> Over(current, c, Later(s))]
            before == [c \in Categories |-> Over(prior, c, Later(s))]
            variance == [c \in Categories |-> now[c] - before[c]]
            end == Max(Later(s)) + 6
            there == [c \in Categories |->
                        [w \in 1..(Horizon - 1) |-> current.cells[<<c, w>>]]]
            here == [c \in Categories |-> [w \in 2..Horizon |-> prior.cells[<<c, w>>]]]
<1>1. \A c \in Categories : now[c] \in Int /\ before[c] \in Int
  BY OverPrior, OverCurrent DEF FiguresOf
<1>2. /\ Sums(now, there, Categories, 1..(Horizon - 1))
       /\ Sums(before, here, Categories, 2..Horizon)
  BY OverPrior, OverCurrent DEF FiguresOf, Sums
<1>3. Across(current, there, 1..(Horizon - 1)) /\ Across(prior, here, 2..Horizon)
  BY DEF Across
<1>4. revision = Bridge(Lines(now, before, variance), end)
  <2>1. revision = Bridge({BridgeLine(c, Over(current, c, Later(s)), Over(prior, c, Later(s)),
                                      Over(current, c, Later(s)) - Over(prior, c, Later(s))) :
                              c \in Categories}, end)
    BY SharedWeeks DEF ForecastVsPrior
  <2>2. Lines(now, before, variance)
          = {BridgeLine(c, Over(current, c, Later(s)), Over(prior, c, Later(s)),
                        Over(current, c, Later(s)) - Over(prior, c, Later(s))) : c \in Categories}
    BY DEF Lines
  <2>. QED
    BY <2>1, <2>2
<1>5. (\A c \in Categories : Over(current, c, Later(s)) = Over(prior, c, Later(s))) =>
        \A c \in Categories : now[c] = before[c]
  OBVIOUS
<1>. HIDE DEF now, before, end, here, there
<1>6. \A c \in Categories : variance[c] \in Int
  BY <1>1
<1>7. \A c \in Categories : now[c] = variance[c] + before[c]
  BY <1>1
<1>8. (\A c \in Categories : Over(current, c, Later(s)) = Over(prior, c, Later(s))) =>
        \A c \in Categories : variance[c] = 0
  BY <1>5, <1>1
<1>. HIDE DEF variance
<1>9. /\ Ties(revision) /\ revision.closing = SumOver(variance, Categories)
      /\ (\A c \in Categories : variance[c] = 0) => \A row \in revision.rows : row.variance = 0
  BY <1>4, <1>6, BridgeTies
<1>10. SumOver(now, Categories) = SumOver(variance, Categories) + SumOver(before, Categories)
  BY <1>1, <1>6, <1>7, CategoriesAreFinite, SumPlus
<1>11. SumOver(now, Categories) = SumOver(Totals(current), 1..(Horizon - 1))
  <2>1. 1..(Horizon - 1) \in SUBSET Weeks
    BY WeeksAre
  <2>2. \A w \in 1..(Horizon - 1) : Totals(current)[w] = WeekTotal(current.cells, w)
    BY <2>1 DEF Totals
  <2>. QED
    BY <1>2, <1>3, <2>1, <2>2, WeeksTogether
<1>12. SumOver(before, Categories) = SumOver(Totals(prior), 2..Horizon)
  <2>1. 2..Horizon \in SUBSET Weeks
    BY WeeksAre
  <2>2. \A w \in 2..Horizon : Totals(prior)[w] = WeekTotal(prior.cells, w)
    BY <2>1 DEF Totals
  <2>. QED
    BY <1>2, <1>3, <2>1, <2>2, WeeksTogether
<1>13. SumOver(variance, Categories) \in Int /\ SumOver(before, Categories) \in Int
  BY <1>1, <1>6, CategoriesAreFinite, SumIsNumber
<1>. QED
  BY <1>8, <1>9, <1>10, <1>11, <1>12, <1>13

LEMMA SurpriseTies ==
    ASSUME NEW s \in Nat, s % 7 = 0, NEW version, version.start = s, FiguresOf(version),
           NEW surprise,
           surprise = ActualVsForecast(version, [weekStart |-> s, byCategory |-> Settled])
    PROVE  /\ Ties(surprise)
           /\ surprise.closing = SumOver(Settled, DOMAIN Settled) - WeekTotal(version.cells, 1)
<1>. DEFINE settled == [c \in Categories |-> IF c \in DOMAIN Settled THEN Settled[c] ELSE 0]
            forecast == [c \in Categories |-> version.cells[<<c, 1>>]]
            variance == [c \in Categories |-> settled[c] - forecast[c]]
<1>1. 1 \in Weeks /\ DOMAIN Settled \subseteq Categories
  BY WeeksAre, VarianceAssumption
<1>2. \A c \in Categories : settled[c] \in Int /\ forecast[c] \in Int
  BY <1>1, VarianceAssumption DEF FiguresOf
<1>3. surprise = Bridge(Lines(forecast, settled, variance), s + 6)
  <2>. DEFINE actual == [weekStart |-> s, byCategory |-> Settled]
              was(c) == IF c \in DOMAIN Settled THEN Settled[c] ELSE 0
  <2>1. (actual.weekStart - version.start) \div 7 + 1 = 1
    OBVIOUS
  <2>2. surprise = Bridge({BridgeLine(c, version.cells[<<c, 1>>], was(c),
                                      was(c) - version.cells[<<c, 1>>]) : c \in Categories}, s + 6)
    BY <2>1 DEF ActualVsForecast
  <2>3. Lines(forecast, settled, variance)
          = {BridgeLine(c, version.cells[<<c, 1>>], was(c), was(c) - version.cells[<<c, 1>>]) :
               c \in Categories}
    BY DEF Lines
  <2>. QED
    BY <2>2, <2>3
<1>4. \A c \in Categories : variance[c] \in Int /\ settled[c] = variance[c] + forecast[c]
  <2>. HIDE DEF settled, forecast
  <2>. QED
    BY <1>2
<1>5. SumOver(settled, Categories) = SumOver(Settled, DOMAIN Settled)
  <2>. DEFINE D == DOMAIN Settled
              R == Categories \ D
  <2>1. IsFiniteSet(D) /\ IsFiniteSet(R) /\ D \cap R = {} /\ Categories = D \cup R
    BY <1>1, CategoriesAreFinite, FS_Subset
  <2>2. (\A c \in D : settled[c] = Settled[c]) /\ (\A c \in R : settled[c] = 0)
    BY <1>1
  <2>. HIDE DEF settled, D, R
  <2>3. SumOver(settled, D \cup R) = SumOver(settled, D) + SumOver(settled, R)
    BY <1>2, <2>1, SumApart
  <2>4. SumOver(settled, D) = SumOver(Settled, D) /\ SumOver(settled, R) = 0
    BY <2>1, <2>2, SumSame, SumOfZeros
  <2>5. SumOver(settled, D) \in Int
    BY <1>2, <2>1, SumIsNumber
  <2>. QED
    BY <2>1, <2>3, <2>4, <2>5 DEF D
<1>6. SumOver(forecast, Categories) = WeekTotal(version.cells, 1)
  BY DEF WeekTotal
<1>. HIDE DEF settled, forecast, variance
<1>7. Ties(surprise) /\ surprise.closing = SumOver(variance, Categories)
  BY <1>3, <1>4, BridgeTies
<1>8. SumOver(settled, Categories) = SumOver(variance, Categories) + SumOver(forecast, Categories)
  BY <1>2, <1>4, CategoriesAreFinite, SumPlus
<1>9. SumOver(variance, Categories) \in Int /\ SumOver(forecast, Categories) \in Int
  BY <1>2, <1>4, CategoriesAreFinite, SumIsNumber
<1>. QED
  BY <1>5, <1>6, <1>7, <1>8, <1>9

LEMMA RollTies ==
    ASSUME OnMondays, GridIsBuilt, Numbers, NEW cash, RollForward(cash),
           OnMondays', GridIsBuilt', Numbers', FiguresOf(grid)
    PROVE  BridgesTie
<1>. DEFINE s == monday
            A == [start |-> s, cells |-> grid.cells]
            B == [start |-> s + 7, cells |-> grid'.cells]
            H == Horizon
<1>1. s \in Nat /\ s % 7 = 0 /\ monday' = s + 7
  BY DEF OnMondays, RollForward
<1>2. This = A /\ This' = B
  BY <1>1 DEF This
<1>3. FiguresOf(grid) /\ FiguresOf(grid')
  <2>1. FiguresOf(grid')
    <3>1. DriversOK(drivers') /\ monday' \in Nat /\ monday' >= Far
      <4>1. drivers' = drivers
        BY DEF RollForward
      <4>. QED
        BY <4>1, DriversAreFormed DEF OnMondays
    <3>2. FiguresOf(Build(drivers', monday', opening', overrides'))
      BY <3>1, FiguresAreNumbers DEF Numbers
    <3>. QED
      BY <3>2 DEF GridIsBuilt
  <2>. QED
    BY <2>1
<1>4. FiguresOf(A) /\ FiguresOf(B)
  BY <1>3 DEF FiguresOf
<1>5. Totals(A) = [w \in Weeks |-> WeekTotal(grid.cells, w)]
      /\ Totals(B) = [w \in Weeks |-> WeekTotal(grid'.cells, w)]
  BY DEF Totals
<1>6. H \in Nat /\ H >= 2 /\ Weeks = 1..H /\ 1 \in Weeks /\ H \in Weeks /\ H - 1 \in Weeks
  BY WeeksAre
<1>7. \A w \in Weeks : /\ grid.closing[w] = opening + SumOver(Totals(A), 1..w)
                       /\ SumOver(Totals(A), 1..w) \in Int
  BY <1>3, <1>5, ClosingIs DEF GridIsBuilt, Numbers
<1>8. \A w \in Weeks : /\ grid'.closing[w] = opening' + SumOver(Totals(B), 1..w)
                       /\ SumOver(Totals(B), 1..w) \in Int
  <2>1. opening' \in Int /\ grid' = Build(drivers', monday', opening', overrides')
    BY DEF GridIsBuilt, Numbers
  <2>. QED
    BY <1>3, <1>5, <2>1, ClosingIs
<1>9. /\ SumOver(Totals(A), 1..H) = SumOver(Totals(A), 1..1) + SumOver(Totals(A), 2..H)
      /\ SumOver(Totals(A), 2..H) \in Int
      /\ SumOver(Totals(A), 1..1) = WeekTotal(grid.cells, 1)
  <2>. DEFINE t == Totals(A)
  <2>1. \A w \in Weeks : t[w] \in Int /\ t[w] = WeekTotal(grid.cells, w)
    BY <1>3, <1>5 DEF FiguresOf
  <2>2. /\ 1..1 = {1} /\ 1..H = (1..1) \cup (2..H) /\ (1..1) \cap (2..H) = {}
        /\ 1..1 \subseteq Weeks /\ 2..H \subseteq Weeks
    BY <1>6
  <2>. DEFINE P == 1..1
              Q == 2..H
  <2>3. IsFiniteSet(P) /\ IsFiniteSet(Q)
    BY <2>2, WeeksAre, FS_Subset
  <2>4. P = {1} /\ 1..H = P \cup Q /\ P \cap Q = {} /\ P \subseteq Weeks /\ Q \subseteq Weeks
    BY <2>2
  <2>. HIDE DEF t, P, Q
  <2>5. \A w \in P \cup Q : t[w] \in Int
    BY <2>1, <2>4
  <2>6. SumOver(t, P \cup Q) = SumOver(t, P) + SumOver(t, Q)
    BY <2>3, <2>4, <2>5, SumApart
  <2>7. SumOver(t, Q) \in Int
    BY <2>3, <2>5, SumIsNumber
  <2>8. SumOver(t, P) = t[1]
    BY <1>6, <2>1, <2>4, SumOfOne
  <2>. QED
    BY <1>6, <2>1, <2>4, <2>6, <2>7, <2>8 DEF t, P, Q
<1>. DEFINE revision == ForecastVsPrior(B, A)
            surprise == ActualVsForecast(A, [weekStart |-> s, byCategory |-> Settled])
<1>10. A.start = s /\ B.start = s + 7
  OBVIOUS
<1>. HIDE DEF A, B, s
<1>11. /\ Ties(revision)
       /\ revision.closing = SumOver(Totals(B), 1..(H - 1)) - SumOver(Totals(A), 2..H)
  BY <1>1, <1>4, <1>10, RevisionTies
<1>12. /\ Ties(surprise)
       /\ surprise.closing = SumOver(Settled, DOMAIN Settled) - WeekTotal(A.cells, 1)
  BY <1>1, <1>4, <1>10, SurpriseTies
<1>. HIDE DEF revision, surprise
<1>13. revision.closing = (grid'.closing[H - 1] - opening') - (grid.closing[H] - grid.closing[1])
  <2>. DEFINE one == SumOver(Totals(A), 1..1)
              rest == SumOver(Totals(A), 2..H)
              new == SumOver(Totals(B), 1..(H - 1))
  <2>1. opening \in Int /\ opening' \in Int
    BY DEF Numbers
  <2>2. grid.closing[H] = opening + (one + rest) /\ rest \in Int
    BY <1>6, <1>7, <1>9
  <2>3. grid.closing[1] = opening + one /\ one \in Int
    BY <1>6, <1>7
  <2>4. grid'.closing[H - 1] = opening' + new /\ new \in Int
    BY <1>1, <1>6, <1>8
  <2>5. revision.closing = new - rest
    BY <1>11
  <2>. HIDE DEF one, rest, new
  <2>6. grid'.closing[H - 1] - opening' = new
    BY <2>1, <2>4
  <2>7. grid.closing[H] - grid.closing[1] = rest
    BY <2>1, <2>2, <2>3
  <2>. QED
    BY <2>5, <2>6, <2>7
<1>14. surprise.closing = SumOver(Settled, DOMAIN Settled) - (grid.closing[1] - opening)
  <2>1. opening \in Int
    BY DEF Numbers
  <2>2. A.cells = grid.cells
    BY DEF A
  <2>. DEFINE one == SumOver(Totals(A), 1..1)
  <2>3. grid.closing[1] = opening + one /\ one \in Int /\ one = WeekTotal(grid.cells, 1)
    BY <1>6, <1>7, <1>9
  <2>. HIDE DEF one
  <2>4. grid.closing[1] - opening = WeekTotal(grid.cells, 1)
    BY <2>1, <2>3
  <2>. QED
    BY <1>12, <2>2, <2>4
<1>. QED
  BY <1>2, <1>11, <1>12, <1>13, <1>14 DEF BridgesTie, revision, surprise, s

\* Two sets of drafts agree on what is dated between two days.
Agree(A, B, from, to) ==
    \A m : from <= m.date /\ m.date <= to => (m \in A <=> m \in B)

\* The windows of a version that starts on s and of the next.
Rolls7(s, start, end) == start = s + 7 /\ end = HorizonEnd(s)

LEMMA TwoWindows ==
    ASSUME NEW s \in Nat, NEW start, NEW end, Rolls7(s, start, end)
    PROVE  /\ start \in Nat /\ end \in Nat /\ end + 7 \in Nat /\ s <= start /\ start <= end
           /\ s <= end /\ end <= end + 7 /\ HorizonEnd(start) = end + 7 /\ HorizonEnd(s) = end
<1>1. Horizon \in Nat /\ Horizon >= 2
  BY WeeksAre
<1>. QED
  BY <1>1 DEF Rolls7, HorizonEnd

LEMMA RentAgrees ==
    ASSUME NEW d, DriversOK(d), PaidInItsMonth(d.rentDay),
           NEW s \in Nat, NEW start, NEW end, Rolls7(s, start, end)
    PROVE  Agree(RentDrafts(d, s, end), RentDrafts(d, start, end + 7), start, end)
<1>. DEFINE day == d.rentDay
            near == MonthlyDates(start, end, day)
<1>1. /\ start \in Nat /\ end \in Nat /\ end + 7 \in Nat /\ s <= start /\ start <= end
      /\ end <= end + 7 /\ s <= end
  BY TwoWindows
<1>2. day \in 1..22
  <2>1. day \in 1..31
    BY DEF DriversOK
  <2>. QED
    BY <2>1, RentDaysInReach
<1>. HIDE DEF day
<1>3. /\ MonthlyDates(start, end, day) = Within(MonthlyDates(s, end, day), start, end)
      /\ MonthlyDates(start, end, day) = Within(MonthlyDates(start, end + 7, day), start, end)
  <2>1. day \in Nat \ {0} /\ day <= 22
    BY <1>2
  <2>2. start <= start /\ end <= end
    BY <1>1
  <2>. HIDE DEF near
  <2>. QED
    BY <1>1, <2>1, <2>2, RentWindow
<1>4. ASSUME NEW x, start <= x, x <= end
      PROVE  x \in MonthlyDates(s, end, day) <=> x \in MonthlyDates(start, end + 7, day)
  BY <1>3, <1>4 DEF Within
<1>. DEFINE Pays(m, due) == d.rent # 0 /\ m = Draft("rent_leases", due, -d.rent, <<"rent", due>>)
<1>5. \A m, a, b : m \in RentDrafts(d, a, b) <=> \E due \in MonthlyDates(a, b, day) : Pays(m, due)
  BY DEF RentDrafts, day
<1>6. \A m, due : Pays(m, due) => m.date = due
  BY DEF Draft
<1>. HIDE DEF Pays, near
<1>. QED
  BY <1>4, <1>5, <1>6 DEF Agree

LEMMA TaxAgrees ==
    ASSUME NEW d, NEW s \in Nat, NEW start, NEW end, Rolls7(s, start, end)
    PROVE  Agree(TaxDrafts(d, s, end), TaxDrafts(d, start, end + 7), start, end)
<1>1. /\ start \in Nat /\ end \in Nat /\ end + 7 \in Nat /\ s <= start /\ start <= end
      /\ end <= end + 7 /\ s <= end /\ start <= start /\ end <= end
  BY TwoWindows
<1>2. /\ QuarterlyEstimatedTaxDates(start, end)
           = Within(QuarterlyEstimatedTaxDates(s, end), start, end)
      /\ QuarterlyEstimatedTaxDates(start, end)
           = Within(QuarterlyEstimatedTaxDates(start, end + 7), start, end)
  BY <1>1, TaxWindow
<1>3. ASSUME NEW x, start <= x, x <= end
      PROVE  x \in QuarterlyEstimatedTaxDates(s, end)
               <=> x \in QuarterlyEstimatedTaxDates(start, end + 7)
  BY <1>2, <1>3 DEF Within
<1>. DEFINE Pays(m, due) ==
              /\ d.quarterlyTax > 0
              /\ m = Draft("tax_income_estimated", due, -d.quarterlyTax, <<"est-tax", due>>)
            sales == Dated({item \in d.dated : item.category = "tax_sales_vat"})
<1>4. \A m, a, b : m \in TaxDrafts(d, a, b)
                    <=> \/ \E due \in QuarterlyEstimatedTaxDates(a, b) : Pays(m, due)
                        \/ m \in sales
  BY DEF TaxDrafts
<1>5. \A m, due : Pays(m, due) => m.date = due
  BY DEF Draft
<1>. HIDE DEF Pays, sales
<1>. QED
  BY <1>3, <1>4, <1>5 DEF Agree

\* A deposit is never before the payday it is for.
LEMMA DepositAfter ==
    ASSUME NEW p \in Nat, NEW schedule
    PROVE  DepositDate(p, schedule) \in Int /\ p <= DepositDate(p, schedule)
<1>. DEFINE target == IF Weekday(p) \in {Wednesday, Thursday, Friday} THEN Wednesday ELSE Friday
            offset == (target - Weekday(p)) % 7
            soon == p + (IF offset = 0 THEN 7 ELSE offset)
            late == DateOf(MonthNo(p) + 1, 15)
<1>1. DepositDate(p, schedule) = Adjust(IF schedule = "monthly" THEN late ELSE soon, "following")
  BY DEF DepositDate
<1>2. soon \in Int /\ p <= soon
  <2>1. target \in Int /\ Weekday(p) \in Int
    BY DEF Wednesday, Thursday, Friday, Weekday
  <2>. HIDE DEF target
  <2>2. offset \in 0..6
    BY <2>1
  <2>. HIDE DEF offset
  <2>. QED
    BY <2>2
<1>3. late \in Int /\ p <= late
  <2>1. FirstOf(MonthNo(p) + 1) \in Nat /\ p < FirstOf(MonthNo(p) + 1)
    BY MonthOf, MonthLength DEF LiesIn
  <2>. QED
    BY <2>1 DEF DateOf
<1>. DEFINE due == IF schedule = "monthly" THEN late ELSE soon
<1>4. due \in Int /\ p <= due
  BY <1>2, <1>3
<1>. HIDE DEF due
<1>5. Adjust(due, "following") \in due..(due + 4)
  BY <1>4, Following
<1>. QED
  BY <1>1, <1>4, <1>5 DEF due

LEMMA PayrollAgrees ==
    ASSUME NEW d, DriversOK(d), d.payroll.frequency = "semi_monthly", d.payroll.hourly = 0,
           NEW s \in Nat, s >= Far, NEW start, NEW end, Rolls7(s, start, end)
    PROVE  Agree(PayrollDrafts(d, s, end), PayrollDrafts(d, start, end + 7), start, end)
<1>. DEFINE before == SalariedDates(d, s, end)
            after == SalariedDates(d, start, end + 7)
            deposit(p) == DepositDate(p, d.payroll.schedule)
            wide == SemiMonthlyPayDates(start - Far, end + 7)
<1>1. /\ start \in Nat /\ end \in Nat /\ end + 7 \in Nat /\ s <= start /\ start <= end
      /\ end <= end + 7 /\ s <= end /\ start = s + 7 /\ s >= 90
  BY TwoWindows DEF Rolls7, Far
<1>2. /\ before = SemiMonthlyPayDates(s - 45, end) /\ after = SemiMonthlyPayDates(start - 45, end + 7)
      /\ HourlyDates(d, s, end) = {} /\ HourlyDates(d, start, end + 7) = {}
  BY DEF SalariedDates, HourlyDates, PayDates, PayrollStart, Lookback
<1>3. before = Within(wide, s - 45, end) /\ after = Within(wide, start - 45, end + 7)
  <2>1. /\ s - 45 \in Nat /\ start - 45 \in Nat /\ start - Far \in Nat /\ start - Far <= s - 45
        /\ start - Far <= start - 45 /\ s - 45 <= end /\ start - 45 <= end + 7
        /\ end + 7 <= end + 7
    BY <1>1 DEF Far
  <2>. QED
    BY <1>1, <1>2, <2>1, SemiMonthlyWindow
<1>4. \A p \in wide : p \in Nat
  <2>1. start - Far \in Nat
    BY <1>1 DEF Far
  <2>. QED
    BY <1>1, <2>1, SemiMonthlyPaydayIs
<1>5. ASSUME NEW p, start <= p, p <= end PROVE p \in before <=> p \in after
  <2>. HIDE DEF before, after, wide
  <2>1. p \in wide => p \in before /\ p \in after
    BY <1>1, <1>3, <1>4, <1>5 DEF Within
  <2>. QED
    BY <1>3, <2>1 DEF Within
<1>6. ASSUME NEW p, start <= deposit(p), deposit(p) <= end PROVE p \in before <=> p \in after
  <2>1. ASSUME p \in before PROVE p \in after
    <3>1. p \in wide
      BY <1>3, <2>1 DEF Within
    <3>2. p \in PayDates(d.payroll.frequency, d.payroll.anchor, start - Far, end + 7)
      BY <3>1 DEF PayDates
    <3>3. start >= Far
      BY <1>1 DEF Far
    <3>. HIDE DEF before, wide
    <3>. QED
      BY <1>1, <1>6, <3>2, <3>3, WithinLookback
  <2>2. ASSUME p \in after PROVE p \in before
    <3>1. p \in wide /\ p \in Nat /\ start - 45 <= p
      BY <1>3, <1>4, <2>2 DEF Within
    <3>. HIDE DEF wide, before, after
    <3>2. deposit(p) \in Int /\ p <= deposit(p)
      BY <3>1, DepositAfter
    <3>. HIDE DEF deposit
    <3>3. s - 45 <= p /\ p <= end
      BY <1>1, <1>6, <3>1, <3>2
    <3>. QED
      BY <1>3, <3>1, <3>3 DEF Within
  <2>. QED
    BY <2>1, <2>2
<1>. DEFINE tax == (d.payroll.salaried * d.payroll.taxBps) \div Bps
            Pays(m, p) ==
              \/ m = Draft("payroll_salaried", p, -d.payroll.salaried, <<"pay", p>>)
              \/ m = Draft("payroll_taxes_benefits", p, -d.payroll.benefits, <<"benefits", p>>)
            Taxes(m, p) == m = Draft("payroll_taxes_benefits", deposit(p), -tax, <<"tax", p>>)
<1>7. ASSUME NEW a, NEW b, HourlyDates(d, a, b) = {}, NEW m
      PROVE  m \in PayrollDrafts(d, a, b)
               <=> \E p \in SalariedDates(d, a, b) : Pays(m, p) \/ Taxes(m, p)
  <2>. DEFINE S == SalariedDates(d, a, b)
  <2>1. m \in PayrollDrafts(d, a, b)
          <=> \/ \E p \in S : Pays(m, p)
              \/ \E p \in S : m = Draft("payroll_taxes_benefits", deposit(p),
                                        -((GrossOn(d, p, S, {}) * d.payroll.taxBps) \div Bps),
                                        <<"tax", p>>)
    BY <1>7 DEF PayrollDrafts
  <2>2. \A p \in S : GrossOn(d, p, S, {}) = d.payroll.salaried
    <3>1. d.payroll.salaried \in Nat
      BY DEF DriversOK
    <3>. HIDE DEF S
    <3>. QED
      BY <3>1 DEF GrossOn
  <2>3. \A p \in S : (GrossOn(d, p, S, {}) * d.payroll.taxBps) \div Bps = tax
    BY <2>2
  <2>. HIDE DEF S, tax, deposit
  <2>. QED
    BY <2>1, <2>3 DEF S
<1>8. \A m, p : (Pays(m, p) => m.date = p) /\ (Taxes(m, p) => m.date = deposit(p))
  BY DEF Draft
<1>. HIDE DEF Pays, Taxes, deposit, tax, wide
<1>9. ASSUME NEW m
      PROVE  /\ m \in PayrollDrafts(d, s, end) <=> \E p \in before : Pays(m, p) \/ Taxes(m, p)
             /\ m \in PayrollDrafts(d, start, end + 7)
                  <=> \E p \in after : Pays(m, p) \/ Taxes(m, p)
  <2>1. m \in PayrollDrafts(d, s, end) <=> \E p \in before : Pays(m, p) \/ Taxes(m, p)
    BY <1>2, <1>7
  <2>2. m \in PayrollDrafts(d, start, end + 7)
          <=> \E p \in after : Pays(m, p) \/ Taxes(m, p)
    BY <1>2, <1>7
  <2>. QED
    BY <2>1, <2>2
<1>. HIDE DEF before, after
<1>. QED
  BY <1>5, <1>6, <1>8, <1>9 DEF Agree

\* The anniversaries of a loan, and whether it is serviced before they fall due.
LEMMA ServiceAgrees ==
    ASSUME NEW first \in Nat, NEW frequency \in DOMAIN ServiceMonths,
           NEW s \in Nat, NEW start, NEW end, Rolls7(s, start, end),
           \A due \in Anniversaries(first, frequency, s, end + 7) :
              due > end => Adjust(due, "modified_following") > end,
           NEW x, start <= x, x <= end
    PROVE  x \in DebtServiceDates(first, s, end, frequency)
             <=> x \in DebtServiceDates(first, start, end + 7, frequency)
<1>. DEFINE step == ServiceMonths[frequency]
            M == MonthNo(first)
            A(p) == AddMonthsEom(first, p * step)
            Due(p, to) == /\ M + p * step >= 0 /\ A(p) <= to
                          /\ x = Adjust(A(p), "modified_following")
<1>1. /\ start \in Nat /\ end \in Nat /\ end + 7 \in Nat /\ s <= start /\ start <= end
      /\ end <= end + 7 /\ s <= end /\ start <= end + 7 /\ start = s + 7
  BY TwoWindows DEF Rolls7
<1>2. /\ x \in DebtServiceDates(first, s, end, frequency) =>
            x \in Int /\ s <= x /\ x <= end /\ \E p \in Int : Due(p, end)
      /\ s <= x /\ x <= end /\ (\E p \in Int : Due(p, end)) =>
            x \in DebtServiceDates(first, s, end, frequency)
  BY <1>1, DebtServiceIs
<1>3. /\ x \in DebtServiceDates(first, start, end + 7, frequency) =>
            x \in Int /\ start <= x /\ x <= end + 7 /\ \E p \in Int : Due(p, end + 7)
      /\ start <= x /\ x <= end + 7 /\ (\E p \in Int : Due(p, end + 7)) =>
            x \in DebtServiceDates(first, start, end + 7, frequency)
  BY <1>1, DebtServiceIs
<1>4. ASSUME NEW p \in Int, M + p * step >= 0
      PROVE  /\ A(p) \in Nat /\ MonthNo(A(p)) = M + p * step
             /\ LiesIn(Adjust(A(p), "modified_following"), M + p * step)
             /\ Adjust(A(p), "modified_following") \in (A(p) - 4)..(A(p) + 4)
  <2>. DEFINE k == p * step
              m == M + k
  <2>1. k \in Int /\ m \in Nat
    <3>1. step \in Int /\ M \in Nat
      BY Steps, MonthOf
    <3>. QED
      BY <1>4, <3>1
  <2>. HIDE DEF k, step
  <2>2. AddMonthsEom(first, k) \in Nat /\ LiesIn(AddMonthsEom(first, k), m)
    BY <2>1, AnniversaryIs
  <2>. DEFINE y == AddMonthsEom(first, k)
  <2>. HIDE DEF y, m
  <2>3. y \in Nat /\ LiesIn(y, m) /\ m \in Nat
    BY <2>1, <2>2 DEF y, m
  <2>4. /\ LiesIn(Adjust(y, "modified_following"), m)
        /\ Adjust(y, "modified_following") \in (y - 4)..(y + 4)
    BY <2>3, ModifiedFollowing
  <2>5. MonthNo(y) = m
    BY <2>3, MonthIs
  <2>. QED
    BY <2>3, <2>4, <2>5 DEF y, m, k
<1>5. ASSUME x \in DebtServiceDates(first, s, end, frequency)
      PROVE  x \in DebtServiceDates(first, start, end + 7, frequency)
  <2>1. PICK p \in Int : Due(p, end)
    BY <1>2, <1>5
  <2>2. x \in Int /\ A(p) \in Nat
    BY <1>2, <1>4, <1>5, <2>1
  <2>3. Due(p, end + 7)
    <3>. HIDE DEF A
    <3>. QED
      BY <1>1, <2>1, <2>2
  <2>4. x <= end + 7
    BY <1>1, <2>2
  <2>. HIDE DEF Due
  <2>. QED
    BY <1>3, <2>3, <2>4
<1>6. ASSUME x \in DebtServiceDates(first, start, end + 7, frequency)
      PROVE  x \in DebtServiceDates(first, s, end, frequency)
  <2>1. PICK p \in Int : Due(p, end + 7)
    BY <1>3, <1>6
  <2>. DEFINE m == M + p * step
  <2>2. x \in Int /\ A(p) \in Nat /\ m \in Nat /\ LiesIn(x, m) /\ MonthNo(A(p)) = m
        /\ A(p) <= end + 7 /\ x = Adjust(A(p), "modified_following") /\ A(p) \in (x - 4)..(x + 4)
    <3>1. M \in Nat /\ step \in Int
      BY Steps, MonthOf
    <3>2. m \in Nat
      BY <2>1, <3>1
    <3>3. x \in Int
      BY <1>3, <1>6
    <3>. QED
      BY <1>4, <2>1, <3>2, <3>3
  <2>3. MonthNo(x) = m
    BY <2>2, MonthIs
  <2>4. A(p) \in Anniversaries(first, frequency, s, end + 7)
    <3>1. MonthNo(s) <= m /\ m <= MonthNo(end + 7)
      <4>1. x \in Nat /\ s <= x
        BY <1>1, <2>2
      <4>. HIDE DEF m, A
      <4>. QED
        BY <1>1, <2>2, <2>3, <4>1, MonthsInOrder
    <3>2. step \in {1, 3, 6, 12} /\ M \in Nat /\ MonthNo(s) \in Nat /\ MonthNo(end + 7) \in Nat
      BY <1>1, Steps, MonthOf
    <3>3. MonthNo(s) - M <= p * step /\ p * step <= MonthNo(end + 7) - M
      BY <3>1, <3>2
    <3>. DEFINE low == (MonthNo(s) - M) \div step - 1
                high == (MonthNo(end + 7) - M) \div step + 1
    <3>4. p \in low..high
      <4>. HIDE DEF M, step
      <4>1. (MonthNo(s) - M) \div step <= p /\ p <= (MonthNo(end + 7) - M) \div step
        BY <3>2, <3>3
      <4>. QED
        BY <3>2, <4>1
    <3>5. p \in {q \in low..high : M + q * step >= 0}
      BY <2>1, <3>4
    <3>6. Anniversaries(first, frequency, s, end + 7)
            = {A(q) : q \in {q \in low..high : M + q * step >= 0}}
      BY DEF Anniversaries, Anniversary
    <3>. HIDE DEF low, high, A
    <3>. QED
      BY <3>5, <3>6
  <2>5. A(p) <= end
    <3>. HIDE DEF A
    <3>. SUFFICES ASSUME A(p) > end PROVE FALSE
      BY <1>1, <2>2
    <3>1. x > end
      BY <2>2, <2>4
    <3>. QED
      BY <1>1, <2>2, <3>1
  <2>6. Due(p, end)
    BY <2>1, <2>5
  <2>7. s <= x
    BY <1>1, <2>2
  <2>. HIDE DEF Due
  <2>. QED
    BY <1>2, <2>6, <2>7
<1>. QED
  BY <1>5, <1>6

LEMMA DebtAgrees ==
    ASSUME NEW d, DriversOK(d), NEW s \in Nat, NEW start, NEW end, Rolls7(s, start, end),
           \A f \in d.debt : \A due \in Anniversaries(f.first, f.frequency, s, end + 7) :
              due > end => Adjust(due, "modified_following") > end
    PROVE  Agree(DebtDrafts(d, s, end), DebtDrafts(d, start, end + 7), start, end)
<1>. DEFINE Pays(m, f, due) == m \in ServiceDrafts(f, due)
<1>1. \A m, a, b : m \in DebtDrafts(d, a, b)
        <=> \E f \in d.debt : \E due \in DebtServiceDates(f.first, a, b, f.frequency) :
               Pays(m, f, due)
  <2>. DEFINE Two(f, due) == ServiceDrafts(f, due)
              Of(f, a, b) == UNION {Two(f, due) : due \in DebtServiceDates(f.first, a, b, f.frequency)}
  <2>1. \A m, f, due : m \in Two(f, due) <=> Pays(m, f, due)
    OBVIOUS
  <2>2. \A a, b : DebtDrafts(d, a, b) = UNION {Of(f, a, b) : f \in d.debt}
    BY DEF DebtDrafts
  <2>. HIDE DEF Two, Pays
  <2>3. \A m, f, a, b : m \in Of(f, a, b)
          <=> \E due \in DebtServiceDates(f.first, a, b, f.frequency) : m \in Two(f, due)
    OBVIOUS
  <2>. HIDE DEF Of
  <2>4. \A m, a, b : m \in DebtDrafts(d, a, b) <=> \E f \in d.debt : m \in Of(f, a, b)
    BY <2>2
  <2>. QED
    BY <2>1, <2>3, <2>4
<1>2. \A m, f, due : Pays(m, f, due) => m.date = due
  BY ServiceIs
<1>3. \A f \in d.debt : f.first \in Nat /\ f.frequency \in DOMAIN ServiceMonths
  BY DEF DriversOK
<1>. HIDE DEF Pays
<1>4. ASSUME NEW f \in d.debt, NEW x, start <= x, x <= end
      PROVE  x \in DebtServiceDates(f.first, s, end, f.frequency)
               <=> x \in DebtServiceDates(f.first, start, end + 7, f.frequency)
  BY <1>3, <1>4, ServiceAgrees
<1>. QED
  BY <1>1, <1>2, <1>4 DEF Agree

\* Of seven days in a row banks are open on three: four of them are weekdays less than six
\* days apart, and at most one of those is a holiday.
LEMMA ThreeOpen ==
    ASSUME NEW n \in Int
    PROVE  \E x, y, z \in (n + 1)..(n + 7) :
              x < y /\ y < z /\ IsBusinessDay(x) /\ IsBusinessDay(y) /\ IsBusinessDay(z)
<1>. DEFINE Works(i) == Weekday(n + i) \notin {Saturday, Sunday}
            Holiday(i) == n + i \in BankHolidays
            Goal == \E i, j, k \in 1..7 : /\ i < j /\ j < k /\ IsBusinessDay(n + i)
                                          /\ IsBusinessDay(n + j) /\ IsBusinessDay(n + k)
<1>. SUFFICES Goal
  OBVIOUS
<1>1. ASSUME NEW i \in 1..7, NEW j \in 1..7, i < j, j < i + 6 PROVE ~Holiday(i) \/ ~Holiday(j)
  BY <1>1, HolidaysApart
<1>2. \A i \in 1..7 : IsBusinessDay(n + i) <=> Works(i) /\ ~Holiday(i)
  BY DEF IsBusinessDay
<1>3. ASSUME NEW a \in 1..7, NEW b \in 1..7, NEW c \in 1..7, NEW e \in 1..7,
             a < b, b < c, c < e, e < a + 6, Works(a), Works(b), Works(c), Works(e)
      PROVE  Goal
  <2>1. /\ ~Holiday(a) \/ ~Holiday(b)
        /\ ~Holiday(a) \/ ~Holiday(c)
        /\ ~Holiday(a) \/ ~Holiday(e)
        /\ ~Holiday(b) \/ ~Holiday(c)
        /\ ~Holiday(b) \/ ~Holiday(e)
        /\ ~Holiday(c) \/ ~Holiday(e)
    <3>1. /\ b < a + 6 /\ a < c /\ c < a + 6 /\ a < e /\ c < b + 6 /\ b < e /\ e < b + 6
          /\ e < c + 6
      BY <1>3
    <3>. HIDE DEF Holiday
    <3>. QED
      BY <1>1, <1>3, <3>1
  <2>. HIDE DEF Holiday, Works
  <2>2. CASE Holiday(a)
    BY <1>2, <1>3, <2>1, <2>2
  <2>3. CASE ~Holiday(a) /\ Holiday(b)
    <3>1. IsBusinessDay(n + a) /\ IsBusinessDay(n + c) /\ IsBusinessDay(n + e) /\ a < c
      BY <1>2, <1>3, <2>1, <2>3
    <3>. QED
      BY <1>3, <3>1
  <2>4. CASE ~Holiday(a) /\ ~Holiday(b)
    <3>1. IsBusinessDay(n + a) /\ IsBusinessDay(n + b) /\ b < e
      BY <1>2, <1>3, <2>4
    <3>2. IsBusinessDay(n + c) \/ IsBusinessDay(n + e)
      BY <1>2, <1>3, <2>1
    <3>. QED
      BY <1>3, <3>1, <3>2
  <2>. QED
    BY <2>2, <2>3, <2>4
<1>4. n % 7 \in 0..6
  OBVIOUS
<1>5. \A i \in 1..7 : Works(i) <=> (n + i) % 7 \notin {5, 6}
  BY DEF Weekday, Saturday, Sunday
<1>. HIDE DEF Works, Goal
<1>6. CASE n % 7 \in {0, 6}
  <2>1. Works(1) /\ Works(2) /\ Works(3) /\ Works(4)
    BY <1>5, <1>6
  <2>. QED
    BY <1>3, <2>1
<1>7. CASE n % 7 = 1
  <2>1. Works(1) /\ Works(2) /\ Works(3) /\ Works(6)
    BY <1>5, <1>7
  <2>. QED
    BY <1>3, <2>1
<1>8. CASE n % 7 = 2
  <2>1. Works(1) /\ Works(2) /\ Works(5) /\ Works(6)
    BY <1>5, <1>8
  <2>. QED
    BY <1>3, <2>1
<1>9. CASE n % 7 \in {3, 4}
  <2>1. Works(3) \/ Works(1)
    BY <1>5, <1>9
  <2>2. Works(4) /\ Works(5) /\ Works(6)
    BY <1>5, <1>9
  <2>. QED
    BY <1>3, <2>1, <2>2
<1>10. CASE n % 7 = 5
  <2>1. Works(2) /\ Works(3) /\ Works(4) /\ Works(5)
    BY <1>5, <1>10
  <2>. QED
    BY <1>3, <2>1
<1>11. n % 7 \in {0, 6} \/ n % 7 = 1 \/ n % 7 = 2 \/ n % 7 \in {3, 4} \/ n % 7 = 5
  BY <1>4
<1>. QED
  BY <1>6, <1>7, <1>8, <1>9, <1>10, <1>11

\* The days banks are open, from the day after one to another.
OpenDays(n, d) == {e \in (n + 1)..d : IsBusinessDay(e)}

LEMMA OpenDaysGrow ==
    ASSUME NEW n \in Int, NEW c \in Int, NEW d \in Int, c <= d
    PROVE  /\ IsFiniteSet(OpenDays(n, d))
           /\ Cardinality(OpenDays(n, c)) \in Nat /\ Cardinality(OpenDays(n, d)) \in Nat
           /\ Cardinality(OpenDays(n, c)) <= Cardinality(OpenDays(n, d))
<1>1. IsFiniteSet((n + 1)..d) /\ IsFiniteSet((n + 1)..c)
  BY FS_Interval
<1>2. IsFiniteSet(OpenDays(n, d)) /\ IsFiniteSet(OpenDays(n, c))
  BY <1>1, FS_Subset DEF OpenDays
<1>3. OpenDays(n, c) \in SUBSET OpenDays(n, d)
  BY DEF OpenDays
<1>. QED
  BY <1>2, <1>3, FS_Subset, FS_CardinalityType

LEMMA EnoughOpen ==
    ASSUME NEW n \in Int
    PROVE  Cardinality(OpenDays(n, n + 7)) >= 3 /\ Cardinality(OpenDays(n, n + 14)) >= 6
<1>1. PICK x \in (n + 1)..(n + 7), y \in (n + 1)..(n + 7), z \in (n + 1)..(n + 7) :
        x < y /\ y < z /\ IsBusinessDay(x) /\ IsBusinessDay(y) /\ IsBusinessDay(z)
  BY ThreeOpen
<1>2. PICK u \in (n + 8)..(n + 14), v \in (n + 8)..(n + 14), w \in (n + 8)..(n + 14) :
        u < v /\ v < w /\ IsBusinessDay(u) /\ IsBusinessDay(v) /\ IsBusinessDay(w)
  <2>1. n + 7 \in Int /\ (n + 7) + 1 = n + 8 /\ (n + 7) + 7 = n + 14
    OBVIOUS
  <2>. QED
    BY <2>1, ThreeOpen
<1>. DEFINE A == {x} \cup {y} \cup {z}
            B == A \cup {u} \cup {v} \cup {w}
<1>3. IsFiniteSet(A) /\ Cardinality(A) = 3
  <2>1. IsFiniteSet({x}) /\ Cardinality({x}) = 1 /\ y \notin {x} /\ z \notin {x} \cup {y}
    BY <1>1, FS_Singleton
  <2>2. IsFiniteSet({x} \cup {y}) /\ Cardinality({x} \cup {y}) = 2
    BY <2>1, FS_AddElement
  <2>. QED
    BY <2>1, <2>2, FS_AddElement
<1>4. IsFiniteSet(B) /\ Cardinality(B) = 6
  <2>1. /\ u \notin A /\ v \notin A \cup {u} /\ w \notin A \cup {u} \cup {v}
    BY <1>1, <1>2
  <2>. HIDE DEF A
  <2>2. IsFiniteSet(A \cup {u}) /\ Cardinality(A \cup {u}) = 4
    BY <1>3, <2>1, FS_AddElement
  <2>. DEFINE C == A \cup {u}
  <2>. HIDE DEF C
  <2>3. IsFiniteSet(C \cup {v}) /\ Cardinality(C \cup {v}) = 5
    BY <2>1, <2>2, FS_AddElement DEF C
  <2>. DEFINE D == C \cup {v}
  <2>. HIDE DEF D
  <2>4. IsFiniteSet(D \cup {w}) /\ Cardinality(D \cup {w}) = 6
    BY <2>1, <2>3, FS_AddElement DEF C, D
  <2>. QED
    BY <2>4 DEF C, D
<1>5. A \in SUBSET OpenDays(n, n + 7) /\ B \in SUBSET OpenDays(n, n + 14)
  BY <1>1, <1>2 DEF OpenDays
<1>6. /\ IsFiniteSet(OpenDays(n, n + 7)) /\ IsFiniteSet(OpenDays(n, n + 14))
      /\ Cardinality(OpenDays(n, n + 7)) \in Nat /\ Cardinality(OpenDays(n, n + 14)) \in Nat
  <2>1. n + 7 \in Int /\ n + 14 \in Int /\ n <= n + 7 /\ n <= n + 14
    OBVIOUS
  <2>. QED
    BY <2>1, OpenDaysGrow
<1>. HIDE DEF A, B
<1>7. Cardinality(A) <= Cardinality(OpenDays(n, n + 7))
  BY <1>5, <1>6, FS_Subset
<1>8. Cardinality(B) <= Cardinality(OpenDays(n, n + 14))
  BY <1>5, <1>6, FS_Subset
<1>. QED
  BY <1>3, <1>4, <1>6, <1>7, <1>8

\* A payout of at most five business days lands within two weeks.
LEMMA SettlesSoon ==
    ASSUME NEW n \in Nat, NEW lag \in 0..5
    PROVE  /\ SettlementDate(n, lag) \in Int /\ n <= SettlementDate(n, lag)
           /\ SettlementDate(n, lag) <= n + 14
<1>1. CASE lag = 0
  <2>1. SettlementDate(n, lag) = IF IsBusinessDay(n) THEN n ELSE NextBusinessDay(n)
    BY <1>1 DEF SettlementDate, AddBusinessDays
  <2>2. NextBusinessDay(n) \in (n + 1)..(n + 5)
    BY NextIs
  <2>. QED
    BY <2>1, <2>2
<1>2. CASE lag # 0
  <2>. DEFINE count(d) == Cardinality(OpenDays(n, d))
              P(d) == IsBusinessDay(d) /\ count(d) = lag
              reach == lag * MaxClosedRun
              window == (n + 1)..(n + reach)
  <2>1. SettlementDate(n, lag) = CHOOSE d \in window : P(d)
    BY <1>2 DEF SettlementDate, AddBusinessDays, OpenDays
  <2>2. reach \in Nat /\ 7 * lag <= reach
    <3>1. MaxClosedRun \in Nat /\ MaxClosedRun >= 7
      BY CadenceAssumption
    <3>2. lag \in {1, 2, 3, 4, 5}
      BY <1>2
    <3>. QED
      BY <3>1, <3>2
  <2>. HIDE DEF reach
  <2>3. \A c, d \in Int : c <= d => count(c) \in Nat /\ count(d) \in Nat /\ count(c) <= count(d)
    BY OpenDaysGrow
  <2>4. count(n) = 0 /\ count(n + 7) >= 3 /\ count(n + 14) >= 6
    <3>1. OpenDays(n, n) = {}
      BY DEF OpenDays
    <3>. QED
      BY <3>1, EnoughOpen, FS_EmptySet
  <2>5. \A d \in Int : d > n => count(d) = IF IsBusinessDay(d) THEN count(d - 1) + 1
                                            ELSE count(d - 1)
    <3>. SUFFICES ASSUME NEW d \in Int, d > n
                  PROVE  count(d) = IF IsBusinessDay(d) THEN count(d - 1) + 1 ELSE count(d - 1)
      OBVIOUS
    <3>1. /\ OpenDays(n, d) = IF IsBusinessDay(d) THEN OpenDays(n, d - 1) \cup {d}
                              ELSE OpenDays(n, d - 1)
          /\ d \notin OpenDays(n, d - 1)
      BY DEF OpenDays
    <3>2. IsFiniteSet(OpenDays(n, d - 1))
      BY OpenDaysGrow
    <3>. QED
      BY <3>1, <3>2, FS_AddElement
  <2>. DEFINE S == {d \in Int : n < d /\ count(d) >= lag}
              far == IF lag <= 3 THEN n + 7 ELSE n + 14
              first == Min(S)
  <2>. HIDE DEF count
  <2>6. far \in S /\ far <= n + reach
    <3>1. far \in Int /\ n < far /\ far <= n + reach
      BY <1>2, <2>2
    <3>2. count(far) >= lag
      <4>1. CASE lag <= 3
        <5>1. far = n + 7
          BY <4>1
        <5>. HIDE DEF far
        <5>2. count(n + 7) \in Nat
          BY <2>3
        <5>. QED
          BY <2>4, <4>1, <5>1, <5>2
      <4>2. CASE ~(lag <= 3)
        <5>1. far = n + 14
          BY <4>2
        <5>. HIDE DEF far
        <5>2. count(n + 14) \in Nat
          BY <2>3
        <5>. QED
          BY <2>4, <5>1, <5>2
      <4>. QED
        BY <4>1, <4>2
    <3>. QED
      BY <3>1, <3>2
  <2>7. first \in S /\ \A d \in S : first <= d
    <3>1. S \in SUBSET Int /\ S # {} /\ \A d \in S : n <= d
      BY <2>6
    <3>. HIDE DEF S
    <3>. QED
      BY <3>1, LeastInt
  <2>8. P(first) /\ first \in window
    <3>. DEFINE f == first
    <3>1. f \in Int /\ n < f /\ count(f) >= lag /\ f <= far
      BY <2>6, <2>7
    <3>2. f - 1 \notin S
      BY <2>7, <3>1
    <3>. HIDE DEF first, f
    <3>3. count(f - 1) < lag
      <4>1. CASE f - 1 = n
        BY <1>2, <2>4, <4>1
      <4>2. CASE f - 1 > n
        <5>1. count(f - 1) \in Nat
          BY <2>3, <3>1
        <5>. QED
          BY <3>1, <3>2, <4>2, <5>1
      <4>. QED
        BY <3>1, <4>1, <4>2
    <3>4. count(f) = (IF IsBusinessDay(f) THEN count(f - 1) + 1 ELSE count(f - 1))
      BY <2>5, <3>1
    <3>5. count(f - 1) \in Nat
      BY <2>3, <3>1
    <3>6. P(f)
      BY <3>1, <3>3, <3>4, <3>5
    <3>7. f \in window
      <4>. HIDE DEF far
      <4>1. far \in Int
        BY <2>6
      <4>. QED
        BY <2>2, <2>6, <3>1, <4>1
    <3>. QED
      BY <3>6, <3>7 DEF f
  <2>. DEFINE D == CHOOSE d \in window : P(d)
  <2>9. D \in window /\ P(D)
    <3>. HIDE DEF P, window, first
    <3>. QED
      BY <2>8
  <2>10. D <= n + 14
    <3>1. D \in Int /\ count(D) = lag
      BY <2>2, <2>9
    <3>. HIDE DEF D
    <3>. SUFFICES ASSUME n + 14 <= D PROVE FALSE
      BY <3>1
    <3>2. count(n + 14) <= count(D) /\ count(D) \in Nat /\ count(n + 14) \in Nat
      BY <2>3, <3>1
    <3>. QED
      BY <2>4, <3>1, <3>2
  <2>. HIDE DEF D
  <2>. QED
    BY <2>1, <2>2, <2>9, <2>10 DEF D
<1>. QED
  BY <1>1, <1>2

\* The billing dates of a subscription, however far they are walked.
Walked(g, n, s) ==
    g = [i \in 0..n |-> IF i = 0 THEN s.next
                        ELSE AddMonths(g[i - 1], ServiceMonths[s.interval])]

Billed(s, b) == \E n \in Nat : \E g : Walked(g, n, s) /\ \E i \in 0..n : g[i] = b

LEMMA WalkExists ==
    ASSUME NEW s, NEW n \in Nat
    PROVE  \E g : Walked(g, n, s)
<1>. DEFINE Upto == {m \in Nat : \E g : Walked(g, m, s)}
            step == ServiceMonths[s.interval]
<1>1. 0 \in Upto
  <2>. DEFINE g == [i \in 0..0 |-> s.next]
  <2>1. Walked(g, 0, s)
    BY DEF Walked
  <2>. HIDE DEF g
  <2>. QED
    BY <2>1
<1>2. ASSUME NEW m \in Nat, m \in Upto PROVE m + 1 \in Upto
  <2>1. PICK g : Walked(g, m, s)
    BY <1>2
  <2>. DEFINE h == [i \in 0..(m + 1) |-> IF i = 0 THEN s.next ELSE AddMonths(g[i - 1], step)]
  <2>2. g = [i \in 0..m |-> IF i = 0 THEN s.next ELSE AddMonths(g[i - 1], step)]
    BY <2>1 DEF Walked
  <2>3. \A i \in 0..m : h[i] = g[i]
    BY <2>2
  <2>4. \A i \in 0..(m + 1) : i # 0 => h[i - 1] = g[i - 1]
    <3>. HIDE DEF h
    <3>. QED
      BY <2>3
  <2>5. h = [i \in 0..(m + 1) |-> IF i = 0 THEN s.next ELSE AddMonths(h[i - 1], step)]
    BY <2>4
  <2>. HIDE DEF h
  <2>6. Walked(h, m + 1, s)
    BY <2>5 DEF Walked
  <2>. QED
    BY <2>6
<1>3. Nat \subseteq Upto
  <2>. HIDE DEF Upto
  <2>. QED
    BY <1>1, <1>2, Counting
<1>. QED
  BY <1>3

\* Two walks agree as far as both go.
LEMMA WalksAgree ==
    ASSUME NEW s, NEW n \in Nat, NEW g, Walked(g, n, s), NEW m \in Nat, NEW h, Walked(h, m, s),
           NEW i \in Nat, i <= n, i <= m
    PROVE  g[i] = h[i]
<1>. DEFINE Same == {k \in Nat : k <= n /\ k <= m => g[k] = h[k]}
<1>1. 0 \in Same
  BY DEF Walked
<1>2. ASSUME NEW k \in Nat, k \in Same PROVE k + 1 \in Same
  <2>. SUFFICES ASSUME k + 1 <= n, k + 1 <= m PROVE g[k + 1] = h[k + 1]
    OBVIOUS
  <2>1. g[k] = h[k] /\ (k + 1) - 1 = k /\ k + 1 # 0 /\ k + 1 \in 0..n /\ k + 1 \in 0..m
    BY <1>2
  <2>2. /\ g[k + 1] = AddMonths(g[(k + 1) - 1], ServiceMonths[s.interval])
        /\ h[k + 1] = AddMonths(h[(k + 1) - 1], ServiceMonths[s.interval])
    BY <2>1 DEF Walked
  <2>. QED
    BY <2>1, <2>2
<1>3. Nat \subseteq Same
  <2>. HIDE DEF Same
  <2>. QED
    BY <1>1, <1>2, Counting
<1>. QED
  BY <1>3

\* Every step of a walk is some months on.
LEMMA WalkGoes ==
    ASSUME NEW s, s.next \in Nat, s.interval \in DOMAIN ServiceMonths,
           NEW n \in Nat, NEW g, Walked(g, n, s), NEW i \in Nat, i <= n
    PROVE  g[i] \in Nat /\ MonthNo(s.next) + i <= MonthNo(g[i])
<1>. DEFINE step == ServiceMonths[s.interval]
            M == MonthNo(s.next)
            Good == {k \in Nat : k <= n => g[k] \in Nat /\ M + k <= MonthNo(g[k])}
<1>1. step \in Nat /\ 1 <= step /\ M \in Nat
  BY Steps, MonthOf
<1>2. 0 \in Good
  <2>1. g[0] = s.next
    BY DEF Walked
  <2>. QED
    BY <1>1, <2>1
<1>3. ASSUME NEW k \in Nat, k \in Good PROVE k + 1 \in Good
  <2>. SUFFICES ASSUME k + 1 <= n
                PROVE  g[k + 1] \in Nat /\ M + (k + 1) <= MonthNo(g[k + 1])
    OBVIOUS
  <2>1. g[k] \in Nat /\ M + k <= MonthNo(g[k])
    BY <1>3
  <2>2. (k + 1) - 1 = k /\ k + 1 # 0 /\ k + 1 \in 0..n
    OBVIOUS
  <2>3. g[k + 1] = AddMonths(g[k], step)
    <3>1. g[k + 1] = AddMonths(g[(k + 1) - 1], step)
      BY <2>2 DEF Walked
    <3>. QED
      BY <2>2, <3>1
  <2>. HIDE DEF step
  <2>4. MonthNo(g[k]) \in Nat
    BY <2>1, MonthOf
  <2>. DEFINE m == MonthNo(g[k]) + step
  <2>5. m \in Nat /\ step \in Int
    BY <1>1, <2>4
  <2>6. g[k + 1] \in Nat /\ LiesIn(g[k + 1], m)
    BY <2>1, <2>3, <2>5, AddMonthsIs
  <2>7. MonthNo(g[k + 1]) = m
    <3>. HIDE DEF m
    <3>. QED
      BY <2>5, <2>6, MonthIs
  <2>. QED
    BY <1>1, <2>1, <2>4, <2>6, <2>7
<1>4. Nat \subseteq Good
  <2>. HIDE DEF Good
  <2>. QED
    BY <1>2, <1>3, Counting
<1>. QED
  BY <1>4

\* The engine walks far enough: the billing dates it finds are those of any walk.
LEMMA BillingIs ==
    ASSUME NEW s, s.next \in Nat, s.interval \in DOMAIN ServiceMonths,
           NEW start \in Nat, NEW end \in Nat, NEW b
    PROVE  b \in BillingDates(s, start, end)
             <=> Billed(s, b) /\ start - 14 <= b /\ b <= end
<1>. DEFINE reach == Max({0, MonthNo(end) - MonthNo(s.next) + 1})
            It(g) == g = [i \in 0..reach |-> IF i = 0 THEN s.next
                                             ELSE AddMonths(g[i - 1], ServiceMonths[s.interval])]
            walk == CHOOSE g : It(g)
<1>1. BillingDates(s, start, end) = {x \in {walk[i] : i \in 0..reach} : start - 14 <= x /\ x <= end}
  BY Zenon DEF BillingDates
<1>2. /\ MonthNo(end) \in Nat /\ MonthNo(s.next) \in Nat
      /\ reach \in Nat /\ MonthNo(end) - MonthNo(s.next) <= reach
  <2>1. MonthNo(end) \in Nat /\ MonthNo(s.next) \in Nat
    BY MonthOf
  <2>2. MonthNo(end) - MonthNo(s.next) + 1 \in Int
    BY <2>1
  <2>. QED
    BY <2>1, <2>2, LargerOfTwo
<1>. HIDE DEF reach
<1>3. Walked(walk, reach, s)
  <2>1. \A g : It(g) <=> Walked(g, reach, s)
    BY DEF Walked
  <2>2. \E g : Walked(g, reach, s)
    BY <1>2, WalkExists
  <2>. HIDE DEF It
  <2>. QED
    BY <2>1, <2>2
<1>. HIDE DEF walk
<1>4. ASSUME b \in BillingDates(s, start, end)
      PROVE  Billed(s, b) /\ start - 14 <= b /\ b <= end
  BY <1>1, <1>2, <1>3, <1>4 DEF Billed
<1>5. ASSUME NEW n \in Nat, NEW g, Walked(g, n, s), NEW i \in 0..n, g[i] = b,
             start - 14 <= b, b <= end
      PROVE  b \in BillingDates(s, start, end)
  <2>1. i \in Nat /\ i <= n
    OBVIOUS
  <2>2. b \in Nat /\ MonthNo(s.next) + i <= MonthNo(b)
    BY <1>5, <2>1, WalkGoes
  <2>3. MonthNo(b) <= MonthNo(end) /\ MonthNo(b) \in Nat
    BY <1>5, <2>2, MonthsInOrder, MonthOf
  <2>4. i <= reach
    BY <1>2, <2>1, <2>2, <2>3
  <2>5. g[i] = walk[i]
    <3>1. reach \in Nat /\ i \in Nat /\ i <= n /\ i <= reach
      BY <1>2, <2>1, <2>4
    <3>2. Walked(g, n, s) /\ Walked(walk, reach, s)
      BY <1>3, <1>5
    <3>. QED
      BY <3>1, <3>2, WalksAgree
  <2>6. i \in 0..reach
    BY <1>2, <2>1, <2>4
  <2>. QED
    BY <1>1, <1>5, <2>5, <2>6
<1>. QED
  BY <1>4, <1>5 DEF Billed

\* A billing date is a day.
LEMMA BilledIsDay ==
    ASSUME NEW s, s.next \in Nat, s.interval \in DOMAIN ServiceMonths, NEW b, Billed(s, b)
    PROVE  b \in Nat
<1>1. PICK n \in Nat : \E g : Walked(g, n, s) /\ \E i \in 0..n : g[i] = b
  BY DEF Billed
<1>2. PICK g : Walked(g, n, s) /\ \E i \in 0..n : g[i] = b
  BY <1>1
<1>3. PICK i \in 0..n : g[i] = b
  BY <1>2
<1>4. i \in Nat /\ i <= n
  OBVIOUS
<1>. QED
  BY <1>2, <1>3, <1>4, WalkGoes

LEMMA SubscriptionsAgree ==
    ASSUME NEW d, DriversOK(d), d.payoutLag <= 5,
           NEW s \in Nat, NEW start, NEW end, Rolls7(s, start, end)
    PROVE  Agree(SubscriptionReceipts(d, s, end), SubscriptionReceipts(d, start, end + 7),
                 start, end)
<1>. DEFINE S == {t \in d.subscriptions : t.status = "active" /\ t.amount > 0}
            pays(b) == SettlementDate(b, d.payoutLag)
            Pays(m, t, b) == m = Draft("receipts_subscription", pays(b),
                                       (t.amount * d.successBps) \div Bps, <<t.ref, b>>)
<1>1. /\ start \in Nat /\ end \in Nat /\ end + 7 \in Nat /\ s <= start /\ start <= end
      /\ s <= end /\ end <= end + 7 /\ start = s + 7
  BY TwoWindows DEF Rolls7
<1>2. \A m, a, z : m \in SubscriptionReceipts(d, a, z)
        <=> \E t \in S : \E b \in BillingDates(t, a, z) : Pays(m, t, b)
  <2>. DEFINE One(t, b) == Draft("receipts_subscription", pays(b),
                                 (t.amount * d.successBps) \div Bps, <<t.ref, b>>)
              All(t, a, z) == {One(t, b) : b \in BillingDates(t, a, z)}
  <2>1. \A a, z : SubscriptionReceipts(d, a, z) = UNION {All(t, a, z) : t \in S}
    BY DEF SubscriptionReceipts
  <2>2. \A m, t, b : Pays(m, t, b) <=> m = One(t, b)
    OBVIOUS
  <2>. HIDE DEF One, Pays, S, pays
  <2>3. \A m, t, a, z : m \in All(t, a, z) <=> \E b \in BillingDates(t, a, z) : m = One(t, b)
    OBVIOUS
  <2>. HIDE DEF All
  <2>4. \A m, a, z : m \in SubscriptionReceipts(d, a, z) <=> \E t \in S : m \in All(t, a, z)
    BY <2>1
  <2>. QED
    BY <2>2, <2>3, <2>4
<1>3. \A m, t, b : Pays(m, t, b) => m.date = pays(b)
  BY DEF Draft
<1>4. \A t \in S : t.next \in Nat /\ t.interval \in DOMAIN ServiceMonths
  BY DEF DriversOK
<1>5. d.payoutLag \in 0..5
  BY DEF DriversOK
<1>6. ASSUME NEW t \in S, NEW b
      PROVE  /\ b \in BillingDates(t, s, end) <=> Billed(t, b) /\ s - 14 <= b /\ b <= end
             /\ b \in BillingDates(t, start, end + 7)
                  <=> Billed(t, b) /\ start - 14 <= b /\ b <= end + 7
  BY <1>1, <1>4, BillingIs
<1>7. ASSUME NEW t \in S, NEW b, Billed(t, b) PROVE b \in Nat
  BY <1>4, <1>7, BilledIsDay
<1>. HIDE DEF Pays, S
<1>8. ASSUME NEW t \in S, NEW b, start <= pays(b), pays(b) <= end
      PROVE  b \in BillingDates(t, s, end) <=> b \in BillingDates(t, start, end + 7)
  <2>1. SUFFICES ASSUME Billed(t, b)
                 PROVE  (s - 14 <= b /\ b <= end) <=> (start - 14 <= b /\ b <= end + 7)
    BY <1>6
  <2>2. b \in Nat
    BY <1>7, <2>1
  <2>3. pays(b) \in Int /\ b <= pays(b) /\ pays(b) <= b + 14
    BY <1>5, <2>2, SettlesSoon
  <2>. HIDE DEF pays
  <2>. QED
    BY <1>1, <1>8, <2>2, <2>3
<1>. HIDE DEF pays
<1>. QED
  BY <1>2, <1>3, <1>8 DEF Agree

\* The movements of pure schedules: nothing that ages.
LEMMA ScheduledOnly ==
    ASSUME NEW d, ScheduleOnly(d), NEW s, NEW end, end = HorizonEnd(s)
    PROVE  AllDrafts(d, s)
             = SubscriptionReceipts(d, s, end) \cup OtherReceipts(d) \cup CommittedDrafts(d)
                 \cup PayrollDrafts(d, s, end) \cup RentDrafts(d, s, end)
                 \cup TaxDrafts(d, s, end) \cup DebtDrafts(d, s, end)
<1>1. TradeReceipts(d, s) = {}
  BY DEF TradeReceipts, ScheduleOnly
<1>2. PayableDrafts(d, s, end) = {}
  BY DEF PayableDrafts, ScheduleOnly
<1>. QED
  BY <1>1, <1>2 DEF AllDrafts

LEMMA DraftsAgree ==
    ASSUME NEW d, DriversOK(d), ScheduleOnly(d), NEW s \in Nat, s >= Far,
           NEW start, NEW end, Rolls7(s, start, end),
           \A f \in d.debt : \A due \in Anniversaries(f.first, f.frequency, s, end + 7) :
              due > end => Adjust(due, "modified_following") > end
    PROVE  Agree(AllDrafts(d, s), AllDrafts(d, start), start, end)
<1>1. HorizonEnd(s) = end /\ HorizonEnd(start) = end + 7
  BY TwoWindows
<1>2. /\ Agree(SubscriptionReceipts(d, s, end), SubscriptionReceipts(d, start, end + 7), start, end)
      /\ Agree(PayrollDrafts(d, s, end), PayrollDrafts(d, start, end + 7), start, end)
      /\ Agree(RentDrafts(d, s, end), RentDrafts(d, start, end + 7), start, end)
      /\ Agree(TaxDrafts(d, s, end), TaxDrafts(d, start, end + 7), start, end)
      /\ Agree(DebtDrafts(d, s, end), DebtDrafts(d, start, end + 7), start, end)
  <2>1. /\ PaidInItsMonth(d.rentDay) /\ d.payoutLag <= 5
        /\ d.payroll.frequency = "semi_monthly" /\ d.payroll.hourly = 0
    BY DEF ScheduleOnly
  <2>. QED
    BY <2>1, SubscriptionsAgree, PayrollAgrees, RentAgrees, TaxAgrees, DebtAgrees
<1>3. /\ AllDrafts(d, s)
           = SubscriptionReceipts(d, s, end) \cup OtherReceipts(d) \cup CommittedDrafts(d)
               \cup PayrollDrafts(d, s, end) \cup RentDrafts(d, s, end)
               \cup TaxDrafts(d, s, end) \cup DebtDrafts(d, s, end)
      /\ AllDrafts(d, start)
           = SubscriptionReceipts(d, start, end + 7) \cup OtherReceipts(d) \cup CommittedDrafts(d)
               \cup PayrollDrafts(d, start, end + 7) \cup RentDrafts(d, start, end + 7)
               \cup TaxDrafts(d, start, end + 7) \cup DebtDrafts(d, start, end + 7)
  BY <1>1, ScheduledOnly
<1>4. SUFFICES ASSUME NEW m, start <= m.date, m.date <= end
               PROVE  m \in AllDrafts(d, s) <=> m \in AllDrafts(d, start)
  BY DEF Agree
<1>5. /\ m \in SubscriptionReceipts(d, s, end) <=> m \in SubscriptionReceipts(d, start, end + 7)
      /\ m \in PayrollDrafts(d, s, end) <=> m \in PayrollDrafts(d, start, end + 7)
      /\ m \in RentDrafts(d, s, end) <=> m \in RentDrafts(d, start, end + 7)
      /\ m \in TaxDrafts(d, s, end) <=> m \in TaxDrafts(d, start, end + 7)
      /\ m \in DebtDrafts(d, s, end) <=> m \in DebtDrafts(d, start, end + 7)
  BY <1>2, <1>4 DEF Agree
<1>. QED
  BY <1>3, <1>5

\* Their dates are days.
LEMMA SubscriptionDays ==
    ASSUME NEW d, DriversOK(d), d.payoutLag <= 5, NEW start \in Nat, NEW end \in Nat,
           NEW m \in SubscriptionReceipts(d, start, end)
    PROVE  m.date \in Int
<1>1. PICK t \in d.subscriptions : \E b \in BillingDates(t, start, end) :
         m = Draft("receipts_subscription", SettlementDate(b, d.payoutLag),
                   (t.amount * d.successBps) \div Bps, <<t.ref, b>>)
  BY DEF SubscriptionReceipts
<1>2. PICK b \in BillingDates(t, start, end) :
         m = Draft("receipts_subscription", SettlementDate(b, d.payoutLag),
                   (t.amount * d.successBps) \div Bps, <<t.ref, b>>)
  BY <1>1
<1>3. t.next \in Nat /\ t.interval \in DOMAIN ServiceMonths /\ d.payoutLag \in 0..5
  BY DEF DriversOK
<1>4. b \in Nat
  <2>1. Billed(t, b)
    BY <1>3, BillingIs
  <2>. QED
    BY <1>3, <2>1, BilledIsDay
<1>5. SettlementDate(b, d.payoutLag) \in Int
  BY <1>3, <1>4, SettlesSoon
<1>. QED
  BY <1>2, <1>5 DEF Draft

LEMMA PayrollDays ==
    ASSUME NEW d, DriversOK(d), NEW start \in Nat, start >= Far, NEW end \in Nat,
           NEW m \in PayrollDrafts(d, start, end)
    PROVE  m.date \in Int
<1>. DEFINE S == SalariedDates(d, start, end)
            H == HourlyDates(d, start, end)
<1>1. /\ PayrollStart(start) \in Nat /\ d.payroll.anchor \in Nat
      /\ HourlyAnchor(d) \in Nat
  BY DEF PayrollStart, Lookback, Far, DriversOK, HourlyAnchor, NoAnchor
<1>2. \A p \in S : p \in Nat
  BY <1>1, PaydaysAreDays DEF SalariedDates
<1>3. \A p \in H : p \in Nat
  <2>1. \A p \in H : p \in PayDates("biweekly", HourlyAnchor(d), PayrollStart(start), end)
    BY DEF HourlyDates, PayDates
  <2>. QED
    BY <1>1, <2>1, PaydaysAreDays
<1>4. \E p \in S \cup H : m.date = p \/ m.date = DepositDate(p, d.payroll.schedule)
  <2>1. \A category, date, amount, reference :
          Draft(category, date, amount, reference).date = date
    BY DEF Draft
  <2>2. /\ PayrollDrafts(d, start, end)
             = {Draft("payroll_salaried", p, -d.payroll.salaried, <<"pay", p>>) : p \in S}
               \cup {Draft("payroll_hourly", p, -d.payroll.hourly, <<"pay", p>>) : p \in H}
               \cup {Draft("payroll_taxes_benefits", DepositDate(p, d.payroll.schedule),
                           -((GrossOn(d, p, S, H) * d.payroll.taxBps) \div Bps),
                           <<"tax", p>>) : p \in S \cup H}
               \cup {Draft("payroll_taxes_benefits", p, -d.payroll.benefits, <<"benefits", p>>) :
                       p \in S}
    BY DEF PayrollDrafts
  <2>. HIDE DEF S, H
  <2>3. \/ \E p \in S : m = Draft("payroll_salaried", p, -d.payroll.salaried, <<"pay", p>>)
        \/ \E p \in H : m = Draft("payroll_hourly", p, -d.payroll.hourly, <<"pay", p>>)
        \/ \E p \in S \cup H :
              m = Draft("payroll_taxes_benefits", DepositDate(p, d.payroll.schedule),
                        -((GrossOn(d, p, S, H) * d.payroll.taxBps) \div Bps), <<"tax", p>>)
        \/ \E p \in S :
              m = Draft("payroll_taxes_benefits", p, -d.payroll.benefits, <<"benefits", p>>)
    BY <2>2
  <2>4. S \subseteq S \cup H /\ H \subseteq S \cup H
    OBVIOUS
  <2>. DEFINE both == S \cup H
              withheld(p) == -((GrossOn(d, p, S, H) * d.payroll.taxBps) \div Bps)
  <2>5. ASSUME \E p \in both : m = Draft("payroll_taxes_benefits", DepositDate(p, d.payroll.schedule),
                                         withheld(p), <<"tax", p>>)
        PROVE  \E p \in both : m.date = DepositDate(p, d.payroll.schedule)
    <3>. HIDE DEF withheld, both
    <3>. QED
      BY <2>1, <2>5
  <2>6. ASSUME \E p \in S : m = Draft("payroll_salaried", p, -d.payroll.salaried, <<"pay", p>>)
        PROVE  \E p \in S : m.date = p
    BY <2>1, <2>6
  <2>7. ASSUME \E p \in H : m = Draft("payroll_hourly", p, -d.payroll.hourly, <<"pay", p>>)
        PROVE  \E p \in H : m.date = p
    BY <2>1, <2>7
  <2>8. ASSUME \E p \in S : m = Draft("payroll_taxes_benefits", p, -d.payroll.benefits,
                                      <<"benefits", p>>)
        PROVE  \E p \in S : m.date = p
    BY <2>1, <2>8
  <2>9. (\E p \in S : m.date = p) \/ (\E p \in H : m.date = p)
          \/ (\E p \in both : m.date = DepositDate(p, d.payroll.schedule))
    <3>. HIDE DEF withheld
    <3>. QED
      BY <2>3, <2>5, <2>6, <2>7, <2>8 DEF withheld
  <2>. QED
    BY <2>4, <2>9
<1>. HIDE DEF S, H
<1>. QED
  BY <1>2, <1>3, <1>4, DepositAfter

LEMMA DatesAreDays ==
    ASSUME NEW d, DriversOK(d), ScheduleOnly(d), NEW start \in Nat, start >= Far,
           NEW m \in AllDrafts(d, start)
    PROVE  m.date \in Int
<1>. DEFINE end == HorizonEnd(start)
<1>1. end \in Nat /\ start <= end
  BY WeeksAre DEF HorizonEnd
<1>. HIDE DEF end
<1>2. AllDrafts(d, start)
        = SubscriptionReceipts(d, start, end) \cup OtherReceipts(d) \cup CommittedDrafts(d)
            \cup PayrollDrafts(d, start, end) \cup RentDrafts(d, start, end)
            \cup TaxDrafts(d, start, end) \cup DebtDrafts(d, start, end)
  BY ScheduledOnly DEF end
<1>3. \A x \in SubscriptionReceipts(d, start, end) : x.date \in Int
  BY <1>1, SubscriptionDays DEF ScheduleOnly
<1>4. ASSUME NEW items \in SUBSET d.dated, NEW x \in Dated(items) PROVE x.date \in Int
  BY DEF Dated, Draft, DriversOK
<1>5. \A x \in OtherReceipts(d) \cup CommittedDrafts(d) : x.date \in Int
  BY <1>4 DEF OtherReceipts, CommittedDrafts
<1>6. \A x \in PayrollDrafts(d, start, end) : x.date \in Int
  BY <1>1, PayrollDays
<1>7. \A x \in RentDrafts(d, start, end) : x.date \in Int
  <2>1. d.rentDay \in 1..31
    BY DEF DriversOK
  <2>2. \A p \in MonthlyDates(start, end, d.rentDay) : p \in Int
    BY <1>1, <2>1, RentDaysAreDays
  <2>. QED
    BY <2>2 DEF RentDrafts, Draft
<1>8. \A x \in TaxDrafts(d, start, end) : x.date \in Int
  <2>1. \A p \in QuarterlyEstimatedTaxDates(start, end) : p \in Int
    BY <1>1, TaxDaysAreDays
  <2>2. \A x \in Dated({item \in d.dated : item.category = "tax_sales_vat"}) : x.date \in Int
    BY <1>4
  <2>. QED
    BY <2>1, <2>2 DEF TaxDrafts, Draft
<1>9. \A x \in DebtDrafts(d, start, end) : x.date \in Int
  <2>1. \A f \in d.debt : \A due \in DebtServiceDates(f.first, start, end, f.frequency) : due \in Int
    BY <1>1, DebtServiceIs DEF DriversOK
  <2>. QED
    BY <2>1, ServiceIs DEF DebtDrafts
<1>. QED
  BY <1>2, <1>3, <1>5, <1>6, <1>7, <1>8, <1>9

\* The week a day is in, counted from two Mondays a week apart.
LEMMA WeekBefore ==
    ASSUME NEW s \in Nat, s % 7 = 0, NEW x \in Int, NEW w \in 1..(Horizon - 1)
    PROVE  /\ WeekIndex(x, s + 7) = w <=> WeekIndex(x, s) = w + 1
           /\ WeekIndex(x, s + 7) = w => s + 7 <= x /\ x <= HorizonEnd(s)
<1>. DEFINE k == WeekStart(x)
<1>1. k \in Int /\ k % 7 = 0 /\ k <= x /\ x <= k + 6
  BY DEF WeekStart, Weekday
<1>2. /\ WeekIndex(x, s + 7) = IF k < s + 7 THEN 0 ELSE (k - (s + 7)) \div 7 + 1
      /\ WeekIndex(x, s) = IF k < s THEN 0 ELSE (k - s) \div 7 + 1
  BY DEF WeekIndex
<1>. HIDE DEF k
<1>3. Horizon \in Nat /\ Horizon >= 2
  BY WeeksAre
<1>4. WeekIndex(x, s + 7) = w <=> k = s + 7 * w
  BY <1>1, <1>2
<1>5. WeekIndex(x, s) = w + 1 <=> k = s + 7 * w
  BY <1>1, <1>2
<1>6. k = s + 7 * w => s + 7 <= x /\ x <= s + 7 * Horizon - 1
  BY <1>1, <1>3
<1>. QED
  BY <1>4, <1>5, <1>6 DEF HorizonEnd

LEMMA CellsCarryOver ==
    ASSUME NEW d, DriversOK(d), ScheduleOnly(d), NEW s \in Nat, s >= Far, s % 7 = 0,
           NEW start, NEW end, Rolls7(s, start, end),
           \A f \in d.debt : \A due \in Anniversaries(f.first, f.frequency, s, end + 7) :
              due > end => Adjust(due, "modified_following") > end,
           NEW c \in Categories, NEW w \in 1..(Horizon - 1), NEW a, NEW b
    PROVE  Build(d, start, b, NoOverrides).cells[<<c, w>>]
             = Build(d, s, a, NoOverrides).cells[<<c, w + 1>>]
<1>. DEFINE K == Kept(AllDrafts(d, s), s)
            L == Kept(AllDrafts(d, start), start)
            P == {m \in K : m.category = c /\ WeekIndex(m.date, s) = w + 1}
            Q == {m \in L : m.category = c /\ WeekIndex(m.date, start) = w}
<1>1. /\ start \in Nat /\ start = s + 7 /\ start >= Far /\ end = HorizonEnd(s) /\ end \in Nat
      /\ s <= start /\ end <= end + 7 /\ HorizonEnd(start) = end + 7
  BY TwoWindows DEF Rolls7, Far
<1>2. <<c, w>> \in Categories \X Weeks /\ <<c, w + 1>> \in Categories \X Weeks
  BY WeeksAre
<1>3. /\ Build(d, start, b, NoOverrides).cells[<<c, w>>] = SumAmounts(Q)
      /\ Build(d, s, a, NoOverrides).cells[<<c, w + 1>>] = SumAmounts(P)
  <2>1. \A cell : cell \notin DOMAIN NoOverrides
    BY DEF NoOverrides
  <2>2. /\ Build(d, start, b, NoOverrides).cells = CellsOf(L, start, NoOverrides)
        /\ Build(d, s, a, NoOverrides).cells = CellsOf(K, s, NoOverrides)
    BY DEF Build
  <2>. HIDE DEF K, L
  <2>3. CellsOf(L, start, NoOverrides)[<<c, w>>] = SumAmounts(Q)
    BY <1>2, <2>1 DEF CellsOf
  <2>4. CellsOf(K, s, NoOverrides)[<<c, w + 1>>] = SumAmounts(P)
    BY <1>2, <2>1 DEF CellsOf
  <2>. QED
    BY <2>2, <2>3, <2>4
<1>4. Agree(AllDrafts(d, s), AllDrafts(d, start), start, end)
  BY DraftsAgree
<1>5. ASSUME NEW m, start <= m.date, m.date <= end, m.date \in Int PROVE m \in K <=> m \in L
  BY <1>1, <1>4, <1>5 DEF Agree, Kept
<1>6. \A m : m \in K \/ m \in L => m.date \in Int
  BY <1>1, DatesAreDays DEF Kept
<1>7. \A x \in Int : /\ WeekIndex(x, start) = w <=> WeekIndex(x, s) = w + 1
                     /\ WeekIndex(x, start) = w => start <= x /\ x <= end
  BY <1>1, WeekBefore
<1>. HIDE DEF K, L
<1>8. P = Q
  BY <1>5, <1>6, <1>7
<1>. QED
  BY <1>3, <1>8

LEMMA NothingIsRestated ==
    ASSUME OnMondays, GridIsBuilt, Numbers, NEW cash, RollForward(cash), FiguresOf(grid),
           OnMondays', GridIsBuilt', Numbers', FiguresOf(grid')
    PROVE  NothingRestated
<1>. SUFFICES ASSUME ScheduleOnly(drivers), NoneBroughtForward, overrides = NoOverrides
              PROVE  \A row \in ForecastVsPrior(This', This).rows : row.variance = 0
  BY DEF NothingRestated
<1>. DEFINE s == monday
            end == HorizonEnd(s)
            A == [start |-> s, cells |-> grid.cells]
            B == [start |-> s + 7, cells |-> grid'.cells]
<1>1. /\ s \in Nat /\ s % 7 = 0 /\ s >= Far /\ DriversOK(drivers)
      /\ monday' = s + 7 /\ drivers' = drivers /\ overrides' = NoOverrides
      /\ Rolls7(s, s + 7, end)
  BY DriversAreFormed DEF OnMondays, RollForward, RolledOverrides, Rolls7
<1>2. This = A /\ This' = B
  BY <1>1 DEF This
<1>3. FiguresOf(A) /\ FiguresOf(B) /\ A.start = s /\ B.start = s + 7
  BY DEF FiguresOf
<1>4. \A f \in drivers.debt : \A due \in Anniversaries(f.first, f.frequency, s, end + 7) :
         due > end => Adjust(due, "modified_following") > end
  BY DEF NoneBroughtForward
<1>5. ASSUME NEW c \in Categories, NEW w \in 1..(Horizon - 1)
      PROVE  B.cells[<<c, w>>] = A.cells[<<c, w + 1>>]
  <2>1. /\ grid' = Build(drivers, s + 7, opening', NoOverrides)
        /\ grid = Build(drivers, s, opening, NoOverrides)
    BY <1>1 DEF GridIsBuilt
  <2>2. Build(drivers, s + 7, opening', NoOverrides).cells[<<c, w>>]
          = Build(drivers, s, opening, NoOverrides).cells[<<c, w + 1>>]
    <3>. HIDE DEF end, s, A, B
    <3>. QED
      BY <1>1, <1>4, CellsCarryOver
  <2>. QED
    BY <2>1, <2>2
<1>. HIDE DEF A, B, s, end
<1>6. ASSUME NEW c \in Categories
      PROVE  Over(B, c, Later(s)) = Over(A, c, Later(s))
  <2>. DEFINE S == Later(s)
              f == [day \in S |-> B.cells[<<c, WeekIndex(day, B.start)>>]]
              g == [day \in S |-> A.cells[<<c, WeekIndex(day, A.start)>>]]
  <2>1. ASSUME NEW w \in 1..(Horizon - 1) PROVE f[s + 7 * w] = g[s + 7 * w]
    <3>1. s + 7 * w \in S
      BY DEF Later
    <3>2. /\ w \in Int /\ w >= 0 /\ w - 1 \in Int /\ w - 1 >= 0
          /\ s \in Nat /\ s % 7 = 0
      BY <1>1, WeeksAre
    <3>3. WeekIndex(s + 7 * w, s) = w + 1
      BY <3>2, WeekOf
    <3>4. WeekIndex(s + 7 * w, s + 7) = w
      <4>1. s + 7 \in Nat /\ (s + 7) % 7 = 0 /\ s + 7 * w = (s + 7) + 7 * (w - 1) /\ (w - 1) + 1 = w
        BY <3>2
      <4>2. WeekIndex((s + 7) + 7 * (w - 1), s + 7) = (w - 1) + 1
        BY <3>2, <4>1, WeekOf
      <4>. QED
        BY <4>1, <4>2
    <3>. QED
      BY <1>3, <1>5, <3>1, <3>3, <3>4
  <2>2. IsFiniteSet(S)
    <3>. DEFINE I == 1..(Horizon - 1)
                at == [w \in I |-> s + 7 * w]
    <3>1. IsFiniteSet(I)
      BY WeeksAre, FS_Interval
    <3>2. S = {at[w] : w \in I}
      BY DEF Later
    <3>. HIDE DEF I, at, S
    <3>. QED
      BY <3>1, <3>2, FiniteMap
  <2>3. \A day \in S : f[day] = g[day]
    <3>. SUFFICES ASSUME NEW day \in S PROVE f[day] = g[day]
      OBVIOUS
    <3>1. PICK w \in 1..(Horizon - 1) : day = s + 7 * w
      BY DEF Later
    <3>. HIDE DEF f, g
    <3>. QED
      BY <2>1, <3>1
  <2>. HIDE DEF f, g, S
  <2>4. SumOver(f, S) = SumOver(g, S)
    BY <2>2, <2>3, SumSame
  <2>. QED
    BY <2>4 DEF Over, f, g, S
<1>. QED
  BY <1>1, <1>2, <1>3, <1>6, RevisionTies

\* What a roll changes in the weeks both versions cover, the bridges explain; with pure
\* schedules and nothing overridden it changes nothing; and no override outlives the
\* version it was made on.
THEOREM RollsAreExplained == ForecastSpec => RollIsExplained
<1>. DEFINE Good == OnMondays /\ GridIsBuilt /\ Numbers
<1>1. Good /\ Good' /\ [ForecastNext]_ForecastVars
        => [rolls' = rolls + 1 => BridgesTie /\ NothingRestated /\ OverridesLapse]_ForecastVars
  <2>. SUFFICES ASSUME OnMondays, GridIsBuilt, Numbers, OnMondays', GridIsBuilt', Numbers',
                       [ForecastNext]_ForecastVars, rolls' = rolls + 1
                PROVE  BridgesTie /\ NothingRestated /\ OverridesLapse
    OBVIOUS
  <2>1. PICK cash : RollForward(cash)
    <3>1. rolls' # rolls
      BY DEF Numbers
    <3>. QED
      BY <3>1 DEF ForecastNext, Override, ForecastVars
  <2>2. FiguresOf(grid)
    BY GridFigures
  <2>3. FiguresOf(grid')
    <3>1. DriversOK(drivers') /\ monday' \in Nat /\ monday' >= Far
      <4>1. drivers' = drivers
        BY <2>1 DEF RollForward
      <4>. QED
        BY <4>1, DriversAreFormed DEF OnMondays
    <3>2. FiguresOf(Build(drivers', monday', opening', overrides'))
      BY <3>1, FiguresAreNumbers DEF Numbers
    <3>. QED
      BY <3>2 DEF GridIsBuilt
  <2>4. BridgesTie
    BY <2>1, <2>2, RollTies
  <2>5. NothingRestated
    BY <2>1, <2>2, <2>3, NothingIsRestated
  <2>6. OverridesLapse
    <3>1. drivers' = drivers /\ overrides' = NoOverrides
      BY <2>1 DEF RollForward, RolledOverrides
    <3>2. grid' = Build(drivers', monday', opening', overrides')
      BY DEF GridIsBuilt
    <3>. QED
      BY <3>1, <3>2 DEF OverridesLapse
  <2>. QED
    BY <2>4, <2>5, <2>6
<1>2. ForecastSpec => []Good
  BY OnMondaysAlways, GridIsAlwaysBuilt, NumbersAlways, PTL
<1>. HIDE DEF Good
<1>. QED
  BY <1>1, <1>2, PTL DEF ForecastSpec, RollIsExplained

==============================================================================
