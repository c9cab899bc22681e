------------------------------- MODULE Draws -------------------------------
(***************************************************************************)
(* Drawing on the revolver: the hard-constraint gate                       *)
(* (backend/finance/constraints.py) with the facility's own capacity       *)
(* (finance/debt.py), the approval a draw needs (finance/controls.py), the *)
(* adapter that executes it (finance/execution.py) and the audit log it    *)
(* writes to (finance/audit.py).                                           *)
(*                                                                         *)
(* Several workers share one database.  Each has a Session, so what it     *)
(* flushes is its own until it commits, and an AuditLog, which reads the   *)
(* highest sequence number once and counts on from there.  An adapter may  *)
(* also be built without a log: it then draws and leaves no row.  The rows *)
(* of the approvals table come from outside: no code in the repository     *)
(* writes them, the schema only says what such a row may be.               *)
(***************************************************************************)
EXTENDS Integers, Sequences, FiniteSets, FiniteSetsExt, Bags

CONSTANTS
    Workers,       \* processes with a Session each
    Companies,
    People,        \* preparers and approvers
    Amounts,       \* amounts of approvals and of requests
    Facilities,    \* [limit, drawn, max_utilization_bps]
    Ceilings,      \* max_revolver_utilization_bps of the policy
    Proposals,     \* what is put through the gate: [action, class, days, amount,
                   \* single_source, lead_time]
    Projections,   \* the engine's [min_cash, liquidity, headroom] after it
    MaxApprovals,  \* bound: rows in the approvals table
    MaxLogs,       \* bound: AuditLogs built
    HighestSeq     \* bound: sequence numbers an AuditLog hands out

BPS == 10000

ASSUME DrawsAssumption ==
    /\ Amounts \subseteq Nat /\ MaxApprovals \in Nat /\ HighestSeq \in Nat
    /\ \A f \in Facilities : /\ f.limit \in Nat /\ f.drawn \in 0..f.limit
                              /\ f.max_utilization_bps \in 0..BPS
    /\ Ceilings \subseteq 0..BPS
    /\ \A p \in Proposals : p.amount \in Nat

VARIABLES
    approvals,  \* the approvals table, in the order of its ids
    entries,    \* the committed audit rows
    flushed,    \* flushed[w]: rows in w's open transaction
    log,        \* log[w]: w's AuditLog, <<>> before it has one
    opened,     \* AuditLogs built
    results,    \* results[w]: the bag of what execute returned in the open transaction
    done,       \* the bag of what it returned in committed transactions
    unlogged,   \* what an adapter without a log returned, <<>> unless it was last
    evaluated   \* the gate's answer, <<>> unless it was the last thing asked

vars == <<approvals, entries, flushed, log, opened, results, done, unlogged, evaluated>>
ledger == <<entries, flushed, log, opened, results, done>>
Unasked == unlogged' = <<>> /\ evaluated' = <<>>

Init ==
    /\ approvals = <<>> /\ entries = {} /\ done = EmptyBag
    /\ unlogged = <<>> /\ evaluated = <<>>
    /\ flushed = [w \in Workers |-> {}]
    /\ log = [w \in Workers |-> <<>>] /\ opened = 0
    /\ results = [w \in Workers |-> EmptyBag]

-----------------------------------------------------------------------------
(* The facility and the gate *)

Undrawn(f) == f.limit - f.drawn

\* mutant: the lender's ceiling alone
CeilingOfFacility(f, policy_bps) == f.max_utilization_bps
EffectiveUtilizationCeiling(f, policy_bps) == Min({f.max_utilization_bps, policy_bps})

\* Nothing is safe to draw on a facility that is over its ceiling.
MaxSafeDraw(f, policy_bps) ==
    Max({0, (f.limit * EffectiveUtilizationCeiling(f, policy_bps)) \div BPS - f.drawn})

DEFERRING_ACTIONS == {"ap_deferral", "payment_delay", "payroll_delay"}
DRAWING_ACTIONS == {"revolver_draw", "term_draw"}
ProtectedClasses == {"payroll", "tax"}

Requested(p) == IF p.action \in DRAWING_ACTIONS THEN p.amount ELSE 0

ProtectedClass(p) ==
    ~(p.class \in ProtectedClasses /\ (p.action \in DEFERRING_ACTIONS \/ p.days > 0))
FloorConstraint(actual, limit) == actual >= limit
RevolverCapacity(p, f) == Undrawn(f) - Requested(p) >= 0
\* Rounded down before it is compared.
RevolverUtilization(p, f, policy_bps) ==
    f.limit = 0 \/ ((f.drawn + Requested(p)) * BPS) \div f.limit <= policy_bps
\* A covenant that is not tested inside the horizon cannot be breached.
CovenantHeadroom(projection) == projection.headroom = <<>> \/ projection.headroom[1] >= 0
SupplierLeadTime(p) ==
    \/ ~p.single_source \/ p.lead_time = <<>> \/ p.days = 0
    \/ p.days <= p.lead_time[1]

\* The policy's floors, in the units of Projections.
MinUnrestrictedCash == 20
Min30dLiquidity == 30

\* Every constraint is evaluated; what comes back is the set that failed.
Failures(p, f, policy_bps, projection) ==
    LET outcome ==
            [protected_payment_class  |-> ProtectedClass(p),
             min_unrestricted_cash    |-> FloorConstraint(projection.min_cash, MinUnrestrictedCash),
             min_30d_liquidity        |-> FloorConstraint(projection.liquidity, Min30dLiquidity),
             revolver_capacity        |-> RevolverCapacity(p, f),
             max_revolver_utilization |-> RevolverUtilization(p, f, policy_bps),
             covenant_headroom        |-> CovenantHeadroom(projection),
             supplier_lead_time       |-> SupplierLeadTime(p)]
    IN  {name \in DOMAIN outcome : ~outcome[name]}

\* The gate reads nothing of what follows, so it is asked before it.
Validate ==
    /\ approvals = <<>> /\ \A w \in Workers : log[w] = <<>>
    /\ \E p \in Proposals, f \in Facilities, bps \in Ceilings, projection \in Projections :
          evaluated' = <<[proposal |-> p, facility |-> f, policy_bps |-> bps,
                        failed |-> Failures(p, f, bps, projection)]>>
    /\ unlogged' = <<>> /\ UNCHANGED <<approvals, ledger>>

-----------------------------------------------------------------------------
(* The approvals table, written from outside *)

ApprovalActions == {"Revolver draw", "Defer payment"}
Nobody == "nobody"

Decisions == {"pending", "approved", "rejected", "escalated"}

\* ck_approvals_segregation_of_duties, ck_approvals_decided_fields.
SchemaAllows(a) ==
    /\ Nobody \in {a.decided_by, a.prepared_by} \/ a.decided_by # a.prepared_by
    /\ a.decision = "pending" \/ a.decided_by # Nobody
ApprovalRows ==
    {a \in [company : Companies, action : ApprovalActions, amount : Amounts,
            prepared_by : People \cup {Nobody}, decided_by : People \cup {Nobody},
            decision : Decisions] : SchemaAllows(a)}

InsertApproval ==
    /\ Len(approvals) < MaxApprovals
    /\ \E a \in ApprovalRows : approvals' = Append(approvals, a)
    /\ Unasked /\ UNCHANGED ledger

\* Decided, decided again, or its amount restated: a row that was approved when
\* a draw read it may be another one afterwards.
UpdateApproval ==
    \E i \in DOMAIN approvals, a \in ApprovalRows :
        /\ a.company = approvals[i].company /\ a.action = approvals[i].action
        /\ a.prepared_by = approvals[i].prepared_by
        /\ approvals' = [approvals EXCEPT ![i] = a]
        /\ Unasked /\ UNCHANGED ledger

-----------------------------------------------------------------------------
(* The audit log *)

Uids(rows) == {<<e.event_type, e.company, e.seq>> : e \in rows}

\* AuditLog(session, ...): the highest sequence number this session can see.
MaxSeq(w, company) ==
    Max({0} \cup {e.seq : e \in {x \in entries \cup flushed[w] : x.company = company}})
OpenLog(w) ==
    /\ opened < MaxLogs /\ opened' = opened + 1
    /\ \E c \in Companies :
          log' = [log EXCEPT ![w] = <<[company |-> c, seq |-> MaxSeq(w, c)]>>]
    /\ Unasked /\ UNCHANGED <<approvals, entries, flushed, results, done>>

Uid(w, event_type) == <<event_type, log[w][1].company, log[w][1].seq + 1>>
Entry(w, event_type, amount, approval) ==
    [event_type |-> event_type, company |-> log[w][1].company, seq |-> log[w][1].seq + 1,
     amount |-> amount, approval |-> approval]

\* mutant: a row that collides is left out and the draw goes on
FlushQuietly(w, entry, result) ==
    /\ flushed' = IF Uid(w, entry.event_type) \in Uids(entries) THEN flushed
                  ELSE [flushed EXCEPT ![w] = @ \cup {entry}]
    /\ results' = [results EXCEPT ![w] = @ (+) result]
\* flush(): the unique event_uid is the database's to defend.  A collision with
\* a committed row raises, and the session's transaction is gone.
Flush(w, entry, result) ==
    IF Uid(w, entry.event_type) \in Uids(entries)
    THEN /\ flushed' = [flushed EXCEPT ![w] = {}]
         /\ results' = [results EXCEPT ![w] = EmptyBag]
    ELSE /\ flushed' = [flushed EXCEPT ![w] = @ \cup {entry}]
         /\ results' = [results EXCEPT ![w] = @ (+) result]

\* The counter moves before the row is written and is never taken back.  A row
\* another session has flushed and not committed makes this one wait.
AppendEntry(w, entry, result) ==
    /\ log[w][1].seq < HighestSeq
    /\ \A v \in Workers \ {w} : Uid(w, entry.event_type) \notin Uids(flushed[v])
    /\ log' = [log EXCEPT ![w][1].seq = @ + 1]
    /\ Flush(w, entry, result)

-----------------------------------------------------------------------------
(* Executing a draw *)

\* mutant: any company's approval will do
RequireApprovalOfAnyone(company, amount) ==
    {i \in DOMAIN approvals :
        /\ approvals[i].decision = "approved" /\ approvals[i].amount >= amount
        /\ approvals[i].action = "Revolver draw"}
\* require_approval_before_draw: the approvals that match.  Nothing is spent:
\* one approval authorises any number of draws up to its amount.
RequireApproval(company, amount) ==
    {i \in DOMAIN approvals :
        /\ approvals[i].company = company /\ approvals[i].decision = "approved"
        /\ approvals[i].amount >= amount
        /\ approvals[i].action = "Revolver draw"}

Smallest(matches) ==
    {i \in matches : \A j \in matches : approvals[i].amount <= approvals[j].amount}
\* A dry run does the same and writes the same, under another word.
Result(company, amount, i) == [company |-> company, amount |-> amount, approval |-> i]

\* DebtDrawAdapter.execute.  Without an approval the attempt is logged and
\* ExecutionBlocked raised; what becomes of the transaction is the caller's
\* choice.
Execute(w) ==
    /\ log[w] # <<>>
    /\ \E amount \in Amounts :
        LET company == log[w][1].company
            matches == RequireApproval(company, amount)
        IN  IF matches = {}
            THEN AppendEntry(w, Entry(w, "execution_blocked", amount, 0), EmptyBag)
            ELSE \E i \in Smallest(matches) :
                AppendEntry(w, Entry(w, "execution", amount, i),
                            SetToBag({Result(company, amount, i)}))
    /\ Unasked /\ UNCHANGED <<approvals, entries, opened, done>>

\* The same adapter built without a log (audit=None).  It reads the approvals
\* alone, so it is asked before there is a log.
ExecuteUnlogged ==
    /\ \A w \in Workers : log[w] = <<>>
    /\ \E company \in Companies, amount \in Amounts :
        LET matches == RequireApproval(company, amount)
        IN  IF matches = {} THEN unlogged' = <<>>
            ELSE \E i \in Smallest(matches) : unlogged' = <<Result(company, amount, i)>>
    /\ evaluated' = <<>> /\ UNCHANGED <<approvals, ledger>>

\* session.commit() and session.rollback(), by the caller.
Commit(w) ==
    /\ flushed[w] # {}
    /\ entries' = entries \cup flushed[w]
    /\ done' = done (+) results[w]
    /\ flushed' = [flushed EXCEPT ![w] = {}]
    /\ results' = [results EXCEPT ![w] = EmptyBag]
    /\ Unasked /\ UNCHANGED <<approvals, log, opened>>
Rollback(w) ==
    /\ flushed[w] # {}
    /\ flushed' = [flushed EXCEPT ![w] = {}]
    /\ results' = [results EXCEPT ![w] = EmptyBag]
    /\ Unasked /\ UNCHANGED <<approvals, entries, log, opened, done>>

Next ==
    \/ Validate \/ InsertApproval \/ UpdateApproval \/ ExecuteUnlogged
    \/ \E w \in Workers : OpenLog(w) \/ Execute(w) \/ Commit(w) \/ Rollback(w)

Spec == Init /\ [][Next]_vars
-----------------------------------------------------------------------------
(* Properties *)

\* A draw that debt.py calls safe passes both revolver constraints of the gate,
\* although one rounds the amount and the other the ratio; and a draw the gate
\* lets through is never a whole basis point of the limit over the policy's
\* ceiling (debt.max_safe_draw, constraints._revolver_utilization).
SafeDrawPassesTheGate ==
    \A i \in DOMAIN evaluated :
        LET v == evaluated[i]  n == Requested(v.proposal)  f == v.facility IN
        /\ n \in 1..MaxSafeDraw(f, v.policy_bps) =>
              v.failed \cap {"revolver_capacity", "max_revolver_utilization"} = {}
        /\ "max_revolver_utilization" \notin v.failed =>
              (f.drawn + n) * BPS < (v.policy_bps + 1) * f.limit \/ f.limit = 0

\* What is drawn, a row of the log or a result, is covered by the approval it
\* names: approved, of that company, for a draw, of at least its amount, by
\* someone, and not by the person who prepared it.
Covered(draw) ==
    LET a == approvals[draw.approval] IN
    /\ a.decision = "approved" /\ a.company = draw.company /\ a.action = "Revolver draw"
    /\ a.amount >= draw.amount /\ a.decided_by \notin {Nobody, a.prepared_by}

\* Whatever order approvals are inserted, escalated, decided and taken back in,
\* every draw, with a log or without, is covered when it is made by the approval
\* it names (controls.require_approval_before_draw, models/workflow.py Approval).
EveryExecutionIsCovered ==
    [][/\ \A w \in Workers : \A e \in flushed'[w] \ flushed[w] :
             e.event_type = "execution" => Covered(e)
       /\ \A i \in DOMAIN unlogged' : Covered(unlogged'[i])]_vars

ResultOf(e) == Result(e.company, e.amount, e.approval)
\* Two sessions may count from the same sequence number.  Even then every draw
\* an adapter with a log made, and whose transaction was committed, has an audit
\* row of its own, and every execution row a draw behind it (execution.py,
\* execute; audit.py, append).  An adapter without a log leaves no row.
DoneIsAudited ==
    LET executions == {e \in entries : e.event_type = "execution"}
    IN  /\ BagToSet(done) = {ResultOf(e) : e \in executions}
        /\ \A r \in BagToSet(done) :
              done[r] = Cardinality({e \in executions : ResultOf(e) = r})
=============================================================================
