-------------------------------- MODULE Dodo --------------------------------
(***************************************************************************)
(* The Dodo Payments boundary (backend/integrations/dodo).  Two sides that *)
(* share no state, so that each is explored by itself: the webhook intake  *)
(* behind POST /webhooks/dodo (webhooks.py, main.py), and the reads that   *)
(* turn payments, balance-ledger rows and payouts into metrics and a cash  *)
(* timing per payment (client.py, normalize.py, metrics.py, taxonomy.py,   *)
(* finance/failures.py).                                                   *)
(*                                                                         *)
(* The sender retries and the network delays, repeats and loses what it    *)
(* sends.  The provider's books move between two reads of one refresh.     *)
(* Amounts are minor units of one currency; day 0 is a Monday.             *)
(***************************************************************************)
EXTENDS Tallies, SequencesExt

CONSTANTS
    WebhookIds,       \* webhook-id header values
    ToleranceS,       \* tolerance_s
    MaxClock,         \* bound: how far time runs
    MaxInFlight,      \* bound: deliveries under way at a time
    Payments,         \* payment ids
    Amount,           \* Amount[p], Day[p]: what each payment is about
    Day,
    Holidays,         \* closed weekdays
    LagBusinessDays,  \* lag_business_days
    SoftRecoveryBps,  \* soft_recovery_bps
    MaxPayouts        \* bound: payouts the provider makes

ASSUME DodoAssumption ==
    /\ ToleranceS \in Nat /\ MaxClock \in Nat /\ LagBusinessDays \in Nat
    /\ SoftRecoveryBps \in 0..10000
    /\ IsFiniteSet(Payments) /\ \A p \in Payments : Amount[p] \in Nat /\ Day[p] \in Nat
    /\ IsFiniteSet(Holidays) /\ Holidays \subseteq Nat

VARIABLES
    side,      \* "intake" or "reads"
    clock,     \* seconds
    wire,      \* deliveries under way
    seen,      \* WebhookStore._seen, in memory
    fresh,     \* fresh[id]: answers "received, no duplicate" since the start
    answer,    \* the last answer of the endpoint
    books,     \* the provider's payments, ledger and payouts
    got,       \* what the refresh under way has read
    known,     \* the metrics computed last, <<>> at first
    metrics,   \* the metrics shown, <<>> at first
    timing,    \* the CashTiming of every payment, <<>> at first
    source,    \* what the metrics shown are from: "none", "computed", "unavailable"
    dropped    \* some list read so far had an entry left out of it

intake == <<clock, wire, seen, fresh, answer>>
reads == <<books, got, known, metrics, timing, source, dropped>>
DodoVars == <<side, intake, reads>>

-----------------------------------------------------------------------------
(* Webhook intake *)

\* The sender stamps and signs a delivery; one signed with another secret, or
\* with a body no event is in, is a sender's mistake.
Send ==
    /\ Cardinality(wire) < MaxInFlight
    /\ \E id \in WebhookIds \cup {""}, ts \in {clock, clock + ToleranceS + 1},
          signature \in {"v1", "bare", "other secret"},
          body \in {"event", "not json", "no type", "data not an object"} :
          wire' = wire \cup {[id |-> id, ts |-> ts, signature |-> signature, body |-> body]}
    /\ UNCHANGED <<clock, seen, fresh, answer>>
Lose == /\ \E d \in wire : wire' = wire \ {d}
        /\ UNCHANGED <<clock, seen, fresh, answer>>
Tick == /\ clock < MaxClock /\ clock' = clock + 1
        /\ UNCHANGED <<wire, seen, fresh, answer>>

\* Headers, clock, signature: in that order, all with the same answer.
VerifySignature(d) ==
    /\ d.id # ""
    /\ (clock - d.ts) \in -ToleranceS .. ToleranceS
    /\ d.signature \in {"v1", "bare"}

\* mutant: the id is marked before the delivery is verified
ReceiveMarksFirst(d) ==
    /\ seen' = seen \cup {d.id}
    /\ IF VerifySignature(d) /\ d.body = "event"
       THEN /\ answer' = IF d.id \in seen THEN "duplicate" ELSE "received"
            /\ fresh' = IF d.id \in seen THEN fresh ELSE [fresh EXCEPT ![d.id] = @ + 1]
       ELSE answer' = "401" /\ UNCHANGED fresh
\* receive_webhook: the body too is checked before the id is marked.
Receive(d) ==
    IF VerifySignature(d) /\ d.body = "event"
    THEN /\ seen' = seen \cup {d.id}
         /\ answer' = IF d.id \in seen THEN "duplicate" ELSE "received"
         /\ fresh' = IF d.id \in seen THEN fresh ELSE [fresh EXCEPT ![d.id] = @ + 1]
    ELSE answer' = "401" /\ UNCHANGED <<seen, fresh>>

\* dodo_webhook: acknowledged, and nothing else.  The network may deliver the
\* same thing again.
Deliver ==
    /\ \E d \in wire, again \in BOOLEAN :
        /\ Receive(d)
        /\ wire' = IF again THEN wire ELSE wire \ {d}
    /\ UNCHANGED clock
\* Without DODO_PAYMENTS_WEBHOOK_KEY the endpoint answers before it reads.
NotConfigured ==
    /\ \E d \in wire : wire' = wire \ {d}
    /\ answer' = "503"
    /\ UNCHANGED <<clock, seen, fresh>>
\* A new process has an empty store.
Restart ==
    /\ seen' = {} /\ fresh' = [id \in WebhookIds |-> 0] /\ answer' = "none"
    /\ UNCHANGED <<clock, wire>>

IntakeNext == Send \/ Lose \/ Tick \/ Deliver \/ NotConfigured \/ Restart

-----------------------------------------------------------------------------
(* The provider *)

SOFT_DECLINE_CODES == {"insufficient_funds"}
HARD_DECLINE_CODES == {"fraudulent"}
FailureCodes == SOFT_DECLINE_CODES \cup HARD_DECLINE_CODES \cup {"none", "unheard of"}

\* Statuses come in either case.
PaymentMoves ==
    \E p \in Payments, status \in {"succeeded", "Succeeded", "failed"}, code \in FailureCodes :
        /\ books.payments[p].status \in {"processing", "failed"}
        /\ status # "failed" => code = "none"
        /\ books' = [books EXCEPT !.payments[p] = [status |-> status, code |-> code]]
LedgerCredit ==
    \E p \in Payments :
        /\ books.payments[p].status \in {"succeeded", "Succeeded"}
        /\ books' = [books EXCEPT !.ledger = @ \cup {p}]
\* A payout carries an amount and no payment id.
PayoutMade ==
    /\ Len(books.payouts) < MaxPayouts
    /\ \E p \in books.ledger :
          books' = [books EXCEPT !.payouts =
                       Append(@, [amount |-> Amount[p], status |-> "pending"])]
PayoutPaid ==
    \E i \in DOMAIN books.payouts :
        /\ books.payouts[i].status = "pending"
        /\ books' = [books EXCEPT !.payouts[i].status = "paid"]
Provider ==
    /\ PaymentMoves \/ LedgerCredit \/ PayoutMade \/ PayoutPaid
    /\ UNCHANGED <<got, known, metrics, timing, source, dropped>>

-----------------------------------------------------------------------------
(* Reading *)

\* DodoClient._get: no key, no answer, a status of 400 or more and a shape that
\* is not a list are all DodoUnavailable.  A body that is not JSON, and an item
\* that fails normalization, raise something else.
Get == {"no key", "transport error", "5xx", "401", "403", "4xx", "not json", "items",
        "items and others", "unexpected shape", "bad item"}
OutcomeOf(response) ==
    CASE response \in {"items", "items and others"} -> "items"
      [] response \in {"not json", "bad item"} -> "raises"
      [] OTHER -> "unavailable"

\* _items: an entry that is not an object is left out of the list, and nobody is
\* told; any of the provider's rows may have been sent as one.
LeftOut(response, rows) == IF response = "items and others" THEN SUBSET rows ELSE {{}}
Absent == [status |-> "absent", code |-> "none"]

IsSuccess(status) == status \in {"succeeded", "Succeeded"}
IsFailed(status) == status = "failed"

\* classify_decline, recovery_bps: an unknown code is worth nothing.
RecoveryBps(code) == IF code \in SOFT_DECLINE_CODES THEN SoftRecoveryBps ELSE 0

\* recoverable_minor of one failed payment: its share, rounded down.
Recoverable(payments) ==
    [p \in Payments |-> (Amount[p] * RecoveryBps(payments[p].code)) \div 10000]

ComputeMetrics(payments) ==
    LET successes == {p \in Payments : IsSuccess(payments[p].status)}
        failures == {p \in Payments : IsFailed(payments[p].status)}
        total == Cardinality(successes) + Cardinality(failures)
    IN  [expected |-> SumOver(Amount, successes),
         at_risk |-> SumOver(Amount, failures),
         recoverable |-> SumOver(Recoverable(payments), failures),
         success_rate_bps |->
            IF total = 0 THEN 0 ELSE (10000 * Cardinality(successes)) \div total,
         degraded |-> FALSE]
Zero == [expected |-> 0, at_risk |-> 0, recoverable |-> 0, success_rate_bps |-> 0,
         degraded |-> TRUE]

\* mutant: the figures kept are not marked
DegradeUnmarked(last_known) == IF last_known = <<>> THEN Zero ELSE last_known[1]
DegradeMetrics(last_known) ==
    IF last_known = <<>> THEN Zero ELSE [last_known[1] EXCEPT !.degraded = TRUE]

Open(day) == day % 7 < 5 /\ day \notin Holidays
NextOpen(day) ==
    CHOOSE d \in day + 1 .. Max(Holidays \cup {day}) + 7 :
        Open(d) /\ \A e \in day + 1 .. d - 1 : ~Open(e)
ExpectedSettlementDate(day) ==
    LET after[n \in 0..LagBusinessDays] == IF n = 0 THEN day ELSE NextOpen(after[n - 1])
    IN  after[LagBusinessDays]

\* mutant: the newest payout of that amount
PayoutHitNewest(p, ledger, payouts) ==
    IF p \notin ledger THEN {}
    ELSE {i \in DOMAIN payouts : /\ payouts[i].amount = Amount[p]
                                 /\ \A j \in i + 1 .. Len(payouts) : payouts[j].amount # Amount[p]}
\* The first payout of the payment's amount, once the ledger has the payment.
PayoutHit(p, ledger, payouts) ==
    IF p \notin ledger THEN {}
    ELSE {i \in DOMAIN payouts : /\ payouts[i].amount = Amount[p]
                                 /\ \A j \in 1 .. i - 1 : payouts[j].amount # Amount[p]}

\* resolve_cash_timing.  The status is compared as it is written here.
Stages == [payment |-> 0, ledger |-> 1, payout |-> 2, settled |-> 3]
ResolveCashTiming(p, payments, ledger, payouts) ==
    LET hit == PayoutHit(p, ledger, payouts)
        stage == CASE \E i \in hit : payouts[i].status = "paid" -> "settled"
                   [] \E i \in hit : payouts[i].status # "paid" -> "payout"
                   [] hit = {} /\ p \in ledger -> "ledger"
                   [] OTHER -> "payment"
    IN  IF payments[p].status # "succeeded" THEN [stage |-> "payment", settlement |-> <<>>]
        ELSE [stage |-> stage,
              settlement |-> IF hit = {} THEN <<ExpectedSettlementDate(Day[p])>>
                             ELSE <<>>]   \* the payout's own date

NotReading == [step |-> "idle", payments |-> <<>>, ledger |-> {}]

\* One refresh is three requests; the first that fails ends it.
Unavailable == /\ metrics' = <<DegradeMetrics(known)>> /\ source' = "unavailable"
               /\ got' = NotReading /\ UNCHANGED <<known, timing, dropped>>
Raises == got' = NotReading /\ UNCHANGED <<known, metrics, timing, source, dropped>>
Fails(response) == \/ OutcomeOf(response) = "unavailable" /\ Unavailable
                   \/ OutcomeOf(response) = "raises" /\ Raises
Listed(response) == /\ OutcomeOf(response) = "items"
                    /\ dropped' = (dropped \/ response = "items and others")

ListPayments(response) ==
    /\ got.step = "idle"
    /\ \/ Fails(response)
       \/ /\ Listed(response)
          /\ \E lost \in LeftOut(response, Payments) :
                got' = [step |-> "ledger", ledger |-> {},
                        payments |-> <<[p \in Payments |->
                            IF p \in lost THEN Absent ELSE books.payments[p]]>>]
          /\ UNCHANGED <<known, metrics, timing, source>>
ListBalanceLedger(response) ==
    /\ got.step = "ledger"
    /\ \/ Fails(response)
       \/ /\ Listed(response)
          /\ \E lost \in LeftOut(response, books.ledger) :
                got' = [got EXCEPT !.step = "payouts", !.ledger = books.ledger \ lost]
          /\ UNCHANGED <<known, metrics, timing, source>>
\* A payment that was not listed keeps the timing it had.
ListPayouts(response) ==
    /\ got.step = "payouts"
    /\ \/ Fails(response)
       \/ /\ Listed(response)
          /\ got' = NotReading
          /\ known' = <<ComputeMetrics(got.payments[1])>>
          /\ metrics' = known' /\ source' = "computed"
          /\ \E payouts \in IF response = "items" THEN {books.payouts}
                            ELSE AllSubSeqs(books.payouts) :
                timing' = [p \in Payments |->
                             IF got.payments[1][p] = Absent THEN timing[p]
                             ELSE ResolveCashTiming(p, got.payments[1], got.ledger, payouts)]
Refresh ==
    /\ \E response \in Get :
          ListPayments(response) \/ ListBalanceLedger(response) \/ ListPayouts(response)
    /\ UNCHANGED books

ReadsNext == Provider \/ Refresh

-----------------------------------------------------------------------------
DodoInit ==
    /\ side \in {"intake", "reads"}
    /\ clock = 0 /\ wire = {} /\ seen = {} /\ answer = "none"
    /\ fresh = [id \in WebhookIds |-> 0]
    /\ books = [payments |-> [p \in Payments |-> [status |-> "processing", code |-> "none"]],
                ledger |-> {}, payouts |-> <<>>]
    /\ got = NotReading /\ known = <<>> /\ metrics = <<>>
    /\ timing = [p \in Payments |-> [stage |-> "payment", settlement |-> <<>>]]
    /\ source = "none" /\ dropped = FALSE

DodoNext ==
    \/ side = "intake" /\ IntakeNext /\ UNCHANGED <<side, reads>>
    \/ side = "reads" /\ ReadsNext /\ UNCHANGED <<side, intake>>

DodoSpec == DodoInit /\ [][DodoNext]_DodoVars
-----------------------------------------------------------------------------
(* Properties *)

\* However deliveries are repeated, delayed, wrongly signed or malformed, one
\* process takes an event for new at most once, and what it later calls a
\* duplicate it has really accepted: a rejected delivery does not use up the id
\* of the good one behind it (webhooks.py, receive_webhook).
AcceptedOnce ==
    /\ \A id \in WebhookIds : fresh[id] = IF id \in seen THEN 1 ELSE 0
    /\ answer = "duplicate" => seen # {}

AsComputed(m) ==
    /\ m.degraded = (source = "unavailable")
    /\ known = <<>> => m = Zero
    /\ known # <<>> => [m EXCEPT !.degraded = FALSE] = known[1]
    /\ m.recoverable * 10000 <= m.at_risk * SoftRecoveryBps
    /\ m.success_rate_bps \in 0..10000

\* An outage shows exactly the figures computed last and marks them as degraded,
\* after any number of failed refreshes, and the next refresh that succeeds takes
\* the mark away; of the money at risk no more than the profile's share is ever
\* called recoverable (metrics.py, degrade_metrics and compute_metrics).
FiguresSurviveAnOutage == \A i \in DOMAIN metrics : AsComputed(metrics[i])

\* The three lists are read one after the other while the provider goes on.
\* Even so, as long as every list came whole, a payment never falls back from a
\* stage it was shown to have reached; and the day its cash is expected on is
\* always open and not before the payment (normalize.py, resolve_cash_timing and
\* expected_settlement_date).
StagesOnlyAdvance ==
    [][\A p \in Payments :
         /\ dropped' \/ Stages[timing'[p].stage] >= Stages[timing[p].stage]
         /\ \A i \in DOMAIN timing'[p].settlement :
              LET day == timing'[p].settlement[i] IN
              day >= Day[p] /\ (LagBusinessDays > 0 => Open(day))]_DodoVars
=============================================================================
