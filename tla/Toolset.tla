------------------------------- MODULE Toolset -------------------------------
(***************************************************************************)
(* backend/tools: what the read-only tools answer from one book.           *)
(*                                                                         *)
(* A book is the rows one tenant has at one moment, a record of sets.      *)
(* EngineToolset (engine.py) reads a fully modelled tenant; TenantToolset  *)
(* (tenant.py) one that was onboarded this morning and holds receivables,  *)
(* payables and bank movements only.  Days are integers and day 0 is a     *)
(* Monday; money is in minor units; a ToolError is Refused.                *)
(***************************************************************************)
EXTENDS Tallies, Sequences, SequencesExt, TLC

CONSTANTS Categories,  \* the closed set of forecast categories, in order
          Horizon,     \* weeks of a forecast
          TopN,        \* DEFAULT_TOP_N, the rows a tool shows
          MonthlyOpex  \* profile: monthly_operating_expense_minor

CategorySet == {Categories[i] : i \in DOMAIN Categories}

ASSUME ToolsetAssumption ==
    /\ Horizon \in Nat \ {0}
    /\ TopN \in Nat \ {0}
    /\ MonthlyOpex \in Nat
    /\ Categories \in Seq(CategorySet) /\ Categories # <<>>

Bps == 10000
Refused == [refused |-> TRUE]
Weeks == 1..Horizon

Abs(n) == IF n < 0 THEN -n ELSE n
Total(S, amount(_)) == SumOver([x \in S |-> amount(x)], S)
WeekStart(day) == day - (day % 7)

\* results.cap: the first rows, and how many there were
Cap(rows, limit) ==
    [rows |-> SubSeq(rows, 1, Min({Len(rows), limit})), of |-> Len(rows)]

\* list.sort by a numeric key, ties by the row's own rank
Sorted(S, key(_), rank(_)) ==
    SortedBy(S, LAMBDA a, b : \/ key(a) < key(b)
                              \/ key(a) = key(b) /\ rank(a) < rank(b))

(***************************************************************************)
(* What the schema (backend/models) and the configuration guarantee of a   *)
(* book: its keys are unique and its references resolve, shares are shares *)
(* and amounts whole numbers, a policy is in force, and a fully modelled   *)
(* tenant has a forecast.                                                  *)
(***************************************************************************)
Share == 0..Bps
\* the ids get_dodo_decline_breakdown makes up, which no subscription has
Unavailable == {"unavailable-1", "unavailable-2"}
Key(rows, key(_)) ==
    IsFiniteSet(rows) /\ \A r, s \in rows : key(r) \in Int /\ (key(r) = key(s) => r = s)

RulesOK(b) ==
    /\ IsFiniteSet(b.policies)
    /\ \A p \in b.policies :
          /\ p.version \in Int /\ p.effective \in Int /\ p.floor \in Int
          /\ p.min30 \in Int /\ p.maxUtil \in Int
    /\ \E p \in b.policies : p.effective <= b.asOf

ForecastOK(b) ==
    /\ IsFiniteSet(b.versions)
    /\ \A v \in b.versions :
          /\ v.asOf \in Int /\ v.first \in Int /\ v.opening \in Int
          /\ \A c \in CategorySet : \A w \in Weeks : v.lines[<<c, w>>] \in Int
    /\ b.kind = "engine" => \E v \in b.versions : v.asOf <= b.asOf
    /\ IsFiniteSet(b.assumptions)

CashOK(b) ==
    /\ IsFiniteSet(b.txns) /\ \A t \in b.txns : t.amount \in Int
    /\ IsFiniteSet(b.facilities)
    /\ \A f \in b.facilities : f.limit \in Int /\ f.drawn \in Int /\ f.maxUtil \in Int

LedgersOK(b) ==
    /\ Key(b.invoices, LAMBDA i : i.ref)
    /\ \A i \in b.invoices : i.open \in Nat /\ i.due \in Int
    /\ Key(b.payables, LAMBDA p : p.ref)
    /\ Key(b.vendors, LAMBDA v : v.id)
    /\ \A p \in b.payables :
          p.open \in Nat /\ p.due \in Int /\ \E v \in b.vendors : v.id = p.vendor
    /\ \A band \in 1..5 : b.terms.probability[band] \in Share
    /\ b.terms.disputed \in Share
    /\ IsFiniteSet(b.subscriptions)
    /\ \A s \in b.subscriptions : s.amount \in Nat /\ s.id \notin Unavailable
    /\ b.processor.success \in Share /\ b.processor.softShare \in Share
    /\ b.processor.recovery \in Share

BookOK(b) ==
    /\ b.kind \in {"engine", "tenant"} /\ b.asOf \in Int
    /\ RulesOK(b) /\ ForecastOK(b) /\ CashOK(b) /\ LedgersOK(b)

(***************************************************************************)
(* Policy, versions, facilities.                                           *)
(***************************************************************************)
\* _policy: the newest row already in force
Policy(book) ==
    LET effective == {p \in book.policies : p.effective <= book.asOf}
    IN  CHOOSE p \in effective : \A q \in effective : q.version <= p.version

\* _forecast_version: the newest taken by the as-of day
Version(book) ==
    LET taken == {v \in book.versions : v.asOf <= book.asOf}
    IN  CHOOSE v \in taken : \A w \in taken : w.asOf <= v.asOf

\* _safe_revolver_available, debt.max_safe_draw: the tighter ceiling, never negative
SafeRevolver(book) ==
    Total(book.facilities,
          LAMBDA f : Max({0, (f.limit * Min({Policy(book).maxUtil, f.maxUtil})) \div Bps
                             - f.drawn}))

Drawn(book) == Total(book.facilities, LAMBDA f : f.drawn)
Limit(book) == Total(book.facilities, LAMBDA f : f.limit)

(***************************************************************************)
(* The forecast series: running from the version's opening cash, or, with  *)
(* no version, derived from the open ledger.                               *)
(***************************************************************************)
Running(opening, net) ==
    LET balance[w \in 0..Horizon] == IF w = 0 THEN opening ELSE balance[w - 1] + net[w]
    IN  [w \in Weeks |-> balance[w]]

\* _forecast_balances
EngineBalances(book) ==
    LET v == Version(book)
    IN  Running(v.opening, [w \in Weeks |->
                                Total(CategorySet, LAMBDA c : v.lines[<<c, w>>])])

\* band_of and aging_bucket: 1 is not yet due, 5 is over ninety days
Band(days) ==
    CASE days <= 0 -> 1 [] days \in 1..30 -> 2 [] days \in 31..60 -> 3
      [] days \in 61..90 -> 4 [] OTHER -> 5

\* TenantTerms.probability_bps, CollectionCurve.probability_bps
Probability(book, invoice) ==
    LET base == book.terms.probability[Band(book.asOf - invoice.due)]
    IN  IF invoice.disputed THEN (base * book.terms.disputed) \div Bps ELSE base

Expected(book, invoice) == (invoice.open * Probability(book, invoice)) \div Bps

\* _week_index: overdue lands in week 1, beyond the horizon in none (0)
LandsIn(book, due) ==
    LET week == (due - WeekStart(book.asOf)) \div 7 + 1
    IN  IF week <= 1 THEN 1 ELSE IF week <= Horizon THEN week ELSE 0

\* the engine leaves out what is part paid, and what is disputed or void
Counted(book, row) == row.open > 0 /\ (book.kind = "engine" => row.status = "open")
OpenInvoices(book) == {i \in book.invoices : Counted(book, i)}
OpenPayables(book) == {p \in book.payables : Counted(book, p)}

\* _cash_today_minor: settled movements only
SettledCash(book) == Total({t \in book.txns : ~t.pending}, LAMBDA t : t.amount)

\* _forecast_rows
TenantBalances(book) ==
    Running(SettledCash(book),
            [w \in Weeks |->
                Total({i \in OpenInvoices(book) : LandsIn(book, i.due) = w},
                      LAMBDA i : Expected(book, i))
                  - Total({p \in OpenPayables(book) : LandsIn(book, p.due) = w},
                          LAMBDA p : p.open)])

Balances(book) == IF book.kind = "engine" THEN EngineBalances(book) ELSE TenantBalances(book)

TroughWeek(series, weeks) ==
    CHOOSE w \in weeks : \A x \in weeks : \/ series[w] < series[x]
                                          \/ series[w] = series[x] /\ w <= x

(***************************************************************************)
(* The shared position.                                                    *)
(***************************************************************************)
\* cash.aggregate: restricted cash is never counted, nor what is pending
Unrestricted(book) ==
    Total({a \in book.accounts : ~a.restricted}, LAMBDA a : a.balance)

\* weeks before the first one that fails: the engine counts to zero, the tenant
\* toolset to the floor
Runway(series, failsAt) ==
    LET failing == {w \in Weeks : series[w] <= failsAt}
    IN  IF failing = {} THEN Horizon ELSE Min(failing) - 1

\* EngineToolset.get_liquidity_position
EnginePosition(book) ==
    LET series == EngineBalances(book)
        week == TroughWeek(series, Weeks)
    IN  IF book.accounts = {} THEN Refused
        ELSE [cash |-> Unrestricted(book), floor |-> Policy(book).floor,
              min |-> series[week], minWeek |-> week,
              revolver |-> SafeRevolver(book), drawn |-> Drawn(book),
              limit |-> Limit(book), runway |-> Runway(series, 0)]

\* TenantToolset.get_liquidity_position: nobody onboarded a facility
TenantPosition(book) ==
    LET series == TenantBalances(book)
        week == TroughWeek(series, Weeks)
    IN  [cash |-> SettledCash(book), floor |-> Policy(book).floor,
         min |-> series[week], minWeek |-> week,
         revolver |-> 0, drawn |-> 0, limit |-> 0,
         runway |-> Runway(series, Policy(book).floor - 1)]

Position(book) == IF book.kind = "engine" THEN EnginePosition(book) ELSE TenantPosition(book)

\* the version a summary names: an onboarded tenant has one a day
VersionId(book) == IF book.kind = "engine" THEN Version(book).id ELSE <<"tenant", book.asOf>>

\* get_forecast_summary
Summary(book) ==
    LET series == Balances(book)
    IN  [version |-> VersionId(book), closing |-> series,
         breaching |-> {w \in Weeks : series[w] < Policy(book).floor}]

(***************************************************************************)
(* Covenants (finance/covenants.py) and policy constraints.                *)
(***************************************************************************)
\* the kind is read off the wording
CovenantKind(c) ==
    IF c.inMoney
    THEN IF "cash" \in c.words /\ "liquidity" \notin c.words THEN "min_cash" ELSE "min_liquidity"
    ELSE IF c.words \cap {"interest", "coverage"} # {} THEN "interest_coverage"
    ELSE "net_debt_to_ebitda"

\* evaluate: a ratio that has no meaning is a failure, never a pass
CovenantPasses(book, c) ==
    LET netDebt == Drawn(book) - Unrestricted(book)
        interest == Max({1, (Drawn(book) * book.rateBps) \div Bps})
    IN  CASE CovenantKind(c) = "min_cash" -> Unrestricted(book) >= c.threshold
          [] CovenantKind(c) = "min_liquidity" ->
                Unrestricted(book) + SafeRevolver(book) >= c.threshold
          [] CovenantKind(c) = "interest_coverage" ->
                (book.ebitda * Bps) \div interest >= c.threshold
          [] OTHER -> book.ebitda > 0 /\ (netDebt * Bps) \div book.ebitda <= c.threshold

\* get_covenant_status
CovenantStatus(book) ==
    IF book.kind = "tenant" THEN Refused
    ELSE [tested |-> book.covenants,
          breached |-> {c \in book.covenants : ~CovenantPasses(book, c)}]

Rule(kind, of, threshold) == [kind |-> kind, of |-> of, threshold |-> threshold]

\* TenantToolset.get_policy_constraints: no revolver rule
TenantConstraints(book) ==
    {Rule("min_cash", "", Policy(book).floor),
     Rule("min_30d_liquidity", "", Policy(book).min30)}
    \cup {Rule("protected_payment_class", class, 0) : class \in Policy(book).protected}

\* EngineToolset.get_policy_constraints: no toolset has a rule for a covenant
EngineConstraints(book) ==
    TenantConstraints(book)
    \cup {Rule("max_revolver_utilization", "", Policy(book).maxUtil)}

Constraints(book) ==
    IF book.kind = "engine" THEN EngineConstraints(book) ELSE TenantConstraints(book)

(***************************************************************************)
(* The closed week against the version that was current when it began.     *)
(***************************************************************************)
\* MaterialityThreshold.resolve: the lesser of the two limbs
Threshold(policy) == Min({policy.absolute, (MonthlyOpex * policy.pctBps) \div Bps})

ClosedWeek(book) == WeekStart(book.asOf) - 7

\* settled movements of one category booked in the week of a Monday
Actual(book, c, monday) ==
    Total({t \in book.txns : ~t.pending /\ t.category = c /\ WeekStart(t.day) = monday},
          LAMBDA t : t.amount)

\* mutant: a version taken during the week counts, if its horizon begins in time
CoveringAnyTaken(book, monday) ==
    {v \in book.versions : v.first <= monday /\ monday < v.first + 7 * Horizon}

\* the versions that were taken by that Monday and whose horizon covers it
Covering(book, monday) ==
    {v \in book.versions : /\ v.first <= monday /\ v.asOf <= monday
                           /\ monday < v.first + 7 * Horizon}

Baseline(book, monday) ==
    LET covering == Covering(book, monday)
    IN  CHOOSE v \in covering : \A w \in covering : w.asOf <= v.asOf

\* the rows of get_variance_bridge, plan against settled cash (nothing in the
\* program writes the variance_items it would prefer)
BridgeRows(book) ==
    LET monday == ClosedWeek(book)
        baseline == Baseline(book, monday)
        row(c) == LET delta == Actual(book, c, monday)
                                 - baseline.lines[<<c, (monday - baseline.first) \div 7 + 1>>]
                  IN  [category |-> c, delta |-> delta,
                       material |-> Abs(delta) >= Threshold(Policy(book))]
    IN  {row(c) : c \in CategorySet}

RankOf(c) == CHOOSE i \in DOMAIN Categories : Categories[i] = c

\* get_variance_bridge: largest first, then cut
Bridge(book) ==
    IF book.kind = "tenant" \/ Covering(book, ClosedWeek(book)) = {} THEN Refused
    ELSE LET rows == BridgeRows(book)
         IN  [total |-> Total(rows, LAMBDA r : r.delta),
              shown |-> Cap(Sorted(rows, LAMBDA r : -Abs(r.delta), LAMBDA r : RankOf(r.category)),
                            TopN)]

\* EngineToolset.list_driver_assumptions: every row carries a review date
EngineDrivers(book) ==
    Cap(Sorted({[driver |-> a.key, age |-> Max({0, book.asOf - a.taken}),
                 stale |-> a.reviewDue < book.asOf] : a \in book.assumptions},
               LAMBDA r : -r.age, LAMBDA r : r.driver), TopN)

\* TenantToolset.list_driver_assumptions: a driver ages with the newest row of its ledger
TenantDrivers(book) ==
    LET latest(days) == IF days = {} THEN book.asOf ELSE Max(days)
        age(days) == Max({0, book.asOf - latest(days)})
        row(driver, days) == [driver |-> driver, age |-> age(days),
                              stale |-> age(days) > book.terms.staleAfter]
    IN  Cap(<<row(1, {i.issued : i \in book.invoices}),
              row(2, {p.issued : p \in book.payables}),
              row(3, {t.day : t \in book.txns}),
              row(4, {})>>, TopN)

Drivers(book) == IF book.kind = "engine" THEN EngineDrivers(book) ELSE TenantDrivers(book)

\* _ape_bps: against the actual, or against a forecast of money that never moved;
\* nothing forecast and nothing moved says nothing (-1)
Ape(forecast, actual) ==
    LET base == IF actual # 0 THEN Abs(actual) ELSE Abs(forecast)
    IN  IF base = 0 THEN -1 ELSE (Abs(actual - forecast) * Bps) \div base

\* the measured errors of a category at a horizon, one for each version whose target
\* week has begun and saw some movement
Errors(book, c, h) ==
    {<<v.id, Ape(v.lines[<<c, h>>], Actual(book, c, v.first + 7 * (h - 1)))>> :
        v \in {w \in book.versions :
                  /\ w.first + 7 * (h - 1) < book.asOf
                  /\ \E t \in book.txns : /\ ~t.pending /\ t.category = c /\ t.day < book.asOf
                                           /\ WeekStart(t.day) = w.first + 7 * (h - 1)}}

\* _nearest_rank, percentile_error_bps
NearestRank(errors, percentile) ==
    LET n == Cardinality(errors)
        rank == Max({1, (percentile * n + 99) \div 100})
    IN  Sorted(errors, LAMBDA e : e[2], LAMBDA e : e[1])[rank][2]

\* get_forecast_error_percentiles (nothing in the program writes accuracy_stats)
Percentiles(book, h) ==
    LET measured(c) == {e \in Errors(book, c, h) : e[2] >= 0}
        seen == {c \in CategorySet : measured(c) # {}}
    IN  IF book.kind = "tenant" \/ seen = {} THEN Refused
        ELSE [c \in seen |-> [p50 |-> NearestRank(measured(c), 50),
                              p90 |-> NearestRank(measured(c), 90)]]

(***************************************************************************)
(* Receivables and payables: every row carries the citation it supports.   *)
(* A citation is <<source, record, field>>.                                *)
(***************************************************************************)
Cite(source, record, field) == <<source, record, field>>
NoField == "none"

\* rank_collection_opportunities: totals are taken before the cut
Collections(book) ==
    LET rows == {[ref |-> i.ref, open |-> i.open, expected |-> Expected(book, i)] :
                    i \in OpenInvoices(book)}
    IN  [totalOpen |-> Total(rows, LAMBDA r : r.open),
         totalExpected |-> Total(rows, LAMBDA r : r.expected),
         shown |-> Cap(Sorted(rows, LAMBDA r : -r.expected, LAMBDA r : r.ref), TopN)]

\* get_ar_aging_summary
Aging(book) ==
    [band \in 1..5 |->
        Total({i \in OpenInvoices(book) : Band(book.asOf - i.due) = band}, LAMBDA i : i.open)]

Vendor(book, payable) == CHOOSE v \in book.vendors : v.id = payable.vendor

Protected(book, payable) == Vendor(book, payable).class \in Policy(book).protected

\* protected rows are shown, never deferrable
DeferralRow(book, p, days) ==
    [ref |-> p.ref, open |-> p.open, protected |-> Protected(book, p),
     days |-> IF Protected(book, p) THEN 0 ELSE days]

\* one group of rows before the other, the largest first, then cut
Ranked(rows, first(_)) ==
    [deferrable |-> Total({r \in rows : ~r.protected}, LAMBDA r : r.open),
     shown |-> Cap(Sorted({r \in rows : first(r)}, LAMBDA r : -r.open, LAMBDA r : r.ref)
                   \o Sorted({r \in rows : ~first(r)}, LAMBDA r : -r.open, LAMBDA r : r.ref),
                   TopN)]

\* EngineToolset.rank_deferral_candidates: what is protected comes first
EngineDeferrals(book, maxDelay) ==
    Ranked({DeferralRow(book, p, maxDelay) : p \in OpenPayables(book)}, LAMBDA r : r.protected)

\* TenantToolset.rank_deferral_candidates: days by criticality, what is protected last
TenantDeferrals(book, maxDelay) ==
    LET days(p) == Min({book.terms.delay[Vendor(book, p).criticality], maxDelay})
    IN  Ranked({DeferralRow(book, p, days(p)) : p \in OpenPayables(book)},
               LAMBDA r : ~r.protected)

Deferrals(book, maxDelay) ==
    IF book.kind = "engine" THEN EngineDeferrals(book, maxDelay) ELSE TenantDeferrals(book, maxDelay)

\* the payables a supplier's share is taken of: the engine asks for no status
Owed(book) == IF book.kind = "engine" THEN book.payables ELSE OpenPayables(book)

\* late_payments_6m: the engine counts what fell due in the last 183 days, the
\* tenant toolset, whose ledger is one snapshot, whatever is late today
LateWindow == 183
Late(book, p) ==
    /\ p.open > 0 /\ p.due < book.asOf
    /\ book.kind = "engine" => p.due >= book.asOf - LateWindow

\* get_supplier_risk_profile
SupplierRisk(book, vendor) ==
    LET theirs == {p \in Owed(book) : p.vendor = vendor.id}
        all == Total(Owed(book), LAMBDA p : p.open)
    IN  [soleSource |-> vendor.singleSource,
         concentration |-> (Total(theirs, LAMBDA p : p.open) * 100) \div Max({1, all}),
         overdue |-> Cardinality({p \in theirs : Late(book, p)})]

\* get_dodo_decline_breakdown: expected declines of the scheduled charges
Active(book) == {s \in book.subscriptions : s.status = "active"}
Declines(book) ==
    LET scheduled == Total(Active(book), LAMBDA s : s.amount)
        atRisk == (scheduled * (Bps - book.processor.success)) \div Bps
        soft == (atRisk * book.processor.softShare) \div Bps
    IN  IF book.kind = "tenant" THEN Refused
        ELSE [atRisk |-> atRisk, soft |-> soft, hard |-> atRisk - soft,
              recoverable |-> (soft * book.processor.recovery) \div Bps]

\* EngineToolset.get_capability_manifest: a source counts when it has a row
EngineAvailable(book) ==
    {s \in {"bank", "ar_ledger", "ap_ledger", "debt", "dodo", "forecast", "policy"} :
        CASE s = "bank" -> book.accounts # {}
          [] s = "ar_ledger" -> book.invoices # {}
          [] s = "ap_ledger" -> book.payables # {}
          [] s = "debt" -> book.facilities # {}
          [] s = "dodo" -> book.subscriptions # {}
          [] s = "forecast" -> book.versions # {}
          [] OTHER -> book.policies # {}}

\* TenantToolset.get_capability_manifest
TenantAvailable(book) ==
    {"policy", "forecast"} \cup
    {s \in {"bank", "ar_ledger", "ap_ledger"} :
        CASE s = "bank" -> book.txns # {}
          [] s = "ar_ledger" -> book.invoices # {}
          [] OTHER -> book.payables # {}}

Available(book) == IF book.kind = "engine" THEN EngineAvailable(book) ELSE TenantAvailable(book)

(***************************************************************************)
(* Evidence: what the tools hand out as citable, and what resolves.        *)
(***************************************************************************)
\* EngineToolset: what each tool may cite, its top_n being the caller's.  A forecast
\* line is named by its version, category and week.
LineId(v, c, w) == <<"line", v.id, c, w>>
AssumptionId(a) == <<"assumption", a.key>>

PositionCites(book)   == {Cite("bank", a.id, NoField) : a \in book.accounts}
ConstraintCites(book) == {Cite("policy", Policy(book).version, NoField)}
CovenantCites(book)   == {Cite("debt", c.id, NoField) : c \in book.covenants}
SummaryCites(book) ==
    {Cite("forecast", LineId(Version(book), c, w), NoField) : c \in CategorySet, w \in Weeks}
DriverCites(book)     == {Cite("forecast", AssumptionId(a), NoField) : a \in book.assumptions}
BridgeCites(book) ==
    LET monday == ClosedWeek(book)
        baseline == Baseline(book, monday)
        week == (monday - baseline.first) \div 7 + 1
    IN  IF Covering(book, monday) = {} THEN {}
        ELSE {Cite("forecast", LineId(baseline, c, week), NoField) : c \in CategorySet}
CollectionCites(book) == {Cite("ar_ledger", i.ref, NoField) : i \in OpenInvoices(book)}
DeferralCites(book)   == {Cite("ap_ledger", p.ref, NoField) : p \in OpenPayables(book)}
SupplierCites(book)   == {Cite("ap_ledger", v.id, NoField) : v \in book.vendors}
\* two active subscriptions, any two of an unordered query, and where there are
\* fewer an id that is no row's
DeclineCites(book) ==
    {Cite("dodo", s.id, NoField) : s \in Active(book)}
    \cup (IF Cardinality(Active(book)) < 2 THEN {Cite("dodo", "unavailable-2", NoField)} ELSE {})
    \cup (IF Active(book) = {} THEN {Cite("dodo", "unavailable-1", NoField)} ELSE {})

EngineReferences(book) ==
    PositionCites(book) \cup ConstraintCites(book) \cup CovenantCites(book)
    \cup SummaryCites(book) \cup DriverCites(book) \cup BridgeCites(book)
    \cup CollectionCites(book) \cup DeferralCites(book) \cup SupplierCites(book)
    \cup DeclineCites(book)

Money == "open_amount_minor"
Aggregate == 0   \* the record a whole ledger is cited as

TenantReferences(book) ==
    {Cite("forecast", VersionId(book), "closing_cash"),
     Cite("policy", "min_unrestricted_cash", NoField),
     Cite("policy", "v", NoField),
     Cite("policy", "tenant_terms", "collection_probability_bps"),
     Cite("ar_ledger", Aggregate, "aging"), Cite("ar_ledger", Aggregate, Money),
     Cite("ap_ledger", Aggregate, Money), Cite("bank", Aggregate, "amount_minor")}
    \cup {Cite("ar_ledger", i.ref, Money) : i \in OpenInvoices(book)}
    \cup {Cite("ap_ledger", p.ref, Money) : p \in OpenPayables(book)}
    \cup {Cite("ap_ledger", v.id, "criticality") : v \in book.vendors}

References(book) ==
    IF book.kind = "engine" THEN EngineReferences(book) ELSE TenantReferences(book)

PolicyFields == {"min_unrestricted_cash", "min_30d_liquidity", "protected_payment_classes"}

\* what "forecast" may name: a line of any version, or an assumption
ForecastIds(book) ==
    {LineId(v, c, w) : v \in book.versions, c \in CategorySet, w \in Weeks}
    \cup {AssumptionId(a) : a \in book.assumptions}

\* EngineToolset.resolve_evidence: a row of this tenant, by its own key (variance
\* items it would find too, but nothing in the program writes them)
EngineResolves(book, ref) ==
    ref[2] \in CASE ref[1] = "bank" -> {a.id : a \in book.accounts}
                 [] ref[1] = "ar_ledger" -> {i.ref : i \in book.invoices}
                 [] ref[1] = "ap_ledger" -> {p.ref : p \in book.payables}
                                              \cup {v.id : v \in book.vendors}
                 [] ref[1] = "debt" -> {c.id : c \in book.covenants}
                 [] ref[1] = "dodo" -> {s.id : s \in book.subscriptions}
                 [] ref[1] = "policy" -> {p.version : p \in book.policies}
                 [] ref[1] = "forecast" -> ForecastIds(book)
                 [] OTHER -> {}

\* TenantToolset.resolve_evidence: also aggregates, its one version, and policy by
\* version or by field
TenantResolves(book, ref) ==
    CASE ref[1] = "policy" -> ref[3] \in PolicyFields \/ ref[2] \in {"v", "tenant_terms"}
      [] ref[1] = "forecast" -> ref[2] = VersionId(book)
      [] ref[1] = "ar_ledger" -> ref[2] \in {Aggregate} \cup {i.ref : i \in book.invoices}
      [] ref[1] = "ap_ledger" -> ref[2] \in {Aggregate} \cup {p.ref : p \in book.payables}
                                                     \cup {v.id : v \in book.vendors}
      [] ref[1] = "bank" -> ref[2] \in {Aggregate} \cup {a.id : a \in book.accounts}
                                                \cup {t.id : t \in book.txns}
      [] OTHER -> FALSE

Resolves(book, ref) ==
    IF book.kind = "engine" THEN EngineResolves(book, ref) ELSE TenantResolves(book, ref)
==============================================================================
