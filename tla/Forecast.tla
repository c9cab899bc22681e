------------------------------- MODULE Forecast ------------------------------
(***************************************************************************)
(* backend/finance/forecast.py: the 13-week direct-method cash forecast    *)
(* and its weekly roll.                                                    *)
(*                                                                         *)
(* A version is built from the drivers of a company (a record of sets, the *)
(* fields of ForecastInputs), the Monday it starts on, its opening cash    *)
(* and the overrides people made.  `grid` is the version last built.       *)
(* Wording (descriptions, assumptions, sources) is left out.               *)
(***************************************************************************)
EXTENDS Debt

CONSTANTS Horizon,        \* horizon_weeks
          DriverSets,     \* the companies under study
          FirstMondays,   \* the Mondays a first version may start on
          Rolls,          \* bound: versions rolled after the first
          OpeningBalances,\* bound: the bank balances a roll may reopen at, beside the close
          OverrideCells,  \* bound: the <<category, week>> people override
          OverrideAmounts

VARIABLES drivers,    \* what the engine reads, unchanged by a roll
          monday,     \* first_week_start; as_of is the same day
          opening,    \* opening_cash
          overrides,  \* <<category, week>> -> amount
          rolls,      \* versions rolled so far
          grid        \* the Forecast: cells, closing cash by week, drafts

ForecastVars == <<drivers, monday, opening, overrides, rolls, grid>>

Weeks == 1..Horizon

InflowCategories == {"receipts_trade_ar", "receipts_subscription", "receipts_other"}

Categories == InflowCategories \cup
    {"payroll_salaried", "payroll_hourly", "payroll_taxes_benefits", "ap_trade",
     "rent_leases", "tax_income_estimated", "tax_sales_vat", "debt_interest",
     "debt_principal", "capex", "insurance_software"}

NoPromise == -1

\* hourly staff may be paid on a cycle of their own, or on the salaried one
NoAnchor == -1

\* what is entered with its date: receipts, sales tax, commitments
DatedCategories == {"receipts_other", "tax_sales_vat", "capex", "insurance_software"}

\* CollectionCurve.__post_init__: each mixture is complete, and there is a default
CurveOK(curve) ==
    /\ "default" \in DOMAIN curve.mixture
    /\ \A segment \in DOMAIN curve.mixture :
          LET mixture == curve.mixture[segment]
          IN  /\ mixture \in Seq([weight : Nat, lag : Nat]) /\ mixture # <<>>
              /\ SumOver([i \in DOMAIN mixture |-> mixture[i].weight], DOMAIN mixture) = Bps
    /\ \A bucket \in {"current", "1-30", "31-60", "61-90", "90+"} :
          curve.probability[bucket] \in Nat
    /\ curve.haircut \in Nat

\* The types of ForecastInputs; a reference or an id is a key of its table.  Where a
\* schedule is biweekly its anchor is given: without one the build raises.
DriversOK(d) ==
    /\ d.opening \in Int /\ CurveOK(d.curve)
    /\ IsFiniteSet(d.invoices) /\ IsFiniteSet(d.subscriptions) /\ IsFiniteSet(d.dated)
    /\ IsFiniteSet(d.payables) /\ IsFiniteSet(d.debt)
    /\ \A i \in d.invoices : /\ i.open \in Int /\ i.due \in Nat /\ i.disputed \in BOOLEAN
                              /\ i.promise \in Nat \cup {NoPromise}
    /\ \A s \in d.subscriptions : /\ s.amount \in Int /\ s.next \in Nat
                                   /\ s.interval \in DOMAIN ServiceMonths
    /\ d.successBps \in Nat /\ d.payoutLag \in Nat
    /\ \A item \in d.dated : /\ item.category \in DatedCategories
                              /\ item.amount \in Int /\ item.due \in Nat
    /\ \A p \in d.payables : p.open \in Int /\ p.due \in Nat
    /\ d.payroll.frequency \in {"semi_monthly", "biweekly"}
    /\ d.payroll.schedule \in {"semi_weekly", "monthly"} /\ d.payroll.anchor \in Nat
    /\ d.payroll.hourlyAnchor \in Nat \cup {NoAnchor}
    /\ {d.payroll.salaried, d.payroll.hourly, d.payroll.taxBps, d.payroll.benefits} \subseteq Nat
    /\ d.apWeekday \in 0..6 /\ d.rent \in Int /\ d.rentDay \in 1..31 /\ d.quarterlyTax \in Int
    /\ \A f \in d.debt : /\ f.drawn \in Nat /\ f.rateBps \in Nat /\ f.first \in Nat
                          /\ f.principal \in Int /\ f.frequency \in DOMAIN ServiceMonths
    /\ \A f, g \in d.debt : f.id = g.id => f = g

ASSUME ForecastAssumption ==
    /\ Horizon \in Nat \ {0}
    /\ Rolls \in Nat
    /\ \A m \in FirstMondays : m \in Nat /\ Weekday(m) = Monday
    /\ \A cell \in OverrideCells : cell \in Categories \X Weeks
    /\ OverrideAmounts \subseteq Int
    /\ OpeningBalances \subseteq Int
    /\ \A d \in DriverSets : DriversOK(d)

HorizonEnd(start) == start + 7 * Horizon - 1

\* aging_bucket
AgingBucket(daysPastDue) ==
    CASE daysPastDue <= 0 -> "current"
      [] daysPastDue \in 1..30 -> "1-30"
      [] daysPastDue \in 31..60 -> "31-60"
      [] daysPastDue \in 61..90 -> "61-90"
      [] OTHER -> "90+"

\* CollectionCurve.probability_bps
ProbabilityBps(curve, bucket, disputed) ==
    IF disputed
    THEN (curve.probability[bucket] * curve.haircut) \div Bps
    ELSE curve.probability[bucket]

\* CollectionCurve.mixture_for
MixtureFor(curve, segment) ==
    IF segment \in DOMAIN curve.mixture
    THEN curve.mixture[segment] ELSE curve.mixture["default"]

(***************************************************************************)
(* Drafts: one per dated cash movement.  A reference keeps two movements   *)
(* of one row apart.                                                       *)
(***************************************************************************)
Draft(category, date, amount, reference) ==
    [category |-> category, date |-> date, amount |-> amount, reference |-> reference]

ExpectedOf(d, invoice, asOf) ==
    (invoice.open * ProbabilityBps(d.curve, AgingBucket(asOf - invoice.due),
                                   invoice.disputed)) \div Bps

InvoiceDrafts(d, invoice, asOf) ==
    LET expected == ExpectedOf(d, invoice, asOf)
        mixture == MixtureFor(d.curve, invoice.segment)
        parts == Allocate(expected, [i \in DOMAIN mixture |-> mixture[i].weight])
    IN  IF invoice.promise # NoPromise
        THEN {Draft("receipts_trade_ar", Adjust(invoice.promise, "following"),
                    expected, <<invoice.ref, 0>>)}
        ELSE {Draft("receipts_trade_ar",
                    Adjust(invoice.due + mixture[i].lag, "following"),
                    parts[i], <<invoice.ref, i>>) : i \in DOMAIN mixture}

\* _build_trade_receipts
TradeReceipts(d, asOf) ==
    UNION {InvoiceDrafts(d, invoice, asOf) :
              invoice \in {i \in d.invoices : i.open > 0 /\ ExpectedOf(d, i, asOf) # 0}}

\* the billing dates _build_subscription_receipts walks: each from the one before,
\* so an end-of-month anchor is clamped once and for all
BillingDates(subscription, start, end) ==
    LET step == ServiceMonths[subscription.interval]
        n == Max({0, MonthNo(end) - MonthNo(subscription.next) + 1})
        walk[i \in 0..n] == IF i = 0 THEN subscription.next
                            ELSE AddMonths(walk[i - 1], step)
    IN  {b \in {walk[i] : i \in 0..n} : start - 14 <= b /\ b <= end}

\* _build_subscription_receipts: cash lands on the payout date
SubscriptionReceipts(d, start, end) ==
    UNION {{Draft("receipts_subscription", SettlementDate(billing, d.payoutLag),
                  (s.amount * d.successBps) \div Bps, <<s.ref, billing>>) :
                billing \in BillingDates(s, start, end)} :
           s \in {t \in d.subscriptions : t.status = "active" /\ t.amount > 0}}

OtherCategories == {"receipts_other", "tax_sales_vat"}
Dated(items) ==
    {Draft(item.category, item.due, item.amount, <<item.ref, item.due>>) : item \in items}
OtherReceipts(d) == Dated({item \in d.dated : item.category = "receipts_other"})
CommittedDrafts(d) == Dated({item \in d.dated : item.category \notin OtherCategories})

\* taxes are looked for 45 days before the grid: their deposits fall inside it
Lookback == 45

\* mutant: paydays before the grid are forgotten
PayrollStartAtGrid(start) == start

\* the window payroll is looked for in
PayrollStart(start) == start - Lookback

SalariedDates(d, start, end) ==
    PayDates(d.payroll.frequency, d.payroll.anchor, PayrollStart(start), end)

HourlyAnchor(d) ==
    IF d.payroll.hourlyAnchor # NoAnchor THEN d.payroll.hourlyAnchor ELSE d.payroll.anchor

HourlyDates(d, start, end) ==
    IF d.payroll.hourly > 0
    THEN BiweeklyPayDates(HourlyAnchor(d), PayrollStart(start), end) ELSE {}

GrossOn(d, payday, salaried, hourly) ==
    (IF payday \in salaried THEN d.payroll.salaried ELSE 0)
      + (IF payday \in hourly THEN d.payroll.hourly ELSE 0)

\* _build_payroll: salaried, hourly, the separately dated tax deposit, benefits
PayrollDrafts(d, start, end) ==
    LET salaried == SalariedDates(d, start, end)
        hourly == HourlyDates(d, start, end)
    IN  {Draft("payroll_salaried", p, -d.payroll.salaried, <<"pay", p>>) : p \in salaried}
        \cup {Draft("payroll_hourly", p, -d.payroll.hourly, <<"pay", p>>) : p \in hourly}
        \cup {Draft("payroll_taxes_benefits", DepositDate(p, d.payroll.schedule),
                    -((GrossOn(d, p, salaried, hourly) * d.payroll.taxBps) \div Bps),
                    <<"tax", p>>) : p \in salaried \cup hourly}
        \cup {Draft("payroll_taxes_benefits", p, -d.payroll.benefits, <<"benefits", p>>) :
                p \in salaried}

\* the run a payable is paid in: the first on or after its due date, else the first
RunFor(payable, runs) ==
    LET candidates == {run \in runs : run >= payable.due}
    IN  IF candidates # {} THEN Min(candidates) ELSE Min(runs)

\* _build_ap
PayableDrafts(d, start, end) ==
    LET runs == ApRunDates(start, end, d.apWeekday)
    IN  IF runs = {} THEN {}
        ELSE {Draft("ap_trade", RunFor(p, runs), -p.open, <<p.ref, p.due>>) :
                 p \in {q \in d.payables : q.open > 0}}

\* _build_rent, _build_taxes
RentDrafts(d, start, end) ==
    {Draft("rent_leases", due, -d.rent, <<"rent", due>>) :
        due \in {x \in MonthlyDates(start, end, d.rentDay) : d.rent # 0}}
TaxDrafts(d, start, end) ==
    {Draft("tax_income_estimated", due, -d.quarterlyTax, <<"est-tax", due>>) :
        due \in {x \in QuarterlyEstimatedTaxDates(start, end) : d.quarterlyTax > 0}}
    \cup Dated({item \in d.dated : item.category = "tax_sales_vat"})

\* one service date of one facility: interest, and the instalment if one falls due
ServiceDrafts(f, due) ==
    {Draft("debt_interest", due,
           -AccruedInterest(f.drawn, f.rateBps, 30 * ServiceMonths[f.frequency]), <<f.id, due>>)}
    \cup {Draft("debt_principal", due, -principal, <<f.id, due>>) :
             principal \in {amount \in {f.principal} : amount > 0}}

\* _build_debt_service
DebtDrafts(d, start, end) ==
    UNION {UNION {ServiceDrafts(f, due) :
                  due \in DebtServiceDates(f.first, start, end, f.frequency)} :
           f \in d.debt}

\* _DraftBuilder.add: nothing that is zero or outside the horizon
Kept(drafts, start) ==
    {m \in drafts : m.amount # 0 /\ start <= m.date /\ m.date <= HorizonEnd(start)}

AllDrafts(d, start) ==
    LET end == HorizonEnd(start) IN
    TradeReceipts(d, start) \cup SubscriptionReceipts(d, start, end)
      \cup OtherReceipts(d) \cup CommittedDrafts(d) \cup PayrollDrafts(d, start, end)
      \cup PayableDrafts(d, start, end) \cup RentDrafts(d, start, end)
      \cup TaxDrafts(d, start, end)
      \cup DebtDrafts(d, start, end)

(***************************************************************************)
(* Assembly.                                                               *)
(***************************************************************************)
SumAmounts(drafts) == SumOver([m \in drafts |-> m.amount], drafts)

\* the cells of a version: an override replaces what the engine computed
CellsOf(drafts, start, over) ==
    [cell \in Categories \X Weeks |->
        IF cell \in DOMAIN over THEN over[cell]
        ELSE SumAmounts({m \in drafts :
                            m.category = cell[1] /\ WeekIndex(m.date, start) = cell[2]})]

WeekTotal(cells, w) ==
    SumOver([c \in Categories |-> cells[<<c, w>>]], Categories)

\* closing_cash_by_week: a running balance
ClosingOf(cells, open) ==
    LET total == [w \in Weeks |-> WeekTotal(cells, w)]
    IN  [w \in Weeks |-> open + SumOver(total, 1..w)]

\* build
Build(d, start, open, over) ==
    LET drafts == Kept(AllDrafts(d, start), start)
        cells == CellsOf(drafts, start, over)
    IN  [drafts |-> drafts, cells |-> cells, closing |-> ClosingOf(cells, open)]

(***************************************************************************)
(* The weekly life of a forecast.                                          *)
(***************************************************************************)
NoOverrides == <<>>

ForecastInit ==
    /\ drivers \in DriverSets
    /\ monday \in FirstMondays
    /\ opening = drivers.opening
    /\ overrides = NoOverrides
    /\ rolls = 0
    /\ grid = Build(drivers, monday, opening, overrides)

\* a person replaces one cell and the version is built again
Override(cell, amount) ==
    /\ cell \notin DOMAIN overrides
    /\ overrides' = [c \in DOMAIN overrides \cup {cell} |->
                        IF c = cell THEN amount ELSE overrides[c]]
    /\ grid' = Build(drivers, monday, opening, overrides')
    /\ UNCHANGED <<drivers, monday, opening, rolls>>

\* what a roll keeps of the overrides: nothing
RolledOverrides == NoOverrides

\* roll_forward, then build: drop week 1, add a week, reopen at the cash the caller names
RollForward(openingCash) ==
    /\ rolls < Rolls
    /\ monday' = monday + 7
    /\ opening' = openingCash
    /\ overrides' = RolledOverrides
    /\ rolls' = rolls + 1
    /\ grid' = Build(drivers, monday', opening', overrides')
    /\ UNCHANGED drivers

ForecastNext ==
    \/ \E cell \in OverrideCells, amount \in OverrideAmounts : Override(cell, amount)
    \/ \E cash \in OpeningBalances \cup {grid.closing[1]} : RollForward(cash)

ForecastSpec == ForecastInit /\ [][ForecastNext]_ForecastVars

==============================================================================
