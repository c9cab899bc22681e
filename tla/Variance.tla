------------------------------- MODULE Variance ------------------------------
(***************************************************************************)
(* backend/finance/variance.py and materiality.py: the two bridges the     *)
(* treasurer opens first, over the versions Forecast builds.  A version is *)
(* [start, cells]; a bridge is its rows, of which at most one, the last,   *)
(* sums what is below the threshold, and the closing variance.             *)
(***************************************************************************)
EXTENDS Forecast

CONSTANTS Materiality,  \* the policy's [absolute, pctBps]
          MonthlyOpex,
          Settled,      \* what the closed week settled at, by category
          MaxPeriods    \* bound: instalments of a loan

\* how far before and after the grid a schedule without a window is looked at
Far == 90

ASSUME VarianceAssumption ==
    /\ Horizon >= 2   \* or forecast_vs_prior finds no shared week, and raises
    /\ \A m \in FirstMondays : m >= Far
    /\ \A c \in DOMAIN Settled : Settled[c] \in Int
    /\ Materiality.absolute \in Nat /\ Materiality.pctBps \in 0..Bps
    /\ MonthlyOpex \in Nat
    /\ DOMAIN Settled \subseteq Categories
    /\ MaxPeriods \in Nat \ {0}

\* resolve_threshold: the lesser of the two limbs
ResolveThreshold == Min({Materiality.absolute, (MonthlyOpex * Materiality.pctBps) \div Bps})

\* is_material: the sign is irrelevant
IsMaterial(amount) == Magnitude(amount) >= ResolveThreshold

BridgeLine(category, forecast, comparator, variance) ==
    [category |-> category, forecast |-> forecast, comparator |-> comparator,
     variance |-> variance, material |-> IsMaterial(variance)]

Immaterial == "immaterial (below threshold)"

Total(lines, field) == SumOver([line \in lines |-> line[field]], lines)

\* _gate: the material lines, and one line for all the others
Gate(lines) ==
    LET small == {line \in lines : ~line.material}
    IN  (lines \ small) \cup
        (IF small = {} THEN {}
         ELSE {[category |-> Immaterial, forecast |-> Total(small, "forecast"),
                comparator |-> Total(small, "comparator"),
                variance |-> Total(small, "variance"), material |-> FALSE]})

Bridge(lines, weekEnding) ==
    [rows |-> Gate(lines), weekEnding |-> weekEnding, closing |-> Total(lines, "variance")]

\* actual_vs_forecast: a category that did not settle settled at zero
ActualVsForecast(version, actual) ==
    LET w == (actual.weekStart - version.start) \div 7 + 1
        settled(c) == IF c \in DOMAIN actual.byCategory THEN actual.byCategory[c] ELSE 0
    IN  Bridge({BridgeLine(c, version.cells[<<c, w>>], settled(c),
                           settled(c) - version.cells[<<c, w>>]) : c \in Categories},
               actual.weekStart + 6)

WeekStarts(version) == {version.start + 7 * (w - 1) : w \in Weeks}

Over(version, category, weeks) ==
    SumOver([day \in weeks |-> version.cells[<<category, WeekIndex(day, version.start)>>]], weeks)

\* mutant: week 1 against week 1
ForecastVsPriorByIndex(current, prior) ==
    Bridge({LET now == Over(current, c, WeekStarts(current) \ {current.start + 7 * (Horizon - 1)})
                before == Over(prior, c, WeekStarts(prior) \ {prior.start + 7 * (Horizon - 1)})
            IN  BridgeLine(c, now, before, now - before) : c \in Categories},
           Max(WeekStarts(current)) + 6)

\* forecast_vs_prior: by calendar week, over the weeks the two versions share
ForecastVsPrior(current, prior) ==
    LET shared == WeekStarts(current) \cap WeekStarts(prior)
    IN  Bridge({LET now == Over(current, c, shared)
                    before == Over(prior, c, shared)
                IN  BridgeLine(c, now, before, now - before) : c \in Categories},
               Max(shared) + 6)

\* assert_ties
Ties(bridge) == Total(bridge.rows, "variance") = bridge.closing

------------------------------------------------------------------------------
(* Properties *)

\* The day is far enough from the end of every month.
PaidInItsMonth(dayOfMonth) == dayOfMonth + MaxClosedRun <= 29

\* Whatever the window, the engine finds exactly the dates the calendar holds for
\* rent, estimated tax, semi-monthly pay and payment runs: a date moved by a
\* holiday across the edge of the horizon is neither lost nor invented.  Two are
\* lost and so excepted: rent due so late in a month that it is paid in the next,
\* and a payment run on a closed Monday, paid on the Friday before.
SchedulesAreWindowIndependent ==
    LET start == monday
        end == HorizonEnd(monday)
    IN  /\ PaidInItsMonth(drivers.rentDay) =>
             MonthlyDates(start, end, drivers.rentDay)
               = Within(MonthlyDates(start - Far, end + Far, drivers.rentDay), start, end)
        /\ QuarterlyEstimatedTaxDates(start, end)
             = Within(QuarterlyEstimatedTaxDates(start - Far, end + Far), start, end)
        /\ SemiMonthlyPayDates(start, end)
             = Within(SemiMonthlyPayDates(start - Far, end + Far), start, end)
        /\ drivers.apWeekday # Monday =>
             ApRunDates(start, end, drivers.apWeekday)
               = Within(ApRunDates(start - Far, end + Far, drivers.apWeekday), start, end)

\* Employment tax of at least a minor unit withheld on a salaried payday, however long
\* before the grid, is in the grid when its deposit falls inside the horizon.  A
\* biweekly payday taxed monthly is excepted: one early in a month may be deposited
\* more than 45 days later, beyond the lookback.
PaydaysAreTaxed ==
    LET paydays == PayDates(drivers.payroll.frequency, drivers.payroll.anchor,
                            monday - Far, HorizonEnd(monday))
        due == {p \in paydays : /\ monday <= DepositDate(p, drivers.payroll.schedule)
                                /\ DepositDate(p, drivers.payroll.schedule) <= HorizonEnd(monday)}
        Reached == drivers.payroll.schedule = "monthly" => drivers.payroll.frequency = "semi_monthly"
    IN  Reached /\ drivers.payroll.salaried * drivers.payroll.taxBps >= Bps =>
            \A p \in due : \E m \in grid.drafts : m.reference = <<"tax", p>>

\* Debt service is paid on a business day of the month the loan documents name.
DebtServicedInItsMonth ==
    \A f \in drivers.debt :
        \A date \in {m.date : m \in {n \in grid.drafts :
                                        n.category = "debt_interest" /\ n.reference[1] = f.id}} :
            /\ IsBusinessDay(date)
            /\ \E due \in Anniversaries(f.first, f.frequency, monday, HorizonEnd(monday)) :
                    MonthNo(due) = MonthNo(date) /\ Magnitude(due - date) < MaxClosedRun

\* No obligation is lost at an edge of the horizon or moved out of its month.
EveryObligationFallsDue == PaydaysAreTaxed /\ DebtServicedInItsMonth

\* An invoice's expected cash is split over its lag modes without a minor unit
\* created or lost, and no mode is off its exact share by a whole unit.
InvoicesConserved ==
    \A invoice \in drivers.invoices :
        LET modes == InvoiceDrafts(drivers, invoice, monday)
            expected == ExpectedOf(drivers, invoice, monday)
            mixture == MixtureFor(drivers.curve, invoice.segment)
        IN  /\ SumAmounts(modes) = expected
            /\ \A m \in modes : m.reference[2] # 0 =>
                    Magnitude(m.amount * Bps - expected * mixture[m.reference[2]].weight) < Bps

\* A week's receipts add up however many of its days are holidays, and none
\* lands on one.
WeeksConserved ==
    \A w \in Weeks :
        LET parts == DistributeOverWeek(drivers.opening + w, monday + 7 * (w - 1))
        IN  /\ SumOver([i \in DOMAIN parts |-> parts[i].amount], DOMAIN parts) = drivers.opening + w
            /\ \A i \in DOMAIN parts : IsBusinessDay(parts[i].date)

\* A loan is repaid to the last minor unit, no instalment differs from another by
\* more than one, and it is paid in dates that only go forward.
LoansConserved ==
    \A f \in drivers.debt, periods \in 1..MaxPeriods :
        LET rows == AmortisationSchedule(f.drawn, f.first, periods, f.rateBps, f.frequency)
        IN  /\ rows[periods].closing = 0
            /\ \A i, j \in DOMAIN rows :
                  /\ Magnitude(rows[i].principal - rows[j].principal) <= 1
                  /\ i < j => rows[i].due < rows[j].due /\ rows[j].interest >= 0

\* Splitting an amount, over lag modes, days or instalments, conserves it.
CashIsConserved == InvoicesConserved /\ WeeksConserved /\ LoansConserved

\* Drivers that do not age: no open items, pay dates tied to the month, rent and
\* payouts that no closed run carries past the week they are looked for in.
ScheduleOnly(d) ==
    /\ PaidInItsMonth(d.rentDay) /\ d.payoutLag <= 5
    /\ d.invoices = {} /\ d.payables = {}
    /\ d.payroll.frequency = "semi_monthly" /\ d.payroll.hourly = 0

This == [start |-> monday, cells |-> grid.cells]

\* The rows of both bridges add up to their closing variance, and that is the
\* change in the balances the two versions, or the version and the bank, show
\* for the end of the same calendar week, apart from what the new version was
\* reopened at beside the close of week 1.
BridgesTie ==
    LET revision == ForecastVsPrior(This', This)
        surprise == ActualVsForecast(This, [weekStart |-> monday, byCategory |-> Settled])
    IN  /\ Ties(revision) /\ Ties(surprise)
        /\ revision.closing = (grid'.closing[Horizon - 1] - opening')
                                  - (grid.closing[Horizon] - grid.closing[1])
        /\ surprise.closing = SumOver(Settled, DOMAIN Settled) - (grid.closing[1] - opening)

\* No debt service due after the horizon is brought forward into it: the next version
\* is the first to see such a one (the last of May, when that is Memorial Day).
NoneBroughtForward ==
    LET end == HorizonEnd(monday) IN
    \A f \in drivers.debt : \A due \in Anniversaries(f.first, f.frequency, monday, end + 7) :
        due > end => Adjust(due, "modified_following") > end

\* With drivers that are pure schedules and nothing overridden, the weeks two
\* versions share are not restated: no category moves.
NothingRestated ==
    ScheduleOnly(drivers) /\ NoneBroughtForward /\ overrides = NoOverrides =>
        \A row \in ForecastVsPrior(This', This).rows : row.variance = 0

\* An override holds for the version it was made on and for that version alone.
OverridesLapse ==
    grid'.cells = Build(drivers, monday', opening', NoOverrides).cells

\* What a roll changes in the weeks both versions cover, the bridges explain; and
\* nothing changes but what aged or was overridden.
RollIsExplained ==
    [][rolls' = rolls + 1 => BridgesTie /\ NothingRestated /\ OverridesLapse]_ForecastVars

==============================================================================
