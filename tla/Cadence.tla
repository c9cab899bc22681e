------------------------------- MODULE Cadence -------------------------------
(***************************************************************************)
(* backend/finance/cadence.py: when money actually moves.                  *)
(*                                                                         *)
(* A date is a day number.  Day 0 is Monday 1 January 2024 and month 0 is  *)
(* January 2024, so the weekday of day n is n % 7, Monday being 0 as in    *)
(* Python.  The Gregorian calendar of Python's datetime is exact from 2024 *)
(* to 2099.  What the code returns as tuple(sorted(set(dates))) is the set *)
(* of those dates.                                                         *)
(***************************************************************************)
EXTENDS Money

CONSTANTS LastYear,      \* bank holidays are known from 2024 to this year
          MaxClosedRun   \* no calendar is closed for this many days in a row

ASSUME CadenceAssumption ==
    /\ LastYear \in 2024..2099
    /\ MaxClosedRun \in Nat /\ MaxClosedRun >= 7

Monday == 0
Wednesday == 2
Thursday == 3
Friday == 4
Saturday == 5
Sunday == 6

Weekday(n) == n % 7

(***************************************************************************)
(* datetime.date: month lengths, the month a day lies in.                  *)
(***************************************************************************)
FirstOf(m) ==
    LET y == m \div 12
        k == m % 12
    IN  365 * y + (y + 3) \div 4
          + <<0, 31, 59, 90, 120, 151, 181, 212, 243, 273, 304, 334>>[k + 1]
          + (IF k > 1 /\ y % 4 = 0 THEN 1 ELSE 0)

MonthNo(n) ==
    CHOOSE m \in (n \div 31)..(n \div 28 + 1) : FirstOf(m) <= n /\ n < FirstOf(m + 1)

DayOfMonth(n) == n - FirstOf(MonthNo(n)) + 1

DateOf(m, d) == FirstOf(m) + d - 1

JanuaryOf(year) == 12 * (year - 2024)

\* _month_end, on the month of a day
MonthEnd(n) == FirstOf(MonthNo(n) + 1) - 1

(***************************************************************************)
(* US federal bank holidays.                                               *)
(***************************************************************************)
NthWeekday(m, weekday, nth) ==
    FirstOf(m) + ((weekday - Weekday(FirstOf(m))) % 7) + 7 * (nth - 1)

LastWeekday(m, weekday) ==
    LET last == FirstOf(m + 1) - 1 IN last - ((Weekday(last) - weekday) % 7)

\* A Sunday holiday is observed on Monday, a Saturday holiday not at all.
FedObserved(n) ==
    CASE Weekday(n) = Sunday -> {n + 1}
      [] Weekday(n) = Saturday -> {}
      [] OTHER -> {n}

FederalHolidays(year) ==
    LET jan == JanuaryOf(year) IN
    { NthWeekday(jan, Monday, 3), NthWeekday(jan + 1, Monday, 3),
      LastWeekday(jan + 4, Monday), NthWeekday(jan + 8, Monday, 1),
      NthWeekday(jan + 9, Monday, 2), NthWeekday(jan + 10, Thursday, 4) }
    \cup UNION { FedObserved(DateOf(jan + f[1], f[2])) :
                   f \in {<<0, 1>>, <<5, 19>>, <<6, 4>>, <<10, 11>>, <<11, 25>>} }

BankHolidays == UNION { FederalHolidays(year) : year \in 2024..LastYear }

(***************************************************************************)
(* BusinessCalendar.                                                       *)
(***************************************************************************)
IsBusinessDay(n) == Weekday(n) \notin {Saturday, Sunday} /\ n \notin BankHolidays

NextBusinessDay(n) == Min({d \in (n + 1)..(n + MaxClosedRun) : IsBusinessDay(d)})

PreviousBusinessDay(n) == Max({d \in (n - MaxClosedRun)..(n - 1) : IsBusinessDay(d)})

Adjust(n, convention) ==
    IF convention = "none" \/ IsBusinessDay(n) THEN n
    ELSE CASE convention = "following" -> NextBusinessDay(n)
           [] convention = "preceding" -> PreviousBusinessDay(n)
           [] OTHER -> IF MonthNo(NextBusinessDay(n)) = MonthNo(n)
                       THEN NextBusinessDay(n)
                       ELSE PreviousBusinessDay(n)

AddBusinessDays(n, count) ==
    IF count = 0
    THEN IF IsBusinessDay(n) THEN n ELSE NextBusinessDay(n)
    ELSE CHOOSE d \in (n + 1)..(n + count * MaxClosedRun) :
            /\ IsBusinessDay(d)
            /\ Cardinality({e \in (n + 1)..d : IsBusinessDay(e)}) = count

(***************************************************************************)
(* Weeks and months.                                                       *)
(***************************************************************************)
WeekStart(n) == n - Weekday(n)

\* 1-based; 0 when the day falls before the grid
WeekIndex(n, firstWeekStart) ==
    IF WeekStart(n) < firstWeekStart THEN 0
    ELSE (WeekStart(n) - firstWeekStart) \div 7 + 1

AddMonths(n, months) ==
    LET m == MonthNo(n) + months
        last == FirstOf(m + 1) - FirstOf(m)
    IN  DateOf(m, Min({DayOfMonth(n), last}))

AddMonthsEom(n, months) ==
    IF n = MonthEnd(n)
    THEN FirstOf(MonthNo(n) + months + 1) - 1
    ELSE AddMonths(n, months)

\* mutant: a month that began before the window is left out
MonthStartsInside(start, end) ==
    {m \in MonthNo(start)..MonthNo(end) : start <= FirstOf(m)}

\* the months from the one containing start through end
MonthStarts(start, end) == IF end < start THEN {} ELSE MonthNo(start)..MonthNo(end)

Within(dates, start, end) == {d \in dates : start <= d /\ d <= end}

(***************************************************************************)
(* Payroll.                                                                *)
(***************************************************************************)
SemiMonthlyPayDates(start, end) ==
    Within(UNION { {Adjust(DateOf(m, 15), "preceding"),
                    Adjust(FirstOf(m + 1) - 1, "preceding")} :
                   m \in MonthStarts(start, end) }, start, end)

\* the last occurrence at or before start, when the anchor lies after it
BiweeklyCursor(anchor, start) ==
    IF anchor > start THEN anchor - 14 * ((anchor - start) \div 14 + 1) ELSE anchor

BiweeklyPayDates(anchor, start, end) ==
    LET cursor == BiweeklyCursor(anchor, start)
        raw == {d \in (start - 13)..end : d >= cursor /\ (d - cursor) % 14 = 0}
    IN  Within({Adjust(d, "preceding") : d \in raw}, start, end)

PayDates(frequency, anchor, start, end) ==
    IF frequency = "semi_monthly"
    THEN SemiMonthlyPayDates(start, end)
    ELSE BiweeklyPayDates(anchor, start, end)

\* the deposit of the taxes withheld on one payday
DepositDate(payday, schedule) ==
    LET target == IF Weekday(payday) \in {Wednesday, Thursday, Friday}
                  THEN Wednesday ELSE Friday
        offset == (target - Weekday(payday)) % 7
        due == IF schedule = "monthly"
               THEN DateOf(MonthNo(payday) + 1, 15)
               ELSE payday + (IF offset = 0 THEN 7 ELSE offset)
    IN  Adjust(due, "following")

(***************************************************************************)
(* Payment runs, rent, tax, debt service.                                  *)
(***************************************************************************)
ApRunDates(start, end, weekday) ==
    Within({Adjust(d, "preceding") : d \in {n \in start..end : Weekday(n) = weekday}},
           start, end)

MonthlyDates(start, end, dayOfMonth) ==
    Within({Adjust(DateOf(m, Min({dayOfMonth, FirstOf(m + 1) - FirstOf(m)})), "following") :
                m \in MonthStarts(start, end)}, start, end)

QuarterlyEstimatedTaxDates(start, end) ==
    Within({Adjust(DateOf(m, 15), "following") :
                m \in {k \in (MonthNo(start) - 12)..(MonthNo(end) + 12) :
                          k >= 0 /\ k % 12 \in {3, 5, 8, 11}}}, start, end)

ServiceMonths == [monthly |-> 1, quarterly |-> 3, semiannual |-> 6, annual |-> 12]

\* offsets are measured from the anchor, never from the previous date
Anniversary(anchor, frequency, period) ==
    AddMonthsEom(anchor, period * ServiceMonths[frequency])

\* periods near the window: the walk starts at the last one at or before start
Anniversaries(anchor, frequency, start, end) ==
    LET step == ServiceMonths[frequency]
        low == (MonthNo(start) - MonthNo(anchor)) \div step - 1
        high == (MonthNo(end) - MonthNo(anchor)) \div step + 1
    IN  {Anniversary(anchor, frequency, p) :
            p \in {q \in low..high : MonthNo(anchor) + q * step >= 0}}

DebtServiceDates(anchor, start, end, frequency) ==
    LET all == Anniversaries(anchor, frequency, start, end)
        first == Max({0} \cup {d \in all : d <= start})
    IN  Within({Adjust(d, "modified_following") :
                    d \in {e \in all : first <= e /\ e <= end}}, start, end)

(***************************************************************************)
(* Settlement.                                                             *)
(***************************************************************************)
SettlementDate(initiated, lag) == AddBusinessDays(initiated, lag)

DEFAULT_RECEIPT_WEIGHTS_BPS == <<2200, 2100, 2000, 1900, 1800>>

BusinessDaysBetween(start, end) == {d \in start..end : IsBusinessDay(d)}

\* weekday_weights: Monday's weight first
WeekdayWeights(days) ==
    [i \in DOMAIN days |-> DEFAULT_RECEIPT_WEIGHTS_BPS[Weekday(days[i]) + 1]]

\* distribute_over_week: a week's receipts over the days banks are open
DistributeOverWeek(amount, weekStart) ==
    LET days == SortedBy(BusinessDaysBetween(weekStart, weekStart + 6), LAMBDA a, b : a < b)
        parts == Allocate(amount, WeekdayWeights(days))
    IN  [i \in DOMAIN days |-> [date |-> days[i], amount |-> parts[i]]]

==============================================================================
