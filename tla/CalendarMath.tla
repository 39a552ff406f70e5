---------------------------- MODULE CalendarMath ----------------------------
(***************************************************************************)
(* The reporting periods of the statutory calendar: months, and the        *)
(* quarters, half years and years counted from the end of a fiscal year.   *)
(* (services/api/app/services/calendar.py)                                 *)
(*                                                                         *)
(* Every date the code does arithmetic on is the first of a month: a       *)
(* fiscal year starts on one, a block starts whole months after it, and a  *)
(* period ends on the day before the next one starts.  So a date is its    *)
(* year and month here, a period runs from its first to its last month,    *)
(* and the clamping of days in add_months never happens.                   *)
(***************************************************************************)
EXTENDS Integers

Month == 1 .. 12
Date == [year : Int, month : Month]

\* The cadences that have periods, and how many months a period has.
Regular == {"monthly", "quarterly", "half_yearly", "annual"}
Months == [c \in Regular |-> CASE c = "monthly" -> 1
                               [] c = "quarterly" -> 3
                               [] c = "half_yearly" -> 6
                               [] c = "annual" -> 12]

\* The number of a month on a line of months, and the month of a number.
Index(d) == 12 * d.year + d.month - 1
DateOf(i) == [year |-> i \div 12, month |-> (i % 12) + 1]

AddMonths(anchor, months) ==
    LET index == anchor.month - 1 + months
    IN [year |-> anchor.year + index \div 12, month |-> (index % 12) + 1]

FiscalPosition(month, yearEnd) == (month - yearEnd - 1) % 12

FiscalYearStart(anchor, yearEnd) ==
    LET year == IF anchor.month > yearEnd THEN anchor.year ELSE anchor.year - 1
    IN AddMonths([year |-> year, month |-> yearEnd], 1)

\* A period that starts on the first of "start" and has the given months.
Spanning(start, months) ==
    [start |-> start, end |-> AddMonths(start, months - 1)]

\* _block_period.
BlockPeriod(anchor, yearEnd, months) ==
    LET block == FiscalPosition(anchor.month, yearEnd) \div months
    IN Spanning(AddMonths(FiscalYearStart(anchor, yearEnd), block * months), months)

PeriodContaining(anchor, cadence, yearEnd) ==
    CASE cadence = "monthly" -> Spanning(anchor, 1)
      [] cadence = "quarterly" -> BlockPeriod(anchor, yearEnd, 3)
      [] cadence = "half_yearly" -> BlockPeriod(anchor, yearEnd, 6)
      [] cadence = "annual" -> Spanning(FiscalYearStart(anchor, yearEnd), 12)

\* The default window of the calendar: from the start of the fiscal year, 18
\* months.
DefaultWindow(today, yearEnd) == Spanning(FiscalYearStart(today, yearEnd), 18)

\* The k-th period of the walk of periods_in_window, which goes from the period
\* of the window's first date to the next and the next.
Cursor(window, cadence, yearEnd, k) ==
    LET first == PeriodContaining(window.start, cadence, yearEnd)
    IN PeriodContaining(AddMonths(first.start, k * Months[cadence]), cadence, yearEnd)

\* It takes at most "limit" steps (_MAX_PERIODS) and ends when a period starts
\* after the window.
PeriodsInWindow(window, cadence, yearEnd, limit) ==
    {Cursor(window, cadence, yearEnd, k) :
        k \in {k \in 0 .. limit - 1 :
                 Index(Cursor(window, cadence, yearEnd, k).start) <= Index(window.end)}}
=============================================================================
