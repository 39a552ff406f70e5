----------------------------- MODULE MCCalendar -----------------------------
(***************************************************************************)
(* Instances of Calendar for TLC.  Time is counted in months from April    *)
(* 2026, the start of a fiscal year that ends with March, and cut by       *)
(* CalendarMath; a period that sticks out of the instance is cut there.    *)
(***************************************************************************)
EXTENDS Calendar, TLC

CONSTANTS l1, q1

Math == INSTANCE CalendarMath
April == [year |-> 2026, month |-> 4]
March == 3
YearEnds == {March, 4}
Cadences == {"monthly", "quarterly"}

MonthAt(t) == Math!AddMonths(April, t)
At(d) == Math!Index(d) - Math!Index(April)
Inside(t) == IF t < 0 THEN 0 ELSE IF t > LastDay THEN LastDay ELSE t
Cut(p) == [start |-> Inside(At(p.start)), end |-> Inside(At(p.end))]
Cuts == [c \in Cadences |-> [y \in YearEnds |->
            [t \in Time |-> Cut(Math!PeriodContaining(MonthAt(t), c, y))]]]

\* The walk of periods_in_window finds the periods of all months of a window,
\* of the default one too, whatever the fiscal year end.
Walked(w, c, end) == Math!PeriodsInWindow(w, c, end, 30)
Found(w, c, end) ==
    {Math!PeriodContaining(Math!DateOf(i), c, end) : i \in Math!Index(w.start) .. Math!Index(w.end)}
ASSUME WalkFindsAll ==
    \A c \in Math!Regular, end \in Math!Month, t \in 0 .. 11 :
        \A w \in {Math!DefaultWindow(MonthAt(t), end)}
                    \cup {[start |-> MonthAt(t), end |-> MonthAt(t + n)] : n \in {0, 4}} :
            Walked(w, c, end) = Found(w, c, end)

\* The lease runs from the third month to the fourth.
Terms == [l \in Lease |-> [start |-> 2, end |-> 3]]
From0 == [l \in Lease |-> [start |-> 0, end |-> LastDay]]
Def(c, y, active) == [recurrence |-> c, yearEnd |-> y, dueDays |-> 1, types |-> {l1},
                      minerals |-> {l1}, active |-> active]
Monthly == {Def("monthly", March, TRUE)}
Definitions == {Def("monthly", March, TRUE), Def("monthly", March, FALSE),
                Def("quarterly", 4, TRUE), Def("one_time", March, TRUE)}
Whole == {[start |-> 0, end |-> LastDay]}
Windows == Whole \cup {[start |-> 2, end |-> 2]}
=============================================================================
