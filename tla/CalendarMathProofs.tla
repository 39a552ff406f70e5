------------------------- MODULE CalendarMathProofs -------------------------
(***************************************************************************)
(* The periods of a cadence tile time, whatever the fiscal year end.       *)
(***************************************************************************)
EXTENDS CalendarMath, TLAPS

\* Dates of the same number are the same.
LEMMA IndexInjective ==
    ASSUME NEW d \in Date, NEW e \in Date, Index(d) = Index(e)
    PROVE  d = e
<1>1. /\ d.year \in Int /\ d.month \in 1 .. 12 /\ e.year \in Int /\ e.month \in 1 .. 12
      /\ d = [year |-> d.year, month |-> d.month]
      /\ e = [year |-> e.year, month |-> e.month]
  BY DEF Date, Month
<1>2. 12 * d.year + d.month = 12 * e.year + e.month
  BY <1>1 DEF Index
<1>3. d.year = e.year /\ d.month = e.month
  BY <1>1, <1>2
<1> QED
  BY <1>1, <1>3

\* add_months moves by as many months as it is told.
LEMMA AddMonthsIndex ==
    ASSUME NEW d \in Date, NEW k \in Int
    PROVE  /\ AddMonths(d, k) \in Date
           /\ Index(AddMonths(d, k)) = Index(d) + k
  BY DEF Date, Month, Index, AddMonths

\* A fiscal year starts in the month after its end and at most eleven months
\* before any date it contains.
LEMMA FiscalYearIndex ==
    ASSUME NEW d \in Date, NEW yearEnd \in Month
    PROVE  /\ FiscalYearStart(d, yearEnd) \in Date
           /\ Index(FiscalYearStart(d, yearEnd)) = Index(d) - ((Index(d) - yearEnd) % 12)
           /\ FiscalPosition(d.month, yearEnd) = (Index(d) - yearEnd) % 12
<1> DEFINE year == IF d.month > yearEnd THEN d.year ELSE d.year - 1
           last == [year |-> year, month |-> yearEnd]
<1>0. d.year \in Int /\ d.month \in Month
  BY DEF Date
<1>1. last \in Date
  BY <1>0 DEF Date
<1>2. /\ FiscalYearStart(d, yearEnd) = AddMonths(last, 1)
      /\ Index(last) = 12 * year + yearEnd - 1
  BY DEF FiscalYearStart, Index
<1>3. Index(FiscalYearStart(d, yearEnd)) = 12 * year + yearEnd
  BY <1>0, <1>1, <1>2, AddMonthsIndex DEF Month
<1>4. (Index(d) - yearEnd) % 12 = IF d.month > yearEnd THEN d.month - 1 - yearEnd
                                                      ELSE d.month - 1 - yearEnd + 12
  BY <1>0 DEF Index, Month
<1>5. FiscalPosition(d.month, yearEnd) = (Index(d) - yearEnd) % 12
  BY <1>0 DEF Index, Month, FiscalPosition
<1>6. FiscalYearStart(d, yearEnd) \in Date
  BY <1>1, <1>2, AddMonthsIndex
<1> QED
  BY <1>0, <1>3, <1>4, <1>5, <1>6 DEF Index, Month

\* Where the period of a date starts and ends.
LEMMA PeriodIndex ==
    ASSUME NEW d \in Date, NEW c \in Regular, NEW yearEnd \in Month
    PROVE  LET p == PeriodContaining(d, c, yearEnd)
           IN /\ p.start \in Date /\ p.end \in Date
              /\ p = [start |-> p.start, end |-> p.end]
              /\ Index(p.start) = Index(d) - ((Index(d) - yearEnd) % Months[c])
              /\ Index(p.end) = Index(p.start) + Months[c] - 1
<1> DEFINE i == Index(d)
           y == FiscalYearStart(d, yearEnd)
           pos == FiscalPosition(d.month, yearEnd)
           p == PeriodContaining(d, c, yearEnd)
<1>0. i \in Int /\ yearEnd \in Int
  BY DEF Date, Month, Index
<1>1. y \in Date /\ Index(y) = i - pos /\ pos = (i - yearEnd) % 12
  BY FiscalYearIndex
<1>2. ASSUME NEW n \in 1 .. 12, NEW s \in Date, p = Spanning(s, n)
      PROVE  /\ p.start = s /\ p.start \in Date /\ p.end \in Date
             /\ p = [start |-> p.start, end |-> p.end]
             /\ Index(p.end) = Index(p.start) + n - 1
  <2> HIDE DEF p
  <2>1. p = [start |-> s, end |-> AddMonths(s, n - 1)]
    BY <1>2 DEF Spanning
  <2>2. AddMonths(s, n - 1) \in Date /\ Index(AddMonths(s, n - 1)) = Index(s) + (n - 1)
    BY n - 1 \in Int, AddMonthsIndex
  <2>3. Index(s) \in Int
    BY DEF Date, Month, Index
  <2> QED
    BY <2>1, <2>2, <2>3
<1>3. ASSUME NEW n \in {3, 6}, p = Spanning(AddMonths(y, (pos \div n) * n), n), Months[c] = n
      PROVE  /\ p.start \in Date /\ p.end \in Date
             /\ p = [start |-> p.start, end |-> p.end]
             /\ Index(p.start) = i - ((i - yearEnd) % Months[c])
             /\ Index(p.end) = Index(p.start) + Months[c] - 1
  <2>1. (pos \div n) * n \in Int /\ pos - (pos \div n) * n = (i - yearEnd) % n
    <3> HIDE DEF i, pos
    <3>1. CASE n = 3
      BY <1>0, <1>1, <3>1
    <3>2. CASE n = 6
      BY <1>0, <1>1, <3>2
    <3> QED
      BY <3>1, <3>2
  <2> DEFINE s == AddMonths(y, (pos \div n) * n)
  <2>2. s \in Date /\ Index(s) = Index(y) + (pos \div n) * n
    BY <1>1, <2>1, AddMonthsIndex
  <2>3. n \in 1 .. 12
    OBVIOUS
  <2> HIDE DEF p, i, pos, s, y
  <2>4. Index(s) = i - ((i - yearEnd) % n)
    BY <1>0, <1>1, <2>1, <2>2, <2>3
  <2>5. p = Spanning(s, n)
    BY <1>3 DEF s
  <2> QED
    BY <1>2, <1>3, <2>2, <2>3, <2>4, <2>5
<1>4. CASE c = "monthly"
  <2>1. p = Spanning(d, 1) /\ Months[c] = 1
    BY <1>4 DEF PeriodContaining, Months, Regular
  <2>2. (i - yearEnd) % 1 = 0
    <3> HIDE DEF i
    <3> QED
      BY <1>0
  <2>3. p.start = d /\ p.end \in Date /\ p = [start |-> p.start, end |-> p.end]
        /\ Index(p.end) = Index(p.start) + 1 - 1
    BY <1>2, <2>1
  <2> QED
    BY <1>0, <2>1, <2>2, <2>3
<1>5. CASE c \in {"quarterly", "half_yearly"}
  <2>1. CASE c = "quarterly"
    <3>1. p = Spanning(AddMonths(y, (pos \div 3) * 3), 3) /\ Months[c] = 3
      BY <2>1 DEF PeriodContaining, Months, Regular, BlockPeriod
    <3> QED
      BY <1>3, <3>1
  <2>2. CASE c = "half_yearly"
    <3>1. p = Spanning(AddMonths(y, (pos \div 6) * 6), 6) /\ Months[c] = 6
      BY <2>2 DEF PeriodContaining, Months, Regular, BlockPeriod
    <3> QED
      BY <1>3, <3>1
  <2> QED
    BY <1>5, <2>1, <2>2
<1>6. CASE c = "annual"
  <2>1. p = Spanning(y, 12) /\ Months[c] = 12
    BY <1>6 DEF PeriodContaining, Months, Regular
  <2>2. p.start = y /\ p.end \in Date /\ p = [start |-> p.start, end |-> p.end]
        /\ Index(p.end) = Index(p.start) + 12 - 1
    BY <1>1, <1>2, <2>1
  <2> QED
    BY <1>0, <1>1, <2>1, <2>2
<1>7. /\ p.start \in Date /\ p.end \in Date
      /\ p = [start |-> p.start, end |-> p.end]
      /\ Index(p.start) = i - ((i - yearEnd) % Months[c])
      /\ Index(p.end) = Index(p.start) + Months[c] - 1
  BY <1>4, <1>5, <1>6 DEF Regular
<1> QED
  BY <1>7

\* A date lies in its period (services/calendar.py:90).
THEOREM PeriodHasDate ==
    ASSUME NEW d \in Date, NEW c \in Regular, NEW yearEnd \in Month
    PROVE  LET p == PeriodContaining(d, c, yearEnd)
           IN Index(p.start) <= Index(d) /\ Index(d) <= Index(p.end)
<1>1. Index(d) \in Int /\ yearEnd \in Int
  BY DEF Date, Month, Index
<1>2. Months[c] \in {1, 3, 6, 12}
  BY DEF Months, Regular
<1>3. (Index(d) - yearEnd) % Months[c] \in 0 .. Months[c] - 1
  BY <1>1, <1>2
<1> QED
  BY <1>1, <1>2, <1>3, PeriodIndex

\* All the dates of a period have that period, so the periods of a cadence are
\* disjoint and an entry's first day stands for the whole of its period
\* (services/calendar.py:265).
THEOREM PeriodsAgree ==
    ASSUME NEW d \in Date, NEW e \in Date, NEW c \in Regular, NEW yearEnd \in Month,
           Index(PeriodContaining(d, c, yearEnd).start) <= Index(e),
           Index(e) <= Index(PeriodContaining(d, c, yearEnd).end)
    PROVE  PeriodContaining(e, c, yearEnd) = PeriodContaining(d, c, yearEnd)
<1> DEFINE p == PeriodContaining(d, c, yearEnd)
           q == PeriodContaining(e, c, yearEnd)
           n == Months[c]
<1>1. Index(d) \in Int /\ Index(e) \in Int /\ yearEnd \in Int
  BY DEF Date, Month, Index
<1>2. n \in {1, 3, 6, 12}
  BY DEF Months, Regular
<1>3. /\ Index(p.start) = Index(d) - ((Index(d) - yearEnd) % n)
      /\ Index(q.start) = Index(e) - ((Index(e) - yearEnd) % n)
      /\ Index(p.end) = Index(p.start) + n - 1
      /\ Index(q.end) = Index(q.start) + n - 1
      /\ p.start \in Date /\ p.end \in Date /\ q.start \in Date /\ q.end \in Date
      /\ p = [start |-> p.start, end |-> p.end]
      /\ q = [start |-> q.start, end |-> q.end]
  BY PeriodIndex
<1>4. Index(p.start) = Index(q.start)
  <2> HIDE DEF p, q, n
  <2> DEFINE a == Index(d) - yearEnd
             b == Index(e) - yearEnd
  <2>1. a - (a % n) <= b /\ b <= a - (a % n) + n - 1 /\ a \in Int /\ b \in Int
    BY <1>1, <1>2, <1>3 DEF p, n
  <2> HIDE DEF a, b
  <2>2. a - (a % n) = b - (b % n)
    <3>1. CASE n = 1
      BY <2>1, <3>1
    <3>2. CASE n = 3
      BY <2>1, <3>2
    <3>3. CASE n = 6
      BY <2>1, <3>3
    <3>4. CASE n = 12
      BY <2>1, <3>4
    <3> QED
      BY <1>2, <3>1, <3>2, <3>3, <3>4
  <2> QED
    <3>1. Index(p.start) = a - (a % n) + yearEnd /\ Index(q.start) = b - (b % n) + yearEnd
      <4> HIDE DEF p, q, n
      <4>1. a % n \in Int /\ b % n \in Int
        BY <1>2, <2>1
      <4> QED
        BY <1>1, <1>3, <4>1 DEF a, b, p, q, n
    <3>2. a - (a % n) + yearEnd = b - (b % n) + yearEnd
      BY <2>2
    <3> QED
      BY <3>1, <3>2
<1>5. Index(p.end) = Index(q.end)
  BY <1>3, <1>4
<1>6. p.start = q.start /\ p.end = q.end
  BY <1>3, <1>4, <1>5, IndexInjective
<1> QED
  BY <1>3, <1>6

\* The next period starts in the month after a period ends: the walk of
\* periods_in_window leaves no month out (services/calendar.py:142).
THEOREM NextPeriodFollows ==
    ASSUME NEW d \in Date, NEW c \in Regular, NEW yearEnd \in Month
    PROVE  LET p == PeriodContaining(d, c, yearEnd)
               next == PeriodContaining(AddMonths(p.end, 1), c, yearEnd)
           IN next.start = AddMonths(p.end, 1)
<1> DEFINE p == PeriodContaining(d, c, yearEnd)
           e == AddMonths(p.end, 1)
           n == Months[c]
           a == Index(d) - yearEnd
<1>1. Index(d) \in Int /\ yearEnd \in Int
  BY DEF Date, Month, Index
<1>2. n \in {1, 3, 6, 12}
  BY DEF Months, Regular
<1>3. p.start \in Date /\ p.end \in Date /\ Index(p.end) = Index(d) - (a % n) + n - 1
  BY <1>1, <1>2, PeriodIndex
<1>4. e \in Date /\ Index(e) = Index(p.end) + 1
  BY <1>3, AddMonthsIndex
<1>5. /\ PeriodContaining(e, c, yearEnd).start \in Date
      /\ Index(PeriodContaining(e, c, yearEnd).start) = Index(e) - ((Index(e) - yearEnd) % n)
  BY <1>4, PeriodIndex
<1>6. a \in Int /\ Index(e) - yearEnd = a - (a % n) + n
  BY <1>1, <1>2, <1>3, <1>4
<1>7. (Index(e) - yearEnd) % n = 0
  <2> HIDE DEF a, n, e
  <2>1. (a - (a % n) + n) % n = 0
    <3>1. CASE n = 1
      BY <1>6, <3>1
    <3>2. CASE n = 3
      BY <1>6, <3>2
    <3>3. CASE n = 6
      BY <1>6, <3>3
    <3>4. CASE n = 12
      BY <1>6, <3>4
    <3> QED
      BY <1>2, <3>1, <3>2, <3>3, <3>4
  <2> QED
    BY <1>6, <2>1
<1>8. Index(e) \in Int
  BY <1>4 DEF Date, Month, Index
<1>9. Index(PeriodContaining(e, c, yearEnd).start) = Index(e)
  BY <1>5, <1>7, <1>8
<1> QED
  BY <1>4, <1>5, <1>9, IndexInjective

\* A period never straddles the end of a fiscal year: all its dates are in the
\* fiscal year it was counted from (services/calendar.py:111).
THEOREM PeriodInFiscalYear ==
    ASSUME NEW d \in Date, NEW c \in Regular, NEW yearEnd \in Month
    PROVE  LET p == PeriodContaining(d, c, yearEnd)
               y == PeriodContaining(d, "annual", yearEnd)
           IN Index(y.start) <= Index(p.start) /\ Index(p.end) <= Index(y.end)
<1> DEFINE p == PeriodContaining(d, c, yearEnd)
           y == PeriodContaining(d, "annual", yearEnd)
           n == Months[c]
           a == Index(d) - yearEnd
<1>1. Index(d) \in Int /\ yearEnd \in Int /\ a \in Int
  BY DEF Date, Month, Index
<1>2. n \in {1, 3, 6, 12} /\ "annual" \in Regular /\ Months["annual"] = 12
  BY DEF Months, Regular
<1>3. /\ Index(p.start) = Index(d) - (a % n)
      /\ Index(p.end) = Index(p.start) + n - 1
      /\ Index(y.start) = Index(d) - (a % 12)
      /\ Index(y.end) = Index(y.start) + 12 - 1
  BY <1>2, PeriodIndex
<1>4. a - (a % 12) <= a - (a % n) /\ a - (a % n) + n - 1 <= a - (a % 12) + 11
  <2> HIDE DEF a, n
  <2>1. CASE n = 1
    BY <1>1, <2>1
  <2>2. CASE n = 3
    BY <1>1, <2>2
  <2>3. CASE n = 6
    BY <1>1, <2>3
  <2>4. CASE n = 12
    BY <1>1, <2>4
  <2> QED
    BY <1>2, <2>1, <2>2, <2>3, <2>4
<1> QED
  <2>1. Index(y.start) <= Index(p.start) /\ Index(p.end) <= Index(y.end)
    <3> HIDE DEF n, p, y
    <3>1. a % n \in Int /\ a % 12 \in Int
      BY <1>1, <1>2
    <3> HIDE DEF a
    <3> QED
      BY <1>1, <1>2, <1>3, <1>4, <3>1
  <2> QED
    BY <2>1

\* The walk visits the periods at whole multiples of the cadence's length.
LEMMA CursorIndex ==
    ASSUME NEW w \in [start : Date, end : Date], NEW c \in Regular, NEW yearEnd \in Month,
           NEW k \in Nat
    PROVE  /\ Cursor(w, c, yearEnd, k).start \in Date
           /\ Index(Cursor(w, c, yearEnd, k).start)
                 = Index(PeriodContaining(w.start, c, yearEnd).start) + k * Months[c]
           /\ \E d \in Date : /\ Cursor(w, c, yearEnd, k) = PeriodContaining(d, c, yearEnd)
                              /\ Index(d) = Index(Cursor(w, c, yearEnd, k).start)
<1> DEFINE n == Months[c]
           first == PeriodContaining(w.start, c, yearEnd).start
           d == AddMonths(first, k * n)
           q == PeriodContaining(d, c, yearEnd)
           a == Index(w.start) - yearEnd
<1>1. w.start \in Date /\ Index(w.start) \in Int /\ yearEnd \in Int /\ a \in Int
  BY DEF Date, Month, Index
<1>2. n \in {1, 3, 6, 12}
  BY DEF Months, Regular
<1>3. first \in Date /\ Index(first) = Index(w.start) - (a % n)
  BY <1>1, PeriodIndex
<1>4. k * n \in Int
  BY <1>2
<1>5. d \in Date /\ Index(d) = Index(first) + k * n
  BY <1>3, <1>4, AddMonthsIndex
<1>6. q.start \in Date /\ Index(q.start) = Index(d) - ((Index(d) - yearEnd) % n)
  BY <1>5, PeriodIndex
<1>7. (Index(d) - yearEnd) % n = 0
  <2>1. Index(d) - yearEnd = (a - (a % n)) + k * n
    <3>1. a % n \in Int
      BY <1>1, <1>2
    <3> HIDE DEF d, first, n
    <3> QED
      BY <1>1, <1>3, <1>4, <1>5, <3>1
  <2> HIDE DEF a, n, d
  <2>2. ((a - (a % n)) + k * n) % n = 0
    <3>1. CASE n = 1
      BY <1>1, <3>1
    <3>2. CASE n = 3
      BY <1>1, <3>2
    <3>3. CASE n = 6
      BY <1>1, <3>3
    <3>4. CASE n = 12
      BY <1>1, <3>4
    <3> QED
      BY <1>2, <3>1, <3>2, <3>3, <3>4
  <2> QED
    BY <2>1, <2>2
<1>8. Index(d) \in Int
  BY <1>5 DEF Date, Month, Index
<1>9. Index(q.start) = Index(d)
  BY <1>6, <1>7, <1>8
<1>10. Cursor(w, c, yearEnd, k) = q
  BY DEF Cursor
<1> QED
  BY <1>5, <1>6, <1>9, <1>10

\* The walk is the loop of periods_in_window: each period starts in the month
\* after the one before it ends (services/calendar.py:142).
THEOREM WalkIsLoop ==
    ASSUME NEW w \in [start : Date, end : Date], NEW c \in Regular, NEW yearEnd \in Month,
           NEW k \in Nat
    PROVE  Cursor(w, c, yearEnd, k + 1).start = AddMonths(Cursor(w, c, yearEnd, k).end, 1)
<1> DEFINE now == Cursor(w, c, yearEnd, k)
           next == Cursor(w, c, yearEnd, k + 1)
           first == PeriodContaining(w.start, c, yearEnd).start
<1>1. k + 1 \in Nat /\ Months[c] \in {1, 3, 6, 12}
  BY DEF Months, Regular
<1>2. now.start \in Date /\ Index(now.start) = Index(first) + k * Months[c]
  BY CursorIndex
<1>3. next.start \in Date /\ Index(next.start) = Index(first) + (k + 1) * Months[c]
  BY <1>1, CursorIndex
<1>4. PICK d \in Date : now = PeriodContaining(d, c, yearEnd)
  BY CursorIndex
<1>5. now.end \in Date /\ Index(now.end) = Index(now.start) + Months[c] - 1
  BY <1>4, PeriodIndex
<1>6. AddMonths(now.end, 1) \in Date /\ Index(AddMonths(now.end, 1)) = Index(now.end) + 1
  BY <1>5, AddMonthsIndex
<1>7. w.start \in Date /\ first \in Date
  BY PeriodIndex
<1>8. Index(first) \in Int /\ Index(now.start) \in Int /\ Index(now.end) \in Int
  BY <1>2, <1>5, <1>7 DEF Date, Month, Index
<1>9. (k + 1) * Months[c] = k * Months[c] + Months[c]
  BY <1>1
<1>10. Index(next.start) = Index(AddMonths(now.end, 1))
  <2>1. k * Months[c] \in Int
    BY <1>1
  <2> HIDE DEF now, next, first
  <2> QED
    BY <1>1, <1>2, <1>3, <1>5, <1>6, <1>8, <1>9, <2>1
<1> QED
  BY <1>3, <1>6, <1>10, IndexInjective

\* The walk reaches the period of every date of a window whose periods fit its
\* limit: nothing is left out of the calendar (services/calendar.py:127).
THEOREM WindowCovered ==
    ASSUME NEW w \in [start : Date, end : Date], NEW c \in Regular, NEW yearEnd \in Month,
           NEW limit \in Nat, NEW e \in Date,
           Index(w.start) <= Index(e), Index(e) <= Index(w.end),
           Index(e) - Index(PeriodContaining(w.start, c, yearEnd).start) < limit * Months[c]
    PROVE  PeriodContaining(e, c, yearEnd) \in PeriodsInWindow(w, c, yearEnd, limit)
<1> DEFINE n == Months[c]
           first == PeriodContaining(w.start, c, yearEnd).start
           far == Index(e) - Index(first)
           k == far \div n
<1>1. n \in {1, 3, 6, 12}
  BY DEF Months, Regular
<1>2. w.start \in Date /\ first \in Date
  BY PeriodIndex
<1>3. Index(first) \in Int /\ Index(e) \in Int /\ Index(w.start) \in Int /\ far \in Int
  BY <1>2 DEF Date, Month, Index
<1>4. Index(first) <= Index(w.start)
  BY <1>2, PeriodHasDate
<1>5. far \in Nat
  BY <1>3, <1>4
<1>6. k \in Nat /\ k * n <= far /\ far <= k * n + n - 1 /\ k * n \in Int
  <2> HIDE DEF far, n
  <2>1. CASE n = 1
    BY <1>5, <2>1
  <2>2. CASE n = 3
    BY <1>5, <2>2
  <2>3. CASE n = 6
    BY <1>5, <2>3
  <2>4. CASE n = 12
    BY <1>5, <2>4
  <2> QED
    BY <1>1, <2>1, <2>2, <2>3, <2>4
<1>7. k \in 0 .. limit - 1
  <2>1. far < limit * n
    OBVIOUS
  <2>2. k * n < limit * n
    <3> HIDE DEF far, n, k
    <3>1. limit * n \in Int
      BY <1>1
    <3> QED
      BY <1>5, <1>6, <2>1, <3>1
  <2>3. k < limit
    <3> HIDE DEF k, n
    <3>1. CASE n = 1
      BY <1>6, <2>2, <3>1
    <3>2. CASE n = 3
      BY <1>6, <2>2, <3>2
    <3>3. CASE n = 6
      BY <1>6, <2>2, <3>3
    <3>4. CASE n = 12
      BY <1>6, <2>2, <3>4
    <3> QED
      BY <1>1, <3>1, <3>2, <3>3, <3>4
  <2> QED
    BY <1>6, <2>3
<1> DEFINE q == Cursor(w, c, yearEnd, k)
<1> HIDE DEF k
<1>8. q.start \in Date /\ Index(q.start) = Index(first) + k * n
  BY <1>6, CursorIndex
<1>9. PICK d \in Date : q = PeriodContaining(d, c, yearEnd)
  BY <1>6, CursorIndex
<1>10. Index(q.end) = Index(q.start) + n - 1
  BY <1>9, PeriodIndex
<1>11. Index(q.start) <= Index(e) /\ Index(e) <= Index(q.end)
  <2> HIDE DEF q, n, first
  <2> QED
    BY <1>1, <1>3, <1>6, <1>8, <1>10
<1>12. PeriodContaining(e, c, yearEnd) = q
  BY <1>9, <1>11, PeriodsAgree
<1>13. Index(q.start) <= Index(w.end)
  <2>1. Index(q.start) \in Int /\ Index(w.end) \in Int
    BY <1>8 DEF Date, Month, Index
  <2> HIDE DEF q
  <2> QED
    BY <1>3, <1>11, <2>1
<1> QED
  BY <1>7, <1>12, <1>13 DEF PeriodsInWindow
=============================================================================
