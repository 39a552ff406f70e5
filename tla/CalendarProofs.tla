--------------------------- MODULE CalendarProofs ---------------------------
(* Theorems about Calendar, for every value of its constants. *)
EXTENDS Calendar, TLAPS

\* What a request in each phase holds.
LEMMA Phases ==
  ASSUME TypeOK, NEW r \in Request
  PROVE  /\ req[r].phase = "plan" => req[r] \in Planning
         /\ req[r].phase = "match" => req[r] \in Matching
         /\ req[r].phase = "answer" => req[r] \in Answering
         /\ req[r].phase = "refresh" => req[r] \in Refreshing
         /\ req[r].phase = "edit" => req[r] \in Editing
BY DEF TypeOK, Req, NoReq, Planning, Matching, Answering, Refreshing, Editing

\* A period of the plan is a span of the calendar that begins its own period.
LEMMA PeriodTyped ==
  ASSUME NEW c \in Cadence, NEW y \in YearEnd, NEW t \in Time
  PROVE  /\ Period[c][y][t] \in Span
         /\ Period[c][y][t].start <= Period[c][y][t].end
         /\ Period[c][y][Period[c][y][t].start] = Period[c][y][t]
<1>1. /\ Period[c][y][t] \in Span
      /\ Period[c][y][t].start <= t /\ t <= Period[c][y][t].end
  BY PeriodsOK
<1>2. Period[c][y][t].start \in Period[c][y][t].start .. Period[c][y][t].end
  BY <1>1, ConstantsOK DEF Span, Time
<1>3. Period[c][y][Period[c][y][t].start] = Period[c][y][t]
  BY <1>2, PeriodsOK
<1> QED
  BY <1>1, <1>3, ConstantsOK DEF Span, Time

\* What plan_instances returns: entries for periods of active rules in scope.
LEMMA PlanItems ==
  ASSUME TypeOK, NEW l \in Lease, NEW w \in Window, NEW i \in Plan(l, w)
  PROVE  /\ i \in Item
         /\ rule[i.rule] \in RuleRow
         /\ rule[i.rule].recurrence \in Cadence
         /\ i.start <= i.end
         /\ PeriodOf(i.rule, i.start).start = i.start
         /\ PeriodOf(i.rule, i.start).end = i.end
<1>1. PICK q \in Rule, t \in w.start .. w.end :
        /\ rule[q] # NoRule
        /\ rule[q].recurrence \in Cadence
        /\ i = [rule |-> q, start |-> PeriodOf(q, t).start, end |-> PeriodOf(q, t).end,
                due |-> PeriodOf(q, t).end + rule[q].dueDays]
  BY DEF Plan, InScope
<1>2. w \in Span /\ t \in Time
  BY ConstantsOK DEF Span, Time
<1>3. rule[q] \in RuleRow
  BY <1>1 DEF TypeOK
<1>4. /\ PeriodOf(q, t) \in Span
      /\ PeriodOf(q, t).start <= PeriodOf(q, t).end
      /\ PeriodOf(q, PeriodOf(q, t).start) = PeriodOf(q, t)
  BY <1>1, <1>2, <1>3, PeriodTyped DEF PeriodOf, RuleRow
<1>5. PeriodOf(q, t).end + rule[q].dueDays \in Nat
  BY <1>3, <1>4 DEF RuleRow, Span, Time
<1>6. i.rule = q /\ i.start = PeriodOf(q, t).start /\ i.end = PeriodOf(q, t).end
  BY <1>1
<1>7. i \in Item
  BY <1>1, <1>4, <1>5 DEF Item, Span
<1> QED
  BY <1>1, <1>3, <1>4, <1>6, <1>7

LEMMA PlanTyped ==
  ASSUME TypeOK, NEW l \in Lease, NEW w \in Window
  PROVE  Plan(l, w) \in SUBSET Item
BY PlanItems

LEMMA WrittenTyped ==
  ASSUME NEW row \in Row, NEW w \in Write
  PROVE  Written(row, w) \in Row
BY DEF Written, Row, Write

LEMMA FreshTyped == ASSUME NEW i \in Item PROVE Fresh(i) \in Row
BY DEF Fresh, Item, Row, Status

LEMMA SlotTyped ==
  ASSUME NEW l \in Lease, NEW i \in Item PROVE SlotOf(l, i) \in Slot
BY DEF SlotOf, Slot, Item

\* What the INSERTs of a generation leave at each slot.
LEMMA InsertedRow ==
  ASSUME NEW l \in Lease, NEW items \in SUBSET Item, NEW s \in Slot
  PROVE  \/ Inserted(l, items)[s] = entry[s] /\ \A i \in items : SlotOf(l, i) # s
         \/ \E i \in items : SlotOf(l, i) = s /\ Inserted(l, items)[s] = Fresh(i)
<1>1. CASE \E i \in items : SlotOf(l, i) = s
  <2> DEFINE c == CHOOSE i \in items : SlotOf(l, i) = s
  <2>1. c \in items /\ SlotOf(l, c) = s
    BY <1>1
  <2>2. Inserted(l, items)[s] = Fresh(c)
    BY <1>1 DEF Inserted
  <2> QED
    BY <2>1, <2>2
<1>2. CASE ~ \E i \in items : SlotOf(l, i) = s
  BY <1>2 DEF Inserted
<1> QED
  BY <1>1, <1>2

LEMMA SubmitWrite ==
  ASSUME NEW st \in Status
  PROVE  [status |-> Diff(st, "submitted"), filed |-> TRUE, reason |-> "keep"] \in Write
BY DEF Write, Diff, Status

LEMMA PatchWrite ==
  ASSUME NEW row \in Row, NEW st \in Patched, NEW reason \in Reason \cup {None}
  PROVE  [status |-> Diff(row.status, st), filed |-> st = "submitted" /\ ~row.filed,
          reason |-> ReasonWrite(row, st, reason)] \in Write
<1>1. st \in Status
  BY ConstantsOK
<1>2. Diff(row.status, st) \in Status \cup {"keep"}
  BY <1>1 DEF Diff
<1>3. ReasonWrite(row, st, reason) \in Reason \cup {None, "keep"}
  BY DEF ReasonWrite, Diff
<1>4. (st = "submitted" /\ ~row.filed) \in BOOLEAN
  OBVIOUS
<1> QED
  BY <1>2, <1>3, <1>4 DEF Write

LEMMA TypeStep == TypeOK /\ [Next]_vars => TypeOK'
<1> SUFFICES ASSUME TypeOK, [Next]_vars PROVE TypeOK'
  OBVIOUS
<1> USE DEF Becomes
<1>1. ASSUME NEW q \in Rule, NEW d \in Definition, CreateRule(q, d) \/ UpdateRule(q, d)
      PROVE  TypeOK'
  BY <1>1, ConstantsOK DEF TypeOK, CreateRule, UpdateRule
<1>2. ASSUME NEW r \in Request, NEW l \in Lease, NEW w \in Window, GeneratePlan(r, l, w)
      PROVE  TypeOK'
  <2>1. [phase |-> "plan", lease |-> l, items |-> Plan(l, w)] \in Req
    BY PlanTyped DEF Req, Planning
  <2> QED
    BY <1>2, <2>1 DEF TypeOK, GeneratePlan
<1>3. ASSUME NEW r \in Request, GenerateMatch(r) PROVE TypeOK'
  <2>1. req[r] \in Planning
    BY <1>3, Phases DEF GenerateMatch
  <2> DEFINE missing == {i \in req[r].items : ~Exists(SlotOf(req[r].lease, i))}
  <2>2. [phase |-> "match", lease |-> req[r].lease, items |-> req[r].items,
         missing |-> missing] \in Req
    BY <2>1 DEF Req, Planning, Matching
  <2> QED
    BY <1>3, <2>2 DEF TypeOK, GenerateMatch
<1>4. ASSUME NEW r \in Request, GenerateCommit(r) PROVE TypeOK'
  <2>1. req[r] \in Matching
    BY <1>4, Phases DEF GenerateCommit
  <2>2. req[r].lease \in Lease /\ req[r].items \in SUBSET Item
        /\ req[r].missing \in SUBSET Item
    BY <2>1 DEF Matching
  <2>3. [phase |-> "answer", lease |-> req[r].lease, items |-> req[r].items] \in Req
    BY <2>2 DEF Req, Answering
  <2>4. \A s \in Slot : Inserted(req[r].lease, req[r].missing)[s] \in Row \cup {NoRow}
    BY <2>2, InsertedRow, FreshTyped DEF TypeOK
  <2>5. Inserted(req[r].lease, req[r].missing) \in [Slot -> Row \cup {NoRow}]
    <3>1. Inserted(req[r].lease, req[r].missing) =
            [s \in Slot |-> Inserted(req[r].lease, req[r].missing)[s]]
      BY DEF Inserted
    <3> QED
      BY <2>4, <3>1
  <2>6. /\ entry' = entry \/ entry' = Inserted(req[r].lease, req[r].missing)
        /\ \/ req' = [req EXCEPT ![r] = NoReq]
           \/ req' = [req EXCEPT ![r] = [phase |-> "answer", lease |-> req[r].lease,
                                         items |-> req[r].items]]
        /\ UNCHANGED <<lease, rule>>
    BY <1>4 DEF GenerateCommit
  <2> QED
    BY <2>3, <2>5, <2>6 DEF TypeOK
<1>5. ASSUME NEW r \in Request, GenerateAnswer(r) \/ Abandon(r) PROVE TypeOK'
  BY <1>5 DEF TypeOK, GenerateAnswer, Abandon
<1>6. ASSUME NEW r \in Request, NEW asOf \in AsOf, RefreshRead(r, asOf) PROVE TypeOK'
  <2>1. [phase |-> "refresh", stale |-> {s \in Slot : Lapsed(s, asOf)}] \in Req
    BY DEF Req, Refreshing
  <2> QED
    BY <1>6, <2>1 DEF TypeOK, RefreshRead
<1>7. ASSUME NEW r \in Request, RefreshCommit(r) PROVE TypeOK'
  <2>1. req[r] \in Refreshing
    BY <1>7, Phases DEF RefreshCommit
  <2>2. \A s \in Slot : Exists(s) => [entry[s] EXCEPT !.status = "overdue"] \in Row
    BY DEF TypeOK, Exists, Row, Status
  <2> QED
    BY <1>7, <2>1, <2>2 DEF TypeOK, RefreshCommit, Refreshing
<1>8. ASSUME NEW r \in Request, NEW s \in Slot, SubmitRead(r, s) PROVE TypeOK'
  <2>1. entry[s].status \in Status
    BY <1>8 DEF TypeOK, SubmitRead, Exists, Row
  <2>2. [phase |-> "edit", slot |-> s,
         write |-> [status |-> Diff(entry[s].status, "submitted"), filed |-> TRUE,
                    reason |-> "keep"]] \in Req
    BY <2>1, SubmitWrite DEF Req, Editing
  <2> QED
    BY <1>8, <2>2 DEF TypeOK, SubmitRead
<1>9. ASSUME NEW r \in Request, NEW s \in Slot, NEW st \in Patched,
             NEW reason \in Reason \cup {None}, PatchRead(r, s, st, reason)
      PROVE  TypeOK'
  <2>1. entry[s] \in Row
    BY <1>9 DEF TypeOK, PatchRead, Exists
  <2>2. [phase |-> "edit", slot |-> s,
         write |-> [status |-> Diff(entry[s].status, st),
                    filed |-> st = "submitted" /\ ~entry[s].filed,
                    reason |-> ReasonWrite(entry[s], st, reason)]] \in Req
    BY <2>1, PatchWrite DEF Req, Editing
  <2> QED
    BY <1>9, <2>2 DEF TypeOK, PatchRead
<1>10. ASSUME NEW r \in Request, EditCommit(r) PROVE TypeOK'
  <2>1. req[r].slot \in Slot /\ req[r].write \in Write
    BY <1>10, Phases DEF EditCommit, Editing
  <2>2. Exists(req[r].slot) => Written(entry[req[r].slot], req[r].write) \in Row
    BY <2>1, WrittenTyped DEF TypeOK, Exists
  <2> QED
    BY <1>10, <2>1, <2>2 DEF TypeOK, EditCommit
<1>11. ASSUME NEW l \in Lease, DeleteLease(l) PROVE TypeOK'
  BY <1>11 DEF TypeOK, DeleteLease
<1>12. CASE UNCHANGED vars
  BY <1>12 DEF TypeOK, vars
<1> QED
  BY <1>1, <1>2, <1>3, <1>4, <1>5, <1>6, <1>7, <1>8, <1>9, <1>10, <1>11, <1>12
  DEF Next, Generate, Refresh, Edit

\* Rules, entries and pending requests keep their types, however generation,
\* refreshes, filings, edits and deletions interleave.
THEOREM TypeInvariant == Spec => []TypeOK
<1>1. Init => TypeOK
  BY DEF Init, TypeOK
<1> QED
  BY <1>1, TypeStep, PTL DEF Spec

-----------------------------------------------------------------------------
(***************************************************************************)
(* How one step changes one entry, and one request.                        *)
(***************************************************************************)

InsertsAt(r, s) ==
    /\ req[r].phase = "match"
    /\ ~Exists(s)
    /\ s.lease \in lease
    /\ \E i \in req[r].missing : SlotOf(req[r].lease, i) = s /\ entry'[s] = Fresh(i)
    /\ UNCHANGED <<lease, rule>>
Overdues(r, s) ==
    /\ req[r].phase = "refresh" /\ s \in req[r].stale
    /\ Exists(s)
    /\ entry'[s] = [entry[s] EXCEPT !.status = "overdue"]
    /\ req'[r] = NoReq
    /\ UNCHANGED <<lease, rule>>
Edits(r, s) ==
    /\ req[r].phase = "edit" /\ req[r].slot = s
    /\ Exists(s)
    /\ entry'[s] = Written(entry[s], req[r].write)
    /\ req'[r] = NoReq
    /\ UNCHANGED <<lease, rule>>

LEMMA NextEntry ==
  ASSUME TypeOK, [Next]_vars, NEW s \in Slot
  PROVE  \/ entry'[s] = entry[s]
         \/ entry'[s] = NoRow /\ s.lease \notin lease' /\ UNCHANGED req
         \/ \E r \in Request : /\ InsertsAt(r, s) \/ Overdues(r, s) \/ Edits(r, s)
                               /\ \A other \in Request \ {r} : req'[other] = req[other]
<1> USE DEF Becomes
<1>1. ASSUME NEW r \in Request, GenerateCommit(r), entry'[s] # entry[s]
      PROVE  InsertsAt(r, s) /\ \A other \in Request \ {r} : req'[other] = req[other]
  <2>1. req[r] \in Matching
    BY <1>1, Phases DEF GenerateCommit
  <2>2. req[r].lease \in Lease /\ req[r].missing \in SUBSET Item
    BY <2>1 DEF Matching
  <2>3. /\ entry' = Inserted(req[r].lease, req[r].missing)
        /\ \A i \in req[r].missing : ~Exists(SlotOf(req[r].lease, i))
        /\ req[r].phase = "match"
        /\ req[r].missing # {} => req[r].lease \in lease
        /\ UNCHANGED <<lease, rule>>
    BY <1>1 DEF GenerateCommit
  <2>4. \E i \in req[r].missing : SlotOf(req[r].lease, i) = s /\ entry'[s] = Fresh(i)
    BY <1>1, <2>2, <2>3, InsertedRow
  <2>5. \A other \in Request \ {r} : req'[other] = req[other]
    BY <1>1 DEF GenerateCommit, TypeOK
  <2> QED
    BY <2>3, <2>4, <2>5 DEF InsertsAt, SlotOf
<1>2. ASSUME NEW r \in Request, RefreshCommit(r), entry'[s] # entry[s]
      PROVE  Overdues(r, s) /\ \A other \in Request \ {r} : req'[other] = req[other]
  BY <1>2 DEF RefreshCommit, Overdues, TypeOK
<1>3. ASSUME NEW r \in Request, EditCommit(r), entry'[s] # entry[s]
      PROVE  Edits(r, s) /\ \A other \in Request \ {r} : req'[other] = req[other]
  BY <1>3 DEF EditCommit, Edits, TypeOK
<1>4. ASSUME NEW l \in Lease, DeleteLease(l), entry'[s] # entry[s]
      PROVE  entry'[s] = NoRow /\ s.lease \notin lease' /\ UNCHANGED req
  BY <1>4 DEF DeleteLease
<1>5. CASE UNCHANGED entry
  BY <1>5
<1> QED
  BY <1>1, <1>2, <1>3, <1>4, <1>5
  DEF Next, Generate, Refresh, Edit, CreateRule, UpdateRule, GeneratePlan, GenerateMatch,
      GenerateAnswer, RefreshRead, SubmitRead, PatchRead, Abandon, vars

GenerateAnswers(r) ==
    /\ GenerateCommit(r)
    /\ entry' = Inserted(req[r].lease, req[r].missing)
    /\ req'[r] = [phase |-> "answer", lease |-> req[r].lease, items |-> req[r].items]
Reads(r) ==
    \/ \E l \in Lease, w \in Window : GeneratePlan(r, l, w)
    \/ GenerateMatch(r)
    \/ \E asOf \in AsOf : RefreshRead(r, asOf)
    \/ \E s \in Slot : \/ SubmitRead(r, s)
                       \/ \E status \in Patched, reason \in Reason \cup {None} :
                             PatchRead(r, s, status, reason)

LEMMA NextReq ==
  ASSUME TypeOK, [Next]_vars, NEW r \in Request
  PROVE  \/ req'[r] = req[r]
         \/ req'[r] = NoReq
         \/ GenerateAnswers(r)
         \/ Reads(r) /\ UNCHANGED <<lease, rule, entry>>
<1> USE DEF Becomes
<1>1. ASSUME NEW q \in Request, Generate(q) \/ Refresh(q) \/ Edit(q) \/ Abandon(q), q # r
      PROVE  req'[r] = req[r]
  BY <1>1 DEF Generate, Refresh, Edit, Abandon, GeneratePlan, GenerateMatch, GenerateCommit,
              GenerateAnswer, RefreshRead, RefreshCommit, SubmitRead, PatchRead, EditCommit,
              TypeOK
<1>2. CASE GenerateCommit(r)
  BY <1>2 DEF GenerateCommit, GenerateAnswers, TypeOK
<1>3. CASE GenerateAnswer(r) \/ RefreshCommit(r) \/ EditCommit(r) \/ Abandon(r)
  BY <1>3 DEF GenerateAnswer, RefreshCommit, EditCommit, Abandon, TypeOK
<1>4. CASE Reads(r)
  BY <1>4 DEF Reads, GeneratePlan, GenerateMatch, RefreshRead, SubmitRead, PatchRead
<1>5. CASE UNCHANGED req
  BY <1>5
<1> QED
  BY <1>1, <1>2, <1>3, <1>4, <1>5
  DEF Next, Generate, Refresh, Edit, Reads, CreateRule, UpdateRule, DeleteLease, vars

\* An entry that a request holds is there, or its lease is gone for good; so no
\* generation puts another entry in its place.
Holds(r, s) ==
    \/ req[r].phase = "edit" /\ req[r].slot = s
    \/ req[r].phase = "refresh" /\ s \in req[r].stale
Vacancy == \A r \in Request, s \in Slot : Holds(r, s) => Exists(s) \/ s.lease \notin lease

\* A request comes to hold an entry by reading it.
LEMMA HoldsBegin ==
  ASSUME TypeOK, [Next]_vars, NEW r \in Request, NEW s \in Slot, Holds(r, s)'
  PROVE  Holds(r, s) \/ (Exists(s) /\ entry' = entry)
<1>1. CASE req'[r] = req[r]
  BY <1>1 DEF Holds
<1>2. CASE req'[r] = NoReq
  BY <1>2 DEF Holds, NoReq
<1>3. CASE GenerateAnswers(r)
  BY <1>3 DEF GenerateAnswers, Holds
<1>4. CASE Reads(r) /\ UNCHANGED <<lease, rule, entry>>
  <2> USE DEF Becomes, TypeOK, Holds
  <2>1. ASSUME NEW l \in Lease, NEW w \in Window, GeneratePlan(r, l, w) PROVE FALSE
    BY <2>1 DEF GeneratePlan
  <2>2. ASSUME GenerateMatch(r) PROVE FALSE
    BY <2>2 DEF GenerateMatch
  <2>3. ASSUME NEW asOf \in AsOf, RefreshRead(r, asOf) PROVE Exists(s)
    BY <2>3 DEF RefreshRead, Lapsed
  <2>4. ASSUME NEW t \in Slot, SubmitRead(r, t) PROVE Exists(s)
    BY <2>4 DEF SubmitRead
  <2>5. ASSUME NEW t \in Slot, NEW status \in Patched, NEW reason \in Reason \cup {None},
               PatchRead(r, t, status, reason)
        PROVE  Exists(s)
    BY <2>5 DEF PatchRead
  <2> QED
    BY <1>4, <2>1, <2>2, <2>3, <2>4, <2>5 DEF Reads
<1> QED
  BY <1>1, <1>2, <1>3, <1>4, NextReq

\* An entry goes only with its lease.
LEMMA EntryGoes ==
  ASSUME TypeOK, [Next]_vars, NEW s \in Slot, Exists(s), ~Exists(s)'
  PROVE  s.lease \notin lease'
<1>1. ASSUME NEW q \in Request, Overdues(q, s) PROVE FALSE
  BY <1>1 DEF Overdues, TypeOK, Exists, Row, NoRow
<1>2. ASSUME NEW q \in Request, Edits(q, s) PROVE FALSE
  <2>1. entry'[s] \in Row
    BY <1>2, Phases, WrittenTyped DEF Edits, TypeOK, Exists, Editing
  <2> QED
    BY <2>1 DEF Exists, Row, NoRow, Status
<1>3. ASSUME NEW q \in Request, InsertsAt(q, s) PROVE FALSE
  BY <1>3 DEF InsertsAt, Exists, Fresh, NoRow
<1> QED
  BY <1>1, <1>2, <1>3, NextEntry DEF Exists

LEMMA VacancyStep == TypeOK /\ Vacancy /\ [Next]_vars => Vacancy'
<1> SUFFICES ASSUME TypeOK, Vacancy, [Next]_vars, NEW r \in Request, NEW s \in Slot,
                    Holds(r, s)', ~Exists(s)'
             PROVE  s.lease \notin lease'
  BY DEF Vacancy
<1>1. lease' \subseteq lease
  BY DEF Next, Generate, Refresh, Edit, CreateRule, UpdateRule, GeneratePlan, GenerateMatch,
         GenerateCommit, GenerateAnswer, RefreshRead, RefreshCommit, SubmitRead, PatchRead,
         EditCommit, DeleteLease, Abandon, vars
<1> QED
  BY <1>1, HoldsBegin, EntryGoes DEF Vacancy

-----------------------------------------------------------------------------
(***************************************************************************)
(* Filings.                                                                *)
(***************************************************************************)

\* A pending write of "submitted" sets the time, or the entry has one already;
\* nothing ever takes it away.
FilingsTimed ==
    \A r \in Request :
        req[r].phase = "edit" /\ req[r].write.status = "submitted" =>
            req[r].write.filed \/ ~Exists(req[r].slot) \/ entry[req[r].slot].filed
FiledInv == FiledHasTime /\ FilingsTimed

LEMMA FiledStep == TypeOK /\ Vacancy /\ FiledInv /\ [Next]_vars => FiledInv'
<1> SUFFICES ASSUME TypeOK, Vacancy, FiledInv, [Next]_vars PROVE FiledInv'
  OBVIOUS
<1>1. TypeOK'
  BY TypeStep
<1>2. ASSUME NEW s \in Slot, entry'[s].status = "submitted" PROVE entry'[s].filed
  <2>1. CASE entry'[s] = entry[s]
    BY <1>2, <2>1 DEF FiledInv, FiledHasTime
  <2>2. CASE entry'[s] = NoRow
    BY <1>2, <2>2 DEF NoRow
  <2>3. ASSUME NEW r \in Request, InsertsAt(r, s) PROVE FALSE
    BY <1>2, <2>3 DEF InsertsAt, Fresh
  <2>4. ASSUME NEW r \in Request, Overdues(r, s) PROVE FALSE
    BY <1>2, <2>4 DEF Overdues, TypeOK, Exists, Row
  <2>5. ASSUME NEW r \in Request, Edits(r, s) PROVE entry'[s].filed
    <3>1. entry[s] \in Row /\ req[r].write \in Write /\ req[r].slot = s
      BY <2>5, Phases DEF Edits, TypeOK, Exists, Editing
    <3>2. entry'[s].filed = (entry[s].filed \/ req[r].write.filed)
      BY <2>5, <3>1 DEF Edits, Written, Row
    <3>3. entry'[s].status = IF req[r].write.status = "keep" THEN entry[s].status
                             ELSE req[r].write.status
      BY <2>5, <3>1 DEF Edits, Written, Row
    <3>4. CASE req[r].write.status = "keep"
      BY <1>2, <3>2, <3>3, <3>4 DEF FiledInv, FiledHasTime
    <3>5. CASE req[r].write.status = "submitted"
      BY <2>5, <3>1, <3>2, <3>5 DEF FiledInv, FilingsTimed, Edits
    <3> QED
      BY <1>2, <3>3, <3>4, <3>5
  <2> QED
    BY <2>1, <2>2, <2>3, <2>4, <2>5, NextEntry
<1>3. \A s \in Slot : Exists(s) /\ Exists(s)' /\ entry[s].filed => entry'[s].filed
  <2> SUFFICES ASSUME NEW s \in Slot, Exists(s), Exists(s)', entry[s].filed
               PROVE  entry'[s].filed
    OBVIOUS
  <2>1. entry[s] \in Row
    BY DEF TypeOK, Exists
  <2>2. ASSUME NEW r \in Request, Overdues(r, s) PROVE entry'[s].filed
    BY <2>1, <2>2 DEF Overdues, Row
  <2>3. ASSUME NEW r \in Request, Edits(r, s) PROVE entry'[s].filed
    BY <2>1, <2>3 DEF Edits, Written, Row
  <2>4. ASSUME NEW r \in Request, InsertsAt(r, s) PROVE FALSE
    BY <2>4 DEF InsertsAt
  <2> QED
    BY <2>2, <2>3, <2>4, NextEntry DEF Exists
<1>4. ASSUME NEW r \in Request, req'[r].phase = "edit", req'[r].write.status = "submitted",
             ~req'[r].write.filed, entry'[req'[r].slot] # NoRow
      PROVE  entry'[req'[r].slot].filed
  <2>1. CASE req'[r] = req[r]
    <3>1. req[r].slot \in Slot /\ Holds(r, req[r].slot)
      BY <1>4, <2>1, Phases DEF Editing, Holds
    <3>2. Exists(req[r].slot)
      <4>1. ASSUME ~Exists(req[r].slot) PROVE FALSE
        <5>1. req[r].slot.lease \notin lease
          BY <3>1, <4>1 DEF Vacancy
        <5>2. ~ \E q \in Request : InsertsAt(q, req[r].slot) \/ Overdues(q, req[r].slot)
                                   \/ Edits(q, req[r].slot)
          BY <4>1, <5>1 DEF InsertsAt, Overdues, Edits
        <5> QED
          BY <1>4, <2>1, <3>1, <4>1, <5>2, NextEntry DEF Exists
      <4> QED
        BY <4>1
    <3> QED
      BY <1>3, <1>4, <2>1, <3>1, <3>2 DEF Exists, FiledInv, FilingsTimed
  <2>2. CASE req'[r] = NoReq
    BY <1>4, <2>2 DEF NoReq
  <2>3. CASE GenerateAnswers(r)
    BY <1>4, <2>3 DEF GenerateAnswers
  <2>4. CASE Reads(r) /\ UNCHANGED <<lease, rule, entry>>
    <3> USE DEF Becomes, TypeOK
    <3>1. ASSUME NEW l \in Lease, NEW w \in Window, GeneratePlan(r, l, w) PROVE FALSE
      BY <1>4, <3>1 DEF GeneratePlan
    <3>2. ASSUME GenerateMatch(r) PROVE FALSE
      BY <1>4, <3>2 DEF GenerateMatch
    <3>3. ASSUME NEW asOf \in AsOf, RefreshRead(r, asOf) PROVE FALSE
      BY <1>4, <3>3 DEF RefreshRead
    <3>4. ASSUME NEW s \in Slot, SubmitRead(r, s) PROVE FALSE
      BY <1>4, <3>4 DEF SubmitRead
    <3>5. ASSUME NEW s \in Slot, NEW status \in Patched, NEW reason \in Reason \cup {None},
                 PatchRead(r, s, status, reason)
          PROVE  entry'[req'[r].slot].filed
      <4>1. /\ req'[r].slot = s
            /\ req'[r].write.status = Diff(entry[s].status, status)
            /\ req'[r].write.filed = (status = "submitted" /\ ~entry[s].filed)
            /\ entry' = entry
        BY <3>5 DEF PatchRead
      <4>2. status = "submitted"
        BY <1>4, <4>1 DEF Diff
      <4> QED
        BY <1>4, <4>1, <4>2
    <3> QED
      BY <2>4, <3>1, <3>2, <3>3, <3>4, <3>5 DEF Reads
  <2> QED
    BY <2>1, <2>2, <2>3, <2>4, NextReq
<1> QED
  BY <1>2, <1>4, <1>1 DEF Exists, FiledInv, FiledHasTime, FilingsTimed

\* Whatever refreshes, filings and changes of status overlap, what counts as
\* filed has the time of its filing.
THEOREM FilingsKeepTheirTime == Spec => []FiledHasTime
<1>1. Init => TypeOK /\ Vacancy /\ FiledInv
  BY DEF Init, TypeOK, Vacancy, Holds, FiledInv, FiledHasTime, FilingsTimed, NoReq, NoRow
<1>2. TypeOK /\ Vacancy /\ FiledInv /\ [Next]_vars => (TypeOK /\ Vacancy /\ FiledInv)'
  BY TypeStep, VacancyStep, FiledStep
<1>3. FiledInv => FiledHasTime
  BY DEF FiledInv
<1> QED
  BY <1>1, <1>2, <1>3, PTL DEF Spec

-----------------------------------------------------------------------------
(***************************************************************************)
(* Periods.                                                                *)
(***************************************************************************)

\* The days a .. b are a period of the rule q.
OnCalendar(q, a, b) ==
    /\ rule[q] \in RuleRow
    /\ rule[q].recurrence \in Cadence
    /\ a \in Time /\ b \in Time /\ a <= b
    /\ PeriodOf(q, a).start = a
    /\ PeriodOf(q, a).end = b
Covered(l, i) == Exists(SlotOf(l, i)) \/ l \notin lease
EntriesInv == \A s \in Slot : Exists(s) => OnCalendar(s.rule, s.start, entry[s].end)
ItemsInv ==
    \A r \in Request : req[r].phase \in {"plan", "match", "answer"} =>
        \A i \in req[r].items : OnCalendar(i.rule, i.start, i.end)
MissingItems ==
    \A r \in Request : req[r].phase = "match" => req[r].missing \subseteq req[r].items
\* What the request r has found or inserted is there, for as long as its lease is.
Covering(r) ==
    /\ req[r].phase = "match" =>
          \A i \in req[r].items \ req[r].missing : Covered(req[r].lease, i)
    /\ req[r].phase = "answer" => \A i \in req[r].items : Covered(req[r].lease, i)
PeriodsInv == EntriesInv /\ ItemsInv /\ MissingItems /\ \A r \in Request : Covering(r)

CadencesKept == "cadence_edit" \notin Faults

LEMMA CalendarStable ==
  ASSUME TypeOK, [Next]_vars, CadencesKept, NEW q \in Rule, NEW a, NEW b, OnCalendar(q, a, b)
  PROVE  OnCalendar(q, a, b)'
<1>1. /\ rule'[q] \in RuleRow
      /\ rule'[q].recurrence = rule[q].recurrence /\ rule'[q].yearEnd = rule[q].yearEnd
  <2>1. ASSUME NEW p \in Rule, NEW d \in Definition, CreateRule(p, d)
        PROVE  rule'[q] = rule[q]
    <3>1. rule[q] # NoRule
      BY DEF OnCalendar, RuleRow, NoRule
    <3> QED
      BY <2>1, <3>1 DEF CreateRule, TypeOK
  <2>2. ASSUME NEW p \in Rule, NEW d \in Definition, UpdateRule(p, d)
        PROVE  /\ rule'[q] \in RuleRow
               /\ rule'[q].recurrence = rule[q].recurrence /\ rule'[q].yearEnd = rule[q].yearEnd
    BY <2>2, ConstantsOK DEF UpdateRule, TypeOK, CadencesKept, OnCalendar
  <2>3. CASE UNCHANGED rule
    BY <2>3 DEF OnCalendar
  <2> QED
    BY <2>1, <2>2, <2>3 DEF OnCalendar, Next, Generate, Refresh, Edit, GeneratePlan,
       GenerateMatch, GenerateCommit, GenerateAnswer, RefreshRead, RefreshCommit, SubmitRead,
       PatchRead, EditCommit, DeleteLease, Abandon, vars
<1> QED
  BY <1>1 DEF OnCalendar, PeriodOf

LEMMA LeasesGo == [Next]_vars => lease' \subseteq lease
BY DEF Next, Generate, Refresh, Edit, CreateRule, UpdateRule, GeneratePlan, GenerateMatch,
       GenerateCommit, GenerateAnswer, RefreshRead, RefreshCommit, SubmitRead, PatchRead,
       EditCommit, DeleteLease, Abandon, vars

\* An entry keeps its period until its lease is deleted.
LEMMA EntryKept ==
  ASSUME TypeOK, [Next]_vars, NEW s \in Slot, Exists(s)
  PROVE  \/ Exists(s)' /\ entry'[s].end = entry[s].end
         \/ s.lease \notin lease'
<1>1. entry[s] \in Row
  BY DEF TypeOK, Exists
<1>2. ASSUME NEW r \in Request, Overdues(r, s)
      PROVE  Exists(s)' /\ entry'[s].end = entry[s].end
  <2>1. entry'[s] \in Row /\ entry'[s].end = entry[s].end
    BY <1>1, <1>2 DEF Overdues, Row, Status
  <2> QED
    BY <2>1 DEF Exists, Row, NoRow, Status
<1>3. ASSUME NEW r \in Request, Edits(r, s)
      PROVE  Exists(s)' /\ entry'[s].end = entry[s].end
  <2>1. req[r].write \in Write
    BY <1>3, Phases DEF Edits, Editing
  <2>2. entry'[s] \in Row
    BY <1>1, <1>3, <2>1, WrittenTyped DEF Edits
  <2>3. entry'[s].end = entry[s].end
    BY <1>1, <1>3 DEF Edits, Written, Row
  <2> QED
    BY <2>2, <2>3 DEF Exists, Row, NoRow, Status
<1>4. ASSUME NEW r \in Request, InsertsAt(r, s) PROVE FALSE
  BY <1>4 DEF InsertsAt
<1> QED
  BY <1>2, <1>3, <1>4, NextEntry DEF Exists

LEMMA CoveredStable ==
  ASSUME TypeOK, [Next]_vars, NEW l \in Lease, NEW i \in Item, Covered(l, i)
  PROVE  Covered(l, i)'
<1>1. SlotOf(l, i) \in Slot /\ SlotOf(l, i).lease = l
  BY SlotTyped DEF SlotOf
<1> QED
  BY <1>1, LeasesGo, EntryKept DEF Covered, SlotOf, Exists

LEMMA EntriesStep ==
  ASSUME TypeOK, EntriesInv, ItemsInv, MissingItems, CadencesKept, [Next]_vars
  PROVE  EntriesInv'
<1> SUFFICES ASSUME NEW s \in Slot, Exists(s)'
             PROVE  OnCalendar(s.rule, s.start, entry[s].end)'
  BY DEF EntriesInv
<1>1. s.rule \in Rule
  BY DEF Slot
<1>2. CASE Exists(s)
  <2>1. OnCalendar(s.rule, s.start, entry[s].end)
    BY <1>2 DEF EntriesInv
  <2>2. OnCalendar(s.rule, s.start, entry[s].end)' \/ entry'[s].end # entry[s].end
    <3>1. ASSUME NEW b, b = entry[s].end PROVE OnCalendar(s.rule, s.start, b)'
      BY <1>1, <2>1, <3>1, CalendarStable
    <3> QED
      BY <3>1 DEF OnCalendar
  <2>3. entry'[s].end = entry[s].end
    <3>1. entry[s] \in Row
      BY <1>2 DEF TypeOK, Exists
    <3>2. ASSUME NEW r \in Request, Overdues(r, s) PROVE entry'[s].end = entry[s].end
      BY <3>1, <3>2 DEF Overdues, Row
    <3>3. ASSUME NEW r \in Request, Edits(r, s) PROVE entry'[s].end = entry[s].end
      BY <3>1, <3>3 DEF Edits, Written, Row
    <3>4. ASSUME NEW r \in Request, InsertsAt(r, s) PROVE FALSE
      BY <1>2, <3>4 DEF InsertsAt
    <3> QED
      BY <3>2, <3>3, <3>4, NextEntry DEF Exists
  <2> QED
    BY <2>2, <2>3
<1>3. CASE ~Exists(s)
  <2>1. PICK r \in Request : InsertsAt(r, s)
    BY <1>3, NextEntry DEF Exists, Overdues, Edits
  <2>2. req[r] \in Matching
    BY <2>1, Phases DEF InsertsAt
  <2>3. PICK i \in req[r].missing : SlotOf(req[r].lease, i) = s /\ entry'[s] = Fresh(i)
    BY <2>1 DEF InsertsAt
  <2>4. i \in req[r].items
    BY <2>1, <2>3 DEF MissingItems, InsertsAt
  <2>5. OnCalendar(i.rule, i.start, i.end)
    BY <2>1, <2>4 DEF ItemsInv, InsertsAt
  <2>6. s.rule = i.rule /\ s.start = i.start /\ entry'[s].end = i.end
    BY <2>3 DEF SlotOf, Fresh
  <2>7. OnCalendar(s.rule, s.start, i.end)
    BY <2>5, <2>6
  <2>8. rule' = rule
    BY <2>1 DEF InsertsAt
  <2> QED
    BY <2>6, <2>7, <2>8 DEF OnCalendar, PeriodOf
<1> QED
  BY <1>2, <1>3

LEMMA ItemsStep ==
  ASSUME TypeOK, ItemsInv, MissingItems, CadencesKept, [Next]_vars
  PROVE  ItemsInv' /\ MissingItems'
<1> USE DEF Becomes
<1> SUFFICES ASSUME NEW r \in Request
             PROVE  /\ req'[r].phase \in {"plan", "match", "answer"} =>
                          \A i \in req'[r].items : OnCalendar(i.rule, i.start, i.end)'
                    /\ req'[r].phase = "match" => req'[r].missing \subseteq req'[r].items
  BY DEF ItemsInv, MissingItems
<1>1. ASSUME req[r].phase \in {"plan", "match", "answer"}, NEW i \in req[r].items
      PROVE  OnCalendar(i.rule, i.start, i.end)'
  <2>1. i \in Item /\ i.rule \in Rule
    BY <1>1, Phases DEF Planning, Matching, Answering, Item
  <2> QED
    BY <1>1, <2>1, CalendarStable DEF ItemsInv
<1>2. CASE req'[r] = req[r]
  BY <1>1, <1>2 DEF MissingItems
<1>3. CASE req'[r] = NoReq
  BY <1>3 DEF NoReq
<1>4. CASE GenerateAnswers(r)
  <2>1. req[r].phase = "match" /\ req'[r].items = req[r].items /\ req'[r].phase = "answer"
    BY <1>4 DEF GenerateAnswers, GenerateCommit
  <2> QED
    BY <1>1, <2>1
<1>5. ASSUME NEW l \in Lease, NEW w \in Window, GeneratePlan(r, l, w)
      PROVE  /\ req'[r].phase = "plan"
             /\ \A i \in req'[r].items : OnCalendar(i.rule, i.start, i.end)'
  <2>1. req'[r].phase = "plan" /\ req'[r].items = Plan(l, w) /\ rule' = rule
    BY <1>5 DEF GeneratePlan, TypeOK
  <2>2. \A i \in Plan(l, w) : OnCalendar(i.rule, i.start, i.end)
    BY PlanItems DEF OnCalendar, Item
  <2> QED
    BY <2>1, <2>2 DEF OnCalendar, PeriodOf
<1>6. CASE GenerateMatch(r)
  <2>1. /\ req[r].phase = "plan" /\ req'[r].items = req[r].items
        /\ req'[r].missing = {i \in req[r].items : ~Exists(SlotOf(req[r].lease, i))}
    BY <1>6 DEF GenerateMatch, TypeOK
  <2> QED
    BY <1>1, <2>1
<1>7. ASSUME NEW asOf \in AsOf, RefreshRead(r, asOf) PROVE req'[r].phase = "refresh"
  BY <1>7 DEF RefreshRead, TypeOK
<1>8. ASSUME NEW s \in Slot,
             \/ SubmitRead(r, s)
             \/ \E status \in Patched, reason \in Reason \cup {None} :
                   PatchRead(r, s, status, reason)
      PROVE  req'[r].phase = "edit"
  BY <1>8 DEF SubmitRead, PatchRead, TypeOK
<1> QED
  BY <1>2, <1>3, <1>4, <1>5, <1>6, <1>7, <1>8, NextReq DEF Reads

LEMMA CoveringStep ==
  ASSUME TypeOK, [Next]_vars, NEW r \in Request, Covering(r)
  PROVE  Covering(r)'
<1> USE DEF Becomes
<1> SUFFICES ASSUME req'[r].phase \in {"match", "answer"}
             PROVE  \A i \in req'[r].items :
                       \/ req'[r].phase = "match" /\ i \in req'[r].missing
                       \/ Covered(req[r].lease, i)'
  BY DEF Covering
<1>1. ASSUME req[r].phase \in {"match", "answer"}, NEW i \in req[r].items,
             req[r].phase = "match" => i \notin req[r].missing
      PROVE  \A l \in Lease : l = req[r].lease => Covered(l, i)'
  <2>1. i \in Item /\ Covered(req[r].lease, i)
    BY <1>1, Phases DEF Covering, Matching, Answering
  <2> QED
    BY <2>1, CoveredStable
<1>2. CASE req'[r] = req[r]
  <2>1. req[r].lease \in Lease
    BY <1>2, Phases DEF Matching, Answering
  <2> QED
    BY <1>1, <1>2, <2>1 DEF Covered, Exists, SlotOf
<1>3. CASE GenerateAnswers(r)
  <2>1. /\ req[r] \in Matching /\ req[r].phase = "match"
        /\ req'[r].phase = "answer" /\ req'[r].items = req[r].items
        /\ req'[r].lease = req[r].lease
        /\ entry' = Inserted(req[r].lease, req[r].missing)
    BY <1>3, Phases DEF GenerateAnswers, GenerateCommit
  <2> SUFFICES ASSUME NEW i \in req[r].items PROVE Covered(req[r].lease, i)'
    BY <2>1
  <2>2. i \in Item /\ req[r].lease \in Lease
    BY <2>1 DEF Matching
  <2>3. CASE i \in req[r].missing
    <3> DEFINE l == req[r].lease
               s == SlotOf(l, i)
    <3>1. s \in Slot
      BY <2>2, SlotTyped
    <3>2. \E j \in req[r].missing : SlotOf(l, j) = s /\ entry'[s] = Fresh(j)
      BY <2>1, <2>2, <2>3, <3>1, InsertedRow DEF Matching
    <3>3. entry'[s] # NoRow
      BY <3>2 DEF Fresh, NoRow
    <3> QED
      BY <2>1, <3>3 DEF Covered, Exists, SlotOf
  <2>4. CASE i \notin req[r].missing
    BY <1>1, <2>1, <2>2, <2>4 DEF Covered, Exists, SlotOf
  <2> QED
    BY <2>3, <2>4
<1>4. CASE GenerateMatch(r)
  <2>1. /\ req[r] \in Planning
        /\ req'[r].phase = "match" /\ req'[r].items = req[r].items
        /\ req'[r].lease = req[r].lease
        /\ req'[r].missing = {i \in req[r].items : ~Exists(SlotOf(req[r].lease, i))}
        /\ UNCHANGED entry
    BY <1>4, Phases DEF GenerateMatch, TypeOK
  <2> QED
    BY <2>1 DEF Covered, Exists, SlotOf
<1>5. req'[r] # NoReq
  BY DEF NoReq
<1>6. ASSUME \/ \E l \in Lease, w \in Window : GeneratePlan(r, l, w)
             \/ \E asOf \in AsOf : RefreshRead(r, asOf)
             \/ \E s \in Slot : \/ SubmitRead(r, s)
                                \/ \E status \in Patched, reason \in Reason \cup {None} :
                                      PatchRead(r, s, status, reason)
      PROVE  FALSE
  BY <1>6 DEF GeneratePlan, RefreshRead, SubmitRead, PatchRead, TypeOK
<1> QED
  BY <1>2, <1>3, <1>4, <1>5, <1>6, NextReq DEF Reads

LEMMA PeriodsStep == TypeOK /\ PeriodsInv /\ CadencesKept /\ [Next]_vars => PeriodsInv'
<1> SUFFICES ASSUME TypeOK, PeriodsInv, CadencesKept, [Next]_vars PROVE PeriodsInv'
  OBVIOUS
<1>1. \A r \in Request : Covering(r)'
  BY CoveringStep DEF PeriodsInv
<1> QED
  BY <1>1, EntriesStep, ItemsStep DEF PeriodsInv

LEMMA PeriodsAlways ==
  ASSUME CadencesKept PROVE Spec => [](TypeOK /\ PeriodsInv)
<1>1. Init => TypeOK /\ PeriodsInv
  BY DEF Init, TypeOK, PeriodsInv, EntriesInv, ItemsInv, MissingItems, Covering, Exists,
         NoReq
<1>2. TypeOK /\ PeriodsInv /\ [Next]_vars => (TypeOK /\ PeriodsInv)'
  BY TypeStep, PeriodsStep
<1> QED
  BY <1>1, <1>2, PTL DEF Spec

\* Entries that are periods of their rules cannot overlap.
LEMMA EntriesApart == EntriesInv => NoOverlap
<1> SUFFICES ASSUME EntriesInv, NEW s \in Slot, NEW t \in Slot, Exists(s), Exists(t),
                    s.rule = t.rule, s.start < t.start, ~(entry[s].end < t.start)
             PROVE  FALSE
  BY DEF NoOverlap
<1>1. /\ OnCalendar(s.rule, s.start, entry[s].end)
      /\ OnCalendar(s.rule, t.start, entry[t].end)
  BY DEF EntriesInv
<1> DEFINE c == rule[s.rule].recurrence
           y == rule[s.rule].yearEnd
<1>2. c \in Cadence /\ y \in YearEnd /\ s.start \in Time /\ t.start \in Time
  BY <1>1 DEF OnCalendar, RuleRow
<1>3. t.start \in Period[c][y][s.start].start .. Period[c][y][s.start].end
  BY <1>1, ConstantsOK DEF OnCalendar, PeriodOf, Time
<1>4. Period[c][y][t.start] = Period[c][y][s.start]
  BY <1>2, <1>3, PeriodsOK
<1> QED
  BY <1>1, <1>4, ConstantsOK DEF OnCalendar, PeriodOf, Time

\* While rules keep their cadence, the entries of a rule and a lease never cover
\* a day twice, in whatever windows and however concurrently they are generated.
THEOREM PeriodsApart ==
  ASSUME CadencesKept PROVE Spec => []NoOverlap
<1>1. PeriodsInv => NoOverlap
  BY EntriesApart DEF PeriodsInv
<1> QED
  BY <1>1, PeriodsAlways, PTL

\* What is covered and on the calendar is what was planned.
LEMMA AnswerPlanned ==
  ASSUME TypeOK, EntriesInv, ItemsInv, NEW r \in Request, Covering(r),
         req[r].phase = "answer", req[r].lease \in lease
  PROVE  Complete(r)
<1> SUFFICES ASSUME NEW i \in req[r].items
             PROVE  LET s == SlotOf(req[r].lease, i) IN Exists(s) /\ entry[s].end = i.end
  BY DEF Complete
<1> DEFINE s == SlotOf(req[r].lease, i)
<1>1. req[r].lease \in Lease /\ i \in Item
  BY Phases DEF Answering
<1>2. s \in Slot /\ s.rule = i.rule /\ s.start = i.start
  BY <1>1, SlotTyped DEF SlotOf
<1>3. Exists(s)
  BY DEF Covering, Covered
<1>4. OnCalendar(i.rule, i.start, entry[s].end)
  BY <1>2, <1>3 DEF EntriesInv
<1>5. OnCalendar(i.rule, i.start, i.end)
  BY DEF ItemsInv
<1> QED
  BY <1>3, <1>4, <1>5 DEF OnCalendar

\* While rules keep their cadence, a generation that answers has left an entry
\* for exactly each period it planned.
THEOREM GenerationComplete ==
  ASSUME CadencesKept PROVE Spec => []PlannedExists
<1>1. TypeOK /\ PeriodsInv => PlannedExists
  BY AnswerPlanned DEF PeriodsInv, PlannedExists
<1> QED
  BY <1>1, PeriodsAlways, PTL

-----------------------------------------------------------------------------
(***************************************************************************)
(* Exemptions.                                                             *)
(***************************************************************************)

OnePatcher == \A p, q \in Patcher : p = q
\* What a pending write will not do to the entry it is about: exempt it without
\* a reason, or take the reason of an exemption.
WritesExplained ==
    \A r \in Request : req[r].phase = "edit" =>
        LET w == req[r].write
            s == req[r].slot
        IN /\ w.status \in Exempt \/ w.reason # "keep" => r \in Patcher
           /\ w.status \in Exempt => /\ w.reason # None
                                     /\ w.reason = "keep" => ~Exists(s) \/ entry[s].reason # None
           /\ w.status = "keep" /\ w.reason = None => ~Exists(s) \/ entry[s].status \notin Exempt
ReasonInv == ExemptHasReason /\ WritesExplained

LEMMA WritesBegin ==
  ASSUME TypeOK, NEW r \in Request, Reads(r), req'[r].phase = "edit", UNCHANGED entry
  PROVE  LET w == req'[r].write
             s == req'[r].slot
         IN /\ w.status \in Exempt \/ w.reason # "keep" => r \in Patcher
            /\ w.status \in Exempt => /\ w.reason # None
                                      /\ w.reason = "keep" => entry'[s].reason # None
            /\ w.status = "keep" /\ w.reason = None => entry'[s].status \notin Exempt
<1> USE DEF Becomes
<1>1. PICK s \in Slot :
        \/ SubmitRead(r, s)
        \/ \E status \in Patched, reason \in Reason \cup {None} : PatchRead(r, s, status, reason)
  BY DEF Reads, GeneratePlan, GenerateMatch, RefreshRead, TypeOK
<1>2. CASE SubmitRead(r, s)
  <2>1. /\ req'[r].slot = s
        /\ req'[r].write.status = Diff(entry[s].status, "submitted")
        /\ req'[r].write.reason = "keep"
    BY <1>2 DEF SubmitRead, TypeOK
  <2> QED
    BY <2>1, ConstantsOK DEF Diff, Exempt
<1>3. ASSUME NEW status \in Patched, NEW reason \in Reason \cup {None},
             PatchRead(r, s, status, reason)
      PROVE  LET w == req'[r].write
                 t == req'[r].slot
             IN /\ w.status \in Exempt \/ w.reason # "keep" => r \in Patcher
                /\ w.status \in Exempt => /\ w.reason # None
                                          /\ w.reason = "keep" => entry'[t].reason # None
                /\ w.status = "keep" /\ w.reason = None => entry'[t].status \notin Exempt
  <2>1. /\ req'[r].slot = s
        /\ req'[r].write.status = Diff(entry[s].status, status)
        /\ req'[r].write.reason = ReasonWrite(entry[s], status, reason)
        /\ r \in Patcher
        /\ status \in Exempt => reason # None
    BY <1>3 DEF PatchRead, TypeOK
  <2>2. /\ "keep" \notin Exempt /\ "keep" \notin Reason \cup {None}
        /\ status # "keep"
    BY ConstantsOK DEF Exempt, Status
  <2>3. CASE status \in Exempt
    BY <2>1, <2>2, <2>3 DEF Diff, ReasonWrite
  <2>4. CASE status \notin Exempt
    BY <2>1, <2>2, <2>4 DEF Diff, ReasonWrite
  <2> QED
    BY <2>3, <2>4
<1> QED
  BY <1>1, <1>2, <1>3

LEMMA ReasonStep ==
  TypeOK /\ Vacancy /\ ReasonInv /\ OnePatcher /\ [Next]_vars => ReasonInv'
<1> SUFFICES ASSUME TypeOK, Vacancy, ReasonInv, OnePatcher, [Next]_vars PROVE ReasonInv'
  OBVIOUS
<1> DEFINE KeepsStatus(r) == req[r].phase = "edit" => req[r].write.status \notin Exempt
           KeepsReason(r) == req[r].phase = "edit" => req[r].write.reason = "keep"
\* What one step does to the status and the reason of an entry.
<1>1. ASSUME NEW s \in Slot, Exists(s)
      PROVE  \/ entry'[s] = entry[s]
             \/ entry'[s] = NoRow
             \/ entry'[s].status = "overdue" /\ entry'[s].reason = entry[s].reason
             \/ \E r \in Request :
                   /\ Edits(r, s)
                   /\ entry'[s].status = IF req[r].write.status = "keep" THEN entry[s].status
                                         ELSE req[r].write.status
                   /\ entry'[s].reason = IF req[r].write.reason = "keep" THEN entry[s].reason
                                         ELSE req[r].write.reason
  <2>1. entry[s] \in Row
    BY <1>1 DEF TypeOK, Exists
  <2>2. ASSUME NEW r \in Request, Overdues(r, s)
        PROVE  entry'[s].status = "overdue" /\ entry'[s].reason = entry[s].reason
    BY <2>1, <2>2 DEF Overdues, Row
  <2>3. ASSUME NEW r \in Request, Edits(r, s)
        PROVE  /\ entry'[s].status = IF req[r].write.status = "keep" THEN entry[s].status
                                     ELSE req[r].write.status
               /\ entry'[s].reason = IF req[r].write.reason = "keep" THEN entry[s].reason
                                     ELSE req[r].write.reason
    BY <2>1, <2>3 DEF Edits, Written, Row
  <2> QED
    BY <1>1, <2>2, <2>3, NextEntry DEF InsertsAt
<1>2. ExemptHasReason'
  <2> SUFFICES ASSUME NEW s \in Slot, entry'[s].status \in Exempt PROVE entry'[s].reason # None
    BY DEF ExemptHasReason
  <2>1. CASE ~Exists(s)
    <3>1. entry'[s] = NoRow \/ \E r \in Request : InsertsAt(r, s)
      BY <2>1, NextEntry DEF Exists, Overdues, Edits
    <3>2. ASSUME NEW r \in Request, InsertsAt(r, s) PROVE entry'[s].status = "pending"
      BY <3>2 DEF InsertsAt, Fresh
    <3> QED
      BY <3>1, <3>2 DEF NoRow, Exempt
  <2>2. CASE Exists(s)
    <3>1. ASSUME NEW r \in Request, Edits(r, s),
                 entry'[s].status = IF req[r].write.status = "keep" THEN entry[s].status
                                    ELSE req[r].write.status,
                 entry'[s].reason = IF req[r].write.reason = "keep" THEN entry[s].reason
                                    ELSE req[r].write.reason
          PROVE  entry'[s].reason # None
      BY <2>2, <3>1 DEF ReasonInv, ExemptHasReason, WritesExplained, Edits
    <3> QED
      BY <1>1, <2>2, <3>1 DEF ReasonInv, ExemptHasReason, NoRow, Exempt
  <2> QED
    BY <2>1, <2>2
<1>3. ASSUME NEW r \in Request, req'[r] = req[r], req[r].phase = "edit",
             Exists(req[r].slot), entry'[req[r].slot] # NoRow
      PROVE  LET w == req[r].write
                 s == req[r].slot
             IN /\ w.status \in Exempt /\ w.reason = "keep" => entry'[s].reason # None
                /\ w.status = "keep" /\ w.reason = None => entry'[s].status \notin Exempt
  <2> DEFINE w == req[r].write
             s == req[r].slot
  <2>1. s \in Slot /\ req[r] # NoReq
    BY <1>3, Phases DEF Editing, NoReq
  <2>2. ASSUME NEW q \in Request, Edits(q, s),
               entry'[s].status = IF req[q].write.status = "keep" THEN entry[s].status
                                  ELSE req[q].write.status,
               entry'[s].reason = IF req[q].write.reason = "keep" THEN entry[s].reason
                                  ELSE req[q].write.reason
        PROVE  /\ w.status \in Exempt /\ w.reason = "keep" => entry'[s].reason # None
               /\ w.status = "keep" /\ w.reason = None => entry'[s].status \notin Exempt
    <3>1. q # r
      BY <1>3, <2>1, <2>2 DEF Edits
    <3>2. r \in Patcher => q \notin Patcher
      BY <3>1 DEF OnePatcher
    <3>3. r \in Patcher => req[q].write.status \notin Exempt /\ req[q].write.reason = "keep"
      BY <2>2, <3>2 DEF Edits, ReasonInv, WritesExplained
    <3>4. /\ w.status \in Exempt \/ w.reason # "keep" => r \in Patcher
          /\ w.status \in Exempt /\ w.reason = "keep" => entry[s].reason # None
          /\ w.status = "keep" /\ w.reason = None => entry[s].status \notin Exempt
      BY <1>3 DEF ReasonInv, WritesExplained
    <3>5. None # "keep"
      BY ConstantsOK
    <3> QED
      BY <2>2, <3>3, <3>4, <3>5
  <2>3. /\ w.status \in Exempt /\ w.reason = "keep" => entry[s].reason # None
        /\ w.status = "keep" /\ w.reason = None => entry[s].status \notin Exempt
    BY <1>3 DEF ReasonInv, WritesExplained
  <2>4. "overdue" \notin Exempt
    BY DEF Exempt
  <2> QED
    BY <1>1, <1>3, <2>1, <2>2, <2>3, <2>4
<1>4. WritesExplained'
  <2> SUFFICES ASSUME NEW r \in Request, req'[r].phase = "edit"
               PROVE  LET w == req'[r].write
                          s == req'[r].slot
                      IN /\ w.status \in Exempt \/ w.reason # "keep" => r \in Patcher
                         /\ w.status \in Exempt =>
                               /\ w.reason # None
                               /\ w.reason = "keep" =>
                                     entry'[s] = NoRow \/ entry'[s].reason # None
                         /\ w.status = "keep" /\ w.reason = None =>
                               entry'[s] = NoRow \/ entry'[s].status \notin Exempt
    BY DEF WritesExplained, Exists
  <2>1. CASE req'[r] = req[r]
    <3>1. CASE Exists(req[r].slot)
      BY <1>3, <2>1, <3>1 DEF ReasonInv, WritesExplained
    <3>2. CASE ~Exists(req[r].slot)
      <4>1. req[r].slot \in Slot /\ req[r].slot.lease \notin lease
        BY <2>1, <3>2, Phases DEF Editing, Vacancy, Holds
      <4>2. entry'[req[r].slot] = NoRow
        BY <3>2, <4>1, NextEntry DEF Exists, InsertsAt, Overdues, Edits
      <4> QED
        BY <2>1, <4>2 DEF ReasonInv, WritesExplained
    <3> QED
      BY <3>1, <3>2
  <2>2. CASE req'[r] = NoReq
    BY <2>2 DEF NoReq
  <2>3. CASE GenerateAnswers(r)
    BY <2>3 DEF GenerateAnswers
  <2>4. CASE Reads(r) /\ UNCHANGED <<lease, rule, entry>>
    BY <2>4, WritesBegin
  <2> QED
    BY <2>1, <2>2, <2>3, <2>4, NextReq
<1> QED
  BY <1>2, <1>4 DEF ReasonInv

\* While changes of status do not overlap each other, every exemption has its
\* reason, whatever filings, refreshes and generations they overlap with.
THEOREM ExemptionsExplained ==
  ASSUME OnePatcher PROVE Spec => []ExemptHasReason
<1>1. Init => TypeOK /\ Vacancy /\ ReasonInv
  BY DEF Init, TypeOK, Vacancy, Holds, ReasonInv, ExemptHasReason, WritesExplained, NoReq, NoRow,
         Exempt
<1>2. TypeOK /\ Vacancy /\ ReasonInv /\ [Next]_vars => (TypeOK /\ Vacancy /\ ReasonInv)'
  BY TypeStep, VacancyStep, ReasonStep
<1>3. ReasonInv => ExemptHasReason
  BY DEF ReasonInv
<1> QED
  BY <1>1, <1>2, <1>3, PTL DEF Spec

\* What one step does to a filing or an exemption that nobody holds.
LEMMA StandsStep ==
  ASSUME TypeOK, [Next]_vars, NEW s \in Slot, Decided(s), ~Held(s), Exists(s)'
  PROVE  /\ entry'[s] = entry[s]
         /\ Held(s)' => \E r \in Request :
               /\ req'[r].phase = "edit" /\ req'[r].slot = s
               /\ r \in Patcher \/ entry[s].status = "submitted"
<1>1. entry'[s] = entry[s]
  BY NextEntry DEF Held, Decided, Exists, InsertsAt, Overdues, Edits
<1>2. ASSUME NEW r \in Request,
             \/ req'[r].phase = "refresh" /\ s \in req'[r].stale
             \/ req'[r].phase = "edit" /\ s = req'[r].slot
      PROVE  /\ req'[r].phase = "edit" /\ req'[r].slot = s
             /\ r \in Patcher \/ entry[s].status = "submitted"
  <2>1. Reads(r)
    <3>1. req'[r] # req[r]
      BY <1>2 DEF Held
    <3>2. req'[r] # NoReq /\ ~GenerateAnswers(r)
      BY <1>2 DEF NoReq, GenerateAnswers
    <3> QED
      BY <3>1, <3>2, NextReq
  <2> USE DEF Becomes, TypeOK
  <2>2. ASSUME NEW asOf \in AsOf, RefreshRead(r, asOf) PROVE FALSE
    BY <1>2, <2>2 DEF RefreshRead, Lapsed, Decided, Exempt
  <2>3. ASSUME NEW t \in Slot, SubmitRead(r, t)
        PROVE  /\ req'[r].phase = "edit" /\ req'[r].slot = s
               /\ entry[s].status = "submitted"
    BY <1>2, <2>3 DEF SubmitRead, Decided
  <2>4. ASSUME NEW t \in Slot, NEW status \in Patched, NEW reason \in Reason \cup {None},
               PatchRead(r, t, status, reason)
        PROVE  req'[r].phase = "edit" /\ req'[r].slot = s /\ r \in Patcher
    BY <1>2, <2>4 DEF PatchRead
  <2>5. ASSUME NEW l \in Lease, NEW w \in Window, GeneratePlan(r, l, w) PROVE FALSE
    BY <1>2, <2>5 DEF GeneratePlan
  <2>6. ASSUME GenerateMatch(r) PROVE FALSE
    BY <1>2, <2>6 DEF GenerateMatch
  <2> QED
    BY <2>1, <2>2, <2>3, <2>4, <2>5, <2>6 DEF Reads
<1> QED
  BY <1>1, <1>2 DEF Held

\* What has been filed or exempted is next taken up by a PATCH or a new filing,
\* unless a request that read it earlier is still under way.
THEOREM FiledStaysFiled == Spec => DecisionsStand
<1> DEFINE Stands == \A s \in Slot : Decided(s) /\ ~Held(s) /\ Exists(s)' =>
              /\ entry'[s] = entry[s]
              /\ Held(s)' => \E r \in Request :
                    /\ req'[r].phase = "edit" /\ req'[r].slot = s
                    /\ r \in Patcher \/ entry[s].status = "submitted"
<1>1. TypeOK /\ [Next]_vars => [Stands]_vars
  BY StandsStep
<1> QED
  BY <1>1, TypeInvariant, PTL DEF Spec, DecisionsStand

=============================================================================
