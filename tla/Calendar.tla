------------------------------ MODULE Calendar ------------------------------
(***************************************************************************)
(* The statutory calendar: obligation rules, the entries generated from    *)
(* them, the overdue refresh, filings and changes of status.               *)
(* (services/api/app/services/calendar.py, services/api/app/api/v1/        *)
(* calendar.py, services/api/app/api/v1/obligations.py,                    *)
(* services/api/app/models/obligation.py)                                  *)
(*                                                                         *)
(* Every request runs in a session of its own, reads rows without locks    *)
(* and commits later; a commit writes only the attributes whose value      *)
(* differs from what the request loaded.  A table row of lease_obligations *)
(* is found by what its unique index covers: the lease, the rule and the   *)
(* first day of the period.  How periods are computed is the business of   *)
(* CalendarMath; here a cadence cuts time into disjoint periods.           *)
(***************************************************************************)
EXTENDS Integers, FiniteSets

CONSTANTS
    Lease,         \* identities of leases
    Rule,          \* identities of obligation rules
    Request,       \* concurrent requests
    Patcher,       \* the requests that may turn into PATCH /calendar/{id}
    None,          \* SQL's NULL
    Reason,        \* waiver reasons
    LastDay,       \* bound of the dates in an instance
    Cadence,       \* the cadences that have periods: monthly to annual
    YearEnd,       \* the months fiscal years may end with in an instance
    Period,        \* the period of a cadence and fiscal year end that contains a date
    Term,          \* effective_from and effective_to of each lease
    Definition,    \* the contents rules may have in an instance
    Window,        \* the windows generation is asked for
    AsOf,          \* the evaluation dates clients send
    Patched,       \* the statuses PATCH sets in an instance
    Faults         \* which of "delete", "cadence_edit", "abandon" may occur

Time == 0 .. LastDay
Recurrence == Cadence \cup {"one_time"}
Status == {"pending", "in_progress", "submitted", "overdue", "waived", "not_applicable"}
Exempt == {"waived", "not_applicable"}
Span == [start : Time, end : Time]

\* The part of an Obligation that scheduling reads; "types" and "minerals" stand for
\* the leases that its lists of lease types and of mineral categories let through.
RuleRow == [recurrence : Recurrence, yearEnd : YearEnd, dueDays : Nat,
            types : SUBSET Lease, minerals : SUBSET Lease, active : BOOLEAN]
NoRule == [recurrence |-> "none"]

ASSUME ConstantsOK ==
    /\ LastDay \in Nat
    /\ Patcher \subseteq Request
    /\ "one_time" \notin Cadence
    /\ Term \in [Lease -> Span]
    /\ Definition \subseteq RuleRow
    /\ Window \subseteq Span
    /\ AsOf \subseteq Nat
    /\ Patched \subseteq Status
    /\ Faults \subseteq {"delete", "cadence_edit", "abandon"}
    /\ None \notin Reason
    /\ "keep" \notin Reason \cup {None}
    /\ "none" \notin Recurrence

\* What CalendarMath shows of period_containing: a date lies in its period, and
\* all dates of a period agree on it.
ASSUME PeriodsOK ==
    /\ Period \in [Cadence -> [YearEnd -> [Time -> Span]]]
    /\ \A c \in Cadence, y \in YearEnd : \A t \in Time :
          LET p == Period[c][y][t]
          IN /\ p.start <= t /\ t <= p.end
             /\ \A u \in p.start .. p.end : Period[c][y][u] = p

VARIABLES
    lease,   \* the leases on the register
    rule,    \* obligations
    entry,   \* lease_obligations
    req      \* the requests being served

vars == <<lease, rule, entry, req>>

\* What the unique index of lease_obligations distinguishes.
Slot == [lease : Lease, rule : Rule, start : Time]
\* A PlannedInstance.
Item == [rule : Rule, start : Time, end : Time, due : Nat]
\* A LeaseObligation; "filed" is whether submitted_at is set.
Row == [end : Time, due : Nat, status : Status, filed : BOOLEAN, reason : Reason \cup {None}]
NoRow == [status |-> "none"]

\* The attributes a request is about to write; "keep" leaves one alone.
Write == [status : Status \cup {"keep"}, filed : BOOLEAN,
          reason : Reason \cup {None, "keep"}]

Planning == [phase : {"plan"}, lease : Lease, items : SUBSET Item]
Matching == [phase : {"match"}, lease : Lease, items : SUBSET Item, missing : SUBSET Item]
Answering == [phase : {"answer"}, lease : Lease, items : SUBSET Item]
Refreshing == [phase : {"refresh"}, stale : SUBSET Slot]
Editing == [phase : {"edit"}, slot : Slot, write : Write]
Req == Planning \cup Matching \cup Answering \cup Refreshing \cup Editing
NoReq == [phase |-> "idle"]

TypeOK ==
    /\ lease \subseteq Lease
    /\ rule \in [Rule -> RuleRow \cup {NoRule}]
    /\ entry \in [Slot -> Row \cup {NoRow}]
    /\ req \in [Request -> Req \cup {NoReq}]

Init ==
    /\ lease = Lease
    /\ rule = [q \in Rule |-> NoRule]
    /\ entry = [s \in Slot |-> NoRow]
    /\ req = [r \in Request |-> NoReq]

Idle(r) == req[r].phase = "idle"
Becomes(r, next) == req' = [req EXCEPT ![r] = next]
Exists(s) == entry[s] # NoRow

(***************************************************************************)
(* Rules.                                                                  *)
(***************************************************************************)

\* POST /obligations.
CreateRule(q, d) ==
    /\ rule[q] = NoRule
    /\ rule' = [rule EXCEPT ![q] = d]
    /\ UNCHANGED <<lease, entry, req>>

\* PATCH /obligations/{id}.  Entries generated earlier stay as they are.  (Bound:
\* recurrence and fiscal year end are edited only with "cadence_edit" in Faults.)
UpdateRule(q, d) ==
    /\ rule[q] # NoRule
    /\ \/ d.recurrence = rule[q].recurrence /\ d.yearEnd = rule[q].yearEnd
       \/ "cadence_edit" \in Faults
    /\ rule' = [rule EXCEPT ![q] = d]
    /\ UNCHANGED <<lease, entry, req>>

(***************************************************************************)
(* POST /leases/{id}/obligations/generate.                                 *)
(***************************************************************************)

InScope(q, l) ==
    rule[q] # NoRule /\ rule[q].active /\ l \in rule[q].types \cap rule[q].minerals
InTerm(p, l) == p.end >= Term[l].start /\ p.start <= Term[l].end

\* Mutant: a period begins where the window meets it.
PeriodOfClipped(q, t) == [Period[rule[q].recurrence][rule[q].yearEnd][t] EXCEPT !.start = t]
PeriodOf(q, t) == Period[rule[q].recurrence][rule[q].yearEnd][t]
\* plan_instances: a rule with periods contributes those that meet the window
\* and the term of the lease.  The endpoint passes no one_time_due_date, so
\* one-time rules contribute nothing.
Plan(l, w) ==
    UNION {{[rule |-> q, start |-> PeriodOf(q, t).start, end |-> PeriodOf(q, t).end,
             due |-> PeriodOf(q, t).end + rule[q].dueDays] :
               t \in {t \in w.start .. w.end : InTerm(PeriodOf(q, t), l)}} :
           q \in {q \in Rule : InScope(q, l) /\ rule[q].recurrence \in Cadence}}

SlotOf(l, i) == [lease |-> l, rule |-> i.rule, start |-> i.start]

\* The lease and the active rules are read and the plan is made.
GeneratePlan(r, l, w) ==
    /\ Idle(r)
    /\ l \in lease
    /\ Becomes(r, [phase |-> "plan", lease |-> l, items |-> Plan(l, w)])
    /\ UNCHANGED <<lease, rule, entry>>

\* Mutant: entries are matched on the rule alone.
GenerateMatchByRule(r) ==
    LET g == req[r]
        Known == {s.rule : s \in {s \in Slot : s.lease = g.lease /\ Exists(s)}}
    IN /\ g.phase = "plan"
       /\ Becomes(r, [phase |-> "match", lease |-> g.lease, items |-> g.items,
                      missing |-> {i \in g.items : i.rule \notin Known}])
       /\ UNCHANGED <<lease, rule, entry>>

\* The lease's entries are read and what is missing is determined.
GenerateMatch(r) ==
    LET g == req[r]
    IN /\ g.phase = "plan"
       /\ Becomes(r, [phase |-> "match", lease |-> g.lease, items |-> g.items,
                      missing |-> {i \in g.items : ~Exists(SlotOf(g.lease, i))}])
       /\ UNCHANGED <<lease, rule, entry>>

Fresh(i) == [end |-> i.end, due |-> i.due, status |-> "pending", filed |-> FALSE,
             reason |-> None]
Inserted(l, items) ==
    [s \in Slot |-> IF \E i \in items : SlotOf(l, i) = s
                    THEN Fresh(CHOOSE i \in items : SlotOf(l, i) = s)
                    ELSE entry[s]]

\* The INSERTs and the commit.  An entry somebody else inserted in the meantime
\* violates the unique index, a deleted lease the foreign key: all are rolled
\* back.
GenerateCommit(r) ==
    LET g == req[r]
        Clash == \E i \in g.missing : Exists(SlotOf(g.lease, i))
    IN /\ g.phase = "match"
       /\ IF Clash \/ (g.missing # {} /\ g.lease \notin lease)
          THEN /\ Becomes(r, NoReq)
               /\ UNCHANGED entry
          ELSE /\ entry' = Inserted(g.lease, g.missing)
               /\ Becomes(r, [phase |-> "answer", lease |-> g.lease, items |-> g.items])
       /\ UNCHANGED <<lease, rule>>

\* The lease's calendar is read back for the response.
GenerateAnswer(r) ==
    /\ req[r].phase = "answer"
    /\ Becomes(r, NoReq)
    /\ UNCHANGED <<lease, rule, entry>>

(***************************************************************************)
(* POST /calendar/refresh.                                                 *)
(***************************************************************************)

Lapsed(s, asOf) ==
    /\ Exists(s)
    /\ entry[s].due < asOf
    /\ entry[s].status \in {"pending", "in_progress"}

RefreshRead(r, asOf) ==
    /\ Idle(r)
    /\ Becomes(r, [phase |-> "refresh", stale |-> {s \in Slot : Lapsed(s, asOf)}])
    /\ UNCHANGED <<lease, rule, entry>>

\* Every row read becomes overdue, whatever it is by now; when one is gone its
\* UPDATE matches nothing and the refresh is rolled back.
RefreshCommit(r) ==
    /\ req[r].phase = "refresh"
    /\ entry' = IF \A s \in req[r].stale : Exists(s)
                THEN [s \in Slot |-> IF s \in req[r].stale
                                     THEN [entry[s] EXCEPT !.status = "overdue"]
                                     ELSE entry[s]]
                ELSE entry
    /\ Becomes(r, NoReq)
    /\ UNCHANGED <<lease, rule>>

(***************************************************************************)
(* Filings and changes of status.                                          *)
(***************************************************************************)

Diff(old, new) == IF old = new THEN "keep" ELSE new

\* Mutant: an exempt entry takes a filing.
SubmitReadExempt(r, s) ==
    /\ Idle(r)
    /\ Exists(s)
    /\ Becomes(r, [phase |-> "edit", slot |-> s,
                   write |-> [status |-> Diff(entry[s].status, "submitted"),
                              filed |-> TRUE, reason |-> "keep"]])
    /\ UNCHANGED <<lease, rule, entry>>

\* POST /calendar/{id}/submit: an exempt entry is refused.
SubmitRead(r, s) ==
    /\ Idle(r)
    /\ Exists(s)
    /\ entry[s].status \notin Exempt
    /\ Becomes(r, [phase |-> "edit", slot |-> s,
                   write |-> [status |-> Diff(entry[s].status, "submitted"),
                              filed |-> TRUE, reason |-> "keep"]])
    /\ UNCHANGED <<lease, rule, entry>>

\* What PATCH does to waiver_reason: an exemption records one, reopening clears
\* it, a filing leaves it.
ReasonWrite(row, status, reason) ==
    IF status \in Exempt THEN Diff(row.reason, reason)
    ELSE IF status = "submitted" THEN "keep"
    ELSE Diff(row.reason, None)

\* Mutant: exempting without a reason is accepted.
PatchReadUnexplained(r, s, status, reason) ==
    /\ Idle(r)
    /\ r \in Patcher
    /\ Exists(s)
    /\ Becomes(r, [phase |-> "edit", slot |-> s,
                   write |-> [status |-> Diff(entry[s].status, status),
                              filed |-> status = "submitted" /\ ~entry[s].filed,
                              reason |-> ReasonWrite(entry[s], status, reason)]])
    /\ UNCHANGED <<lease, rule, entry>>

\* PATCH /calendar/{id}; ObligationStatusUpdate demands a reason to exempt.
PatchRead(r, s, status, reason) ==
    /\ Idle(r)
    /\ r \in Patcher
    /\ Exists(s)
    /\ status \in Exempt => reason # None
    /\ Becomes(r, [phase |-> "edit", slot |-> s,
                   write |-> [status |-> Diff(entry[s].status, status),
                              filed |-> status = "submitted" /\ ~entry[s].filed,
                              reason |-> ReasonWrite(entry[s], status, reason)]])
    /\ UNCHANGED <<lease, rule, entry>>

\* Mutant: the sentinel for an absent attribute is stored.
WrittenRaw(row, w) == [row EXCEPT !.status = w.status, !.filed = @ \/ w.filed]

Written(row, w) ==
    [row EXCEPT !.status = IF w.status = "keep" THEN @ ELSE w.status,
                !.filed = @ \/ w.filed,
                !.reason = IF w.reason = "keep" THEN @ ELSE w.reason]

EditCommit(r) ==
    LET s == req[r].slot
    IN /\ req[r].phase = "edit"
       /\ entry' = IF Exists(s) THEN [entry EXCEPT ![s] = Written(@, req[r].write)] ELSE entry
       /\ Becomes(r, NoReq)
       /\ UNCHANGED <<lease, rule>>

(***************************************************************************)
(* Around the requests.                                                    *)
(***************************************************************************)

\* DELETE /leases/{id} takes the lease's entries with it.
DeleteLease(l) ==
    /\ "delete" \in Faults
    /\ l \in lease
    /\ lease' = lease \ {l}
    /\ entry' = [s \in Slot |-> IF s.lease = l THEN NoRow ELSE entry[s]]
    /\ UNCHANGED <<rule, req>>

\* The process or the connection dies: the transaction is rolled back.
Abandon(r) ==
    /\ "abandon" \in Faults
    /\ ~Idle(r)
    /\ Becomes(r, NoReq)
    /\ UNCHANGED <<lease, rule, entry>>

Generate(r) ==
    \/ \E l \in Lease, w \in Window : GeneratePlan(r, l, w)
    \/ GenerateMatch(r) \/ GenerateCommit(r) \/ GenerateAnswer(r)
Refresh(r) == (\E asOf \in AsOf : RefreshRead(r, asOf)) \/ RefreshCommit(r)
Edit(r) ==
    \/ \E s \in Slot : \/ SubmitRead(r, s)
                       \/ \E status \in Patched, reason \in Reason \cup {None} :
                             PatchRead(r, s, status, reason)
    \/ EditCommit(r)

Next ==
    \/ \E q \in Rule, d \in Definition : CreateRule(q, d) \/ UpdateRule(q, d)
    \/ \E r \in Request : Generate(r) \/ Refresh(r) \/ Edit(r) \/ Abandon(r)
    \/ \E l \in Lease : DeleteLease(l)

Spec == Init /\ [][Next]_vars

(***************************************************************************)
(* Properties.                                                             *)
(***************************************************************************)

\* Whatever refreshes, filings and changes of status overlap, an entry that
\* counts as filed has the time the score needs to judge it
\* (services/compliance.py:174, api/v1/calendar.py:291).
FiledHasTime == \A s \in Slot : entry[s].status = "submitted" => entry[s].filed

\* "An exemption without a recorded reason is indefensible in an audit"
\* (api/v1/calendar.py:284).  Holds while PATCHes do not overlap each other, and
\* is lost when one reopens an entry another one exempts again.
ExemptHasReason == \A s \in Slot : entry[s].status \in Exempt => entry[s].reason # None

\* Every period the request r planned has its entry, for exactly that period.
Complete(r) ==
    \A i \in req[r].items : LET s == SlotOf(req[r].lease, i)
                             IN Exists(s) /\ entry[s].end = i.end
\* When generation answers, it is complete: "instances are matched on (lease, rule,
\* period)" (services/calendar.py:245).  Holds while rules keep their cadence:
\* recurrence and fiscal year end.
PlannedExists ==
    \A r \in Request : req[r].phase = "answer" /\ req[r].lease \in lease => Complete(r)

\* A rule asks a lease for one filing at a time: the entries it led to never
\* cover a day twice.  Holds while rules keep their cadence; a PATCH of the
\* recurrence, or of the fiscal year end alone (schemas/obligation.py:54), leaves
\* entries of both cadences behind.
NoOverlap ==
    \A s, t \in Slot :
        Exists(s) /\ Exists(t) /\ s.lease = t.lease /\ s.rule = t.rule /\ s.start < t.start
            => entry[s].end < t.start

Held(s) == \E r \in Request : \/ req[r].phase = "refresh" /\ s \in req[r].stale
                              \/ req[r].phase = "edit" /\ s = req[r].slot
Decided(s) == Exists(s) /\ entry[s].status \in Exempt \cup {"submitted"}
\* Generation "never disturbs recorded submissions" (api/v1/obligations.py:213),
\* a refresh touches only what is open and an exempt entry takes no filing
\* before it is reopened (api/v1/calendar.py:249): what has been filed or
\* exempted is next taken up by a person's PATCH or, when filed, a new filing,
\* unless a request that read it earlier is still under way.
DecisionsStand ==
    [][\A s \in Slot : Decided(s) /\ ~Held(s) /\ Exists(s)' =>
          /\ entry'[s] = entry[s]
          /\ Held(s)' => \E r \in Request :
                /\ req'[r].phase = "edit" /\ req'[r].slot = s
                /\ r \in Patcher \/ entry[s].status = "submitted"]_vars

=============================================================================
