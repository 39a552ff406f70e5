------------------------------ MODULE SeedProofs ------------------------------
(* Theorems about Seed, for every value of its constants. *)
EXTENDS Seed, CalendarProofs

\* What a request does is a step of Calendar.
LEMMA ServeStep ==
  ASSUME NEW r \in Request, Serve(r)
  PROVE  Next /\ lease' = lease /\ UNCHANGED seedVars
BY DEF Serve, Next, Generate, Refresh, Edit, GeneratePlan, GenerateMatch, GenerateCommit,
       GenerateAnswer, RefreshRead, RefreshCommit, SubmitRead, PatchRead, EditCommit, Abandon

\* So is what an administrator does to a rule.
LEMMA ChangeStep ==
  ASSUME NEW q \in Rule, NEW d \in Definition, ChangeRule(q, d)
  PROVE  Next /\ UNCHANGED <<lease, entry, req, reference, seeding, crew>>
BY DEF ChangeRule, Next, CreateRule, UpdateRule

\* The parts of a session.
LEMMA SessionTyped ==
  ASSUME SeedTypeOK, seeding # NoSession
  PROVE  /\ seeding \in Session
         /\ seeding.filings \in BOOLEAN
         /\ seeding.reference \in [Key -> Content \cup {"absent"}]
         /\ seeding.rules \in [Rule -> RuleRow \cup {NoRule}]
         /\ seeding.todo \in SUBSET Lease
         /\ seeding.made \in [Slot -> Row \cup {NoRow}]
         /\ seeding.write \in [Slot -> Write]
         /\ seeding.gone \in SUBSET Holder
BY DEF SeedTypeOK, Session

LEMMA KeepTyped == Keep \in Write
BY DEF Keep, Write

\* What the command makes of a row: a rule of the pack is there and has the pack's
\* recurrence, and what it does not set stays.
LEMMA RestoredTyped ==
  ASSUME NEW q \in Rule, NEW row \in RuleRow \cup {NoRule}
  PROVE  /\ Restored(q, row) \in RuleRow \cup {NoRule}
         /\ q \in DOMAIN PackRule => Restored(q, row) \in RuleRow
         /\ q \notin DOMAIN PackRule => Restored(q, row) = row
<1>1. CASE q \notin DOMAIN PackRule \/ row = NoRule
  BY <1>1, SeedConstantsOK, ConstantsOK DEF Restored
<1>2. CASE q \in DOMAIN PackRule /\ row \in RuleRow
  <2>1. PackRule[q] \in RuleRow
    BY <1>2, SeedConstantsOK, ConstantsOK
  <2> DEFINE minerals == IF q \in PackMinerals THEN PackRule[q].minerals ELSE row.minerals
  <2>2. minerals \in SUBSET Lease
    BY <1>2, <2>1 DEF RuleRow
  <2>3. row # NoRule
    BY <1>2 DEF RuleRow, NoRule
  <2>4. Restored(q, row) = [row EXCEPT !.recurrence = PackRule[q].recurrence,
                                       !.dueDays = PackRule[q].dueDays,
                                       !.types = PackRule[q].types, !.minerals = minerals]
    BY <1>2, <2>3 DEF Restored, RuleRow
  <2> HIDE DEF minerals
  <2> QED
    BY <1>2, <2>1, <2>2, <2>4 DEF RuleRow
<1> QED
  BY <1>1, <1>2

LEMMA SeenRuleTyped ==
  ASSUME SeedTypeOK, seeding # NoSession, NEW q \in Rule
  PROVE  SeenRule(q) \in RuleRow \cup {NoRule}
BY SessionTyped, RestoredTyped DEF SeenRule

\* What a rule contributes to a plan: entries for its periods.
LEMMA ScheduleItems ==
  ASSUME NEW q \in Rule, NEW row \in RuleRow \cup {NoRule}, NEW l, NEW i \in Schedule(q, row, l)
  PROVE  /\ i \in Item /\ i.rule = q
         /\ row \in RuleRow /\ row.recurrence \in Cadence
         /\ i.start <= i.end
         /\ Period[row.recurrence][row.yearEnd][i.start].start = i.start
         /\ Period[row.recurrence][row.yearEnd][i.start].end = i.end
<1> DEFINE When(t) == Period[row.recurrence][row.yearEnd][t]
<1>1. /\ row # NoRule /\ row.recurrence \in Cadence
      /\ \E t \in SeedWindow.start .. SeedWindow.end :
            i = [rule |-> q, start |-> When(t).start, end |-> When(t).end,
                 due |-> When(t).end + row.dueDays]
  BY Zenon DEF Schedule
<1>2. PICK t \in SeedWindow.start .. SeedWindow.end :
        i = [rule |-> q, start |-> When(t).start, end |-> When(t).end,
             due |-> When(t).end + row.dueDays]
  BY <1>1
<1>3. t \in Time
  BY SeedConstantsOK, ConstantsOK DEF Span, Time
<1>4. row \in RuleRow /\ row.yearEnd \in YearEnd
  BY <1>1 DEF RuleRow
<1>5. When(t) \in Span /\ When(t).start <= When(t).end /\ When(When(t).start) = When(t)
  BY <1>1, <1>3, <1>4, PeriodTyped
<1>6. When(t).end + row.dueDays \in Nat
  BY <1>4, <1>5 DEF RuleRow, Span, Time
<1>7. i.rule = q /\ i.start = When(t).start /\ i.end = When(t).end
  BY <1>2
<1>8. i \in Item
  BY <1>2, <1>5, <1>6 DEF Item, Span
<1> QED
  BY <1>1, <1>4, <1>5, <1>7, <1>8

\* What the command plans for a lease: entries for periods of the rules it sees.
LEMMA PlannedItems ==
  ASSUME SeedTypeOK, seeding # NoSession, NEW l \in Lease, NEW i \in PlannedFor(l)
  PROVE  /\ i \in Item
         /\ SeenRule(i.rule) \in RuleRow
         /\ SeenRule(i.rule).recurrence \in Cadence
         /\ i.start <= i.end
         /\ Period[SeenRule(i.rule).recurrence][SeenRule(i.rule).yearEnd][i.start].start = i.start
         /\ Period[SeenRule(i.rule).recurrence][SeenRule(i.rule).yearEnd][i.start].end = i.end
<1>1. PICK q \in Rule : i \in Schedule(q, SeenRule(q), l)
  BY DEF PlannedFor
<1> QED
  BY <1>1, SeenRuleTyped, ScheduleItems

\* What one generation adds to the rows the session made.
LEMMA MadeRow ==
  ASSUME SeedTypeOK, seeding # NoSession, NEW l \in PackLease, SeedGenerate(l), NEW s \in Slot
  PROVE  \/ seeding'.made[s] = seeding.made[s]
         \/ \E i \in PlannedFor(l) : SlotOf(l, i) = s /\ seeding'.made[s] = Fresh(i)
<1> DEFINE missing == {i \in PlannedFor(l) : ~Exists(SlotOf(l, i))}
<1>1. seeding'.made[s] = IF \E i \in missing : SlotOf(l, i) = s
                         THEN Fresh(CHOOSE i \in missing : SlotOf(l, i) = s)
                         ELSE seeding.made[s]
  BY SessionTyped DEF SeedGenerate, Session
<1>2. CASE \E i \in missing : SlotOf(l, i) = s
  <2> DEFINE c == CHOOSE i \in missing : SlotOf(l, i) = s
  <2>1. c \in missing /\ SlotOf(l, c) = s
    BY <1>2
  <2> QED
    BY <1>1, <1>2, <2>1
<1> QED
  BY <1>1, <1>2

LEMMA InventedTyped ==
  ASSUME NEW row \in Row, NEW verdict \in {"submitted", "waived", "overdue"}
  PROVE  Invented(row, verdict) \in Write
<1>1. Diff(row.status, verdict) \in Status \cup {"keep"}
  BY DEF Diff, Status
<1>2. (IF verdict = "waived" THEN Diff(row.reason, SeedReason) ELSE "keep")
        \in Reason \cup {None, "keep"}
  BY SeedConstantsOK DEF Diff
<1>3. (verdict = "submitted") \in BOOLEAN
  OBVIOUS
<1> QED
  BY <1>1, <1>2, <1>3 DEF Invented, Write

\* What the invented history holds for each entry.
LEMMA FiledWrite ==
  ASSUME SeedTypeOK, seeding # NoSession, SeedFile, NEW s \in Slot
  PROVE  /\ seeding'.write[s] \in Write
         /\ seeding'.write[s].status = "submitted" => seeding'.write[s].filed
<1> DEFINE due == {u \in Slot : Due(u)}
<1>1. PICK turn \in SUBSET due, filed \in SUBSET due :
        seeding' = [seeding EXCEPT
           !.phase = "commit",
           !.write = [u \in Slot |->
              IF u \in due
              THEN Invented(SeenRow(u), IF u \in filed THEN "submitted"
                                        ELSE IF u \in turn THEN "waived" ELSE "overdue")
              ELSE Keep]]
  BY ZenonT(60) DEF SeedFile
<1> DEFINE verdict == IF s \in filed THEN "submitted" ELSE IF s \in turn THEN "waived" ELSE "overdue"
<1>2. seeding'.write[s] = IF Due(s) THEN Invented(SeenRow(s), verdict) ELSE Keep
  BY <1>1, SessionTyped DEF Session
<1>3. CASE Due(s)
  <2>1. SeenRow(s) \in Row
    BY <1>3, SessionTyped DEF Due, SeenRow, SeedTypeOK, TypeOK
  <2>2. verdict \in {"submitted", "waived", "overdue"}
    OBVIOUS
  <2>3. Invented(SeenRow(s), verdict) \in Write
    BY <2>1, <2>2, InventedTyped
  <2>4. Invented(SeenRow(s), verdict).status = "submitted" =>
          Invented(SeenRow(s), verdict).filed
    BY <2>2 DEF Invented, Diff
  <2> QED
    BY <1>2, <1>3, <2>3, <2>4
<1>4. CASE ~Due(s)
  BY <1>2, <1>4, KeepTyped DEF Keep
<1> QED
  BY <1>3, <1>4

LEMMA SeededTyped ==
  ASSUME SeedTypeOK, seeding # NoSession, NEW s \in Slot
  PROVE  /\ SeenRow(s) \in Row \cup {NoRow}
         /\ SeededRow(s) \in Row \cup {NoRow}
         /\ SeenRow(s) # NoRow => SeededRow(s) \in Row
<1>1. SeenRow(s) \in Row \cup {NoRow}
  BY SessionTyped DEF SeenRow, SeedTypeOK, TypeOK
<1>2. seeding.write[s] \in Write
  BY SessionTyped
<1> QED
  BY <1>1, <1>2, WrittenTyped DEF SeededRow

\* A rule the session read is there.
RulesStay ==
    seeding # NoSession => \A q \in Rule : seeding.rules[q] # NoRule => rule[q] # NoRule

LEMMA UpsertedTyped ==
  ASSUME SeedTypeOK, RulesStay, seeding # NoSession, NEW q \in DOMAIN PackRule
  PROVE  UpsertedRule(q) \in RuleRow
<1>1. q \in Rule /\ PackRule[q] \in RuleRow
  BY SeedConstantsOK, ConstantsOK
<1>2. CASE seeding.rules[q] = NoRule
  BY <1>1, <1>2 DEF UpsertedRule
<1>3. CASE seeding.rules[q] # NoRule
  <2>1. rule[q] \in RuleRow
    BY <1>1, <1>3 DEF RulesStay, SeedTypeOK, TypeOK
  <2> DEFINE read == seeding.rules[q]
             pack == PackRule[q]
             recurrence == IF read.recurrence = pack.recurrence THEN rule[q].recurrence
                           ELSE pack.recurrence
             dueDays == IF read.dueDays = pack.dueDays THEN rule[q].dueDays ELSE pack.dueDays
             types == IF read.types = pack.types THEN rule[q].types ELSE pack.types
             minerals == IF q \notin PackMinerals \/ read.minerals = pack.minerals
                         THEN rule[q].minerals ELSE pack.minerals
  <2>2. /\ recurrence \in Recurrence /\ dueDays \in Nat
        /\ types \in SUBSET Lease /\ minerals \in SUBSET Lease
    BY <1>1, <2>1 DEF RuleRow
  <2>3. UpsertedRule(q) = [rule[q] EXCEPT !.recurrence = recurrence, !.dueDays = dueDays,
                                          !.types = types, !.minerals = minerals]
    BY <1>3, <2>1 DEF UpsertedRule, RuleRow
  <2> HIDE DEF recurrence, dueDays, types, minerals
  <2> QED
    BY <2>1, <2>2, <2>3 DEF RuleRow
<1> QED
  BY <1>2, <1>3

\* Of a rule that was there when it was read, the commit sets what the pack lists only.
LEMMA UpsertedFields ==
  ASSUME SeedTypeOK, RulesStay, seeding # NoSession, NEW q \in DOMAIN PackRule,
         seeding.rules[q] # NoRule
  PROVE  LET read == seeding.rules[q]
             pack == PackRule[q]
         IN /\ UpsertedRule(q).recurrence = IF read.recurrence = pack.recurrence
                                            THEN rule[q].recurrence ELSE pack.recurrence
            /\ UpsertedRule(q).yearEnd = rule[q].yearEnd
            /\ UpsertedRule(q).active = rule[q].active
            /\ q \notin PackMinerals => UpsertedRule(q).minerals = rule[q].minerals
<1>1. rule[q] \in RuleRow
  BY SeedConstantsOK DEF RulesStay, SeedTypeOK, TypeOK
<1> QED
  BY <1>1 DEF UpsertedRule, RuleRow

\* For the plan it is as if the commit had set all of what it lists.
LEMMA RestoredUpserted ==
  ASSUME SeedTypeOK, RulesStay, seeding # NoSession, NEW q \in DOMAIN PackRule
  PROVE  Restored(q, UpsertedRule(q)) = IF seeding.rules[q] = NoRule THEN PackRule[q]
                                        ELSE Restored(q, rule[q])
<1> DEFINE up == UpsertedRule(q)
           pack == PackRule[q]
<1>1. q \in Rule /\ pack \in RuleRow /\ up \in RuleRow /\ pack # NoRule /\ up # NoRule
  BY UpsertedTyped, SeedConstantsOK, ConstantsOK DEF RuleRow, NoRule
<1>2. CASE seeding.rules[q] = NoRule
  <2>1. up = pack
    BY <1>2 DEF UpsertedRule
  <2>2. Restored(q, pack) = [pack EXCEPT !.recurrence = pack.recurrence,
                                         !.dueDays = pack.dueDays, !.types = pack.types,
                                         !.minerals = pack.minerals]
    BY <1>1 DEF Restored, RuleRow
  <2>3. [pack EXCEPT !.recurrence = pack.recurrence, !.dueDays = pack.dueDays,
                     !.types = pack.types, !.minerals = pack.minerals] = pack
    BY <1>1 DEF RuleRow
  <2> QED
    BY <1>2, <2>1, <2>2, <2>3
<1>3. CASE seeding.rules[q] # NoRule
  <2>1. rule[q] \in RuleRow /\ rule[q] # NoRule
    BY <1>1, <1>3 DEF RulesStay, SeedTypeOK, TypeOK, RuleRow, NoRule
  <2>2. /\ up.yearEnd = rule[q].yearEnd /\ up.active = rule[q].active
        /\ q \notin PackMinerals => up.minerals = rule[q].minerals
    BY <1>3, UpsertedFields
  <2> HIDE DEF up
  <2>3. /\ Restored(q, up) \in RuleRow /\ Restored(q, rule[q]) \in RuleRow
    BY <1>1, <2>1, RestoredTyped
  <2>4. \A row \in RuleRow :
           row # NoRule =>
              /\ Restored(q, row).recurrence = pack.recurrence
              /\ Restored(q, row).yearEnd = row.yearEnd
              /\ Restored(q, row).dueDays = pack.dueDays
              /\ Restored(q, row).types = pack.types
              /\ Restored(q, row).minerals = IF q \in PackMinerals THEN pack.minerals
                                             ELSE row.minerals
              /\ Restored(q, row).active = row.active
    BY DEF Restored, RuleRow
  <2>5. \A a, b \in RuleRow :
           /\ a.recurrence = b.recurrence /\ a.yearEnd = b.yearEnd /\ a.dueDays = b.dueDays
           /\ a.types = b.types /\ a.minerals = b.minerals /\ a.active = b.active
           => a = b
    BY DEF RuleRow
  <2>6. Restored(q, up) = Restored(q, rule[q])
    BY <1>1, <2>1, <2>2, <2>3, <2>4, <2>5
  <2> QED
    BY <1>3, <2>6 DEF up
<1> QED
  BY <1>2, <1>3

LEMMA SeedTypeStep == SeedTypeOK /\ RulesStay /\ [SeedNext]_allVars => SeedTypeOK'
<1> SUFFICES ASSUME SeedTypeOK, RulesStay, [SeedNext]_allVars PROVE SeedTypeOK'
  OBVIOUS
<1> USE DEF SeedTypeOK
<1>0. returned' \subseteq Request
  BY DEF SeedNext, allVars
<1>1. ASSUME NEW filings \in BOOLEAN, SeedReference(filings) PROVE SeedTypeOK'
  <2>1. seeding' \in Session
    BY <1>1, KeepTyped DEF SeedReference, Session, TypeOK, NoRows, NoWrites, NoRow
  <2> QED
    BY <1>0, <1>1, <2>1 DEF SeedReference, TypeOK, vars
<1>2. CASE SeedLeases
  <2>1. seeding # NoSession
    BY <1>2 DEF SeedLeases, NoSession
  <2>2. seeding' \in Session
    BY <1>2, <2>1, SeedConstantsOK DEF SeedLeases, Session, TypeOK
  <2> QED
    BY <1>0, <1>2, <2>2 DEF SeedLeases, TypeOK, vars
<1>3. ASSUME NEW l \in PackLease, SeedGenerate(l) PROVE SeedTypeOK'
  <2>1. seeding # NoSession
    BY <1>3 DEF SeedGenerate, NoSession
  <2>2. seeding \in Session /\ l \in Lease
    BY <2>1, SeedConstantsOK
  <2> DEFINE missing == {i \in PlannedFor(l) : ~Exists(SlotOf(l, i))}
             phase == IF seeding.todo # {l} THEN "calendar"
                      ELSE IF seeding.filings THEN "file" ELSE "commit"
             made == [s \in Slot |-> IF \E i \in missing : SlotOf(l, i) = s
                                     THEN Fresh(CHOOSE i \in missing : SlotOf(l, i) = s)
                                     ELSE seeding.made[s]]
  <2>3. seeding' = [seeding EXCEPT !.todo = @ \ {l}, !.phase = phase, !.made = made]
    BY <1>3, <2>2 DEF SeedGenerate, Session
  <2>4. \A s \in Slot : made[s] \in Row \cup {NoRow}
    <3> SUFFICES ASSUME NEW s \in Slot PROVE made[s] \in Row \cup {NoRow}
      OBVIOUS
    <3>1. made[s] = seeding'.made[s]
      BY <2>2, <2>3 DEF Session
    <3>2. \A i \in PlannedFor(l) : Fresh(i) \in Row
      BY <2>1, <2>2, PlannedItems, FreshTyped
    <3> QED
      BY <1>3, <2>1, <3>1, <3>2, MadeRow, SessionTyped
  <2>5. made \in [Slot -> Row \cup {NoRow}]
    BY <2>4
  <2>6. phase \in {"calendar", "file", "commit"}
    OBVIOUS
  <2> HIDE DEF made, phase
  <2>7. seeding' \in Session
    BY <2>2, <2>3, <2>5, <2>6 DEF Session
  <2> QED
    BY <1>0, <1>3, <2>7 DEF SeedGenerate, TypeOK, vars
<1>4. CASE SeedFile
  <2>1. seeding # NoSession
    BY <1>4 DEF SeedFile, NoSession
  <2> DEFINE due == {s \in Slot : Due(s)}
  <2> DEFINE Writes(turn, filed) ==
                [s \in Slot |->
                   IF s \in due
                   THEN Invented(SeenRow(s), IF s \in filed THEN "submitted"
                                             ELSE IF s \in turn THEN "waived" ELSE "overdue")
                   ELSE Keep]
  <2>2. PICK turn \in SUBSET due, filed \in SUBSET due :
          seeding' = [seeding EXCEPT !.phase = "commit", !.write = Writes(turn, filed)]
    BY <1>4, ZenonT(60) DEF SeedFile
  <2> DEFINE write == Writes(turn, filed)
  <2>3. \A s \in Slot : write[s] = seeding'.write[s]
    BY <2>1, <2>2 DEF Session
  <2>4. write \in [Slot -> Write]
    BY <1>4, <2>1, <2>2, <2>3, FiledWrite
  <2>5. seeding' \in Session
    BY <2>1, <2>2, <2>4 DEF Session
  <2> QED
    BY <1>0, <1>4, <2>5 DEF SeedFile, TypeOK, vars
<1>5. CASE SeedCommit
  <2>1. seeding # NoSession
    BY <1>5 DEF SeedCommit, NoSession
  <2>2. CASE Fits
    <3>1. reference' \in [Key -> Content \cup {"absent"}]
      BY <1>5, <2>2 DEF SeedCommit, Upserted, Content
    <3>2. ident' \in [Holder -> {"unused", "holder", "renumbered"}]
      BY <1>5, <2>2 DEF SeedCommit, Identified
    <3>3. rule' \in [Rule -> RuleRow \cup {NoRule}]
      BY <1>5, <2>1, <2>2, UpsertedTyped DEF SeedCommit, TypeOK
    <3>4. entry' \in [Slot -> Row \cup {NoRow}]
      BY <1>5, <2>1, <2>2, SeededTyped DEF SeedCommit
    <3>5. lease' \subseteq Lease
      BY <1>5, <2>2, SeedConstantsOK DEF SeedCommit, TypeOK
    <3>6. loaded' \in BOOLEAN
      BY <1>5, <2>2 DEF SeedCommit
    <3> QED
      BY <1>0, <1>5, <3>1, <3>2, <3>3, <3>4, <3>5, <3>6 DEF SeedCommit, TypeOK
  <2>3. CASE ~Fits
    BY <1>0, <1>5, <2>3 DEF SeedCommit, TypeOK
  <2> QED
    BY <2>2, <2>3
<1>6. CASE SeedAbandon
  BY <1>0, <1>6 DEF SeedAbandon, TypeOK, vars
<1>7. ASSUME NEW k \in Key, Entered(k) PROVE SeedTypeOK'
  BY <1>0, <1>7 DEF Entered, TypeOK, vars, Content
<1>8. ASSUME NEW h \in Holder, RenumberHolder(h) PROVE SeedTypeOK'
  BY <1>0, <1>8 DEF RenumberHolder, TypeOK, vars, Content
<1>9. ASSUME NEW h \in Holder, DeleteHolder(h) PROVE SeedTypeOK'
  <2>1. seeding' \in Session \cup {NoSession}
    BY <1>9 DEF DeleteHolder, Missing, Session
  <2> QED
    BY <1>0, <1>9, <2>1 DEF DeleteHolder, TypeOK, vars, Content
<1>10. ASSUME NEW l \in Lease, DropLease(l) PROVE SeedTypeOK'
  BY <1>0, <1>10 DEF DropLease, TypeOK
<1>11. ASSUME NEW q \in Rule, NEW d \in Definition, ChangeRule(q, d) PROVE SeedTypeOK'
  <2>1. TypeOK'
    BY <1>11, ChangeStep, TypeStep
  <2> QED
    BY <1>0, <1>11, <2>1 DEF ChangeRule
<1>12. ASSUME NEW r \in Request, Serve(r) PROVE SeedTypeOK'
  <2>1. TypeOK'
    BY <1>12, ServeStep, TypeStep
  <2> QED
    BY <1>0, <1>12, <2>1 DEF Serve, seedVars
<1>13. CASE UNCHANGED allVars
  BY <1>13 DEF allVars, TypeOK
<1> QED
  BY <1>0, <1>1, <1>2, <1>3, <1>4, <1>5, <1>6, <1>7, <1>8, <1>9, <1>10, <1>11, <1>12, <1>13
  DEF SeedNext, Seeding, CreateMineral, UpdateMineral, CreateHolder, UpdateHolder, Key

\* A step of the session, or of somebody else.
LEMMA SessionNext ==
  ASSUME SeedTypeOK, [SeedNext]_allVars
  PROVE  \/ UNCHANGED seeding
         \/ seeding' = NoSession
         \/ \E filings \in BOOLEAN : SeedReference(filings)
         \/ SeedLeases
         \/ \E l \in PackLease : SeedGenerate(l)
         \/ SeedFile
         \/ /\ seeding # NoSession /\ UNCHANGED <<rule, entry>>
            /\ \E gone \in SUBSET Holder :
                  seeding.gone \subseteq gone /\ seeding' = [seeding EXCEPT !.gone = gone]
<1>1. ASSUME NEW h \in Holder, DeleteHolder(h), seeding # NoSession
      PROVE  /\ UNCHANGED <<rule, entry>>
             /\ \E gone \in SUBSET Holder :
                   seeding.gone \subseteq gone /\ seeding' = [seeding EXCEPT !.gone = gone]
  <2>1. seeding \in Session
    BY <1>1, SessionTyped
  <2>2. seeding' = [seeding EXCEPT !.gone = seeding.gone \cup {h}] \/ seeding' = seeding
    BY <1>1 DEF DeleteHolder, Missing
  <2>3. seeding = [seeding EXCEPT !.gone = seeding.gone]
    BY <2>1 DEF Session
  <2>4. seeding.gone \in SUBSET Holder /\ seeding.gone \cup {h} \in SUBSET Holder
    BY <2>1 DEF Session
  <2>5. \E gone \in SUBSET Holder :
           seeding.gone \subseteq gone /\ seeding' = [seeding EXCEPT !.gone = gone]
    BY <2>2, <2>3, <2>4
  <2> QED
    BY <1>1, <2>5 DEF DeleteHolder, vars
<1>2. ASSUME NEW h \in Holder, DeleteHolder(h), seeding = NoSession PROVE UNCHANGED seeding
  BY <1>2 DEF DeleteHolder, Missing
<1> QED
  BY <1>1, <1>2
  DEF SeedNext, Seeding, SeedCommit, SeedAbandon, CreateMineral, UpdateMineral, CreateHolder,
      UpdateHolder, Entered, RenumberHolder, DropLease, ChangeRule, Serve, seedVars, allVars

\* What holds of a session: an invented history only comes with filings, and sets
\* the time of what it files; new entries are open and of leases of the pack.
Invents ==
    seeding # NoSession =>
        /\ seeding.phase = "file" => seeding.filings
        /\ \A s \in Slot :
              /\ seeding.write[s] # Keep => seeding.filings
              /\ seeding.write[s].status = "submitted" => seeding.write[s].filed
              /\ seeding.made[s] # NoRow => /\ s.lease \in PackLease
                                            /\ seeding.made[s].status = "pending"

LEMMA InventsStep == SeedTypeOK /\ Invents /\ [SeedNext]_allVars => Invents'
<1> SUFFICES ASSUME SeedTypeOK, Invents, [SeedNext]_allVars PROVE Invents'
  OBVIOUS
<1>1. ASSUME NEW filings \in BOOLEAN, SeedReference(filings) PROVE Invents'
  BY <1>1 DEF SeedReference, Invents, NoRows, NoWrites, NoRow, Keep
<1>2. CASE SeedLeases
  <2>1. seeding # NoSession
    BY <1>2 DEF SeedLeases, NoSession
  <2>2. /\ seeding'.phase = "calendar" /\ seeding'.write = seeding.write
        /\ seeding'.made = seeding.made /\ seeding'.filings = seeding.filings
    BY <1>2, <2>1, SessionTyped DEF SeedLeases, Session
  <2> QED
    BY <2>1, <2>2 DEF Invents
<1>3. ASSUME NEW l \in PackLease, SeedGenerate(l) PROVE Invents'
  <2>1. seeding # NoSession
    BY <1>3 DEF SeedGenerate, NoSession
  <2>2. /\ seeding'.phase = "file" => seeding.filings
        /\ seeding'.write = seeding.write
        /\ seeding'.filings = seeding.filings
    BY <1>3, <2>1, SessionTyped DEF SeedGenerate, Session
  <2>3. ASSUME NEW s \in Slot, seeding'.made[s] # NoRow
        PROVE  s.lease \in PackLease /\ seeding'.made[s].status = "pending"
    <3>1. CASE seeding'.made[s] = seeding.made[s]
      BY <2>1, <2>3, <3>1 DEF Invents
    <3>2. ASSUME NEW i \in PlannedFor(l), SlotOf(l, i) = s, seeding'.made[s] = Fresh(i)
          PROVE  s.lease \in PackLease /\ seeding'.made[s].status = "pending"
      BY <3>2 DEF SlotOf, Fresh
    <3> QED
      BY <1>3, <2>1, <3>1, <3>2, MadeRow
  <2> QED
    BY <2>1, <2>2, <2>3 DEF Invents
<1>4. CASE SeedFile
  <2>1. seeding # NoSession /\ seeding.phase = "file"
    BY <1>4 DEF SeedFile, NoSession
  <2>2. /\ seeding'.phase = "commit" /\ seeding'.filings = seeding.filings
        /\ seeding'.made = seeding.made
    <3>1. PICK write : seeding' = [seeding EXCEPT !.phase = "commit", !.write = write]
      BY <1>4, ZenonT(60) DEF SeedFile
    <3> QED
      BY <2>1, <3>1, SessionTyped DEF Session
  <2> QED
    BY <1>4, <2>1, <2>2, FiledWrite DEF Invents
<1>5. ASSUME NEW gone \in SUBSET Holder, seeding # NoSession,
             seeding' = [seeding EXCEPT !.gone = gone]
      PROVE  Invents'
  <2>1. /\ seeding'.phase = seeding.phase /\ seeding'.write = seeding.write
        /\ seeding'.made = seeding.made /\ seeding'.filings = seeding.filings
    BY <1>5, SessionTyped DEF Session
  <2> QED
    BY <1>5, <2>1 DEF Invents
<1>6. CASE UNCHANGED seeding \/ seeding' = NoSession
  BY <1>6 DEF Invents
<1> QED
  BY <1>1, <1>2, <1>3, <1>4, <1>5, <1>6, SessionNext

\* Rules are never deleted.
LEMMA RulesKept ==
  ASSUME SeedTypeOK, RulesStay, [SeedNext]_allVars, NEW q \in Rule, rule[q] # NoRule
  PROVE  rule'[q] # NoRule
<1>1. ASSUME NEW p \in Rule, NEW d \in Definition, ChangeRule(p, d) PROVE rule'[q] # NoRule
  <2>1. d # NoRule
    BY ConstantsOK DEF RuleRow, NoRule
  <2> QED
    BY <1>1, <2>1 DEF ChangeRule, CreateRule, UpdateRule, SeedTypeOK, TypeOK
<1>2. CASE SeedCommit
  <2>1. seeding # NoSession
    BY <1>2 DEF SeedCommit, NoSession
  <2>2. ASSUME q \in DOMAIN PackRule PROVE UpsertedRule(q) # NoRule
    BY <2>1, <2>2, UpsertedTyped, ConstantsOK DEF NoRule, RuleRow
  <2> QED
    BY <1>2, <2>2 DEF SeedCommit
<1>3. CASE UNCHANGED rule
  BY <1>3
<1>4. ASSUME NEW r \in Request, Serve(r) PROVE UNCHANGED rule
  BY <1>4 DEF Serve, Generate, Refresh, Edit, GeneratePlan, GenerateMatch, GenerateCommit,
     GenerateAnswer, RefreshRead, RefreshCommit, SubmitRead, PatchRead, EditCommit, Abandon
<1> QED
  BY <1>1, <1>2, <1>3, <1>4
  DEF SeedNext, Seeding, SeedReference, SeedLeases, SeedGenerate, SeedFile, SeedAbandon,
      CreateMineral, UpdateMineral, CreateHolder, UpdateHolder, Entered, RenumberHolder,
      DeleteHolder, DropLease, vars, allVars

LEMMA RulesStayStep == SeedTypeOK /\ RulesStay /\ [SeedNext]_allVars => RulesStay'
<1> SUFFICES ASSUME SeedTypeOK, RulesStay, [SeedNext]_allVars,
                    NEW q \in Rule, seeding' # NoSession, seeding'.rules[q] # NoRule
             PROVE  rule'[q] # NoRule
  BY DEF RulesStay
<1>1. ASSUME NEW filings \in BOOLEAN, SeedReference(filings) PROVE rule[q] # NoRule
  BY <1>1 DEF SeedReference
<1>2. ASSUME seeding # NoSession, seeding'.rules = seeding.rules PROVE rule[q] # NoRule
  BY <1>2 DEF RulesStay
<1>3. CASE SeedLeases
  <2>1. seeding # NoSession
    BY <1>3 DEF SeedLeases, NoSession
  <2> QED
    BY <1>2, <1>3, <2>1, RulesKept, SessionTyped DEF SeedLeases, Session
<1>4. ASSUME NEW l \in PackLease, SeedGenerate(l) PROVE rule'[q] # NoRule
  <2>1. seeding # NoSession
    BY <1>4 DEF SeedGenerate, NoSession
  <2> QED
    BY <1>2, <1>4, <2>1, RulesKept, SessionTyped DEF SeedGenerate, Session
<1>5. CASE SeedFile
  <2>1. seeding # NoSession
    BY <1>5 DEF SeedFile, NoSession
  <2>2. PICK write : seeding' = [seeding EXCEPT !.phase = "commit", !.write = write]
    BY <1>5, ZenonT(60) DEF SeedFile
  <2> QED
    BY <1>2, <2>1, <2>2, RulesKept, SessionTyped DEF Session
<1>6. ASSUME NEW gone \in SUBSET Holder, seeding # NoSession,
             seeding' = [seeding EXCEPT !.gone = gone]
      PROVE  rule'[q] # NoRule
  BY <1>2, <1>6, RulesKept, SessionTyped DEF Session
<1>7. CASE UNCHANGED seeding
  BY <1>2, <1>7, RulesKept
<1> QED
  BY <1>1, <1>3, <1>4, <1>5, <1>6, <1>7, RulesKept, SessionNext

Loading == SeedTypeOK /\ RulesStay /\ Invents

LEMMA LoadingStep == Loading /\ [SeedNext]_allVars => Loading'
BY SeedTypeStep, RulesStayStep, InventsStep DEF Loading

LEMMA LoadingInit == SeedInit => Loading
<1> SUFFICES ASSUME SeedInit PROVE Loading
  OBVIOUS
<1>1. reference \in [Key -> Content \cup {"absent"}]
  BY DEF SeedInit, Content
<1> QED
  BY <1>1 DEF SeedInit, Init, Loading, SeedTypeOK, TypeOK, RulesStay, Invents

\* Whatever administrators edit and delete while the command runs, the rows it
\* leaves, those it holds and those of the requests beside it keep their types.
THEOREM SeedTypeInvariant == SeedSpec => []SeedTypeOK
<1>1. Loading => SeedTypeOK
  BY DEF Loading
<1> QED
  BY <1>1, LoadingInit, LoadingStep, PTL DEF SeedSpec

-----------------------------------------------------------------------------
(***************************************************************************)
(* Filings and exemptions beside the command.                              *)
(***************************************************************************)

\* What has been filed or exempted is next taken up by a PATCH, a new filing or
\* an invented history; a run without filings leaves it alone.
THEOREM DecisionsSurvive == SeedSpec => DecisionsKept
<1> DEFINE Kept == \A s \in Slot : Decided(s) /\ ~Held(s) /\ ~Taken(s) /\ Exists(s)' =>
              /\ entry'[s] = entry[s]
              /\ Held(s)' => \E r \in Request :
                    /\ req'[r].phase = "edit" /\ req'[r].slot = s
                    /\ r \in Patcher \/ entry[s].status = "submitted"
              /\ Taken(s)' => seeding'.filings
<1>1. Loading /\ [SeedNext]_allVars => [Kept]_allVars
  <2> SUFFICES ASSUME Loading, [SeedNext]_allVars, NEW s \in Slot,
                      Decided(s), ~Held(s), ~Taken(s), Exists(s)'
               PROVE  /\ entry'[s] = entry[s]
                      /\ Held(s)' => \E r \in Request :
                            /\ req'[r].phase = "edit" /\ req'[r].slot = s
                            /\ r \in Patcher \/ entry[s].status = "submitted"
                      /\ Taken(s)' => seeding'.filings
    OBVIOUS
  <2> USE DEF Loading
  <2>1. Taken(s)' => seeding'.filings
    BY LoadingStep DEF Invents, Taken
  <2>2. CASE [Next]_vars
    BY <2>1, <2>2, StandsStep DEF SeedTypeOK
  <2>3. ASSUME NEW l \in Lease, DropLease(l)
        PROVE  entry'[s] = entry[s] /\ ~Held(s)'
    <3>1. entry'[s] = entry[s]
      BY <2>3 DEF DropLease, Exists
    <3>2. \A r \in Request : req'[r] = req[r] \/ req'[r] = NoReq
      BY <2>3 DEF DropLease
    <3> QED
      BY <3>1, <3>2 DEF Held, NoReq
  <2>4. CASE SeedCommit
    <3>1. seeding # NoSession /\ seeding.write[s] = Keep
      BY <2>4 DEF SeedCommit, NoSession, Taken
    <3>2. CASE Fits
      <4>1. seeding.made[s] = NoRow
        BY <2>4, <3>2 DEF Fits, EntriesFit, Decided
      <4>2. entry'[s] = SeededRow(s)
        BY <2>4, <3>2 DEF SeedCommit
      <4>3. SeenRow(s) = entry[s] /\ entry[s] \in Row
        BY <4>1 DEF SeenRow, Decided, Exists, SeedTypeOK, TypeOK
      <4>4. entry'[s] = Written(entry[s], Keep)
        BY <3>1, <4>2, <4>3 DEF SeededRow, Decided, Exists
      <4>5. Written(entry[s], Keep) = entry[s]
        BY <4>3 DEF Written, Keep, Row
      <4> QED
        BY <2>1, <2>4, <4>4, <4>5 DEF SeedCommit, Held
    <3>3. CASE ~Fits
      BY <2>1, <2>4, <3>3 DEF SeedCommit, Held
    <3> QED
      BY <3>2, <3>3 DEF SeedCommit, Held
  <2> QED
    BY <2>1, <2>2, <2>3, <2>4, ServeStep, ChangeStep
    DEF SeedNext, Seeding, SeedReference, SeedLeases, SeedGenerate, SeedFile, SeedAbandon,
        CreateMineral, UpdateMineral, CreateHolder, UpdateHolder, Entered, RenumberHolder,
        DeleteHolder, allVars, vars
<1> QED
  BY <1>1, LoadingInit, LoadingStep, PTL DEF SeedSpec, DecisionsKept

\* Entries belong to leases on the register, and a request that holds one finds it.
Registered == \A s \in Slot : Exists(s) => s.lease \in lease
HeldRows == \A r \in Request, s \in Slot : Holds(r, s) => Exists(s)
Filing == Registered /\ HeldRows /\ FiledInv

\* What the commit leaves where there is an entry, and where there is none.
LEMMA SeededEntry ==
  ASSUME Loading, SeedCommit, Fits, NEW s \in Slot
  PROVE  /\ Exists(s) => /\ Exists(s)'
                         /\ entry'[s] = Written(entry[s], seeding.write[s])
                         /\ entry'[s].filed = (entry[s].filed \/ seeding.write[s].filed)
         /\ ~Exists(s) /\ Exists(s)' =>
               /\ seeding.made[s] # NoRow
               /\ entry'[s] = Written(seeding.made[s], seeding.write[s])
         /\ Exists(s)' => entry'[s] \in Row
<1> USE DEF Loading
<1>1. seeding # NoSession /\ entry'[s] = SeededRow(s)
  BY DEF SeedCommit, NoSession
<1>2. seeding.write[s] \in Write
  BY <1>1, SessionTyped
<1>3. Exists(s) => SeenRow(s) = entry[s] /\ entry[s] \in Row
  BY DEF Fits, EntriesFit, SeenRow, Exists, SeedTypeOK, TypeOK
<1>4. ~Exists(s) => SeenRow(s) = seeding.made[s]
  BY DEF SeenRow, Exists
<1>5. Exists(s) => entry'[s] = Written(entry[s], seeding.write[s])
  BY <1>1, <1>3 DEF SeededRow, Exists
<1>6. Exists(s)' => entry'[s] \in Row
  BY <1>1, SeededTyped DEF Exists
<1>7. Exists(s) => entry'[s] \in Row
  BY <1>2, <1>3, <1>5, WrittenTyped
<1>8. Exists(s) => Exists(s)'
  BY <1>7 DEF Exists, Row, NoRow, Status
<1>9. ~Exists(s) /\ Exists(s)' => /\ seeding.made[s] # NoRow
                                  /\ entry'[s] = Written(seeding.made[s], seeding.write[s])
  BY <1>1, <1>4 DEF SeededRow, Exists
<1>10. Exists(s) => entry'[s].filed = (entry[s].filed \/ seeding.write[s].filed)
  BY <1>2, <1>3, <1>5 DEF Written, Row
<1> QED
  BY <1>5, <1>6, <1>8, <1>9, <1>10

LEMMA CommitFiles == Loading /\ Filing /\ SeedCommit => Filing'
<1> SUFFICES ASSUME Loading, Filing, SeedCommit PROVE Filing'
  OBVIOUS
<1> USE DEF Loading, Filing
<1>1. seeding # NoSession /\ UNCHANGED req
  BY DEF SeedCommit, NoSession
<1>2. CASE ~Fits
  BY <1>1, <1>2 DEF SeedCommit, Registered, HeldRows, Holds, Exists, FiledInv, FiledHasTime,
                    FilingsTimed
<1>3. CASE Fits
  <2>1. Registered'
    <3> SUFFICES ASSUME NEW s \in Slot, Exists(s)' PROVE s.lease \in lease'
      BY DEF Registered
    <3>1. lease' = lease \cup PackLease
      BY <1>3 DEF SeedCommit
    <3> QED
      BY <1>1, <1>3, <3>1, SeededEntry DEF Registered, Invents
  <2>2. HeldRows'
    <3> SUFFICES ASSUME NEW r \in Request, NEW s \in Slot, Holds(r, s)' PROVE Exists(s)'
      BY DEF HeldRows
    <3>1. Holds(r, s)
      BY <1>1 DEF Holds
    <3> QED
      BY <1>3, <3>1, SeededEntry DEF HeldRows
  <2>3. FiledHasTime'
    <3> SUFFICES ASSUME NEW s \in Slot, entry'[s].status = "submitted" PROVE entry'[s].filed
      BY DEF FiledHasTime
    <3>1. Exists(s)'
      BY DEF Exists, NoRow
    <3> DEFINE w == seeding.write[s]
    <3>2. w \in Write /\ (w.status = "submitted" => w.filed)
      BY <1>1, SessionTyped DEF Invents
    <3>3. CASE Exists(s)
      <4>1. entry[s] \in Row /\ entry'[s] = Written(entry[s], w)
        BY <1>3, <3>3, SeededEntry DEF Exists, SeedTypeOK, TypeOK
      <4>2. entry'[s].status = IF w.status = "keep" THEN entry[s].status ELSE w.status
        BY <3>2, <4>1 DEF Written, Row
      <4>3. entry'[s].filed = (entry[s].filed \/ w.filed)
        BY <1>3, <3>3, SeededEntry
      <4> QED
        BY <3>2, <4>2, <4>3 DEF FiledInv, FiledHasTime
    <3>4. CASE ~Exists(s)
      <4>1. seeding.made[s] # NoRow /\ entry'[s] = Written(seeding.made[s], w)
        BY <1>3, <3>1, <3>4, SeededEntry
      <4>2. seeding.made[s] \in Row /\ seeding.made[s].status = "pending"
        BY <1>1, <4>1, SessionTyped DEF Invents
      <4>3. entry'[s].status = IF w.status = "keep" THEN "pending" ELSE w.status
        BY <3>2, <4>1, <4>2 DEF Written, Row
      <4>4. entry'[s].filed = (seeding.made[s].filed \/ w.filed)
        BY <3>2, <4>1, <4>2 DEF Written, Row
      <4> QED
        BY <3>2, <4>3, <4>4
    <3> QED
      BY <3>3, <3>4
  <2>4. FilingsTimed'
    <3> SUFFICES ASSUME NEW r \in Request, req[r].phase = "edit",
                        req[r].write.status = "submitted", ~req[r].write.filed
                 PROVE  entry'[req[r].slot].filed
      BY <1>1 DEF FilingsTimed, Exists
    <3>1. req[r].slot \in Slot /\ Holds(r, req[r].slot)
      BY Phases DEF SeedTypeOK, Editing, Holds
    <3>2. Exists(req[r].slot)
      BY <3>1 DEF HeldRows
    <3>3. entry[req[r].slot].filed
      BY <3>2 DEF FiledInv, FilingsTimed
    <3> QED
      BY <1>3, <3>1, <3>2, <3>3, SeededEntry
  <2> QED
    BY <2>1, <2>2, <2>3, <2>4 DEF FiledInv
<1> QED
  BY <1>2, <1>3

LEMMA DropFiles ==
  ASSUME Loading, Filing, NEW l \in Lease, DropLease(l)
  PROVE  Filing'
<1> USE DEF Loading, Filing
<1>1. /\ lease' = lease \ {l}
      /\ \A s \in Slot : entry'[s] = IF s.lease = l THEN NoRow ELSE entry[s]
      /\ \A r \in Request : req'[r] = IF Doomed(r, l) THEN NoReq ELSE req[r]
  BY DEF DropLease
<1>2. Registered'
  BY <1>1 DEF Registered, Exists
<1>3. ASSUME NEW r \in Request, NEW s \in Slot, Holds(r, s)'
      PROVE  Holds(r, s) /\ req'[r] = req[r] /\ s.lease # l
  BY <1>1, <1>3 DEF Holds, Doomed, NoReq
<1>4. HeldRows'
  BY <1>1, <1>3 DEF HeldRows, Exists
<1>5. FiledHasTime'
  BY <1>1 DEF FiledInv, FiledHasTime, NoRow
<1>6. FilingsTimed'
  <2> SUFFICES ASSUME NEW r \in Request, req'[r].phase = "edit",
                      req'[r].write.status = "submitted", ~req'[r].write.filed
               PROVE  entry'[req'[r].slot].filed
    BY DEF FilingsTimed, Exists
  <2>1. req'[r] = req[r] /\ req[r].slot.lease # l
    BY <1>1 DEF Doomed, NoReq
  <2>2. req[r].slot \in Slot /\ Holds(r, req[r].slot)
    BY <2>1, Phases DEF SeedTypeOK, Editing, Holds
  <2> QED
    BY <1>1, <2>1, <2>2 DEF HeldRows, FiledInv, FilingsTimed
<1> QED
  BY <1>2, <1>4, <1>5, <1>6 DEF FiledInv

LEMMA ServeFiles ==
  ASSUME Loading, Filing, Next, lease' = lease
  PROVE  Filing'
<1> USE DEF Loading, Filing
<1>1. TypeOK /\ [Next]_vars
  BY DEF SeedTypeOK
<1>2. Registered'
  <2> SUFFICES ASSUME NEW s \in Slot, Exists(s)', ~Exists(s) PROVE s.lease \in lease
    BY DEF Registered
  <2> QED
    BY <1>1, NextEntry DEF InsertsAt, Overdues, Edits, Exists
<1>3. HeldRows'
  <2> SUFFICES ASSUME NEW r \in Request, NEW s \in Slot, Holds(r, s)' PROVE Exists(s)'
    BY DEF HeldRows
  <2>1. Exists(s)
    BY <1>1, HoldsBegin DEF HeldRows
  <2> QED
    BY <1>1, <2>1, EntryGoes DEF Registered
<1>4. Vacancy
  BY DEF HeldRows, Vacancy
<1> QED
  BY <1>1, <1>2, <1>3, <1>4, FiledStep

LEMMA FilingStep == Loading /\ Filing /\ [SeedNext]_allVars => Filing'
<1> SUFFICES ASSUME Loading, Filing, [SeedNext]_allVars PROVE Filing'
  OBVIOUS
<1>1. ASSUME NEW q \in Rule, NEW d \in Definition, ChangeRule(q, d) PROVE Filing'
  BY <1>1, ChangeStep, ServeFiles
<1>2. ASSUME NEW r \in Request, Serve(r) PROVE Filing'
  BY <1>2, ServeStep, ServeFiles
<1>3. CASE UNCHANGED vars
  BY <1>3 DEF vars, Filing, Registered, HeldRows, Holds, Exists, FiledInv, FiledHasTime,
              FilingsTimed
<1> QED
  BY <1>1, <1>2, <1>3, CommitFiles, DropFiles
  DEF SeedNext, Seeding, SeedReference, SeedLeases, SeedGenerate, SeedFile, SeedAbandon,
      CreateMineral, UpdateMineral, CreateHolder, UpdateHolder, Entered, RenumberHolder,
      DeleteHolder, allVars, vars

\* Beside the command as well, what counts as filed has the time of its filing.
THEOREM SeedFilingsTimed == SeedSpec => []FiledHasTime
<1>1. SeedInit => Filing
  BY DEF SeedInit, Init, Filing, Registered, HeldRows, Holds, Exists, FiledInv, FiledHasTime,
         FilingsTimed, NoReq, NoRow
<1>2. Filing => FiledHasTime
  BY DEF Filing, FiledInv
<1> QED
  BY <1>1, <1>2, LoadingInit, LoadingStep, FilingStep, PTL DEF SeedSpec

-----------------------------------------------------------------------------
(***************************************************************************)
(* Periods beside the command.                                             *)
(***************************************************************************)

\* While rules keep their cadence, those the session read have the cadence it read,
\* and those of the pack the pack's recurrence.
SameCadence ==
    seeding # NoSession => \A q \in Rule : seeding.rules[q] # NoRule =>
        /\ rule[q].recurrence = seeding.rules[q].recurrence
        /\ rule[q].yearEnd = seeding.rules[q].yearEnd
        /\ q \in DOMAIN PackRule => seeding.rules[q].recurrence = PackRule[q].recurrence

\* The rows a session has made are periods of the rules it sees.
OnPlan(q, a, b) ==
    /\ SeenRule(q) \in RuleRow
    /\ SeenRule(q).recurrence \in Cadence
    /\ a \in Time /\ b \in Time /\ a <= b
    /\ Period[SeenRule(q).recurrence][SeenRule(q).yearEnd][a].start = a
    /\ Period[SeenRule(q).recurrence][SeenRule(q).yearEnd][a].end = b
MadeInv ==
    seeding # NoSession => \A s \in Slot :
        seeding.made[s] # NoRow => OnPlan(s.rule, s.start, seeding.made[s].end)
Planned == EntriesInv /\ ItemsInv /\ MissingItems
Spans == Planned /\ SameCadence /\ MadeInv

\* Cadences stay as they are, in the table too.
LEMMA CadenceStays ==
  ASSUME Loading, SameCadence, CadencesKept, [SeedNext]_allVars,
         NEW q \in Rule, rule[q] # NoRule
  PROVE  /\ rule'[q].recurrence = rule[q].recurrence /\ rule'[q].yearEnd = rule[q].yearEnd
         /\ rule'[q] \in RuleRow
<1> USE DEF Loading
<1> DEFINE Same == rule'[q].recurrence = rule[q].recurrence /\ rule'[q].yearEnd = rule[q].yearEnd
<1>1. rule[q] \in RuleRow
  BY DEF SeedTypeOK, TypeOK
<1>2. ASSUME NEW p \in Rule, NEW d \in Definition, ChangeRule(p, d)
      PROVE  Same
  BY <1>2 DEF ChangeRule, CreateRule, UpdateRule, SeedTypeOK, TypeOK, CadencesKept
<1>3. ASSUME SeedCommit PROVE Same
  <2>1. seeding # NoSession
    BY <1>3 DEF SeedCommit, NoSession
  <2>2. CASE Fits /\ q \in DOMAIN PackRule
    <3>1. seeding.rules[q] # NoRule
      BY <2>2 DEF Fits, ReferenceFits
    <3>2. rule'[q] = UpsertedRule(q)
      BY <1>3, <2>2 DEF SeedCommit
    <3>3. /\ UpsertedRule(q).recurrence = IF seeding.rules[q].recurrence = PackRule[q].recurrence
                                          THEN rule[q].recurrence ELSE PackRule[q].recurrence
          /\ UpsertedRule(q).yearEnd = rule[q].yearEnd
      BY <2>1, <2>2, <3>1, UpsertedFields
    <3> QED
      BY <2>1, <2>2, <3>1, <3>2, <3>3 DEF SameCadence
  <2>3. CASE ~(Fits /\ q \in DOMAIN PackRule)
    BY <1>3, <2>3 DEF SeedCommit
  <2> QED
    BY <2>2, <2>3
<1>4. ASSUME UNCHANGED rule PROVE Same
  BY <1>4
<1>5. ASSUME NEW r \in Request, Serve(r) PROVE UNCHANGED rule
  BY <1>5 DEF Serve, Generate, Refresh, Edit, GeneratePlan, GenerateMatch, GenerateCommit,
     GenerateAnswer, RefreshRead, RefreshCommit, SubmitRead, PatchRead, EditCommit, Abandon
<1>6. Same
  BY <1>2, <1>3, <1>4, <1>5
  DEF SeedNext, Seeding, SeedReference, SeedLeases, SeedGenerate, SeedFile, SeedAbandon,
      CreateMineral, UpdateMineral, CreateHolder, UpdateHolder, Entered, RenumberHolder,
      DeleteHolder, DropLease, vars, allVars
<1>7. rule'[q] \in RuleRow
  BY RulesKept, SeedTypeStep DEF SeedTypeOK, TypeOK
<1> QED
  BY <1>6, <1>7

\* What one step does to the rules a session has read.
LEMMA RulesRead ==
  ASSUME Loading, [SeedNext]_allVars, seeding' # NoSession
  PROVE  \/ seeding # NoSession /\ seeding'.rules = seeding.rules
         \/ \E filings \in BOOLEAN : SeedReference(filings)
<1> USE DEF Loading
<1>1. CASE SeedLeases
  <2>1. seeding # NoSession
    BY <1>1 DEF SeedLeases, NoSession
  <2> QED
    BY <1>1, <2>1, SessionTyped DEF SeedLeases, Session
<1>2. ASSUME NEW l \in PackLease, SeedGenerate(l)
      PROVE  seeding # NoSession /\ seeding'.rules = seeding.rules
  <2>1. seeding # NoSession
    BY <1>2 DEF SeedGenerate, NoSession
  <2> QED
    BY <1>2, <2>1, SessionTyped DEF SeedGenerate, Session
<1>3. CASE SeedFile
  <2>1. seeding # NoSession
    BY <1>3 DEF SeedFile, NoSession
  <2>2. PICK write : seeding' = [seeding EXCEPT !.phase = "commit", !.write = write]
    BY <1>3, ZenonT(60) DEF SeedFile
  <2> QED
    BY <2>1, <2>2, SessionTyped DEF Session
<1>4. ASSUME NEW gone \in SUBSET Holder, seeding # NoSession,
             seeding' = [seeding EXCEPT !.gone = gone]
      PROVE  seeding'.rules = seeding.rules
  BY <1>4, SessionTyped DEF Session
<1> QED
  BY <1>1, <1>2, <1>3, <1>4, SessionNext

LEMMA CadenceStep ==
  Loading /\ SameCadence /\ CadencesKept /\ [SeedNext]_allVars => SameCadence'
<1> SUFFICES ASSUME Loading, SameCadence, CadencesKept, [SeedNext]_allVars,
                    NEW q \in Rule, seeding' # NoSession, seeding'.rules[q] # NoRule
             PROVE  /\ rule'[q].recurrence = seeding'.rules[q].recurrence
                    /\ rule'[q].yearEnd = seeding'.rules[q].yearEnd
                    /\ q \in DOMAIN PackRule =>
                          seeding'.rules[q].recurrence = PackRule[q].recurrence
  BY DEF SameCadence
<1>1. CASE seeding # NoSession /\ seeding'.rules = seeding.rules
  BY <1>1, CadenceStays DEF SameCadence, Loading, RulesStay
<1>2. ASSUME NEW filings \in BOOLEAN, SeedReference(filings)
      PROVE  /\ rule'[q].recurrence = seeding'.rules[q].recurrence
             /\ rule'[q].yearEnd = seeding'.rules[q].yearEnd
             /\ q \in DOMAIN PackRule =>
                   seeding'.rules[q].recurrence = PackRule[q].recurrence
  BY <1>2 DEF SeedReference, CadencesKept, vars
<1> QED
  BY <1>1, <1>2, RulesRead

\* What plan_instances finds for a lease is on the plan.
LEMMA PlannedOnPlan ==
  ASSUME Loading, seeding # NoSession, NEW l \in PackLease, NEW i \in PlannedFor(l)
  PROVE  OnPlan(i.rule, i.start, i.end)
BY PlannedItems, SeedConstantsOK DEF OnPlan, Loading, Item

LEMMA MadeStep == Loading /\ MadeInv /\ [SeedNext]_allVars => MadeInv'
<1> SUFFICES ASSUME Loading, MadeInv, [SeedNext]_allVars, NEW s \in Slot,
                    seeding' # NoSession, seeding'.made[s] # NoRow
             PROVE  OnPlan(s.rule, s.start, seeding.made[s].end)'
  BY DEF MadeInv
<1> USE DEF Loading
<1>1. ASSUME seeding # NoSession, seeding'.rules = seeding.rules,
             OnPlan(s.rule, s.start, seeding'.made[s].end)
      PROVE  OnPlan(s.rule, s.start, seeding.made[s].end)'
  BY <1>1 DEF OnPlan, SeenRule
<1>2. ASSUME seeding # NoSession, seeding'.rules = seeding.rules, seeding'.made = seeding.made
      PROVE  OnPlan(s.rule, s.start, seeding.made[s].end)'
  BY <1>1, <1>2 DEF MadeInv
<1>3. CASE SeedLeases
  <2>1. seeding # NoSession
    BY <1>3 DEF SeedLeases, NoSession
  <2> QED
    BY <1>2, <1>3, <2>1, SessionTyped DEF SeedLeases, Session
<1>4. ASSUME NEW l \in PackLease, SeedGenerate(l)
      PROVE  OnPlan(s.rule, s.start, seeding.made[s].end)'
  <2>1. seeding # NoSession
    BY <1>4 DEF SeedGenerate, NoSession
  <2>2. seeding'.rules = seeding.rules
    BY <1>4, <2>1, SessionTyped DEF SeedGenerate, Session
  <2>3. CASE seeding'.made[s] = seeding.made[s]
    BY <1>1, <2>1, <2>2, <2>3 DEF MadeInv
  <2>4. ASSUME NEW i \in PlannedFor(l), SlotOf(l, i) = s, seeding'.made[s] = Fresh(i)
        PROVE  OnPlan(s.rule, s.start, seeding.made[s].end)'
    <3>1. i.rule = s.rule /\ i.start = s.start /\ seeding'.made[s].end = i.end
      BY <2>4 DEF SlotOf, Fresh
    <3> QED
      BY <1>1, <2>1, <2>2, <3>1, PlannedOnPlan
  <2> QED
    BY <1>4, <2>1, <2>3, <2>4, MadeRow
<1>5. CASE SeedFile
  <2>1. seeding # NoSession
    BY <1>5 DEF SeedFile, NoSession
  <2>2. PICK write : seeding' = [seeding EXCEPT !.phase = "commit", !.write = write]
    BY <1>5, ZenonT(60) DEF SeedFile
  <2>3. seeding'.rules = seeding.rules /\ seeding'.made = seeding.made
    BY <2>1, <2>2, SessionTyped DEF Session
  <2> QED
    BY <1>2, <2>1, <2>3
<1>6. ASSUME NEW gone \in SUBSET Holder, seeding # NoSession,
             seeding' = [seeding EXCEPT !.gone = gone]
      PROVE  OnPlan(s.rule, s.start, seeding.made[s].end)'
  <2>1. seeding'.rules = seeding.rules /\ seeding'.made = seeding.made
    BY <1>6, SessionTyped DEF Session
  <2> QED
    BY <1>2, <1>6, <2>1
<1>7. ASSUME NEW filings \in BOOLEAN, SeedReference(filings) PROVE FALSE
  BY <1>7 DEF SeedReference, NoRows
<1> QED
  BY <1>2, <1>3, <1>4, <1>5, <1>6, <1>7, SessionNext

\* What is on a session's plan is on the calendar once it has committed.
LEMMA PlanBecomes ==
  ASSUME Loading, SameCadence, SeedCommit, Fits, NEW q \in Rule, NEW a, NEW b, OnPlan(q, a, b)
  PROVE  OnCalendar(q, a, b)'
<1> USE DEF Loading
<1>1. seeding # NoSession
  BY DEF SeedCommit, NoSession
<1>2. /\ rule'[q] \in RuleRow
      /\ rule'[q].recurrence = SeenRule(q).recurrence /\ rule'[q].yearEnd = SeenRule(q).yearEnd
  <2>1. CASE q \in DOMAIN PackRule
    <3>1. rule'[q] = UpsertedRule(q) /\ UpsertedRule(q) \in RuleRow
      BY <1>1, <2>1, UpsertedTyped DEF SeedCommit
    <3>2. CASE seeding.rules[q] = NoRule
      BY <2>1, <3>1, <3>2 DEF UpsertedRule, SeenRule, Restored
    <3>3. CASE seeding.rules[q] # NoRule
      <4>1. /\ UpsertedRule(q).recurrence = IF seeding.rules[q].recurrence = PackRule[q].recurrence
                                            THEN rule[q].recurrence ELSE PackRule[q].recurrence
            /\ UpsertedRule(q).yearEnd = rule[q].yearEnd
        BY <1>1, <2>1, <3>3, UpsertedFields
      <4>2. seeding.rules[q] \in RuleRow
        BY <1>1, <3>3, SessionTyped
      <4>3. /\ SeenRule(q).recurrence = PackRule[q].recurrence
            /\ SeenRule(q).yearEnd = seeding.rules[q].yearEnd
        BY <2>1, <3>3, <4>2 DEF SeenRule, Restored, RuleRow
      <4> QED
        BY <1>1, <2>1, <3>1, <3>3, <4>1, <4>3 DEF SameCadence
    <3> QED
      BY <3>2, <3>3
  <2>2. CASE q \notin DOMAIN PackRule
    <3>1. SeenRule(q) = seeding.rules[q] /\ seeding.rules[q] # NoRule
      BY <2>2 DEF OnPlan, SeenRule, Restored, RuleRow, NoRule
    <3>2. rule'[q] = rule[q] /\ rule[q] \in RuleRow
      BY <1>1, <2>2, <3>1 DEF SeedCommit, RulesStay, SeedTypeOK, TypeOK
    <3> QED
      BY <1>1, <2>2, <3>1, <3>2 DEF SameCadence
  <2> QED
    BY <2>1, <2>2
<1> QED
  BY <1>2 DEF OnPlan, OnCalendar, PeriodOf

LEMMA CommitSpans ==
  ASSUME Loading, Spans, CadencesKept, SeedCommit, [SeedNext]_allVars
  PROVE  Planned'
<1> USE DEF Loading, Spans
<1>1. UNCHANGED req /\ seeding # NoSession
  BY DEF SeedCommit, NoSession
<1>2. ASSUME NEW q \in Rule, NEW a, NEW b, OnCalendar(q, a, b) PROVE OnCalendar(q, a, b)'
  <2>1. rule[q] # NoRule
    BY <1>2 DEF OnCalendar, RuleRow, NoRule
  <2> QED
    BY <1>2, <2>1, CadenceStays DEF OnCalendar, PeriodOf
<1>3. ItemsInv' /\ MissingItems'
  <2>1. ASSUME NEW r \in Request, req[r].phase \in {"plan", "match", "answer"},
               NEW i \in req[r].items
        PROVE  OnCalendar(i.rule, i.start, i.end)'
    <3>1. i.rule \in Rule
      BY <2>1, Phases DEF SeedTypeOK, Planning, Matching, Answering, Item
    <3> QED
      BY <1>2, <2>1, <3>1 DEF Planned, ItemsInv
  <2> QED
    BY <1>1, <2>1 DEF Planned, ItemsInv, MissingItems
<1>4. EntriesInv'
  <2> SUFFICES ASSUME NEW s \in Slot, Exists(s)'
               PROVE  OnCalendar(s.rule, s.start, entry[s].end)'
    BY DEF EntriesInv
  <2>1. s.rule \in Rule
    BY DEF Slot
  <2>2. CASE Exists(s)
    <3>1. OnCalendar(s.rule, s.start, entry[s].end)
      BY <2>2 DEF Planned, EntriesInv
    <3>2. entry'[s].end = entry[s].end
      <4>1. CASE Fits
        <5>1. entry[s] \in Row /\ entry'[s] = Written(entry[s], seeding.write[s])
          BY <2>2, <4>1, SeededEntry DEF Exists, SeedTypeOK, TypeOK
        <5> QED
          BY <5>1 DEF Written, Row
      <4>2. CASE ~Fits
        BY <4>2 DEF SeedCommit
      <4> QED
        BY <4>1, <4>2
    <3>3. ASSUME NEW b, b = entry[s].end PROVE OnCalendar(s.rule, s.start, b)'
      BY <1>2, <2>1, <3>1, <3>3
    <3> QED
      BY <3>2, <3>3 DEF OnCalendar, PeriodOf
  <2>3. CASE ~Exists(s)
    <3>1. Fits
      BY <2>3 DEF SeedCommit, Exists
    <3>2. seeding.made[s] # NoRow /\ entry'[s] = Written(seeding.made[s], seeding.write[s])
      BY <2>3, <3>1, SeededEntry
    <3>3. seeding.made[s] \in Row
      BY <1>1, <3>2, SessionTyped
    <3>4. entry'[s].end = seeding.made[s].end
      BY <3>2, <3>3 DEF Written, Row
    <3>5. OnPlan(s.rule, s.start, seeding.made[s].end)
      BY <1>1, <3>2 DEF MadeInv
    <3>6. ASSUME NEW b, b = seeding.made[s].end PROVE OnCalendar(s.rule, s.start, b)'
      BY <2>1, <3>1, <3>5, <3>6, PlanBecomes
    <3> QED
      BY <3>4, <3>6 DEF OnCalendar, PeriodOf
  <2> QED
    BY <2>2, <2>3
<1> QED
  BY <1>3, <1>4 DEF Planned

LEMMA DropSpans ==
  ASSUME Loading, Planned, NEW l \in Lease, DropLease(l)
  PROVE  Planned'
<1>1. /\ rule' = rule
      /\ \A s \in Slot : entry'[s] = NoRow \/ entry'[s] = entry[s]
      /\ \A r \in Request : req'[r] = NoReq \/ req'[r] = req[r]
  BY DEF DropLease
<1>2. ASSUME NEW q \in Rule, NEW a, NEW b, OnCalendar(q, a, b) PROVE OnCalendar(q, a, b)'
  BY <1>1, <1>2 DEF OnCalendar, PeriodOf
<1>3. EntriesInv'
  <2> SUFFICES ASSUME NEW s \in Slot, Exists(s)'
               PROVE  OnCalendar(s.rule, s.start, entry[s].end)'
    BY DEF EntriesInv
  <2>1. entry'[s] = entry[s] /\ Exists(s)
    BY <1>1 DEF Exists
  <2>2. OnCalendar(s.rule, s.start, entry[s].end)
    BY <2>1 DEF Planned, EntriesInv
  <2>3. s.rule \in Rule
    BY DEF Slot
  <2>4. ASSUME NEW b, b = entry[s].end PROVE OnCalendar(s.rule, s.start, b)'
    BY <1>2, <2>2, <2>3, <2>4
  <2> QED
    BY <2>1, <2>4 DEF OnCalendar, PeriodOf
<1>4. ItemsInv' /\ MissingItems'
  <2>1. ASSUME NEW r \in Request, (req[r].phase \in {"plan", "match", "answer"})',
               NEW i \in req'[r].items
        PROVE  OnCalendar(i.rule, i.start, i.end)'
    <3>1. req'[r] = req[r] /\ req[r].phase \in {"plan", "match", "answer"}
      BY <1>1, <2>1 DEF NoReq
    <3>2. i.rule \in Rule
      BY <2>1, <3>1, Phases DEF Loading, SeedTypeOK, Planning, Matching, Answering, Item
    <3> QED
      BY <1>2, <2>1, <3>1, <3>2 DEF Planned, ItemsInv
  <2>2. ASSUME NEW r \in Request, (req[r].phase = "match")' PROVE req'[r] = req[r]
    BY <1>1, <2>2 DEF NoReq
  <2> QED
    BY <1>1, <2>1, <2>2 DEF Planned, ItemsInv, MissingItems
<1> QED
  BY <1>3, <1>4 DEF Planned

LEMMA SpansStep == Loading /\ Spans /\ CadencesKept /\ [SeedNext]_allVars => Spans'
<1> SUFFICES ASSUME Loading, Spans, CadencesKept, [SeedNext]_allVars PROVE Planned'
  BY CadenceStep, MadeStep DEF Spans
<1> USE DEF Spans
<1>1. CASE [Next]_vars
  BY <1>1, EntriesStep, ItemsStep DEF Planned, Loading, SeedTypeOK
<1> QED
  BY <1>1, CommitSpans, DropSpans, ServeStep, ChangeStep
  DEF SeedNext, Seeding, SeedReference, SeedLeases, SeedGenerate, SeedFile, SeedAbandon,
      CreateMineral, UpdateMineral, CreateHolder, UpdateHolder, Entered, RenumberHolder,
      DeleteHolder, allVars, vars

\* While rules keep recurrence and fiscal year end and the pack gives no other
\* recurrence, the entries of a rule and a lease never cover a day twice, whoever
\* generated them and whatever else of the rules is edited.
THEOREM SeedPeriodsApart ==
  ASSUME CadencesKept PROVE SeedSpec => []NoOverlap
<1>1. SeedInit => Spans
  BY DEF SeedInit, Init, Spans, Planned, EntriesInv, ItemsInv, MissingItems, SameCadence,
         MadeInv, Exists, NoReq
<1>2. Loading /\ Spans /\ [SeedNext]_allVars => Spans'
  BY SpansStep
<1>3. Spans => NoOverlap
  BY EntriesApart DEF Spans, Planned
<1> QED
  BY <1>1, <1>2, <1>3, LoadingInit, LoadingStep, PTL DEF SeedSpec
-----------------------------------------------------------------------------
(***************************************************************************)
(* What a run of the command leaves, and what another one finds.           *)
(***************************************************************************)

Planless(l, i) == ~Exists(SlotOf(l, i)) /\ seeding.made[SlotOf(l, i)] = NoRow
\* What holds of a session of which nothing it read is gone: it has found the leases
\* of the pack that are there, and every period it planned has its entry, in the
\* table or among the rows it made.
Seeing ==
    seeding # NoSession =>
        /\ \A k \in Key : seeding.reference[k] # "absent" /\ reference[k] = "absent"
                             => k \in seeding.gone
        /\ seeding.phase # "reference" => lease \cap PackLease \subseteq seeding.leases
        /\ seeding.phase \in {"file", "commit"} => seeding.todo = {}
        /\ seeding.phase # "reference" /\ seeding.leases \subseteq lease =>
              \A l \in PackLease \ seeding.todo : \A i \in PlannedFor(l) : ~Planless(l, i)

\* An entry goes with its lease only.
LEMMA EntriesHold ==
  ASSUME Loading, Filing, [SeedNext]_allVars, NEW s \in Slot, Exists(s), ~Exists(s)'
  PROVE  \E l \in Lease : DropLease(l) /\ s.lease = l
<1> USE DEF Loading
<1>1. ASSUME NEW r \in Request, Serve(r) PROVE FALSE
  BY <1>1, ServeStep, EntryGoes DEF SeedTypeOK, Filing, Registered
<1>2. ASSUME SeedCommit PROVE FALSE
  BY <1>2, SeededEntry DEF SeedCommit, Exists
<1>3. ASSUME NEW l \in Lease, DropLease(l) PROVE s.lease = l
  BY <1>3 DEF DropLease, Exists
<1>4. ASSUME NEW q \in Rule, NEW d \in Definition, ChangeRule(q, d) PROVE FALSE
  BY <1>4, ChangeStep DEF Exists
<1>5. ASSUME UNCHANGED entry PROVE FALSE
  BY <1>5 DEF Exists
<1> QED
  BY <1>1, <1>2, <1>3, <1>4, <1>5
  DEF SeedNext, Seeding, SeedReference, SeedLeases, SeedGenerate, SeedFile, SeedAbandon,
      CreateMineral, UpdateMineral, CreateHolder, UpdateHolder, Entered, RenumberHolder,
      DeleteHolder, vars, allVars

\* While the command runs no lease is added, and one that goes takes its entries.
LEMMA LeasesHold ==
  ASSUME Loading, [SeedNext]_allVars, seeding # NoSession, seeding' # NoSession
  PROVE  lease' \subseteq lease
<1>1. ASSUME NEW r \in Request, Serve(r) PROVE lease' = lease
  BY <1>1, ServeStep
<1>2. ASSUME NEW q \in Rule, NEW d \in Definition, ChangeRule(q, d) PROVE lease' = lease
  BY <1>2, ChangeStep
<1> QED
  BY <1>1, <1>2
  DEF SeedNext, Seeding, SeedReference, SeedLeases, SeedGenerate, SeedFile, SeedAbandon,
      SeedCommit, CreateMineral, UpdateMineral, CreateHolder, UpdateHolder, Entered,
      RenumberHolder, DeleteHolder, DropLease, vars, allVars

\* A row read by the session disappears from its table only with a deletion.
LEMMA ReferenceStep ==
  ASSUME Loading, Seeing, [SeedNext]_allVars, seeding # NoSession, seeding' # NoSession,
         seeding'.reference = seeding.reference, seeding.gone \subseteq seeding'.gone,
         NEW k \in Key, seeding.reference[k] # "absent", reference'[k] = "absent"
  PROVE  k \in seeding'.gone
<1> USE DEF Loading
<1>1. CASE reference[k] = "absent"
  BY <1>1 DEF Seeing
<1>2. CASE reference[k] # "absent"
  <2>1. \E h \in Holder : DeleteHolder(h) /\ k = h
    <3>1. ASSUME NEW m \in Key, Entered(m) PROVE FALSE
      BY <1>2, <3>1 DEF Entered, SeedTypeOK
    <3>2. ASSUME NEW h \in Holder, DeleteHolder(h) PROVE k = h
      BY <1>2, <3>2 DEF DeleteHolder, SeedTypeOK
    <3>3. ASSUME UNCHANGED reference PROVE FALSE
      BY <1>2, <3>3
    <3>4. ASSUME NEW h \in Holder, RenumberHolder(h) PROVE FALSE
      BY <3>4 DEF RenumberHolder
    <3>5. ASSUME NEW r \in Request, Serve(r) PROVE FALSE
      BY <3>3, <3>5 DEF Serve, seedVars
    <3>6. ASSUME SeedCommit PROVE FALSE
      BY <3>6 DEF SeedCommit
    <3> QED
      BY <3>1, <3>2, <3>3, <3>4, <3>5, <3>6
      DEF SeedNext, Seeding, SeedReference, SeedLeases, SeedGenerate, SeedFile, SeedAbandon,
          CreateMineral, UpdateMineral, CreateHolder, UpdateHolder, Key, ChangeRule, DropLease,
          vars, allVars
  <2>2. PICK h \in Holder : DeleteHolder(h) /\ k = h
    BY <2>1
  <2> QED
    BY <2>2, SessionTyped DEF DeleteHolder, Missing, Session
<1> QED
  BY <1>1, <1>2

\* What a session sees depends on the rules it read.
LEMMA PlanStays ==
  ASSUME seeding'.rules = seeding.rules, NEW l
  PROVE  PlannedFor(l)' = PlannedFor(l)
<1>1. \A q \in Rule : SeenRule(q)' = SeenRule(q)
  BY DEF SeenRule
<1> QED
  BY <1>1 DEF PlannedFor

\* A step that leaves the session's leases, rows and rules alone.
LEMMA PlansHold ==
  ASSUME Loading, Filing, Seeing, [SeedNext]_allVars, seeding # NoSession, seeding' # NoSession,
         seeding.phase # "reference", seeding'.rules = seeding.rules,
         seeding'.leases = seeding.leases, seeding.leases \subseteq lease',
         NEW l \in PackLease \ seeding.todo, NEW i \in PlannedFor(l),
         seeding'.made[SlotOf(l, i)] = seeding.made[SlotOf(l, i)]
  PROVE  ~Planless(l, i)'
<1> USE DEF Loading
<1>1. lease' \subseteq lease
  BY LeasesHold
<1>2. ~Planless(l, i)
  BY <1>1 DEF Seeing
<1>3. CASE seeding.made[SlotOf(l, i)] # NoRow
  BY <1>3 DEF Planless, SlotOf
<1>4. CASE Exists(SlotOf(l, i))
  <2>1. l \in Lease /\ SlotOf(l, i) \in Slot /\ SlotOf(l, i).lease = l
    <3>1. l \in Lease
      BY SeedConstantsOK
    <3>2. i \in Item
      BY <3>1, PlannedItems
    <3> QED
      BY <3>1, <3>2, SlotTyped DEF SlotOf
  <2>2. CASE Exists(SlotOf(l, i))'
    BY <2>2 DEF Planless, SlotOf, Exists
  <2>3. CASE ~Exists(SlotOf(l, i))'
    <3>1. DropLease(l)
      BY <1>4, <2>1, <2>3, EntriesHold
    <3>2. l \in lease /\ l \notin lease'
      BY <3>1 DEF DropLease
    <3> QED
      BY <3>2 DEF Seeing
  <2> QED
    BY <2>2, <2>3
<1> QED
  BY <1>2, <1>3, <1>4 DEF Planless

\* Whatever happens beside a session leaves it seeing.
LEMMA SeeingHolds ==
  ASSUME Loading, Filing, Seeing, [SeedNext]_allVars, seeding # NoSession, seeding' # NoSession,
         seeding'.reference = seeding.reference, seeding.gone \subseteq seeding'.gone,
         seeding'.rules = seeding.rules, seeding'.leases = seeding.leases,
         seeding'.todo = seeding.todo, seeding'.made = seeding.made,
         \/ seeding'.phase = seeding.phase
         \/ seeding'.phase = "commit" /\ seeding.phase = "file"
  PROVE  Seeing'
<1>1. lease' \subseteq lease
  BY LeasesHold
<1>2. \A k \in Key : seeding'.reference[k] # "absent" /\ reference'[k] = "absent"
                        => k \in seeding'.gone
  BY ReferenceStep
<1>3. seeding'.phase # "reference" => lease' \cap PackLease \subseteq seeding'.leases
  BY <1>1 DEF Seeing
<1>4. seeding'.phase \in {"file", "commit"} => seeding'.todo = {}
  BY DEF Seeing
<1>5. ASSUME seeding'.phase # "reference", seeding'.leases \subseteq lease',
             NEW l \in PackLease \ seeding'.todo, NEW i \in PlannedFor(l)'
      PROVE  ~Planless(l, i)'
  <2>1. l \in PackLease \ seeding.todo /\ i \in PlannedFor(l)
    BY <1>5, PlanStays
  <2>2. seeding.phase # "reference" /\ seeding.leases \subseteq lease'
    BY <1>5
  <2> QED
    BY <2>1, <2>2, PlansHold
<1> QED
  BY <1>2, <1>3, <1>4, <1>5 DEF Seeing

\* One more lease has its calendar.
LEMMA SeeingGenerates ==
  ASSUME Loading, Filing, Seeing, NEW l \in PackLease, SeedGenerate(l)
  PROVE  Seeing'
<1> USE DEF Loading
<1>1. /\ seeding # NoSession /\ seeding.phase = "calendar"
      /\ UNCHANGED <<lease, rule, entry, req, reference>>
  BY DEF SeedGenerate, NoSession, vars
<1> DEFINE missing == {i \in PlannedFor(l) : ~Exists(SlotOf(l, i))}
<1>2. /\ seeding'.reference = seeding.reference /\ seeding'.gone = seeding.gone
      /\ seeding'.rules = seeding.rules /\ seeding'.leases = seeding.leases
      /\ seeding'.todo = seeding.todo \ {l}
      /\ seeding'.phase = IF seeding.todo # {l} THEN "calendar"
                          ELSE IF seeding.filings THEN "file" ELSE "commit"
  BY <1>1, SessionTyped DEF SeedGenerate, Session
<1>3. \A s \in Slot : seeding'.made[s] = IF \E i \in missing : SlotOf(l, i) = s
                                         THEN Fresh(CHOOSE i \in missing : SlotOf(l, i) = s)
                                         ELSE seeding.made[s]
  BY <1>1, SessionTyped DEF SeedGenerate, Session
<1>4. ASSUME seeding.leases \subseteq lease,
             NEW k \in PackLease \ seeding'.todo, NEW i \in PlannedFor(k)
      PROVE  ~Planless(k, i)'
  <2>1. SlotOf(k, i) \in Slot /\ SlotOf(k, i).lease = k
    BY <1>1, PlannedItems, SlotTyped, SeedConstantsOK DEF SlotOf
  <2>2. CASE k = l /\ i \in missing
    <3> DEFINE s == SlotOf(k, i)
    <3>1. seeding'.made[s] = Fresh(CHOOSE j \in missing : SlotOf(l, j) = s)
      BY <1>3, <2>1, <2>2
    <3>2. Fresh(CHOOSE j \in missing : SlotOf(l, j) = s) # NoRow
      BY DEF Fresh, NoRow
    <3> QED
      BY <3>1, <3>2 DEF Planless, SlotOf
  <2>3. CASE k = l /\ i \notin missing
    BY <1>1, <2>3 DEF Planless, SlotOf, Exists
  <2>4. CASE k # l
    <3>1. k \in PackLease \ seeding.todo
      BY <1>2, <2>4
    <3>2. ~Planless(k, i)
      BY <1>1, <1>4, <3>1 DEF Seeing
    <3>3. seeding'.made[SlotOf(k, i)] = seeding.made[SlotOf(k, i)]
      BY <1>3, <2>1, <2>4 DEF SlotOf
    <3> QED
      BY <1>1, <3>2, <3>3 DEF Planless, SlotOf, Exists
  <2> QED
    BY <2>2, <2>3, <2>4
<1>5. \A k : PlannedFor(k)' = PlannedFor(k)
  BY <1>2, PlanStays
<1>6. seeding'.phase \in {"file", "commit"} => seeding'.todo = {}
  BY <1>2
<1>7. \A k \in Key : seeding'.reference[k] # "absent" /\ reference'[k] = "absent"
                        => k \in seeding'.gone
  BY <1>1, <1>2 DEF Seeing
<1>8. lease' \cap PackLease \subseteq seeding'.leases
  BY <1>1, <1>2 DEF Seeing
<1>9. ASSUME seeding'.leases \subseteq lease',
             NEW k \in PackLease \ seeding'.todo, NEW i \in PlannedFor(k)'
      PROVE  ~Planless(k, i)'
  BY <1>1, <1>2, <1>4, <1>5, <1>9
<1> QED
  BY <1>6, <1>7, <1>8, <1>9 DEF Seeing

LEMMA SeeingStep == Loading /\ Filing /\ Seeing /\ [SeedNext]_allVars => Seeing'
<1> SUFFICES ASSUME Loading, Filing, Seeing, [SeedNext]_allVars, seeding' # NoSession
             PROVE  Seeing'
  BY DEF Seeing
<1> USE DEF Loading
<1>1. CASE UNCHANGED seeding
  BY <1>1, SeeingHolds
<1>2. ASSUME NEW filings \in BOOLEAN, SeedReference(filings) PROVE Seeing'
  BY <1>2 DEF SeedReference, Seeing
<1>3. CASE SeedLeases
  <2>1. seeding # NoSession
    BY <1>3 DEF SeedLeases, NoSession
  <2>2. /\ seeding'.reference = seeding.reference /\ seeding'.gone = seeding.gone
        /\ seeding'.phase = "calendar" /\ seeding'.todo = PackLease
        /\ seeding'.leases = lease \cap PackLease
        /\ UNCHANGED <<lease, reference>>
    BY <1>3, <2>1, SessionTyped DEF SeedLeases, Session, vars
  <2> QED
    BY <2>1, <2>2 DEF Seeing
<1>4. ASSUME NEW l \in PackLease, SeedGenerate(l) PROVE Seeing'
  BY <1>4, SeeingGenerates
<1>5. CASE SeedFile
  <2>1. seeding # NoSession /\ seeding.phase = "file"
    BY <1>5 DEF SeedFile, NoSession
  <2>2. PICK write : seeding' = [seeding EXCEPT !.phase = "commit", !.write = write]
    BY <1>5, ZenonT(60) DEF SeedFile
  <2>3. /\ seeding'.reference = seeding.reference /\ seeding'.gone = seeding.gone
        /\ seeding'.rules = seeding.rules /\ seeding'.leases = seeding.leases
        /\ seeding'.todo = seeding.todo /\ seeding'.made = seeding.made
        /\ seeding'.phase = "commit"
    BY <2>1, <2>2, SessionTyped DEF Session
  <2> QED
    BY <2>1, <2>3, SeeingHolds
<1>6. ASSUME NEW gone \in SUBSET Holder, seeding # NoSession, seeding.gone \subseteq gone,
             seeding' = [seeding EXCEPT !.gone = gone]
      PROVE  Seeing'
  <2>1. /\ seeding'.reference = seeding.reference /\ seeding'.gone = gone
        /\ seeding'.rules = seeding.rules /\ seeding'.leases = seeding.leases
        /\ seeding'.todo = seeding.todo /\ seeding'.made = seeding.made
        /\ seeding'.phase = seeding.phase
    BY <1>6, SessionTyped DEF Session
  <2> QED
    BY <1>6, <2>1, SeeingHolds
<1> QED
  BY <1>1, <1>2, <1>3, <1>4, <1>5, <1>6, SessionNext

\* What the tables take of a session that fits: everything it planned is an entry.
LEMMA CommitPlans ==
  ASSUME Loading, Seeing, SeedCommit, Fits, NEW l \in PackLease, NEW i \in PlannedFor(l)
  PROVE  SlotOf(l, i) \in Slot /\ entry'[SlotOf(l, i)] # NoRow
<1> USE DEF Loading
<1> DEFINE s == SlotOf(l, i)
<1>1. seeding # NoSession /\ seeding.phase = "commit"
  BY DEF SeedCommit, NoSession
<1>2. s \in Slot
  BY <1>1, PlannedItems, SlotTyped, SeedConstantsOK
<1>3. ~Planless(l, i)
  BY <1>1 DEF Seeing, Fits, EntriesFit
<1>4. SeenRow(s) # NoRow
  BY <1>3 DEF Planless, SeenRow, Exists
<1>5. SeededRow(s) # NoRow
  BY <1>1, <1>2, <1>4, SeededTyped DEF Row, NoRow, Status
<1> QED
  BY <1>2, <1>5 DEF SeedCommit

LEMMA CommitReference ==
  ASSUME Loading, Seeing, SeedCommit, Fits
  PROVE  /\ \A k \in Key : reference'[k] # "absent"
         /\ \A q \in DOMAIN PackRule : rule'[q] # NoRule
<1> USE DEF Loading
<1>1. seeding # NoSession
  BY DEF SeedCommit, NoSession
<1>2. ASSUME NEW k \in Key PROVE reference'[k] # "absent"
  <2>1. reference'[k] = Upserted(k)
    BY DEF SeedCommit
  <2>2. CASE seeding.reference[k] = "pack"
    <3>1. reference[k] # "absent"
      BY <1>1, <2>2 DEF Seeing, Fits, ReferenceFits
    <3> QED
      BY <2>1, <2>2, <3>1 DEF Upserted
  <2> QED
    BY <2>1, <2>2 DEF Upserted
<1>3. ASSUME NEW q \in DOMAIN PackRule PROVE rule'[q] # NoRule
  <2>1. rule'[q] = UpsertedRule(q)
    BY SeedConstantsOK DEF SeedCommit
  <2> QED
    BY <1>1, <2>1, UpsertedTyped, ConstantsOK DEF NoRule, RuleRow
<1> QED
  BY <1>2, <1>3

\* While rules keep their cadence and the pack gives no other recurrence, a run of the
\* command that reports success has loaded the pack whole, whatever happened beside it;
\* what is planned follows the rules with what administrators set of them.
THEOREM PackIsLoaded ==
  ASSUME CadencesKept PROVE SeedSpec => LoadsWhole
<1> DEFINE Inv == Loading /\ Filing /\ Seeing /\ Spans
           Whole == Commits /\ SeedCommit =>
             /\ \A k \in Key : reference'[k] # "absent"
             /\ \A q \in DOMAIN PackRule : rule'[q] # NoRule
             /\ PackLease \subseteq lease'
             /\ \A l \in PackLease : \A i \in PlannedFor(l) :
                   entry'[SlotOf(l, i)] # NoRow /\ entry'[SlotOf(l, i)].end = i.end
<1>1. SeedInit => Inv
  <2>1. SeedInit => Filing
    BY DEF SeedInit, Init, Filing, Registered, HeldRows, Holds, Exists, FiledInv, FiledHasTime,
           FilingsTimed, NoReq, NoRow
  <2>2. SeedInit => Spans
    BY DEF SeedInit, Init, Spans, Planned, EntriesInv, ItemsInv, MissingItems, SameCadence,
           MadeInv, Exists, NoReq
  <2> QED
    BY <2>1, <2>2, LoadingInit DEF SeedInit, Seeing
<1>2. Inv /\ [SeedNext]_allVars => Inv'
  BY LoadingStep, FilingStep, SeeingStep, SpansStep
<1>3. Inv /\ [SeedNext]_allVars => Whole
  <2> SUFFICES ASSUME Inv, [SeedNext]_allVars, Commits, SeedCommit PROVE Whole
    OBVIOUS
  <2>1. Fits /\ seeding # NoSession
    BY DEF Commits, NoSession
  <2>2. ASSUME NEW l \in PackLease, NEW i \in PlannedFor(l)
        PROVE  entry'[SlotOf(l, i)] # NoRow /\ entry'[SlotOf(l, i)].end = i.end
    <3>1. SlotOf(l, i) \in Slot /\ entry'[SlotOf(l, i)] # NoRow
      BY <2>1, <2>2, CommitPlans
    <3>2. /\ i.rule \in Rule
          /\ SlotOf(l, i).rule = i.rule /\ SlotOf(l, i).start = i.start
      BY <2>1, <2>2, PlannedItems, SeedConstantsOK DEF Loading, Item, SlotOf
    <3>3. Planned'
      BY CommitSpans
    <3>4. Period[rule'[i.rule].recurrence][rule'[i.rule].yearEnd][i.start].end
            = entry'[SlotOf(l, i)].end
      BY <3>1, <3>2, <3>3 DEF Planned, EntriesInv, OnCalendar, PeriodOf, Exists
    <3>5. OnPlan(i.rule, i.start, i.end)
      BY <2>1, <2>2, PlannedOnPlan
    <3>6. Period[rule'[i.rule].recurrence][rule'[i.rule].yearEnd][i.start].end = i.end
      <4>1. ASSUME NEW a, NEW b, OnPlan(i.rule, a, b) PROVE OnCalendar(i.rule, a, b)'
        BY <2>1, <3>2, <4>1, PlanBecomes DEF Spans
      <4>2. ASSUME NEW a, NEW b, a = i.start, b = i.end
            PROVE  Period[rule'[i.rule].recurrence][rule'[i.rule].yearEnd][a].end = b
        BY <3>5, <4>1, <4>2 DEF OnCalendar, PeriodOf
      <4> QED
        BY <4>2
    <3> QED
      BY <3>1, <3>4, <3>6
  <2>3. PackLease \subseteq lease'
    BY <2>1 DEF SeedCommit
  <2> QED
    BY <2>1, <2>2, <2>3, CommitReference
<1> QED
  BY <1>1, <1>2, <1>3, PTL DEF SeedSpec, LoadsWhole

\* What the rules are for a run of the command that reads them now.
Standing(q) == Restored(q, rule[q])
StandingPlan(l) == UNION {Schedule(q, Standing(q), l) : q \in Rule}

\* As long as what a run loaded stays, every row and every entry it would load is
\* there, and a session that has begun since sees the rules as they are and has
\* made no entry.
LoadedInv ==
    loaded =>
        /\ \A k \in Key : reference[k] # "absent"
        /\ \A q \in DOMAIN PackRule : rule[q] # NoRule
        /\ PackLease \subseteq lease
        /\ \A l \in PackLease : \A i \in StandingPlan(l) : Exists(SlotOf(l, i))
        /\ seeding # NoSession =>
              /\ \A q \in Rule : SeenRule(q) = Standing(q)
              /\ \A s \in Slot : seeding.made[s] = NoRow

LEMMA PlanStands ==
  ASSUME \A q \in Rule : SeenRule(q) = Standing(q), NEW l
  PROVE  PlannedFor(l) = StandingPlan(l)
BY DEF PlannedFor, StandingPlan

LEMMA StandingSlot ==
  ASSUME SeedTypeOK, NEW l \in PackLease, NEW i \in StandingPlan(l)
  PROVE  SlotOf(l, i) \in Slot
<1>1. PICK q \in Rule : i \in Schedule(q, Standing(q), l)
  BY DEF StandingPlan
<1>2. Standing(q) \in RuleRow \cup {NoRule}
  BY RestoredTyped DEF Standing, SeedTypeOK, TypeOK
<1> QED
  BY <1>1, <1>2, ScheduleItems, SlotTyped, SeedConstantsOK

\* A run that finds the tables as they were planned for leaves them so.
LEMMA LoadedCommit ==
  ASSUME Loading, Filing, Seeing, SeedCommit, Fits
  PROVE  LoadedInv'
<1> SUFFICES ASSUME loaded' PROVE LoadedInv'
  BY DEF LoadedInv
<1> USE DEF Loading
<1>1. seeding # NoSession /\ seeding' = NoSession
  BY DEF SeedCommit, NoSession
<1>2. \A q \in Rule : /\ Restored(q, rule[q]) = SeenRule(q)
                     /\ rule'[q] = IF q \in DOMAIN PackRule THEN UpsertedRule(q) ELSE rule[q]
  BY DEF SeedCommit, SeenRule
<1>3. ASSUME NEW q \in Rule PROVE Standing(q)' = SeenRule(q)
  <2>1. CASE q \in DOMAIN PackRule
    <3>1. CASE seeding.rules[q] = NoRule
      BY <1>1, <1>2, <2>1, <3>1, RestoredUpserted DEF Standing, SeenRule, Restored
    <3>2. CASE seeding.rules[q] # NoRule
      BY <1>1, <1>2, <2>1, <3>2, RestoredUpserted DEF Standing
    <3> QED
      BY <3>1, <3>2
  <2>2. CASE q \notin DOMAIN PackRule
    BY <1>2, <2>2 DEF Standing
  <2> QED
    BY <2>1, <2>2
<1>4. \A l : StandingPlan(l)' = PlannedFor(l)
  BY <1>3 DEF StandingPlan, PlannedFor
<1>5. \A l \in PackLease : \A i \in PlannedFor(l) : entry'[SlotOf(l, i)] # NoRow
  BY CommitPlans
<1>6. \A l \in PackLease : \A i \in StandingPlan(l)' : Exists(SlotOf(l, i))'
  BY <1>4, <1>5 DEF Exists, SlotOf
<1>7. PackLease \subseteq lease'
  BY DEF SeedCommit
<1> QED
  BY <1>1, <1>6, <1>7, CommitReference DEF LoadedInv

\* Nobody else makes a run a success, and what nobody removes is there.
LEMMA LoadedTables ==
  ASSUME Loading, Filing, LoadedInv, [SeedNext]_allVars, ~(SeedCommit /\ Fits), loaded'
  PROVE  /\ loaded
         /\ \A k \in Key : reference'[k] # "absent"
         /\ \A q \in DOMAIN PackRule : rule'[q] # NoRule
         /\ PackLease \subseteq lease'
         /\ \A q \in Rule : Standing(q)' = Standing(q)
<1> USE DEF Loading
<1>1. ASSUME NEW r \in Request, Serve(r)
      PROVE  lease' = lease /\ UNCHANGED <<rule, reference, loaded>>
  BY <1>1, ServeStep DEF seedVars, Serve, Generate, Refresh, Edit, GeneratePlan, GenerateMatch,
     GenerateCommit, GenerateAnswer, RefreshRead, RefreshCommit, SubmitRead, PatchRead,
     EditCommit, Abandon
<1>2. ASSUME NEW p \in Rule, NEW d \in Definition, ChangeRule(p, d)
      PROVE  /\ lease' = lease /\ reference' = reference /\ loaded
             /\ \A q \in Rule : Standing(q)' = Standing(q)
  <2>1. /\ lease' = lease /\ reference' = reference /\ loaded
        /\ Restored(p, d) = Restored(p, rule[p]) /\ rule' = [rule EXCEPT ![p] = d]
    BY <1>2, ChangeStep DEF ChangeRule, CreateRule, UpdateRule
  <2>2. \A q \in Rule : rule'[q] = IF q = p THEN d ELSE rule[q]
    BY <2>1 DEF SeedTypeOK, TypeOK
  <2> QED
    BY <2>1, <2>2 DEF Standing
<1>3. ASSUME NEW k \in Key, Entered(k)
      PROVE  /\ UNCHANGED <<lease, rule, loaded>>
             /\ \A m \in Key : reference[m] # "absent" => reference'[m] # "absent"
  BY <1>3 DEF Entered, vars, SeedTypeOK
<1>4. ASSUME NEW h \in Holder, RenumberHolder(h) \/ DeleteHolder(h) PROVE FALSE
  BY <1>4 DEF RenumberHolder, DeleteHolder
<1>5. ASSUME NEW l \in Lease, DropLease(l) PROVE FALSE
  BY <1>5 DEF DropLease
<1>6. CASE SeedCommit
  BY <1>6 DEF SeedCommit, LoadedInv, Standing
<1>7. CASE UNCHANGED <<lease, rule, reference, loaded>>
  BY <1>7 DEF LoadedInv, Standing
<1>8. \A q \in DOMAIN PackRule : q \in Rule
  BY SeedConstantsOK
<1>9. ASSUME loaded PROVE \A q \in DOMAIN PackRule : rule'[q] # NoRule
  BY <1>8, <1>9, RulesKept DEF LoadedInv
<1>10. CASE \E k \in Key : Entered(k)
  BY <1>3, <1>10 DEF LoadedInv, Standing
<1>11. CASE \E p \in Rule, d \in Definition : ChangeRule(p, d)
  BY <1>2, <1>9, <1>11 DEF LoadedInv
<1>12. CASE \E r \in Request : Serve(r)
  BY <1>1, <1>7, <1>12
<1> QED
  BY <1>4, <1>5, <1>6, <1>7, <1>10, <1>11, <1>12
  DEF SeedNext, Seeding, SeedReference, SeedLeases, SeedGenerate, SeedFile, SeedAbandon,
      CreateMineral, UpdateMineral, CreateHolder, UpdateHolder, Key, vars, allVars

\* The session that runs while everything stays reads the same and makes nothing.
LEMMA LoadedSession ==
  ASSUME Loading, LoadedInv, [SeedNext]_allVars, loaded, seeding' # NoSession,
         \A q \in Rule : Standing(q)' = Standing(q)
  PROVE  /\ \A q \in Rule : SeenRule(q)' = Standing(q)'
         /\ \A s \in Slot : seeding'.made[s] = NoRow
<1> USE DEF Loading
<1>1. ASSUME NEW filings \in BOOLEAN, SeedReference(filings)
      PROVE  /\ \A q \in Rule : SeenRule(q)' = Standing(q)
             /\ seeding'.made = NoRows
  BY <1>1 DEF SeedReference, SeenRule, Standing
<1>2. ASSUME seeding # NoSession, seeding'.rules = seeding.rules, seeding'.made = seeding.made
      PROVE  /\ \A q \in Rule : SeenRule(q)' = Standing(q)'
             /\ \A s \in Slot : seeding'.made[s] = NoRow
  BY <1>2 DEF LoadedInv, SeenRule
<1>3. CASE SeedLeases
  <2>1. seeding # NoSession
    BY <1>3 DEF SeedLeases, NoSession
  <2> QED
    BY <1>2, <1>3, <2>1, SessionTyped DEF SeedLeases, Session
<1>4. ASSUME NEW l \in PackLease, SeedGenerate(l)
      PROVE  seeding # NoSession /\ seeding'.rules = seeding.rules
             /\ \A s \in Slot : seeding'.made[s] = NoRow
  <2>1. seeding # NoSession
    BY <1>4 DEF SeedGenerate, NoSession
  <2>2. seeding'.rules = seeding.rules
    BY <1>4, <2>1, SessionTyped DEF SeedGenerate, Session
  <2>3. \A i \in PlannedFor(l) : Exists(SlotOf(l, i))
    BY <2>1, PlanStands DEF LoadedInv
  <2>4. \A s \in Slot : seeding'.made[s] = seeding.made[s]
    BY <1>4, <2>1, <2>3, SessionTyped DEF SeedGenerate, Session
  <2> QED
    BY <2>1, <2>2, <2>4 DEF LoadedInv
<1>5. CASE SeedFile
  <2>1. seeding # NoSession
    BY <1>5 DEF SeedFile, NoSession
  <2>2. PICK write : seeding' = [seeding EXCEPT !.phase = "commit", !.write = write]
    BY <1>5, ZenonT(60) DEF SeedFile
  <2> QED
    BY <1>2, <2>1, <2>2, SessionTyped DEF Session
<1>6. ASSUME NEW gone \in SUBSET Holder, seeding # NoSession,
             seeding' = [seeding EXCEPT !.gone = gone]
      PROVE  seeding'.rules = seeding.rules /\ seeding'.made = seeding.made
  BY <1>6, SessionTyped DEF Session
<1>7. CASE UNCHANGED seeding
  BY <1>2, <1>7
<1>8. CASE \E filings \in BOOLEAN : SeedReference(filings)
  BY <1>1, <1>8 DEF NoRows
<1>9. CASE \E l \in PackLease : SeedGenerate(l)
  BY <1>4, <1>9 DEF LoadedInv, SeenRule
<1> QED
  BY <1>2, <1>3, <1>5, <1>6, <1>7, <1>8, <1>9, SessionNext

LEMMA LoadedStep ==
  Loading /\ Filing /\ Seeing /\ LoadedInv /\ [SeedNext]_allVars => LoadedInv'
<1> SUFFICES ASSUME Loading, Filing, Seeing, LoadedInv, [SeedNext]_allVars,
                    loaded', ~(SeedCommit /\ Fits)
             PROVE  LoadedInv'
  BY LoadedCommit DEF LoadedInv
<1>1. /\ loaded
      /\ \A k \in Key : reference'[k] # "absent"
      /\ \A q \in DOMAIN PackRule : rule'[q] # NoRule
      /\ PackLease \subseteq lease'
      /\ \A q \in Rule : Standing(q)' = Standing(q)
  BY LoadedTables
<1>3. \A l : StandingPlan(l)' = StandingPlan(l)
  BY <1>1 DEF StandingPlan
<1>4. ASSUME NEW l \in PackLease, NEW i \in StandingPlan(l)
      PROVE  Exists(SlotOf(l, i))'
  <2>1. Exists(SlotOf(l, i))
    BY <1>1, <1>4 DEF LoadedInv
  <2>2. SlotOf(l, i) \in Slot
    BY <1>4, StandingSlot DEF Loading
  <2>3. ~\E k \in Lease : DropLease(k)
    BY DEF DropLease
  <2>4. ASSUME NEW s \in Slot, Exists(s) PROVE Exists(s)'
    BY <2>3, <2>4, EntriesHold
  <2> QED
    BY <2>1, <2>2, <2>4 DEF Exists, SlotOf
<1>5. \A l \in PackLease : \A i \in StandingPlan(l)' : Exists(SlotOf(l, i))'
  BY <1>3, <1>4
<1>6. seeding' # NoSession =>
         /\ \A q \in Rule : SeenRule(q)' = Standing(q)'
         /\ \A s \in Slot : seeding'.made[s] = NoRow
  BY <1>1, LoadedSession
<1> QED
  BY <1>1, <1>5, <1>6 DEF LoadedInv

\* A second run on the same day adds no row, whatever is filed, edited and exempted
\* in between, as long as nothing it loaded is removed and no rule is edited in what
\* the command leaves alone.
THEOREM SecondRunAddsNothing == SeedSpec => AgainAddsNothing
<1> DEFINE Inv == Loading /\ Filing /\ Seeing /\ LoadedInv
           Again == loaded /\ SeedCommit =>
             /\ lease' = lease
             /\ Entries' = Entries
             /\ \A k \in Key : reference[k] # "absent"
             /\ \A q \in DOMAIN PackRule : rule[q] # NoRule
<1>1. SeedInit => Inv
  <2>1. SeedInit => Filing
    BY DEF SeedInit, Init, Filing, Registered, HeldRows, Holds, Exists, FiledInv, FiledHasTime,
           FilingsTimed, NoReq, NoRow
  <2> QED
    BY <2>1, LoadingInit DEF SeedInit, Seeing, LoadedInv
<1>2. Inv /\ [SeedNext]_allVars => Inv'
  BY LoadingStep, FilingStep, SeeingStep, LoadedStep
<1>3. Inv => Again
  <2> SUFFICES ASSUME Inv, loaded, SeedCommit PROVE lease' = lease /\ Entries' = Entries
    BY DEF LoadedInv
  <2>1. seeding # NoSession
    BY DEF SeedCommit, NoSession
  <2>2. CASE ~Fits
    BY <2>2 DEF SeedCommit, Entries, Exists
  <2>3. CASE Fits
    <3>1. lease' = lease
      BY <2>3 DEF SeedCommit, LoadedInv
    <3>2. ASSUME NEW s \in Slot PROVE Exists(s)' <=> Exists(s)
      BY <2>1, <2>3, SeededEntry DEF LoadedInv
    <3> QED
      BY <3>1, <3>2 DEF Entries, Exists
  <2> QED
    BY <2>2, <2>3
<1> QED
  BY <1>1, <1>2, <1>3, PTL DEF SeedSpec, AgainAddsNothing
\* An id that is taken is on the row it was made for, or on one that was renumbered.
Numbered ==
    /\ ident \in [Holder -> {"unused", "holder", "renumbered"}]
    /\ \A h \in Holder : reference[h] = "absent" => ident[h] # "holder"
NoneRenumbered == \A h \in Holder : ident[h] # "renumbered"

LEMMA NumberedStep == Loading /\ Numbered /\ [SeedNext]_allVars => Numbered'
<1> SUFFICES ASSUME Loading, Numbered, [SeedNext]_allVars PROVE Numbered'
  OBVIOUS
<1> USE DEF Loading
<1>1. SeedTypeOK'
  BY LoadingStep
<1>2. ident' \in [Holder -> {"unused", "holder", "renumbered"}]
  BY <1>1 DEF SeedTypeOK
<1>3. ASSUME NEW h \in Holder, reference'[h] = "absent" PROVE ident'[h] # "holder"
  <2>1. ASSUME NEW k \in Key, Entered(k) PROVE ident'[h] # "holder"
    BY <1>3, <2>1 DEF Entered, Numbered, SeedTypeOK, Key
  <2>2. ASSUME NEW g \in Holder, RenumberHolder(g) \/ DeleteHolder(g) PROVE ident'[h] # "holder"
    BY <1>3, <2>2 DEF RenumberHolder, DeleteHolder, Numbered, SeedTypeOK, Key
  <2>3. CASE SeedCommit
    <3>1. CASE Fits
      <4>1. seeding # NoSession /\ reference'[h] = Upserted(h)
        BY <2>3, <3>1 DEF SeedCommit, NoSession, Key
      <4>2. seeding.reference[h] = "pack" /\ reference[h] = "absent"
        BY <1>3, <4>1 DEF Upserted
      <4>3. ident'[h] = ident[h]
        BY <2>3, <3>1, <4>2 DEF SeedCommit, Identified
      <4> QED
        BY <4>2, <4>3 DEF Numbered
    <3>2. CASE ~Fits
      BY <1>3, <2>3, <3>2 DEF SeedCommit, Numbered
    <3> QED
      BY <3>1, <3>2
  <2>4. CASE UNCHANGED <<reference, ident>>
    BY <1>3, <2>4 DEF Numbered
  <2> QED
    BY <2>1, <2>2, <2>3, <2>4
    DEF SeedNext, Seeding, SeedReference, SeedLeases, SeedGenerate, SeedFile, SeedAbandon,
        CreateMineral, UpdateMineral, CreateHolder, UpdateHolder, Key, ChangeRule, DropLease,
        Serve, seedVars, allVars
<1> QED
  BY <1>2, <1>3 DEF Numbered

\* As long as no holder that the command loaded is away from its number, a run that
\* finds at its commit what it read succeeds: the condition the violation of
\* SafeToRerun breaks (db/seed.py:3).
THEOREM RerunsAreSafe == SeedSpec /\ []NoneRenumbered => SafeToRerun
<1>1. SeedInit => Numbered
  BY DEF SeedInit, Numbered
<1>2. Numbered /\ NoneRenumbered => (SeedCommit /\ AsRead => Fits)
  <2> SUFFICES ASSUME Numbered, NoneRenumbered, SeedCommit, AsRead PROVE Fits
    OBVIOUS
  <2>1. ReferenceFits
    BY SeedConstantsOK DEF AsRead, ReferenceFits, Numbered, NoneRenumbered
  <2> QED
    BY <2>1 DEF AsRead, Fits
<1>3. Numbered /\ NoneRenumbered => [SeedCommit /\ AsRead => Fits]_allVars
  BY <1>2
<1> QED
  BY <1>1, <1>3, LoadingInit, LoadingStep, NumberedStep, PTL DEF SeedSpec, SafeToRerun

-----------------------------------------------------------------------------
(***************************************************************************)
(* Generation and exemptions beside the command.                           *)
(***************************************************************************)

\* What a request has matched or answered stays covered while its lease does not come
\* back.
LEMMA CoverStays ==
  ASSUME Loading, Filing, [SeedNext]_allVars,
         NEW l \in Lease, l \notin lease' \ lease, NEW i \in Item, Covered(l, i)
  PROVE  Covered(l, i)'
<1>1. SlotOf(l, i) \in Slot /\ SlotOf(l, i).lease = l
  BY SlotTyped DEF SlotOf
<1>2. CASE l \notin lease
  BY <1>2 DEF Covered
<1>3. CASE Exists(SlotOf(l, i)) /\ ~Exists(SlotOf(l, i))'
  <2>1. DropLease(l)
    BY <1>1, <1>3, EntriesHold
  <2> QED
    BY <2>1 DEF DropLease, Covered
<1>4. CASE Exists(SlotOf(l, i))'
  BY <1>4 DEF Covered, Exists, SlotOf
<1> QED
  BY <1>2, <1>3, <1>4 DEF Covered

AnswersStand == \A r \in Request \ returned : Covering(r)

LEMMA AnswersStep == Loading /\ Filing /\ AnswersStand /\ [SeedNext]_allVars => AnswersStand'
<1> SUFFICES ASSUME Loading, Filing, AnswersStand, [SeedNext]_allVars,
                    NEW r \in Request, r \notin returned', Matched(r)'
             PROVE  Covering(r)'
  BY DEF AnswersStand, Matched, Covering
<1> USE DEF Loading
<1>1. r \notin returned /\ ~Returns(r)
  BY DEF SeedNext, allVars, Returns
<1>2. Covering(r)
  BY <1>1 DEF AnswersStand
<1>3. CASE [Next]_vars
  BY <1>2, <1>3, CoveringStep DEF SeedTypeOK
<1>4. CASE req'[r] = req[r]
  <2>1. Matched(r) /\ req[r].lease \in Lease /\ req[r].items \in SUBSET Item
    BY <1>4, Phases DEF Matched, SeedTypeOK, Matching, Answering
  <2>2. ASSUME NEW l \in Lease, l = req[r].lease, NEW i \in req[r].items, Covered(l, i)
        PROVE  Covered(l, i)'
    BY <1>1, <2>1, <2>2, CoverStays DEF Returns
  <2> QED
    BY <1>2, <1>4, <2>1, <2>2 DEF Covering, Covered, Exists, SlotOf
<1>5. req'[r] # NoReq
  BY DEF Matched, NoReq
<1>6. ASSUME NEW l \in Lease, DropLease(l) PROVE req'[r] \in {NoReq, req[r]}
  BY <1>6 DEF DropLease
<1> QED
  BY <1>3, <1>4, <1>5, <1>6, ServeStep, ChangeStep
  DEF SeedNext, Seeding, SeedReference, SeedLeases, SeedGenerate, SeedFile, SeedAbandon,
      SeedCommit, CreateMineral, UpdateMineral, CreateHolder, UpdateHolder, Entered,
      RenumberHolder, DeleteHolder, allVars, vars

\* Beside the command too, a generation that answers has left an entry for exactly
\* each period it planned, while rules keep their cadence; the one exception is a
\* lease that was deleted and put back under it.
THEOREM SeedGenerationComplete ==
  ASSUME CadencesKept PROVE SeedSpec => []PlannedStands
<1> DEFINE Inv == Loading /\ Filing /\ Spans /\ AnswersStand
<1>1. SeedInit => Inv
  <2>1. SeedInit => Filing
    BY DEF SeedInit, Init, Filing, Registered, HeldRows, Holds, Exists, FiledInv, FiledHasTime,
           FilingsTimed, NoReq, NoRow
  <2>2. SeedInit => Spans /\ AnswersStand
    BY DEF SeedInit, Init, Spans, Planned, EntriesInv, ItemsInv, MissingItems, SameCadence,
           MadeInv, AnswersStand, Covering, Exists, NoReq
  <2> QED
    BY <2>1, <2>2, LoadingInit
<1>2. Inv /\ [SeedNext]_allVars => Inv'
  BY LoadingStep, FilingStep, SpansStep, AnswersStep
<1>3. Inv => PlannedStands
  BY AnswerPlanned DEF PlannedStands, AnswersStand, Loading, SeedTypeOK, Spans, Planned
<1> QED
  BY <1>1, <1>2, <1>3, PTL DEF SeedSpec

\* The command does not invent filings beside a PATCH, and PATCHes do not overlap.
PatchesAlone == OnePatcher /\ \A c \in Crew : "seed" \in c => c \cap Patcher = {}

\* Only who is at hand acts.
AtHand == \A r \in Request : r \notin crew => req[r] = NoReq

\* What the session is about to write to an entry: nothing before the history is
\* invented; then no exemption without a reason, in the write or in the entry, which
\* is there unless its lease is gone; and a reason is never taken away.
WritesExcused ==
    seeding # NoSession =>
        /\ seeding.filings => "seed" \in crew
        /\ \A s \in Slot : seeding.write[s] # Keep =>
              /\ seeding.phase = "commit"
              /\ seeding.write[s].reason \in {"keep", SeedReason}
              /\ seeding.made[s] # NoRow \/ Exists(s) \/ s.lease \notin lease
              /\ SeenRow(s) # NoRow /\ seeding.write[s].status \in Exempt
                    => seeding.write[s].reason = SeedReason \/ SeenRow(s).reason # None
Excused == ReasonInv /\ AtHand /\ WritesExcused

\* What a request does leaves those of others alone.
LEMMA OthersWait ==
  ASSUME SeedTypeOK, NEW r \in Request, Serve(r), NEW other \in Request, other # r
  PROVE  req'[other] = req[other]
BY DEF Serve, Generate, Refresh, Edit, Abandon, GeneratePlan, GenerateMatch, GenerateCommit,
       GenerateAnswer, RefreshRead, RefreshCommit, SubmitRead, PatchRead, EditCommit, Becomes,
       SeedTypeOK, TypeOK

LEMMA AtHandStep == SeedTypeOK /\ AtHand /\ [SeedNext]_allVars => AtHand'
<1> SUFFICES ASSUME SeedTypeOK, AtHand, [SeedNext]_allVars PROVE AtHand'
  OBVIOUS
<1>1. ASSUME NEW r \in Request, Serve(r) PROVE AtHand'
  BY <1>1, OthersWait DEF AtHand, Serve, seedVars
<1>2. ASSUME crew' = crew, \A r \in Request : req'[r] = NoReq \/ req'[r] = req[r] PROVE AtHand'
  BY <1>2 DEF AtHand
<1> QED
  BY <1>1, <1>2, ChangeStep
  DEF SeedNext, Seeding, SeedReference, SeedLeases, SeedGenerate, SeedFile, SeedAbandon,
      SeedCommit, DropLease, CreateMineral, UpdateMineral, CreateHolder, UpdateHolder, Entered,
      RenumberHolder, DeleteHolder, allVars, vars

\* Beside a run that invents filings nobody takes the reason of an entry.
LEMMA ReasonsStay ==
  ASSUME Loading, Filing, Excused, PatchesAlone, "seed" \in crew, NEW r \in Request, Serve(r),
         NEW s \in Slot, Exists(s)
  PROVE  Exists(s)' /\ entry'[s].reason = entry[s].reason
<1> USE DEF Loading
<1>1. TypeOK /\ [Next]_vars /\ lease' = lease /\ entry[s] \in Row
  BY ServeStep DEF SeedTypeOK, TypeOK, Exists
<1>2. Exists(s)'
  BY <1>1, EntryGoes DEF Filing, Registered
<1>3. ASSUME NEW q \in Request, Overdues(q, s) PROVE entry'[s].reason = entry[s].reason
  BY <1>1, <1>3 DEF Overdues, Row
<1>4. ASSUME NEW q \in Request, Edits(q, s) PROVE entry'[s].reason = entry[s].reason
  <2>1. q \notin Patcher
    BY <1>4 DEF Excused, AtHand, Edits, NoReq, PatchesAlone, SeedTypeOK
  <2>2. req[q].write.reason = "keep"
    BY <1>4, <2>1 DEF Excused, ReasonInv, WritesExplained, Edits
  <2> QED
    BY <1>1, <1>4, <2>2 DEF Edits, Written, Row
<1>5. ASSUME NEW q \in Request, InsertsAt(q, s) PROVE FALSE
  BY <1>5 DEF InsertsAt
<1> QED
  BY <1>1, <1>2, <1>3, <1>4, <1>5, NextEntry DEF Exists

\* The invented history excuses what it exempts.
LEMMA FileExcuses ==
  ASSUME Loading, Excused, SeedFile PROVE WritesExcused'
<1> USE DEF Loading
<1> DEFINE due == {u \in Slot : Due(u)}
<1>1. PICK turn \in SUBSET due, filed \in SUBSET due :
        seeding' = [seeding EXCEPT
           !.phase = "commit",
           !.write = [u \in Slot |->
              IF u \in due
              THEN Invented(SeenRow(u), IF u \in filed THEN "submitted"
                                        ELSE IF u \in turn THEN "waived" ELSE "overdue")
              ELSE Keep]]
  BY ZenonT(60) DEF SeedFile
<1>2. /\ seeding # NoSession /\ seeding.phase = "file"
      /\ UNCHANGED <<lease, entry, crew>>
  BY DEF SeedFile, NoSession, vars
<1>3. /\ seeding'.phase = "commit" /\ seeding'.filings = seeding.filings
      /\ seeding'.made = seeding.made
  BY <1>1, <1>2, SessionTyped DEF Session
<1>4. seeding.filings => "seed" \in crew
  BY <1>2 DEF Excused, WritesExcused
<1>5. ASSUME NEW s \in Slot, seeding'.write[s] # Keep
      PROVE  /\ seeding'.write[s].reason \in {"keep", SeedReason}
             /\ seeding.made[s] # NoRow \/ Exists(s)
             /\ seeding'.write[s].status \in Exempt
                   => seeding'.write[s].reason = SeedReason \/ SeenRow(s).reason # None
  <2> DEFINE verdict == IF s \in filed THEN "submitted"
                        ELSE IF s \in turn THEN "waived" ELSE "overdue"
  <2>1. seeding'.write[s] = IF Due(s) THEN Invented(SeenRow(s), verdict) ELSE Keep
    BY <1>1, <1>2, SessionTyped DEF Session
  <2>2. Due(s) /\ seeding'.write[s] = Invented(SeenRow(s), verdict)
    BY <1>5, <2>1
  <2>3. SeenRow(s) # NoRow
    BY <2>2 DEF Due
  <2>4. seeding.made[s] # NoRow \/ Exists(s)
    BY <2>3 DEF SeenRow, Exists
  <2>5. verdict \in {"submitted", "waived", "overdue"}
    OBVIOUS
  <2> HIDE DEF verdict
  <2>6. seeding'.write[s].reason = IF verdict = "waived" THEN Diff(SeenRow(s).reason, SeedReason)
                                   ELSE "keep"
    BY <2>2 DEF Invented
  <2>7. seeding'.write[s].status = Diff(SeenRow(s).status, verdict)
    BY <2>2 DEF Invented
  <2>8. SeedReason # "keep" /\ SeedReason # None
    BY SeedConstantsOK, ConstantsOK
  <2> QED
    BY <2>4, <2>5, <2>6, <2>7, <2>8 DEF Diff, Exempt
<1>6. \A s \in Slot : SeenRow(s)' = SeenRow(s) /\ Exists(s)' = Exists(s)
  BY <1>2, <1>3 DEF SeenRow, Exists
<1>7. ASSUME NEW s \in Slot, seeding'.write[s] # Keep
      PROVE  /\ seeding'.made[s] # NoRow \/ Exists(s)' \/ s.lease \notin lease'
             /\ SeenRow(s)' # NoRow /\ seeding'.write[s].status \in Exempt
                   => seeding'.write[s].reason = SeedReason \/ SeenRow(s)'.reason # None
  <2>1. seeding.made[s] # NoRow \/ Exists(s)
    BY <1>5, <1>7
  <2>2. seeding'.write[s].status \in Exempt
          => seeding'.write[s].reason = SeedReason \/ SeenRow(s).reason # None
    BY <1>5, <1>7
  <2>3. SeenRow(s)' = SeenRow(s) /\ Exists(s)' = Exists(s)
    BY <1>6
  <2> QED
    BY <1>3, <2>1, <2>2, <2>3
<1>8. seeding'.filings => "seed" \in crew'
  BY <1>2, <1>3, <1>4
<1> QED
  BY <1>3, <1>5, <1>7, <1>8 DEF WritesExcused

\* What is written later finds the entries as excusable as they were.
LEMMA BesideExcused ==
  ASSUME Loading, Filing, Excused, PatchesAlone, [SeedNext]_allVars,
         seeding # NoSession, seeding' # NoSession, ~SeedFile,
         seeding'.phase = seeding.phase \/ seeding.phase # "commit",
         seeding'.filings = seeding.filings, seeding'.write = seeding.write,
         seeding'.made = seeding.made \/ seeding.phase # "commit"
  PROVE  WritesExcused'
<1> USE DEF Loading
<1>1. crew' = crew
  BY DEF SeedNext, Seeding, SeedReference, SeedLeases, SeedGenerate, SeedAbandon,
      SeedCommit, DropLease, CreateMineral, UpdateMineral, CreateHolder, UpdateHolder, Entered,
      RenumberHolder, DeleteHolder, ChangeRule, Serve, seedVars, allVars
<1>2. lease' \subseteq lease
  BY LeasesHold
<1>3. ASSUME NEW s \in Slot, seeding.write[s] # Keep
      PROVE  /\ seeding'.phase = "commit" /\ seeding'.made = seeding.made
             /\ "seed" \in crew
  BY <1>3 DEF Excused, WritesExcused, Invents
<1>4. ASSUME NEW s \in Slot, seeding.write[s] # Keep, seeding.made[s] = NoRow
      PROVE  \/ Exists(s) /\ Exists(s)' /\ entry'[s].reason = entry[s].reason
             \/ ~Exists(s)' /\ s.lease \notin lease'
  <2>1. CASE ~Exists(s)
    <3>1. s.lease \notin lease
      BY <1>4, <2>1 DEF Excused, WritesExcused
    <3>2. Registered'
      BY FilingStep DEF Filing
    <3> QED
      BY <1>2, <3>1, <3>2 DEF Registered
  <2>2. CASE Exists(s) /\ ~Exists(s)'
    <3>1. DropLease(s.lease)
      BY <2>2, EntriesHold
    <3> QED
      BY <2>2, <3>1 DEF DropLease
  <2>3. CASE Exists(s) /\ Exists(s)'
    <3>1. ASSUME NEW r \in Request, Serve(r) PROVE entry'[s].reason = entry[s].reason
      BY <1>3, <1>4, <2>3, <3>1, ReasonsStay
    <3>2. ASSUME NEW l \in Lease, DropLease(l) PROVE entry'[s] = entry[s]
      BY <2>3, <3>2 DEF DropLease, Exists
    <3>3. ASSUME UNCHANGED entry PROVE entry'[s] = entry[s]
      BY <3>3
    <3>4. ASSUME SeedCommit PROVE FALSE
      BY <3>4 DEF SeedCommit
    <3> QED
      BY <2>3, <3>1, <3>2, <3>3, <3>4, ChangeStep
      DEF SeedNext, Seeding, SeedReference, SeedLeases, SeedGenerate, SeedAbandon,
          CreateMineral, UpdateMineral, CreateHolder, UpdateHolder, Entered,
          RenumberHolder, DeleteHolder, allVars, vars
  <2> QED
    BY <2>1, <2>2, <2>3
<1>5. ASSUME NEW s \in Slot, seeding.write[s] # Keep
      PROVE  /\ seeding'.write[s].reason \in {"keep", SeedReason}
             /\ seeding'.made[s] # NoRow \/ Exists(s)' \/ s.lease \notin lease'
             /\ SeenRow(s)' # NoRow /\ seeding'.write[s].status \in Exempt
                   => seeding'.write[s].reason = SeedReason \/ SeenRow(s)'.reason # None
  <2>1. /\ seeding.write[s].reason \in {"keep", SeedReason}
        /\ SeenRow(s) # NoRow /\ seeding.write[s].status \in Exempt
              => seeding.write[s].reason = SeedReason \/ SeenRow(s).reason # None
    BY <1>5 DEF Excused, WritesExcused
  <2>2. CASE seeding.made[s] # NoRow
    BY <1>3, <1>5, <2>1, <2>2 DEF SeenRow
  <2>3. CASE seeding.made[s] = NoRow
    BY <1>3, <1>4, <1>5, <2>1, <2>3 DEF SeenRow, Exists
  <2> QED
    BY <2>2, <2>3
<1> QED
  BY <1>1, <1>3, <1>5 DEF WritesExcused, Excused

LEMMA WritesExcusedStep ==
  ASSUME Loading, Filing, Excused, PatchesAlone, [SeedNext]_allVars
  PROVE  WritesExcused'
<1> SUFFICES ASSUME seeding' # NoSession PROVE WritesExcused'
  BY DEF WritesExcused
<1> USE DEF Loading
<1>1. CASE UNCHANGED seeding /\ ~SeedFile
  BY <1>1, BesideExcused
<1>2. ASSUME NEW filings \in BOOLEAN, SeedReference(filings) PROVE WritesExcused'
  BY <1>2 DEF SeedReference, WritesExcused, NoWrites
<1>3. CASE SeedLeases
  <2>1. seeding # NoSession /\ ~SeedFile
    BY <1>3 DEF SeedLeases, SeedFile, NoSession
  <2>2. /\ seeding.phase # "commit" /\ seeding'.filings = seeding.filings
        /\ seeding'.write = seeding.write
    BY <1>3, <2>1, SessionTyped DEF SeedLeases, Session
  <2> QED
    BY <2>1, <2>2, BesideExcused
<1>4. ASSUME NEW l \in PackLease, SeedGenerate(l) PROVE WritesExcused'
  <2>1. seeding # NoSession /\ ~SeedFile
    BY <1>4 DEF SeedGenerate, SeedFile, NoSession
  <2>2. /\ seeding.phase # "commit" /\ seeding'.filings = seeding.filings
        /\ seeding'.write = seeding.write
    BY <1>4, <2>1, SessionTyped DEF SeedGenerate, Session
  <2> QED
    BY <2>1, <2>2, BesideExcused
<1>5. CASE SeedFile
  BY <1>5, FileExcuses
<1>6. ASSUME NEW gone \in SUBSET Holder, seeding # NoSession, ~SeedFile,
             seeding' = [seeding EXCEPT !.gone = gone]
      PROVE  WritesExcused'
  <2>1. /\ seeding'.phase = seeding.phase /\ seeding'.write = seeding.write
        /\ seeding'.made = seeding.made /\ seeding'.filings = seeding.filings
    BY <1>6, SessionTyped DEF Session
  <2> QED
    BY <1>6, <2>1, BesideExcused
<1> QED
  BY <1>1, <1>2, <1>3, <1>4, <1>5, <1>6, SessionNext

\* What the commit does to the status and the reason of an entry.
LEMMA SeededReason ==
  ASSUME Loading, Excused, SeedCommit, Fits, NEW s \in Slot, Exists(s)'
  PROVE  /\ entry'[s].status \in Exempt => entry'[s].reason # None
         /\ Exists(s) /\ entry[s].reason # None => entry'[s].reason # None
         /\ Exists(s) /\ seeding.write[s] = Keep => entry'[s] = entry[s]
<1> USE DEF Loading
<1> DEFINE w == seeding.write[s]
           row == SeenRow(s)
<1>1. /\ seeding # NoSession /\ w \in Write
      /\ entry'[s] = SeededRow(s) /\ row \in Row \cup {NoRow}
  <2>1. seeding # NoSession
    BY DEF SeedCommit, NoSession
  <2> QED
    BY <2>1, SessionTyped, SeededTyped DEF SeedCommit
<1>2. row # NoRow /\ row \in Row /\ entry'[s] = Written(row, w)
  BY <1>1 DEF SeededRow, Exists
<1>3. Exists(s) => row = entry[s]
  BY DEF Fits, EntriesFit, SeenRow, Exists
<1>4. ~Exists(s) => row.status = "pending"
  BY <1>1, <1>2 DEF SeenRow, Exists, Invents
<1>5. row.status \in Exempt => row.reason # None
  BY <1>3, <1>4 DEF Excused, ReasonInv, ExemptHasReason, Exempt
<1>6. w # Keep => /\ w.reason \in {"keep", SeedReason}
                  /\ w.status \in Exempt => w.reason = SeedReason \/ row.reason # None
  BY <1>1, <1>2 DEF Excused, WritesExcused
<1>7. w = Keep => Written(row, w) = row
  <2>1. ASSUME NEW x \in Row PROVE Written(x, Keep) = x
    BY DEF Written, Keep, Row
  <2> HIDE DEF row
  <2> QED
    BY <1>2, <2>1
<1>8. /\ entry'[s].status = IF w.status = "keep" THEN row.status ELSE w.status
      /\ entry'[s].reason = IF w.reason = "keep" THEN row.reason ELSE w.reason
  BY <1>1, <1>2 DEF Written, Row
<1>9. SeedReason # None /\ SeedReason # "keep" /\ "keep" \notin Exempt
  BY SeedConstantsOK, ConstantsOK DEF Exempt
<1> HIDE DEF w, row
<1>10. CASE w = Keep
  BY <1>2, <1>3, <1>5, <1>7, <1>10 DEF w
<1>11. CASE w # Keep
  BY <1>3, <1>5, <1>6, <1>8, <1>9, <1>11 DEF w
<1> QED
  BY <1>10, <1>11

LEMMA CommitExplains ==
  ASSUME Loading, Filing, Excused, PatchesAlone, SeedCommit PROVE ReasonInv'
<1> USE DEF Loading
<1>1. UNCHANGED req /\ seeding # NoSession
  BY DEF SeedCommit, NoSession
<1>2. CASE ~Fits
  BY <1>1, <1>2 DEF SeedCommit, Excused, ReasonInv, ExemptHasReason, WritesExplained, Exists
<1>3. CASE Fits
  <2>1. ExemptHasReason'
    BY <1>3, SeededReason DEF ExemptHasReason, Exists, NoRow, Exempt
  <2>2. ASSUME NEW r \in Request, req[r].phase = "edit"
        PROVE  /\ req[r].write.status \in Exempt /\ req[r].write.reason = "keep"
                     => entry'[req[r].slot].reason # None
               /\ req[r].write.status = "keep" /\ req[r].write.reason = None
                     => entry'[req[r].slot].status \notin Exempt
    <3>1. req[r].slot \in Slot /\ Holds(r, req[r].slot)
      BY <2>2, Phases DEF SeedTypeOK, Editing, Holds
    <3>2. Exists(req[r].slot) /\ Exists(req[r].slot)'
      <4>1. Exists(req[r].slot)
        BY <3>1 DEF Filing, HeldRows
      <4> QED
        BY <1>1, <1>3, <3>1, <4>1, SeededEntry DEF Exists
    <3>3. PICK s \in Slot : s = req[r].slot
      BY <3>1
    <3>4. /\ req[r].write.status \in Exempt \/ req[r].write.reason # "keep" => r \in Patcher
          /\ req[r].write.status \in Exempt /\ req[r].write.reason = "keep"
                => entry[s].reason # None
          /\ req[r].write.status = "keep" /\ req[r].write.reason = None
                => entry[s].status \notin Exempt
      BY <2>2, <3>2, <3>3 DEF Excused, ReasonInv, WritesExplained
    <3>5. /\ entry[s].reason # None => entry'[s].reason # None
          /\ seeding.write[s] = Keep => entry'[s] = entry[s]
      BY <1>1, <1>3, <3>2, <3>3, SeededReason DEF Exists
    <3>6. r \in Patcher => seeding.write[s] = Keep
      <4>1. r \in crew
        BY <2>2 DEF Excused, AtHand, NoReq
      <4>2. r \in Patcher => "seed" \notin crew
        BY <4>1 DEF PatchesAlone, SeedTypeOK
      <4> QED
        BY <1>1, <4>2 DEF Excused, WritesExcused, Invents
    <3>7. None # "keep"
      BY ConstantsOK
    <3> QED
      BY <3>3, <3>4, <3>5, <3>6, <3>7
  <2>3. WritesExplained'
    BY <1>1, <2>2 DEF Excused, ReasonInv, WritesExplained
  <2> QED
    BY <2>1, <2>3 DEF ReasonInv
<1> QED
  BY <1>2, <1>3

LEMMA DropExplains ==
  ASSUME SeedTypeOK, Excused, NEW l \in Lease, DropLease(l) PROVE ReasonInv'
<1>1. /\ \A s \in Slot : entry'[s] = NoRow \/ entry'[s] = entry[s]
      /\ \A r \in Request : req'[r] = NoReq \/ req'[r] = req[r]
  BY DEF DropLease
<1>2. ExemptHasReason'
  BY <1>1 DEF Excused, ReasonInv, ExemptHasReason, NoRow, Exempt
<1>3. ASSUME NEW r \in Request, req'[r].phase = "edit"
      PROVE  /\ req'[r] = req[r] /\ req[r].phase = "edit"
             /\ entry'[req[r].slot] = NoRow \/ entry'[req[r].slot] = entry[req[r].slot]
  <2>1. req'[r] = req[r] /\ req[r].phase = "edit"
    BY <1>1, <1>3 DEF NoReq
  <2>2. req[r].slot \in Slot
    BY <2>1, Phases DEF SeedTypeOK, Editing
  <2> QED
    BY <1>1, <2>1, <2>2
<1>4. WritesExplained'
  BY <1>3 DEF Excused, ReasonInv, WritesExplained, Exists
<1> QED
  BY <1>2, <1>4 DEF ReasonInv

LEMMA ExcusedStep ==
  ASSUME Loading, Filing, Excused, PatchesAlone, [SeedNext]_allVars PROVE Excused'
<1> SUFFICES ReasonInv'
  BY AtHandStep, WritesExcusedStep DEF Excused, Loading
<1>1. CASE Next
  <2>1. Vacancy
    BY DEF Filing, HeldRows, Vacancy
  <2> QED
    BY <1>1, <2>1, ReasonStep DEF Loading, SeedTypeOK, Excused, PatchesAlone
<1>2. CASE UNCHANGED vars
  BY <1>2 DEF vars, Excused, ReasonInv, ExemptHasReason, WritesExplained, Exists
<1> QED
  BY <1>1, <1>2, CommitExplains, DropExplains, ServeStep, ChangeStep
  DEF Loading, SeedNext, Seeding, SeedReference, SeedLeases, SeedGenerate, SeedFile, SeedAbandon,
      CreateMineral, UpdateMineral, CreateHolder, UpdateHolder, Entered, RenumberHolder,
      DeleteHolder, allVars, vars

\* While changes of status overlap neither each other nor a run that invents a
\* history, every exemption has its reason, the invented ones included.
THEOREM SeedExemptionsExplained ==
  ASSUME PatchesAlone PROVE SeedSpec => []ExemptHasReason
<1>1. SeedInit => Loading /\ Filing /\ Excused
  <2>1. SeedInit => Filing
    BY DEF SeedInit, Init, Filing, Registered, HeldRows, Holds, Exists, FiledInv, FiledHasTime,
           FilingsTimed, NoReq, NoRow
  <2>2. SeedInit => Excused
    BY DEF SeedInit, Init, Excused, ReasonInv, ExemptHasReason, WritesExplained, AtHand,
           WritesExcused, NoReq, NoRow, Exempt
  <2> QED
    BY <2>1, <2>2, LoadingInit
<1>2. Loading /\ Filing /\ Excused /\ [SeedNext]_allVars => (Loading /\ Filing /\ Excused)'
  BY LoadingStep, FilingStep, ExcusedStep
<1>3. Excused => ExemptHasReason
  BY DEF Excused, ReasonInv
<1> QED
  BY <1>1, <1>2, <1>3, PTL DEF SeedSpec

-----------------------------------------------------------------------------
(***************************************************************************)
(* The register of filings: every step does something the register allows, *)
(* or nothing to it.                                                       *)
(***************************************************************************)

\* A request that may not patch holds a filing.
FilersFile ==
    \A r \in Request \ Patcher : req[r].phase = "edit" =>
        /\ req[r].write.status \in {"keep", "submitted"}
        /\ req[r].write.filed
        /\ req[r].write.reason = "keep"

\* New entries of the session are as generated, and its history takes no reason away.
Drafted ==
    seeding # NoSession => \A s \in Slot :
        /\ seeding.made[s] # NoRow => ~seeding.made[s].filed /\ seeding.made[s].reason = None
        /\ seeding.write[s].reason \in {"keep", SeedReason}
        /\ seeding.write[s] # Keep => seeding.phase = "commit"
Registering == Loading /\ Filing /\ FilersFile /\ Drafted

LEMMA FilersStep == TypeOK /\ FilersFile /\ [Next]_vars => FilersFile'
<1> SUFFICES ASSUME TypeOK, FilersFile, [Next]_vars,
                    NEW r \in Request \ Patcher, req'[r].phase = "edit"
             PROVE  /\ req'[r].write.status \in {"keep", "submitted"}
                    /\ req'[r].write.filed
                    /\ req'[r].write.reason = "keep"
  BY DEF FilersFile
<1>1. CASE req'[r] = req[r]
  BY <1>1 DEF FilersFile
<1>2. CASE req'[r] = NoReq
  BY <1>2 DEF NoReq
<1>3. CASE GenerateAnswers(r)
  BY <1>3 DEF GenerateAnswers
<1>4. CASE Reads(r)
  <2> USE DEF Becomes, TypeOK
  <2>1. ASSUME NEW l \in Lease, NEW w \in Window, GeneratePlan(r, l, w) PROVE FALSE
    BY <2>1 DEF GeneratePlan
  <2>2. ASSUME GenerateMatch(r) PROVE FALSE
    BY <2>2 DEF GenerateMatch
  <2>3. ASSUME NEW asOf \in AsOf, RefreshRead(r, asOf) PROVE FALSE
    BY <2>3 DEF RefreshRead
  <2>4. ASSUME NEW s \in Slot, SubmitRead(r, s)
        PROVE  /\ req'[r].write.status \in {"keep", "submitted"}
               /\ req'[r].write.filed
               /\ req'[r].write.reason = "keep"
    BY <2>4 DEF SubmitRead, Diff
  <2>5. ASSUME NEW s \in Slot, NEW status \in Patched, NEW reason \in Reason \cup {None},
               PatchRead(r, s, status, reason)
        PROVE  FALSE
    BY <2>5 DEF PatchRead
  <2> QED
    BY <1>4, <2>1, <2>2, <2>3, <2>4, <2>5 DEF Reads
<1> QED
  BY <1>1, <1>2, <1>3, <1>4, NextReq

LEMMA SeedFilersStep == SeedTypeOK /\ FilersFile /\ [SeedNext]_allVars => FilersFile'
<1> SUFFICES ASSUME SeedTypeOK, FilersFile, [SeedNext]_allVars PROVE FilersFile'
  OBVIOUS
<1>1. CASE Next
  BY <1>1, FilersStep DEF SeedTypeOK
<1>2. ASSUME \A r \in Request : req'[r] = NoReq \/ req'[r] = req[r] PROVE FilersFile'
  BY <1>2 DEF FilersFile, NoReq
<1> QED
  BY <1>1, <1>2, ServeStep, ChangeStep
  DEF SeedNext, Seeding, SeedReference, SeedLeases, SeedGenerate, SeedFile, SeedAbandon,
      SeedCommit, DropLease, CreateMineral, UpdateMineral, CreateHolder, UpdateHolder, Entered,
      RenumberHolder, DeleteHolder, allVars, vars

LEMMA DraftedStep == SeedTypeOK /\ Drafted /\ [SeedNext]_allVars => Drafted'
<1> SUFFICES ASSUME SeedTypeOK, Drafted, [SeedNext]_allVars PROVE Drafted'
  OBVIOUS
<1>1. ASSUME NEW filings \in BOOLEAN, SeedReference(filings) PROVE Drafted'
  BY <1>1 DEF SeedReference, Drafted, NoRows, NoWrites, NoRow, Keep
<1>2. CASE SeedLeases
  <2>1. seeding # NoSession
    BY <1>2 DEF SeedLeases, NoSession
  <2>2. /\ seeding'.write = seeding.write /\ seeding'.made = seeding.made
        /\ seeding.phase = "reference"
    BY <1>2, <2>1, SessionTyped DEF SeedLeases, Session
  <2> QED
    BY <2>1, <2>2 DEF Drafted
<1>3. ASSUME NEW l \in PackLease, SeedGenerate(l) PROVE Drafted'
  <2>1. seeding # NoSession
    BY <1>3 DEF SeedGenerate, NoSession
  <2>2. seeding'.write = seeding.write /\ seeding.phase = "calendar"
    BY <1>3, <2>1, SessionTyped DEF SeedGenerate, Session
  <2>3. ASSUME NEW s \in Slot, seeding'.made[s] # NoRow
        PROVE  ~seeding'.made[s].filed /\ seeding'.made[s].reason = None
    <3>1. CASE seeding'.made[s] = seeding.made[s]
      BY <2>1, <2>3, <3>1 DEF Drafted
    <3>2. ASSUME NEW i \in PlannedFor(l), seeding'.made[s] = Fresh(i)
          PROVE  ~seeding'.made[s].filed /\ seeding'.made[s].reason = None
      BY <3>2 DEF Fresh
    <3> QED
      BY <1>3, <2>1, <3>1, <3>2, MadeRow, SeedConstantsOK
  <2> QED
    BY <2>1, <2>2, <2>3 DEF Drafted
<1>4. CASE SeedFile
  <2>1. seeding # NoSession
    BY <1>4 DEF SeedFile, NoSession
  <2> DEFINE due == {u \in Slot : Due(u)}
  <2>2. PICK turn \in SUBSET due, filed \in SUBSET due :
        seeding' = [seeding EXCEPT
           !.phase = "commit",
           !.write = [u \in Slot |->
              IF u \in due
              THEN Invented(SeenRow(u), IF u \in filed THEN "submitted"
                                        ELSE IF u \in turn THEN "waived" ELSE "overdue")
              ELSE Keep]]
    BY <1>4, ZenonT(60) DEF SeedFile
  <2>3. seeding'.made = seeding.made /\ seeding'.phase = "commit"
    BY <2>1, <2>2, SessionTyped DEF Session
  <2>4. ASSUME NEW s \in Slot PROVE seeding'.write[s].reason \in {"keep", SeedReason}
    <3> DEFINE verdict == IF s \in filed THEN "submitted"
                          ELSE IF s \in turn THEN "waived" ELSE "overdue"
    <3>1. seeding'.write[s] = IF Due(s) THEN Invented(SeenRow(s), verdict) ELSE Keep
      BY <2>1, <2>2, SessionTyped DEF Session
    <3> HIDE DEF verdict
    <3> QED
      BY <3>1 DEF Invented, Diff, Keep
  <2> QED
    BY <2>1, <2>3, <2>4 DEF Drafted
<1>5. ASSUME NEW gone \in SUBSET Holder, seeding # NoSession,
             seeding' = [seeding EXCEPT !.gone = gone]
      PROVE  Drafted'
  <2>1. /\ seeding'.write = seeding.write /\ seeding'.made = seeding.made
        /\ seeding'.phase = seeding.phase
    BY <1>5, SessionTyped DEF Session
  <2> QED
    BY <1>5, <2>1 DEF Drafted
<1>6. CASE UNCHANGED seeding \/ seeding' = NoSession
  BY <1>6 DEF Drafted
<1> QED
  BY <1>1, <1>2, <1>3, <1>4, <1>5, <1>6, SessionNext

LEMMA RegisteringStep == Registering /\ [SeedNext]_allVars => Registering'
BY LoadingStep, FilingStep, SeedFilersStep, DraftedStep DEF Registering, Loading

\* The record of an entry.
LEMMA FilingShape ==
  ASSUME NEW row \in Row
  PROVE  /\ FilingOf(row) \in Filed!Record
         /\ FilingOf(row) # Filed!Absent
         /\ FilingOf(row) = [stage |-> StageOf(row.status), timed |-> row.filed,
                             explained |-> row.reason # None]
         /\ StageOf(row.status) \in {"open", "late", "filed", "exempt"}
         /\ FilingOf(row).stage = "filed" <=> row.status = "submitted"
<1>1. row # NoRow
  BY DEF Row, NoRow, Status
<1>2. row.status \in Status /\ row.filed \in BOOLEAN /\ (row.reason # None) \in BOOLEAN
  BY DEF Row
<1>3. StageOf(row.status) \in {"open", "late", "filed", "exempt"}
  BY <1>2 DEF StageOf, Status, Exempt
<1>4. StageOf(row.status) = "filed" <=> row.status = "submitted"
  BY <1>2 DEF StageOf, Status, Exempt
<1>5. FilingOf(row) = [stage |-> StageOf(row.status), timed |-> row.filed,
                       explained |-> row.reason # None]
  BY <1>1 DEF FilingOf
<1> QED
  BY <1>2, <1>3, <1>4, <1>5 DEF Filed!Record, Filed!Stage, Filed!Absent

LEMMA FilingOfNone == FilingOf(NoRow) = Filed!Absent
BY DEF FilingOf, Filed!Absent

\* Whoever has a claim has it by a request or by the history.
LEMMA ClaimsOf ==
  ASSUME NEW c
  PROVE  c \in Claims <=> (\E r \in Request : c \in Purpose(r, req[r])) \/ c \in History(seeding)
<1> DEFINE requests == UNION {Purpose(r, req[r]) : r \in Request}
<1>1. Claims = requests \cup History(seeding)
  BY DEF Claims
<1>2. c \in requests <=> \E r \in Request : c \in Purpose(r, req[r])
  OBVIOUS
<1> HIDE DEF requests
<1> QED
  BY <1>1, <1>2

LEMMA NextClaimsOf ==
  ASSUME NEW c
  PROVE  c \in Claims' <=> (\E r \in Request : c \in Purpose(r, req'[r])) \/ c \in History(seeding')
<1> DEFINE requests == UNION {Purpose(r, req'[r]) : r \in Request}
<1>1. Claims' = requests \cup History(seeding')
  BY DEF Claims
<1>2. c \in requests <=> \E r \in Request : c \in Purpose(r, req'[r])
  OBVIOUS
<1> HIDE DEF requests
<1> QED
  BY <1>1, <1>2

\* The claims of a session are those it writes to.
LEMMA HistoryOf ==
  ASSUME SeedTypeOK, seeding # NoSession, NEW s \in Slot
  PROVE  seeding.write[s] # Keep => <<s, "history">> \in Claims
<1>1. seeding.write[s] # Keep => <<s, "history">> \in History(seeding)
  BY DEF History
<1> QED
  BY <1>1, ClaimsOf

\* Steps that look at nothing leave the register alone; what a request that ends
\* had claimed is let go.
LEMMA Releases ==
  ASSUME UNCHANGED <<lease, entry>>, \A r \in Request : req'[r] = req[r] \/ req'[r] = NoReq,
         History(seeding') \subseteq History(seeding)
  PROVE  Filed!Next
<1>1. Filings' = Filings
  BY DEF Filings
<1>2. Claims' \subseteq Claims
  BY DEF Claims, Purpose, NoReq
<1> QED
  BY <1>1, <1>2 DEF Filed!Next, Filed!Release, Filed!Settled

LEMMA SessionReleases ==
  ASSUME SeedTypeOK, [SeedNext]_allVars, UNCHANGED <<lease, entry, req>>, ~SeedFile
  PROVE  Filed!Next
<1>1. ASSUME NEW filings \in BOOLEAN, SeedReference(filings) PROVE History(seeding') = {}
  BY <1>1 DEF SeedReference, History, NoWrites
<1>2. CASE SeedLeases
  <2>1. seeding # NoSession
    BY <1>2 DEF SeedLeases, NoSession
  <2>2. seeding'.write = seeding.write
    BY <1>2, <2>1, SessionTyped DEF SeedLeases, Session
  <2> QED
    BY <2>1, <2>2, Releases DEF History
<1>3. ASSUME NEW l \in PackLease, SeedGenerate(l) PROVE Filed!Next
  <2>1. seeding # NoSession
    BY <1>3 DEF SeedGenerate, NoSession
  <2>2. seeding'.write = seeding.write
    BY <1>3, <2>1, SessionTyped DEF SeedGenerate, Session
  <2> QED
    BY <2>1, <2>2, Releases DEF History
<1>4. ASSUME NEW gone \in SUBSET Holder, seeding # NoSession,
             seeding' = [seeding EXCEPT !.gone = gone]
      PROVE  Filed!Next
  <2>1. seeding'.write = seeding.write
    BY <1>4, SessionTyped DEF Session
  <2> QED
    BY <1>4, <2>1, Releases DEF History
<1>5. ASSUME UNCHANGED seeding \/ seeding' = NoSession PROVE Filed!Next
  BY <1>5, Releases DEF History
<1> QED
  BY <1>1, <1>2, <1>3, <1>4, <1>5, Releases, SessionNext

\* The stage of an entry is one the register knows.
LEMMA StageTyped ==
  ASSUME SeedTypeOK, NEW s \in Slot
  PROVE  /\ Filings[s] = FilingOf(entry[s])
         /\ Filings[s].stage \in Filed!Stage
         /\ Exists(s) => /\ entry[s] \in Row
                         /\ Filings[s].stage # "absent"
                         /\ Filings[s] # Filed!Absent
                         /\ Filings[s].stage = StageOf(entry[s].status)
<1>1. Filings[s] = FilingOf(entry[s]) /\ entry[s] \in Row \cup {NoRow}
  BY DEF Filings, SeedTypeOK, TypeOK
<1>2. CASE entry[s] = NoRow
  BY <1>1, <1>2, FilingOfNone DEF Filed!Stage, Filed!Absent, Exists
<1>3. CASE entry[s] \in Row
  BY <1>1, <1>3, FilingShape DEF Filed!Stage
<1> QED
  BY <1>1, <1>2, <1>3

\* To invent a history is to look at what it is about.
LEMMA HistoryClaims ==
  ASSUME Loading, Drafted, SeedFile PROVE Filed!Next
<1>1. UNCHANGED <<lease, entry, req>> /\ seeding # NoSession /\ seeding.phase = "file"
  BY DEF SeedFile, NoSession, vars
<1>2. Claims \subseteq Claims'
  BY <1>1 DEF Claims, History, Drafted
<1>3. ASSUME NEW c \in Claims' \ Claims
      PROVE  c[2] = "history" /\ Filings[c[1]].stage \in Filed!Stage
  <2>1. c \in History(seeding')
    BY <1>1, <1>3, ClaimsOf, NextClaimsOf
  <2>2. PICK s \in Slot : c = <<s, "history">>
    BY <2>1 DEF History
  <2> QED
    BY <2>2, StageTyped DEF Loading
<1>4. Filings' = Filings
  BY <1>1 DEF Filings
<1>5. Filed!Claim("history")
  BY <1>1, <1>2, <1>3, <1>4 DEF Filed!Claim, Filed!Allows
<1> QED
  BY <1>5 DEF Filed!Next, Filed!Kind

\* What a request claims, beside what the others keep.
LEMMA RequestClaims ==
  ASSUME SeedTypeOK, NEW r \in Request, Serve(r), Idle(r), UNCHANGED <<lease, entry>>,
         NEW k \in Filed!Kind,
         \A c \in Purpose(r, req'[r]) :
            c[2] = k /\ c[1] \in Slot /\ Filings[c[1]].stage \in Filed!Allows[k]
  PROVE  Filed!Next
<1>1. UNCHANGED seeding /\ \A other \in Request : other # r => req'[other] = req[other]
  BY OthersWait DEF Serve, seedVars
<1>2. Purpose(r, req[r]) = {}
  BY DEF Idle, Purpose
<1>3. Claims \subseteq Claims'
  <2> SUFFICES ASSUME NEW c \in Claims PROVE c \in Claims'
    OBVIOUS
  <2>2. ASSUME NEW q \in Request, c \in Purpose(q, req[q]) PROVE c \in Purpose(q, req'[q])
    BY <1>1, <1>2, <2>2
  <2> QED
    BY <1>1, <2>2, ClaimsOf, NextClaimsOf
<1>4. ASSUME NEW c \in Claims' \ Claims PROVE c \in Purpose(r, req'[r])
  <2>1. c \notin History(seeding')
    BY <1>1, <1>4, ClaimsOf
  <2>2. PICK q \in Request : c \in Purpose(q, req'[q])
    BY <1>4, <2>1, NextClaimsOf
  <2> QED
    BY <1>1, <1>4, <2>2, ClaimsOf
<1>5. Filings' = Filings
  BY DEF Filings
<1>6. Filed!Claim(k)
  BY <1>3, <1>4, <1>5 DEF Filed!Claim
<1> QED
  BY <1>6 DEF Filed!Next

\* A request that is done has let go of its claims.
LEMMA RequestSettles ==
  ASSUME SeedTypeOK, NEW r \in Request, Serve(r), Purpose(r, req'[r]) = {}
  PROVE  Claims' \subseteq Claims
<1>1. UNCHANGED seeding /\ \A other \in Request : other # r => req'[other] = req[other]
  BY OthersWait DEF Serve, seedVars
<1> SUFFICES ASSUME NEW c \in Claims' PROVE c \in Claims
  OBVIOUS
<1>2. CASE c \in History(seeding')
  BY <1>1, <1>2, ClaimsOf
<1>3. ASSUME NEW q \in Request, c \in Purpose(q, req'[q]) PROVE c \in Claims
  BY <1>1, <1>3, ClaimsOf
<1> QED
  BY <1>2, <1>3, NextClaimsOf

\* The reads of requests.
LEMMA RefreshClaims ==
  ASSUME SeedTypeOK, NEW r \in Request, Serve(r), NEW asOf \in AsOf, RefreshRead(r, asOf)
  PROVE  Filed!Next
<1>1. req'[r] = [phase |-> "refresh", stale |-> {s \in Slot : Lapsed(s, asOf)}]
  BY DEF RefreshRead, Becomes, SeedTypeOK, TypeOK
<1>2. Purpose(r, req'[r]) = {<<s, "lapse">> : s \in {s \in Slot : Lapsed(s, asOf)}}
  BY <1>1 DEF Purpose
<1>3. ASSUME NEW s \in Slot, Lapsed(s, asOf) PROVE Filings[s].stage \in Filed!Allows["lapse"]
  <2>1. Filings[s].stage = StageOf(entry[s].status)
    BY <1>3, StageTyped DEF Lapsed
  <2> QED
    BY <1>3, <2>1 DEF Lapsed, StageOf, Exempt, Filed!Allows
<1>4. \A c \in Purpose(r, req'[r]) :
         c[2] = "lapse" /\ c[1] \in Slot /\ Filings[c[1]].stage \in Filed!Allows["lapse"]
  BY <1>2, <1>3
<1>5. Idle(r) /\ UNCHANGED <<lease, entry>> /\ "lapse" \in Filed!Kind
  BY DEF RefreshRead, Filed!Kind
<1> QED
  BY <1>4, <1>5, RequestClaims

LEMMA EditClaims ==
  ASSUME SeedTypeOK, NEW r \in Request, Serve(r), NEW s \in Slot, Idle(r), Exists(s),
         UNCHANGED <<lease, entry>>,
         entry[s].status \notin Exempt \/ r \in Patcher,
         NEW write, req'[r] = [phase |-> "edit", slot |-> s, write |-> write]
  PROVE  Filed!Next
<1> DEFINE kind == IF r \in Patcher THEN "decide" ELSE "file"
<1>1. Purpose(r, req'[r]) = {<<s, kind>>}
  BY DEF Purpose
<1>2. /\ Filings[s].stage = StageOf(entry[s].status)
      /\ entry[s].status \in Status
  BY StageTyped DEF Row
<1>3. StageOf(entry[s].status) \in Filed!Allows[kind]
  BY <1>2 DEF StageOf, Status, Exempt, Filed!Allows, Filed!Stage
<1>4. kind \in Filed!Kind
  BY DEF Filed!Kind
<1> HIDE DEF kind
<1>5. \A c \in Purpose(r, req'[r]) :
         c[2] = kind /\ c[1] \in Slot /\ Filings[c[1]].stage \in Filed!Allows[kind]
  BY <1>1, <1>2, <1>3
<1> QED
  BY <1>4, <1>5, RequestClaims

\* A generation enters what it found missing.
LEMMA GenerateEnters ==
  ASSUME Registering, NEW r \in Request, Serve(r), GenerateCommit(r)
  PROVE  Filed!Next
<1> USE DEF Registering, Loading
<1>1. TypeOK /\ [Next]_vars /\ lease' = lease
  BY ServeStep DEF SeedTypeOK
<1>2. req[r] \in Matching /\ Purpose(r, req[r]) = {}
  BY <1>1, Phases DEF GenerateCommit, Purpose
<1>3. CASE req'[r] = NoReq /\ UNCHANGED entry
  <2>1. \A other \in Request : req'[other] = req[other] \/ req'[other] = NoReq
    BY <1>3, OthersWait
  <2> QED
    BY <1>1, <1>3, <2>1, Releases DEF Serve, seedVars
<1>4. CASE GenerateAnswers(r)
  <2>1. Purpose(r, req'[r]) = {}
    BY <1>4 DEF GenerateAnswers, Purpose
  <2>2. Claims' = Claims
    <3>1. UNCHANGED seeding /\ \A q \in Request : Purpose(q, req'[q]) = Purpose(q, req[q])
      BY <1>2, <2>1, OthersWait DEF Serve, seedVars
    <3>2. \A c : c \in Claims' <=> c \in Claims
      BY <3>1, ClaimsOf, NextClaimsOf
    <3> QED
      BY <3>2
  <2>3. ASSUME NEW s \in Slot, Filings'[s] # Filings[s]
        PROVE  Filings[s] = Filed!Absent /\ s.lease \in lease /\ Filings'[s] = Filed!Opened
    <3>1. entry'[s] # entry[s] /\ Filings[s] = FilingOf(entry[s]) /\ Filings'[s] = FilingOf(entry'[s])
      BY <2>3 DEF Filings
    <3>2. /\ \A i \in req[r].missing : ~Exists(SlotOf(req[r].lease, i))
          /\ req[r].missing # {} => req[r].lease \in lease
      BY <1>4 DEF GenerateCommit, GenerateAnswers, NoReq, Becomes, TypeOK, SeedTypeOK
    <3>3. \E i \in req[r].missing : SlotOf(req[r].lease, i) = s /\ entry'[s] = Fresh(i)
      BY <1>2, <1>4, <3>1, <3>2, InsertedRow DEF GenerateAnswers, Matching
    <3>4. PICK i \in req[r].missing : SlotOf(req[r].lease, i) = s /\ entry'[s] = Fresh(i)
      BY <3>3
    <3>5. entry[s] = NoRow /\ s.lease \in lease
      BY <3>2, <3>4 DEF Exists, SlotOf
    <3>6. entry'[s] \in Row
      BY <1>2, <3>4, FreshTyped DEF Matching
    <3>7. FilingOf(entry'[s]) = [stage |-> "open", timed |-> FALSE, explained |-> FALSE]
      <4>1. StageOf("pending") = "open"
        BY DEF StageOf, Exempt
      <4>2. /\ Fresh(i).status = "pending" /\ Fresh(i).filed = FALSE
            /\ (Fresh(i).reason # None) = FALSE
        BY DEF Fresh
      <4> QED
        BY <3>4, <3>6, <4>1, <4>2, FilingShape
    <3> QED
      BY <3>1, <3>5, <3>7, FilingOfNone DEF Filed!Opened
  <2>4. Filed!Enter
    BY <1>1, <2>2, <2>3 DEF Filed!Enter
  <2> QED
    BY <2>4 DEF Filed!Next
<1> QED
  BY <1>3, <1>4 DEF GenerateCommit, GenerateAnswers, Becomes, SeedTypeOK, TypeOK

\* A refresh marks what it found open.
LEMMA RefreshLapses ==
  ASSUME Registering, NEW r \in Request, Serve(r), RefreshCommit(r)
  PROVE  Filed!Next
<1> USE DEF Registering, Loading
<1>1. req[r].phase = "refresh" /\ req'[r] = NoReq /\ lease' = lease
  BY DEF RefreshCommit, Becomes, SeedTypeOK, TypeOK
<1>2. Claims' \subseteq Claims
  BY <1>1, RequestSettles DEF Purpose, NoReq
<1>3. ASSUME NEW s \in Slot, Filings'[s] # Filings[s]
      PROVE  /\ <<s, "lapse">> \in Claims /\ Filings[s] # Filed!Absent
             /\ Filings'[s] = [Filings[s] EXCEPT !.stage = "late"]
  <2>1. entry'[s] # entry[s] /\ Filings[s] = FilingOf(entry[s]) /\ Filings'[s] = FilingOf(entry'[s])
    BY <1>3 DEF Filings
  <2>2. s \in req[r].stale /\ entry'[s] = [entry[s] EXCEPT !.status = "overdue"]
    BY <2>1 DEF RefreshCommit
  <2>3. Exists(s)
    BY <1>1, <2>2 DEF Filing, HeldRows, Holds
  <2>4. <<s, "lapse">> \in Claims
    BY <1>1, <2>2, ClaimsOf DEF Purpose
  <2>5. entry[s] \in Row /\ Filings[s] # Filed!Absent
    BY <2>3, StageTyped
  <2>6. /\ entry'[s] \in Row /\ entry'[s].status = "overdue"
        /\ entry'[s].filed = entry[s].filed /\ entry'[s].reason = entry[s].reason
    BY <2>2, <2>5 DEF Row, Status
  <2>7. StageOf("overdue") = "late"
    BY DEF StageOf, Exempt
  <2>8. FilingOf(entry'[s]) = [FilingOf(entry[s]) EXCEPT !.stage = "late"]
    BY <2>5, <2>6, <2>7, FilingShape
  <2> QED
    BY <2>1, <2>4, <2>5, <2>8
<1>4. Filed!Lapse
  BY <1>1, <1>2, <1>3 DEF Filed!Lapse, Filed!Settled
<1> QED
  BY <1>4 DEF Filed!Next

\* What is written to an entry that is there.
LEMMA WrittenFiling ==
  ASSUME NEW row \in Row, NEW w \in Write
  PROVE  /\ Written(row, w) \in Row
         /\ FilingOf(Written(row, w)) \in Filed!Record
         /\ FilingOf(Written(row, w)) # Filed!Absent
         /\ FilingOf(row).timed => FilingOf(Written(row, w)).timed
         /\ w.reason \in {"keep", SeedReason} /\ FilingOf(row).explained
               => FilingOf(Written(row, w)).explained
<1>1. Written(row, w) \in Row
  BY WrittenTyped
<1>2. /\ Written(row, w).filed = (row.filed \/ w.filed)
      /\ Written(row, w).reason = IF w.reason = "keep" THEN row.reason ELSE w.reason
  BY DEF Written, Row, Write
<1>3. SeedReason # None
  BY SeedConstantsOK, ConstantsOK
<1>4. /\ FilingOf(row).timed = row.filed
      /\ FilingOf(row).explained = (row.reason # None)
  BY FilingShape
<1>5. /\ FilingOf(Written(row, w)).timed = Written(row, w).filed
      /\ FilingOf(Written(row, w)).explained = (Written(row, w).reason # None)
  BY <1>1, FilingShape
<1>6. FilingOf(Written(row, w)) \in Filed!Record /\ FilingOf(Written(row, w)) # Filed!Absent
  BY <1>1, FilingShape
<1> QED
  BY <1>1, <1>2, <1>3, <1>4, <1>5, <1>6

\* A record that differs in its stage and in being timed.
LEMMA Timing ==
  ASSUME NEW old \in Filed!Record, NEW new \in Filed!Record, new.timed,
         new.explained = old.explained
  PROVE  new = [old EXCEPT !.stage = new.stage, !.timed = TRUE]
<1> DEFINE made == [old EXCEPT !.stage = new.stage, !.timed = TRUE]
<1>1. made \in Filed!Record
  BY DEF Filed!Record
<1>2. made.stage = new.stage /\ made.timed /\ made.explained = old.explained
  BY DEF Filed!Record
<1> HIDE DEF made
<1>3. new = made
  BY <1>1, <1>2 DEF Filed!Record
<1> QED
  BY <1>3 DEF made

\* A commit of a request that edits is a filing or a decision.
LEMMA EditDecides ==
  ASSUME Registering, [SeedNext]_allVars, NEW r \in Request, Serve(r), EditCommit(r)
  PROVE  Filed!Next
<1> USE DEF Registering, Loading
<1>1. /\ req[r].phase = "edit" /\ req[r].slot \in Slot /\ req[r].write \in Write
      /\ req'[r] = NoReq /\ lease' = lease
  <2>1. req[r].phase = "edit" /\ req[r] \in Editing
    BY Phases DEF EditCommit, SeedTypeOK
  <2> QED
    BY <2>1 DEF EditCommit, Editing, Becomes, SeedTypeOK, TypeOK
<1>2. PICK s \in Slot, w \in Write : s = req[r].slot /\ w = req[r].write
  BY <1>1
<1>3. Exists(s) /\ entry[s] \in Row
  <2>1. Holds(r, s)
    BY <1>1, <1>2 DEF Holds
  <2> QED
    BY <2>1, StageTyped DEF Filing, HeldRows
<1>4. entry' = [entry EXCEPT ![s] = Written(entry[s], w)]
  BY <1>2, <1>3 DEF EditCommit
<1>5. Claims' \subseteq Claims
  BY <1>1, RequestSettles DEF Purpose, NoReq
<1>6. Filings[s] = FilingOf(entry[s]) /\ Filings[s] # Filed!Absent
  BY <1>3, StageTyped
<1>7. Filings' = [Filings EXCEPT ![s] = FilingOf(Written(entry[s], w))]
  BY <1>4 DEF Filings, SeedTypeOK, TypeOK
<1>8. CASE r \in Patcher
  <2>1. <<s, "decide">> \in Claims
    BY <1>1, <1>2, <1>8, ClaimsOf DEF Purpose
  <2>2. entry'[s].status = "submitted" => entry'[s].filed
    BY RegisteringStep, FilingStep, ServeStep DEF Filing, FiledInv, FiledHasTime
  <2>3. entry'[s] = Written(entry[s], w)
    BY <1>4 DEF SeedTypeOK, TypeOK
  <2>4. FilingOf(Written(entry[s], w)).stage = "filed" => FilingOf(Written(entry[s], w)).timed
    BY <1>3, <2>2, <2>3, WrittenFiling, FilingShape
  <2>5. Filed!Follows(Filings[s], FilingOf(Written(entry[s], w)))
    BY <1>3, <1>6, <2>4, WrittenFiling DEF Filed!Follows
  <2>6. Filed!Decide(s)
    BY <1>1, <1>3, <1>5, <1>6, <1>7, <2>1, <2>5, WrittenFiling DEF Filed!Decide, Filed!Settled
  <2> QED
    BY <2>6 DEF Filed!Next
<1>9. CASE r \notin Patcher
  <2>1. <<s, "file">> \in Claims
    BY <1>1, <1>2, <1>9, ClaimsOf DEF Purpose
  <2>2. w.status \in {"keep", "submitted"} /\ w.filed /\ w.reason = "keep"
    BY <1>1, <1>2, <1>9 DEF FilersFile
  <2>3. /\ Written(entry[s], w) \in Row
        /\ Written(entry[s], w).status \in {entry[s].status, "submitted"}
        /\ Written(entry[s], w).filed = TRUE
        /\ Written(entry[s], w).reason = entry[s].reason
    BY <1>3, <2>2, WrittenTyped DEF Written, Row
  <2>4. StageOf("submitted") = "filed"
    BY DEF StageOf, Exempt
  <2>5. /\ Filings[s] \in Filed!Record
        /\ Filings[s].stage = StageOf(entry[s].status)
        /\ Filings[s].explained = (entry[s].reason # None)
    BY <1>3, <1>6, FilingShape
  <2> DEFINE new == FilingOf(Written(entry[s], w))
  <2>6. /\ new \in Filed!Record /\ new.timed /\ new.explained = Filings[s].explained
        /\ new.stage \in {"filed", Filings[s].stage}
    BY <2>3, <2>4, <2>5, FilingShape
  <2> HIDE DEF new
  <2>7. new = [Filings[s] EXCEPT !.stage = new.stage, !.timed = TRUE]
    BY <2>5, <2>6, Timing
  <2>8. \E stage \in {"filed", Filings[s].stage} :
           Filings' = [Filings EXCEPT ![s] = [@ EXCEPT !.stage = stage, !.timed = TRUE]]
    BY <1>7, <2>6, <2>7 DEF new, Filings
  <2>9. Filed!File(s)
    BY <1>1, <1>5, <1>6, <2>1, <2>8 DEF Filed!File, Filed!Settled
  <2> QED
    BY <2>9 DEF Filed!Next
<1> QED
  BY <1>8, <1>9

\* The commit of the command loads its history, and enters what it generated.
LEMMA CommitLoads ==
  ASSUME Registering, SeedCommit PROVE Filed!Next
<1> USE DEF Registering, Loading
<1>1. seeding # NoSession /\ seeding' = NoSession /\ UNCHANGED req
  BY DEF SeedCommit, NoSession
<1>2. Claims' \subseteq Claims
  BY <1>1 DEF Claims, History
<1>3. CASE ~Fits
  BY <1>1, <1>3, Releases DEF SeedCommit, History
<1>4. CASE Fits
  <2>1. lease' = lease \cup PackLease /\ lease' \subseteq Lease
    BY <1>4, SeedConstantsOK DEF SeedCommit, SeedTypeOK, TypeOK
  <2>2. Registered' /\ FiledHasTime'
    BY CommitFiles DEF Filing, FiledInv
  <2>3. ASSUME NEW s \in Slot, Filings'[s] # Filings[s]
        PROVE  \/ /\ Filings[s] = Filed!Absent /\ s.lease \in lease'
                  /\ Filings'[s] = Filed!Opened
               \/ /\ <<s, "history">> \in Claims /\ s.lease \in lease'
                  /\ Filed!Follows(Filings[s], Filings'[s])
                  /\ Filings[s].explained => Filings'[s].explained
    <3> DEFINE w == seeding.write[s]
    <3>1. entry'[s] # entry[s] /\ Filings[s] = FilingOf(entry[s]) /\ Filings'[s] = FilingOf(entry'[s])
      BY <2>3 DEF Filings
    <3>2. /\ w \in Write /\ w.reason \in {"keep", SeedReason}
          /\ w # Keep => <<s, "history">> \in Claims
      BY <1>1, SessionTyped, HistoryOf DEF Drafted
    <3>3. Exists(s)'
      BY <1>4, <3>1, SeededEntry DEF Exists
    <3>4. s.lease \in lease'
      BY <2>2, <3>3 DEF Registered, Exists
    <3>5. /\ entry'[s] \in Row
          /\ FilingOf(entry'[s]) \in Filed!Record /\ FilingOf(entry'[s]) # Filed!Absent
          /\ FilingOf(entry'[s]).stage = "filed" => FilingOf(entry'[s]).timed
      <4>1. entry'[s] \in Row
        BY <1>4, <3>3, SeededEntry
      <4>2. entry'[s].status = "submitted" => entry'[s].filed
        BY <2>2 DEF FiledHasTime
      <4> QED
        BY <4>1, <4>2, FilingShape
    <3>6. CASE Exists(s)
      <4>1. entry[s] \in Row /\ entry'[s] = Written(entry[s], w)
        BY <1>4, <3>6, SeededEntry, StageTyped
      <4>2. w # Keep
        <5>1. ASSUME NEW x \in Row PROVE Written(x, Keep) = x
          BY DEF Written, Keep, Row
        <5> HIDE DEF w
        <5> QED
          BY <3>1, <4>1, <5>1
      <4> HIDE DEF w
      <4> QED
        BY <3>1, <3>2, <3>4, <3>5, <4>1, <4>2, WrittenFiling DEF Filed!Follows
    <3>7. CASE ~Exists(s)
      <4>1. /\ seeding.made[s] \in Row /\ seeding.made[s].status = "pending"
            /\ seeding.made[s].filed = FALSE /\ (seeding.made[s].reason # None) = FALSE
            /\ entry'[s] = Written(seeding.made[s], w)
        <5>1. seeding.made[s] # NoRow /\ entry'[s] = Written(seeding.made[s], w)
          BY <1>4, <3>3, <3>7, SeededEntry
        <5>2. seeding.made[s] \in Row
          BY <1>1, <5>1, SessionTyped
        <5> QED
          BY <1>1, <5>1, <5>2 DEF Invents, Drafted, Row
      <4>2. Filings[s] = Filed!Absent
        BY <3>1, <3>7, FilingOfNone DEF Exists
      <4>3. CASE w = Keep
        <5>1. ASSUME NEW x \in Row PROVE Written(x, Keep) = x
          BY DEF Written, Keep, Row
        <5>2. entry'[s] = seeding.made[s]
          BY <4>1, <4>3, <5>1
        <5>3. StageOf("pending") = "open"
          BY DEF StageOf, Exempt
        <5>4. FilingOf(entry'[s]) = [stage |-> "open", timed |-> FALSE, explained |-> FALSE]
          BY <4>1, <5>2, <5>3, FilingShape
        <5> QED
          BY <3>1, <3>4, <4>2, <5>4 DEF Filed!Opened
      <4>4. CASE w # Keep
        <5> HIDE DEF w
        <5> QED
          BY <3>1, <3>2, <3>4, <3>5, <4>2, <4>4 DEF Filed!Follows, Filed!Absent
      <4> QED
        BY <4>3, <4>4
    <3> QED
      BY <3>6, <3>7
  <2>4. Filed!Load
    BY <1>2, <2>1, <2>3 DEF Filed!Load, Filed!Settled
  <2> QED
    BY <2>4 DEF Filed!Next
<1> QED
  BY <1>3, <1>4

LEMMA DropWithdraws ==
  ASSUME SeedTypeOK, NEW l \in Lease, DropLease(l) PROVE Filed!Next
<1>1. /\ l \in lease /\ lease' = lease \ {l} /\ seeding' = seeding
      /\ \A r \in Request : req'[r] = NoReq \/ req'[r] = req[r]
  BY DEF DropLease
<1>2. Claims' \subseteq Claims
  <2> SUFFICES ASSUME NEW c \in Claims' PROVE c \in Claims
    OBVIOUS
  <2>1. CASE c \in History(seeding')
    BY <1>1, <2>1, ClaimsOf
  <2>2. ASSUME NEW r \in Request, c \in Purpose(r, req'[r]) PROVE c \in Claims
    <3>1. Purpose(r, NoReq) = {}
      BY DEF Purpose, NoReq
    <3> QED
      BY <1>1, <2>2, <3>1, ClaimsOf
  <2> QED
    BY <2>1, <2>2, NextClaimsOf
<1>3. Filings' = [s \in Slot |-> IF s.lease = l THEN Filed!Absent ELSE Filings[s]]
  <2>1. \A s \in Slot : entry'[s] = IF s.lease = l THEN NoRow ELSE entry[s]
    BY DEF DropLease
  <2>2. Filings' = [s \in Slot |-> FilingOf(entry'[s])]
    BY DEF Filings
  <2>3. \A s \in Slot : FilingOf(entry'[s]) = IF s.lease = l THEN Filed!Absent ELSE Filings[s]
    BY <2>1, FilingOfNone DEF Filings
  <2> QED
    BY <2>2, <2>3
<1>4. Filed!Withdraw(l)
  BY <1>1, <1>2, <1>3 DEF Filed!Withdraw, Filed!Settled
<1> QED
  BY <1>4 DEF Filed!Next

LEMMA ServeRegisters ==
  ASSUME Registering, [SeedNext]_allVars, NEW r \in Request, Serve(r) PROVE Filed!Next
<1> USE DEF Registering, Loading
<1>1. ASSUME UNCHANGED <<lease, entry>>, req'[r] = req[r] \/ req'[r] = NoReq PROVE Filed!Next
  <2>1. \A other \in Request : req'[other] = req[other] \/ req'[other] = NoReq
    BY <1>1, OthersWait
  <2> QED
    BY <1>1, <2>1, Releases DEF Serve, seedVars
<1>2. ASSUME UNCHANGED <<lease, entry>>, Idle(r) \/ req[r].phase = "plan",
             Purpose(r, req'[r]) = {}
      PROVE  Filed!Next
  <2>1. Claims' \subseteq Claims /\ Filings' = Filings
    BY <1>2, RequestSettles DEF Filings
  <2> QED
    BY <1>2, <2>1 DEF Filed!Next, Filed!Release, Filed!Settled
<1>3. ASSUME NEW l \in Lease, NEW w \in Window, GeneratePlan(r, l, w) PROVE Filed!Next
  BY <1>2, <1>3 DEF GeneratePlan, Becomes, Purpose, SeedTypeOK, TypeOK
<1>4. CASE GenerateMatch(r)
  BY <1>2, <1>4 DEF GenerateMatch, Becomes, Purpose, SeedTypeOK, TypeOK
<1>5. CASE GenerateAnswer(r) \/ Abandon(r)
  BY <1>1, <1>5 DEF GenerateAnswer, Abandon, Becomes, SeedTypeOK, TypeOK
<1>6. ASSUME NEW s \in Slot, SubmitRead(r, s) PROVE Filed!Next
  <2>1. PICK write : req'[r] = [phase |-> "edit", slot |-> s, write |-> write]
    BY <1>6 DEF SubmitRead, Becomes, SeedTypeOK, TypeOK
  <2> QED
    BY <1>6, <2>1, EditClaims DEF SubmitRead
<1>7. ASSUME NEW s \in Slot, NEW status \in Patched, NEW reason \in Reason \cup {None},
             PatchRead(r, s, status, reason)
      PROVE  Filed!Next
  <2>1. PICK write : req'[r] = [phase |-> "edit", slot |-> s, write |-> write]
    BY <1>7 DEF PatchRead, Becomes, SeedTypeOK, TypeOK
  <2> QED
    BY <1>7, <2>1, EditClaims DEF PatchRead
<1> QED
  BY <1>3, <1>4, <1>5, <1>6, <1>7, GenerateEnters, RefreshClaims, RefreshLapses, EditDecides
  DEF Serve, Generate, Refresh, Edit

\* The calendar under requests, deletions and the command is a register of filings.
THEOREM SeedKeepsTheRegister == SeedSpec => KeepsTheRegister
<1>1. SeedInit => Registering
  <2>1. SeedInit => Filing
    BY DEF SeedInit, Init, Filing, Registered, HeldRows, Holds, Exists, FiledInv, FiledHasTime,
           FilingsTimed, NoReq, NoRow
  <2>2. SeedInit => FilersFile /\ Drafted
    BY DEF SeedInit, Init, FilersFile, Drafted, NoReq
  <2> QED
    BY <2>1, <2>2, LoadingInit DEF Registering
<1>2. SeedInit => Filed!Init
  <2> SUFFICES ASSUME SeedInit PROVE Filed!Init
    OBVIOUS
  <2>1. Filings = [s \in Slot |-> Filed!Absent]
    BY FilingOfNone DEF SeedInit, Init, Filings
  <2>2. \A r \in Request : Purpose(r, req[r]) = {}
    BY DEF SeedInit, Init, Purpose, NoReq
  <2>3. History(seeding) = {}
    BY DEF SeedInit, History
  <2>4. Claims = {}
    BY <2>2, <2>3, ClaimsOf
  <2> QED
    BY <2>1, <2>4 DEF Filed!Init, SeedInit, Init
<1>3. Registering /\ [SeedNext]_allVars => [Filed!Next]_Filed!vars
  <2> SUFFICES ASSUME Registering, [SeedNext]_allVars PROVE Filed!Next \/ UNCHANGED Filed!vars
    OBVIOUS
  <2> USE DEF Registering, Loading
  <2>1. CASE UNCHANGED allVars
    BY <2>1 DEF allVars, Filings, Claims, Filed!vars
  <2>2. ASSUME NEW q \in Rule, NEW d \in Definition, ChangeRule(q, d) PROVE UNCHANGED Filed!vars
    BY <2>2, ChangeStep DEF Filings, Claims, Filed!vars
  <2>3. CASE SeedFile
    BY <2>3, HistoryClaims
  <2>4. ASSUME UNCHANGED <<lease, entry, req>>, ~SeedFile PROVE Filed!Next
    BY <2>4, SessionReleases
  <2> QED
    BY <2>1, <2>2, <2>3, <2>4, CommitLoads, DropWithdraws, ServeRegisters
    DEF SeedNext, Seeding, SeedReference, SeedLeases, SeedGenerate, SeedAbandon,
        CreateMineral, UpdateMineral, CreateHolder, UpdateHolder, Entered, RenumberHolder,
        DeleteHolder, vars
<1> QED
  BY <1>1, <1>2, <1>3, RegisteringStep, PTL DEF SeedSpec, KeepsTheRegister, Filed!Spec

=============================================================================
