--------------------------- MODULE FindingsProofs ---------------------------
(* Theorems about Findings, for every value of its constants. *)
EXTENDS Findings, TLAPS

\* Row is closed under the assignments of the handlers.
LEMMA RowAssigned ==
  ASSUME NEW r \in Row
  PROVE  /\ [r EXCEPT !.acked = TRUE] \in Row
         /\ \A e \in Editor : [r EXCEPT !.status = "resolved", !.resolvedBy = e] \in Row
         /\ \A sv \in Severity, st \in Status \ {"unborn"} :
               [r EXCEPT !.severity = sv, !.status = st] \in Row
         /\ \A t \in Time : [r EXCEPT !.level = 1, !.alerted = TRUE, !.lastEscalated = t] \in Row
         /\ [r EXCEPT !.status = "deleted", !.alerted = FALSE, !.acked = FALSE, !.level = 0,
                       !.lastEscalated = None, !.resolvedBy = None] \in Row
BY DEF Row, Status

\* What is in use is not an idle value.
LEMMA InUse ==
  ASSUME TypeOK
  PROVE  /\ \A a \in Scanner : scan[a].phase # "idle" => scan[a] \in Scan
         /\ \A e \in Editor : edit[e].op # "idle" => edit[e] \in Edit
         /\ \A s \in Sweeper : sweep[s].active \/ sweep[s].todo # {} => sweep[s] \in Sweep
         /\ \A f \in Finding : row[f].status # "unborn" => row[f] \in Row
         /\ \A f \in Finding : Exists(f) => row[f] \in Row
BY DEF TypeOK, NoScan, NoEdit, NoSweep, NewRow, Exists

\* The row that an edit commits is a row.
LEMMA EditedTyped ==
  ASSUME TypeOK, NEW e \in Editor, edit[e].op # "idle", NEW r \in Row
  PROVE  Edited(e, r) \in Row
<1>1. edit[e] \in Edit
  BY InUse
<1>2. CASE edit[e].op = "acknowledge"
  BY <1>2, RowAssigned DEF Edited
<1>3. CASE edit[e].op = "resolve"
  BY <1>3, RowAssigned DEF Edited
<1>4. CASE edit[e].op = "update"
  <2>1. /\ r.severity \in Severity /\ r.status \in Status \ {"unborn"}
        /\ edit[e].severity \in Severity \cup {Keep}
        /\ "false_positive" \in Status \ {"unborn"}
    BY <1>1 DEF Row, Edit, Status
  <2> QED
    BY <1>4, <2>1, RowAssigned DEF Edited
<1> QED
  BY <1>1, <1>2, <1>3, <1>4 DEF Edit

USE DEF db

\* Every step leaves the tables, the storage and the pending requests typed.
LEMMA TypeStep == TypeOK /\ [Next]_vars => TypeOK'
<1> SUFFICES ASSUME TypeOK, [Next]_vars PROVE TypeOK'
  OBVIOUS
<1>1. ASSUME NEW a \in Scanner, NEW l \in Lease, NEW p \in Photo, NEW auto \in BOOLEAN,
             AnalyzeSave(a, l, p, auto)
      PROVE  TypeOK'
  BY <1>1 DEF TypeOK, AnalyzeSave, Scan, Time
<1>2. ASSUME NEW a \in Scanner, AnalyzeFlush(a) PROVE TypeOK'
  <2>1. scan[a] \in Scan
    BY <1>2, InUse DEF AnalyzeFlush
  <2>2. [scan[a] EXCEPT !.phase = "flushed"] \in Scan
    BY <2>1 DEF Scan
  <2>3. scan' \in [Scanner -> Scan \cup {NoScan}]
    BY <1>2, <2>2 DEF TypeOK, AnalyzeFlush
  <2> QED
    BY <1>2, <2>3 DEF TypeOK, AnalyzeFlush
<1>3. ASSUME NEW a \in Scanner, AnalyzeVisionFails(a) PROVE TypeOK'
  BY <1>3 DEF TypeOK, AnalyzeVisionFails
<1>4. ASSUME NEW a \in Scanner, NEW S \in SUBSET Finding, NEW found \in [S -> Reported],
             AnalyzeRecord(a, found)
      PROVE  TypeOK'
  <2>1. scan[a] \in Scan
    BY <1>4, InUse DEF AnalyzeRecord
  <2>2. \A f \in S : found[f] \in Severity
    BY ConstantsOK
  <2>3. \A f \in S : Detected(a, found[f]) \in Row
    BY <2>1, <2>2 DEF Detected, Row, Scan, Status
  <2>4. row' \in [Finding -> Row \cup {NewRow}]
    <3>1. \/ row' = row
          \/ row' = [f \in Finding |-> IF f \in S THEN Detected(a, found[f]) ELSE row[f]]
      BY <1>4 DEF AnalyzeRecord, db
    <3> QED
      BY <2>3, <3>1 DEF TypeOK
  <2>5. /\ lease' = lease
        /\ doc' = doc \/ doc' = [doc EXCEPT ![scan[a].lease] = @ \cup {scan[a].photo}]
        /\ trail' = trail \/ trail' = trail \cup {[action |-> "create", entity |-> None]}
        /\ scan' = [scan EXCEPT ![a] = NoScan]
        /\ UNCHANGED <<clock, file, outbox, edit, sweep>>
    BY <1>4 DEF AnalyzeRecord
  <2>6. scan[a].lease \in Lease /\ scan[a].photo \in Photo
    BY <2>1 DEF Scan
  <2>7. doc' \in [Lease -> SUBSET Photo]
    BY <2>5, <2>6 DEF TypeOK
  <2>9. trail' \subseteq Entry
    BY <2>5 DEF TypeOK, Entry
  <2> QED
    BY <2>4, <2>5, <2>7, <2>9 DEF TypeOK
<1>5. ASSUME NEW e \in Editor, NEW f \in Finding, AcknowledgeRead(e, f) PROVE TypeOK'
  BY <1>5 DEF TypeOK, AcknowledgeRead, Edit
<1>6. ASSUME NEW e \in Editor, NEW f \in Finding, NEW severity \in Reported \cup {Keep},
             NEW fp \in BOOLEAN, UpdateRead(e, f, severity, fp)
      PROVE  TypeOK'
  BY <1>6, ConstantsOK DEF TypeOK, UpdateRead, Edit
<1>7. ASSUME NEW e \in Editor, NEW f \in Finding, ResolveRead(e, f) PROVE TypeOK'
  BY <1>7 DEF TypeOK, ResolveRead, Edit
<1>8. ASSUME NEW e \in Editor, EditCommit(e) PROVE TypeOK'
  <2> DEFINE f == edit[e].finding
  <2>1. edit[e] \in Edit /\ edit[e].op # "idle"
    BY <1>8, InUse DEF EditCommit
  <2>2. f \in Finding /\ edit[e].op \in {"acknowledge", "update", "resolve"}
    BY <2>1 DEF Edit
  <2>3. row' \in [Finding -> Row \cup {NewRow}]
    <3>1. CASE Exists(f)
      <4>1. Edited(e, row[f]) \in Row
        BY <2>1, <2>2, <3>1, EditedTyped, InUse
      <4> QED
        BY <1>8, <2>2, <3>1, <4>1 DEF TypeOK, EditCommit
    <3>2. CASE ~Exists(f)
      BY <1>8, <3>2 DEF TypeOK, EditCommit
    <3> QED
      BY <3>1, <3>2
  <2>4. trail' \subseteq Entry
    BY <1>8, <2>2 DEF TypeOK, EditCommit, Entry
  <2> QED
    BY <1>8, <2>3, <2>4 DEF TypeOK, EditCommit
<1>9. ASSUME NEW s \in Sweeper, NEW l \in Lease, SweepRead(s, l) PROVE TypeOK'
  BY <1>9 DEF TypeOK, SweepRead, Sweep
<1>10. ASSUME NEW s \in Sweeper, NEW f \in Finding, NEW sent \in SUBSET Finding,
              f \in sweep[s].todo,
              sweep' = [sweep EXCEPT ![s].todo = @ \ {f}, ![s].sent = sent]
       PROVE  sweep' \in [Sweeper -> Sweep \cup {NoSweep}]
  <2>1. sweep[s] \in Sweep
    BY <1>10, InUse
  <2>2. [sweep[s] EXCEPT !.todo = @ \ {f}, !.sent = sent] \in Sweep
    BY <2>1 DEF Sweep
  <2> QED
    BY <1>10, <2>2 DEF TypeOK
<1>11. ASSUME NEW s \in Sweeper, NEW f \in Finding, f \in sweep[s].todo,
              sweep' = [sweep EXCEPT ![s].todo = @ \ {f}]
       PROVE  sweep' \in [Sweeper -> Sweep \cup {NoSweep}]
  <2>1. sweep[s] \in Sweep
    BY <1>11, InUse
  <2>2. [sweep[s] EXCEPT !.todo = @ \ {f}] \in Sweep
    BY <2>1 DEF Sweep
  <2> QED
    BY <1>11, <2>2 DEF TypeOK
<1>12. ASSUME NEW s \in Sweeper, NEW f \in Finding, SweepSkip(s, f) PROVE TypeOK'
  BY <1>11, <1>12 DEF TypeOK, SweepSkip, IsNext
<1>13. ASSUME NEW s \in Sweeper, NEW f \in Finding, NEW answered \in BOOLEAN,
              SweepSend(s, f, answered)
       PROVE  TypeOK'
  <2>1. sweep[s] \in Sweep /\ f \in sweep[s].todo
    BY <1>13, InUse DEF SweepSend, IsNext
  <2>2. row[f].lease \in Lease /\ sweep[s].lease \in Lease
    BY <1>13, <2>1 DEF SweepSend, LeaseFound, TypeOK, Sweep
  <2>3. Target(s, f) \in Address
    BY <1>13, <2>2, ConstantsOK DEF SweepSend, Target
  <2>4. outbox' \in [Finding -> Seq(Address)]
    BY <1>13, <2>3 DEF TypeOK, SweepSend
  <2>5. (IF answered THEN sweep[s].sent \cup {f} ELSE sweep[s].sent) \in SUBSET Finding
    BY <2>1 DEF Sweep
  <2>6. sweep' = [sweep EXCEPT ![s].todo = @ \ {f},
                               ![s].sent = IF answered THEN sweep[s].sent \cup {f}
                                           ELSE sweep[s].sent]
    BY <1>13 DEF SweepSend, TypeOK
  <2>7. sweep' \in [Sweeper -> Sweep \cup {NoSweep}]
    BY <1>10, <2>1, <2>5, <2>6
  <2> QED
    BY <1>13, <2>4, <2>7 DEF TypeOK, SweepSend
<1>14. ASSUME NEW s \in Sweeper, NEW f \in Finding, SweepSendFails(s, f) PROVE TypeOK'
  BY <1>11, <1>14 DEF TypeOK, SweepSendFails, IsNext
<1>15. ASSUME NEW s \in Sweeper, SweepCommit(s) PROVE TypeOK'
  <2>1. sweep[s] \in Sweep
    BY <1>15, InUse DEF SweepCommit
  <2>2. sweep[s].now \in Time /\ sweep[s].sent \subseteq Finding
    BY <2>1 DEF Sweep
  <2>3. row' \in [Finding -> Row \cup {NewRow}]
    <3>1. CASE \A f \in sweep[s].sent : Exists(f)
      <4>1. \A f \in sweep[s].sent : row[f] \in Row
        BY <2>2, <3>1, InUse
      <4>2. \A f \in sweep[s].sent :
               [row[f] EXCEPT !.level = 1, !.alerted = TRUE,
                              !.lastEscalated = sweep[s].now] \in Row
        BY <2>2, <4>1, RowAssigned
      <4>3. row' = [f \in Finding |->
                      IF f \in sweep[s].sent
                      THEN [row[f] EXCEPT !.level = 1, !.alerted = TRUE,
                                          !.lastEscalated = sweep[s].now]
                      ELSE row[f]]
        BY <1>15, <3>1 DEF SweepCommit
      <4> QED
        BY <4>2, <4>3 DEF TypeOK
    <3>2. CASE ~ \A f \in sweep[s].sent : Exists(f)
      BY <1>15, <3>2 DEF TypeOK, SweepCommit
    <3> QED
      BY <3>1, <3>2
  <2>4. [action : {"escalate"}, entity : sweep[s].sent] \subseteq Entry
    BY <2>2 DEF Entry
  <2>5. trail' \subseteq Entry
    BY <1>15, <2>4 DEF TypeOK, SweepCommit
  <2> QED
    BY <1>15, <2>3, <2>5 DEF TypeOK, SweepCommit
<1>16. ASSUME NEW l \in Lease, DeleteLease(l) PROVE TypeOK'
  <2>1. \A f \in Finding : Exists(f) => row[f] \in Row
    BY InUse
  <2>2. row' \in [Finding -> Row \cup {NewRow}]
    BY <1>16, <2>1, RowAssigned DEF TypeOK, DeleteLease
  <2> QED
    BY <1>16, <2>2 DEF TypeOK, DeleteLease
<1>17. ASSUME Crash PROVE TypeOK'
  BY <1>17 DEF TypeOK, Crash
<1>18. ASSUME Tick PROVE TypeOK'
  BY <1>18, ConstantsOK DEF TypeOK, Tick, Time
<1>19. ASSUME UNCHANGED vars PROVE TypeOK'
  BY <1>19 DEF TypeOK, vars
<1>20. ASSUME NEW a \in Scanner, Analyze(a) PROVE TypeOK'
  BY <1>20, <1>1, <1>2, <1>3, <1>4 DEF Analyze
<1>21. ASSUME NEW e \in Editor, EditStep(e) PROVE TypeOK'
  BY <1>21, <1>5, <1>6, <1>7, <1>8 DEF EditStep
<1>22. ASSUME NEW s \in Sweeper, SweepProgress(s) PROVE TypeOK'
  BY <1>22, <1>12, <1>13, <1>14, <1>15 DEF SweepProgress
<1> QED
  BY <1>9, <1>16, <1>17, <1>18, <1>19, <1>20, <1>21, <1>22 DEF Next

\* TypeOK holds in every reachable state.
THEOREM TypeCorrect == Spec => []TypeOK
<1>1. Init => TypeOK
  BY ConstantsOK DEF Init, TypeOK, Time
<1> QED
  BY <1>1, TypeStep, PTL DEF Spec
(***************************************************************************)
(* The inductive invariant.  What a sweep has read stays true of its       *)
(* findings in one respect only: they were detected long enough ago.       *)
(* Status, severity and acknowledgement may all have changed since.        *)
(***************************************************************************)
SweepHistory ==
    \A s \in Sweeper : \A f \in sweep[s].todo \cup sweep[s].sent :
        /\ row[f].status # "unborn"
        /\ row[f].detected + EscalationAfter <= sweep[s].now
        /\ f \in sweep[s].sent => outbox[f] # <<>>

IInv ==
    /\ TypeOK
    /\ SweepHistory
    /\ EscalationWasDue
    /\ EscalationIsBacked
    /\ ResolutionConsistent

\* What a commit may do to a row, seen from the rest of the database.
RowStep ==
    \A f \in Finding :
        /\ row[f].status # "unborn" => /\ row'[f].status # "unborn"
                                       /\ row'[f].detected = row[f].detected
        /\ row[f].status \in Closed => row'[f].status \in Closed \cup {"deleted"}
        /\ row[f].acked /\ Exists(f)' => row'[f].acked
        /\ Exists(f)' /\ row[f].status # "unborn" => Exists(f)

\* The actions that write findings or the audit trail.
LEMMA Writers ==
  ASSUME [Next]_vars
  PROVE  \/ UNCHANGED <<row, trail>>
         \/ \E a \in Scanner : \E S \in SUBSET Finding : \E found \in [S -> Reported] :
               AnalyzeRecord(a, found)
         \/ \E e \in Editor : EditCommit(e)
         \/ \E s \in Sweeper : SweepCommit(s)
         \/ \E l \in Lease : DeleteLease(l)
<1>1. CASE \E a \in Scanner : Analyze(a)
  BY <1>1 DEF Analyze, AnalyzeSave, AnalyzeFlush, AnalyzeVisionFails
<1>2. CASE \E e \in Editor : EditStep(e)
  BY <1>2 DEF EditStep, AcknowledgeRead, UpdateRead, ResolveRead
<1>3. CASE \E s \in Sweeper : (\E l \in Lease : SweepRead(s, l)) \/ SweepProgress(s)
  BY <1>3 DEF SweepProgress, SweepRead, SweepSkip, SweepSend, SweepSendFails
<1> QED
  BY <1>1, <1>2, <1>3 DEF Next, Crash, Tick, vars

LEMMA RowSteps == TypeOK /\ [Next]_vars => RowStep
<1> SUFFICES ASSUME TypeOK, [Next]_vars PROVE RowStep
  OBVIOUS
<1> USE DEF RowStep, Exists, Closed
<1>1. CASE UNCHANGED row
  BY <1>1
<1>2. ASSUME NEW a \in Scanner, NEW S \in SUBSET Finding, NEW found \in [S -> Reported],
             AnalyzeRecord(a, found)
      PROVE  RowStep
  <2>1. CASE row' = row
    BY <1>1, <2>1
  <2>2. CASE row' # row
    <3>1. ASSUME NEW f \in Finding
          PROVE  \/ row'[f] = row[f]
                 \/ row[f].status = "unborn"
      BY <1>2, <2>2 DEF AnalyzeRecord
    <3>2. \A f \in Finding : row[f].status = "unborn" => ~row[f].acked
      BY DEF TypeOK, Row, NewRow
    <3> QED
      BY <3>1, <3>2
  <2> QED
    BY <2>1, <2>2
<1>3. ASSUME NEW e \in Editor, EditCommit(e) PROVE RowStep
  <2>1. CASE ~Exists(edit[e].finding)
    BY <1>1, <1>3, <2>1 DEF EditCommit
  <2>2. CASE Exists(edit[e].finding)
    <3> DEFINE f == edit[e].finding
    <3>1. edit[e] \in Edit /\ edit[e].op # "idle"
      BY <1>3, InUse DEF EditCommit
    <3>2. f \in Finding /\ row[f] \in Row
      BY <2>2, <3>1, InUse DEF Edit
    <3>3. /\ row' = [row EXCEPT ![f] = Edited(e, row[f])]
      BY <1>3, <2>2 DEF EditCommit
    <3>4. LET r == Edited(e, row[f]) IN
            /\ r.status \in {row[f].status, "resolved", "false_positive"}
            /\ r.detected = row[f].detected
            /\ row[f].acked => r.acked
      BY <3>1, <3>2 DEF Edited, Edit, Row
    <3> QED
      BY <2>2, <3>2, <3>3, <3>4 DEF TypeOK
  <2> QED
    BY <2>1, <2>2
<1>4. ASSUME NEW s \in Sweeper, SweepCommit(s) PROVE RowStep
  <2>1. CASE ~ \A f \in sweep[s].sent : Exists(f)
    BY <1>1, <1>4, <2>1 DEF SweepCommit
  <2>2. CASE \A f \in sweep[s].sent : Exists(f)
    <3>1. ASSUME NEW f \in Finding
          PROVE  /\ row'[f].status = row[f].status
                 /\ row'[f].detected = row[f].detected
                 /\ row'[f].acked = row[f].acked
      <4>1. CASE f \notin sweep[s].sent
        BY <1>4, <2>2, <4>1 DEF SweepCommit
      <4>2. CASE f \in sweep[s].sent
        <5>1. row[f] \in Row
          BY <2>2, <4>2, InUse
        <5>2. row'[f] = [row[f] EXCEPT !.level = 1, !.alerted = TRUE,
                                       !.lastEscalated = sweep[s].now]
          BY <1>4, <2>2, <4>2 DEF SweepCommit
        <5> QED
          BY <5>1, <5>2 DEF Row
      <4> QED
        BY <4>1, <4>2
    <3> QED
      BY <3>1
  <2> QED
    BY <2>1, <2>2
<1>5. ASSUME NEW l \in Lease, DeleteLease(l) PROVE RowStep
  BY <1>5, InUse DEF DeleteLease, Row
<1>6. UNCHANGED <<row, trail>> => RowStep
  BY <1>1
<1> QED
  BY <1>2, <1>3, <1>4, <1>5, <1>6, Writers
\* How the emails and the sweeps of a step relate.
MailStep ==
    /\ \A f \in Finding :
          \/ outbox'[f] = outbox[f]
          \/ outbox'[f] # <<>> /\ \E s \in Sweeper : f \in sweep[s].todo
    /\ \A s \in Sweeper :
          \/ sweep'[s].todo = {} /\ sweep'[s].sent = {}
          \/ /\ sweep'[s].todo = {f \in Finding : Candidate(f, clock)}
             /\ sweep'[s].sent = {}
             /\ sweep'[s].now = clock
             /\ UNCHANGED row
          \/ /\ sweep'[s].todo \subseteq sweep[s].todo
             /\ sweep'[s].now = sweep[s].now
             /\ \A f \in sweep'[s].sent :
                   \/ f \in sweep[s].sent
                   \/ f \in sweep[s].todo /\ outbox'[f] # <<>>

LEMMA MailSteps == TypeOK /\ [Next]_vars => MailStep
<1> SUFFICES ASSUME TypeOK, [Next]_vars PROVE MailStep
  OBVIOUS
<1>1. CASE UNCHANGED <<outbox, sweep>>
  BY <1>1 DEF MailStep
<1>2. ASSUME NEW s \in Sweeper, UNCHANGED outbox,
             sweep' = [sweep EXCEPT ![s] = NoSweep]
      PROVE  MailStep
  BY <1>2 DEF MailStep, NoSweep, TypeOK
<1>3. ASSUME NEW s \in Sweeper, NEW l \in Lease, SweepRead(s, l) PROVE MailStep
  BY <1>3 DEF MailStep, SweepRead, TypeOK
<1>4. ASSUME NEW s \in Sweeper, NEW f \in Finding, f \in sweep[s].todo, UNCHANGED outbox,
             sweep' = [sweep EXCEPT ![s].todo = @ \ {f}]
      PROVE  MailStep
  <2>1. sweep[s] \in Sweep
    BY <1>4, InUse
  <2>2. sweep'[s] = [sweep[s] EXCEPT !.todo = @ \ {f}]
    BY <1>4 DEF TypeOK
  <2>3. \A t \in Sweeper \ {s} : sweep'[t] = sweep[t]
    BY <1>4 DEF TypeOK
  <2> QED
    BY <1>4, <2>1, <2>2, <2>3 DEF MailStep, Sweep
<1>5. ASSUME NEW s \in Sweeper, NEW f \in Finding, NEW answered \in BOOLEAN,
             SweepSend(s, f, answered)
      PROVE  MailStep
  <2>1. sweep[s] \in Sweep /\ f \in sweep[s].todo
    BY <1>5, InUse DEF SweepSend, IsNext
  <2>2. sweep'[s] = [sweep[s] EXCEPT !.todo = @ \ {f},
                                     !.sent = IF answered THEN @ \cup {f} ELSE @]
    BY <1>5 DEF TypeOK, SweepSend
  <2>3. \A t \in Sweeper \ {s} : sweep'[t] = sweep[t]
    BY <1>5 DEF TypeOK, SweepSend
  <2>4. outbox'[f] = Append(outbox[f], Target(s, f))
    BY <1>5 DEF TypeOK, SweepSend
  <2>5. \A g \in Finding \ {f} : outbox'[g] = outbox[g]
    BY <1>5 DEF TypeOK, SweepSend
  <2>6. outbox'[f] # <<>>
    <3>1. outbox[f] \in Seq(Address)
      BY DEF TypeOK
    <3> QED
      BY <2>4, <3>1
  <2>7. /\ sweep'[s].todo \subseteq sweep[s].todo
        /\ sweep'[s].now = sweep[s].now
        /\ sweep'[s].sent \subseteq sweep[s].sent \cup {f}
    BY <2>1, <2>2 DEF Sweep
  <2>8. \A g \in Finding : \/ outbox'[g] = outbox[g]
                           \/ outbox'[g] # <<>> /\ g \in sweep[s].todo
    <3>1. \A g \in Finding : g = f \/ outbox'[g] = outbox[g]
      BY <2>5
    <3> QED
      BY <2>1, <2>6, <3>1
  <2>9. \A t \in Sweeper : /\ sweep'[t].todo \subseteq sweep[t].todo
                           /\ sweep'[t].now = sweep[t].now
                           /\ \A g \in sweep'[t].sent :
                                 \/ g \in sweep[t].sent
                                 \/ g \in sweep[t].todo /\ outbox'[g] # <<>>
    BY <2>1, <2>3, <2>6, <2>7
  <2> QED
    BY <2>8, <2>9 DEF MailStep
<1>6. CASE Crash
  BY <1>6 DEF Crash, MailStep, NoSweep
<1>7. ASSUME NEW s \in Sweeper, SweepProgress(s) PROVE MailStep
  BY <1>2, <1>4, <1>5, <1>7
     DEF SweepProgress, SweepSkip, SweepSendFails, SweepCommit, IsNext
<1>8. [Next]_vars => \/ UNCHANGED <<outbox, sweep>>
                     \/ \E s \in Sweeper : \E l \in Lease : SweepRead(s, l)
                     \/ \E s \in Sweeper : SweepProgress(s)
                     \/ Crash
  BY DEF Next, Analyze, EditStep, AnalyzeSave, AnalyzeFlush, AnalyzeVisionFails,
         AnalyzeRecord, AcknowledgeRead, UpdateRead, ResolveRead, EditCommit, DeleteLease,
         Tick, vars
<1> QED
  BY <1>1, <1>3, <1>6, <1>7, <1>8

\* A closed finding is never open again: of the two writers of a status one
\* closes and neither writes the status it read.
THEOREM ClosureIsFinal == Spec => ClosedStaysClosed
<1>1. TypeOK /\ [Next]_vars =>
        [\A f \in Finding : row[f].status \in Closed =>
            row'[f].status \in Closed \cup {"deleted"}]_vars
  BY RowSteps DEF RowStep
<1> QED
  BY <1>1, TypeCorrect, PTL DEF Spec, ClosedStaysClosed

\* Nobody is mailed about a finding that was acknowledged or closed before any
\* sweep picked it up.
THEOREM AcknowledgedStaysQuiet == Spec => AckStopsTheClock
<1>1. ASSUME TypeOK, [Next]_vars, NEW f \in Finding, Quiet(f), Exists(f)'
      PROVE  Quiet(f)'
  <2>1. RowStep /\ MailStep
    BY <1>1, RowSteps, MailSteps
  <2>2. row'[f].acked \/ row'[f].status \in Closed
    BY <1>1, <2>1 DEF Quiet, RowStep, Exists
  <2>3. outbox'[f] = <<>>
    BY <1>1, <2>1 DEF Quiet, MailStep
  <2>4. \A s \in Sweeper : f \notin sweep'[s].todo
    BY <1>1, <2>1 DEF Quiet, MailStep, Candidate, Open, Closed
  <2> QED
    BY <1>1, <2>2, <2>3, <2>4 DEF Quiet
<1>2. TypeOK /\ [Next]_vars =>
        [\A f \in Finding : Quiet(f) /\ Exists(f)' => Quiet(f)']_vars
  BY <1>1
<1> QED
  BY <1>2, TypeCorrect, PTL DEF Spec, AckStopsTheClock
\* SweepHistory survives every step: rows stay born and keep detected_at, and
\* a sweep only takes up candidates.
LEMMA SweepHistoryStep == IInv /\ [Next]_vars => SweepHistory'
<1> SUFFICES ASSUME IInv, [Next]_vars, NEW s \in Sweeper, NEW f \in sweep'[s].todo \cup sweep'[s].sent
             PROVE  /\ row'[f].status # "unborn"
                    /\ row'[f].detected + EscalationAfter <= sweep'[s].now
                    /\ f \in sweep'[s].sent => outbox'[f] # <<>>
  BY DEF SweepHistory
<1>1. RowStep /\ MailStep /\ TypeOK /\ TypeOK'
  BY RowSteps, MailSteps, TypeStep DEF IInv
<1>2. f \in Finding
  <2>1. sweep'[s] \in Sweep \cup {NoSweep}
    BY <1>1 DEF TypeOK
  <2>2. CASE sweep'[s] \in Sweep
    <3>1. sweep'[s].todo \subseteq Finding /\ sweep'[s].sent \subseteq Finding
      BY <2>2 DEF Sweep
    <3> QED
      BY <3>1
  <2>3. CASE sweep'[s] = NoSweep
    BY <2>3 DEF NoSweep
  <2> QED
    BY <2>1, <2>2, <2>3
<1>3. CASE sweep'[s].todo = {} /\ sweep'[s].sent = {}
  BY <1>3
<1>4. CASE /\ sweep'[s].todo = {g \in Finding : Candidate(g, clock)}
           /\ sweep'[s].sent = {}
           /\ sweep'[s].now = clock
           /\ UNCHANGED row
  BY <1>4 DEF Candidate, Open
<1>5. CASE /\ sweep'[s].todo \subseteq sweep[s].todo
           /\ sweep'[s].now = sweep[s].now
           /\ \A g \in sweep'[s].sent :
                 \/ g \in sweep[s].sent
                 \/ g \in sweep[s].todo /\ outbox'[g] # <<>>
  <2>1. f \in sweep[s].todo \cup sweep[s].sent
    BY <1>5
  <2>2. /\ row[f].status # "unborn"
        /\ row[f].detected + EscalationAfter <= sweep[s].now
        /\ f \in sweep[s].sent => outbox[f] # <<>>
    BY <2>1 DEF IInv, SweepHistory
  <2>3. row'[f].status # "unborn" /\ row'[f].detected = row[f].detected
    BY <1>1, <1>2, <2>2 DEF RowStep
  <2>4. outbox[f] # <<>> => outbox'[f] # <<>>
    BY <1>1, <1>2 DEF MailStep
  <2> QED
    BY <1>5, <2>2, <2>3, <2>4
<1> QED
  BY <1>1, <1>3, <1>4, <1>5 DEF MailStep

\* The level, the resolution and the escalation entries that a step writes.
LEMMA RowFields ==
  ASSUME IInv, [Next]_vars, NEW f \in Finding
  PROVE  /\ Exists(f)' => \/ /\ row'[f].level = row[f].level
                             /\ row'[f].lastEscalated = row[f].lastEscalated
                          \/ row'[f].level = 0
                          \/ \E s \in Sweeper : /\ f \in sweep[s].sent
                                                /\ row'[f].lastEscalated = sweep[s].now
         /\ \/ row'[f].level \in {0, row[f].level}
            \/ \E s \in Sweeper : f \in sweep[s].sent
         /\ [action |-> "escalate", entity |-> f] \in trail' =>
               \/ [action |-> "escalate", entity |-> f] \in trail
               \/ \E s \in Sweeper : f \in sweep[s].sent
         /\ Exists(f)' => \/ /\ row'[f].status = row[f].status
                             /\ row'[f].resolvedBy = row[f].resolvedBy
                          \/ row'[f].status = "resolved" /\ row'[f].resolvedBy # None
                          \/ /\ row'[f].status = "false_positive"
                             /\ row'[f].resolvedBy = row[f].resolvedBy
                          \/ row'[f].resolvedBy = None /\ row'[f].status = "open"
<1> TypeOK
  BY DEF IInv
<1>1. CASE UNCHANGED <<row, trail>>
  BY <1>1
<1>2. ASSUME NEW a \in Scanner, NEW S \in SUBSET Finding, NEW found \in [S -> Reported],
             AnalyzeRecord(a, found)
      PROVE  /\ row'[f] = row[f] \/ \E sv \in Reported : row'[f] = Detected(a, sv)
             /\ trail' \subseteq trail \cup {[action |-> "create", entity |-> None]}
  BY <1>2 DEF AnalyzeRecord
<1>3. ASSUME NEW a \in Scanner, NEW sv \in Reported, row'[f] = Detected(a, sv)
      PROVE  row'[f].level = 0 /\ row'[f].resolvedBy = None /\ row'[f].status = "open"
  BY <1>3 DEF Detected
<1>4. ASSUME NEW e \in Editor, EditCommit(e)
      PROVE  /\ \/ row'[f] = row[f]
                \/ /\ row'[f].level = row[f].level
                   /\ row'[f].lastEscalated = row[f].lastEscalated
                   /\ \/ row'[f].status = "resolved" /\ row'[f].resolvedBy # None
                      \/ /\ row'[f].status \in {row[f].status, "false_positive"}
                         /\ row'[f].resolvedBy = row[f].resolvedBy
             /\ [action |-> "escalate", entity |-> f] \in trail' =>
                   [action |-> "escalate", entity |-> f] \in trail
  <2>1. edit[e] \in Edit
    BY <1>4, InUse DEF EditCommit
  <2>2. CASE ~Exists(edit[e].finding) \/ edit[e].finding # f
    BY <1>4, <2>1, <2>2 DEF EditCommit, TypeOK, Edit
  <2>3. CASE Exists(f) /\ edit[e].finding = f
    <3>1. row'[f] = Edited(e, row[f]) /\ row[f] \in Row
      BY <1>4, <2>3, InUse DEF EditCommit, TypeOK
    <3>2. trail' = trail \cup {[action |-> edit[e].op, entity |-> f]}
      BY <1>4, <2>3 DEF EditCommit
    <3>3. edit[e].op # "escalate" /\ e # None
      BY <2>1, ConstantsOK DEF Edit
    <3> QED
      BY <2>1, <3>1, <3>2, <3>3 DEF Edited, Edit, Row
  <2> QED
    BY <2>2, <2>3
<1>5. ASSUME NEW s \in Sweeper, SweepCommit(s)
      PROVE  /\ \/ row'[f] = row[f]
                \/ /\ f \in sweep[s].sent
                   /\ row'[f].lastEscalated = sweep[s].now
                   /\ row'[f].status = row[f].status
                   /\ row'[f].resolvedBy = row[f].resolvedBy
             /\ [action |-> "escalate", entity |-> f] \in trail' =>
                   \/ [action |-> "escalate", entity |-> f] \in trail
                   \/ f \in sweep[s].sent
  <2>1. CASE ~ \A g \in sweep[s].sent : Exists(g)
    BY <1>5, <2>1 DEF SweepCommit
  <2>2. CASE \A g \in sweep[s].sent : Exists(g)
    <3>1. trail' = trail \cup [action : {"escalate"}, entity : sweep[s].sent]
      BY <1>5, <2>2 DEF SweepCommit
    <3>2. CASE f \notin sweep[s].sent
      BY <1>5, <2>2, <3>1, <3>2 DEF SweepCommit
    <3>3. CASE f \in sweep[s].sent
      <4>1. row[f] \in Row
        BY <2>2, <3>3, InUse
      <4>2. row'[f] = [row[f] EXCEPT !.level = 1, !.alerted = TRUE,
                                     !.lastEscalated = sweep[s].now]
        BY <1>5, <2>2, <3>3 DEF SweepCommit
      <4> QED
        BY <3>3, <4>1, <4>2 DEF Row
    <3> QED
      BY <3>2, <3>3
  <2> QED
    BY <2>1, <2>2
<1>6. ASSUME NEW l \in Lease, DeleteLease(l)
      PROVE  /\ UNCHANGED trail
             /\ row'[f] = row[f] \/ (row'[f].status = "deleted" /\ row'[f].level = 0)
  <2>1. row'[f] = row[f] \/ row[f] \in Row
    BY <1>6, InUse DEF DeleteLease
  <2>2. CASE row'[f] # row[f]
    <3>1. row'[f] = [row[f] EXCEPT !.status = "deleted", !.alerted = FALSE, !.acked = FALSE,
                                   !.level = 0, !.lastEscalated = None, !.resolvedBy = None]
      BY <1>6, <2>2 DEF DeleteLease
    <3> QED
      BY <1>6, <2>1, <2>2, <3>1 DEF DeleteLease, Row
  <2>3. CASE row'[f] = row[f]
    BY <1>6, <2>3 DEF DeleteLease
  <2> QED
    BY <2>2, <2>3
<1>7. CASE \E a \in Scanner : \E S \in SUBSET Finding : \E found \in [S -> Reported] :
              AnalyzeRecord(a, found)
  BY <1>2, <1>3, <1>7
<1>8. CASE \E e \in Editor : EditCommit(e)
  BY <1>4, <1>8
<1>9. CASE \E s \in Sweeper : SweepCommit(s)
  BY <1>5, <1>9
<1>10. CASE \E l \in Lease : DeleteLease(l)
  BY <1>6, <1>10 DEF Exists
<1> QED
  BY <1>1, <1>7, <1>8, <1>9, <1>10, Writers
\* The inductive step.
LEMMA IInvStep == IInv /\ [Next]_vars => IInv'
<1> SUFFICES ASSUME IInv, [Next]_vars PROVE IInv'
  OBVIOUS
<1>1. /\ TypeOK /\ TypeOK' /\ RowStep /\ MailStep
      /\ SweepHistory /\ SweepHistory'
      /\ EscalationWasDue /\ EscalationIsBacked /\ ResolutionConsistent
  BY TypeStep, RowSteps, MailSteps, SweepHistoryStep DEF IInv
<1>2. ASSUME NEW s \in Sweeper, NEW f \in sweep[s].sent
      PROVE  /\ sweep[s].now \in Nat
             /\ row[f].status # "unborn"
             /\ row[f].detected + EscalationAfter <= sweep[s].now
             /\ outbox[f] # <<>>
  <2>1. sweep[s] \in Sweep
    BY <1>1, <1>2 DEF TypeOK, NoSweep
  <2> QED
    <3>1. sweep[s].now \in Nat
      <4>1. sweep[s].now \in Time
        BY <2>1 DEF Sweep
      <4> QED
        BY <4>1, ConstantsOK DEF Time
    <3>2. f \in sweep[s].todo \cup sweep[s].sent
      BY <1>2
    <3> QED
      BY <1>1, <1>2, <3>1, <3>2 DEF SweepHistory
<1>3. EscalationWasDue'
  <2> SUFFICES ASSUME NEW f \in Finding, Exists(f)', row'[f].level = 1
               PROVE  /\ row'[f].lastEscalated # None
                      /\ row'[f].detected + EscalationAfter <= row'[f].lastEscalated
    BY DEF EscalationWasDue
  <2>1. CASE /\ row'[f].level = row[f].level
             /\ row'[f].lastEscalated = row[f].lastEscalated
    <3>1. row[f].status # "unborn"
      BY <1>1, <2>1 DEF TypeOK, Row, NewRow
    <3> QED
      BY <1>1, <2>1, <3>1 DEF EscalationWasDue, RowStep
  <2>2. ASSUME NEW s \in Sweeper, f \in sweep[s].sent, row'[f].lastEscalated = sweep[s].now
        PROVE  /\ row'[f].lastEscalated # None
               /\ row'[f].detected + EscalationAfter <= row'[f].lastEscalated
    BY <1>1, <1>2, <2>2, ConstantsOK DEF RowStep
  <2>3. \/ /\ row'[f].level = row[f].level
           /\ row'[f].lastEscalated = row[f].lastEscalated
        \/ \E s \in Sweeper : f \in sweep[s].sent /\ row'[f].lastEscalated = sweep[s].now
    <3>1. row'[f].level # 0
      OBVIOUS
    <3> QED
      BY <3>1, RowFields
  <2> QED
    BY <2>1, <2>2, <2>3
<1>4. EscalationIsBacked'
  <2> SUFFICES ASSUME NEW f \in Finding, outbox'[f] = <<>>
               PROVE  /\ row'[f].level = 0
                      /\ [action |-> "escalate", entity |-> f] \notin trail'
    BY DEF EscalationIsBacked
  <2>1. outbox[f] = <<>>
    BY <1>1 DEF MailStep
  <2>2. \A s \in Sweeper : f \notin sweep[s].sent
    BY <1>2, <2>1
  <2>3. row[f].level = 0 /\ [action |-> "escalate", entity |-> f] \notin trail
    BY <1>1, <2>1 DEF EscalationIsBacked
  <2> QED
    BY <2>2, <2>3, RowFields
<1>5. ResolutionConsistent'
  <2> SUFFICES ASSUME NEW f \in Finding, Exists(f)'
               PROVE  /\ row'[f].status = "resolved" => row'[f].resolvedBy # None
                      /\ row'[f].resolvedBy # None => row'[f].status \in Closed
    BY DEF ResolutionConsistent
  <2>1. Exists(f) => /\ row[f].status = "resolved" => row[f].resolvedBy # None
                     /\ row[f].resolvedBy # None => row[f].status \in Closed
    BY <1>1 DEF ResolutionConsistent
  <2>2. row[f].status = row'[f].status => Exists(f)
    BY DEF Exists
  <2>3. row'[f].status = "false_positive" /\ row'[f].resolvedBy = row[f].resolvedBy =>
           row'[f].status \in Closed
    BY DEF Closed
  <2> QED
    BY <2>1, <2>2, <2>3, RowFields DEF Closed
<1> QED
  BY <1>1, <1>3, <1>4, <1>5 DEF IInv

THEOREM Inductive == Spec => []IInv
<1>1. Init => IInv
  <2>1. Init => TypeOK
    BY ConstantsOK DEF Init, TypeOK, Time
  <2> QED
    BY <2>1 DEF Init, IInv, SweepHistory, NoSweep, EscalationWasDue, EscalationIsBacked,
                ResolutionConsistent, Exists, NewRow
<1> QED
  BY <1>1, IInvStep, PTL DEF Spec

\* Nothing is escalated before its time, whatever a sweep races with.
THEOREM EscalatedWhenDue == Spec => []EscalationWasDue
BY Inductive, PTL DEF IInv

\* No level and no audited escalation without an email that was sent.
THEOREM EscalatedByMail == Spec => []EscalationIsBacked
BY Inductive, PTL DEF IInv

\* resolved_by and status agree, through the race of resolve and PATCH.
THEOREM ResolvedConsistently == Spec => []ResolutionConsistent
BY Inductive, PTL DEF IInv

-----------------------------------------------------------------------------
(***************************************************************************)
(* The audit trail and the records.                                        *)
(***************************************************************************)

About(action, f) == [action |-> action, entity |-> f]
Agrees(f) ==
    /\ row[f].acked <=> About("acknowledge", f) \in trail
    /\ row[f].resolvedBy # None <=> About("resolve", f) \in trail
    /\ row[f].level = 1 <=> About("escalate", f) \in trail
    /\ row[f].status = "false_positive" => About("update", f) \in trail
\* Nothing is said of a finding before it is there.
Unheard(f) ==
    \A action \in {"acknowledge", "update", "resolve", "escalate"} : About(action, f) \notin trail
TrailInv ==
    \A f \in Finding : /\ Exists(f) => Agrees(f)
                       /\ row[f].status = "unborn" => Unheard(f)

LEMMA TrailStep == TypeOK /\ TrailInv /\ [Next]_vars => TrailInv'
<1> SUFFICES ASSUME TypeOK, TrailInv, [Next]_vars, NEW f \in Finding
             PROVE  /\ Exists(f)' => Agrees(f)'
                    /\ row'[f].status = "unborn" => Unheard(f)'
  BY DEF TrailInv
<1>1. ASSUME row'[f] = row[f],
             \A action \in {"acknowledge", "update", "resolve", "escalate"} :
                About(action, f) \in trail' <=> About(action, f) \in trail
      PROVE  /\ Exists(f)' => Agrees(f)'
             /\ row'[f].status = "unborn" => Unheard(f)'
  BY <1>1 DEF TrailInv, Agrees, Unheard, Exists, About
<1>2. ASSUME NEW a \in Scanner, NEW S \in SUBSET Finding, NEW found \in [S -> Reported],
             AnalyzeRecord(a, found)
      PROVE  /\ Exists(f)' => Agrees(f)'
             /\ row'[f].status = "unborn" => Unheard(f)'
  <2>1. \A action \in {"acknowledge", "update", "resolve", "escalate"} :
           About(action, f) \in trail' <=> About(action, f) \in trail
    BY <1>2 DEF AnalyzeRecord, About
  <2>2. CASE row'[f] = row[f]
    BY <1>1, <2>1, <2>2
  <2>3. CASE row'[f] # row[f]
    <3>1. row[f].status = "unborn" /\ \E sv \in Reported : row'[f] = Detected(a, sv)
      BY <1>2, <2>3 DEF AnalyzeRecord
    <3>2. /\ row'[f].acked = FALSE /\ row'[f].resolvedBy = None
          /\ row'[f].level = 0 /\ row'[f].status = "open"
      BY <3>1 DEF Detected
    <3>3. Unheard(f)
      BY <3>1 DEF TrailInv
    <3> QED
      BY <2>1, <3>2, <3>3 DEF Agrees, Unheard, About
  <2> QED
    BY <2>2, <2>3
<1>3. ASSUME NEW e \in Editor, EditCommit(e)
      PROVE  /\ Exists(f)' => Agrees(f)'
             /\ row'[f].status = "unborn" => Unheard(f)'
  <2>1. edit[e] \in Edit
    BY <1>3, InUse DEF EditCommit
  <2>2. CASE ~Exists(edit[e].finding) \/ edit[e].finding # f
    <3>1. row'[f] = row[f]
      BY <1>3, <2>1, <2>2 DEF EditCommit, TypeOK, Edit
    <3>2. \A action \in {"acknowledge", "update", "resolve", "escalate"} :
             About(action, f) \in trail' <=> About(action, f) \in trail
      BY <1>3, <2>2 DEF EditCommit, About
    <3> QED
      BY <1>1, <3>1, <3>2
  <2>3. CASE Exists(f) /\ edit[e].finding = f
    <3>1. row'[f] = Edited(e, row[f]) /\ row[f] \in Row
      BY <1>3, <2>3, InUse DEF EditCommit, TypeOK
    <3>2. trail' = trail \cup {About(edit[e].op, f)}
      BY <1>3, <2>3 DEF EditCommit, About
    <3>3. Agrees(f) /\ e # None
      BY <2>3, ConstantsOK DEF TrailInv
    <3>4. row'[f].status # "unborn"
      BY <2>3, <2>1, <3>1 DEF Edited, Edit, Row, Exists
    <3>5. CASE edit[e].op = "acknowledge"
      <4>1. /\ row'[f].acked = TRUE /\ row'[f].resolvedBy = row[f].resolvedBy
            /\ row'[f].level = row[f].level /\ row'[f].status = row[f].status
        BY <3>1, <3>5 DEF Edited, Row
      <4> QED
        BY <3>2, <3>3, <3>4, <3>5, <4>1 DEF Agrees, About
    <3>6. CASE edit[e].op = "resolve"
      <4>1. /\ row'[f].acked = row[f].acked /\ row'[f].resolvedBy # None
            /\ row'[f].level = row[f].level /\ row'[f].status = "resolved"
        <5>1. row'[f] = [row[f] EXCEPT !.status = "resolved", !.resolvedBy = e]
          BY <3>1, <3>6 DEF Edited
        <5> QED
          BY <3>1, <3>3, <5>1 DEF Row
      <4> QED
        BY <3>2, <3>3, <3>6, <4>1 DEF Agrees, About
    <3>7. CASE edit[e].op = "update"
      <4>1. /\ row'[f].acked = row[f].acked /\ row'[f].resolvedBy = row[f].resolvedBy
            /\ row'[f].level = row[f].level
        BY <3>1, <3>7 DEF Edited, Row
      <4> QED
        BY <3>2, <3>3, <3>4, <3>7, <4>1 DEF Agrees, About
    <3> QED
      BY <2>1, <3>5, <3>6, <3>7 DEF Edit
  <2> QED
    BY <2>2, <2>3
<1>4. ASSUME NEW s \in Sweeper, SweepCommit(s)
      PROVE  /\ Exists(f)' => Agrees(f)'
             /\ row'[f].status = "unborn" => Unheard(f)'
  <2>1. CASE ~ \A g \in sweep[s].sent : Exists(g)
    BY <1>1, <1>4, <2>1 DEF SweepCommit
  <2>2. CASE \A g \in sweep[s].sent : Exists(g)
    <3>1. ASSUME NEW action \in {"acknowledge", "update", "resolve", "escalate"}
          PROVE  About(action, f) \in trail' <=> \/ About(action, f) \in trail
                                                 \/ action = "escalate" /\ f \in sweep[s].sent
      <4>1. trail' = trail \cup [action : {"escalate"}, entity : sweep[s].sent]
        BY <1>4, <2>2 DEF SweepCommit
      <4> QED
        BY <4>1 DEF About
    <3>2. CASE f \notin sweep[s].sent
      <4>1. row'[f] = row[f]
        BY <1>4, <2>2, <3>2 DEF SweepCommit
      <4> QED
        BY <1>1, <3>1, <3>2, <4>1
    <3>3. CASE f \in sweep[s].sent
      <4>1. row[f] \in Row /\ Agrees(f)
        BY <2>2, <3>3, InUse DEF TrailInv
      <4>2. row'[f] = [row[f] EXCEPT !.level = 1, !.alerted = TRUE,
                                     !.lastEscalated = sweep[s].now]
        BY <1>4, <2>2, <3>3 DEF SweepCommit
      <4>3. /\ row'[f].acked = row[f].acked /\ row'[f].resolvedBy = row[f].resolvedBy
            /\ row'[f].level = 1 /\ row'[f].status = row[f].status
            /\ row[f].status # "unborn"
        BY <4>1, <4>2 DEF Row
      <4>4. /\ About("escalate", f) \in trail'
            /\ About("acknowledge", f) \in trail' <=> About("acknowledge", f) \in trail
            /\ About("resolve", f) \in trail' <=> About("resolve", f) \in trail
            /\ About("update", f) \in trail' <=> About("update", f) \in trail
        BY <3>1, <3>3 DEF About
      <4> QED
        BY <4>1, <4>3, <4>4 DEF Agrees, About
    <3> QED
      BY <3>2, <3>3
  <2> QED
    BY <2>1, <2>2
<1>5. ASSUME NEW l \in Lease, DeleteLease(l)
      PROVE  /\ Exists(f)' => Agrees(f)'
             /\ row'[f].status = "unborn" => Unheard(f)'
  <2>1. CASE row'[f] = row[f]
    BY <1>1, <1>5, <2>1 DEF DeleteLease
  <2>2. CASE row'[f] # row[f]
    <3>1. row[f] \in Row /\ row'[f] = [row[f] EXCEPT !.status = "deleted", !.alerted = FALSE,
             !.acked = FALSE, !.level = 0, !.lastEscalated = None, !.resolvedBy = None]
      BY <1>5, <2>2, InUse DEF DeleteLease
    <3>2. row'[f].status = "deleted"
      BY <3>1 DEF Row
    <3> QED
      BY <3>2 DEF Exists
  <2> QED
    BY <2>1, <2>2
<1>6. CASE UNCHANGED <<row, trail>>
  BY <1>1, <1>6
<1> QED
  BY <1>2, <1>3, <1>4, <1>5, <1>6, Writers

\* What the trail says of a finding is what its row says, and the reverse, however
\* acknowledgements, resolutions, sweeps, deletions and crashes interleave.
THEOREM TrailIsTrue == Spec => []TrailAgrees
<1>1. Init => TrailInv
  BY DEF Init, TrailInv, Unheard, Exists, NewRow
<1>2. TypeOK /\ TrailInv /\ [Next]_vars => TrailInv'
  BY TrailStep
<1>3. TrailInv => TrailAgrees
  BY DEF TrailInv, TrailAgrees, Agrees, About
<1> QED
  BY <1>1, <1>2, <1>3, TypeCorrect, PTL DEF Spec

\* The photo of an analysis under way is stored.
Stored == \A a \in Scanner : scan[a].phase # "idle" => scan[a].photo \in file
EvidenceInv == Stored /\ RecordsHaveEvidence

LEMMA EvidenceStep == TypeOK /\ EvidenceInv /\ [Next]_vars => EvidenceInv'
<1> SUFFICES ASSUME TypeOK, EvidenceInv, [Next]_vars PROVE EvidenceInv'
  OBVIOUS
<1>1. file \subseteq file'
  BY DEF Next, Analyze, AnalyzeSave, AnalyzeFlush, AnalyzeVisionFails, AnalyzeRecord, EditStep,
         AcknowledgeRead, ResolveRead, UpdateRead, EditCommit, SweepRead, SweepProgress,
         SweepSkip, SweepSend, SweepSendFails, SweepCommit, DeleteLease, Crash, Tick, vars
<1>2. Stored'
  <2> SUFFICES ASSUME NEW a \in Scanner, scan'[a].phase # "idle"
               PROVE  scan'[a].photo \in file'
    BY DEF Stored
  <2>1. CASE scan'[a] = scan[a]
    BY <1>1, <2>1 DEF EvidenceInv, Stored
  <2>2. ASSUME NEW b \in Scanner, NEW l \in Lease, NEW p \in Photo, NEW auto \in BOOLEAN,
               AnalyzeSave(b, l, p, auto)
        PROVE  scan'[a].photo \in file'
    <3>1. CASE a = b
      BY <2>2, <3>1 DEF AnalyzeSave, TypeOK
    <3> QED
      BY <2>1, <2>2, <3>1 DEF AnalyzeSave, TypeOK
  <2>3. ASSUME NEW b \in Scanner, AnalyzeFlush(b)
        PROVE  scan'[a].photo \in file'
    <3>1. CASE a = b
      <4>1. scan[b] \in Scan
        BY <2>3, InUse DEF AnalyzeFlush
      <4>2. scan'[b] = [scan[b] EXCEPT !.phase = "flushed"]
        BY <2>3, <3>1 DEF AnalyzeFlush, TypeOK, NoScan
      <4>3. scan'[b].photo = scan[b].photo /\ scan[b].phase # "idle"
        BY <4>1, <4>2 DEF Scan
      <4> QED
        BY <1>1, <3>1, <4>3 DEF EvidenceInv, Stored
    <3> QED
      BY <2>1, <2>3, <3>1 DEF AnalyzeFlush, TypeOK
  <2>4. ASSUME NEW b \in Scanner, scan' = [scan EXCEPT ![b] = NoScan]
        PROVE  scan'[a].photo \in file'
    BY <2>1, <2>4 DEF TypeOK, NoScan
  <2>5. CASE scan' = [b \in Scanner |-> NoScan]
    BY <2>5 DEF NoScan
  <2>6. CASE UNCHANGED scan
    BY <2>1, <2>6
  <2>7. ASSUME NEW b \in Scanner, Analyze(b) PROVE scan'[a].photo \in file'
    BY <2>2, <2>3, <2>4, <2>7 DEF Analyze, AnalyzeVisionFails, AnalyzeRecord
  <2> QED
    BY <2>5, <2>6, <2>7
    DEF Next, EditStep, AcknowledgeRead, ResolveRead, UpdateRead, EditCommit, SweepRead,
        SweepProgress, SweepSkip, SweepSend, SweepSendFails, SweepCommit, DeleteLease, Crash,
        Tick, vars
<1>3. ASSUME UNCHANGED doc,
             \A f \in Finding : Exists(f)' => /\ Exists(f) /\ row'[f].photo = row[f].photo
                                              /\ row'[f].lease = row[f].lease
      PROVE  RecordsHaveEvidence'
  BY <1>1, <1>3 DEF EvidenceInv, RecordsHaveEvidence
<1>4. ASSUME NEW a \in Scanner, NEW S \in SUBSET Finding, NEW found \in [S -> Reported],
             AnalyzeRecord(a, found)
      PROVE  RecordsHaveEvidence'
  <2>1. scan[a] \in Scan /\ scan[a].photo \in file
    BY <1>4, InUse DEF AnalyzeRecord, EvidenceInv, Stored
  <2>2. CASE UNCHANGED <<row, doc>>
    BY <1>3, <2>2 DEF Exists
  <2>3. CASE doc' = [doc EXCEPT ![scan[a].lease] = @ \cup {scan[a].photo}]
    <3>1. scan[a].lease \in Lease
      BY <2>1 DEF Scan
    <3>2. \A l \in Lease : /\ doc[l] \subseteq doc'[l]
                           /\ doc'[l] \subseteq doc[l] \cup {scan[a].photo}
      BY <2>3, <3>1 DEF TypeOK
    <3>3. scan[a].photo \in doc'[scan[a].lease]
      BY <2>3, <3>1 DEF TypeOK
    <3>4. ASSUME NEW f \in Finding, Exists(f)' PROVE row'[f].photo \in doc'[row'[f].lease]
      <4>1. CASE row'[f] = row[f]
        <5>1. Exists(f)
          BY <3>4, <4>1 DEF Exists
        <5>2. row[f].lease \in Lease
          BY <5>1, InUse DEF Row
        <5> QED
          BY <3>2, <4>1, <5>1, <5>2 DEF EvidenceInv, RecordsHaveEvidence
      <4>2. CASE row'[f] # row[f]
        <5>1. \E sv \in Reported : row'[f] = Detected(a, sv)
          BY <1>4, <4>2 DEF AnalyzeRecord
        <5>2. row'[f].photo = scan[a].photo /\ row'[f].lease = scan[a].lease
          BY <5>1 DEF Detected
        <5> QED
          BY <3>3, <5>2
      <4> QED
        BY <4>1, <4>2
    <3>5. \A l \in Lease : doc'[l] \subseteq file'
      BY <1>1, <2>1, <3>2 DEF EvidenceInv, RecordsHaveEvidence
    <3> QED
      BY <3>4, <3>5 DEF RecordsHaveEvidence
  <2> QED
    BY <1>4, <2>2, <2>3 DEF AnalyzeRecord
<1>5. ASSUME NEW e \in Editor, EditCommit(e) PROVE RecordsHaveEvidence'
  <2>1. edit[e] \in Edit /\ edit[e].op # "idle"
    BY <1>5, InUse DEF EditCommit
  <2>2. ASSUME NEW f \in Finding, Exists(f)'
        PROVE  /\ Exists(f) /\ row'[f].photo = row[f].photo
               /\ row'[f].lease = row[f].lease
    <3>1. CASE row'[f] = row[f]
      BY <2>2, <3>1 DEF Exists
    <3>2. CASE row'[f] # row[f]
      <4>1. edit[e].finding = f /\ Exists(f) /\ row'[f] = Edited(e, row[f])
        BY <1>5, <2>1, <3>2 DEF EditCommit, TypeOK, Edit
      <4>2. row[f] \in Row
        BY <4>1, InUse
      <4> QED
        BY <2>1, <4>1, <4>2 DEF Edited, Edit, Row
    <3> QED
      BY <3>1, <3>2
  <2> QED
    BY <1>3, <1>5, <2>2 DEF EditCommit
<1>6. ASSUME NEW s \in Sweeper, SweepCommit(s) PROVE RecordsHaveEvidence'
  <2>1. ASSUME NEW f \in Finding, Exists(f)'
        PROVE  /\ Exists(f) /\ row'[f].photo = row[f].photo
               /\ row'[f].lease = row[f].lease
    <3>1. CASE row'[f] = row[f]
      BY <2>1, <3>1 DEF Exists
    <3>2. CASE row'[f] # row[f]
      <4>1. Exists(f) /\ row'[f] = [row[f] EXCEPT !.level = 1, !.alerted = TRUE,
                                                  !.lastEscalated = sweep[s].now]
        BY <1>6, <3>2 DEF SweepCommit
      <4>2. row[f] \in Row
        BY <4>1, InUse
      <4> QED
        BY <4>1, <4>2 DEF Row
    <3> QED
      BY <3>1, <3>2
  <2> QED
    BY <1>3, <1>6, <2>1 DEF SweepCommit
<1>7. ASSUME NEW l \in Lease, DeleteLease(l) PROVE RecordsHaveEvidence'
  <2>1. \A k \in Lease : doc'[k] = IF k = l THEN {} ELSE doc[k]
    BY <1>7 DEF DeleteLease, TypeOK
  <2>2. ASSUME NEW f \in Finding, Exists(f)' PROVE row'[f].photo \in doc'[row'[f].lease]
    <3>1. row'[f] = row[f] /\ Exists(f) /\ row[f].lease # l
      <4>1. CASE Exists(f) /\ row[f].lease = l
        <5>1. row[f] \in Row
          BY <4>1, InUse
        <5>2. row'[f] = [row[f] EXCEPT !.status = "deleted", !.alerted = FALSE, !.acked = FALSE,
                                   !.level = 0, !.lastEscalated = None, !.resolvedBy = None]
          BY <1>7, <4>1 DEF DeleteLease
        <5>3. row'[f].status = "deleted"
          BY <5>1, <5>2 DEF Row
        <5> QED
          BY <2>2, <5>3 DEF Exists
      <4>2. CASE ~(Exists(f) /\ row[f].lease = l)
        <5>1. row'[f] = row[f]
          BY <1>7, <4>2 DEF DeleteLease
        <5> QED
          BY <2>2, <4>2, <5>1 DEF Exists
      <4> QED
        BY <4>1, <4>2
    <3>2. row[f].lease \in Lease
      BY <3>1, InUse DEF Row
    <3> QED
      BY <2>1, <3>1, <3>2 DEF EvidenceInv, RecordsHaveEvidence
  <2>3. \A k \in Lease : doc'[k] \subseteq file'
    BY <1>1, <2>1 DEF EvidenceInv, RecordsHaveEvidence
  <2> QED
    BY <2>2, <2>3 DEF RecordsHaveEvidence
<1>8. ASSUME UNCHANGED <<row, doc>> PROVE RecordsHaveEvidence'
  BY <1>1, <1>8 DEF EvidenceInv, RecordsHaveEvidence, Exists
<1>9. UNCHANGED doc \/ (\E l \in Lease : DeleteLease(l)) \/ \E a \in Scanner : Analyze(a)
  BY DEF Next, EditStep, AcknowledgeRead, ResolveRead, UpdateRead, EditCommit, SweepRead,
         SweepProgress, SweepSkip, SweepSend, SweepSendFails, SweepCommit, Crash, Tick, vars
<1>10. ASSUME NEW a \in Scanner, Analyze(a) PROVE RecordsHaveEvidence'
  <2>1. CASE \E S \in SUBSET Finding : \E found \in [S -> Reported] : AnalyzeRecord(a, found)
    BY <1>4, <2>1
  <2>2. CASE ~\E S \in SUBSET Finding : \E found \in [S -> Reported] : AnalyzeRecord(a, found)
    BY <1>8, <1>10, <2>2 DEF Analyze, AnalyzeSave, AnalyzeFlush, AnalyzeVisionFails
  <2> QED
    BY <2>1, <2>2
<1> QED
  BY <1>2, <1>4, <1>5, <1>6, <1>7, <1>8, <1>9, <1>10, Writers DEF EvidenceInv

\* Every finding has its photo on record for its lease, and every photo on record is
\* stored, whatever is rolled back, deleted or cut short.
THEOREM EvidenceIsKept == Spec => []RecordsHaveEvidence
<1>1. Init => EvidenceInv
  BY DEF Init, EvidenceInv, Stored, RecordsHaveEvidence, Exists, NewRow, NoScan
<1>2. TypeOK /\ EvidenceInv /\ [Next]_vars => EvidenceInv'
  BY EvidenceStep
<1>3. EvidenceInv => RecordsHaveEvidence
  BY DEF EvidenceInv
<1> QED
  BY <1>1, <1>2, <1>3, TypeCorrect, PTL DEF Spec
(***************************************************************************)
(* Exactly one email.  The level guard reads what other sweeps committed,  *)
(* so it holds a second email back only while no two sweeps overlap and    *)
(* nothing undoes a sweep that has mailed (a crash, a deleted lease) or    *)
(* hides that it has (a reply that is lost).                               *)
(***************************************************************************)
Disjoint == \A s, t \in Sweeper : sweep[s].active /\ sweep[t].active => s = t

\* Who was mailed about is in the sweep that mailed or escalated by it; a sweep
\* holds findings that exist, and nobody was mailed about those it has left.
Accounted(f) == outbox[f] = <<>> \/ row[f].level = 1 \/ \E s \in Sweeper : f \in sweep[s].sent
Held(s) == /\ \A f \in sweep[s].todo : outbox[f] = <<>> /\ Exists(f)
           /\ \A f \in sweep[s].sent : Exists(f)
OnceInv ==
    /\ EscalatedOnce
    /\ \A f \in Finding : Accounted(f)
    /\ \A s \in Sweeper : Held(s)

\* Without faults a row that is there stays there, and its level changes only by
\* the commit of a sweep that mailed.
LEMMA LevelStep ==
  ASSUME TypeOK, [Next]_vars, Faults = {}, NEW f \in Finding
  PROVE  /\ Exists(f) => Exists(f)'
         /\ row[f].status = "unborn" => row[f].level = 0
         /\ \/ row[f].status = "unborn"
            \/ row'[f].level = row[f].level
            \/ row'[f].level = 1
<1> USE DEF Exists
<1>1. row[f].status = "unborn" => row[f].level = 0
  BY DEF TypeOK, Row, NewRow
<1>2. CASE row'[f] = row[f]
  BY <1>1, <1>2
<1>3. ASSUME NEW a \in Scanner, NEW S \in SUBSET Finding, NEW found \in [S -> Reported],
             AnalyzeRecord(a, found), row'[f] # row[f]
      PROVE  row[f].status = "unborn"
  BY <1>3 DEF AnalyzeRecord
<1>4. ASSUME NEW e \in Editor, EditCommit(e), row'[f] # row[f]
      PROVE  Exists(f) /\ Exists(f)' /\ row'[f].level = row[f].level
  <2>1. edit[e] \in Edit /\ edit[e].op # "idle"
    BY <1>4, InUse DEF EditCommit
  <2>2. edit[e].finding = f /\ Exists(f) /\ row'[f] = Edited(e, row[f])
    BY <1>4, <2>1 DEF EditCommit, TypeOK, Edit
  <2>3. row[f] \in Row
    BY <2>2, InUse
  <2>4. /\ row'[f].level = row[f].level
        /\ row'[f].status \in {row[f].status, "resolved", "false_positive"}
    BY <2>1, <2>2, <2>3 DEF Edited, Edit, Row
  <2> QED
    BY <2>2, <2>4
<1>5. ASSUME NEW s \in Sweeper, SweepCommit(s), row'[f] # row[f]
      PROVE  Exists(f) /\ Exists(f)' /\ row'[f].level = 1
  <2>1. Exists(f) /\ row'[f] = [row[f] EXCEPT !.level = 1, !.alerted = TRUE,
                                              !.lastEscalated = sweep[s].now]
    BY <1>5 DEF SweepCommit
  <2>2. row[f] \in Row
    BY <2>1, InUse
  <2> QED
    BY <2>1, <2>2 DEF Row
<1>6. ASSUME NEW l \in Lease, DeleteLease(l) PROVE FALSE
  BY <1>6 DEF DeleteLease
<1> QED
  BY <1>1, <1>2, <1>3, <1>4, <1>5, <1>6, Writers

LEMMA OnceStep ==
  ASSUME TypeOK, OnceInv, Disjoint, Disjoint', [Next]_vars, Faults = {}
  PROVE  OnceInv'
<1>1. \A s \in Sweeper : sweep[s].active \/ sweep[s] = NoSweep
  BY DEF TypeOK, Sweep
<1>2. ASSUME NEW s \in Sweeper, NEW t \in Sweeper, s # t, sweep[s].active
      PROVE  sweep[t].todo = {} /\ sweep[t].sent = {}
  <2>1. sweep[t] = NoSweep
    BY <1>1, <1>2 DEF Disjoint
  <2> QED
    BY <2>1 DEF NoSweep
<1>3. \A f \in Finding : /\ Exists(f) => Exists(f)'
                         /\ row[f].status = "unborn" => row[f].level = 0
                         /\ \/ row[f].status = "unborn"
                            \/ row'[f].level = row[f].level
                            \/ row'[f].level = 1
  BY LevelStep
<1>4. ASSUME NEW s \in Sweeper
      PROVE  sweep[s].todo \subseteq Finding /\ sweep[s].sent \subseteq Finding
  <2>1. sweep[s] \in Sweep \/ sweep[s] = NoSweep
    BY DEF TypeOK
  <2>2. CASE sweep[s] \in Sweep
    BY <2>2 DEF Sweep
  <2>3. CASE sweep[s] = NoSweep
    BY <2>3 DEF NoSweep
  <2> QED
    BY <2>1, <2>2, <2>3
<1>5. \* a mailed finding stays accounted for while its sweep keeps it
      ASSUME NEW f \in Finding, outbox'[f] = outbox[f],
             \A s \in Sweeper : f \in sweep[s].sent => f \in sweep'[s].sent
      PROVE  Accounted(f)'
  <2>1. Accounted(f)
    BY DEF OnceInv
  <2>2. CASE outbox[f] = <<>>
    BY <1>5, <2>2 DEF Accounted
  <2>3. CASE \E s \in Sweeper : f \in sweep[s].sent
    BY <1>5, <2>3 DEF Accounted
  <2>4. CASE row[f].level = 1
    BY <1>3, <2>4 DEF Accounted
  <2> QED
    BY <2>1, <2>2, <2>3, <2>4 DEF Accounted
<1>6. CASE UNCHANGED <<outbox, sweep>>
  <2>1. \A f \in Finding : Accounted(f)'
    BY <1>5, <1>6
  <2>2. \A s \in Sweeper : Held(s)'
    BY <1>3, <1>4, <1>6 DEF OnceInv, Held
  <2> QED
    BY <1>6, <2>1, <2>2 DEF OnceInv, EscalatedOnce
<1>7. ASSUME NEW s \in Sweeper, NEW l \in Lease, SweepRead(s, l) PROVE OnceInv'
  <2>1. /\ UNCHANGED <<row, outbox>>
        /\ sweep' = [sweep EXCEPT ![s] =
                      [active |-> TRUE, lease |-> l, now |-> clock, sent |-> {},
                       todo |-> {f \in Finding : Candidate(f, clock)}]]
        /\ sweep[s] = NoSweep
    BY <1>1, <1>7 DEF SweepRead
  <2>2. /\ sweep'[s].active /\ sweep'[s].sent = {}
        /\ sweep'[s].todo = {f \in Finding : Candidate(f, clock)}
        /\ \A t \in Sweeper \ {s} : sweep'[t] = sweep[t]
    BY <2>1 DEF TypeOK
  <2>3. \A t \in Sweeper \ {s} : sweep[t] = NoSweep
    BY <1>1, <2>2 DEF Disjoint
  <2>4. \A t \in Sweeper : sweep[t].sent = {} /\ sweep[t].todo = {}
    BY <2>1, <2>3 DEF NoSweep
  <2>5. ASSUME NEW f \in Finding PROVE Accounted(f)'
    BY <1>5, <2>1, <2>4
  <2>6. ASSUME NEW f \in sweep'[s].todo PROVE outbox'[f] = <<>> /\ Exists(f)'
    <3>1. f \in Finding /\ row[f].level = 0 /\ row[f].status \in Open
      BY <2>2, <2>6 DEF Candidate
    <3>2. outbox[f] = <<>>
      BY <2>4, <3>1 DEF OnceInv, Accounted
    <3> QED
      BY <2>1, <3>1, <3>2 DEF Exists, Open
  <2>7. \A t \in Sweeper : Held(t)'
    BY <2>2, <2>3, <2>6 DEF Held, NoSweep
  <2> QED
    BY <2>1, <2>5, <2>7 DEF OnceInv, EscalatedOnce
<1>8. ASSUME NEW s \in Sweeper, NEW f \in Finding, f \in sweep[s].todo, UNCHANGED outbox,
             sweep' = [sweep EXCEPT ![s].todo = @ \ {f}]
      PROVE  OnceInv'
  <2>1. sweep[s] \in Sweep
    BY <1>8, InUse
  <2>2. sweep'[s].todo = sweep[s].todo \ {f} /\ sweep'[s].sent = sweep[s].sent
    BY <1>8, <2>1 DEF TypeOK, Sweep
  <2>3. \A t \in Sweeper \ {s} : sweep'[t] = sweep[t]
    BY <1>8 DEF TypeOK
  <2>4. \A t \in Sweeper : sweep'[t].todo \subseteq sweep[t].todo /\ sweep'[t].sent = sweep[t].sent
    BY <2>2, <2>3
  <2>5. \A g \in Finding : Accounted(g)'
    BY <1>5, <1>8, <2>4
  <2>6. \A t \in Sweeper : Held(t)'
    BY <1>3, <1>4, <1>8, <2>4 DEF OnceInv, Held
  <2> QED
    BY <1>8, <2>5, <2>6 DEF OnceInv, EscalatedOnce
<1>9. ASSUME NEW s \in Sweeper, NEW f \in Finding, NEW answered \in BOOLEAN,
             SweepSend(s, f, answered)
      PROVE  OnceInv'
  <2>1. sweep[s] \in Sweep /\ f \in sweep[s].todo /\ answered
    BY <1>9, InUse DEF SweepSend, IsNext
  <2>2. sweep[s].active
    BY <2>1 DEF Sweep
  <2>3. sweep'[s].todo = sweep[s].todo \ {f} /\ sweep'[s].sent = sweep[s].sent \cup {f}
    BY <1>9, <2>1 DEF TypeOK, Sweep, SweepSend
  <2>4. \A t \in Sweeper \ {s} : sweep'[t] = sweep[t]
    BY <1>9 DEF TypeOK, SweepSend
  <2>5. \A t \in Sweeper \ {s} : sweep'[t].todo = {} /\ sweep'[t].sent = {}
    BY <1>2, <2>2, <2>4
  <2>6. outbox[f] = <<>> /\ Exists(f)
    BY <2>1 DEF OnceInv, Held
  <2>7. \A g \in Finding \ {f} : outbox'[g] = outbox[g]
    BY <1>9 DEF TypeOK, SweepSend
  <2>8. outbox'[f] = <<Target(s, f)>>
    BY <1>9, <2>6 DEF TypeOK, SweepSend
  <2>9. Len(outbox'[f]) <= 1
    BY <2>8
  <2>10. EscalatedOnce'
    BY <2>7, <2>9 DEF OnceInv, EscalatedOnce
  <2>11. \A g \in Finding : Accounted(g)'
    <3>1. Accounted(f)'
      BY <2>3 DEF Accounted
    <3>2. \A g \in Finding \ {f} : Accounted(g)'
      BY <1>5, <2>3, <2>4, <2>7
    <3> QED
      BY <3>1, <3>2
  <2>12. Held(s)'
    <3>1. \A g \in sweep[s].todo \ {f} : outbox'[g] = <<>> /\ Exists(g)'
      BY <1>3, <1>4, <2>7 DEF OnceInv, Held
    <3>2. \A g \in sweep[s].sent \cup {f} : Exists(g)'
      BY <1>3, <1>4, <2>6 DEF OnceInv, Held
    <3> QED
      BY <2>3, <3>1, <3>2 DEF Held
  <2>13. \A t \in Sweeper : Held(t)'
    BY <2>5, <2>12 DEF Held
  <2> QED
    BY <2>10, <2>11, <2>13 DEF OnceInv
<1>10. ASSUME NEW s \in Sweeper, SweepCommit(s) PROVE OnceInv'
  <2>1. sweep[s] \in Sweep /\ UNCHANGED outbox /\ sweep' = [sweep EXCEPT ![s] = NoSweep]
    BY <1>10, InUse DEF SweepCommit
  <2>2. sweep'[s] = NoSweep /\ \A t \in Sweeper \ {s} : sweep'[t] = sweep[t]
    BY <2>1 DEF TypeOK
  <2>3. sweep'[s].todo = {} /\ sweep'[s].sent = {}
    BY <2>2 DEF NoSweep
  <2>4. ASSUME NEW f \in sweep[s].sent PROVE Accounted(f)'
    <3>1. \A g \in sweep[s].sent : Exists(g)
      BY DEF OnceInv, Held
    <3>2. row[f] \in Row /\ f \in Finding
      BY <1>4, <2>4, <3>1, InUse
    <3>3. row'[f] = [row[f] EXCEPT !.level = 1, !.alerted = TRUE,
                                   !.lastEscalated = sweep[s].now]
      BY <1>10, <3>1, <3>2 DEF SweepCommit
    <3>4. row'[f].level = 1
      BY <3>2, <3>3 DEF Row
    <3> QED
      BY <3>4 DEF Accounted
  <2>5. \A f \in Finding : Accounted(f)'
    <3>1. \A f \in Finding \ sweep[s].sent : \A t \in Sweeper :
             f \in sweep[t].sent => f \in sweep'[t].sent
      BY <2>2
    <3>2. \A f \in Finding \ sweep[s].sent : Accounted(f)'
      BY <1>5, <2>1, <3>1
    <3> QED
      BY <2>4, <3>2
  <2>6. \A t \in Sweeper : Held(t)'
    <3>1. \A t \in Sweeper \ {s} : Held(t)'
      BY <1>3, <1>4, <2>1, <2>2 DEF OnceInv, Held
    <3>2. Held(s)'
      BY <2>3 DEF Held
    <3> QED
      BY <3>1, <3>2
  <2> QED
    BY <2>1, <2>5, <2>6 DEF OnceInv, EscalatedOnce
<1>11. ASSUME NEW s \in Sweeper, SweepProgress(s) PROVE OnceInv'
  BY <1>8, <1>9, <1>10, <1>11 DEF SweepProgress, SweepSkip, SweepSendFails, IsNext
<1>12. \/ UNCHANGED <<outbox, sweep>>
       \/ \E s \in Sweeper : \E l \in Lease : SweepRead(s, l)
       \/ \E s \in Sweeper : SweepProgress(s)
  BY DEF Next, Analyze, EditStep, AnalyzeSave, AnalyzeFlush, AnalyzeVisionFails,
         AnalyzeRecord, AcknowledgeRead, UpdateRead, ResolveRead, EditCommit, DeleteLease,
         Crash, Tick, vars
<1> QED
  BY <1>6, <1>7, <1>11, <1>12

\* As long as no two sweeps overlap, and with no crash, deletion or lost reply,
\* nobody is mailed twice about a finding, however it is edited, acknowledged,
\* closed and swept again.
THEOREM SerialSweepsMailOnce ==
  ASSUME Faults = {}
  PROVE  Spec /\ []Disjoint => []EscalatedOnce
<1>1. Init => OnceInv
  BY DEF Init, OnceInv, EscalatedOnce, Accounted, Held, NoSweep
<1>2. TypeOK /\ OnceInv /\ Disjoint /\ Disjoint' /\ [Next]_vars => OnceInv'
  BY OnceStep
<1>3. OnceInv => EscalatedOnce
  BY DEF OnceInv
<1> QED
  BY <1>1, <1>2, <1>3, TypeCorrect, PTL DEF Spec

(***************************************************************************)
(* Findings implements FindingLife.                                        *)
(***************************************************************************)

\* No analysis began in the future.
Began == \A a \in Scanner : scan[a].began <= clock

LEMMA BeganStep == TypeOK /\ Began /\ [Next]_vars => Began'
<1> SUFFICES ASSUME TypeOK, Began, [Next]_vars PROVE Began'
  OBVIOUS
<1>1. clock \in Int /\ clock >= 0 /\ \A a \in Scanner : scan[a] \in Scan \cup {NoScan}
  BY ConstantsOK DEF TypeOK, Time
<1>2. \A a \in Scanner : scan[a].began \in Int
  BY <1>1, ConstantsOK DEF Scan, NoScan, Time
<1>3. ASSUME NEW a \in Scanner, NEW l \in Lease, NEW p \in Photo, NEW auto \in BOOLEAN,
             AnalyzeSave(a, l, p, auto)
      PROVE  Began'
  BY <1>1, <1>3 DEF TypeOK, Began, AnalyzeSave
<1>4. ASSUME NEW a \in Scanner, AnalyzeFlush(a) PROVE Began'
  <2>1. scan[a] \in Scan
    BY <1>4, InUse DEF AnalyzeFlush
  <2>2. [scan[a] EXCEPT !.phase = "flushed"].began = scan[a].began /\ NoScan.began = 0
    BY <2>1 DEF Scan, NoScan
  <2>3. scan'[a] \in {[scan[a] EXCEPT !.phase = "flushed"], NoScan}
        /\ (\A b \in Scanner \ {a} : scan'[b] = scan[b]) /\ clock' = clock
    BY <1>4 DEF TypeOK, AnalyzeFlush
  <2> QED
    BY <1>1, <2>2, <2>3 DEF Began
<1>5. ASSUME NEW a \in Scanner, scan' = [scan EXCEPT ![a] = NoScan], clock' = clock
      PROVE  Began'
  BY <1>1, <1>5 DEF TypeOK, Began, NoScan
<1>6. CASE UNCHANGED <<scan, clock>>
  BY <1>6 DEF Began
<1>7. CASE Crash
  BY <1>1, <1>7 DEF Began, Crash, NoScan
<1>8. CASE Tick
  BY <1>1, <1>2, <1>8 DEF Began, Tick
<1>9. ASSUME NEW a \in Scanner, Analyze(a) PROVE Began'
  BY <1>3, <1>4, <1>5, <1>9 DEF Analyze, AnalyzeVisionFails, AnalyzeRecord
<1>10. ASSUME NEW e \in Editor, EditStep(e) PROVE UNCHANGED <<scan, clock>>
  BY <1>10 DEF EditStep, AcknowledgeRead, ResolveRead, UpdateRead, EditCommit
<1>11. ASSUME NEW s \in Sweeper, (\E l \in Lease : SweepRead(s, l)) \/ SweepProgress(s)
       PROVE  UNCHANGED <<scan, clock>>
  BY <1>11 DEF SweepRead, SweepProgress, SweepSkip, SweepSend, SweepSendFails, SweepCommit
<1> QED
  BY <1>6, <1>7, <1>8, <1>9, <1>10, <1>11 DEF Next, DeleteLease, vars

\* What the mapping keeps and what it reads.
LEMMA LivesSame == ASSUME row' = row PROVE Lives' = Lives
BY DEF Lives, LifeOf

LEMMA LivesAt ==
  ASSUME NEW f \in Finding
  PROVE  /\ Lives[f].stage = Stage(row[f].status)
         /\ Lives[f].severe = (row[f].severity \in Ladder)
         /\ Lives[f].detected = row[f].detected
         /\ Lives[f].acked = row[f].acked
         /\ Lives[f].escalated = (row[f].level = 1)
BY DEF Lives, LifeOf

LEMMA AliveIsThere ==
  ASSUME TypeOK, NEW f \in Finding
  PROVE  /\ Life!Alive(f) <=> Exists(f)
         /\ Lives[f].stage = "unborn" <=> row[f].status = "unborn"
         /\ Lives[f].stage = "open" <=> row[f].status \in Open
         /\ Lives[f].stage = "closed" <=> row[f].status \in Closed
<1>1. row[f].status \in Status
  BY DEF TypeOK, Row, NewRow, Status
<1> QED
  BY <1>1, LivesAt DEF Life!Alive, Exists, Stage, Open, Closed, Status

LEMMA ChosenAt ==
  ASSUME NEW f
  PROVE  f \in Chosen <=> \E s \in Sweeper : f \in sweep[s].todo
BY DEF Chosen

LEMMA ChosenFound == ASSUME TypeOK PROVE Chosen \subseteq Finding
<1>1. ASSUME NEW s \in Sweeper PROVE sweep[s].todo \subseteq Finding
  BY InUse DEF Sweep
<1> QED
  BY <1>1 DEF Chosen

LEMMA LifeInit == Init => Life!Init
<1> SUFFICES ASSUME Init PROVE Life!Init
  OBVIOUS
<1>1. ASSUME NEW f \in Finding PROVE LifeOf(row[f]) = Life!Absent
  <2>1. row[f] = NewRow
    BY DEF Init
  <2>2. /\ Stage(NewRow.status) = "unborn"
        /\ (NewRow.severity \in Ladder) = FALSE /\ (NewRow.level = 1) = FALSE
        /\ NewRow.detected = 0 /\ NewRow.acked = FALSE
    BY DEF NewRow, Stage, Open, Closed, Ladder
  <2> QED
    BY <2>1, <2>2 DEF LifeOf, Life!Absent
<1>2. Lives = [f \in Finding |-> Life!Absent]
  BY <1>1 DEF Lives
<1>3. Chosen = {}
  BY DEF Init, Chosen, NoSweep
<1>4. Mails = [f \in Finding |-> 0]
  BY DEF Init, Mails
<1> QED
  BY <1>2, <1>3, <1>4 DEF Init, Life!Init

\* Findings that an analysis has recorded are open and not from the future.
LEMMA DetectStep ==
  ASSUME TypeOK, Began, NEW a \in Scanner, NEW S \in SUBSET Finding,
         NEW found \in [S -> Reported], AnalyzeRecord(a, found)
  PROVE  Life!Detect(S) \/ UNCHANGED Lives
<1> DEFINE g == [f \in S |-> [stage |-> "open", severe |-> found[f] \in Ladder,
                              detected |-> scan[a].began, acked |-> FALSE,
                              escalated |-> FALSE]]
<1>1. CASE row' = row
  BY <1>1, LivesSame
<1>2. CASE row' = [f \in Finding |-> IF f \in S THEN Detected(a, found[f]) ELSE row[f]]
  <2>1. \A f \in S : row[f].status = "unborn"
    BY DEF AnalyzeRecord
  <2>2. \A f \in S : Lives[f].stage = "unborn"
    BY <2>1, AliveIsThere
  <2>3. scan[a] \in Scan /\ scan[a].began <= clock
    BY InUse DEF AnalyzeRecord, Began
  <2>4. scan[a].began \in 0 .. clock
    BY <2>3, ConstantsOK DEF Scan, Time, TypeOK
  <2>5. g \in [S -> [stage : {"open"}, severe : BOOLEAN, detected : 0 .. clock,
                     acked : {FALSE}, escalated : {FALSE}]]
    BY <2>4
  <2>6. ASSUME NEW f \in S PROVE LifeOf(row'[f]) = g[f]
    <3>1. row'[f] = Detected(a, found[f])
      BY <1>2
    <3>2. /\ row'[f].status = "open" /\ row'[f].severity = found[f]
          /\ row'[f].detected = scan[a].began /\ row'[f].acked = FALSE
          /\ row'[f].level = 0
      BY <3>1 DEF Detected
    <3>3. Stage("open") = "open"
      BY DEF Stage, Open, Closed
    <3>4. LifeOf(row'[f]) = [stage |-> Stage("open"), severe |-> found[f] \in Ladder,
                        detected |-> scan[a].began, acked |-> FALSE, escalated |-> 0 = 1]
      BY <3>2 DEF LifeOf
    <3>5. (0 = 1) = FALSE
      OBVIOUS
    <3> QED
      BY <3>3, <3>4, <3>5
  <2>7. ASSUME NEW f \in Finding \ S PROVE LifeOf(row'[f]) = Lives[f]
    <3>1. row'[f] = row[f]
      BY <1>2
    <3> QED
      BY <3>1 DEF LifeOf, Lives
  <2>8. Lives' = [f \in Finding |-> IF f \in S THEN g[f] ELSE Lives[f]]
    BY <2>6, <2>7 DEF Lives
  <2>9. UNCHANGED <<clock, Chosen, Mails>>
    BY DEF AnalyzeRecord, Chosen, Mails
  <2> HIDE DEF g
  <2> QED
    BY <2>2, <2>5, <2>8, <2>9 DEF Life!Detect
<1> QED
  BY <1>1, <1>2 DEF AnalyzeRecord

LEMMA SameRecord ==
  \A r, s \in Life!Record :
     /\ r.stage = s.stage /\ r.severe = s.severe /\ r.detected = s.detected
     /\ r.acked = s.acked /\ r.escalated = s.escalated
     => r = s
BY DEF Life!Record

LEMMA StageTyped ==
  \A status \in Status : Stage(status) \in {"unborn", "open", "closed", "deleted"}
BY DEF Status, Stage, Open, Closed

LEMMA LifeTyped ==
  ASSUME NEW r \in Row \cup {NewRow}
  PROVE  LifeOf(r) \in Life!Record
<1>1. r.status \in Status /\ r.detected \in Nat /\ r.acked \in BOOLEAN
  <2>1. CASE r \in Row
    BY <2>1, ConstantsOK DEF Row, Time
  <2>2. CASE r = NewRow
    BY <2>2 DEF NewRow, Status
  <2> QED
    BY <2>1, <2>2
<1>2. Stage(r.status) \in {"unborn", "open", "closed", "deleted"}
  BY <1>1, StageTyped
<1>3. (r.severity \in Ladder) \in BOOLEAN /\ (r.level = 1) \in BOOLEAN
  OBVIOUS
<1> QED
  BY <1>1, <1>2, <1>3 DEF LifeOf, Life!Record

LEMMA LivesTyped ==
  ASSUME TypeOK, TypeOK', NEW f \in Finding
  PROVE  LifeOf(row[f]) \in Life!Record /\ LifeOf(row'[f]) \in Life!Record
<1>1. row[f] \in Row \cup {NewRow} /\ row'[f] \in Row \cup {NewRow}
  BY DEF TypeOK
<1> QED
  BY <1>1, LifeTyped

\* An edit that commits leaves a finding no more open and no less acknowledged.
LEMMA TriageStep ==
  ASSUME TypeOK, TypeOK', NEW e \in Editor, EditCommit(e)
  PROVE  (\E f \in Finding : Life!Triage(f)) \/ UNCHANGED Lives
<1>0. edit[e] \in Edit /\ edit[e].finding \in Finding
  BY InUse DEF EditCommit, Edit
<1>1. PICK f \in Finding : f = edit[e].finding
  BY <1>0
<1>2. CASE ~Exists(f)
  BY <1>1, <1>2, LivesSame DEF EditCommit
<1>3. CASE Exists(f)
  <2> DEFINE r == Edited(e, row[f])
             stage == Stage(r.status)
             severe == r.severity \in Ladder
  <2>1. row[f] \in Row /\ r \in Row /\ row' = [row EXCEPT ![f] = r]
    BY <1>1, <1>3, InUse, EditedTyped DEF EditCommit
  <2>2. /\ r.status \in {row[f].status} \cup Closed
        /\ row[f].status \in Closed => r.status \in Closed
        /\ r.acked = row[f].acked \/ r.acked = TRUE
        /\ r.detected = row[f].detected /\ r.level = row[f].level
    BY <1>0, <2>1 DEF Edited, Row, Edit, Closed
  <2> HIDE DEF r
  <2>3. row[f].status \in Open \cup Closed
    BY <1>3, <2>1 DEF Exists, Row, Status, Open, Closed
  <2>4. stage \in {"open", "closed"} /\ (row[f].status \in Closed => stage = "closed")
    BY <2>2, <2>3 DEF Stage, Open, Closed
  <2>5. severe \in BOOLEAN /\ r.acked \in BOOLEAN
    BY <2>1 DEF Row
  <2>6. row'[f] = r /\ \A x \in Finding \ {f} : row'[x] = row[x]
    BY <1>1, <2>1 DEF TypeOK
  <2>7. LifeOf(row'[f]) = [LifeOf(row[f]) EXCEPT !.stage = stage, !.severe = severe, !.acked = r.acked]
    <3> DEFINE new == [LifeOf(row[f]) EXCEPT !.stage = stage, !.severe = severe, !.acked = r.acked]
    <3>1. LifeOf(row[f]) \in Life!Record /\ LifeOf(row'[f]) \in Life!Record
      BY LivesTyped
    <3>2. /\ LifeOf(row'[f]).stage = stage /\ LifeOf(row'[f]).severe = severe
          /\ LifeOf(row'[f]).detected = row'[f].detected /\ LifeOf(row'[f]).acked = row'[f].acked
          /\ LifeOf(row'[f]).escalated = (row'[f].level = 1)
      BY <2>6 DEF LifeOf
    <3>3. /\ LifeOf(row[f]).detected = row[f].detected
          /\ LifeOf(row[f]).escalated = (row[f].level = 1)
      BY DEF LifeOf
    <3> HIDE DEF stage, severe
    <3>4. /\ new \in Life!Record
          /\ new.stage = stage /\ new.severe = severe /\ new.acked = r.acked
          /\ new.detected = LifeOf(row[f]).detected /\ new.escalated = LifeOf(row[f]).escalated
      BY <2>4, <2>5, <3>1 DEF Life!Record
    <3>5. /\ LifeOf(row'[f]).detected = LifeOf(row[f]).detected /\ LifeOf(row'[f]).acked = r.acked
          /\ LifeOf(row'[f]).escalated = LifeOf(row[f]).escalated
      BY <2>2, <2>6, <3>2, <3>3
    <3> HIDE DEF new
    <3>6. LifeOf(row'[f]) = new
      BY <3>1, <3>2, <3>4, <3>5, SameRecord
    <3> QED
      BY <3>6 DEF new
  <2>8. \A x \in Finding \ {f} : LifeOf(row'[x]) = LifeOf(row[x])
    BY <2>6 DEF LifeOf
  <2>9. Lives' = [Lives EXCEPT ![f] = [@ EXCEPT !.stage = stage, !.severe = severe,
                                                !.acked = r.acked]]
    <3>1. /\ Lives = [x \in Finding |-> LifeOf(row[x])]
          /\ Lives' = [x \in Finding |-> LifeOf(row'[x])]
      BY DEF Lives
    <3> HIDE DEF stage, severe
    <3> QED
      BY <1>1, <2>7, <2>8, <3>1
  <2>10. UNCHANGED <<clock, Chosen, Mails>>
    BY DEF EditCommit, Chosen, Mails
  <2>11. Life!Alive(f) /\ (Lives[f].stage = "closed" => stage = "closed")
         /\ (Lives[f].acked => r.acked)
    BY <1>1, <1>3, <2>2, <2>4, AliveIsThere, LivesAt
  <2> HIDE DEF stage, severe
  <2> QED
    BY <1>1, <2>4, <2>5, <2>9, <2>10, <2>11 DEF Life!Triage
<1> QED
  BY <1>2, <1>3

\* Findings that go with their lease.
LEMMA RemoveStep ==
  ASSUME TypeOK, TypeOK', NEW l \in Lease, DeleteLease(l)
  PROVE  \E S \in SUBSET Finding : Life!Remove(S)
<1>1. PICK S \in SUBSET Finding : S = {f \in Finding : Exists(f) /\ row[f].lease = l}
  OBVIOUS
<1>2. \A f \in S : Life!Alive(f)
  BY <1>1, AliveIsThere
<1>3. ASSUME NEW f \in S
      PROVE  LifeOf(row'[f]) = [LifeOf(row[f]) EXCEPT !.stage = "deleted", !.acked = FALSE,
                                            !.escalated = FALSE]
  <2> DEFINE new == [LifeOf(row[f]) EXCEPT !.stage = "deleted", !.acked = FALSE,
                                      !.escalated = FALSE]
  <2>1. row[f] \in Row
    BY <1>1, InUse
  <2>2. row'[f] = [row[f] EXCEPT !.status = "deleted", !.alerted = FALSE, !.acked = FALSE,
                                 !.level = 0, !.lastEscalated = None, !.resolvedBy = None]
    BY <1>1 DEF DeleteLease
  <2>3. /\ row'[f].status = "deleted" /\ row'[f].severity = row[f].severity
        /\ row'[f].detected = row[f].detected /\ row'[f].acked = FALSE /\ row'[f].level = 0
    BY <2>1, <2>2 DEF Row
  <2>4. Stage("deleted") = "deleted" /\ (0 = 1) = FALSE
    BY DEF Stage, Open, Closed
  <2>5. /\ LifeOf(row'[f]).stage = "deleted" /\ LifeOf(row'[f]).severe = LifeOf(row[f]).severe
        /\ LifeOf(row'[f]).detected = LifeOf(row[f]).detected /\ LifeOf(row'[f]).acked = FALSE
        /\ LifeOf(row'[f]).escalated = FALSE
    BY <2>3, <2>4 DEF LifeOf
  <2>6. LifeOf(row[f]) \in Life!Record /\ LifeOf(row'[f]) \in Life!Record
    BY LivesTyped
  <2>7. /\ new \in Life!Record
        /\ new.stage = "deleted" /\ new.severe = LifeOf(row[f]).severe /\ new.acked = FALSE
        /\ new.detected = LifeOf(row[f]).detected /\ new.escalated = FALSE
    BY <2>6 DEF Life!Record
  <2> HIDE DEF new
  <2>8. LifeOf(row'[f]) = new
    BY <2>5, <2>6, <2>7, SameRecord
  <2> QED
    BY <2>8 DEF new
<1>4. ASSUME NEW f \in Finding \ S PROVE LifeOf(row'[f]) = LifeOf(row[f])
  <2>1. row'[f] = row[f]
    BY <1>1 DEF DeleteLease
  <2> QED
    BY <2>1 DEF LifeOf
<1>5. /\ Lives = [f \in Finding |-> LifeOf(row[f])]
      /\ Lives' = [f \in Finding |-> LifeOf(row'[f])]
  BY DEF Lives
<1>6. Lives' = [f \in Finding |->
                  IF f \in S THEN [Lives[f] EXCEPT !.stage = "deleted", !.acked = FALSE,
                                                   !.escalated = FALSE]
                  ELSE Lives[f]]
  BY <1>3, <1>4, <1>5
<1>7. UNCHANGED <<clock, Chosen, Mails>>
  BY DEF DeleteLease, Chosen, Mails
<1> QED
  BY <1>2, <1>6, <1>7 DEF Life!Remove

\* What a sweep advances has been mailed about.
LEMMA EscalateStep ==
  ASSUME TypeOK, TypeOK', SweepHistory, NEW s \in Sweeper, SweepCommit(s)
  PROVE  (\E S \in SUBSET Finding : Life!Escalate(S)) \/ UNCHANGED Lives
<1>1. sweep[s] \in Sweep
  BY InUse DEF SweepCommit
<1>2. PICK S \in SUBSET Finding : S = sweep[s].sent
  BY <1>1 DEF Sweep
<1>3. CASE ~ \A f \in S : Exists(f)
  BY <1>2, <1>3, LivesSame DEF SweepCommit
<1>4. CASE \A f \in S : Exists(f)
  <2>1. \A f \in S : Life!Alive(f) /\ Mails[f] > 0
    <3>1. \A f \in S : outbox[f] # <<>> /\ outbox[f] \in Seq(Address)
      BY <1>2 DEF SweepHistory, TypeOK
    <3>2. \A f \in S : Len(outbox[f]) > 0
      BY <3>1
    <3> QED
      BY <1>4, <3>2, AliveIsThere DEF Mails
  <2>2. ASSUME NEW f \in S PROVE LifeOf(row'[f]) = [LifeOf(row[f]) EXCEPT !.escalated = TRUE]
    <3> DEFINE new == [LifeOf(row[f]) EXCEPT !.escalated = TRUE]
    <3>1. row[f] \in Row
      BY <1>4, InUse
    <3>2. row'[f] = [row[f] EXCEPT !.level = 1, !.alerted = TRUE,
                                   !.lastEscalated = sweep[s].now]
      BY <1>2, <1>4 DEF SweepCommit
    <3>3. /\ row'[f].status = row[f].status /\ row'[f].severity = row[f].severity
          /\ row'[f].detected = row[f].detected /\ row'[f].acked = row[f].acked
          /\ row'[f].level = 1
      BY <3>1, <3>2 DEF Row
    <3>4. /\ LifeOf(row'[f]).stage = LifeOf(row[f]).stage /\ LifeOf(row'[f]).severe = LifeOf(row[f]).severe
          /\ LifeOf(row'[f]).detected = LifeOf(row[f]).detected /\ LifeOf(row'[f]).acked = LifeOf(row[f]).acked
          /\ LifeOf(row'[f]).escalated = TRUE
      BY <3>3 DEF LifeOf
    <3>5. LifeOf(row[f]) \in Life!Record /\ LifeOf(row'[f]) \in Life!Record
      BY LivesTyped
    <3>6. /\ new \in Life!Record
          /\ new.stage = LifeOf(row[f]).stage /\ new.severe = LifeOf(row[f]).severe
          /\ new.detected = LifeOf(row[f]).detected /\ new.acked = LifeOf(row[f]).acked
          /\ new.escalated = TRUE
      BY <3>5 DEF Life!Record
    <3> HIDE DEF new
    <3>7. LifeOf(row'[f]) = new
      BY <3>4, <3>5, <3>6, SameRecord
    <3> QED
      BY <3>7 DEF new
  <2>3. ASSUME NEW f \in Finding \ S PROVE LifeOf(row'[f]) = LifeOf(row[f])
    <3>1. row'[f] = row[f]
      BY <1>2, <1>4 DEF SweepCommit
    <3> QED
      BY <3>1 DEF LifeOf
  <2>4. /\ Lives = [f \in Finding |-> LifeOf(row[f])]
        /\ Lives' = [f \in Finding |-> LifeOf(row'[f])]
    BY DEF Lives
  <2>5. Lives' = [f \in Finding |-> IF f \in S THEN [Lives[f] EXCEPT !.escalated = TRUE]
                                    ELSE Lives[f]]
    BY <2>2, <2>3, <2>4
  <2>6. UNCHANGED <<clock, Mails>>
    BY DEF SweepCommit, Mails
  <2>7. Chosen' = Chosen
    <3>1. /\ sweep[s].todo = {} /\ sweep'[s].todo = {}
          /\ \A t \in Sweeper \ {s} : sweep'[t] = sweep[t]
      BY DEF SweepCommit, TypeOK, NoSweep
    <3>2. \A t \in Sweeper : sweep'[t].todo = sweep[t].todo
      BY <3>1
    <3> QED
      BY <3>2 DEF Chosen
  <2> QED
    BY <2>1, <2>5, <2>6, <2>7 DEF Life!Escalate
<1> QED
  BY <1>3, <1>4

\* A sweep chooses what is due when it reads.
LEMMA ChooseStep ==
  ASSUME TypeOK, NEW s \in Sweeper, NEW l \in Lease, SweepRead(s, l)
  PROVE  \E S \in SUBSET Finding : Life!Choose(S)
<1>1. PICK S \in SUBSET Finding : S = {f \in Finding : Candidate(f, clock)}
  OBVIOUS
<1>2. ASSUME NEW f \in S PROVE Life!Due(f)
  <2>1. Candidate(f, clock) /\ f \in Finding
    BY <1>1
  <2>2. /\ Lives[f].stage = "open" /\ Lives[f].severe /\ ~Lives[f].acked
        /\ ~Lives[f].escalated /\ Lives[f].detected + EscalationAfter <= clock
    <3>1. Lives[f].stage = "open"
      BY <2>1, AliveIsThere DEF Candidate
    <3>2. Lives[f].severe = (row[f].severity \in Ladder)
          /\ Lives[f].escalated = (row[f].level = 1)
          /\ Lives[f].detected = row[f].detected /\ Lives[f].acked = row[f].acked
      BY <2>1, LivesAt
    <3>3. row[f].level = 0
      BY <2>1 DEF Candidate
    <3>4. (row[f].level = 1) = FALSE
      BY <3>3
    <3>5. Lives[f].escalated = FALSE
      BY <3>2, <3>4
    <3> QED
      BY <2>1, <3>1, <3>2, <3>5 DEF Candidate
  <2> QED
    BY <2>2 DEF Life!Due
<1>3. sweep'[s].todo = S /\ sweep[s].todo = {}
      /\ \A t \in Sweeper \ {s} : sweep'[t] = sweep[t]
  <2>1. sweep[s] = NoSweep
    BY DEF SweepRead, TypeOK, Sweep
  <2>2. sweep' = [sweep EXCEPT ![s] = [active |-> TRUE, lease |-> l, now |-> clock,
                                       sent |-> {}, todo |-> S]]
    BY <1>1 DEF SweepRead
  <2> QED
    BY <2>1, <2>2 DEF TypeOK, NoSweep
<1>4. Chosen' = Chosen \cup S
  BY <1>3 DEF Chosen
<1>5. UNCHANGED <<clock, Lives, Mails>>
  BY LivesSame DEF SweepRead, Mails
<1> QED
  BY <1>2, <1>4, <1>5 DEF Life!Choose

\* One finding is off the list of one sweep.
LEMMA Fewer ==
  ASSUME TypeOK, NEW s \in Sweeper, NEW f \in sweep[s].todo,
         sweep'[s].todo = sweep[s].todo \ {f},
         \A t \in Sweeper \ {s} : sweep'[t] = sweep[t]
  PROVE  f \in Chosen /\ Chosen' \in {Chosen, Chosen \ {f}}
<1>1. \A g : g # f => (g \in Chosen' <=> g \in Chosen)
  BY DEF Chosen
<1>2. f \in Chosen
  BY DEF Chosen
<1> QED
  BY <1>1, <1>2

LEMMA ProgressStep ==
  ASSUME TypeOK, TypeOK', SweepHistory, NEW s \in Sweeper, SweepProgress(s)
  PROVE  Life!Next \/ UNCHANGED Life!vars
<1>1. ASSUME NEW f \in Finding, SweepSkip(s, f) \/ SweepSendFails(s, f)
      PROVE  \E S \in SUBSET Finding : Life!GiveUp(S)
  <2>1. f \in sweep[s].todo /\ sweep'[s].todo = sweep[s].todo \ {f}
        /\ \A t \in Sweeper \ {s} : sweep'[t] = sweep[t]
    <3>1. f \in sweep[s].todo /\ sweep' = [sweep EXCEPT ![s].todo = @ \ {f}]
      BY <1>1 DEF SweepSkip, SweepSendFails, IsNext
    <3>2. sweep[s] \in Sweep
      BY <3>1, InUse
    <3> QED
      BY <3>1, <3>2 DEF TypeOK, Sweep
  <2>2. Chosen' = Chosen \/ Chosen' = Chosen \ {f}
    BY <2>1, Fewer
  <2>3. UNCHANGED <<clock, Lives, Mails>>
    BY <1>1, LivesSame DEF SweepSkip, SweepSendFails, Mails
  <2>4. Life!GiveUp({}) \/ Life!GiveUp({f})
    BY <2>2, <2>3 DEF Life!GiveUp
  <2> QED
    BY <1>1, <2>4
<1>2. ASSUME NEW f \in Finding, NEW answered \in BOOLEAN, SweepSend(s, f, answered)
      PROVE  Life!Mail(f)
  <2>1. f \in sweep[s].todo /\ sweep'[s].todo = sweep[s].todo \ {f}
        /\ \A t \in Sweeper \ {s} : sweep'[t] = sweep[t]
    BY <1>2 DEF SweepSend, IsNext, TypeOK
  <2>2. f \in Chosen /\ Chosen' \in {Chosen, Chosen \ {f}}
    BY <2>1, Fewer
  <2>3. /\ outbox[f] \in Seq(Address)
        /\ outbox' = [outbox EXCEPT ![f] = Append(@, Target(s, f))]
        /\ outbox' \in [Finding -> Seq(Address)] /\ outbox \in [Finding -> Seq(Address)]
    BY <1>2 DEF SweepSend, TypeOK
  <2>4. Len(outbox'[f]) = Len(outbox[f]) + 1
    BY <2>3
  <2>5. \A g \in Finding \ {f} : outbox'[g] = outbox[g]
    BY <2>3
  <2>6. Mails' = [Mails EXCEPT ![f] = @ + 1]
    BY <2>4, <2>5 DEF Mails
  <2>7. UNCHANGED <<clock, Lives>>
    BY <1>2, LivesSame DEF SweepSend
  <2> QED
    BY <2>2, <2>6, <2>7 DEF Life!Mail
<1>3. CASE SweepCommit(s)
  <2>1. CASE \E S \in SUBSET Finding : Life!Escalate(S)
    BY <2>1 DEF Life!Next
  <2>2. CASE UNCHANGED Lives
    <3>1. /\ sweep[s].todo = {} /\ sweep'[s].todo = {}
          /\ \A t \in Sweeper \ {s} : sweep'[t] = sweep[t]
      BY <1>3 DEF SweepCommit, TypeOK, NoSweep
    <3>2. Chosen' = Chosen
      BY <3>1 DEF Chosen
    <3>3. UNCHANGED <<clock, Mails>>
      BY <1>3 DEF SweepCommit, Mails
    <3> QED
      BY <2>2, <3>2, <3>3 DEF Life!vars
  <2> QED
    BY <1>3, <2>1, <2>2, EscalateStep
<1> QED
  BY <1>1, <1>2, <1>3 DEF SweepProgress, Life!Next

\* Every step of the service is one of the life of findings, or none.
LEMMA LifeStep == TypeOK /\ TypeOK' /\ SweepHistory /\ Began /\ [Next]_vars => [Life!Next]_(Life!vars)
<1> SUFFICES ASSUME TypeOK, TypeOK', SweepHistory, Began, [Next]_vars
             PROVE  Life!Next \/ UNCHANGED Life!vars
  OBVIOUS
<1>0. ASSUME UNCHANGED <<clock, row, outbox, sweep>> PROVE UNCHANGED Life!vars
  BY <1>0, LivesSame DEF Life!vars, Chosen, Mails
<1>1. ASSUME NEW a \in Scanner, Analyze(a) PROVE Life!Next \/ UNCHANGED Life!vars
  <2>1. ASSUME NEW S \in SUBSET Finding, NEW found \in [S -> Reported],
               AnalyzeRecord(a, found)
        PROVE  Life!Next \/ UNCHANGED Life!vars
    <3>1. UNCHANGED <<clock, Chosen, Mails>>
      BY <2>1 DEF AnalyzeRecord, Chosen, Mails
    <3> QED
      BY <2>1, <3>1, DetectStep DEF Life!Next, Life!vars
  <2> QED
    BY <1>0, <1>1, <2>1 DEF Analyze, AnalyzeSave, AnalyzeFlush, AnalyzeVisionFails
<1>2. ASSUME NEW e \in Editor, EditStep(e) PROVE Life!Next \/ UNCHANGED Life!vars
  <2>1. CASE EditCommit(e)
    <3>1. UNCHANGED <<clock, Chosen, Mails>>
      BY <2>1 DEF EditCommit, Chosen, Mails
    <3> QED
      BY <2>1, <3>1, TriageStep DEF Life!Next, Life!vars
  <2> QED
    BY <1>0, <1>2, <2>1 DEF EditStep, AcknowledgeRead, ResolveRead, UpdateRead
<1>3. ASSUME NEW s \in Sweeper, NEW l \in Lease, SweepRead(s, l) PROVE Life!Next
  BY <1>3, ChooseStep DEF Life!Next
<1>4. ASSUME NEW s \in Sweeper, SweepProgress(s) PROVE Life!Next \/ UNCHANGED Life!vars
  BY <1>4, ProgressStep
<1>5. ASSUME NEW l \in Lease, DeleteLease(l) PROVE Life!Next
  BY <1>5, RemoveStep DEF Life!Next
<1>6. CASE Crash
  <2>1. Chosen' = {}
    BY <1>6 DEF Crash, Chosen, NoSweep
  <2>2. UNCHANGED <<clock, Lives, Mails>>
    BY <1>6, LivesSame DEF Crash, Mails
  <2>3. Life!GiveUp(Finding)
    BY <2>1, <2>2, ChosenFound DEF Life!GiveUp
  <2> QED
    BY <2>3 DEF Life!Next
<1>7. CASE Tick
  <2>1. clock' = clock + 1 /\ UNCHANGED <<Lives, Chosen, Mails>>
    BY <1>7, LivesSame DEF Tick, Chosen, Mails
  <2> QED
    BY <2>1 DEF Life!Pass, Life!Next
<1>8. CASE UNCHANGED vars
  BY <1>0, <1>8 DEF vars
<1> QED
  BY <1>1, <1>2, <1>3, <1>4, <1>5, <1>6, <1>7, <1>8 DEF Next

\* Findings implements FindingLife: whatever requests, sweeps, crashes and deletions
\* overlap, every finding has the one life cycle (models/finding.py:27).
THEOREM FindingsLive == Spec => KeepsTheLife
<1>1. Init => Began
  BY DEF Init, Began, NoScan
<1>2. Spec => []Began
  BY <1>1, BeganStep, TypeCorrect, PTL DEF Spec
<1>3. IInv => SweepHistory
  BY DEF IInv
<1> QED
  BY <1>2, <1>3, Inductive, TypeCorrect, LifeInit, LifeStep, PTL DEF Spec, KeepsTheLife, Life!Spec
=============================================================================
