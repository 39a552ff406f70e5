------------------------------ MODULE Findings ------------------------------
(***************************************************************************)
(* Inspection findings: photo analysis, acknowledgement, edits, closure    *)
(* and the escalation sweep.                                               *)
(* (services/api/app/api/v1/findings.py, services/api/app/services/        *)
(* findings.py, services/api/app/models/finding.py)                        *)
(*                                                                         *)
(* Every handler runs in a session of its own on PostgreSQL at READ        *)
(* COMMITTED and takes no row lock: it reads rows, decides, and commits    *)
(* later.  A commit writes only the attributes the handler changed, so a   *)
(* handler is split into its read and its commit and other transactions    *)
(* commit in between.  Emails and stored files are outside the             *)
(* transaction: a rollback does not take them back.                        *)
(***************************************************************************)
EXTENDS Integers, Sequences, FiniteSets

CONSTANTS
    Finding,          \* identities of rows of inspection_findings
    Lease,            \* identities of leases
    Photo,            \* references UploadStorage hands out
    Address,          \* email addresses
    None,             \* SQL's NULL, Python's None
    HolderEmail,      \* the address of the holder of each lease, or None
    Editor,           \* concurrent acknowledge/update/resolve requests
    Scanner,          \* concurrent photo analyses
    Sweeper,          \* concurrent escalation sweeps
    Reported,         \* the severities that arise in an instance
    ResendConfigured, \* RESEND_API_KEY and RESEND_FROM_EMAIL are set
    EscalationAfter,  \* ESCALATION_AFTER_HOURS, in clock units
    MaxTime,          \* bound of the clock
    MaxMail,          \* bound of the emails sent about one finding
    Faults            \* which of "crash", "delete", "lost_reply" may occur

Severity == {"critical", "high", "medium", "low"}
Keep == "keep"        \* a PATCH without the attribute

ASSUME ConstantsOK ==
    /\ Reported \subseteq Severity
    /\ HolderEmail \in [Lease -> Address \cup {None}]
    /\ None \notin Address \cup Editor \cup Lease \cup Finding \cup Photo \cup Nat
    /\ ResendConfigured \in BOOLEAN
    /\ EscalationAfter \in Nat
    /\ MaxTime \in Nat
    /\ MaxMail \in Nat
    /\ Faults \subseteq {"crash", "delete", "lost_reply"}

VARIABLES
    clock,   \* the hour, as datetime.now and the database's now() read it
    lease,   \* the leases on the register
    row,     \* inspection_findings
    doc,     \* lease_documents: the photos on record for each lease
    file,    \* the photos in upload storage
    outbox,  \* per finding, the recipients Resend was given an email for
    trail,   \* audit_log entries about findings
    edit,    \* requests between their read and their commit
    scan,    \* analyses between upload and commit
    sweep    \* sweeps between their query and their commit

db == <<lease, row, doc, trail>>
vars == <<clock, lease, row, doc, file, outbox, trail, edit, scan, sweep>>

Time == 0 .. MaxTime
Status == {"unborn", "open", "in_progress", "resolved", "false_positive", "deleted"}
Open == {"open", "in_progress"}
Closed == {"resolved", "false_positive"}

NewRow == [lease |-> None, photo |-> None, severity |-> "low", status |-> "unborn",
           detected |-> 0, alerted |-> FALSE, acked |-> FALSE, level |-> 0,
           lastEscalated |-> None, resolvedBy |-> None]
NoEdit == [op |-> "idle", finding |-> None, severity |-> Keep, falsePositive |-> FALSE]
NoScan == [phase |-> "idle", lease |-> None, photo |-> None, autoAlert |-> FALSE, began |-> 0]
NoSweep == [active |-> FALSE, lease |-> None, now |-> 0, todo |-> {}, sent |-> {}]

Row == [lease : Lease, photo : Photo, severity : Severity, status : Status \ {"unborn"},
        detected : Time, alerted : BOOLEAN, acked : BOOLEAN, level : {0, 1},
        lastEscalated : Time \cup {None}, resolvedBy : Editor \cup {None}]
Edit == [op : {"acknowledge", "update", "resolve"}, finding : Finding,
         severity : Severity \cup {Keep}, falsePositive : BOOLEAN]
Scan == [phase : {"saved", "flushed"}, lease : Lease, photo : Photo,
         autoAlert : BOOLEAN, began : Time]
Sweep == [active : {TRUE}, lease : Lease, now : Time,
          todo : SUBSET Finding, sent : SUBSET Finding]
Entry == [action : {"acknowledge", "update", "resolve", "escalate"}, entity : Finding]
         \cup [action : {"create"}, entity : {None}]

TypeOK ==
    /\ clock \in Time
    /\ lease \subseteq Lease
    /\ row \in [Finding -> Row \cup {NewRow}]
    /\ doc \in [Lease -> SUBSET Photo]
    /\ file \subseteq Photo
    /\ outbox \in [Finding -> Seq(Address)]
    /\ trail \subseteq Entry
    /\ edit \in [Editor -> Edit \cup {NoEdit}]
    /\ scan \in [Scanner -> Scan \cup {NoScan}]
    /\ sweep \in [Sweeper -> Sweep \cup {NoSweep}]

Init ==
    /\ clock = 0
    /\ lease = Lease
    /\ row = [f \in Finding |-> NewRow]
    /\ doc = [l \in Lease |-> {}]
    /\ file = {}
    /\ outbox = [f \in Finding |-> <<>>]
    /\ trail = {}
    /\ edit = [e \in Editor |-> NoEdit]
    /\ scan = [a \in Scanner |-> NoScan]
    /\ sweep = [s \in Sweeper |-> NoSweep]

Exists(f) == row[f].status \notin {"unborn", "deleted"}

(***************************************************************************)
(* POST .../findings/analyze.  The photo is stored, its document row is    *)
(* flushed, the vision model is called, and findings, alerts and the audit *)
(* entry follow in the same transaction.                                   *)
(***************************************************************************)

\* The lease is read, which begins the transaction, and the file is stored.
AnalyzeSave(a, l, p, auto) ==
    /\ scan[a].phase = "idle"
    /\ l \in lease
    /\ p \notin file
    /\ file' = file \cup {p}
    /\ scan' = [scan EXCEPT ![a] = [phase |-> "saved", lease |-> l, photo |-> p,
                                    autoAlert |-> auto, began |-> clock]]
    /\ UNCHANGED <<clock, db, outbox, edit, sweep>>

\* The INSERT of the document holds a key-share lock on the lease row from
\* here on; when the lease is gone it fails and the request ends.
AnalyzeFlush(a) ==
    /\ scan[a].phase = "saved"
    /\ scan' = [scan EXCEPT ![a] = IF scan[a].lease \in lease
                                   THEN [@ EXCEPT !.phase = "flushed"]
                                   ELSE NoScan]
    /\ UNCHANGED <<clock, db, file, outbox, edit, sweep>>

\* The vision model fails: rollback and a 502.
AnalyzeVisionFails(a) ==
    /\ scan[a].phase = "flushed"
    /\ scan' = [scan EXCEPT ![a] = NoScan]
    /\ UNCHANGED <<clock, db, file, outbox, edit, sweep>>

Ladder == {"critical", "high"}

\* send_finding_alert formats detected_at, which the database fills in, of a
\* finding that has not been flushed: it raises, outside its own try.
AlertRaises(a, severities) ==
    /\ scan[a].autoAlert
    /\ HolderEmail[scan[a].lease] # None
    /\ severities \cap Ladder # {}
    /\ ResendConfigured

\* An InspectionFinding as the handler builds it; detected_at is the
\* database's now(), the time the transaction began.
Detected(a, severity) ==
    [lease |-> scan[a].lease, photo |-> scan[a].photo, severity |-> severity,
     status |-> "open", detected |-> scan[a].began, alerted |-> FALSE, acked |-> FALSE,
     level |-> 0, lastEscalated |-> None, resolvedBy |-> None]

\* Mutant: the document row is added only to the response.
AnalyzeRecordUnfiled(a, found) ==
    /\ scan[a].phase = "flushed"
    /\ \A f \in DOMAIN found : row[f].status = "unborn"
    /\ ~AlertRaises(a, {found[f] : f \in DOMAIN found})
    /\ scan' = [scan EXCEPT ![a] = NoScan]
    /\ row' = [f \in Finding |->
                  IF f \in DOMAIN found
                  THEN Detected(a, found[f])
                  ELSE row[f]]
    /\ UNCHANGED <<clock, lease, doc, trail, file, outbox, edit, sweep>>

AnalyzeRecord(a, found) ==
    LET p == scan[a].photo
        l == scan[a].lease
        severities == {found[f] : f \in DOMAIN found}
    IN  /\ scan[a].phase = "flushed"
        /\ \A f \in DOMAIN found : row[f].status = "unborn"
        /\ scan' = [scan EXCEPT ![a] = NoScan]
        /\ IF AlertRaises(a, severities)
           THEN UNCHANGED db
           ELSE /\ row' = [f \in Finding |->
                              IF f \in DOMAIN found
                              THEN Detected(a, found[f])
                              ELSE row[f]]
                /\ doc' = [doc EXCEPT ![l] = @ \cup {p}]
                \* created[0].id is read before the flush that assigns it
                /\ trail' = IF DOMAIN found = {} THEN trail
                            ELSE trail \cup {[action |-> "create", entity |-> None]}
                /\ UNCHANGED lease
        /\ UNCHANGED <<clock, file, outbox, edit, sweep>>

(***************************************************************************)
(* acknowledge_finding, update_finding, resolve_finding.                   *)
(***************************************************************************)

AcknowledgeRead(e, f) ==
    /\ edit[e].op = "idle"
    /\ Exists(f)
    /\ ~row[f].acked
    /\ edit' = [edit EXCEPT ![e] = [op |-> "acknowledge", finding |-> f,
                                    severity |-> Keep, falsePositive |-> FALSE]]
    /\ UNCHANGED <<clock, db, file, outbox, scan, sweep>>

\* An attribute set to the value it was loaded with is not written.
UpdateRead(e, f, severity, falsePositive) ==
    /\ edit[e].op = "idle"
    /\ Exists(f)
    /\ edit' = [edit EXCEPT ![e] =
                  [op |-> "update", finding |-> f,
                   severity |-> IF severity = row[f].severity THEN Keep ELSE severity,
                   falsePositive |-> falsePositive /\ row[f].status # "false_positive"]]
    /\ UNCHANGED <<clock, db, file, outbox, scan, sweep>>

ResolveRead(e, f) ==
    /\ edit[e].op = "idle"
    /\ Exists(f)
    /\ row[f].status \notin Closed
    /\ edit' = [edit EXCEPT ![e] = [op |-> "resolve", finding |-> f,
                                    severity |-> Keep, falsePositive |-> FALSE]]
    /\ UNCHANGED <<clock, db, file, outbox, scan, sweep>>

\* Mutant: acknowledging puts the finding in progress.
EditedInProgress(e, r) ==
    CASE edit[e].op = "acknowledge" -> [r EXCEPT !.acked = TRUE, !.status = "in_progress"]
      [] edit[e].op = "resolve" -> [r EXCEPT !.status = "resolved", !.resolvedBy = e]
      [] edit[e].op = "update" -> [r EXCEPT !.severity = IF edit[e].severity = Keep THEN @
                                                         ELSE edit[e].severity]

\* The row a pending edit leaves behind when it commits.
Edited(e, r) ==
    CASE edit[e].op = "acknowledge" -> [r EXCEPT !.acked = TRUE]
      [] edit[e].op = "resolve" -> [r EXCEPT !.status = "resolved", !.resolvedBy = e]
      [] edit[e].op = "update" ->
            [r EXCEPT !.severity = IF edit[e].severity = Keep THEN @ ELSE edit[e].severity,
                      !.status = IF edit[e].falsePositive THEN "false_positive" ELSE @]

\* Mutant: the mutation is committed before its audit entry is added.
EditCommitUnaudited(e) ==
    LET f == edit[e].finding
    IN  /\ edit[e].op # "idle"
        /\ edit' = [edit EXCEPT ![e] = NoEdit]
        /\ row' = IF Exists(f) THEN [row EXCEPT ![f] = Edited(e, @)] ELSE row
        /\ UNCHANGED <<clock, lease, doc, trail, file, outbox, scan, sweep>>

EditCommit(e) ==
    LET f == edit[e].finding
    IN  /\ edit[e].op # "idle"
        /\ edit' = [edit EXCEPT ![e] = NoEdit]
        /\ IF Exists(f)
           THEN /\ row' = [row EXCEPT ![f] = Edited(e, @)]
                /\ trail' = trail \cup {[action |-> edit[e].op, entity |-> f]}
           ELSE UNCHANGED <<row, trail>>    \* no row to update: 500, rolled back
        /\ UNCHANGED <<clock, lease, doc, file, outbox, scan, sweep>>

(***************************************************************************)
(* run_escalation_sweep, reached through POST .../escalation-sweep of one  *)
(* lease; it works on the findings of every lease.                         *)
(***************************************************************************)

\* Mutant: the query does not ask for acknowledged_at IS NULL.
CandidateAcked(f, now) ==
    /\ row[f].status \in Open
    /\ row[f].severity \in Ladder
    /\ row[f].detected + EscalationAfter <= now
    /\ row[f].level = 0

\* Mutant: no level guard.
CandidateAnyLevel(f, now) ==
    /\ row[f].status \in Open
    /\ row[f].severity \in Ladder
    /\ ~row[f].acked
    /\ row[f].detected + EscalationAfter <= now

Candidate(f, now) ==
    /\ row[f].status \in Open
    /\ row[f].severity \in Ladder
    /\ ~row[f].acked
    /\ row[f].detected + EscalationAfter <= now
    /\ row[f].level = 0

\* Mutant: only findings somebody was alerted about are escalated.
SweepReadAlerted(s, l) ==
    /\ ~sweep[s].active
    /\ l \in lease
    /\ sweep' = [sweep EXCEPT ![s] =
                   [active |-> TRUE, lease |-> l, now |-> clock, sent |-> {},
                    todo |-> {f \in Finding : Candidate(f, clock) /\ row[f].alerted}]]
    /\ UNCHANGED <<clock, db, file, outbox, edit, scan>>

SweepRead(s, l) ==
    /\ ~sweep[s].active
    /\ l \in lease
    /\ sweep' = [sweep EXCEPT ![s] =
                   [active |-> TRUE, lease |-> l, now |-> clock, sent |-> {},
                    todo |-> {f \in Finding : Candidate(f, clock)}]]
    /\ UNCHANGED <<clock, db, file, outbox, edit, scan>>

\* ORDER BY detected_at
IsNext(s, f) ==
    /\ f \in sweep[s].todo
    /\ \A g \in sweep[s].todo : row[f].detected <= row[g].detected

\* inspector_email is the holder of the lease the sweep was started from; the
\* fallback is the holder of the finding's own lease.
Target(s, f) ==
    IF HolderEmail[sweep[s].lease] # None
    THEN HolderEmail[sweep[s].lease]
    ELSE HolderEmail[row[f].lease]

\* session.get finds the sweep's own lease in the session and queries others.
LeaseFound(s, f) == row[f].lease \in lease \cup {sweep[s].lease}

SweepSkip(s, f) ==
    /\ IsNext(s, f)
    /\ ~LeaseFound(s, f) \/ Target(s, f) = None
    /\ sweep' = [sweep EXCEPT ![s].todo = @ \ {f}]
    /\ UNCHANGED <<clock, db, file, outbox, edit, scan>>

\* Resend takes the email; `answered` is whether its answer arrives in time.
SweepSend(s, f, answered) ==
    /\ IsNext(s, f)
    /\ LeaseFound(s, f) /\ Target(s, f) # None
    /\ ResendConfigured
    /\ Len(outbox[f]) < MaxMail
    /\ answered \/ "lost_reply" \in Faults
    /\ outbox' = [outbox EXCEPT ![f] = Append(@, Target(s, f))]
    /\ sweep' = [sweep EXCEPT ![s].todo = @ \ {f},
                              ![s].sent = IF answered THEN @ \cup {f} ELSE @]
    /\ UNCHANGED <<clock, db, file, edit, scan>>

\* Mutant: the result of send_finding_alert is not looked at.
SweepSendFailsUnnoticed(s, f) ==
    /\ IsNext(s, f)
    /\ LeaseFound(s, f) /\ Target(s, f) # None
    /\ sweep' = [sweep EXCEPT ![s].todo = @ \ {f}, ![s].sent = @ \cup {f}]
    /\ UNCHANGED <<clock, db, file, outbox, edit, scan>>

\* Resend is not configured, or refuses.
SweepSendFails(s, f) ==
    /\ IsNext(s, f)
    /\ LeaseFound(s, f) /\ Target(s, f) # None
    /\ sweep' = [sweep EXCEPT ![s].todo = @ \ {f}]
    /\ UNCHANGED <<clock, db, file, outbox, edit, scan>>

\* Mutant: each escalation adds one to the level.
SweepCommitCounts(s) ==
    /\ sweep[s].active
    /\ sweep[s].todo = {}
    /\ sweep' = [sweep EXCEPT ![s] = NoSweep]
    /\ \A f \in sweep[s].sent : Exists(f)
    /\ row' = [f \in Finding |-> IF f \in sweep[s].sent
                                 THEN [row[f] EXCEPT !.level = @ + 1] ELSE row[f]]
    /\ UNCHANGED <<clock, lease, doc, trail, file, outbox, edit, scan>>

\* The sweep's only commit.  When one of its rows is gone the UPDATE matches
\* nothing, the flush raises and the whole sweep is rolled back.
SweepCommit(s) ==
    /\ sweep[s].active
    /\ sweep[s].todo = {}
    /\ sweep' = [sweep EXCEPT ![s] = NoSweep]
    /\ IF \A f \in sweep[s].sent : Exists(f)
       THEN /\ row' = [f \in Finding |->
                         IF f \in sweep[s].sent
                         THEN [row[f] EXCEPT !.level = 1, !.alerted = TRUE,
                                             !.lastEscalated = sweep[s].now]
                         ELSE row[f]]
            /\ trail' = trail \cup [action : {"escalate"}, entity : sweep[s].sent]
       ELSE UNCHANGED <<row, trail>>
    /\ UNCHANGED <<clock, lease, doc, file, outbox, edit, scan>>

(***************************************************************************)
(* The environment.                                                        *)
(***************************************************************************)

\* DELETE /leases/{id}: findings and documents cascade, files stay.  It waits
\* for an analysis that has a document of the lease in its transaction.
DeleteLease(l) ==
    /\ "delete" \in Faults
    /\ l \in lease
    /\ \A a \in Scanner : ~(scan[a].phase = "flushed" /\ scan[a].lease = l)
    /\ lease' = lease \ {l}
    /\ row' = [f \in Finding |->
                 IF Exists(f) /\ row[f].lease = l
                 THEN [row[f] EXCEPT !.status = "deleted", !.alerted = FALSE, !.acked = FALSE,
                                     !.level = 0, !.lastEscalated = None,
                                     !.resolvedBy = None]
                 ELSE row[f]]
    /\ doc' = [doc EXCEPT ![l] = {}]
    /\ UNCHANGED <<clock, file, outbox, trail, edit, scan, sweep>>

\* The server process stops: open transactions are rolled back.
Crash ==
    /\ "crash" \in Faults
    /\ \/ \E e \in Editor : edit[e].op # "idle"
       \/ \E a \in Scanner : scan[a].phase # "idle"
       \/ \E s \in Sweeper : sweep[s].active
    /\ edit' = [e \in Editor |-> NoEdit]
    /\ scan' = [a \in Scanner |-> NoScan]
    /\ sweep' = [s \in Sweeper |-> NoSweep]
    /\ UNCHANGED <<clock, db, file, outbox>>

Tick ==
    /\ clock < MaxTime
    /\ clock' = clock + 1
    /\ UNCHANGED <<db, file, outbox, edit, scan, sweep>>

Analyze(a) ==
    \/ \E l \in Lease, p \in Photo, auto \in BOOLEAN : AnalyzeSave(a, l, p, auto)
    \/ AnalyzeFlush(a)
    \/ AnalyzeVisionFails(a)
    \/ \E S \in SUBSET Finding : \E found \in [S -> Reported] : AnalyzeRecord(a, found)

EditStep(e) ==
    \/ \E f \in Finding : \/ AcknowledgeRead(e, f)
                          \/ ResolveRead(e, f)
                          \/ \E severity \in Reported \cup {Keep}, fp \in BOOLEAN :
                                UpdateRead(e, f, severity, fp)
    \/ EditCommit(e)

SweepProgress(s) ==
    \/ \E f \in Finding : \/ SweepSkip(s, f)
                          \/ \E answered \in BOOLEAN : SweepSend(s, f, answered)
                          \/ SweepSendFails(s, f)
    \/ SweepCommit(s)

Next ==
    \/ \E a \in Scanner : Analyze(a)
    \/ \E e \in Editor : EditStep(e)
    \/ \E s \in Sweeper : (\E l \in Lease : SweepRead(s, l)) \/ SweepProgress(s)
    \/ \E l \in Lease : DeleteLease(l)
    \/ Crash
    \/ Tick

Spec == Init /\ [][Next]_vars

\* Threadpool requests and an analysis that has the event loop run to their
\* end.  Nobody is obliged to start anything: no sweep is on the schedule of
\* celery_app.py, so SweepRead carries no fairness.
FairSpec ==
    /\ Spec
    /\ WF_vars(Tick)
    /\ \A e \in Editor : WF_vars(EditCommit(e))
    /\ \A s \in Sweeper : WF_vars(SweepProgress(s))

-----------------------------------------------------------------------------
(***************************************************************************)
(* Properties that hold.                                                   *)
(***************************************************************************)

\* A finding is escalated only when EscalationAfter had passed since its
\* detection at the time the sweep began, whatever the sweep raced with
\* (services/findings.py:35).
EscalationWasDue ==
    \A f \in Finding : Exists(f) /\ row[f].level = 1 =>
        /\ row[f].lastEscalated # None
        /\ row[f].detected + EscalationAfter <= row[f].lastEscalated

\* "the level guard advances only when an email is actually sent"
\* (services/findings.py:117): a level above 0, and an escalation in the audit
\* trail, each have an email behind them, through failed sends, crashes and
\* concurrent sweeps.
EscalationIsBacked ==
    \A f \in Finding :
        \/ outbox[f] # <<>>
        \/ row[f].level = 0 /\ [action |-> "escalate", entity |-> f] \notin trail

\* resolved_by is set exactly on the findings that went through resolve, and
\* none of them is open again (api/v1/findings.py:400-405), although the two
\* ways to close a finding race.
ResolutionConsistent ==
    \A f \in Finding : Exists(f) =>
        /\ row[f].status = "resolved" => row[f].resolvedBy # None
        /\ row[f].resolvedBy # None => row[f].status \in Closed

\* The mutation and its audit entry are one transaction (services/audit.py:96):
\* neither is ever there without the other.
TrailAgrees ==
    \A f \in Finding : Exists(f) =>
        /\ row[f].acked <=> [action |-> "acknowledge", entity |-> f] \in trail
        /\ row[f].resolvedBy # None <=> [action |-> "resolve", entity |-> f] \in trail
        /\ row[f].level = 1 <=> [action |-> "escalate", entity |-> f] \in trail
        /\ row[f].status = "false_positive" => [action |-> "update", entity |-> f] \in trail

\* A finding of the vision model has its photo on record for its lease, and
\* a document row never points at nothing (core/storage.py:44).
RecordsHaveEvidence ==
    /\ \A f \in Finding : Exists(f) => row[f].photo \in doc[row[f].lease]
    /\ \A l \in Lease : doc[l] \subseteq file

\* A closed finding is never open again, even when an edit that read it open
\* commits after it was closed (no endpoint reopens a finding).
ClosedStaysClosed ==
    [][\A f \in Finding : row[f].status \in Closed =>
          row'[f].status \in Closed \cup {"deleted"}]_vars

\* Acknowledged or closed, not yet mailed about, and in no sweep under way.
Quiet(f) ==
    /\ Exists(f)
    /\ row[f].acked \/ row[f].status \in Closed
    /\ outbox[f] = <<>>
    /\ \A s \in Sweeper : f \notin sweep[s].todo

\* "Acknowledge a finding (stops the escalation clock)"
\* (api/v1/findings.py:304): once acknowledged or closed with no sweep holding
\* it, nobody is ever mailed about a finding, however it is edited later.
AckStopsTheClock ==
    [][\A f \in Finding : Quiet(f) /\ Exists(f)' => Quiet(f)']_vars

\* "A critical finding unacknowledged for 3 days gets escalated exactly once"
\* (tests/test_findings.py:244).  True of one sweep at a time without crashes,
\* deleted leases or lost replies; refuted as soon as two sweeps overlap.
EscalatedOnce == \A f \in Finding : Len(outbox[f]) <= 1

\* If sweeps keep being run, and Resend from some time on refuses nothing, an
\* overdue severe finding of a lease whose holder has an address does not stay an
\* unescalated candidate for ever (services/findings.py:115).
EscalatedIfSwept ==
    /\ []<><<\E s \in Sweeper, l \in Lease : SweepRead(s, l)>>_vars
    /\ <>[][~ \E s \in Sweeper, f \in Finding : SweepSendFails(s, f)]_vars
    => \A f \in Finding : Candidate(f, clock) /\ HolderEmail[row[f].lease] # None
                            ~> ~Candidate(f, clock)

-----------------------------------------------------------------------------
\* A row as the life of a finding has it.
Stage(status) ==
    CASE status \in Open -> "open" [] status \in Closed -> "closed" [] OTHER -> status

LifeOf(r) ==
    [stage |-> Stage(r.status), severe |-> r.severity \in Ladder, detected |-> r.detected,
     acked |-> r.acked, escalated |-> r.level = 1]

Lives == [f \in Finding |-> LifeOf(row[f])]
Chosen == UNION {sweep[s].todo : s \in Sweeper}
Mails == [f \in Finding |-> Len(outbox[f])]

Life == INSTANCE FindingLife
            WITH now <- clock, finding <- Lives, chosen <- Chosen, mails <- Mails

\* Whatever requests, sweeps, crashes and deletions overlap, every finding has the
\* one life cycle: it closes and is acknowledged for good although an edit may commit
\* on top of another that it has not seen (api/v1/findings.py:400), a mail is only
\* about one that was due when its sweep began, and an escalation has a mail.
KeepsTheLife == Life!Spec

=============================================================================
