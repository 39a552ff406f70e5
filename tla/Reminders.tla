------------------------------ MODULE Reminders ------------------------------
(***************************************************************************)
(* A run that reminds the holders of leases of what is overdue and what is *)
(* due soon: the daily job, or a call of POST /calendar/reminders/send.    *)
(* (services/api/app/services/reminders.py, services/api/app/jobs/         *)
(* reminders.py, services/api/app/api/v1/calendar.py)                      *)
(*                                                                         *)
(* A run reads the overdue entries, then those due soon, mails them one    *)
(* after the other, and commits a delivery row for each at the very end;   *)
(* the calendar changes all the while.  The task's automatic retries never *)
(* happen: send_reminders keeps every error of the mail provider to        *)
(* itself.  The provider is outside the repository; it accepts a message   *)
(* or not, and its answer may get lost.                                    *)
(***************************************************************************)
EXTENDS Integers, FiniteSets

CONSTANTS
    Entry,       \* identities of calendar entries
    Lease,       \* leases, each as the set of its entries
    Run,         \* runs of the job or the endpoint
    None,        \* not yet
    Due,         \* the due date of each entry
    AsOf,        \* the dates runs are made for
    Days,        \* how far ahead a run looks
    Limit,       \* how many entries of each kind it takes
    Reachable,   \* the entries whose lease's holder has an email address
    Patched,     \* the statuses PATCH /calendar/{id} sets in an instance
    Faults       \* which of "crash", "delete", "unconfigured" may occur

\* "in_progress" is treated like "pending" and the exempt statuses like
\* "submitted" by everything a run does.
Status == {"pending", "overdue", "submitted"}
Kind == {"overdue", "upcoming"}
Outcome == {"skipped", "dry_run", "sent", "failed"}

ASSUME ConstantsOK ==
    /\ IsFiniteSet(Entry)
    /\ Lease \subseteq SUBSET Entry
    /\ Due \in [Entry -> Nat]
    /\ AsOf \subseteq Nat
    /\ Days \in Nat
    /\ Limit \in Nat
    /\ Reachable \subseteq Entry
    /\ Patched \subseteq Status
    /\ None \notin Nat

VARIABLES
    entry,      \* the status of each entry, "none" when it is deleted
    run,        \* the runs
    delivery,   \* reminder_deliveries
    mailed,     \* the messages the provider has accepted
    owed        \* the entries a run owes a reminder: those it would have found at its
                \* start that nobody has touched since

vars == <<entry, run, delivery, mailed, owed>>

\* A message of a run: the entry and the list it was found on.
Message == [run : Run, entry : Entry, kind : Kind]
Delivery == [run : Run, entry : Entry, kind : Kind, status : Outcome]

\* page: the entries found, by kind; left: those not yet mailed; rows: the
\* deliveries added to the session.
RunState == [phase : {"idle", "reading", "sending", "done", "lost"}, dry : BOOLEAN,
             asOf : AsOf \cup {None},
             page : [Kind -> SUBSET Entry], left : [Kind -> SUBSET Entry],
             rows : SUBSET Delivery]
Empty == [k \in Kind |-> {}]

TypeOK ==
    /\ entry \in [Entry -> Status \cup {"none"}]
    /\ run \in [Run -> RunState]
    /\ delivery \subseteq Delivery
    /\ mailed \subseteq Message
    /\ owed \in [Run -> SUBSET Entry]

Init ==
    /\ entry \in [Entry -> Status]
    /\ run = [r \in Run |-> [phase |-> "idle", dry |-> FALSE, asOf |-> None,
                             page |-> Empty, left |-> Empty, rows |-> {}]]
    /\ delivery = {}
    /\ mailed = {}
    /\ owed = [r \in Run |-> {}]

(***************************************************************************)
(* A run.                                                                  *)
(***************************************************************************)

IsOverdue(e, asOf) == entry[e] = "overdue" /\ Due[e] <= asOf

\* Mutant: no lower bound on the due date.
IsUpcomingAll(e, asOf) == entry[e] = "pending" /\ Due[e] <= asOf + Days
IsUpcoming(e, asOf) == entry[e] = "pending" /\ asOf <= Due[e] /\ Due[e] <= asOf + Days

\* Mutant: the order of the rows is not asked for.
PageUnsorted(found) ==
    {S \in SUBSET found : Cardinality(S) = IF Cardinality(found) < Limit
                                           THEN Cardinality(found) ELSE Limit}
\* The first Limit of the rows found, by due date.
Page(found) ==
    {S \in SUBSET found :
        /\ S = found \/ Cardinality(S) = Limit
        /\ Cardinality(S) <= Limit
        /\ \A e \in S, f \in found \ S : Due[e] <= Due[f]}

Start(r, asOf, dry) ==
    /\ run[r].phase = "idle"
    /\ \E S \in Page({e \in Entry : IsOverdue(e, asOf)}) :
          run' = [run EXCEPT ![r].phase = "reading", ![r].dry = dry, ![r].asOf = asOf,
                             ![r].page["overdue"] = S, ![r].left["overdue"] = S]
    /\ owed' = [owed EXCEPT ![r] = {e \in Entry : IsOverdue(e, asOf) \/ IsUpcoming(e, asOf)}]
    /\ UNCHANGED <<entry, delivery, mailed>>

ReadUpcoming(r) ==
    /\ run[r].phase = "reading"
    /\ \E S \in Page({e \in Entry : IsUpcoming(e, run[r].asOf)}) :
          run' = [run EXCEPT ![r].phase = "sending",
                             ![r].page["upcoming"] = S, ![r].left["upcoming"] = S]
    /\ UNCHANGED <<entry, delivery, mailed, owed>>

\* Without the provider's key or a sender there is nothing but an error.
Unconfigured(r) ==
    /\ "unconfigured" \in Faults
    /\ run[r].phase = "sending" /\ ~run[r].dry
    /\ run[r].left = run[r].page
    /\ run' = [run EXCEPT ![r].phase = "lost"]
    /\ UNCHANGED <<entry, delivery, mailed, owed>>

\* The next message in line: what is overdue comes first.
InLine(r, e, k) ==
    /\ run[r].phase = "sending"
    /\ e \in run[r].left[k]
    /\ k = "upcoming" => run[r].left["overdue"] = {}

Recorded(r, e, k, status) ==
    run' = [run EXCEPT ![r].left[k] = @ \ {e},
                       ![r].rows = @ \cup {[run |-> r, entry |-> e, kind |-> k, status |-> status]}]

\* Nobody to mail, or nothing to be mailed.
Pass(r, e, k) ==
    /\ InLine(r, e, k)
    /\ e \notin Reachable \/ run[r].dry
    /\ Recorded(r, e, k, IF e \notin Reachable THEN "skipped" ELSE "dry_run")
    /\ UNCHANGED <<entry, delivery, mailed, owed>>

\* The provider accepts the message and says so, or its answer is lost or cannot
\* be read.
MailAccepted(r, e, k) ==
    /\ InLine(r, e, k)
    /\ e \in Reachable /\ ~run[r].dry
    /\ mailed' = mailed \cup {[run |-> r, entry |-> e, kind |-> k]}
    /\ \E status \in {"sent", "failed"} : Recorded(r, e, k, status)
    /\ UNCHANGED <<entry, delivery, owed>>

\* Mutant: the status of the answer is not looked at.
MailRefusedUnchecked(r, e, k) ==
    /\ InLine(r, e, k)
    /\ e \in Reachable /\ ~run[r].dry
    /\ Recorded(r, e, k, "sent")
    /\ UNCHANGED <<entry, delivery, mailed, owed>>
MailRefused(r, e, k) ==
    /\ InLine(r, e, k)
    /\ e \in Reachable /\ ~run[r].dry
    /\ Recorded(r, e, k, "failed")
    /\ UNCHANGED <<entry, delivery, mailed, owed>>

\* Mutant: the rows so far are committed in the loop.
CommitEach(r) ==
    /\ run[r].phase = "sending"
    /\ delivery' = delivery \cup run[r].rows
    /\ UNCHANGED <<entry, run, mailed, owed>>
\* All rows are inserted, or none when one of their entries is gone.
Commit(r) ==
    /\ run[r].phase = "sending"
    /\ run[r].left = Empty
    /\ IF \A d \in run[r].rows : entry[d.entry] # "none"
       THEN /\ delivery' = delivery \cup run[r].rows
            /\ run' = [run EXCEPT ![r].phase = "done"]
       ELSE /\ run' = [run EXCEPT ![r].phase = "lost"]
            /\ UNCHANGED delivery
    /\ UNCHANGED <<entry, mailed, owed>>

\* The process dies.  The broker has already taken the task as done.
Crash(r) ==
    /\ "crash" \in Faults
    /\ run[r].phase \in {"reading", "sending"}
    /\ run' = [run EXCEPT ![r].phase = "lost"]
    /\ UNCHANGED <<entry, delivery, mailed, owed>>

(***************************************************************************)
(* The calendar meanwhile.                                                 *)
(***************************************************************************)

Touched(S) == owed' = [r \in Run |-> owed[r] \ S]

\* POST /calendar/{id}/submit and PATCH /calendar/{id}.
ChangeStatus(e, status) ==
    /\ entry[e] # "none"
    /\ entry' = [entry EXCEPT ![e] = status]
    /\ Touched({e})
    /\ UNCHANGED <<run, delivery, mailed>>

\* POST /calendar/refresh.
RefreshOverdue(asOf) ==
    LET lapsed == {e \in Entry : entry[e] = "pending" /\ Due[e] < asOf}
    IN /\ entry' = [e \in Entry |-> IF e \in lapsed THEN "overdue" ELSE entry[e]]
       /\ Touched(lapsed)
       /\ UNCHANGED <<run, delivery, mailed>>

\* Mutant: the deliveries stay without their entry.
DeleteSetsNull(lease) ==
    /\ "delete" \in Faults
    /\ \E e \in lease : entry[e] # "none"
    /\ entry' = [e \in Entry |-> IF e \in lease THEN "none" ELSE entry[e]]
    /\ delivery' = {IF d.entry \in lease THEN [d EXCEPT !.entry = None] ELSE d : d \in delivery}
    /\ Touched(lease)
    /\ UNCHANGED <<run, mailed>>
\* DELETE /leases/{id} takes the lease's entries and their deliveries with it.
Delete(lease) ==
    /\ "delete" \in Faults
    /\ \E e \in lease : entry[e] # "none"
    /\ entry' = [e \in Entry |-> IF e \in lease THEN "none" ELSE entry[e]]
    /\ delivery' = {d \in delivery : d.entry \notin lease}
    /\ Touched(lease)
    /\ UNCHANGED <<run, mailed>>

Next ==
    \/ \E r \in Run :
          \/ \E asOf \in AsOf, dry \in BOOLEAN : Start(r, asOf, dry)
          \/ ReadUpcoming(r) \/ Unconfigured(r) \/ Commit(r) \/ Crash(r)
          \/ \E e \in Entry, k \in Kind :
                Pass(r, e, k) \/ MailAccepted(r, e, k) \/ MailRefused(r, e, k)
    \/ \E e \in Entry, status \in Patched : ChangeStatus(e, status)
    \/ \E lease \in Lease : Delete(lease)
    \/ \E asOf \in AsOf : RefreshOverdue(asOf)

Spec == Init /\ [][Next]_vars

(***************************************************************************)
(* Properties.                                                             *)
(***************************************************************************)

\* The history never claims a message that was not accepted
\* (services/reminders.py:116): one that was, may be listed as failed.
SentWasMailed ==
    \A d \in delivery :
        d.status = "sent" => [run |-> d.run, entry |-> d.entry, kind |-> d.kind] \in mailed

\* A run mails an entry at most once, though it reads its two lists apart
\* (services/reminders.py:30); but one due on the very day of the run may be on
\* both, when it is reopened in between.
OncePerRun ==
    \A r \in Run, e \in Entry :
        /\ [run |-> r, entry |-> e, kind |-> "overdue"] \in mailed
        /\ [run |-> r, entry |-> e, kind |-> "upcoming"] \in mailed
        => Due[e] = run[r].asOf

\* A run that ends well has answered for every entry it owed a reminder, unless
\* the limit left it out in favour of entries due no later
\* (services/reminders.py:22).
OwedAnswered ==
    \A r \in Run : run[r].phase = "done" =>
        \A e \in owed[r] :
            \/ \E d \in delivery : d.run = r /\ d.entry = e
            \/ \E k \in Kind : /\ Cardinality(run[r].page[k]) = Limit
                               /\ \A f \in run[r].page[k] : Due[f] <= Due[e]

\* The deliveries of a run appear together or not at all: what the history shows
\* of a run covers all it found, except what has been deleted since
\* (services/reminders.py:133, jobs/reminders.py:32).
HistoryIsWhole ==
    \A r \in Run : (\E d \in delivery : d.run = r) =>
        \A k \in Kind : \A e \in run[r].page[k] :
            entry[e] # "none" => \E d \in delivery : d.run = r /\ d.entry = e /\ d.kind = k

\* The history of reminders as its readers may rely on it: runs publish their
\* deliveries once, at once and truthfully (jobs/reminders.py:32).
Ledger == INSTANCE ReminderLedger
    WITH published <- {r \in Run : run[r].phase = "done"}, history <- delivery
KeepsTheLedger == Ledger!Spec
=============================================================================
