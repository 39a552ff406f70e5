--------------------------- MODULE ReminderLedger ---------------------------
(***************************************************************************)
(* What the history of reminders promises, whatever runs, providers and    *)
(* crashes do: each run publishes its deliveries once and at once, with    *)
(* one row for each entry and list; a row marked as sent stands for a      *)
(* message that was accepted; and rows disappear only with their entries.  *)
(* Reminders implements it (services/api/app/models/reminder.py).          *)
(***************************************************************************)
CONSTANTS
    Run,        \* runs
    Entry,      \* calendar entries
    Message,    \* what can be mailed: [run, entry, kind]
    Delivery    \* rows of the history: [run, entry, kind, status]

VARIABLES
    mailed,     \* the messages accepted
    published,  \* the runs in the history
    history     \* the rows

vars == <<mailed, published, history>>

Init ==
    /\ mailed = {}
    /\ published = {}
    /\ history = {}

Accept(m) ==
    /\ mailed' = mailed \cup {m}
    /\ UNCHANGED <<published, history>>

\* What the ledger takes as the rows of a run.
Acceptable(r, rows) ==
    /\ \A d \in rows : /\ d.run = r
                       /\ d.status = "sent"
                          => [run |-> d.run, entry |-> d.entry, kind |-> d.kind] \in mailed
    /\ \A c, d \in rows : c.entry = d.entry /\ c.kind = d.kind => c = d

\* Some acceptable rows are added, possibly none.
Publish(r) ==
    /\ r \notin published
    /\ published' = published \cup {r}
    /\ history \subseteq history' /\ history' \subseteq Delivery
    /\ Acceptable(r, history' \ history)
    /\ UNCHANGED mailed

Forget(entries) ==
    /\ history' = {d \in history : d.entry \notin entries}
    /\ UNCHANGED <<mailed, published>>

Next ==
    \/ \E m \in Message : Accept(m)
    \/ \E r \in Run : Publish(r)
    \/ \E entries \in SUBSET Entry : Forget(entries)

Spec == Init /\ [][Next]_vars
=============================================================================
