---------------------------- MODULE FilingRegister ----------------------------
(***************************************************************************)
(* What the statutory calendar promises those who file: an entry appears   *)
(* open, goes with its lease only and never loses the time of its filing;  *)
(* and nothing becomes of an entry that was not decided while it allowed   *)
(* it.  A refresh marks what was open when it looked, a filing is made for *)
(* what was not exempt, and only a person's decision, or a history that is *)
(* loaded as a whole, may do anything else.  Between the look and the deed *)
(* others may come first.  Seed, with Calendar's actions, implements it    *)
(* (services/api/app/models/obligation.py, services/calendar.py,           *)
(* api/v1/calendar.py, db/seed.py).                                        *)
(***************************************************************************)
CONSTANTS
    Lease,     \* identities of leases
    Entry      \* identities of entries, each of the lease in its field

VARIABLES
    leases,    \* the leases on the register
    filing,    \* what is known of each entry
    claims     \* which entries were looked at for what, by those who have not acted yet

vars == <<leases, filing, claims>>

Stage == {"absent", "open", "late", "filed", "exempt"}
Kind == {"lapse", "file", "decide", "history"}

\* Whether a filing was timed, and whether a reason is recorded.
Record == [stage : Stage, timed : BOOLEAN, explained : BOOLEAN]
Absent == [stage |-> "absent", timed |-> FALSE, explained |-> FALSE]
Opened == [stage |-> "open", timed |-> FALSE, explained |-> FALSE]

Init ==
    /\ leases = Lease
    /\ filing = [s \in Entry |-> Absent]
    /\ claims = {}

\* The stages at which an entry may be claimed.
Allows ==
    [lapse |-> {"open"}, file |-> {"open", "late", "filed"},
     decide |-> Stage \ {"absent"}, history |-> Stage]

Claim(k) ==
    /\ UNCHANGED <<leases, filing>>
    /\ claims \subseteq claims'
    /\ \A c \in claims' \ claims : c[2] = k /\ filing[c[1]].stage \in Allows[k]

\* Those who act, or give up, have no claim any more; others may have the same.
Settled == claims' \subseteq claims
Release == UNCHANGED <<leases, filing>> /\ Settled

\* A generation adds entries, in the place of none.
Enter ==
    /\ UNCHANGED <<leases, claims>>
    /\ \A s \in Entry : \/ filing'[s] = filing[s]
                        \/ /\ filing[s] = Absent /\ s.lease \in leases
                           /\ filing'[s] = Opened

Lapse ==
    /\ UNCHANGED leases
    /\ \A s \in Entry : \/ filing'[s] = filing[s]
                        \/ /\ <<s, "lapse">> \in claims /\ filing[s] # Absent
                           /\ filing'[s] = [filing[s] EXCEPT !.stage = "late"]
    /\ Settled

\* Somebody may have decided on it meanwhile, and it stays so with its time set.
File(s) ==
    /\ <<s, "file">> \in claims /\ filing[s] # Absent
    /\ \E stage \in {"filed", filing[s].stage} :
        filing' = [filing EXCEPT ![s] = [@ EXCEPT !.stage = stage, !.timed = TRUE]]
    /\ Settled
    /\ UNCHANGED leases

\* What a decision or a history may make of an entry.
Follows(old, new) ==
    /\ new \in Record /\ new # Absent
    /\ old.timed => new.timed
    /\ new.stage = "filed" => new.timed

Decide(s) ==
    /\ <<s, "decide">> \in claims /\ filing[s] # Absent
    /\ \E new \in Record : /\ Follows(filing[s], new)
                           /\ filing' = [filing EXCEPT ![s] = new]
    /\ Settled
    /\ UNCHANGED leases

\* A history takes no reason away, and does nothing to what it did not claim.
Load ==
    /\ leases \subseteq leases' /\ leases' \subseteq Lease
    /\ \A s \in Entry :
        \/ filing'[s] = filing[s]
        \/ /\ filing[s] = Absent /\ s.lease \in leases'
           /\ filing'[s] = Opened
        \/ /\ <<s, "history">> \in claims /\ s.lease \in leases'
           /\ Follows(filing[s], filing'[s])
           /\ filing[s].explained => filing'[s].explained
    /\ Settled

Withdraw(l) ==
    /\ l \in leases
    /\ leases' = leases \ {l}
    /\ filing' = [s \in Entry |-> IF s.lease = l THEN Absent ELSE filing[s]]
    /\ Settled

Next ==
    \/ Release \/ Enter \/ Lapse
    \/ \E k \in Kind : Claim(k)
    \/ \E s \in Entry : File(s) \/ Decide(s)
    \/ \E l \in Lease : Withdraw(l)
    \/ Load

Spec == Init /\ [][Next]_vars
=============================================================================
