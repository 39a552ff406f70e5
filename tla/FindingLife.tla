----------------------------- MODULE FindingLife -----------------------------
(***************************************************************************)
(* The life of a finding as everybody outside the requests sees it.  A     *)
(* finding is detected, triaged and closed, and goes only with its lease;  *)
(* closing and acknowledging it are for good.  A sweep chooses findings    *)
(* that are due at that moment; only a chosen one is mailed about, and     *)
(* only one that was mailed about is escalated.  Findings implements it    *)
(* (services/api/app/models/finding.py, services/findings.py).             *)
(***************************************************************************)
EXTENDS Naturals

CONSTANTS
    Finding,            \* findings
    EscalationAfter     \* how long after its detection a finding is due

VARIABLES
    now,        \* the time
    finding,    \* what is known of each finding
    chosen,     \* the findings chosen by sweeps under way and not yet dealt with
    mails       \* the number of mails about each finding

vars == <<now, finding, chosen, mails>>

\* What is known of a finding.
Record == [stage : {"unborn", "open", "closed", "deleted"}, severe : BOOLEAN,
           detected : Nat, acked : BOOLEAN, escalated : BOOLEAN]

Absent == [stage |-> "unborn", severe |-> FALSE, detected |-> 0, acked |-> FALSE,
           escalated |-> FALSE]

Init ==
    /\ now = 0
    /\ finding = [f \in Finding |-> Absent]
    /\ chosen = {}
    /\ mails = [f \in Finding |-> 0]

Alive(f) == finding[f].stage \in {"open", "closed"}

\* An analysis that began a while ago may have found several.
Detect(S) ==
    /\ \A f \in S : finding[f].stage = "unborn"
    /\ \E g \in [S -> [stage : {"open"}, severe : BOOLEAN, detected : 0 .. now,
                       acked : {FALSE}, escalated : {FALSE}]] :
        finding' = [f \in Finding |-> IF f \in S THEN g[f] ELSE finding[f]]
    /\ UNCHANGED <<now, chosen, mails>>

\* It is acknowledged, graded anew or closed.
Triage(f) ==
    /\ Alive(f)
    /\ \E stage \in {"open", "closed"}, severe, acked \in BOOLEAN :
        /\ finding[f].stage = "closed" => stage = "closed"
        /\ finding[f].acked => acked
        /\ finding' = [finding EXCEPT ![f] = [@ EXCEPT !.stage = stage, !.severe = severe,
                                                      !.acked = acked]]
    /\ UNCHANGED <<now, chosen, mails>>

Remove(S) ==
    /\ \A f \in S : Alive(f)
    /\ finding' = [f \in Finding |->
                     IF f \in S
                     THEN [finding[f] EXCEPT !.stage = "deleted", !.acked = FALSE,
                                             !.escalated = FALSE]
                     ELSE finding[f]]
    /\ UNCHANGED <<now, chosen, mails>>

Due(f) ==
    /\ finding[f].stage = "open" /\ finding[f].severe
    /\ ~finding[f].acked /\ ~finding[f].escalated
    /\ finding[f].detected + EscalationAfter <= now

Choose(S) ==
    /\ \A f \in S : Due(f)
    /\ chosen' = chosen \cup S
    /\ UNCHANGED <<now, finding, mails>>

\* Another sweep may have chosen it too.
Mail(f) ==
    /\ f \in chosen
    /\ mails' = [mails EXCEPT ![f] = @ + 1]
    /\ chosen' \in {chosen, chosen \ {f}}
    /\ UNCHANGED <<now, finding>>

GiveUp(S) ==
    /\ chosen' = chosen \ S
    /\ UNCHANGED <<now, finding, mails>>

Escalate(S) ==
    /\ \A f \in S : Alive(f) /\ mails[f] > 0
    /\ finding' = [f \in Finding |->
                     IF f \in S THEN [finding[f] EXCEPT !.escalated = TRUE]
                     ELSE finding[f]]
    /\ UNCHANGED <<now, chosen, mails>>

Pass ==
    /\ now' = now + 1
    /\ UNCHANGED <<finding, chosen, mails>>

Next ==
    \/ \E S \in SUBSET Finding : \/ Detect(S) \/ Remove(S) \/ Choose(S)
                                 \/ GiveUp(S) \/ Escalate(S)
    \/ \E f \in Finding : Triage(f) \/ Mail(f)
    \/ Pass

Spec == Init /\ [][Next]_vars
=============================================================================
