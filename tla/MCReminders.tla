----------------------------- MODULE MCReminders -----------------------------
(***************************************************************************)
(* An instance of Reminders for TLC: runs share nothing but the rows they  *)
(* add to, so one run against the calendar is enough.                      *)
(***************************************************************************)
EXTENDS Reminders, TLC

CONSTANTS e1, e2, e3, r1

\* Two entries of one lease and one of another, whose holder has no address.
Leases == {{e1, e2}, {e3}}

\* Runs are made for day 1 or 2: late, due on the day, and due soon.
Dues == (e1 :> 0) @@ (e2 :> 1) @@ (e3 :> 2)
=============================================================================
