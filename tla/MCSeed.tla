-------------------------------- MODULE MCSeed --------------------------------
(***************************************************************************)
(* Instances of Seed, and with it of Calendar, for TLC.  The pack has two  *)
(* minerals, one holder, one monthly rule and one lease, which the         *)
(* register has as well.                                                   *)
(***************************************************************************)
EXTENDS Seed, MCCalendar

CONSTANTS r1, r2

Packed == [q \in {q1} |-> Def("monthly", March, TRUE)]
Held1 == [l \in Lease |-> "holder"]
Mined1 == [l \in Lease |-> "mineral"]
AllMonths == [start |-> 0, end |-> LastDay]

\* Two requests; the command next to one of them, without filings when that one
\* may PATCH; the command, again without filings, next to edits of the reference
\* data.
Crews == {{r1, r2}, {r2, "seed"}, {r1, "load"}, {"load", "catalogue"}}
=============================================================================
