------------------------------ MODULE MCUploads ------------------------------
(***************************************************************************)
(* An instance of Uploads, and with it of Register, for TLC.  Three leases *)
(* are the fewest with which a page begins after one and ends before one,  *)
(* two of them without the same end of term.                               *)
(***************************************************************************)
EXTENDS Uploads, TLC

CONSTANTS l1, l2, l3, h1, h2, p1, p2, d1, c1, c2

\* Any two leases may be sent the same number.
Rows ==
    {[number |-> 1, holder |-> h1, place |-> p1, until |-> 5, drawn |-> TRUE],
     [number |-> 2, holder |-> h2, place |-> p1, until |-> 5, drawn |-> TRUE],
     [number |-> 3, holder |-> h1, place |-> p2, until |-> Null, drawn |-> FALSE]}

\* To the other holder, another end of term and surveyed; to no holder.
Edits == {[holder |-> h2, until |-> 3, drawn |-> TRUE], [holder |-> Null, place |-> p1]}

Asks(places, bands, sort, descending, offset) ==
    [places |-> places, bands |-> bands, sort |-> sort, descending |-> descending,
     offset |-> offset, limit |-> 1]

Queries ==
    {Asks({}, {"low", "medium"}, "number", TRUE, 1), Asks({p1}, {}, "score", TRUE, 0),
     Asks({}, {}, "score", FALSE, 1), Asks({}, {}, "until", TRUE, 1),
     Asks({}, {"critical"}, "until", FALSE, 0)}

Charts == {[places |-> {p1}, bands |-> {"critical"}, limit |-> 2],
           [places |-> {}, bands |-> {}, limit |-> 2]}

PatchesSent == {[status |-> "accepted", notes |-> Null], [status |-> Null, notes |-> "seen"]}

\* Listings meet writes; documents meet the deletion of leases.
Mixes == {{"reads", "writes"}, {"documents"}}

Anywhere == {<<"disk", "bucket">>, <<"bucket", "disk">>}

\* Leases and clients are interchangeable, and no property is temporal.
Alike == Permutations({l1, l2, l3}) \union Permutations({c1, c2})
=============================================================================
