------------------------------ MODULE MCScoring ------------------------------
(***************************************************************************)
(* Instances of Scoring for TLC.                                           *)
(***************************************************************************)
EXTENDS Scoring, TLC

CONSTANTS l1, l2, c1, c2, e1, e2

OneLease(S) == [s \in S |-> l1]
LicenceOfOne == OneLease(Licence)
EntryOfOne == OneLease(Entry)
=============================================================================
