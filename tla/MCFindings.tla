---------------------------- MODULE MCFindings ----------------------------
(* Instances of Findings for TLC. *)
EXTENDS Findings, TLC

CONSTANTS l1, a1, a2

\* l1 is held by a1, every other lease by a holder of another address.
Holders == [l \in Lease |-> IF l = l1 THEN a1 ELSE a2]

\* The holder of l1 has no address: the base fixture of the tests.
Unreachable == [l \in Lease |-> IF l = l1 THEN None ELSE a2]

\* Findings, editors and sweepers are interchangeable (safety runs only).
Symmetric ==
    Permutations(Finding) \cup Permutations(Editor) \cup Permutations(Sweeper)
=============================================================================
