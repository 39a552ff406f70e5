------------------------------- MODULE MCAccess -------------------------------
(***************************************************************************)
(* Instances of Access for TLC.                                            *)
(***************************************************************************)
EXTENDS Access, MCUserAdmin

CONSTANTS h2, l1, k1, k2, secret

Holders2 == {h1, h2}
Keys2 == {k1, k2}
Leases1 == {l1}

\* One attribute at a time: promote, demote, disable, and every scope.
Patches2 == {SetRole("admin"), SetRole("operator"), SetActive(FALSE)}
            \cup {SetScope(h) : h \in {None, h1, h2}}

Symmetry == Permutations(Users2) \cup Permutations(Holders2) \cup Permutations(Keys2)

\* One request administers users while the register is edited; or nobody does
\* and keys, network and process change.
Crews == {{r1, r2, "register"}, {r2, "keys"}}
=============================================================================
