---------------------------- MODULE MCUserAdmin ----------------------------
(***************************************************************************)
(* Instances of UserAdmin for TLC.                                         *)
(***************************************************************************)
EXTENDS UserAdmin, TLC

CONSTANTS u1, u2, h1, r1, r2

Users2 == {u1, u2}
Holders == {h1}
Requests == {r1, r2}
OneRequest == {r1}

SetRole(role) == [fields |-> {"role"}, role |-> role, holder |-> None, active |-> TRUE]
SetScope(h) == [fields |-> {"holder_id"}, role |-> "operator", holder |-> h, active |-> TRUE]
SetActive(b) == [fields |-> {"is_active"}, role |-> "operator", holder |-> None, active |-> b]

\* One attribute at a time, every role and the one organisation.
AllPatches == {SetRole(role) : role \in Role} \cup {SetScope(None), SetScope(h1)}
              \cup {SetActive(TRUE), SetActive(FALSE)}
\* What changes who administers: promote, demote, disable.
AdminPatches == {SetRole("admin"), SetRole("inspector"), SetActive(FALSE)}

SymmetryUsers2 == Permutations(Users2)
=============================================================================
