------------------------------- MODULE MCUsers --------------------------------
(***************************************************************************)
(* Small instances of Users for TLC: one user there is, one there may be.  *)
(***************************************************************************)
EXTENDS Users, TLC

CONSTANTS u1, u2, e1, e2

OneUser == {(u1 :> [email |-> e1, status |-> "active"]) @@ (u2 :> None)}

Asking(kind, u, emails, statuses) ==
    [kind: {kind}, user: {u}, email: emails, status: statuses]

Creates == Asking("create", None, {e1, e2}, {"active", "blocked"})

Edits ==
    Asking("patch", u1, {e1, e2}, {"blocked"})
    \cup Asking("patch", u1, {e2}, {"unknown"})
    \cup Asking("patch", u1, {None}, {None, "empty"})
    \cup Asking("form", u1, {e1, e2}, {"active", "blocked"})

Blocks == Asking("status", u1, {None}, {"blocked"})

(* A user that may not be there yet.                                        *)
Others == Asking("patch", u2, {None}, {None}) \cup Asking("status", u2, {None}, {"blocked"})

AllWishes == Creates \cup Edits \cup Blocks \cup Others

Symmetry == Permutations(Request)
===============================================================================
