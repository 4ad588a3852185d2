----------------------------- MODULE MCApiTokens -----------------------------
(***************************************************************************)
(* Small instances of ApiTokens for TLC.                                   *)
(***************************************************************************)
EXTENDS ApiTokens, TLC

Symmetry == Permutations(User) \cup Permutations(Token) \cup Permutations(Request)
===============================================================================
