---------------------------- MODULE MCRateLimiter -----------------------------
(***************************************************************************)
(* Small instances of RateLimiter for TLC.                                 *)
(***************************************************************************)
EXTENDS RateLimiter, TLC

Symmetry == Permutations(Request)
===============================================================================
