----------------------------- MODULE MCRateLimiter -----------------------------
(***************************************************************************)
(* An instance of RateLimiter for TLC: more requests than slots.           *)
(***************************************************************************)
EXTENDS RateLimiter

CONSTANTS r1, r2, r3, r4

MCRequests == {r1, r2, r3, r4}
===============================================================================
