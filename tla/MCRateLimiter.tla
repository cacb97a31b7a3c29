----------------------------- MODULE MCRateLimiter -----------------------------
(* Model values for the instances of RateLimiter.                              *)
EXTENDS RateLimiter, TLC

CONSTANTS a, b, k1, k2

TwoClients == {a, b}
TwoConns   == {k1, k2}
Symmetry   == Permutations(TwoClients) \cup Permutations(TwoConns)
================================================================================
