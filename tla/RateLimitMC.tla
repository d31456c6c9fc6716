---------------------------- MODULE RateLimitMC ----------------------------
(* RateLimit for TLC: interchangeable requests.                             *)
EXTENDS RateLimit, TLC

Symmetry == Permutations(Requests)
=============================================================================
