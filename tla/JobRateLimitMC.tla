--------------------------- MODULE JobRateLimitMC ---------------------------
(* Values of the constants of JobRateLimit for TLC. *)
EXTENDS JobRateLimit, TLC

CONSTANTS r1, r2

Symmetric == Permutations(Requests)
=============================================================================
