---------------------------- MODULE MCTokenCache -----------------------------
(* A small instance of TokenCache for TLC. *)
EXTENDS TokenCache, TLC

CONSTANTS p1, p2

\* Both runs read the configuration and the cache alike.
Swap == Permutations({p1, p2})
=============================================================================
