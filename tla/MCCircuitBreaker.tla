-------------------------- MODULE MCCircuitBreaker --------------------------
(* Two concurrent requests on one breaker with a ring of two buckets; the  *)
(* clock runs on until the first bucket is used again.                     *)
EXTENDS CircuitBreaker, TLC

CONSTANTS c1, c2

MCCallers  == {c1, c2}
CallerSymmetry == Permutations(MCCallers)
MCValues   == {0, 1}
Grpc       == {"grpc"}
Both       == {"gin", "grpc"}
AllReturns == {"ok", "other", "hit", "panic"}
=============================================================================
