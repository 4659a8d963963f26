---------------------------- MODULE MCBBRLimiter ----------------------------
(* Three concurrent requests, four in all, and rings of two buckets of a   *)
(* second; a response takes 1, 1000 or 2000 ms.                            *)
EXTENDS BBRLimiter, TLC

CONSTANTS r1, r2, r3

MCRequests == {r1, r2, r3}
RequestSymmetry == Permutations(MCRequests)
MCValues   == {1}
=============================================================================
