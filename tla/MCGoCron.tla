------------------------------ MODULE MCGoCron ------------------------------
(* One caller, one run-once task and two of its firings at a time. *)
EXTENDS GoCron

CONSTANT u1

OneUser == {u1}
=============================================================================
