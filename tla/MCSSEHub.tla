------------------------------ MODULE MCSSEHub ------------------------------
(* One user with two connections, in a row or at once, and channels of     *)
(* capacity one or two, so that every full and closed channel occurs.      *)
EXTENDS SSEHub

CONSTANTS u1, c1, c2, w1

OneUser   == {u1}
TwoConns  == {c1, c2}
TwoUidOf  == [c \in {c1, c2} |-> u1]
MCWorkers == {w1}
=============================================================================
