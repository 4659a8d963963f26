---------------------------- MODULE EventService ----------------------------
(***************************************************************************)
(* What the event hub of pkg/sse promises to those who call Push and to    *)
(* those who are connected, without its channels, its loop and its pool.   *)
(* SSEHub is shown to implement it.                                        *)
(*                                                                         *)
(* A message, an event for one user, is accepted once; then it is received *)
(* on one connection of that user, missed because the user is offline, or  *)
(* given up, once and for good.  Of the messages that are accepted         *)
(* promptly a connection receives a later event after an earlier one.      *)
(***************************************************************************)
EXTENDS Naturals, Sequences, Functions

CONSTANTS Uids, Conns,
          UidOf,        \* the user of each connection
          Msg,          \* messages: their users and events, numbered as they are pushed
          CloseEvent    \* the event that Close pushes, whenever it is called

VARIABLES online,       \* users whom a message can reach
          pending,      \* messages accepted and not settled
          prompt,       \* messages that found the hub ready
          received,     \* what each connection has received
          missed,       \* messages whose user was offline
          givenUp,      \* messages that could not be passed on in time
          counts        \* PushStats

serviceVars == <<online, pending, prompt, received, missed, givenUp, counts>>

Accepted == pending \cup missed \cup givenUp \cup UNION {Range(received[c]) : c \in Conns}

(* Two messages whose order is kept. *)
Ordered(m, n) == {m, n} \subseteq prompt /\ CloseEvent \notin {m.event, n.event}

-----------------------------------------------------------------------------
ServiceInit ==
  /\ online = {} /\ pending = {} /\ prompt = {} /\ missed = {} /\ givenUp = {}
  /\ received = [c \in Conns |-> <<>>]
  /\ counts = [total |-> 0, success |-> 0, failed |-> 0]

ComeOnline(u) == /\ online' = online \cup {u}
                 /\ UNCHANGED <<pending, prompt, received, missed, givenUp, counts>>

GoOffline(u) == /\ online' = online \ {u}
                /\ UNCHANGED <<pending, prompt, received, missed, givenUp, counts>>

Accept(m) ==
  /\ m \notin Accepted
  /\ pending' = pending \cup {m}
  /\ prompt' \in {prompt, prompt \cup {m}}
  /\ counts' = [counts EXCEPT !.total = @ + 1]
  /\ UNCHANGED <<online, received, missed, givenUp>>

Receive(c, m) ==
  /\ m \in pending /\ m.uid = UidOf[c]
  /\ \A n \in Range(received[c]) : Ordered(n, m) => n.event < m.event
  /\ pending' = pending \ {m}
  /\ received' = [received EXCEPT ![c] = Append(@, m)]
  /\ counts' = [counts EXCEPT !.success = @ + 1]
  /\ UNCHANGED <<online, prompt, missed, givenUp>>

Miss(m) ==
  /\ m \in pending /\ m.uid \notin online
  /\ pending' = pending \ {m} /\ missed' = missed \cup {m}
  /\ UNCHANGED <<online, prompt, received, givenUp, counts>>

GiveUp(m) ==
  /\ m \in pending
  /\ pending' = pending \ {m} /\ givenUp' = givenUp \cup {m}
  /\ counts' = [counts EXCEPT !.failed = @ + 1]
  /\ UNCHANGED <<online, prompt, received, missed>>

ServiceNext == \/ \E u \in Uids : ComeOnline(u) \/ GoOffline(u)
               \/ \E m \in Msg : Accept(m) \/ Miss(m) \/ GiveUp(m)
               \/ \E m \in Msg, c \in Conns : Receive(c, m)

ServiceSpec == ServiceInit /\ [][ServiceNext]_serviceVars
=============================================================================
