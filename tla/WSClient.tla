------------------------------ MODULE WSClient ------------------------------
(***************************************************************************)
(* The websocket client of pkg/ws: the ping loop, TryReconnect and Close   *)
(* around one field, conn, that no lock guards.                            *)
(*                                                                         *)
(* With WithPing the ping goroutine reconnects; TryReconnect is exported,  *)
(* looks at nothing before it dials, and an application may call it        *)
(* whenever it likes.  Connections are numbered; one works while both ends *)
(* can talk, and is open until the client has closed its end.              *)
(*                                                                         *)
(* `needless' is a history variable.  It counts the calls of TryReconnect  *)
(* that cannot be expected to leave the client with one connection: begun  *)
(* while the connection held worked, or while another call was under way,  *)
(* or after Close began, and those that Close overtook.                    *)
(***************************************************************************)
EXTENDS Naturals, FiniteSets

CONSTANTS Reconnectors,   \* "ping", "user": who calls TryReconnect
          MaxDelay,       \* maxDelay of TryReconnect, in units of the first delay
          MaxCuts,        \* bound: connections that the network or the server ends
          MaxCalls        \* bound: calls of the application, and pings that time out

ASSUME WSAssumption == /\ Reconnectors \subseteq {"ping", "user"}
                       /\ MaxDelay \in Nat \ {0} /\ MaxCuts \in Nat \ {0}
                       /\ MaxCalls \in Nat

VARIABLES held,     \* Client.conn
          open,     \* connections that the client has not closed
          works,    \* connections that work
          conns,    \* connections made so far
          broken,   \* how many the network or the server has ended
          actor,    \* what each reconnector does
          closing,  \* Close: "no", "cancelled", "closed"
          calls,    \* calls of the application, and pings that timed out
          needless

wsVars == <<held, open, works, conns, broken, actor, closing, calls, needless>>

Cancelled   == closing # "no"
Retrying(a) == actor[a].at \in {"backoff", "dial", "store"}
Act(a, d)   == actor' = [actor EXCEPT ![a] = d]
Under       == {a \in Reconnectors : Retrying(a)}   \* the calls under way

-----------------------------------------------------------------------------
(* A slip: the goroutine ends with the ping that failed. *)
PingFailsEnds(a) ==
  /\ a = "ping" /\ actor[a].at = "loop" /\ held \notin works
  /\ Act(a, [at |-> "off"])
  /\ UNCHANGED <<held, open, works, conns, broken, closing, calls, needless>>

(* WriteControl reports that the connection is broken: the loop returns,   *)
(* and its deferred function will call TryReconnect.                       *)
PingFails(a) ==
  /\ a = "ping" /\ actor[a].at = "loop" /\ held \notin works
  /\ Act(a, [at |-> "failed"])
  /\ UNCHANGED <<held, open, works, conns, broken, closing, calls, needless>>

(* WriteControl waited its five seconds behind another writer: an error on *)
(* a connection that works.                                                *)
PingLate(a) ==
  /\ a = "ping" /\ actor[a].at = "loop"
  /\ calls < MaxCalls /\ calls' = calls + 1
  /\ Act(a, [at |-> "failed"])
  /\ UNCHANGED <<held, open, works, conns, broken, closing, needless>>

(* The application decides to reconnect, say because a read failed. *)
UserDecides(a) ==
  /\ a = "user" /\ actor[a].at = "loop"
  /\ calls < MaxCalls /\ calls' = calls + 1
  /\ Act(a, [at |-> "failed"])
  /\ UNCHANGED <<held, open, works, conns, broken, closing, needless>>

(* TryReconnect begins, whatever has become of the connection by now. *)
TryReconnect(a) ==
  /\ actor[a].at = "failed"
  /\ Act(a, [at |-> "backoff", delay |-> 1])
  /\ needless' = IF held \in works \/ Cancelled \/ Under # {} THEN needless + 1 ELSE needless
  /\ UNCHANGED <<held, open, works, conns, broken, closing, calls>>

(* The loop sees ctx.Done. *)
PingExits(a) ==
  /\ actor[a].at = "loop" /\ Cancelled
  /\ Act(a, [at |-> "off"])
  /\ UNCHANGED <<held, open, works, conns, broken, closing, calls, needless>>

(* The select of TryReconnect: the timer, or ctx.Done (either, if both). *)
Backoff(a) ==
  /\ actor[a].at = "backoff"
  /\ \/ Act(a, [actor[a] EXCEPT !.at = "dial"])
     \/ Cancelled /\ Act(a, [at |-> "off"])
  /\ UNCHANGED <<held, open, works, conns, broken, closing, calls, needless>>

(* connect fails: the delay doubles up to its maximum. *)
DialFails(a) ==
  /\ actor[a].at = "dial"
  /\ Act(a, [at |-> "backoff", delay |-> IF actor[a].delay >= MaxDelay THEN MaxDelay
                                         ELSE 2 * actor[a].delay])
  /\ UNCHANGED <<held, open, works, conns, broken, closing, calls, needless>>

(* connect: Dial has returned a connection. *)
DialDone(a) ==
  /\ actor[a].at = "dial"
  /\ conns' = conns + 1
  /\ open' = open \cup {conns'} /\ works' = works \cup {conns'}
  /\ Act(a, [at |-> "store", new |-> conns'])
  /\ UNCHANGED <<held, broken, closing, calls, needless>>

(* connect: c.conn = conn.  The connection it replaces is not closed. *)
StoreConn(a) ==
  /\ actor[a].at = "store"
  /\ held' = actor[a].new
  /\ Act(a, [at |-> "loop"])
  /\ UNCHANGED <<open, works, conns, broken, closing, calls, needless>>

(* The network or the server ends a connection. *)
Breaks(c) ==
  /\ c \in works /\ works' = works \ {c}
  /\ broken < MaxCuts /\ broken' = broken + 1
  /\ UNCHANGED <<held, open, conns, actor, closing, calls, needless>>

(* Close: cancel, then close what conn holds. *)
CloseCancel ==
  /\ closing = "no" /\ closing' = "cancelled"
  /\ needless' = needless + Cardinality(Under)
  /\ UNCHANGED <<held, open, works, conns, broken, actor, calls>>

(* A slip: Close only cancels. *)
CloseNothing ==
  /\ closing = "cancelled" /\ closing' = "closed"
  /\ UNCHANGED <<held, open, works, conns, broken, actor, calls, needless>>

CloseConn ==
  /\ closing = "cancelled" /\ closing' = "closed"
  /\ open' = open \ {held} /\ works' = works \ {held}
  /\ UNCHANGED <<held, conns, broken, actor, calls, needless>>

-----------------------------------------------------------------------------
(* NewClient has connected, and the loops run. *)
WSInit ==
  /\ held = 1 /\ open = {1} /\ works = {1} /\ conns = 1 /\ broken = 0
  /\ actor = [a \in Reconnectors |-> [at |-> "loop"]]
  /\ closing = "no" /\ calls = 0 /\ needless = 0

Reconnect(a) == \/ PingFails(a) \/ TryReconnect(a) \/ PingExits(a) \/ Backoff(a)
                \/ DialFails(a) \/ DialDone(a) \/ StoreConn(a)

WSNext ==
  \/ \E a \in Reconnectors : Reconnect(a) \/ PingLate(a) \/ UserDecides(a)
  \/ \E c \in works : Breaks(c)
  \/ CloseCancel \/ CloseConn

(* Goroutines run on and timers fire (nothing makes the application call   *)
(* TryReconnect, or a ping time out); a server that can be reached again   *)
(* and again is reached (strong fairness of DialDone), and select, which   *)
(* chooses at random, does not choose the timer for ever.                  *)
WSSpec ==
  /\ WSInit /\ [][WSNext]_wsVars
  /\ \A a \in Reconnectors :
       /\ WF_wsVars(Reconnect(a))
       /\ SF_wsVars(DialDone(a))
       /\ SF_wsVars(Backoff(a) /\ actor'[a].at = "off")
  /\ WF_wsVars(CloseConn)

-----------------------------------------------------------------------------
(* The connections that a client may have when nobody reconnects. *)
Holds == IF closing = "closed" THEN {} ELSE {held}

(* A connection that works and that the client no longer knows is the      *)
(* price of a needless call of TryReconnect, and each such call costs at   *)
(* most one (connect replaces conn without closing it, Close closes what   *)
(* conn holds).  So a client whose calls are all needed, one after the     *)
(* other, has the one that it holds and no other, and none after Close.    *)
StraysBounded == Under = {} => Cardinality((open \cap works) \ Holds) <= needless

(* A client that nobody closes gets a working connection back ("support    *)
(* automatic client reconnection").                                        *)
Reconnects == "ping" \in Reconnectors /\ held \notin works ~> held \in works \/ Cancelled

=============================================================================
