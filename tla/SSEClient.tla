------------------------------ MODULE SSEClient ------------------------------
(***************************************************************************)
(* The connection loop of the SSE client (pkg/sse/client.go): Connect,     *)
(* Disconnect, connectServer with its retry strategy, and stream.  What    *)
(* the client reads from a stream is left out but for the close event.     *)
(*                                                                         *)
(* Each Connect that is not refused starts a goroutine, a loop.  Durations *)
(* are counted in units.  A blank line or a comment of the stream, such as *)
(* the server's heartbeat, changes nothing here: stream reads on without a *)
(* look at stopCh.                                                         *)
(***************************************************************************)
EXTENDS Integers, FiniteSets

CONSTANTS Loops,          \* goroutines that Connect may start
          Interval,       \* reconnectTimeInterval
          MaxBackoff,     \* retryStrategy.maxBackoff
          MaxRetries,     \* retryStrategy.maxRetries
          Texts,          \* may an error of a dial have noConnectionErrText, or another text?
          UserStops       \* may the application call Disconnect?

ASSUME ClientAssumption == /\ {Interval, MaxRetries} \subseteq Nat \ {0}
                           /\ MaxBackoff \in Nat /\ Interval <= MaxBackoff
                           /\ Texts \subseteq BOOLEAN /\ UserStops \in BOOLEAN

VARIABLES at,          \* where each loop is
          retryCount, backoff,
          connected,   \* SSEClient.connected
          stopped,     \* stopCh is closed
          stops,       \* the application has called Disconnect
          panicked

clientVars == <<at, retryCount, backoff, connected, stopped, stops, panicked>>

Up == ~panicked

Goto(l, place) == at' = [at EXCEPT ![l] = place]

(* retryStrategy.reset *)
Reset(l) == /\ retryCount' = [retryCount EXCEPT ![l] = 0]
            /\ backoff' = [backoff EXCEPT ![l] = Interval]

(* Disconnect, under the lock: closing stopCh again panics. *)
Disconnect == /\ connected' = FALSE
              /\ stopped' = TRUE
              /\ panicked' = stopped

-----------------------------------------------------------------------------
(* Connect starts a loop unless the client is connected. *)
StartLoop(l) ==
  /\ Up /\ at[l] = "off" /\ ~connected
  /\ Goto(l, "start")
  /\ UNCHANGED <<retryCount, backoff, connected, stopped, stops, panicked>>

(* connectServer: setConnectStatus(true) *)
Start(l) ==
  /\ Up /\ at[l] = "start"
  /\ connected' = TRUE
  /\ Goto(l, "dial")
  /\ UNCHANGED <<retryCount, backoff, stopped, stops, panicked>>

(* client.Do fails.  The text of the error decides what follows: by        *)
(* default it is the one of Windows for a refused connection.              *)
DialRefused(l) ==
  /\ Up /\ at[l] = "dial"
  /\ \/ /\ TRUE \in Texts
        /\ connected' = FALSE /\ Goto(l, "retry") /\ UNCHANGED <<retryCount, backoff>>
     \/ /\ FALSE \in Texts
        /\ Reset(l) /\ Goto(l, "select") /\ UNCHANGED connected
  /\ UNCHANGED <<stopped, stops, panicked>>

GiveUp(n) == n >= MaxRetries

Doubled(b) == IF 2 * b > MaxBackoff THEN MaxBackoff ELSE 2 * b

(* retryStrategy.retry, then wait, or Disconnect and return. *)
Retry(l) ==
  LET n == retryCount[l] + 1 IN
  /\ Up /\ at[l] = "retry"
  /\ retryCount' = [retryCount EXCEPT ![l] = n]
  /\ backoff' = [backoff EXCEPT ![l] = IF n > 1 THEN Doubled(@) ELSE @]
  /\ IF GiveUp(n)
     THEN Disconnect /\ Goto(l, "exit")
     ELSE Goto(l, "select") /\ UNCHANGED <<connected, stopped, panicked>>
  /\ UNCHANGED stops

(* The server answers. *)
DialAnswered(l) ==
  /\ Up /\ at[l] = "dial"
  /\ connected' = TRUE
  /\ Reset(l)
  /\ Goto(l, "stream")
  /\ UNCHANGED <<stopped, stops, panicked>>

(* A status other than 200, or the connection breaks: an error whose text   *)
(* is another one.                                                          *)
StreamBroken(l) ==
  /\ Up /\ at[l] = "stream"
  /\ Reset(l)
  /\ Goto(l, "select")
  /\ UNCHANGED <<connected, stopped, stops, panicked>>

(* The server's close event: Disconnect, then an error. *)
CloseReceived(l) ==
  /\ Up /\ at[l] = "stream"
  /\ Disconnect
  /\ Reset(l)
  /\ Goto(l, "select")
  /\ UNCHANGED stops

(* A field of an event arrives after stopCh was closed: only after such a  *)
(* line is stopCh looked at.                                               *)
StreamStopped(l) ==
  /\ Up /\ at[l] = "stream" /\ stopped
  /\ Goto(l, "select")
  /\ UNCHANGED <<retryCount, backoff, connected, stopped, stops, panicked>>

(* A slip: the loop does not look at stopCh before it waits. *)
SelectBlind(l) ==
  /\ Up /\ at[l] = "select"
  /\ Goto(l, "dial")
  /\ UNCHANGED <<retryCount, backoff, connected, stopped, stops, panicked>>

(* The select of connectServer: stopCh is closed already, or wait. *)
Select(l) ==
  /\ Up /\ at[l] = "select"
  /\ Goto(l, IF stopped THEN "exit" ELSE "wait")
  /\ UNCHANGED <<retryCount, backoff, connected, stopped, stops, panicked>>

(* The wait ends: stopCh was closed, or the timer fired (either, if both). *)
Wake(l) ==
  /\ Up /\ at[l] = "wait"
  /\ \/ Goto(l, "dial")
     \/ stopped /\ Goto(l, "exit")
  /\ UNCHANGED <<retryCount, backoff, connected, stopped, stops, panicked>>

(* The application calls Disconnect, once, some time after Connect. *)
UserDisconnect ==
  /\ Up /\ UserStops /\ ~stops /\ \E l \in Loops : at[l] # "off"
  /\ stops' = TRUE
  /\ Disconnect
  /\ UNCHANGED <<at, retryCount, backoff>>

-----------------------------------------------------------------------------
ClientInit == /\ at = [l \in Loops |-> "off"]
              /\ retryCount = [l \in Loops |-> 0]
              /\ backoff = [l \in Loops |-> Interval]
              /\ connected = FALSE /\ stopped = FALSE /\ stops = FALSE
              /\ panicked = FALSE

Loop(l) == \/ Start(l) \/ DialRefused(l) \/ DialAnswered(l) \/ Retry(l)
           \/ StreamBroken(l) \/ CloseReceived(l) \/ StreamStopped(l)
           \/ Select(l) \/ Wake(l)

ClientNext == UserDisconnect \/ \E l \in Loops : StartLoop(l) \/ Loop(l)

ClientSpec == ClientInit /\ [][ClientNext]_clientVars

(* A loop runs on: a dial ends and the timer fires.  No server has to send  *)
(* events or to end a stream.                                               *)
ClientLiveSpec ==
  /\ ClientSpec
  /\ \A l \in Loops :
       /\ WF_clientVars(Start(l) \/ DialRefused(l) \/ DialAnswered(l))
       /\ WF_clientVars(Retry(l)) /\ WF_clientVars(Select(l)) /\ WF_clientVars(Wake(l))

-----------------------------------------------------------------------------
Places == {"off", "start", "dial", "retry", "stream", "select", "wait", "exit"}

(* Type invariant. *)
ClientTypeOK ==
  /\ at \in [Loops -> Places]
  /\ retryCount \in [Loops -> 0 .. MaxRetries]
  /\ backoff \in [Loops -> Interval .. MaxBackoff]
  /\ {connected, stopped, stops, panicked} \subseteq BOOLEAN

(* After Disconnect, or when the client gives up, every loop ends, whatever *)
(* text its errors had, unless it stays in one stream in which no field of  *)
(* an event arrives any more (connectServer; stream does not look at stopCh *)
(* after a blank line or a heartbeat).                                      *)
StopEndsLoops ==
  \A l \in Loops :
    stopped /\ at[l] # "off" ~> at[l] = "exit" \/ panicked \/ [](at[l] = "stream")

=============================================================================
