------------------------------ MODULE RabbitMQ ------------------------------
(***************************************************************************)
(* pkg/rabbitmq: a Connection whose monitor goroutine redials, and one     *)
(* Consumer whose Consume goroutine opens a channel on it, declares, and   *)
(* handles deliveries until the delivery channel or the program ends.      *)
(*                                                                         *)
(* amqp connections are numbered; a channel belongs to one and dies with   *)
(* it.  A message is in `ready', or delivered and unacknowledged on a      *)
(* channel (`unacked', put back when the channel dies), or gone from the   *)
(* broker.  `inbox' holds what the library has received and Consume has    *)
(* not read: it is dropped with the channel.  Order of messages, exchanges *)
(* and bindings are left out, and so is blockChan, which is only logged.   *)
(***************************************************************************)
EXTENDS Naturals, FiniteSets

CONSTANTS Messages,      \* what may be published to the queue
          Prefetches,    \* values of prefetchCount; 0 is no limit
          MaxChannels,   \* channels one connection may have
          MaxFaults      \* bound: connections and channels lost, calls that fail

ASSUME RabbitAssumption == /\ MaxChannels \in Nat \ {0} /\ MaxFaults \in Nat
                           /\ Prefetches \subseteq Nat

VARIABLES amqp,         \* Connection.conn
          alive,        \* amqp connections that are up
          dialled,      \* amqp connections made so far
          isConnected,  \* Connection.isConnected
          shut,         \* Close: "no", "cleared" (isConnected), "exit" (closed)
          monitor,      \* the monitor goroutine
          faults,       \* history: how often the network or the broker has failed
          manual,       \* ~isAutoAck
          prefetch,     \* qosOption: prefetchCount, 0 when it is not enabled
          ctxDone,      \* the context given to Consume is cancelled
          consume,      \* where the Consume goroutine is
          ch,           \* Consumer.ch
          chans,        \* channels that are open
          published,    \* messages published so far
          ready, unacked, inbox,
          cur,          \* the message being handled
          handled,      \* messages whose handler succeeded
          failed        \* messages whose handler returned an error

connVars     == <<amqp, alive, dialled, isConnected, shut, monitor>>
consumerVars == <<manual, prefetch, ctxDone, consume, ch>>
channelVars  == <<chans, unacked, ready, inbox>>
resultVars   == <<published, cur, handled, failed>>
rabbitVars   == <<connVars, faults, consumerVars, channelVars, resultVars>>

Fault == faults < MaxFaults /\ faults' = faults + 1

(* A call on c.ch fails: its channel is dead already, or this is a fault. *)
Broken == IF ch \in chans THEN Fault ELSE UNCHANGED faults

(* Channels end: what was unacknowledged on them is queued again. *)
EndChannels(cs) ==
  /\ chans' = chans \ cs
  /\ unacked' = {u \in unacked : u[2] \notin cs}
  /\ ready' = ready \cup {u[1] : u \in {x \in unacked : x[2] \in cs}}
  /\ inbox' = IF ch \in cs THEN {} ELSE inbox

-----------------------------------------------------------------------------
(* Connection *)

(* The network or the broker ends the connection, or one channel of it. *)
LoseConn(c) ==
  /\ c \in alive /\ Fault
  /\ alive' = alive \ {c}
  /\ EndChannels({x \in chans : x.conn = c})
  /\ UNCHANGED <<amqp, dialled, isConnected, shut, monitor, consumerVars, resultVars>>

LoseChannel ==
  /\ ch \in chans /\ Fault
  /\ EndChannels({ch})
  /\ UNCHANGED <<connVars, consumerVars, resultVars>>

(* monitor: closeChan is ready once the connection has ended. *)
MonitorLost ==
  /\ monitor = "select" /\ amqp \notin alive
  /\ isConnected' = FALSE /\ monitor' = "sleep"
  /\ UNCHANGED <<channelVars, amqp, alive, dialled, shut, faults, consumerVars, resultVars>>

(* monitor, after the sleep: connect fails, or returns a connection. *)
RedialFails ==
  /\ monitor = "sleep" /\ monitor' = "select" /\ Fault
  /\ UNCHANGED <<channelVars, amqp, alive, dialled, isConnected, shut, consumerVars,
                 resultVars>>

RedialDone ==
  /\ monitor = "sleep" /\ monitor' = "set"
  /\ dialled' = dialled + 1 /\ alive' = alive \cup {dialled'}
  /\ UNCHANGED <<channelVars, amqp, isConnected, shut, faults, consumerVars, resultVars>>

SetConn ==
  /\ monitor = "set" /\ monitor' = "select"
  /\ isConnected' = TRUE /\ amqp' = dialled
  /\ UNCHANGED <<channelVars, alive, dialled, shut, faults, consumerVars, resultVars>>

(* A slip: the monitor leaves its connection open. *)
MonitorLeaves ==
  /\ monitor = "select" /\ shut = "exit" /\ monitor' = "done"
  /\ UNCHANGED <<channelVars, amqp, alive, dialled, isConnected, shut, faults,
                 consumerVars, resultVars>>

(* monitor sees exit: closeConn. *)
MonitorExit ==
  /\ monitor = "select" /\ shut = "exit" /\ monitor' = "done"
  /\ alive' = alive \ {amqp}
  /\ EndChannels({x \in chans : x.conn = amqp})
  /\ UNCHANGED <<amqp, dialled, isConnected, shut, faults, consumerVars, resultVars>>

(* Close: isConnected under the mutex, then close(exit). *)
CloseClears ==
  /\ shut = "no" /\ shut' = "cleared" /\ isConnected' = FALSE
  /\ UNCHANGED <<channelVars, amqp, alive, dialled, monitor, faults, consumerVars,
                 resultVars>>

CloseExit ==
  /\ shut = "cleared" /\ shut' = "exit"
  /\ UNCHANGED <<channelVars, amqp, alive, dialled, isConnected, monitor, faults,
                 consumerVars, resultVars>>

-----------------------------------------------------------------------------
(* Consume *)

(* The application cancels the context it gave to Consume. *)
CancelConsume ==
  /\ ~ctxDone /\ ctxDone' = TRUE
  /\ UNCHANGED <<connVars, faults, manual, prefetch, consume, ch, channelVars, resultVars>>

(* The ticker fires and the connection is up; otherwise it waits again. *)
Tick ==
  /\ consume = "tick" /\ isConnected /\ consume' = "init"
  /\ UNCHANGED <<connVars, faults, manual, prefetch, ctxDone, ch, channelVars, resultVars>>

(* Either select sees connection.exit: Close, and the goroutine ends. *)
ConsumeExit ==
  /\ consume \in {"tick", "receive"} /\ shut = "exit" /\ consume' = "done"
  /\ EndChannels({ch})
  /\ UNCHANGED <<connVars, faults, manual, prefetch, ctxDone, ch, resultVars>>

(* initialize: conn.Channel() under the connection's mutex.  It overwrites *)
(* c.ch, and fails when the connection is dead or has no number left.      *)
Free == {x \in [conn : {amqp}, id : 1 .. MaxChannels] : x \notin chans}

InitChannel ==
  /\ consume = "init"
  /\ IF amqp \in alive /\ Free # {}
     THEN /\ ch' = CHOOSE x \in Free : \A y \in Free : x.id <= y.id
          /\ chans' = chans \cup {ch'}
          /\ inbox' = {} /\ consume' = "declare"
     ELSE consume' = "tick" /\ UNCHANGED <<ch, chans, inbox>>
  /\ UNCHANGED <<connVars, faults, manual, prefetch, ctxDone, ready, unacked, resultVars>>

(* initialize: exchange, queue, binding and Qos; an error closes the channel. *)
Declared ==
  /\ consume = "declare" /\ ch \in chans /\ consume' = "consume"
  /\ UNCHANGED <<connVars, faults, manual, prefetch, ctxDone, ch, channelVars, resultVars>>

DeclareFails ==
  /\ consume = "declare" /\ consume' = "tick" /\ Broken
  /\ EndChannels({ch})
  /\ UNCHANGED <<connVars, manual, prefetch, ctxDone, ch, resultVars>>

(* ConsumeWithContext: refused at once when ctx is done, and then Consume  *)
(* leaves the channel open; an error of the broker closes it.              *)
Consuming ==
  /\ consume = "consume" /\ ch \in chans /\ ~ctxDone /\ consume' = "receive"
  /\ UNCHANGED <<connVars, faults, manual, prefetch, ctxDone, ch, channelVars, resultVars>>

ConsumeFails ==
  /\ consume = "consume" /\ consume' = "tick"
  /\ IF ctxDone THEN UNCHANGED <<channelVars, faults>>
                ELSE EndChannels({ch}) /\ Broken
  /\ UNCHANGED <<connVars, manual, prefetch, ctxDone, ch, resultVars>>

(* Some producer publishes a message to the queue. *)
Publish(m) ==
  /\ m \notin published /\ published' = published \cup {m} /\ ready' = ready \cup {m}
  /\ UNCHANGED <<connVars, faults, consumerVars, chans, unacked, inbox, cur, handled,
                 failed>>

(* What the limit of ch.Qos counts. *)
Unacked(ms) == Cardinality({u \in unacked : u[2] = ch /\ u[1] \in ms})

(* The broker delivers a message unless as many are unacknowledged as Qos  *)
(* allows; with auto-ack it forgets it, and there is no limit.             *)
Deliver(m) ==
  /\ m \in ready /\ ch \in chans /\ ~ctxDone
  /\ prefetch = 0 \/ Unacked(Messages) < prefetch
  /\ consume \in {"receive", "handle", "ack"}
  /\ ready' = ready \ {m} /\ inbox' = inbox \cup {m}
  /\ unacked' = IF manual THEN unacked \cup {<<m, ch>>} ELSE unacked
  /\ UNCHANGED <<connVars, faults, consumerVars, chans, resultVars>>

ReceiveDelivery(m) ==
  /\ consume = "receive" /\ m \in inbox
  /\ consume' = "handle" /\ cur' = m /\ inbox' = inbox \ {m}
  /\ UNCHANGED <<connVars, faults, manual, prefetch, ctxDone, ch, chans, ready, unacked,
                 handled, failed, published>>

Ended == ch \notin chans \/ (ctxDone /\ inbox = {})

(* A slip: break leaves the select and not the loop. *)
DeliveryEndsStays ==
  /\ consume = "receive" /\ Ended
  /\ UNCHANGED rabbitVars

(* The delivery channel is closed: with its channel, or because ctx is done *)
(* (the library cancels the consumer and hands over what it has).          *)
DeliveryEnds ==
  /\ consume = "receive" /\ Ended /\ consume' = "tick"
  /\ UNCHANGED <<connVars, faults, manual, prefetch, ctxDone, ch, channelVars, resultVars>>

HandlerDone ==
  /\ consume = "handle" /\ handled' = handled \cup {cur}
  /\ consume' = IF manual THEN "ack" ELSE "receive"
  /\ UNCHANGED <<connVars, faults, manual, prefetch, ctxDone, ch, channelVars, cur,
                 failed, published>>

(* A slip: a message is acknowledged whatever its handler returned. *)
HandlerFailsAcked ==
  /\ consume = "handle" /\ failed' = failed \cup {cur}
  /\ consume' = IF manual THEN "ack" ELSE "receive"
  /\ UNCHANGED <<connVars, faults, manual, prefetch, ctxDone, ch, channelVars, cur,
                 handled, published>>

(* The handler fails: neither Ack nor Nack. *)
HandlerFails ==
  /\ consume = "handle" /\ failed' = failed \cup {cur} /\ consume' = "receive"
  /\ UNCHANGED <<connVars, faults, manual, prefetch, ctxDone, ch, channelVars, cur,
                 handled, published>>

(* d.Ack(false) on the channel that delivered; an error is only logged. *)
Ack ==
  /\ consume = "ack" /\ consume' = "receive"
  /\ unacked' = unacked \ {<<cur, ch>>}
  /\ UNCHANGED <<connVars, faults, manual, prefetch, ctxDone, ch, chans, ready, inbox,
                 resultVars>>

-----------------------------------------------------------------------------
RabbitInit ==
  /\ amqp = 1 /\ alive = {1} /\ dialled = 1 /\ isConnected = TRUE
  /\ shut = "no" /\ monitor = "select" /\ faults = 0
  /\ manual \in BOOLEAN /\ prefetch \in Prefetches /\ ctxDone = FALSE
  /\ consume = "tick" /\ ch = [conn |-> 0, id |-> 0] /\ chans = {}
  /\ published = {} /\ ready = {} /\ unacked = {} /\ inbox = {}
  /\ cur = (CHOOSE m \in Messages : TRUE) /\ handled = {} /\ failed = {}

MonitorStep == MonitorLost \/ RedialFails \/ RedialDone \/ SetConn \/ MonitorExit
Handles     == HandlerDone \/ HandlerFails \/ Ack
ConsumeStep == \/ Tick \/ ConsumeExit \/ InitChannel \/ Declared \/ DeclareFails
               \/ Consuming \/ ConsumeFails \/ DeliveryEnds \/ Handles
               \/ \E m \in Messages : ReceiveDelivery(m)

RabbitNext ==
  \/ MonitorStep \/ ConsumeStep \/ LoseChannel \/ CloseClears \/ CloseExit \/ CancelConsume
  \/ \E c \in alive : LoseConn(c)
  \/ \E m \in Messages : Publish(m) \/ Deliver(m)

(* Goroutines run on, handlers return, and the broker delivers; the select *)
(* that finds exit closed again and again takes it once (it chooses at     *)
(* random).                                                                *)
RabbitSpec ==
  /\ RabbitInit /\ [][RabbitNext]_rabbitVars
  /\ WF_rabbitVars(MonitorStep) /\ WF_rabbitVars(ConsumeStep) /\ WF_rabbitVars(CloseExit)
  /\ SF_rabbitVars(ConsumeExit)
  /\ \A m \in Messages : WF_rabbitVars(Deliver(m))

-----------------------------------------------------------------------------
(* With manual acknowledgement a message leaves the broker only after its  *)
(* handler has succeeded, whichever connections and channels were lost     *)
(* while it was delivered, handled or acknowledged (Consume, d.Ack).       *)
ManualAckKeeps ==
  manual => \A m \in published :
              m \in handled \/ m \in ready \/ \E u \in unacked : u[1] = m

(* Failed messages, which are neither acknowledged nor rejected, use up    *)
(* what Qos allows.                                                        *)
Stalled == prefetch # 0 /\ Unacked(failed) >= prefetch

(* A queued message reaches the handler, however often the connection or   *)
(* the channel is lost, unless the program is closed, the context is       *)
(* cancelled, or the channel stays up with as many failed messages as the  *)
(* prefetch limit (Consume's outer loop, monitor, ch.Qos).                 *)
ConsumptionResumes ==
  \A m \in Messages :
    manual /\ m \in ready ~>
      m \in handled \cup failed \/ shut # "no" \/ ctxDone \/ []Stalled

(* Close ends the monitor, the consumer and the connection, even when it   *)
(* comes during a reconnection, which sets isConnected again (Close,       *)
(* monitor, Consume).                                                      *)
CloseEndsAll == shut = "exit" ~> monitor = "done" /\ consume = "done" /\ alive = {}

=============================================================================
