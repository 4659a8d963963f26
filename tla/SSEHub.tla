------------------------------- MODULE SSEHub -------------------------------
(***************************************************************************)
(* The event hub of pkg/sse: hub.go, server.go, task.go and safemap.go.    *)
(*                                                                         *)
(* Goroutines: the hub loop (Hub.run), one Serve per connection, one       *)
(* application that calls Push, the workers of the AsyncTaskPool, and the  *)
(* caller of Hub.Close.  They share the client map, the broadcast channel, *)
(* the task channel and one Send channel per connection.  An operation on  *)
(* a channel or on the map is one step.  A panic ends the process.         *)
(*                                                                         *)
(* A message is a UserEvent: an event for one user.  `pushed', `lost',     *)
(* `failedMsgs', `delivered', `fast' and `newest' are history variables.   *)
(***************************************************************************)
EXTENDS Integers, Sequences, FiniteSetsExt

CONSTANTS Uids, Conns,
          UidOf,          \* the user of each connection
          Workers,        \* hubOptions.workerNum workers
          BroadcastCap,   \* hubOptions.pushBufferSize, for the broadcast channel
          SendCap,        \* hubOptions.pushBufferSize, for a client's Send channel
          TaskCap,        \* capacity of AsyncTaskPool.tasks
          MaxRetry,       \* Hub.maxRetry
          MaxPolls,       \* polling rounds in Close
          MaxEvents,      \* bound: events the application pushes
          MaxCloseEvents, \* bound: events it has pushed when Close is called, or pushes later
          Overlap,        \* may a user reconnect before the old Serve is gone?
          Closes,         \* is Hub.Close called?
          None            \* no connection, message or user

CloseEvent == 0
Events     == 0 .. MaxEvents
Msg        == [uid : Uids, event : Events]
Pushers    == {"app", "closer"}

ASSUME HubAssumption ==
  /\ UidOf \in [Conns -> Uids]
  /\ None \notin Conns \cup Uids \cup Msg
  /\ {BroadcastCap, SendCap, TaskCap, MaxRetry} \subseteq Nat \ {0}
  /\ {MaxPolls, MaxEvents, MaxCloseEvents} \subseteq Nat
  /\ Overlap \in BOOLEAN /\ Closes \in BOOLEAN

VARIABLES
  clients,      \* Hub.clients: user -> the registered connection
  cpc,          \* Serve: new, register, serving, leaving, done
  send,         \* UserClient.Send, the events still in the channel
  sendClosed,   \* UserClient.Send has been closed
  sentClose,    \* UserClient.isSendClosedEvent
  hub,          \* Hub.run: where it is, and the connection and message in its hands
  broadcast,    \* Hub.broadcast
  tasks,        \* AsyncTaskPool.tasks
  tasksClosed,
  worker,       \* the task each worker runs
  push,         \* each caller of Push: where it is, its event, the users left
  nextEvent,    \* the application's next event
  closing,      \* Hub.Close: where it is, its client, the round, the users left
  cancelled,    \* Hub.ctx is done
  panicked,
  stats,        \* PushStats, without the timeouts it counts for the log
  pushed, lost, failedMsgs, delivered, fast, newest

connVars  == <<cpc, send, sendClosed, sentClose>>
chanVars  == <<broadcast, tasks, tasksClosed, worker>>
pushVars  == <<push, nextEvent>>
closeVars == <<closing, cancelled>>
histVars  == <<pushed, lost, failedMsgs, delivered, fast, newest>>
hubVars   == <<clients, connVars, hub, chanVars, pushVars, closeVars, panicked,
               stats, histVars>>

Idle     == [at |-> "select", conn |-> None, msg |-> None, tries |-> 0]
NoTask   == [msg |-> None, tries |-> 0]
NoPush   == [at |-> "idle", event |-> 0, todo |-> {}, uid |-> None]
NotClose == [at |-> "off", conn |-> None, round |-> 0, todo |-> {}]

Up == ~panicked

Online == {u \in Uids : clients[u] # None}

-----------------------------------------------------------------------------
(* Serve: a request arrives and waits to be registered. *)
Open(c) ==
  /\ Up /\ cpc[c] = "new"
  /\ Overlap \/ \A d \in Conns : UidOf[d] = UidOf[c] /\ d # c => cpc[d] \in {"new", "done"}
  /\ cpc' = [cpc EXCEPT ![c] = "register"]
  /\ UNCHANGED <<clients, send, sendClosed, sentClose, hub, chanVars, pushVars,
                 closeVars, panicked, stats, histVars>>

(* A slip: the registration is taken and the map not updated. *)
RegisterForget(c) ==
  /\ Up /\ hub.at = "select" /\ cpc[c] = "register"
  /\ cpc' = [cpc EXCEPT ![c] = "serving"]
  /\ newest' = [newest EXCEPT ![UidOf[c]] = c]
  /\ UNCHANGED <<clients, send, sendClosed, sentClose, hub, chanVars, pushVars,
                 closeVars, panicked, stats, pushed, lost, failedMsgs, delivered, fast>>

(* run, <-h.register: the rendezvous and clients.Set. *)
Register(c) ==
  /\ Up /\ hub.at = "select" /\ cpc[c] = "register"
  /\ clients' = [clients EXCEPT ![UidOf[c]] = c]
  /\ cpc' = [cpc EXCEPT ![c] = "serving"]
  /\ newest' = [newest EXCEPT ![UidOf[c]] = c]
  /\ UNCHANGED <<send, sendClosed, sentClose, hub, chanVars, pushVars, closeVars,
                 panicked, stats, pushed, lost, failedMsgs, delivered, fast>>

(* The callback of c.Stream takes an event from Send and writes it out.     *)
(* sendEvent sets isSendClosedEvent before it writes, so also when the      *)
(* write fails; a failed write ends the stream.                             *)
Deliver(c, ok) ==
  LET m == Head(send[c]) IN
  /\ Up /\ cpc[c] = "serving" /\ send[c] # <<>>
  /\ send' = [send EXCEPT ![c] = Tail(@)]
  /\ sentClose' = [sentClose EXCEPT ![c] = @ \/ m.event = CloseEvent]
  /\ IF ok
     THEN /\ stats' = [stats EXCEPT !.success = @ + 1]
          /\ delivered' = [delivered EXCEPT ![c] = Append(@, m)]
          /\ UNCHANGED <<cpc, failedMsgs>>
     ELSE /\ stats' = [stats EXCEPT !.failed = @ + 1]
          /\ failedMsgs' = failedMsgs \cup {m}
          /\ cpc' = [cpc EXCEPT ![c] = "leaving"]
          /\ UNCHANGED delivered
  /\ UNCHANGED <<clients, sendClosed, hub, chanVars, pushVars, closeVars, panicked,
                 pushed, lost, fast, newest>>

(* The stream ends: the request's context is done or a heartbeat cannot be  *)
(* written.                                                                 *)
Disconnect(c) ==
  /\ Up /\ cpc[c] = "serving"
  /\ cpc' = [cpc EXCEPT ![c] = "leaving"]
  /\ UNCHANGED <<clients, send, sendClosed, sentClose, hub, chanVars, pushVars,
                 closeVars, panicked, stats, histVars>>

(* The stream ends: Send is closed and drained. *)
StreamClosed(c) ==
  /\ Up /\ cpc[c] = "serving" /\ sendClosed[c] /\ send[c] = <<>>
  /\ cpc' = [cpc EXCEPT ![c] = "leaving"]
  /\ UNCHANGED <<clients, send, sendClosed, sentClose, hub, chanVars, pushVars,
                 closeVars, panicked, stats, histVars>>

(* run, <-h.unregister: the rendezvous with Serve's deferred send, and      *)
(* clients.Has, which looks the user up and not the connection.             *)
Unregister(c) ==
  /\ Up /\ hub.at = "select" /\ cpc[c] = "leaving"
  /\ cpc' = [cpc EXCEPT ![c] = "done"]
  /\ hub' = IF clients[UidOf[c]] # None
            THEN [hub EXCEPT !.at = "delete", !.conn = c]
            ELSE hub
  /\ UNCHANGED <<clients, send, sendClosed, sentClose, chanVars, pushVars, closeVars,
                 panicked, stats, histVars>>

(* A slip: the client stays in the map although its channel is closed. *)
UnregisterKeep ==
  /\ Up /\ hub.at = "delete"
  /\ hub' = [hub EXCEPT !.at = "close"]
  /\ UNCHANGED <<clients, connVars, chanVars, pushVars, closeVars, panicked, stats,
                 histVars>>

(* clients.Delete *)
UnregisterDelete ==
  /\ Up /\ hub.at = "delete"
  /\ clients' = [clients EXCEPT ![UidOf[hub.conn]] = None]
  /\ hub' = [hub EXCEPT !.at = "close"]
  /\ UNCHANGED <<connVars, chanVars, pushVars, closeVars, panicked, stats, histVars>>

(* close(cli.Send): closing a closed channel panics. *)
UnregisterClose ==
  /\ Up /\ hub.at = "close"
  /\ sendClosed' = [sendClosed EXCEPT ![hub.conn] = TRUE]
  /\ panicked' = sendClosed[hub.conn]
  /\ hub' = Idle
  /\ UNCHANGED <<clients, cpc, send, sentClose, chanVars, pushVars, closeVars, stats,
                 histVars>>

(* run, <-h.broadcast, and clients.Get; nobody is told of a message for a   *)
(* user who is offline by now.                                              *)
Take ==
  LET m == Head(broadcast) IN
  /\ Up /\ hub.at = "select" /\ broadcast # <<>>
  /\ broadcast' = Tail(broadcast)
  /\ IF clients[m.uid] = None
     THEN lost' = lost \cup {m} /\ UNCHANGED hub
     ELSE /\ hub' = [at |-> "send", conn |-> clients[m.uid], msg |-> m, tries |-> 0]
          /\ UNCHANGED lost
  /\ UNCHANGED <<clients, connVars, tasks, tasksClosed, worker, pushVars, closeVars,
                 panicked, stats, pushed, failedMsgs, delivered, fast, newest>>

(* cli.Send <- ue.Event, in run or in trySendWithTimeout: sending on a      *)
(* closed channel panics.                                                   *)
HubSend ==
  LET c == hub.conn IN
  /\ Up /\ hub.at \in {"send", "retry"}
  /\ sendClosed[c] \/ Len(send[c]) < SendCap
  /\ panicked' = sendClosed[c]
  /\ send' = [send EXCEPT ![c] = Append(@, hub.msg)]
  /\ hub' = Idle
  /\ UNCHANGED <<clients, cpc, sendClosed, sentClose, chanVars, pushVars, closeVars,
                 stats, histVars>>

(* run's default case: the buffer is full, go on to trySendWithTimeout. *)
HubFull ==
  /\ Up /\ hub.at = "send"
  /\ ~sendClosed[hub.conn] /\ Len(send[hub.conn]) >= SendCap
  /\ hub' = [hub EXCEPT !.at = "retry"]
  /\ UNCHANGED <<clients, connVars, chanVars, pushVars, closeVars, panicked, stats,
                 histVars>>

(* A slip: a message that timed out is put back into the broadcast channel. *)
SendTimeoutRequeue ==
  /\ Up /\ hub.at = "retry" /\ Len(broadcast) < BroadcastCap
  /\ broadcast' = Append(broadcast, hub.msg)
  /\ hub' = Idle
  /\ UNCHANGED <<clients, connVars, tasks, tasksClosed, worker, pushVars, closeVars,
                 panicked, stats, histVars>>

(* A slip: the loop never gives up on a full Send channel. *)
SendTimeoutForever ==
  /\ Up /\ hub.at = "retry"
  /\ UNCHANGED hubVars

(* trySendWithTimeout: the timer fires; after MaxRetry of them give up. *)
SendTimeout ==
  /\ Up /\ hub.at = "retry"
  /\ IF hub.tries + 1 < MaxRetry
     THEN /\ hub' = [hub EXCEPT !.tries = @ + 1]
          /\ UNCHANGED <<stats, failedMsgs>>
     ELSE /\ hub' = Idle
          /\ stats' = [stats EXCEPT !.failed = @ + 1]
          /\ failedMsgs' = failedMsgs \cup {hub.msg}
  /\ UNCHANGED <<clients, connVars, chanVars, pushVars, closeVars, panicked, pushed,
                 lost, delivered, fast, newest>>

(* run, <-h.ctx.Done() *)
HubStop ==
  /\ Up /\ hub.at = "select" /\ cancelled
  /\ hub' = [hub EXCEPT !.at = "stopped"]
  /\ UNCHANGED <<clients, connVars, chanVars, pushVars, closeVars, panicked, stats,
                 histVars>>

-----------------------------------------------------------------------------
(* sync.Map.Range visits every user who is in the map when it starts, and   *)
(* may visit one who comes back meanwhile; a user gone by then is skipped.  *)
RangeKeys == {T \in SUBSET Uids : Online \subseteq T}

(* Push of one event to the listed users, or to all with pushAll's Range. *)
PushStart(p, e, todo) ==
  push' = [push EXCEPT ![p] = [at |-> "next", event |-> e, todo |-> todo, uid |-> None]]

AppPush ==
  /\ Up /\ push["app"].at = "idle" /\ nextEvent <= MaxEvents
  /\ closing.at # "off" => nextEvent <= MaxCloseEvents
  /\ \E todo \in ((SUBSET Uids) \ {{}}) \cup RangeKeys : PushStart("app", nextEvent, todo)
  /\ nextEvent' = nextEvent + 1
  /\ UNCHANGED <<clients, connVars, hub, chanVars, closeVars, panicked, stats, histVars>>

(* A slip: a user who has gone offline is tried again. *)
PushNextAgain(p) ==
  /\ Up /\ push[p].at = "next"
  /\ \/ \E u \in push[p].todo :
          /\ clients[u] # None
          /\ push' = [push EXCEPT ![p].todo = @ \ {u}, ![p].at = "one", ![p].uid = u]
     \/ push[p].todo = {} /\ push' = [push EXCEPT ![p] = NoPush]
  /\ UNCHANGED <<clients, connVars, hub, chanVars, nextEvent, closeVars, panicked,
                 stats, histVars>>

(* clients.Has, or Range loading the key: a user who is offline is skipped. *)
PushNext(p) ==
  /\ Up /\ push[p].at = "next"
  /\ \/ \E u \in push[p].todo :
          push' = [push EXCEPT ![p].todo = @ \ {u},
                               ![p].at   = IF clients[u] = None THEN "next" ELSE "one",
                               ![p].uid  = u]
     \/ push[p].todo = {} /\ push' = [push EXCEPT ![p] = NoPush]
  /\ UNCHANGED <<clients, connVars, hub, chanVars, nextEvent, closeVars, panicked,
                 stats, histVars>>

Pushing(p) == [uid |-> push[p].uid, event |-> push[p].event]

(* A slip: the fast path goes on to the task pool. *)
PushOneBoth(p) ==
  /\ Up /\ push[p].at = "one"
  /\ stats' = [stats EXCEPT !.total = @ + 1]
  /\ pushed' = pushed \cup {Pushing(p)}
  /\ push' = [push EXCEPT ![p].at = "full"]
  /\ IF Len(broadcast) < BroadcastCap
     THEN broadcast' = Append(broadcast, Pushing(p)) /\ fast' = fast \cup {Pushing(p)}
     ELSE UNCHANGED <<broadcast, fast>>
  /\ UNCHANGED <<clients, connVars, hub, tasks, tasksClosed, worker, nextEvent,
                 closeVars, panicked, lost, failedMsgs, delivered, newest>>

(* pushOne: count, then the fast path or the task pool. *)
PushOne(p) ==
  /\ Up /\ push[p].at = "one"
  /\ stats' = [stats EXCEPT !.total = @ + 1]
  /\ pushed' = pushed \cup {Pushing(p)}
  /\ IF Len(broadcast) < BroadcastCap
     THEN /\ broadcast' = Append(broadcast, Pushing(p))
          /\ fast' = fast \cup {Pushing(p)}
          /\ push' = [push EXCEPT ![p].at = "next"]
     ELSE /\ push' = [push EXCEPT ![p].at = "full"]
          /\ UNCHANGED <<broadcast, fast>>
  /\ UNCHANGED <<clients, connVars, hub, tasks, tasksClosed, worker, nextEvent,
                 closeVars, panicked, lost, failedMsgs, delivered, newest>>

(* AsyncTaskPool.Submit: wg.Add(1) *)
SubmitAdd(p) ==
  /\ Up /\ push[p].at = "full"
  /\ push' = [push EXCEPT ![p].at = "submit"]
  /\ UNCHANGED <<clients, connVars, hub, chanVars, nextEvent, closeVars, panicked,
                 stats, histVars>>

(* AsyncTaskPool.Submit: wait for room; a closed channel panics. *)
Submit(p) ==
  /\ Up /\ push[p].at = "submit"
  /\ tasksClosed \/ Len(tasks) < TaskCap
  /\ panicked' = tasksClosed
  /\ tasks' = Append(tasks, Pushing(p))
  /\ push' = [push EXCEPT ![p].at = "next"]
  /\ UNCHANGED <<clients, connVars, hub, broadcast, tasksClosed, worker, nextEvent,
                 closeVars, stats, histVars>>

(* AsyncTaskPool.worker *)
WorkerTake(w) ==
  /\ Up /\ worker[w] = NoTask /\ tasks # <<>>
  /\ worker' = [worker EXCEPT ![w] = [msg |-> Head(tasks), tries |-> 0]]
  /\ tasks' = Tail(tasks)
  /\ UNCHANGED <<clients, connVars, hub, broadcast, tasksClosed, pushVars, closeVars,
                 panicked, stats, histVars>>

(* tryPushWithTimeout: h.broadcast <- ue *)
WorkerPush(w) ==
  /\ Up /\ worker[w] # NoTask /\ Len(broadcast) < BroadcastCap
  /\ broadcast' = Append(broadcast, worker[w].msg)
  /\ worker' = [worker EXCEPT ![w] = NoTask]
  /\ UNCHANGED <<clients, connVars, hub, tasks, tasksClosed, pushVars, closeVars,
                 panicked, stats, histVars>>

(* A slip: the last timeout is counted and the push is tried once more. *)
WorkerTimeoutExtra(w) ==
  /\ Up /\ worker[w] # NoTask /\ worker[w].tries <= MaxRetry
  /\ worker' = [worker EXCEPT ![w].tries = @ + 1]
  /\ IF worker[w].tries + 1 < MaxRetry
     THEN UNCHANGED <<stats, failedMsgs>>
     ELSE /\ stats' = [stats EXCEPT !.failed = @ + 1]
          /\ failedMsgs' = failedMsgs \cup {worker[w].msg}
  /\ UNCHANGED <<clients, connVars, hub, broadcast, tasks, tasksClosed, pushVars,
                 closeVars, panicked, pushed, lost, delivered, fast, newest>>

(* A slip: a worker never gives up on a full broadcast channel. *)
WorkerTimeoutForever(w) ==
  /\ Up /\ worker[w] # NoTask
  /\ UNCHANGED hubVars

(* tryPushWithTimeout: the timer fires; after MaxRetry of them give up. *)
WorkerTimeout(w) ==
  /\ Up /\ worker[w] # NoTask
  /\ IF worker[w].tries + 1 < MaxRetry
     THEN /\ worker' = [worker EXCEPT ![w].tries = @ + 1]
          /\ UNCHANGED <<stats, failedMsgs>>
     ELSE /\ worker' = [worker EXCEPT ![w] = NoTask]
          /\ stats' = [stats EXCEPT !.failed = @ + 1]
          /\ failedMsgs' = failedMsgs \cup {worker[w].msg}
  /\ UNCHANGED <<clients, connVars, hub, broadcast, tasks, tasksClosed, pushVars,
                 closeVars, panicked, pushed, lost, delivered, fast, newest>>

-----------------------------------------------------------------------------
(* Hub.Close: push the close event to every client if anyone is online      *)
(* (and the caller did not ask for reconnection), else cancel at once.      *)
CloseStart ==
  /\ Up /\ Closes /\ closing.at = "off" /\ nextEvent <= MaxCloseEvents + 1
  /\ \/ /\ Online # {}
        /\ \E todo \in RangeKeys : PushStart("closer", CloseEvent, todo)
        /\ closing' = [closing EXCEPT !.at = "push"]
     \/ closing' = [closing EXCEPT !.at = "cancel"] /\ UNCHANGED push
  /\ UNCHANGED <<clients, connVars, hub, chanVars, nextEvent, cancelled, panicked,
                 stats, histVars>>

(* A polling round: 100ms later, range over the clients. *)
ClosePoll ==
  /\ Up
  /\ \/ closing.at = "push" /\ push["closer"].at = "idle"
     \/ closing.at = "round" /\ Online # {} /\ closing.round < MaxPolls
  /\ \E todo \in RangeKeys :
       closing' = [closing EXCEPT !.at = "poll", !.round = @ + 1, !.todo = todo]
  /\ UNCHANGED <<clients, connVars, hub, chanVars, pushVars, cancelled, panicked, stats,
                 histVars>>

(* One client of the range: isSendClosedEvent && clients.Has.  The flag is  *)
(* read while Serve may write it, without a lock: a flag that is set may be *)
(* read as unset.                                                           *)
CloseVisit ==
  /\ Up /\ closing.at = "poll"
  /\ \/ \E u \in closing.todo :
          /\ clients[u] \in {d \in Conns : sentClose[d]}
          /\ closing' = [closing EXCEPT !.todo = @ \ {u}, !.at = "delete",
                                        !.conn = clients[u]]
     \/ \E u \in closing.todo : closing' = [closing EXCEPT !.todo = @ \ {u}]
     \/ closing.todo = {} /\ closing' = [closing EXCEPT !.at = "round"]
  /\ UNCHANGED <<clients, connVars, hub, chanVars, pushVars, cancelled, panicked, stats,
                 histVars>>

(* clients.Delete, by the user and not by the connection. *)
CloseDelete ==
  /\ Up /\ closing.at = "delete"
  /\ clients' = [clients EXCEPT ![UidOf[closing.conn]] = None]
  /\ closing' = [closing EXCEPT !.at = "close"]
  /\ UNCHANGED <<connVars, hub, chanVars, pushVars, cancelled, panicked, stats, histVars>>

(* close(cli.Send) *)
CloseSend ==
  /\ Up /\ closing.at = "close"
  /\ panicked' = sendClosed[closing.conn]
  /\ sendClosed' = [sendClosed EXCEPT ![closing.conn] = TRUE]
  /\ closing' = [closing EXCEPT !.at = "poll", !.conn = None]
  /\ UNCHANGED <<clients, cpc, send, sentClose, hub, chanVars, pushVars, cancelled,
                 stats, histVars>>

(* h.cancel() *)
CloseCancel ==
  /\ Up
  /\ \/ closing.at = "cancel"
     \/ closing.at = "round" /\ (Online = {} \/ closing.round >= MaxPolls)
  /\ cancelled' = TRUE
  /\ closing' = [closing EXCEPT !.at = "wait"]
  /\ UNCHANGED <<clients, connVars, hub, chanVars, pushVars, panicked, stats, histVars>>

(* asyncTaskPool.Wait: every submitted task is done; then Stop closes the   *)
(* channel.                                                                 *)
CloseStop ==
  /\ Up /\ closing.at = "wait"
  /\ tasks = <<>> /\ \A w \in Workers : worker[w] = NoTask
  /\ \A p \in Pushers : push[p].at # "submit"
  /\ tasksClosed' = TRUE
  /\ closing' = [closing EXCEPT !.at = "closed"]
  /\ UNCHANGED <<clients, connVars, hub, broadcast, tasks, worker, pushVars, cancelled,
                 panicked, stats, histVars>>

-----------------------------------------------------------------------------
HubInit ==
  /\ clients = [u \in Uids |-> None]
  /\ cpc = [c \in Conns |-> "new"]
  /\ send = [c \in Conns |-> <<>>]
  /\ sendClosed = [c \in Conns |-> FALSE]
  /\ sentClose = [c \in Conns |-> FALSE]
  /\ hub = Idle
  /\ broadcast = <<>> /\ tasks = <<>> /\ tasksClosed = FALSE
  /\ worker = [w \in Workers |-> NoTask]
  /\ push = [p \in Pushers |-> NoPush]
  /\ nextEvent = 1
  /\ closing = NotClose /\ cancelled = FALSE
  /\ panicked = FALSE
  /\ stats = [total |-> 0, success |-> 0, failed |-> 0]
  /\ pushed = {} /\ lost = {} /\ failedMsgs = {} /\ fast = {}
  /\ delivered = [c \in Conns |-> <<>>]
  /\ newest = [u \in Uids |-> None]

HubLoop == \/ \E c \in Conns : Register(c) \/ Unregister(c)
           \/ UnregisterDelete \/ UnregisterClose
           \/ Take \/ HubSend \/ HubFull \/ SendTimeout \/ HubStop

Serving(c) == Deliver(c, TRUE) \/ Deliver(c, FALSE) \/ StreamClosed(c)

PushStep(p) == PushNext(p) \/ PushOne(p) \/ SubmitAdd(p) \/ Submit(p)

Pushes == \/ AppPush
          \/ \E p \in Pushers : PushStep(p)

Working(w) == WorkerTake(w) \/ WorkerPush(w) \/ WorkerTimeout(w)

CloseStep == ClosePoll \/ CloseVisit \/ CloseDelete \/ CloseSend \/ CloseCancel \/ CloseStop

HubNext == \/ HubLoop
           \/ \E c \in Conns : Open(c) \/ Disconnect(c) \/ Serving(c)
           \/ Pushes
           \/ \E w \in Workers : Working(w)
           \/ CloseStart \/ CloseStep

HubSpec == HubInit /\ [][HubNext]_hubVars

(* Goroutines that can run are run, timers fire, and a select with a ready  *)
(* case takes one.  Nothing forces a client to disconnect, a request to     *)
(* arrive or the application to push.                                       *)
HubFairness ==
  /\ WF_hubVars(HubLoop)
  /\ \A c \in Conns : WF_hubVars(Serving(c))
  /\ \A p \in Pushers : WF_hubVars(PushStep(p))
  /\ \A w \in Workers : WF_hubVars(Working(w))
  /\ WF_hubVars(CloseStep)

HubLiveSpec == HubSpec /\ HubFairness

-----------------------------------------------------------------------------
LoopState  == [at : {"select", "delete", "close", "send", "retry", "stopped"},
               conn : Conns \cup {None}, msg : Msg \cup {None}, tries : Nat]
TaskState  == [msg : Msg \cup {None}, tries : Nat]
PushState  == [at : {"idle", "next", "one", "full", "submit"}, event : Events,
               todo : SUBSET Uids, uid : Uids \cup {None}]
CloseState == [at : {"off", "push", "round", "poll", "delete", "close", "cancel", "wait",
                     "closed"},
               conn : Conns \cup {None}, round : Nat, todo : SUBSET Uids]

ConnTypeOK == /\ clients \in [Uids -> Conns \cup {None}]
              /\ cpc \in [Conns -> {"new", "register", "serving", "leaving", "done"}]
              /\ send \in [Conns -> Seq(Msg)]
              /\ sendClosed \in [Conns -> BOOLEAN]
              /\ sentClose \in [Conns -> BOOLEAN]
ChanTypeOK == /\ broadcast \in Seq(Msg) /\ Len(broadcast) <= BroadcastCap
              /\ tasks \in Seq(Msg)
              /\ tasksClosed \in BOOLEAN
              /\ worker \in [Workers -> TaskState]
PushTypeOK == /\ push \in [Pushers -> PushState]
              /\ nextEvent \in 1 .. (MaxEvents + 1)

(* Type invariant. *)
HubTypeOK ==
  /\ ConnTypeOK /\ ChanTypeOK /\ PushTypeOK
  /\ hub \in LoopState
  /\ closing \in CloseState /\ cancelled \in BOOLEAN
  /\ panicked \in BOOLEAN
  /\ stats \in [total : Nat, success : Nat, failed : Nat]

(* No goroutine closes a closed channel or sends on one (hub.go run, Close, *)
(* pushOne: "Thread-safe client management").                               *)
NoPanic == ~panicked

(* The inductive invariant behind NoPanic while nobody calls Close: a Send  *)
(* channel is closed only after its Serve has gone and the map has          *)
(* forgotten it, and the loop never holds a connection whose channel is     *)
(* closed (run's unregister and broadcast cases).                           *)
ChannelInv ==
  /\ Up /\ ~tasksClosed /\ closing.at = "off"
  /\ \A c \in Conns : sendClosed[c] => cpc[c] = "done" /\ clients[UidOf[c]] # c
  /\ \A u \in Uids : clients[u] # None => UidOf[clients[u]] = u
  /\ hub.at \in {"send", "retry"} => ~sendClosed[hub.conn]
  /\ hub.at \in {"delete", "close"} => cpc[hub.conn] = "done" /\ ~sendClosed[hub.conn]
  /\ hub.at = "close" => clients[UidOf[hub.conn]] = None

(* Where messages are: in a client's channel or written to the client, in   *)
(* the hands of a worker, a caller of Push or the loop, in the broadcast or *)
(* the task channel, given up, or dropped as offline.                       *)
Holders == ({"send", "delivered"} \X Conns) \cup ({"worker"} \X Workers)
           \cup ({"push"} \X Pushers)
           \cup ({"broadcast", "tasks", "hub", "failed", "lost"} \X {None})
Held(h) == CASE h[1] = "send"      -> Range(send[h[2]])
             [] h[1] = "delivered" -> Range(delivered[h[2]])
             [] h[1] = "worker"    -> {worker[h[2]].msg} \ {None}
             [] h[1] = "push"      -> IF push[h[2]].at \in {"full", "submit"}
                                  THEN {Pushing(h[2])} ELSE {}
             [] h[1] = "broadcast" -> Range(broadcast)
             [] h[1] = "tasks"     -> Range(tasks)
             [] h[1] = "hub"       -> {hub.msg} \ {None}
             [] h[1] = "failed"    -> failedMsgs
             [] h[1] = "lost"      -> lost

NoneTwice == /\ IsInjective(broadcast) /\ IsInjective(tasks)
             /\ \A c \in Conns : IsInjective(send[c]) /\ IsInjective(delivered[c])

(* Every message Push counted is in exactly one place, once, and nothing    *)
(* else is anywhere: the fast path, the task pool, the retries and the      *)
(* timeouts neither duplicate nor silently drop a message, and the push     *)
(* statistics count what happened (PushStats).                              *)
Conservation ==
  /\ \A h \in Holders : Held(h) \subseteq pushed
  /\ \A m \in pushed : \E h \in Holders : m \in Held(h) /\ \A k \in Holders \ {h} : m \notin Held(k)
  /\ NoneTwice
  /\ stats.total = Cardinality(pushed)
  /\ stats.failed = Cardinality(failedMsgs)

(* Events of the application that took the fast path reach a connection in  *)
(* the order they were pushed in (pushOne, run, Serve).                     *)
FastPathOrder ==
  \A c \in Conns : \A i, j \in 1 .. Len(delivered[c]) :
     /\ i < j /\ delivered[c][i] \in fast /\ delivered[c][j] \in fast
     /\ CloseEvent \notin {delivered[c][i].event, delivered[c][j].event}
     => delivered[c][i].event < delivered[c][j].event

(* Messages that were pushed and neither delivered nor dropped nor given up. *)
Unsettled == {m \in pushed \ (lost \cup failedMsgs) : \A c \in Conns : m \notin Range(delivered[c])}

Service == INSTANCE EventService WITH
             online <- Online, pending <- Unsettled, prompt <- fast, received <- delivered,
             missed <- lost, givenUp <- failedMsgs, counts <- stats

(* The hub implements the abstract service: a user is online while the map  *)
(* has a connection of theirs, a message is accepted when Push counts it,   *)
(* promptly if the broadcast channel has room, and every later step of      *)
(* Push, the pool, the loop, Serve and Close settles one accepted message   *)
(* or none (hub.go, server.go, task.go).                                    *)
ImplementsService == Service!ServiceSpec

(* A user whose newest connection is being served can be reached until      *)
(* somebody calls Close: the map leads to that connection (run's register   *)
(* and unregister cases).                                                   *)
OnlineReachable ==
  \A c \in Conns :
     cpc[c] = "serving" /\ newest[UidOf[c]] = c /\ closing.at = "off"
     => clients[UidOf[c]] = c

(* What follows holds until Close has cancelled the hub's context: the hub  *)
(* loop may then stop, and nobody takes unregistrations or broadcasts any   *)
(* more.                                                                    *)
Down == cancelled \/ panicked

(* Neither a client nor the application is caught in the hub.  Serve        *)
(* returns once its stream has ended: the hub loop always gets back to its  *)
(* select and takes the unregistration (Serve's deferred send).  Push       *)
(* returns, even once the hub has stopped: neither a full broadcast channel *)
(* nor a full task channel blocks it for good (pushOne, AsyncTaskPool).     *)
CallsReturn ==
  /\ \A c \in Conns : cpc[c] = "leaving" ~> cpc[c] = "done" \/ Down
  /\ \A p \in Pushers : push[p].at # "idle" ~> push[p].at = "idle" \/ panicked

(* Hub.Close returns: the polling rounds are bounded, and every task that   *)
(* was submitted ends even when nobody reads the broadcast channel any more *)
(* (asyncTaskPool.Wait).                                                    *)
CloseReturns == closing.at # "off" ~> closing.at = "closed" \/ panicked

(* Every message Push counted is settled: written, given up, dropped as     *)
(* offline, or left in the channel of a connection that has ended.          *)
Settled(m) ==
  \/ m \in failedMsgs \cup lost
  \/ \E c \in Conns : \/ m \in Range(delivered[c])
                      \/ m \in Range(send[c]) /\ cpc[c] \in {"leaving", "done"}

MessagesSettle == \A m \in Msg : m \in pushed ~> Settled(m) \/ Down

=============================================================================
