---------------------------- MODULE EtcdRegistry ----------------------------
(***************************************************************************)
(* The etcd registry (pkg/servicerd/registry/etcd) for one service: its    *)
(* Register and Deregister, the heartBeat goroutines that Register starts, *)
(* and a watcher of the service's prefix.                                  *)
(*                                                                         *)
(* etcd is external: it grants leases, keeps a key until the lease it was  *)
(* put with expires, and reports every change.  A lease is kept alive by   *)
(* an open channel of client.KeepAlive.  A request may fail, or time out   *)
(* (the caller's context, three seconds in heartBeat) and be applied by    *)
(* etcd later all the same.                                                *)
(***************************************************************************)
EXTENDS Naturals

CONSTANTS MaxRetry,       \* options.maxRetry
          MaxRegisters,   \* bound: calls of Register
          MaxFaults       \* bound: requests that fail, channels that are lost

ASSUME EtcdAssumption ==
  /\ MaxRetry \in Nat \ {0} /\ MaxRegisters \in Nat /\ MaxFaults \in Nat

Beats  == 1 .. MaxRegisters
Leases == 1 .. MaxRegisters + MaxFaults   \* a fault costs at most one lease

VARIABLES rkey,      \* etcd: the lease of the service's key, 0 without a key
          leases,    \* etcd: the leases that live
          granted,   \* etcd: how many leases were granted
          late,      \* requests that were given up and that etcd may still apply
          caller,    \* the goroutine that calls Register and Deregister
          begun,     \* calls of Register
          beat,      \* the heartBeat goroutines
          ctxDone,   \* options.ctx is cancelled
          faults,
          watcher, events, view,  \* the watcher: its place, its channel, Next's last answer
          removed, gaveUp, lateDone, blind  \* history

history  == <<removed, gaveUp, lateDone, blind>>
etcdVars == <<rkey, leases, granted, late, caller, begun, beat, ctxDone, faults,
              watcher, events, view, history>>

Present == rkey # 0

(* A change of the key, which the watch reports. *)
SetKey(l) == rkey' = l /\ events' = TRUE
KeepKey   == UNCHANGED <<rkey, events>>
Fault     == faults < MaxFaults /\ faults' = faults + 1

To(h, place) == beat' = [beat EXCEPT ![h].at = place]
Again(h)     == beat' = [beat EXCEPT ![h].at = "retry", ![h].tries = @ + 1]

(* lease.Grant: the next lease of etcd. *)
Grant == granted' = granted + 1 /\ leases' = leases \cup {granted'}

(* The client keeps a lease alive as long as the channel is open, whether  *)
(* heartBeat still reads from it or not.                                   *)
Kept(h) == beat[h].kac \notin {"nil", "closed"} /\ beat[h].lease \in leases

-----------------------------------------------------------------------------
(* Register: a new lease object, and registerWithKV's Grant. *)
RegisterGrant ==
  /\ caller.at = "idle" /\ begun < MaxRegisters
  /\ begun' = begun + 1
  /\ \/ Grant /\ caller' = [at |-> "put", lease |-> granted'] /\ UNCHANGED faults
     \/ Fault /\ UNCHANGED <<caller, granted, leases>>
  /\ UNCHANGED <<rkey, events, late, beat, ctxDone, watcher, view, history>>

(* registerWithKV's Put, and go heartBeat; an expired lease is an error.   *)
(* A Put that failed with the caller's context may still be applied.       *)
RegisterPut ==
  /\ caller.at = "put"
  /\ caller' = [at |-> "idle"]
  /\ \/ /\ caller.lease \in leases /\ SetKey(caller.lease)
        /\ beat' = [beat EXCEPT ![begun] =
                      [at |-> "start", lease |-> caller.lease, kac |-> "nil", tries |-> 0]]
        /\ removed' = FALSE /\ UNCHANGED <<faults, late>>
     \/ caller.lease \notin leases /\ KeepKey /\ UNCHANGED <<beat, removed, faults, late>>
     \/ /\ Fault /\ KeepKey /\ UNCHANGED <<beat, removed>>
        /\ late' \in {late, late \cup {caller.lease}}
  /\ UNCHANGED <<leases, granted, begun, ctxDone, watcher, view, gaveUp, lateDone, blind>>

(* Deregister: Delete.  The lease object that is closed afterwards granted *)
(* the lease; the client keeps it alive, and heartBeat goes on.            *)
Deregister ==
  /\ caller.at = "idle" /\ begun > 0 /\ ~removed
  /\ \/ removed' = TRUE /\ SetKey(0) /\ UNCHANGED faults
     \/ Fault /\ KeepKey /\ UNCHANGED removed
  /\ UNCHANGED <<leases, granted, late, caller, begun, beat, ctxDone,
                 watcher, view, gaveUp, lateDone, blind>>

CancelCtx ==
  /\ ~ctxDone /\ ctxDone' = TRUE
  /\ UNCHANGED <<rkey, leases, granted, late, caller, begun, beat, faults,
                 watcher, events, view, history>>

-----------------------------------------------------------------------------
(* A slip: the lease is kept alive under a context of its own. *)
BeatStartOwn(h) ==
  /\ beat[h].at = "start"
  /\ beat' = [beat EXCEPT ![h].at = "select", ![h].kac = "own"]
  /\ UNCHANGED <<rkey, leases, granted, late, caller, begun, ctxDone, faults,
                 watcher, events, view, history>>

(* heartBeat, the call of KeepAlive before the loop. *)
BeatStart(h) ==
  /\ beat[h].at = "start"
  /\ \/ beat' = [beat EXCEPT ![h].at = "select", ![h].kac = "open"] /\ UNCHANGED faults
     \/ Fault /\ To(h, "retry")
  /\ UNCHANGED <<rkey, leases, granted, late, caller, begun, ctxDone, watcher, events, view,
                 history>>

(* A slip: the heartbeat ends with its channel. *)
BeatLostEnds(h) ==
  /\ beat[h].at = "select" /\ beat[h].kac = "closed" /\ To(h, "done")
  /\ UNCHANGED <<rkey, leases, granted, late, caller, begun, ctxDone, faults,
                 watcher, events, view, history>>

(* The select: kac is closed; end with the context, or register again. *)
BeatLost(h) ==
  /\ beat[h].at = "select" /\ beat[h].kac = "closed"
  /\ IF ctxDone THEN To(h, "done")
     ELSE beat' = [beat EXCEPT ![h].at = "retry", ![h].tries = 0]
  /\ UNCHANGED <<rkey, leases, granted, late, caller, begun, ctxDone, faults,
                 watcher, events, view, history>>

(* The select: options.ctx.Done. *)
BeatDone(h) ==
  /\ beat[h].at = "select" /\ ctxDone
  /\ To(h, "done")
  /\ UNCHANGED <<rkey, leases, granted, late, caller, begun, ctxDone, faults,
                 watcher, events, view, history>>

(* The head of the retry loop. *)
BeatRetry(h) ==
  /\ beat[h].at = "retry"
  /\ To(h, IF beat[h].tries = MaxRetry THEN "drain" ELSE IF ctxDone THEN "done" ELSE "grant")
  /\ UNCHANGED <<rkey, leases, granted, late, caller, begun, ctxDone, faults,
                 watcher, events, view, history>>

(* registerWithKV in its goroutine: Grant.  An error and the three seconds *)
(* come to the same.                                                       *)
BeatGrant(h) ==
  /\ beat[h].at = "grant"
  /\ \/ /\ Grant /\ beat' = [beat EXCEPT ![h].at = "put", ![h].lease = granted']
        /\ UNCHANGED faults
     \/ (Fault \/ (ctxDone /\ UNCHANGED faults)) /\ Again(h) /\ UNCHANGED <<leases, granted>>
  /\ UNCHANGED <<rkey, late, caller, begun, ctxDone, watcher, events, view, history>>

(* registerWithKV in its goroutine: Put.  After the three seconds etcd may *)
(* still apply it.                                                         *)
BeatPut(h) ==
  /\ beat[h].at = "put"
  /\ \/ SetKey(beat[h].lease) /\ To(h, "keep") /\ UNCHANGED <<faults, late>>
     \/ /\ Fault \/ (ctxDone /\ UNCHANGED faults)
        /\ Again(h) /\ KeepKey /\ late' \in {late, late \cup {beat[h].lease}}
  /\ UNCHANGED <<leases, granted, caller, begun, ctxDone, watcher, view, history>>

(* KeepAlive of the new lease; on an error kac is nil, and it sleeps. *)
BeatKeep(h) ==
  /\ beat[h].at = "keep"
  /\ \/ beat' = [beat EXCEPT ![h].at = "drain", ![h].kac = "open"] /\ UNCHANGED faults
     \/ Fault /\ beat' = [beat EXCEPT ![h].at = "retry", ![h].kac = "nil", ![h].tries = @ + 1]
  /\ UNCHANGED <<rkey, leases, granted, late, caller, begun, ctxDone,
                 watcher, events, view, history>>

(* The receive after the loop: a first answer, or "retry failed"; on a nil *)
(* channel it blocks.                                                      *)
BeatDrain(h) ==
  /\ beat[h].at = "drain" /\ beat[h].kac # "nil"
  /\ IF beat[h].kac = "open" THEN To(h, "select") /\ UNCHANGED gaveUp
                             ELSE To(h, "done") /\ gaveUp' = TRUE
  /\ UNCHANGED <<rkey, leases, granted, late, caller, begun, ctxDone, faults,
                 watcher, events, view, removed, lateDone, blind>>

-----------------------------------------------------------------------------
(* The client closes the channel: no answer in time, the lease expired, or *)
(* the context is done.                                                    *)
LoseChannel(h) ==
  /\ beat[h].kac = "open"
  /\ ctxDone \/ beat[h].lease \notin leases
  /\ beat' = [beat EXCEPT ![h].kac = "closed"]
  /\ UNCHANGED <<rkey, leases, granted, late, caller, begun, ctxDone, faults,
                 watcher, events, view, history>>

DropChannel(h) ==
  /\ beat[h].kac = "open" /\ Fault
  /\ beat' = [beat EXCEPT ![h].kac = "closed"]
  /\ UNCHANGED <<rkey, leases, granted, late, caller, begun, ctxDone,
                 watcher, events, view, history>>

(* A lease that nobody keeps alive expires, and its key goes; an attempt   *)
(* of heartBeat takes less time than a lease lives.                        *)
Expire(l) ==
  /\ l \in leases
  /\ \A h \in Beats : beat[h].lease = l => ~Kept(h) /\ beat[h].at \notin {"start", "put", "keep"}
  /\ leases' = leases \ {l}
  /\ IF rkey = l THEN SetKey(0) ELSE KeepKey
  /\ UNCHANGED <<granted, late, caller, begun, beat, ctxDone, faults, watcher, view, history>>

(* etcd applies a request that was given up. *)
ApplyLate(l) ==
  /\ l \in late /\ late' = late \ {l}
  /\ IF l \in leases THEN SetKey(l) /\ lateDone' = TRUE ELSE KeepKey /\ UNCHANGED lateDone
  /\ UNCHANGED <<leases, granted, caller, begun, beat, ctxDone, faults, watcher, view,
                 removed, gaveUp, blind>>

-----------------------------------------------------------------------------
(* A slip: the answer is taken and nothing is read. *)
NextEventOnly ==
  /\ watcher = "wait" /\ events
  /\ events' = FALSE /\ UNCHANGED watcher
  /\ UNCHANGED <<rkey, leases, granted, late, caller, begun, beat, ctxDone, faults, view, history>>

(* watcher.Next: an answer of the watch channel. *)
NextEvent ==
  /\ watcher = "wait" /\ events
  /\ events' = FALSE /\ watcher' = "get"
  /\ UNCHANGED <<rkey, leases, granted, late, caller, begun, beat, ctxDone, faults, view, history>>

(* watcher.Next: getInstance, at first and after an answer.  An error uses *)
(* the answer up: the next call waits for another one.                     *)
NextGet ==
  /\ watcher = "get" /\ watcher' = "wait"
  /\ \/ view' = Present /\ blind' = FALSE /\ UNCHANGED faults
     \/ Fault /\ blind' = TRUE /\ UNCHANGED view
  /\ UNCHANGED <<rkey, leases, granted, late, caller, begun, beat, ctxDone, events,
                 removed, gaveUp, lateDone>>

(* watcher.Stop: Next answers with the context's error from now on. *)
WatcherStop ==
  /\ watcher # "stopped" /\ watcher' = "stopped"
  /\ UNCHANGED <<rkey, leases, granted, late, caller, begun, beat, ctxDone, faults,
                 events, view, history>>

-----------------------------------------------------------------------------
EtcdInit ==
  /\ rkey = 0 /\ leases = {} /\ granted = 0 /\ late = {}
  /\ caller = [at |-> "idle"] /\ begun = 0
  /\ beat = [h \in Beats |-> [at |-> "off", lease |-> 0, kac |-> "nil", tries |-> 0]]
  /\ ctxDone = FALSE /\ faults = 0
  /\ watcher = "get" /\ events = FALSE /\ view = FALSE
  /\ removed = FALSE /\ gaveUp = FALSE /\ lateDone = FALSE /\ blind = FALSE

Beating(h) == \/ BeatStart(h) \/ BeatLost(h) \/ BeatDone(h) \/ BeatRetry(h)
              \/ BeatGrant(h) \/ BeatPut(h) \/ BeatKeep(h) \/ BeatDrain(h)

EtcdNext ==
  \/ RegisterGrant \/ RegisterPut \/ Deregister \/ CancelCtx
  \/ \E h \in Beats : Beating(h) \/ LoseChannel(h) \/ DropChannel(h)
  \/ \E l \in Leases : Expire(l) \/ ApplyLate(l)
  \/ NextEvent \/ NextGet \/ WatcherStop

(* Goroutines run on, a lease that nobody keeps alive expires, the client  *)
(* closes the channel of a lease that is gone or of a context that is      *)
(* done, and the watcher's user calls Next again.                          *)
EtcdSpec ==
  /\ EtcdInit /\ [][EtcdNext]_etcdVars
  /\ \A h \in Beats : WF_etcdVars(Beating(h)) /\ WF_etcdVars(LoseChannel(h))
  /\ \A l \in Leases : WF_etcdVars(Expire(l))
  /\ WF_etcdVars(NextEvent \/ NextGet)

-----------------------------------------------------------------------------
Undisturbed == ~removed /\ ~ctxDone /\ ~lateDone

(* A service that was registered comes back whatever channel was lost, as  *)
(* long as no heartbeat ran out of attempts (heartBeat: maxRetry) or waits *)
(* on a channel it never got.                                              *)
HeartBeatHeals ==
  (\E h \in Beats : beat[h].at # "off") ~>
    \/ \E h \in Beats : Kept(h) /\ rkey = beat[h].lease
    \/ ~Undisturbed \/ gaveUp
    \/ \E h \in Beats : beat[h].at = "drain" /\ beat[h].kac = "nil"

(* Once options.ctx is cancelled and nobody calls Register any more, the    *)
(* service leaves etcd for good, whatever its heartbeats were doing: also   *)
(* one that registered it again after Deregister, which does not end        *)
(* heartBeat, and also if a Put of Register or heartBeat is applied late.   *)
CancelRemoves == ctxDone ~> [](~Present)

(* The watcher's user sees the service come and go: a change is either     *)
(* seen or followed by another one, unless a Get failed, which uses up the *)
(* notification (watcher.Next).                                            *)
WatcherCurrent ==
  \A b \in BOOLEAN : Present = b ~> view = b \/ Present # b \/ blind \/ watcher = "stopped"

=============================================================================
