-------------------------- MODULE ServiceDiscovery --------------------------
(***************************************************************************)
(* Service discovery through Consul: the registry of                       *)
(* pkg/servicerd/registry/consul and the gRPC resolvers of                 *)
(* pkg/servicerd/discovery that watch it, for one service name.            *)
(*                                                                         *)
(* Goroutines: one Watch call and one watch loop per resolver, and the     *)
(* resolve loop a Watch has started.  r.lock is held through Watch.        *)
(* set.lock guards set.watcher: broadcast walks the map under it with      *)
(* sends that never block, so the walk is one step.                        *)
(*                                                                         *)
(* A list of instances carries the Consul index it was read at; the code   *)
(* keeps the list alone.  An instance is usable if parseEndpoint finds an  *)
(* endpoint of the wanted scheme.                                          *)
(***************************************************************************)
EXTENDS Integers, FiniteSets

CONSTANTS Resolvers,   \* Build calls, one per gRPC connection
          Instances, Usable,
          Lists,       \* lists of instances Consul may hold
          MaxIndex,    \* bound: the index, which is 1 at the start
          None

ASSUME DiscoveryAssumption == /\ Usable \subseteq Instances
                              /\ Lists \subseteq SUBSET Instances
                              /\ MaxIndex \in Nat \ {0}
                              /\ None \notin Resolvers

VARIABLES catalog,     \* Consul: the passing instances and the index
          resolve,     \* the resolve loop each Watch may have started
          services,    \* serviceSet.services, NoList before the first Store
          created,     \* registry[name] exists
          watchers,    \* serviceSet.watcher
          lock,        \* Registry.lock
          at,          \* where each Build, then its watch loop, is
          first,       \* this Watch has created the set
          timedOut,    \* Build has given up on this Watch
          event,       \* watcher.event holds a value
          cancelled,   \* watcher.ctx is done
          got,         \* the list Next has returned
          addrs        \* the addresses given to the gRPC connection

resolveVars   == <<resolve, services>>
registryVars  == <<created, watchers, lock>>
resolverVars  == <<at, first, timedOut, event, cancelled, got, addrs>>
discoveryVars == <<catalog, resolveVars, registryVars, resolverVars>>

NoList == [index |-> 0, list |-> {}]
NoLoop == [at |-> "off", idx |-> 0, answer |-> NoList]

Goto(w, place) == at' = [at EXCEPT ![w] = place]

(* Build runs Watch in a goroutine and waits for it. *)
InWatch == {"lock", "add", "load", "send", "unlock"}

-----------------------------------------------------------------------------
(* External: instances are registered, fail their check or leave. *)
Change ==
  /\ catalog.index < MaxIndex
  /\ \E l \in Lists \ {catalog.list} :
       catalog' = [index |-> catalog.index + 1, list |-> l]
  /\ UNCHANGED <<resolveVars, registryVars, resolverVars>>

-----------------------------------------------------------------------------
(* resolve: the query before the loop, with index 0.  An error leaves 0. *)
FirstQuery(w) ==
  /\ resolve[w].at = "first"
  /\ resolve' = [resolve EXCEPT ![w] =
       [at |-> IF catalog.list = {} THEN "ask" ELSE "store",
        idx |-> catalog.index, answer |-> catalog]]
  /\ UNCHANGED <<catalog, services, registryVars, resolverVars>>

FirstFails(w) ==
  /\ resolve[w].at = "first"
  /\ resolve' = [resolve EXCEPT ![w].at = "ask"]
  /\ UNCHANGED <<catalog, services, registryVars, resolverVars>>

(* A slip: the new index is kept before it is compared with the old one. *)
QueryForgets(w) ==
  /\ resolve[w].at = "ask"
  /\ resolve' = [resolve EXCEPT ![w].idx = catalog.index]
  /\ UNCHANGED <<catalog, services, registryVars, resolverVars>>

(* The loop's blocking query has an answer: the service has changed, or the *)
(* wait is over.  An empty list is not broadcast.  An error changes nothing.*)
Query(w) ==
  /\ resolve[w].at = "ask"
  /\ resolve' = [resolve EXCEPT ![w] =
       [at |-> IF catalog.list # {} /\ catalog.index # @.idx THEN "store" ELSE "ask",
        idx |-> catalog.index, answer |-> catalog]]
  /\ UNCHANGED <<catalog, services, registryVars, resolverVars>>

(* broadcast: services.Store, then the walk over the watchers. *)
Store(w) ==
  /\ resolve[w].at = "store"
  /\ services' = resolve[w].answer
  /\ resolve' = [resolve EXCEPT ![w].at = "notify"]
  /\ UNCHANGED <<catalog, registryVars, resolverVars>>

Notify(w) ==
  /\ resolve[w].at = "notify"
  /\ event' = [v \in Resolvers |-> event[v] \/ v \in watchers]
  /\ resolve' = [resolve EXCEPT ![w].at = "ask"]
  /\ UNCHANGED <<catalog, services, registryVars, at, first, timedOut, cancelled, got, addrs>>

-----------------------------------------------------------------------------
Build(w) ==
  /\ at[w] = "new"
  /\ Goto(w, "lock")
  /\ UNCHANGED <<catalog, resolveVars, registryVars, first, timedOut, event, cancelled,
                 got, addrs>>

(* Build's timer fires first: an error for gRPC, and Watch goes on alone. *)
BuildTimeout(w) ==
  /\ at[w] \in InWatch /\ ~timedOut[w]
  /\ timedOut' = [timedOut EXCEPT ![w] = TRUE]
  /\ UNCHANGED <<catalog, resolveVars, registryVars, at, first, event, cancelled, got, addrs>>

(* A slip: every Watch takes itself for the first. *)
AlwaysFirst == TRUE

FirstWatch == ~created

(* Watch: r.lock.Lock, and registry[name], created if it is not there. *)
WatchLock(w) ==
  /\ at[w] = "lock" /\ lock = None
  /\ lock' = w
  /\ first' = [first EXCEPT ![w] = FirstWatch]
  /\ created' = TRUE
  /\ Goto(w, "add")
  /\ UNCHANGED <<catalog, resolveVars, watchers, timedOut, event, cancelled, got, addrs>>

WatchAdd(w) ==
  /\ at[w] = "add"
  /\ watchers' = watchers \cup {w}
  /\ Goto(w, "load")
  /\ UNCHANGED <<catalog, resolveVars, created, lock, first, timedOut, event, cancelled,
                 got, addrs>>

(* A slip: a new watcher is not told of what is already there. *)
WatchLoadQuiet(w) ==
  /\ at[w] = "load"
  /\ Goto(w, "unlock")
  /\ UNCHANGED <<catalog, resolveVars, registryVars, first, timedOut, event, cancelled,
                 got, addrs>>

(* set.services.Load: what is already there is pushed to the new watcher. *)
WatchLoad(w) ==
  /\ at[w] = "load"
  /\ Goto(w, IF services.list # {} THEN "send" ELSE "unlock")
  /\ UNCHANGED <<catalog, resolveVars, registryVars, first, timedOut, event, cancelled,
                 got, addrs>>

(* w.event <- struct{}{}, a channel of capacity 1, with r.lock held. *)
WatchSend(w) ==
  /\ at[w] = "send" /\ ~event[w]
  /\ event' = [event EXCEPT ![w] = TRUE]
  /\ Goto(w, "unlock")
  /\ UNCHANGED <<catalog, resolveVars, registryVars, first, timedOut, cancelled, got, addrs>>

(* go r.resolve(set) for the first watcher, r.lock.Unlock, return.  Build   *)
(* starts the watch loop, unless it has given up.                           *)
WatchReturn(w) ==
  /\ at[w] = "unlock"
  /\ lock' = None
  /\ resolve' = IF first[w] THEN [resolve EXCEPT ![w].at = "first"] ELSE resolve
  /\ first' = [first EXCEPT ![w] = FALSE]
  /\ Goto(w, IF timedOut[w] THEN "orphan" ELSE "next")
  /\ UNCHANGED <<catalog, services, created, watchers, timedOut, event, cancelled, got,
                 addrs>>

-----------------------------------------------------------------------------
(* watcher.Next receives; the loop of discoveryResolver.watch is at its     *)
(* select when it is not in update.                                         *)
Next(w) ==
  /\ at[w] = "next" /\ event[w]
  /\ event' = [event EXCEPT ![w] = FALSE]
  /\ Goto(w, "loadNext")
  /\ UNCHANGED <<catalog, resolveVars, registryVars, first, timedOut, cancelled, got, addrs>>

(* Next: set.services.Load *)
NextLoad(w) ==
  /\ at[w] = "loadNext"
  /\ got' = [got EXCEPT ![w] = services]
  /\ Goto(w, "update")
  /\ UNCHANGED <<catalog, resolveVars, registryVars, first, timedOut, event, cancelled, addrs>>

(* parseEndpoint: instances without the wanted endpoint are skipped. *)
Endpoints(l) == l \cap Usable

(* discoveryResolver.update refuses to write an empty list. *)
Update(w) ==
  LET found == Endpoints(got[w].list) IN
  /\ at[w] = "update"
  /\ addrs' = IF found = {} THEN addrs ELSE [addrs EXCEPT ![w] = found]
  /\ Goto(w, "next")
  /\ UNCHANGED <<catalog, resolveVars, registryVars, first, timedOut, event, cancelled, got>>

(* Next or the loop finds its context done: the loop returns. *)
NextCancelled(w) ==
  /\ at[w] = "next" /\ cancelled[w]
  /\ Goto(w, "ended")
  /\ UNCHANGED <<catalog, resolveVars, registryVars, first, timedOut, event, cancelled,
                 got, addrs>>

(* discoveryResolver.Close: cancel, then Stop deletes the watcher. *)
Close(w) ==
  /\ at[w] \in {"next", "loadNext", "update"} /\ ~cancelled[w]
  /\ cancelled' = [cancelled EXCEPT ![w] = TRUE]
  /\ UNCHANGED <<catalog, resolveVars, registryVars, at, first, timedOut, event, got, addrs>>

Stop(w) ==
  /\ cancelled[w] /\ w \in watchers
  /\ watchers' = watchers \ {w}
  /\ UNCHANGED <<catalog, resolveVars, created, lock, resolverVars>>

-----------------------------------------------------------------------------
DiscoveryInit ==
  /\ catalog \in [index : {1}, list : Lists]
  /\ resolve = [w \in Resolvers |-> NoLoop]
  /\ services = NoList
  /\ created = FALSE /\ watchers = {} /\ lock = None
  /\ at = [w \in Resolvers |-> "new"]
  /\ first = [w \in Resolvers |-> FALSE]
  /\ timedOut = [w \in Resolvers |-> FALSE]
  /\ event = [w \in Resolvers |-> FALSE]
  /\ cancelled = [w \in Resolvers |-> FALSE]
  /\ got = [w \in Resolvers |-> NoList]
  /\ addrs = [w \in Resolvers |-> {}]

ResolveStep(w) == FirstQuery(w) \/ FirstFails(w) \/ Query(w) \/ Store(w) \/ Notify(w)
WatchStep(w)   == WatchLock(w) \/ WatchAdd(w) \/ WatchLoad(w) \/ WatchSend(w) \/ WatchReturn(w)
LoopStep(w)    == Next(w) \/ NextLoad(w) \/ Update(w) \/ NextCancelled(w)

DiscoveryNext ==
  \/ Change
  \/ \E w \in Resolvers : \/ ResolveStep(w) \/ WatchStep(w) \/ LoopStep(w)
                          \/ Build(w) \/ BuildTimeout(w) \/ Close(w) \/ Stop(w)

DiscoverySpec == DiscoveryInit /\ [][DiscoveryNext]_discoveryVars

(* Goroutines run on, Consul answers, and a lock that is free again and     *)
(* again is given to whoever waits for it (sync.RWMutex does not starve).   *)
DiscoveryLiveSpec ==
  /\ DiscoverySpec
  /\ \A w \in Resolvers :
       /\ WF_discoveryVars(ResolveStep(w)) /\ WF_discoveryVars(LoopStep(w))
       /\ WF_discoveryVars(Stop(w))
       /\ SF_discoveryVars(WatchLock(w)) /\ WF_discoveryVars(WatchStep(w))

-----------------------------------------------------------------------------
ListType  == [index : Nat, list : SUBSET Instances]
LoopType  == [at : {"off", "first", "ask", "store", "notify"}, idx : Nat, answer : ListType]
Places    == InWatch \cup {"new", "orphan", "next", "loadNext", "update", "ended"}

(* Type invariant. *)
DiscoveryTypeOK ==
  /\ catalog \in ListType /\ services \in ListType
  /\ resolve \in [Resolvers -> LoopType]
  /\ created \in BOOLEAN /\ watchers \subseteq Resolvers
  /\ lock \in Resolvers \cup {None}
  /\ at \in [Resolvers -> Places]
  /\ first \in [Resolvers -> BOOLEAN] /\ timedOut \in [Resolvers -> BOOLEAN]
  /\ event \in [Resolvers -> BOOLEAN] /\ cancelled \in [Resolvers -> BOOLEAN]
  /\ got \in [Resolvers -> ListType]
  /\ addrs \in [Resolvers -> SUBSET Usable]

Watching(w) == at[w] \in {"next", "loadNext", "update"} /\ ~cancelled[w]

(* A resolver that has not seen the list in the registry will: its channel  *)
(* holds a value, it is about to load, or the broadcast has yet to reach it *)
(* (Watch registers before it loads, broadcast stores before it notifies,   *)
(* and drops a notification only onto a full channel).                      *)
NoLostUpdate ==
  \A w \in Resolvers :
     Watching(w) /\ got[w] # services
     => \/ event[w] \/ at[w] = "loadNext"
        \/ \E v \in Resolvers : resolve[v].at = "notify"

(* A resolver is never handed an older list than the one it has: only one   *)
(* goroutine stores lists for a service (Watch starts resolve for the first *)
(* watcher only).                                                           *)
NeverBackwards ==
  [][\A w \in Resolvers : got'[w].index >= got[w].index]_discoveryVars

UpToDate(w) == addrs[w] = catalog.list \cap Usable

(* Once a resolver is watching, it gets the addresses Consul has, as long   *)
(* as there are any, also after failed queries (resolve, Next, update).     *)
CatchesUp ==
  \A w \in Resolvers :
     Watching(w) ~> UpToDate(w) \/ catalog.list \cap Usable = {} \/ ~Watching(w)

(* Watch returns (Watch: pushing the present list to a new watcher is there *)
(* so that "the initial data" is not "blocked forever").                    *)
WatchReturns ==
  \A w \in Resolvers : at[w] \in InWatch ~> at[w] \notin InWatch

=============================================================================
