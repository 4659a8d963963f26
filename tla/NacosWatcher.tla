---------------------------- MODULE NacosWatcher ----------------------------
(***************************************************************************)
(* The watcher of pkg/servicerd/registry/nacos: the subscription callback  *)
(* of the Nacos client, watchChan (capacity 1), Next and Stop.             *)
(*                                                                         *)
(* The client keeps the instances of the service in memory, `known',       *)
(* and calls the callback after each change, one call after the other.     *)
(* Next deletes the "id" of each instance from the Metadata maps that this *)
(* memory shares with it: a second read of one version gives Nacos' own    *)
(* InstanceId instead.                                                     *)
(***************************************************************************)
EXTENDS Naturals

CONSTANT MaxChanges   \* bound: changes of the service's instances

ASSUME NacosAssumption == MaxChanges \in Nat

VARIABLES known,      \* version of what the Nacos client holds in memory
          callbacks,  \* calls of the callback not yet made or blocked in the send
          watchChan,  \* BOOLEAN: the channel holds a token
          next,       \* Next: "wait", "get" or "ended"
          returned,   \* the version that Next returned last
          ids,        \* what is in memory still has its "id" entries
          named,      \* the instances returned last carried those ids
          subscribed, \* until Stop unsubscribes
          stopping,   \* w.cancel was called
          getErrs     \* GetService failed for the latest token

nacosVars == <<known, callbacks, watchChan, next, returned, ids, named, subscribed, stopping, getErrs>>

(* The instances change; the client calls the callback of a subscriber. *)
KnownChanges ==
  /\ known < MaxChanges /\ known' = known + 1 /\ ids' = TRUE
  /\ callbacks' = IF subscribed THEN callbacks + 1 ELSE callbacks
  /\ UNCHANGED <<watchChan, next, returned, named, subscribed, stopping, getErrs>>

(* The callback sends: it blocks while the channel is full. *)
Callback ==
  /\ callbacks > 0 /\ ~watchChan
  /\ callbacks' = callbacks - 1 /\ watchChan' = TRUE
  /\ UNCHANGED <<known, next, returned, ids, named, subscribed, stopping, getErrs>>

NextToken ==
  /\ next = "wait" /\ watchChan /\ watchChan' = FALSE /\ next' = "get"
  /\ UNCHANGED <<known, callbacks, returned, ids, named, subscribed, stopping, getErrs>>

(* A slip: with another token waiting Next drains it and skips the read. *)
NextFetchSkips ==
  /\ next = "get" /\ next' = "wait" /\ getErrs' = FALSE
  /\ returned' = IF watchChan THEN returned ELSE known
  /\ watchChan' = FALSE
  /\ named' = ids /\ ids' = FALSE
  /\ UNCHANGED <<known, callbacks, subscribed, stopping>>

(* GetService reads the client's memory, and the loop takes the ids out of *)
(* it; the caller calls Next again.                                        *)
NextFetch ==
  /\ next = "get" /\ next' = "wait" /\ returned' = known /\ getErrs' = FALSE
  /\ named' = ids /\ ids' = FALSE
  /\ UNCHANGED <<known, callbacks, watchChan, subscribed, stopping>>

(* GetService fails: Next returns the error and the token is spent. *)
NextFetchFails ==
  /\ next = "get" /\ next' = "wait" /\ getErrs' = TRUE
  /\ UNCHANGED <<known, callbacks, watchChan, returned, ids, named, subscribed, stopping>>

NextDone ==
  /\ next = "wait" /\ stopping /\ next' = "ended"
  /\ UNCHANGED <<known, callbacks, watchChan, returned, ids, named, subscribed, stopping, getErrs>>

(* Stop: cancel, then Unsubscribe. *)
StopCancel ==
  /\ ~stopping /\ stopping' = TRUE
  /\ UNCHANGED <<known, callbacks, watchChan, next, returned, ids, named, subscribed, getErrs>>

StopUnsubscribe ==
  /\ stopping /\ subscribed /\ subscribed' = FALSE
  /\ UNCHANGED <<known, callbacks, watchChan, next, returned, ids, named, stopping, getErrs>>

(* newWatcher, for a service that has no instance yet. *)
NacosInit ==
  /\ known = 0 /\ callbacks = 0 /\ watchChan = FALSE /\ next = "wait" /\ returned = 0
  /\ ids = TRUE /\ named = TRUE
  /\ subscribed = TRUE /\ stopping = FALSE /\ getErrs = FALSE

NextStep == NextToken \/ NextFetch \/ NextFetchFails \/ NextDone

NacosNext == KnownChanges \/ Callback \/ NextStep \/ StopCancel \/ StopUnsubscribe

(* The caller calls Next again and again, and goroutines run on. *)
NacosSpec ==
  /\ NacosInit /\ [][NacosNext]_nacosVars
  /\ WF_nacosVars(Callback) /\ WF_nacosVars(NextStep) /\ WF_nacosVars(StopUnsubscribe)

(* What Next returned last becomes what the client knows, however changes  *)
(* and calls interleave, unless the watcher is stopped or the last read    *)
(* failed, which spends the token (newWatcher's callback, Next).  The      *)
(* claim is on the version: a change that is read for two tokens comes the *)
(* second time with other ids.                                             *)
NacosCurrent == returned # known ~> returned = known \/ stopping \/ getErrs

=============================================================================
