---------------------------- MODULE SSEHubProofs ----------------------------
(* Proofs about the event hub, for any number of users, connections and    *)
(* workers and any capacity of its channels: its types, which connections  *)
(* the hub knows, where each message is, in which order those of the fast  *)
(* path arrive, and that the hub implements the abstract EventService.     *)
EXTENDS SSEHub, FiniteSetTheorems, TLAPS

(* What a goroutine holds is what its place in the code needs. *)
LoopHands   == /\ hub.at \in {"send", "retry"} => hub.conn \in Conns /\ hub.msg \in Msg
               /\ hub.at \in {"delete", "close"} => hub.conn \in Conns
WorkerHands == \A w \in Workers : worker[w] # NoTask => worker[w].msg \in Msg
PushHands   == \A p \in Pushers :
                 push[p].at \in {"one", "full", "submit"} => push[p].uid \in Uids
CloseHands  == closing.at \in {"delete", "close"} => closing.conn \in Conns

(* The parts of the inductive invariant, by the variables they are about. *)
LoopPart  == hub \in LoopState /\ LoopHands
ChanPart  == ChanTypeOK /\ WorkerHands
PushPart  == PushTypeOK /\ PushHands
ClosePart == closing \in CloseState /\ cancelled \in BOOLEAN /\ CloseHands
StatPart  == panicked \in BOOLEAN /\ stats \in [total : Nat, success : Nat, failed : Nat]

TypeInv == ConnTypeOK /\ LoopPart /\ ChanPart /\ PushPart /\ ClosePart /\ StatPart

(* A part whose variables do not change is kept. *)
LEMMA Kept ==
  ASSUME TypeInv
  PROVE  /\ UNCHANGED <<clients, connVars>> => ConnTypeOK'
         /\ UNCHANGED hub => LoopPart'
         /\ UNCHANGED chanVars => ChanPart'
         /\ UNCHANGED pushVars => PushPart'
         /\ UNCHANGED closeVars => ClosePart'
         /\ UNCHANGED <<panicked, stats>> => StatPart'
<1>1. UNCHANGED <<clients, connVars>> => ConnTypeOK'
  BY DEF TypeInv, ConnTypeOK, connVars
<1>2. UNCHANGED hub => LoopPart'
  BY DEF TypeInv, LoopPart, LoopHands
<1>3. UNCHANGED chanVars => ChanPart'
  BY DEF TypeInv, ChanPart, ChanTypeOK, WorkerHands, chanVars
<1>4. UNCHANGED pushVars => PushPart'
  BY DEF TypeInv, PushPart, PushTypeOK, PushHands, pushVars
<1>5. UNCHANGED closeVars => ClosePart'
  BY DEF TypeInv, ClosePart, CloseHands, closeVars
<1>6. UNCHANGED <<panicked, stats>> => StatPart'
  BY DEF TypeInv, StatPart
<1> QED BY <1>1, <1>2, <1>3, <1>4, <1>5, <1>6


(* Every action keeps the types. *)
LEMMA TypeStep == TypeInv /\ [HubNext]_hubVars => TypeInv'
<1> SUFFICES ASSUME TypeInv, [HubNext]_hubVars PROVE TypeInv'
  OBVIOUS
<1>1. CASE UNCHANGED hubVars
  BY <1>1, Kept DEF hubVars, TypeInv
<1>2. ASSUME NEW c \in Conns, Open(c) PROVE TypeInv'
  <2>1. ConnTypeOK'
    BY <1>2 DEF Open, TypeInv, ConnTypeOK, connVars
  <2> QED BY <1>2, <2>1, Kept DEF Open, TypeInv
<1>3. ASSUME NEW c \in Conns, Register(c) PROVE TypeInv'
  <2>1. ConnTypeOK'
    BY <1>3, HubAssumption DEF Register, TypeInv, ConnTypeOK, connVars
  <2> QED BY <1>3, <2>1, Kept DEF Register, TypeInv
<1>4. ASSUME NEW c \in Conns, NEW ok \in BOOLEAN, Deliver(c, ok) PROVE TypeInv'
  <2>1. ConnTypeOK'
    <3>1. send' \in [Conns -> Seq(Msg)]
      BY <1>4 DEF Deliver, TypeInv, ConnTypeOK
    <3>2. (sentClose[c] \/ Head(send[c]).event = CloseEvent) \in BOOLEAN
      BY Zenon
    <3>3. sentClose' \in [Conns -> BOOLEAN]
      BY <1>4, <3>2 DEF Deliver, TypeInv, ConnTypeOK
    <3>4. cpc' \in [Conns -> {"new", "register", "serving", "leaving", "done"}]
      BY <1>4 DEF Deliver, TypeInv, ConnTypeOK
    <3> QED BY <1>4, <3>1, <3>3, <3>4 DEF Deliver, TypeInv, ConnTypeOK
  <2>2. StatPart'
    BY <1>4 DEF Deliver, TypeInv, StatPart
  <2> QED BY <1>4, <2>1, <2>2, Kept DEF Deliver, TypeInv
<1>5. ASSUME NEW c \in Conns, Disconnect(c) PROVE TypeInv'
  <2>1. ConnTypeOK'
    BY <1>5 DEF Disconnect, TypeInv, ConnTypeOK, connVars
  <2> QED BY <1>5, <2>1, Kept DEF Disconnect, TypeInv
<1>6. ASSUME NEW c \in Conns, StreamClosed(c) PROVE TypeInv'
  <2>1. ConnTypeOK'
    BY <1>6 DEF StreamClosed, TypeInv, ConnTypeOK, connVars
  <2> QED BY <1>6, <2>1, Kept DEF StreamClosed, TypeInv
<1>7. ASSUME NEW c \in Conns, Unregister(c) PROVE TypeInv'
  <2>1. ConnTypeOK'
    BY <1>7 DEF Unregister, TypeInv, ConnTypeOK, connVars
  <2>2. LoopPart'
    BY <1>7 DEF Unregister, TypeInv, LoopPart, LoopHands, LoopState
  <2> QED BY <1>7, <2>1, <2>2, Kept DEF Unregister, TypeInv
<1>8. CASE UnregisterDelete
  <2>1. ConnTypeOK'
    BY <1>8 DEF UnregisterDelete, TypeInv, ConnTypeOK, connVars
  <2>2. LoopPart'
    BY <1>8 DEF UnregisterDelete, TypeInv, LoopPart, LoopHands, LoopState
  <2> QED BY <1>8, <2>1, <2>2, Kept DEF UnregisterDelete, TypeInv
<1>9. CASE UnregisterClose
  <2>1. ConnTypeOK'
    BY <1>9 DEF UnregisterClose, TypeInv, ConnTypeOK, connVars
  <2>2. LoopPart'
    BY <1>9 DEF UnregisterClose, TypeInv, LoopPart, LoopHands, LoopState, Idle
  <2>3. StatPart'
    BY <1>9 DEF UnregisterClose, TypeInv, StatPart, ConnTypeOK, LoopPart, LoopHands
  <2> QED BY <1>9, <2>1, <2>2, <2>3, Kept DEF UnregisterClose, TypeInv
<1>10. CASE Take
  <2>0. PICK m \in Msg : /\ m = Head(broadcast) /\ m.uid \in Uids
                        /\ Tail(broadcast) \in Seq(Msg)
                        /\ Len(Tail(broadcast)) <= BroadcastCap
    <3>1. broadcast \in Seq(Msg) /\ broadcast # <<>> /\ Len(broadcast) <= BroadcastCap
      BY <1>10 DEF Take, TypeInv, ChanPart, ChanTypeOK
    <3>2. Head(broadcast) \in Msg /\ Tail(broadcast) \in Seq(Msg)
          /\ Len(Tail(broadcast)) = Len(broadcast) - 1
      BY <3>1
    <3>3. Head(broadcast).uid \in Uids BY <3>2 DEF Msg
    <3> QED BY <3>1, <3>2, <3>3, HubAssumption
  <2>1. LoopPart'
    <3>1. CASE clients[m.uid] = None
      BY <3>1, <2>0, <1>10 DEF Take, TypeInv, LoopPart, LoopHands
    <3>2. CASE clients[m.uid] # None
      <4>1. clients[m.uid] \in Conns
        BY <3>2, <2>0 DEF TypeInv, ConnTypeOK
      <4>2. hub' = [at |-> "send", conn |-> clients[m.uid], msg |-> m, tries |-> 0]
        BY <3>2, <2>0, <1>10 DEF Take
      <4> QED BY <4>1, <4>2 DEF LoopPart, LoopHands, LoopState
    <3> QED BY <3>1, <3>2
  <2>2. ChanPart'
    BY <1>10, <2>0 DEF Take, TypeInv, ChanPart, ChanTypeOK, WorkerHands
  <2> QED BY <1>10, <2>1, <2>2, Kept DEF Take, TypeInv
<1>11. CASE HubSend
  <2>1. ConnTypeOK'
    BY <1>11 DEF HubSend, TypeInv, ConnTypeOK, LoopPart, LoopHands, connVars
  <2>2. LoopPart'
    BY <1>11 DEF HubSend, TypeInv, LoopPart, LoopHands, LoopState, Idle
  <2>3. StatPart'
    BY <1>11 DEF HubSend, TypeInv, StatPart, ConnTypeOK, LoopPart, LoopHands
  <2> QED BY <1>11, <2>1, <2>2, <2>3, Kept DEF HubSend, TypeInv
<1>12. CASE HubFull
  <2>1. LoopPart'
    BY <1>12 DEF HubFull, TypeInv, LoopPart, LoopHands, LoopState
  <2> QED BY <1>12, <2>1, Kept DEF HubFull, TypeInv
<1>13. CASE SendTimeout
  <2>1. LoopPart'
    BY <1>13 DEF SendTimeout, TypeInv, LoopPart, LoopHands, LoopState, Idle
  <2>2. StatPart'
    BY <1>13 DEF SendTimeout, TypeInv, StatPart
  <2> QED BY <1>13, <2>1, <2>2, Kept DEF SendTimeout, TypeInv
<1>14. CASE HubStop
  <2>1. LoopPart'
    BY <1>14 DEF HubStop, TypeInv, LoopPart, LoopHands, LoopState
  <2> QED BY <1>14, <2>1, Kept DEF HubStop, TypeInv
<1>15. CASE AppPush
  <2>1. PushPart'
    BY <1>15, HubAssumption DEF AppPush, TypeInv, PushPart, PushTypeOK, PushHands, PushState, PushStart, RangeKeys, Events, Pushers
  <2> QED BY <1>15, <2>1, Kept DEF AppPush, TypeInv
<1>16. ASSUME NEW p \in Pushers, PushNext(p) PROVE TypeInv'
  <2>1. PushPart'
    <3> DEFINE Becomes(q) == /\ push' = [push EXCEPT ![p] = q]
                             /\ q.at \in {"one", "full", "submit"} => q.uid \in Uids
    <3>1. PICK q \in PushState : Becomes(q)
      <4>1. push \in [Pushers -> PushState] BY DEF TypeInv, PushPart, PushTypeOK
      <4>2. ASSUME NEW u \in push[p].todo,
                   push' = [push EXCEPT ![p].todo = @ \ {u},
                                        ![p].at   = IF clients[u] = None THEN "next" ELSE "one",
                                        ![p].uid  = u]
            PROVE  \E q \in PushState : Becomes(q)
        <5>1. u \in Uids BY <4>1, <4>2 DEF PushState
        <5>2. PICK q : q = [push[p] EXCEPT !.todo = @ \ {u},
                                           !.at   = IF clients[u] = None THEN "next" ELSE "one",
                                           !.uid  = u]
          OBVIOUS
        <5>3. q \in PushState /\ q.uid = u BY <5>1, <5>2, <4>1 DEF PushState
        <5>4. push' = [push EXCEPT ![p] = q] BY <4>1, <4>2, <5>2 DEF PushState
        <5> QED BY <5>1, <5>3, <5>4
      <4>3. ASSUME push' = [push EXCEPT ![p] = NoPush] PROVE \E q \in PushState : Becomes(q)
        <5>1. NoPush \in PushState /\ NoPush.at = "idle"
          <6>1. 0 \in Events BY HubAssumption DEF Events
          <6> QED BY <6>1 DEF NoPush, PushState
        <5> QED BY <4>3, <5>1
      <4> QED BY <4>2, <4>3, <1>16 DEF PushNext
    <3> QED BY <3>1, <1>16 DEF PushNext, TypeInv, PushPart, PushTypeOK, PushHands
  <2> QED BY <1>16, <2>1, Kept DEF PushNext, TypeInv
<1>17. ASSUME NEW p \in Pushers, PushOne(p) PROVE TypeInv'
  <2>1. PushPart'
    BY <1>17 DEF PushOne, TypeInv, PushPart, PushTypeOK, PushHands, PushState
  <2>2. ChanPart'
    <3>1. Pushing(p) \in Msg
      BY <1>17 DEF PushOne, Pushing, Msg, TypeInv, PushPart, PushHands, PushTypeOK, PushState
    <3>2. broadcast' \in Seq(Msg) /\ Len(broadcast') <= BroadcastCap
      <4>1. broadcast \in Seq(Msg) /\ Len(broadcast) <= BroadcastCap /\ BroadcastCap \in Nat
        BY HubAssumption DEF TypeInv, ChanPart, ChanTypeOK
      <4>2. CASE Len(broadcast) < BroadcastCap
        <5>1. broadcast' = Append(broadcast, Pushing(p)) BY <1>17, <4>2 DEF PushOne
        <5> QED BY <3>1, <4>1, <4>2, <5>1
      <4>3. CASE ~(Len(broadcast) < BroadcastCap)
        <5>1. broadcast' = broadcast BY <1>17, <4>3 DEF PushOne
        <5> QED BY <4>1, <5>1
      <4> QED BY <4>2, <4>3
    <3> QED BY <1>17, <3>2 DEF PushOne, TypeInv, ChanPart, ChanTypeOK, WorkerHands
  <2>3. StatPart'
    BY <1>17 DEF PushOne, TypeInv, StatPart
  <2> QED BY <1>17, <2>1, <2>2, <2>3, Kept DEF PushOne, TypeInv
<1>18. ASSUME NEW p \in Pushers, SubmitAdd(p) PROVE TypeInv'
  <2>1. PushPart'
    BY <1>18 DEF SubmitAdd, TypeInv, PushPart, PushTypeOK, PushHands, PushState
  <2> QED BY <1>18, <2>1, Kept DEF SubmitAdd, TypeInv
<1>19. ASSUME NEW p \in Pushers, Submit(p) PROVE TypeInv'
  <2>1. PushPart'
    BY <1>19 DEF Submit, TypeInv, PushPart, PushTypeOK, PushHands, PushState
  <2>2. ChanPart'
    BY <1>19 DEF Submit, TypeInv, ChanPart, ChanTypeOK, WorkerHands, TaskState, Pushing, Msg, PushPart, PushHands, PushTypeOK, PushState
  <2>3. StatPart'
    BY <1>19 DEF Submit, TypeInv, StatPart, ChanPart, ChanTypeOK
  <2> QED BY <1>19, <2>1, <2>2, <2>3, Kept DEF Submit, TypeInv
<1>20. ASSUME NEW w \in Workers, WorkerTake(w) PROVE TypeInv'
  <2>1. ChanPart'
    BY <1>20 DEF WorkerTake, TypeInv, ChanPart, ChanTypeOK, WorkerHands, TaskState
  <2> QED BY <1>20, <2>1, Kept DEF WorkerTake, TypeInv
<1>21. ASSUME NEW w \in Workers, WorkerPush(w) PROVE TypeInv'
  <2>1. ChanPart'
    <3>1. worker[w].msg \in Msg
      BY <1>21 DEF WorkerPush, TypeInv, ChanPart, WorkerHands
    <3>2. broadcast' \in Seq(Msg) /\ Len(broadcast') <= BroadcastCap
      BY <1>21, <3>1, HubAssumption DEF WorkerPush, TypeInv, ChanPart, ChanTypeOK
    <3>3. NoTask \in TaskState BY DEF NoTask, TaskState
    <3>4. worker' \in [Workers -> TaskState] /\ WorkerHands'
      BY <1>21, <3>3 DEF WorkerPush, TypeInv, ChanPart, ChanTypeOK, WorkerHands
    <3> QED BY <1>21, <3>2, <3>4 DEF WorkerPush, TypeInv, ChanPart, ChanTypeOK
  <2> QED BY <1>21, <2>1, Kept DEF WorkerPush, TypeInv
<1>22. ASSUME NEW w \in Workers, WorkerTimeout(w) PROVE TypeInv'
  <2>1. ChanPart'
    <3>1. worker[w].msg \in Msg
      BY <1>22 DEF WorkerTimeout, TypeInv, ChanPart, WorkerHands
    <3>2. PICK t \in TaskState : /\ worker' = [worker EXCEPT ![w] = t]
                                 /\ t # NoTask => t.msg \in Msg
      <4>1. worker \in [Workers -> TaskState] BY DEF TypeInv, ChanPart, ChanTypeOK
      <4>2. NoTask \in TaskState BY DEF NoTask, TaskState
      <4>3. [worker[w] EXCEPT !.tries = @ + 1] \in TaskState
            /\ [worker[w] EXCEPT !.tries = @ + 1].msg = worker[w].msg
        BY <4>1 DEF TaskState
      <4>4. \/ worker' = [worker EXCEPT ![w] = NoTask]
            \/ worker' = [worker EXCEPT ![w] = [worker[w] EXCEPT !.tries = @ + 1]]
        BY <1>22, <4>1 DEF WorkerTimeout, TaskState
      <4> QED BY <3>1, <4>2, <4>3, <4>4
    <3>3. worker' \in [Workers -> TaskState] /\ WorkerHands'
      BY <3>2 DEF TypeInv, ChanPart, ChanTypeOK, WorkerHands
    <3> QED BY <1>22, <3>3 DEF WorkerTimeout, TypeInv, ChanPart, ChanTypeOK
  <2>2. StatPart'
    BY <1>22 DEF WorkerTimeout, TypeInv, StatPart
  <2> QED BY <1>22, <2>1, <2>2, Kept DEF WorkerTimeout, TypeInv
<1>23. CASE CloseStart
  <2>1. PushPart'
    BY <1>23, HubAssumption DEF CloseStart, TypeInv, PushPart, PushTypeOK, PushHands, PushState, PushStart, RangeKeys, Events, Pushers, CloseEvent
  <2>2. ClosePart'
    BY <1>23 DEF CloseStart, TypeInv, ClosePart, CloseHands, CloseState
  <2> QED BY <1>23, <2>1, <2>2, Kept DEF CloseStart, TypeInv
<1>24. CASE ClosePoll
  <2>1. ClosePart'
    <3>2. PICK todo \in SUBSET Uids :
             /\ closing' = [closing EXCEPT !.at = "poll", !.round = @ + 1, !.todo = todo]
             /\ UNCHANGED cancelled
      BY <1>24 DEF ClosePoll, RangeKeys
    <3>4. closing \in CloseState BY DEF TypeInv, ClosePart
    <3>5. PICK n \in Nat : n = closing.round + 1 BY <3>4 DEF CloseState
    <3>6. closing' = [closing EXCEPT !.at = "poll", !.round = n, !.todo = todo]
      BY <3>2, <3>5
    <3>7. closing' \in CloseState /\ closing'.at = "poll" BY <3>4, <3>6 DEF CloseState
    <3> QED BY <3>2, <3>7 DEF TypeInv, ClosePart, CloseHands
  <2> QED BY <1>24, <2>1, Kept DEF ClosePoll, TypeInv
<1>25. CASE CloseVisit
  <2>1. ClosePart'
    <3>1. ASSUME NEW todo \in SUBSET Uids, NEW at \in {"poll", "delete"},
                 NEW cc \in Conns \cup {None}, at = "delete" => cc \in Conns,
                 closing' = [closing EXCEPT !.todo = todo, !.at = at, !.conn = cc],
                 UNCHANGED cancelled
          PROVE  ClosePart'
      BY <3>1 DEF TypeInv, ClosePart, CloseHands, CloseState
    <3>2. ASSUME NEW u \in closing.todo, clients[u] \in Conns,
                 closing' = [closing EXCEPT !.todo = @ \ {u}, !.at = "delete",
                                            !.conn = clients[u]]
          PROVE  ClosePart'
      <4>1. closing.todo \ {u} \in SUBSET Uids BY DEF TypeInv, ClosePart, CloseState
      <4>2. UNCHANGED cancelled BY <1>25 DEF CloseVisit
      <4> QED BY <3>1, <3>2, <4>1, <4>2
    <3>4. ASSUME NEW u \in closing.todo, closing' = [closing EXCEPT !.todo = @ \ {u}]
          PROVE  ClosePart'
      <4>1. closing.todo \ {u} \in SUBSET Uids BY DEF TypeInv, ClosePart, CloseState
      <4>2. UNCHANGED cancelled BY <1>25 DEF CloseVisit
      <4>3. closing.at = "poll" BY <1>25 DEF CloseVisit
      <4> QED BY <3>4, <4>1, <4>2, <4>3 DEF TypeInv, ClosePart, CloseHands, CloseState
    <3>3. ASSUME closing' = [closing EXCEPT !.at = "round"] PROVE ClosePart'
      <4>1. UNCHANGED cancelled BY <1>25 DEF CloseVisit
      <4> QED BY <3>3, <4>1 DEF TypeInv, ClosePart, CloseHands, CloseState
    <3> QED BY <1>25, <3>2, <3>3, <3>4 DEF CloseVisit
  <2> QED BY <1>25, <2>1, Kept DEF CloseVisit, TypeInv
<1>26. CASE CloseDelete
  <2>1. ConnTypeOK'
    BY <1>26 DEF CloseDelete, TypeInv, ConnTypeOK, connVars
  <2>2. ClosePart'
    BY <1>26 DEF CloseDelete, TypeInv, ClosePart, CloseHands, CloseState
  <2> QED BY <1>26, <2>1, <2>2, Kept DEF CloseDelete, TypeInv
<1>27. CASE CloseSend
  <2>1. ConnTypeOK'
    BY <1>27 DEF CloseSend, TypeInv, ConnTypeOK, connVars
  <2>2. ClosePart'
    BY <1>27 DEF CloseSend, TypeInv, ClosePart, CloseHands, CloseState
  <2>3. StatPart'
    BY <1>27 DEF CloseSend, TypeInv, StatPart, ConnTypeOK, ClosePart, CloseHands
  <2> QED BY <1>27, <2>1, <2>2, <2>3, Kept DEF CloseSend, TypeInv
<1>28. CASE CloseCancel
  <2>1. ClosePart'
    BY <1>28 DEF CloseCancel, TypeInv, ClosePart, CloseHands, CloseState
  <2> QED BY <1>28, <2>1, Kept DEF CloseCancel, TypeInv
<1>29. CASE CloseStop
  <2>1. ChanPart'
    BY <1>29 DEF CloseStop, TypeInv, ChanPart, ChanTypeOK, WorkerHands, TaskState
  <2>2. ClosePart'
    BY <1>29 DEF CloseStop, TypeInv, ClosePart, CloseHands, CloseState
  <2> QED BY <1>29, <2>1, <2>2, Kept DEF CloseStop, TypeInv
<1> QED
  BY <1>1, <1>2, <1>3, <1>4, <1>5, <1>6, <1>7, <1>8, <1>9, <1>10, <1>11, <1>12, <1>13, <1>14, <1>15, <1>16, <1>17, <1>18, <1>19, <1>20, <1>21, <1>22, <1>23, <1>24, <1>25, <1>26, <1>27, <1>28, <1>29
  DEF HubNext, HubLoop, Serving, Pushes, PushStep, Working, CloseStep

(* The types hold of a new hub. *)
LEMMA TypeInitial == HubInit => TypeInv
<1> SUFFICES ASSUME HubInit PROVE TypeInv
  OBVIOUS
<1>0. 0 \in Events /\ MaxEvents \in Nat /\ BroadcastCap \in Nat
  BY HubAssumption DEF Events
<1>1. ConnTypeOK BY DEF HubInit, ConnTypeOK
<1>2. LoopPart BY DEF HubInit, LoopPart, LoopHands, LoopState, Idle
<1>3. ChanPart
  <2>1. NoTask \in TaskState BY DEF NoTask, TaskState
  <2>2. <<>> \in Seq(Msg) /\ Len(<<>>) <= BroadcastCap BY <1>0
  <2> QED BY <2>1, <2>2 DEF HubInit, ChanPart, ChanTypeOK, WorkerHands
<1>4. PushPart
  <2>1. NoPush \in PushState /\ NoPush.at = "idle" BY <1>0 DEF NoPush, PushState
  <2> QED BY <2>1, <1>0 DEF HubInit, PushPart, PushTypeOK, PushHands
<1>5. ClosePart BY DEF HubInit, ClosePart, CloseHands, CloseState, NotClose
<1>6. StatPart BY DEF HubInit, StatPart
<1> QED BY <1>1, <1>2, <1>3, <1>4, <1>5, <1>6 DEF TypeInv

(* Every action but those of Close keeps the channels' owners; without      *)
(* Close the others are disabled.                                           *)
LEMMA ChannelStep ==
  ASSUME ~Closes, TypeInv, ChannelInv, [HubNext]_hubVars
  PROVE  ChannelInv'
<1> USE DEF connVars, chanVars, pushVars, closeVars, histVars, Up
<1>0. UidOf \in [Conns -> Uids] /\ None \notin Conns BY HubAssumption
<1>t. ConnTypeOK /\ LoopPart BY DEF TypeInv
<1>1. CASE UNCHANGED hubVars
  BY <1>1 DEF hubVars, ChannelInv
<1>2. ASSUME NEW c \in Conns, Open(c) PROVE ChannelInv'
  BY <1>2, <1>t, <1>0 DEF Open, ChannelInv, ConnTypeOK, LoopPart, LoopHands
<1>3. ASSUME NEW c \in Conns, Register(c) PROVE ChannelInv'
  BY <1>3, <1>t, <1>0 DEF Register, ChannelInv, ConnTypeOK
<1>4. ASSUME NEW c \in Conns, NEW ok \in BOOLEAN, Deliver(c, ok) PROVE ChannelInv'
  BY <1>4, <1>t, <1>0 DEF Deliver, ChannelInv, ConnTypeOK, LoopPart, LoopHands
<1>5. ASSUME NEW c \in Conns, Disconnect(c) PROVE ChannelInv'
  BY <1>5, <1>t, <1>0 DEF Disconnect, ChannelInv, ConnTypeOK, LoopPart, LoopHands
<1>6. ASSUME NEW c \in Conns, StreamClosed(c) PROVE ChannelInv'
  BY <1>6, <1>t, <1>0 DEF StreamClosed, ChannelInv, ConnTypeOK, LoopPart, LoopHands
<1>7. ASSUME NEW c \in Conns, Unregister(c) PROVE ChannelInv'
  BY <1>7, <1>t, <1>0 DEF Unregister, ChannelInv, ConnTypeOK, LoopPart, LoopState
<1>8. CASE UnregisterDelete
  BY <1>8, <1>t, <1>0 DEF UnregisterDelete, ChannelInv, ConnTypeOK, LoopPart, LoopHands, LoopState
<1>9. CASE UnregisterClose
  BY <1>9, <1>t, <1>0 DEF UnregisterClose, ChannelInv, ConnTypeOK, LoopPart, LoopHands, Idle
<1>10. CASE Take
  <2>1. Head(broadcast).uid \in Uids
    <3>1. broadcast \in Seq(Msg) /\ broadcast # <<>>
      BY <1>10 DEF Take, TypeInv, ChanPart, ChanTypeOK
    <3>2. Head(broadcast) \in Msg BY <3>1
    <3> QED BY <3>2 DEF Msg
  <2> QED BY <2>1, <1>10, <1>t, <1>0 DEF Take, ChannelInv, ConnTypeOK
<1>11. CASE HubSend
  BY <1>11, <1>t DEF HubSend, ChannelInv, ConnTypeOK, Idle
<1>12. CASE HubFull
  BY <1>12, <1>t DEF HubFull, ChannelInv, LoopPart, LoopState
<1>13. CASE SendTimeout
  BY <1>13, <1>t DEF SendTimeout, ChannelInv, Idle, LoopPart, LoopState
<1>14. CASE HubStop
  BY <1>14, <1>t DEF HubStop, ChannelInv, LoopPart, LoopState
<1>15. CASE AppPush
  BY <1>15 DEF AppPush, ChannelInv
<1>16. ASSUME NEW p \in Pushers, PushStep(p) PROVE ChannelInv'
  <2>1. CASE PushNext(p) BY <2>1 DEF PushNext, ChannelInv
  <2>2. CASE PushOne(p) BY <2>2 DEF PushOne, ChannelInv
  <2>3. CASE SubmitAdd(p) BY <2>3 DEF SubmitAdd, ChannelInv
  <2>4. CASE Submit(p)
    <3>1. ~panicked' BY <2>4 DEF Submit, ChannelInv
    <3> QED BY <3>1, <2>4 DEF Submit, ChannelInv
  <2> QED BY <1>16, <2>1, <2>2, <2>3, <2>4 DEF PushStep
<1>17. ASSUME NEW w \in Workers, Working(w) PROVE ChannelInv'
  BY <1>17 DEF Working, WorkerTake, WorkerPush, WorkerTimeout, ChannelInv
<1>18. ~CloseStart /\ ~CloseStep
  BY DEF CloseStart, CloseStep, ClosePoll, CloseVisit, CloseDelete, CloseSend,
         CloseCancel, CloseStop, ChannelInv
<1> QED
  BY <1>1, <1>2, <1>3, <1>4, <1>5, <1>6, <1>7, <1>8, <1>9, <1>10, <1>11, <1>12,
     <1>13, <1>14, <1>15, <1>16, <1>17, <1>18
  DEF HubNext, HubLoop, Serving, Pushes

(* The channels of a new hub have their owners. *)
LEMMA ChannelInitial == HubInit => ChannelInv
  BY HubAssumption DEF HubInit, ChannelInv, Up, Idle, NotClose

-----------------------------------------------------------------------------
(* Every channel, map and goroutine of the hub keeps its type, with and     *)
(* without Close (Hub.run, Serve, Push, AsyncTaskPool, Close).              *)
THEOREM HubTypeCorrect == HubSpec => []HubTypeOK
<1>1. TypeInv => HubTypeOK
  BY DEF TypeInv, HubTypeOK, LoopPart, ChanPart, PushPart, ClosePart, StatPart
<1> QED BY <1>1, TypeInitial, TypeStep, PTL DEF HubSpec

(* While nobody calls Close, Send channels are closed only by the loop, once *)
(* each, after their Serve has gone, however users connect, reconnect and   *)
(* leave and whatever is pushed to them (Hub.run).                          *)
THEOREM HubChannelsOwned == ASSUME ~Closes PROVE HubSpec => []ChannelInv
<1>1. TypeInv /\ ChannelInv /\ [HubNext]_hubVars => (TypeInv /\ ChannelInv)'
  BY TypeStep, ChannelStep
<1> QED BY <1>1, TypeInitial, ChannelInitial, PTL DEF HubSpec

(* While nobody calls Close, no goroutine of the hub closes a closed        *)
(* channel or sends on one.                                                 *)
THEOREM HubNeverPanics == ASSUME ~Closes PROVE HubSpec => []NoPanic
<1>1. ChannelInv => NoPanic BY DEF ChannelInv, NoPanic, Up
<1> QED BY <1>1, HubChannelsOwned, PTL

-----------------------------------------------------------------------------
(* Without overlap a user has one connection at a time.  The loop deletes a *)
(* client on behalf of a connection that is gone, and the next one of that  *)
(* user is not yet served: it is registered by the same loop.               *)
Active   == {"register", "serving", "leaving"}
OneAtATime ==
  \A c, d \in Conns : c # d /\ UidOf[c] = UidOf[d] /\ cpc[c] \in Active => cpc[d] \notin Active
ReachInv ==
  /\ OneAtATime
  /\ closing.at = "off" =>
       /\ \A c \in Conns : cpc[c] = "serving" => clients[UidOf[c]] = c
       /\ hub.at = "delete" =>
            \A c \in Conns : UidOf[c] = UidOf[hub.conn] => cpc[c] # "serving"

LEMMA ReachInitial == HubInit => ReachInv
  BY DEF HubInit, ReachInv, OneAtATime, Active, Idle

LEMMA ReachStep ==
  ASSUME ~Overlap, TypeInv, ReachInv, [HubNext]_hubVars
  PROVE  ReachInv'
<1> USE DEF connVars, closeVars
<1>0. UidOf \in [Conns -> Uids] /\ None \notin Conns BY HubAssumption
<1>t. ConnTypeOK /\ LoopPart BY DEF TypeInv
<1>1. CASE UNCHANGED hubVars
  BY <1>1 DEF hubVars, ReachInv, OneAtATime
<1>2. ASSUME NEW c \in Conns, Open(c) PROVE ReachInv'
  <2>1. \A d \in Conns : UidOf[d] = UidOf[c] /\ d # c => cpc[d] \notin Active
    BY <1>2 DEF Open, Active
  <2>2. OneAtATime'
    BY <1>2, <1>t, <2>1 DEF Open, ReachInv, OneAtATime, ConnTypeOK
  <2> QED BY <1>2, <1>t, <2>2 DEF Open, ReachInv, ConnTypeOK
<1>3. ASSUME NEW c \in Conns, Register(c) PROVE ReachInv'
  BY <1>3, <1>t, <1>0 DEF Register, ReachInv, OneAtATime, Active, ConnTypeOK
<1>4. ASSUME NEW c \in Conns, Serving(c) \/ Disconnect(c) PROVE ReachInv'
  <2>1. /\ cpc[c] = "serving" /\ UNCHANGED <<clients, hub, closing>>
        /\ cpc' = cpc \/ cpc' = [cpc EXCEPT ![c] = "leaving"]
    BY <1>4 DEF Serving, Deliver, StreamClosed, Disconnect
  <2> QED BY <2>1, <1>t DEF ReachInv, OneAtATime, Active, ConnTypeOK
<1>5. ASSUME NEW c \in Conns, Unregister(c) PROVE ReachInv'
  <2>1. OneAtATime'
    BY <1>5, <1>t DEF Unregister, ReachInv, OneAtATime, Active, ConnTypeOK
  <2>2. ASSUME hub'.at = "delete", NEW d \in Conns, UidOf[d] = UidOf[hub'.conn]
        PROVE  cpc'[d] # "serving"
    <3>1. hub'.conn = c
      BY <1>5, <1>t, <2>2 DEF Unregister, LoopPart, LoopState
    <3> QED BY <1>5, <1>t, <2>2, <3>1 DEF Unregister, ReachInv, OneAtATime, Active, ConnTypeOK
  <2> QED BY <1>5, <1>t, <2>1, <2>2 DEF Unregister, ReachInv, ConnTypeOK
<1>6. CASE UnregisterDelete
  BY <1>6, <1>t, <1>0 DEF UnregisterDelete, ReachInv, OneAtATime, ConnTypeOK, LoopPart, LoopHands, LoopState
<1>7. CASE UnregisterClose \/ Take \/ HubSend \/ HubFull \/ SendTimeout \/ HubStop
  <2>1. UNCHANGED <<clients, cpc, closing>> /\ hub'.at # "delete"
    BY <1>7, <1>t DEF UnregisterClose, Take, HubSend, HubFull, SendTimeout, HubStop, Idle, LoopPart, LoopState
  <2> QED BY <2>1 DEF ReachInv, OneAtATime
<1>8. CASE Pushes \/ \E w \in Workers : Working(w)
  <2>1. UNCHANGED <<clients, cpc, closing, hub>>
    BY <1>8 DEF Pushes, AppPush, PushStep, PushNext, PushOne, SubmitAdd, Submit, Working,
                WorkerTake, WorkerPush, WorkerTimeout
  <2> QED BY <2>1 DEF ReachInv, OneAtATime
<1>9. CASE CloseStart \/ CloseStep
  <2>1. closing'.at # "off" /\ UNCHANGED cpc
    BY <1>9 DEF TypeInv, ClosePart, CloseState, CloseStart, CloseStep, ClosePoll, CloseVisit,
                CloseDelete, CloseSend, CloseCancel, CloseStop
  <2> QED BY <2>1 DEF ReachInv, OneAtATime
<1> QED BY <1>1, <1>2, <1>3, <1>4, <1>5, <1>6, <1>7, <1>8, <1>9 DEF HubNext, HubLoop

(* A user who reconnects only after the old Serve has returned can be       *)
(* reached for as long as the new connection is served and nobody calls     *)
(* Close (run's register and unregister cases).                             *)
THEOREM HubReaches == ASSUME ~Overlap PROVE HubSpec => []OnlineReachable
<1>1. TypeInv /\ ReachInv /\ [HubNext]_hubVars => (TypeInv /\ ReachInv)'
  BY TypeStep, ReachStep
<1>2. ReachInv => OnlineReachable
  BY DEF ReachInv, OnlineReachable
<1> QED BY <1>1, <1>2, TypeInitial, ReachInitial, PTL DEF HubSpec

-----------------------------------------------------------------------------
(* Channels as sets of messages. *)
LEMMA RangeAppend ==
  ASSUME NEW S, NEW s \in Seq(S), NEW m \in S
  PROVE  /\ Append(s, m) \in Seq(S)
         /\ Range(Append(s, m)) = Range(s) \cup {m}
         /\ IsInjective(s) /\ m \notin Range(s) => IsInjective(Append(s, m))
<1>1. Append(s, m) \in Seq(S) /\ Len(Append(s, m)) = Len(s) + 1
  OBVIOUS
<1>2. \A i \in 1 .. Len(s) : Append(s, m)[i] = s[i]
  OBVIOUS
<1>3. Append(s, m)[Len(s) + 1] = m
  OBVIOUS
<1>4. DOMAIN Append(s, m) = 1 .. (Len(s) + 1) /\ DOMAIN s = 1 .. Len(s) /\ Len(s) \in Nat
  BY <1>1
<1>5. Range(Append(s, m)) = Range(s) \cup {m}
  BY <1>2, <1>3, <1>4 DEF Range
<1>6. IsInjective(s) /\ m \notin Range(s) => IsInjective(Append(s, m))
  BY <1>2, <1>3, <1>4 DEF Range, IsInjective
<1> QED BY <1>1, <1>5, <1>6

LEMMA RangeTail ==
  ASSUME NEW S, NEW s \in Seq(S), s # <<>>
  PROVE  /\ Tail(s) \in Seq(S) /\ Head(s) \in S /\ Head(s) \in Range(s)
         /\ Range(s) = Range(Tail(s)) \cup {Head(s)}
         /\ IsInjective(s) => IsInjective(Tail(s)) /\ Head(s) \notin Range(Tail(s))
<1>1. /\ Tail(s) \in Seq(S) /\ Head(s) \in S /\ Len(Tail(s)) = Len(s) - 1 /\ Len(s) \in Nat \ {0}
      /\ Head(s) = s[1]
  OBVIOUS
<1>2. \A i \in 1 .. Len(Tail(s)) : Tail(s)[i] = s[i + 1]
  OBVIOUS
<1>3. DOMAIN Tail(s) = 1 .. (Len(s) - 1) /\ DOMAIN s = 1 .. Len(s)
  BY <1>1
<1>4. Head(s) \in Range(s)
  BY <1>1, <1>3 DEF Range
<1>5. Range(Tail(s)) \subseteq Range(s)
  BY <1>1, <1>2, <1>3 DEF Range
<1>6. Range(s) \subseteq Range(Tail(s)) \cup {Head(s)}
  <2> SUFFICES ASSUME NEW i \in 1 .. Len(s), i # 1 PROVE s[i] \in Range(Tail(s))
    BY <1>1, <1>3 DEF Range
  <2>1. PICK j \in 1 .. (Len(s) - 1) : i = j + 1
    BY <1>1
  <2> QED BY <1>1, <1>2, <1>3, <2>1 DEF Range
<1>7. IsInjective(s) => IsInjective(Tail(s)) /\ Head(s) \notin Range(Tail(s))
  BY <1>1, <1>2, <1>3 DEF Range, IsInjective
<1> QED BY <1>1, <1>4, <1>5, <1>6, <1>7

-----------------------------------------------------------------------------
(* The holders are pairs of a kind and an owner. *)
Single == {"broadcast", "tasks", "hub", "failed", "lost"}

LEMMA HolderIs ==
  ASSUME NEW h \in Holders
  PROVE  \/ \E c \in Conns : h = <<"send", c>> \/ h = <<"delivered", c>>
         \/ \E w \in Workers : h = <<"worker", w>>
         \/ \E p \in Pushers : h = <<"push", p>>
         \/ \E k \in Single : h = <<k, None>>
  BY DEF Holders, Single

LEMMA HeldBy ==
  /\ \A c : Held(<<"send", c>>) = Range(send[c]) /\ Held(<<"delivered", c>>) = Range(delivered[c])
  /\ \A w : Held(<<"worker", w>>) = {worker[w].msg} \ {None}
  /\ \A p : Held(<<"push", p>>) = IF push[p].at \in {"full", "submit"} THEN {Pushing(p)} ELSE {}
  /\ Held(<<"broadcast", None>>) = Range(broadcast)
  /\ Held(<<"tasks", None>>) = Range(tasks)
  /\ Held(<<"hub", None>>) = {hub.msg} \ {None}
  /\ Held(<<"failed", None>>) = failedMsgs
  /\ Held(<<"lost", None>>) = lost
  BY DEF Held

LEMMA HeldNext ==
  /\ \A c : /\ Held(<<"send", c>>)' = Range(send'[c])
            /\ Held(<<"delivered", c>>)' = Range(delivered'[c])
  /\ \A w : Held(<<"worker", w>>)' = {worker'[w].msg} \ {None}
  /\ \A p : Held(<<"push", p>>)' = IF push'[p].at \in {"full", "submit"} THEN {Pushing(p)'} ELSE {}
  /\ Held(<<"broadcast", None>>)' = Range(broadcast')
  /\ Held(<<"tasks", None>>)' = Range(tasks')
  /\ Held(<<"hub", None>>)' = {hub'.msg} \ {None}
  /\ Held(<<"failed", None>>)' = failedMsgs'
  /\ Held(<<"lost", None>>)' = lost'
  BY DEF Held

-----------------------------------------------------------------------------
(* Every counted message has one holder. *)
HeldInv == /\ \A h \in Holders : Held(h) \subseteq pushed
           /\ \A m \in pushed : \E h \in Holders : m \in Held(h)
           /\ \A h, k \in Holders : h # k => Held(h) \cap Held(k) = {}

(* What a caller of Push is about to count is new: the application numbers  *)
(* its events, Close pushes one, and neither pushes an event to a user      *)
(* twice.                                                                   *)
Ahead(p) == \A m \in pushed : m.event = push[p].event =>
              m.uid \notin push[p].todo /\ (push[p].at = "one" => m.uid # push[p].uid)
FreshInv ==
  /\ pushed \subseteq Msg /\ \A m \in pushed : m.event < nextEvent
  /\ push["closer"].event = CloseEvent
  /\ push["app"].at # "idle" => push["app"].event = nextEvent - 1 /\ nextEvent > 1
  /\ closing.at = "off" => push["closer"].at = "idle" /\ \A m \in pushed : m.event # CloseEvent
  /\ \A p \in Pushers : /\ push[p].at # "idle" => Ahead(p)
                        /\ push[p].at = "one" => push[p].uid \notin push[p].todo

(* The loop holds a message only while it sends it. *)
HandsInv == hub.at \notin {"send", "retry"} => hub.msg = None

StatInv == /\ IsFiniteSet(pushed) /\ stats.total = Cardinality(pushed)
           /\ IsFiniteSet(failedMsgs) /\ stats.failed = Cardinality(failedMsgs)

SeqInv  == delivered \in [Conns -> Seq(Msg)] /\ NoneTwice

CountInv == SeqInv /\ HeldInv /\ FreshInv /\ HandsInv /\ StatInv

(* The holders a step does not touch. *)
Untouched(h) ==
  /\ \A c \in Conns : h = <<"send", c>> => send'[c] = send[c]
  /\ \A c \in Conns : h = <<"delivered", c>> => delivered'[c] = delivered[c]
  /\ \A w \in Workers : h = <<"worker", w>> => worker'[w] = worker[w]
  /\ \A p \in Pushers : h = <<"push", p>> => push'[p] = push[p]
  /\ h = <<"broadcast", None>> => broadcast' = broadcast
  /\ h = <<"tasks", None>> => tasks' = tasks
  /\ h = <<"hub", None>> => hub'.msg = hub.msg
  /\ h = <<"failed", None>> => failedMsgs' = failedMsgs
  /\ h = <<"lost", None>> => lost' = lost

LEMMA HeldKept ==
  ASSUME NEW h \in Holders, Untouched(h) PROVE Held(h)' = Held(h)
<1>1. ASSUME NEW c \in Conns, h = <<"send", c>> PROVE Held(h)' = Held(h)
  <2>1. Held(<<"send", c>>)' = Held(<<"send", c>>)
    BY <1>1, HeldBy, HeldNext DEF Untouched
  <2> QED BY <1>1, <2>1
<1>2. ASSUME NEW c \in Conns, h = <<"delivered", c>> PROVE Held(h)' = Held(h)
  <2>1. Held(<<"delivered", c>>)' = Held(<<"delivered", c>>)
    BY <1>2, HeldBy, HeldNext DEF Untouched
  <2> QED BY <1>2, <2>1
<1>3. ASSUME NEW w \in Workers, h = <<"worker", w>> PROVE Held(h)' = Held(h)
  <2>1. Held(<<"worker", w>>)' = Held(<<"worker", w>>)
    BY <1>3, HeldBy, HeldNext DEF Untouched
  <2> QED BY <1>3, <2>1
<1>4. ASSUME NEW p \in Pushers, h = <<"push", p>> PROVE Held(h)' = Held(h)
  <2>1. push'[p] = push[p]
    BY <1>4 DEF Untouched
  <2>2. Held(<<"push", p>>)' = Held(<<"push", p>>)
    BY <2>1 DEF Held, Pushing
  <2> QED BY <1>4, <2>2
<1>5. ASSUME NEW k \in Single, h = <<k, None>> PROVE Held(h)' = Held(h)
  <2>1. CASE h = <<"broadcast", None>>
    <3>1. Held(<<"broadcast", None>>)' = Held(<<"broadcast", None>>)
      BY <2>1, HeldBy, HeldNext DEF Untouched
    <3> QED BY <2>1, <3>1
  <2>2. CASE h = <<"tasks", None>>
    <3>1. Held(<<"tasks", None>>)' = Held(<<"tasks", None>>)
      BY <2>2, HeldBy, HeldNext DEF Untouched
    <3> QED BY <2>2, <3>1
  <2>3. CASE h = <<"hub", None>>
    <3>1. Held(<<"hub", None>>)' = Held(<<"hub", None>>)
      BY <2>3, HeldBy, HeldNext DEF Untouched
    <3> QED BY <2>3, <3>1
  <2>4. CASE h = <<"failed", None>>
    <3>1. Held(<<"failed", None>>)' = Held(<<"failed", None>>)
      BY <2>4, HeldBy, HeldNext DEF Untouched
    <3> QED BY <2>4, <3>1
  <2>5. CASE h = <<"lost", None>>
    <3>1. Held(<<"lost", None>>)' = Held(<<"lost", None>>)
      BY <2>5, HeldBy, HeldNext DEF Untouched
    <3> QED BY <2>5, <3>1
  <2> QED BY <1>5, <2>1, <2>2, <2>3, <2>4, <2>5 DEF Single
<1> QED BY <1>1, <1>2, <1>3, <1>4, <1>5, HolderIs

(* A message moves from one holder to another, *)
LEMMA HeldMoves ==
  ASSUME HeldInv, NEW h \in Holders, NEW k \in Holders, h # k, NEW m,
         Held(h) = Held(h)' \cup {m}, m \notin Held(h)', Held(k)' = Held(k) \cup {m},
         \A l \in Holders \ {h, k} : Untouched(l), pushed' = pushed
  PROVE  HeldInv'
<1>0. \A l \in Holders \ {h, k} : Held(l)' = Held(l)
  BY HeldKept
<1>1. m \in Held(h) /\ \A l \in Holders \ {h} : m \notin Held(l)
  BY DEF HeldInv
<1>2. \A l \in Holders : Held(l)' \subseteq pushed'
  BY <1>0, <1>1 DEF HeldInv
<1>3. \A n \in pushed' : \E l \in Holders : n \in Held(l)'
  BY <1>0, <1>1 DEF HeldInv
<1>4. ASSUME NEW l \in Holders, NEW g \in Holders, l # g, NEW n \in Held(l)', n \in Held(g)' PROVE FALSE
  <2>1. CASE n = m
    BY <1>0, <1>1, <1>4, <2>1 DEF HeldInv
  <2>2. CASE n # m
    <3>1. n \in Held(l) /\ n \in Held(g)
      BY <1>0, <1>4, <2>2
    <3> QED BY <1>4, <3>1 DEF HeldInv
  <2> QED BY <2>1, <2>2
<1> QED BY <1>2, <1>3, <1>4 DEF HeldInv

(* comes to its first holder, *)
LEMMA HeldEnters ==
  ASSUME HeldInv, NEW k \in Holders, NEW m, m \notin pushed, Held(k)' = Held(k) \cup {m},
         \A l \in Holders \ {k} : Held(l)' = Held(l), pushed' = pushed \cup {m}
  PROVE  HeldInv'
<1>0. \A l \in Holders \ {k} : Held(l)' = Held(l)
  OBVIOUS
<1>1. \A l \in Holders : m \notin Held(l)
  BY DEF HeldInv
<1>2. \A l \in Holders : Held(l)' \subseteq pushed'
  BY <1>0, <1>1 DEF HeldInv
<1>3. \A n \in pushed' : \E l \in Holders : n \in Held(l)'
  BY <1>0, <1>1 DEF HeldInv
<1>4. ASSUME NEW l \in Holders, NEW g \in Holders, l # g, NEW n \in Held(l)', n \in Held(g)' PROVE FALSE
  <2>1. CASE n = m
    BY <1>0, <1>1, <1>4, <2>1 DEF HeldInv
  <2>2. CASE n # m
    <3>1. n \in Held(l) /\ n \in Held(g)
      BY <1>0, <1>4, <2>2
    <3> QED BY <1>4, <3>1 DEF HeldInv
  <2> QED BY <2>1, <2>2
<1> QED BY <1>2, <1>3, <1>4 DEF HeldInv

(* What one holds no other holds. *)
LEMMA HeldApart ==
  ASSUME HeldInv, NEW h \in Holders, NEW k \in Holders, h # k, NEW m \in Held(h)
  PROVE  m \notin Held(k)
  BY DEF HeldInv

-----------------------------------------------------------------------------
LEMMA FreshStep ==
  ASSUME TypeInv, FreshInv, [HubNext]_hubVars
  PROVE  FreshInv'
<1> USE DEF CloseEvent
<1>t. /\ push \in [Pushers -> PushState] /\ "app" \in Pushers /\ "closer" \in Pushers
      /\ nextEvent \in Nat /\ nextEvent >= 1 /\ MaxEvents \in Nat
  BY HubAssumption DEF TypeInv, PushPart, PushTypeOK, Pushers
<1>m. \A m \in Msg : m.uid \in Uids /\ m.event \in Nat
  BY HubAssumption DEF Msg, Events
<1>1. CASE UNCHANGED <<push, nextEvent, pushed>> /\ (closing'.at = "off" => closing.at = "off")
  <2>1. UNCHANGED <<push, nextEvent, pushed>> BY <1>1
  <2>2. \A p \in Pushers : Ahead(p)' = Ahead(p)
    BY <2>1 DEF Ahead
  <2>3. \A p \in Pushers : push[p].at # "idle" => Ahead(p)'
    BY <2>2 DEF FreshInv
  <2> QED BY <1>1, <2>1, <2>3 DEF FreshInv
(* One caller of Push goes on, and counts nothing. *)
<1>2. ASSUME NEW p \in Pushers, NEW q, push' = [push EXCEPT ![p] = q],
             UNCHANGED <<nextEvent, pushed, closing>>,
             q.event = push[p].event \/ q = NoPush,
             q.at # "idle" => push[p].at # "idle" /\ q.event = push[p].event /\ q.todo \subseteq push[p].todo,
             q.at = "one" => q.uid \in push[p].todo \ q.todo
      PROVE  FreshInv'
  <2>1. push'[p] = q /\ \A r \in Pushers \ {p} : push'[r] = push[r]
    BY <1>2, <1>t
  <2>2. push'["closer"].event = 0
    BY <1>2, <1>t, <2>1 DEF FreshInv, NoPush
  <2>3. push'["app"].at # "idle" => push'["app"].event = nextEvent' - 1 /\ nextEvent' > 1
    BY <1>2, <1>t, <2>1 DEF FreshInv
  <2>4. closing'.at = "off" => push'["closer"].at = "idle" /\ \A m \in pushed' : m.event # 0
    BY <1>2, <1>t, <2>1 DEF FreshInv
  <2>5. ASSUME NEW r \in Pushers
        PROVE  /\ push'[r].at # "idle" => Ahead(r)'
               /\ push'[r].at = "one" => push'[r].uid \notin push'[r].todo
    <3>1. CASE r = p
      BY <1>2, <2>1, <3>1 DEF FreshInv, Ahead
    <3>2. CASE r # p
      BY <1>2, <2>1, <3>2 DEF FreshInv, Ahead
    <3> QED BY <3>1, <3>2
  <2> QED BY <1>2, <2>2, <2>3, <2>4, <2>5 DEF FreshInv
<1>3. CASE AppPush
  <2>1. PICK todo : /\ PushStart("app", nextEvent, todo) /\ nextEvent' = nextEvent + 1
                    /\ UNCHANGED <<pushed, closing>>
    BY <1>3 DEF AppPush, histVars, closeVars
  <2>2. PICK q : q = [at |-> "next", event |-> nextEvent, todo |-> todo, uid |-> None] OBVIOUS
  <2>3. q.at = "next" /\ q.event = nextEvent
    BY <2>2
  <2>4. push'["app"] = q /\ push'["closer"] = push["closer"]
    BY <1>t, <2>1, <2>2 DEF PushStart
  <2>5. \A m \in pushed' : m \in Msg /\ m.event < nextEvent /\ m.event < nextEvent'
    BY <1>t, <1>m, <2>1 DEF FreshInv
  <2>6. push'["app"].event = nextEvent' - 1 /\ nextEvent' > 1
    BY <1>t, <2>1, <2>3, <2>4
  <2>7. Ahead("app")'
    BY <1>t, <1>m, <2>3, <2>4, <2>5 DEF Ahead
  <2>8. push'["closer"].at # "idle" => Ahead("closer")'
    BY <1>t, <2>1, <2>4 DEF FreshInv, Ahead
  <2>9. \A p \in Pushers : p = "app" \/ p = "closer"
    BY DEF Pushers
  <2>10. /\ pushed' \subseteq Msg /\ push'["closer"].event = 0
         /\ closing'.at = "off" => push'["closer"].at = "idle" /\ \A m \in pushed' : m.event # 0
    BY <1>t, <2>1, <2>4 DEF FreshInv
  <2>11. /\ push'["app"].at # "one"
         /\ push'["closer"].at = "one" => push'["closer"].uid \notin push'["closer"].todo
    BY <1>t, <2>3, <2>4 DEF FreshInv
  <2> QED BY <2>5, <2>6, <2>7, <2>8, <2>9, <2>10, <2>11 DEF FreshInv
<1>4. CASE CloseStart
  <2>1. /\ UNCHANGED <<nextEvent, pushed>> /\ closing.at = "off" /\ closing'.at # "off"
    BY <1>4 DEF CloseStart, histVars, TypeInv, ClosePart, CloseState
  <2>2. CASE UNCHANGED push
    BY <1>1, <2>1, <2>2
  <2>3. ASSUME NEW todo, PushStart("closer", CloseEvent, todo) PROVE FreshInv'
    <3>1. PICK q : q = [at |-> "next", event |-> 0, todo |-> todo, uid |-> None] OBVIOUS
    <3>2. q.at = "next" /\ q.event = 0
      BY <3>1
    <3>3. push'["closer"] = q /\ push'["app"] = push["app"]
      BY <1>t, <2>3, <3>1 DEF PushStart
    <3>4. Ahead("closer")'
      BY <1>t, <2>1, <3>2, <3>3 DEF FreshInv, Ahead
    <3>5. push'["app"].at # "idle" => Ahead("app")'
      BY <1>t, <2>1, <3>3 DEF FreshInv, Ahead
    <3>6. \A p \in Pushers : p = "app" \/ p = "closer"
      BY DEF Pushers
    <3>7. /\ pushed' \subseteq Msg /\ \A m \in pushed' : m.event < nextEvent'
          /\ push'["app"].at # "idle" => push'["app"].event = nextEvent' - 1 /\ nextEvent' > 1
          /\ push'["app"].at = "one" => push'["app"].uid \notin push'["app"].todo
      BY <1>t, <2>1, <3>3 DEF FreshInv
    <3> QED BY <2>1, <3>2, <3>3, <3>4, <3>5, <3>6, <3>7 DEF FreshInv
  <2> QED BY <1>4, <2>2, <2>3 DEF CloseStart
<1>5. ASSUME NEW p \in Pushers, PushNext(p) PROVE FreshInv'
  <2>1. UNCHANGED <<nextEvent, pushed, closing>> /\ push[p].at = "next" /\ push[p] \in PushState
    BY <1>5, <1>t DEF PushNext, histVars, closeVars
  <2>2. ASSUME NEW u \in push[p].todo,
               push' = [push EXCEPT ![p].todo = @ \ {u},
                                    ![p].at   = IF clients[u] = None THEN "next" ELSE "one",
                                    ![p].uid  = u]
        PROVE  FreshInv'
    <3>1. PICK q : q = [push[p] EXCEPT !.todo = @ \ {u},
                                       !.at   = IF clients[u] = None THEN "next" ELSE "one",
                                       !.uid  = u]
      OBVIOUS
    <3>2. push' = [push EXCEPT ![p] = q]
      BY <1>t, <2>2, <3>1 DEF PushState
    <3>3. q.event = push[p].event /\ q.todo = push[p].todo \ {u} /\ q.uid = u
      BY <2>1, <3>1 DEF PushState
    <3> QED BY <1>2, <2>1, <3>2, <3>3
  <2>3. CASE push' = [push EXCEPT ![p] = NoPush]
    BY <1>2, <2>1, <2>3 DEF NoPush
  <2> QED BY <1>5, <2>2, <2>3 DEF PushNext
<1>6. ASSUME NEW p \in Pushers, SubmitAdd(p) \/ Submit(p) PROVE FreshInv'
  <2>1. PICK a : push' = [push EXCEPT ![p].at = a] /\ a \in {"submit", "next"}
    BY <1>6 DEF SubmitAdd, Submit
  <2>2. UNCHANGED <<nextEvent, pushed, closing>> /\ push[p].at \in {"full", "submit"} /\ push[p] \in PushState
    BY <1>6, <1>t DEF SubmitAdd, Submit, histVars, closeVars
  <2>3. PICK q : q = [push[p] EXCEPT !.at = a] OBVIOUS
  <2>4. push' = [push EXCEPT ![p] = q]
    BY <1>t, <2>1, <2>3 DEF PushState
  <2>5. q.at = a /\ q.event = push[p].event /\ q.todo = push[p].todo
    BY <2>2, <2>3 DEF PushState
  <2> QED BY <1>2, <2>1, <2>2, <2>4, <2>5
<1>7. ASSUME NEW p \in Pushers, PushOne(p) PROVE FreshInv'
  <2>1. PICK a : push' = [push EXCEPT ![p].at = a] /\ a \in {"full", "next"}
    BY <1>7 DEF PushOne
  <2>2. /\ UNCHANGED <<nextEvent, closing>> /\ push[p].at = "one" /\ push[p] \in PushState
        /\ push[p].uid \in Uids
    BY <1>7, <1>t DEF PushOne, closeVars, TypeInv, PushPart, PushHands
  <2>3. PICK q : q = [push[p] EXCEPT !.at = a] OBVIOUS
  <2>4. q.at = a /\ q.event = push[p].event /\ q.todo = push[p].todo
    BY <2>2, <2>3 DEF PushState
  <2>5. push'[p] = q /\ \A r \in Pushers \ {p} : push'[r] = push[r]
    BY <1>t, <2>1, <2>3 DEF PushState
  <2>6. PICK m \in Msg : m.uid = push[p].uid /\ m.event = push[p].event /\ pushed' = pushed \cup {m}
    <3>1. Pushing(p).uid = push[p].uid /\ Pushing(p).event = push[p].event /\ Pushing(p) \in Msg
      BY <2>2 DEF Pushing, Msg, PushState
    <3>2. pushed' = pushed \cup {Pushing(p)}
      BY <1>7 DEF PushOne
    <3> QED BY <3>1, <3>2
  <2>7. \A r \in Pushers : r = "app" \/ r = "closer"
    BY DEF Pushers
  <2>8. m.event < nextEvent /\ (p = "closer" => m.event = 0) /\ (p = "app" => m.event >= 1)
    BY <1>t, <2>2, <2>6, <2>7 DEF FreshInv
  <2>9. pushed' \subseteq Msg /\ \A n \in pushed' : n.event < nextEvent'
    BY <2>2, <2>6, <2>8 DEF FreshInv
  <2>10. Ahead(p)'
    BY <2>2, <2>4, <2>5, <2>6, <2>1 DEF FreshInv, Ahead
  <2>11. ASSUME NEW r \in Pushers, r # p, push'[r].at # "idle" PROVE Ahead(r)'
    <3>1. push[r].event # m.event
      BY <1>t, <2>5, <2>7, <2>8, <2>11 DEF FreshInv
    <3> QED BY <2>5, <2>6, <2>11, <3>1 DEF FreshInv, Ahead
  <2>12. /\ push'["closer"].event = 0
         /\ push'["app"].at # "idle" => push'["app"].event = nextEvent' - 1 /\ nextEvent' > 1
    BY <1>t, <2>2, <2>4, <2>5 DEF FreshInv
  <2>13. closing'.at = "off" => push'["closer"].at = "idle" /\ \A n \in pushed' : n.event # 0
    BY <1>t, <2>2, <2>5, <2>6, <2>7, <2>8 DEF FreshInv
  <2>14. \A r \in Pushers : push'[r].at = "one" => push'[r].uid \notin push'[r].todo
    BY <2>1, <2>4, <2>5 DEF FreshInv
  <2> QED BY <2>9, <2>10, <2>11, <2>12, <2>13, <2>14 DEF FreshInv
<1>8. CASE UNCHANGED hubVars
  BY <1>1, <1>8 DEF hubVars, pushVars, closeVars, histVars
<1>9. CASE \/ HubLoop \/ \E w \in Workers : Working(w)
           \/ \E c \in Conns : Open(c) \/ Disconnect(c) \/ Serving(c)
  <2>1. UNCHANGED <<push, nextEvent, pushed, closing>>
    BY <1>9 DEF HubLoop, Register, Unregister, UnregisterDelete, UnregisterClose, Take, HubSend,
                HubFull, SendTimeout, HubStop, Working, WorkerTake, WorkerPush, WorkerTimeout,
                Open, Disconnect, Serving, Deliver, StreamClosed, pushVars, closeVars, histVars
  <2> QED BY <1>1, <2>1
<1>10. CASE CloseStep
  <2>1. UNCHANGED <<push, nextEvent, pushed>> /\ closing'.at # "off"
    BY <1>10 DEF TypeInv, ClosePart, CloseState, CloseStep, ClosePoll, CloseVisit, CloseDelete,
                 CloseSend, CloseCancel, CloseStop, pushVars, histVars
  <2> QED BY <1>1, <2>1
<1> QED BY <1>3, <1>4, <1>5, <1>6, <1>7, <1>8, <1>9, <1>10 DEF HubNext, Pushes, PushStep

(* What Push counts is new. *)
LEMMA PushesNew ==
  ASSUME TypeInv, FreshInv, NEW p \in Pushers, push[p].at = "one"
  PROVE  Pushing(p) \in Msg \ pushed
<1>1. push[p] \in PushState /\ push[p].uid \in Uids
  BY DEF TypeInv, PushPart, PushTypeOK, PushHands
<1>2. Pushing(p).uid = push[p].uid /\ Pushing(p).event = push[p].event /\ Pushing(p) \in Msg
  BY <1>1 DEF Pushing, Msg, PushState
<1> QED BY <1>2 DEF FreshInv, Ahead

(* The loop's hands. *)
LEMMA HandsStep ==
  ASSUME TypeInv, HandsInv, [HubNext]_hubVars
  PROVE  HandsInv'
<1>t. hub \in LoopState
  BY DEF TypeInv, LoopPart
<1>1. CASE UNCHANGED hub
  BY <1>1 DEF HandsInv
<1>2. CASE HubLoop
  <2>1. ASSUME NEW c \in Conns, Unregister(c) PROVE HandsInv'
    BY <1>t, <2>1 DEF Unregister, HandsInv, LoopState
  <2>2. CASE UnregisterDelete \/ HubFull \/ HubStop
    BY <1>t, <2>2 DEF UnregisterDelete, HubFull, HubStop, HandsInv, LoopState
  <2>3. CASE UnregisterClose \/ HubSend \/ SendTimeout \/ Take
    <3>1. hub' = Idle \/ hub' = hub \/ hub'.at \in {"send", "retry"}
      BY <1>t, <2>3 DEF UnregisterClose, HubSend, SendTimeout, Take, LoopState
    <3> QED BY <3>1 DEF HandsInv, Idle
  <2>4. ASSUME NEW c \in Conns, Register(c) PROVE HandsInv'
    BY <1>1, <2>4 DEF Register
  <2> QED BY <1>2, <2>1, <2>2, <2>3, <2>4 DEF HubLoop
<1>3. CASE ~HubLoop
  <2>1. UNCHANGED hub
    BY <1>3 DEF HubNext, hubVars, Working, WorkerTake, WorkerPush, WorkerTimeout, Open, Disconnect,
                Serving, Deliver, StreamClosed, Pushes, AppPush, PushStep, PushNext, PushOne,
                SubmitAdd, Submit, CloseStart, CloseStep, ClosePoll, CloseVisit, CloseDelete,
                CloseSend, CloseCancel, CloseStop
  <2> QED BY <1>1, <2>1
<1> QED BY <1>2, <1>3

(* The holders are holders. *)
LEMMA HolderNames ==
  /\ \A c \in Conns : <<"send", c>> \in Holders /\ <<"delivered", c>> \in Holders
  /\ \A w \in Workers : <<"worker", w>> \in Holders
  /\ \A p \in Pushers : <<"push", p>> \in Holders
  /\ \A k \in Single : <<k, None>> \in Holders
  BY DEF Holders, Single

-----------------------------------------------------------------------------
MoveInv == SeqInv /\ HeldInv /\ StatInv

LEMMA MoveStep ==
  ASSUME TypeInv, CountInv, [HubNext]_hubVars
  PROVE  MoveInv'
<1>i. SeqInv /\ HeldInv /\ StatInv
  BY DEF CountInv
<1>t. /\ send \in [Conns -> Seq(Msg)] /\ delivered \in [Conns -> Seq(Msg)]
      /\ broadcast \in Seq(Msg) /\ tasks \in Seq(Msg)
      /\ worker \in [Workers -> TaskState] /\ push \in [Pushers -> PushState]
      /\ hub \in LoopState /\ None \notin Msg
      /\ stats \in [total : Nat, success : Nat, failed : Nat]
  BY <1>i, HubAssumption DEF TypeInv, ConnTypeOK, ChanPart, ChanTypeOK, PushPart, PushTypeOK,
                             LoopPart, StatPart, SeqInv
<1>n. /\ IsInjective(broadcast) /\ IsInjective(tasks)
      /\ \A c \in Conns : IsInjective(send[c]) /\ IsInjective(delivered[c])
  BY <1>i DEF SeqInv, NoneTwice
<1>s. /\ UNCHANGED <<pushed, failedMsgs>> /\ stats'.total = stats.total /\ stats'.failed = stats.failed
         => StatInv'
  BY <1>i DEF StatInv
(* One more message is given up. *)
<1>f. ASSUME NEW m, m \notin failedMsgs, failedMsgs' = failedMsgs \cup {m}, pushed' = pushed,
             stats' = [stats EXCEPT !.failed = @ + 1]
      PROVE  StatInv'
  <2>1. stats'.total = stats.total /\ stats'.failed = stats.failed + 1
    BY <1>t, <1>f
  <2>2. IsFiniteSet(failedMsgs') /\ Cardinality(failedMsgs') = Cardinality(failedMsgs) + 1
    BY <1>i, <1>f, FS_AddElement DEF StatInv
  <2> QED BY <1>i, <1>f, <2>1, <2>2 DEF StatInv
<1>1. ASSUME NEW c \in Conns, Deliver(c, TRUE) PROVE MoveInv'
  <2>1. PICK m : m = Head(send[c]) OBVIOUS
  <2>2. /\ send[c] # <<>> /\ send' = [send EXCEPT ![c] = Tail(@)]
        /\ delivered' = [delivered EXCEPT ![c] = Append(@, m)]
        /\ stats' = [stats EXCEPT !.success = @ + 1]
        /\ UNCHANGED <<hub, broadcast, tasks, worker, push, pushed, lost, failedMsgs>>
    BY <1>1, <2>1 DEF Deliver, chanVars, pushVars
  <2>3. /\ send[c] \in Seq(Msg) /\ delivered[c] \in Seq(Msg)
        /\ send'[c] = Tail(send[c]) /\ delivered'[c] = Append(delivered[c], m)
        /\ \A d \in Conns \ {c} : send'[d] = send[d] /\ delivered'[d] = delivered[d]
    BY <1>t, <2>2
  <2>4. /\ m \in Msg /\ m \in Range(send[c]) /\ Range(send[c]) = Range(send'[c]) \cup {m}
        /\ m \notin Range(send'[c]) /\ IsInjective(send'[c])
    BY <1>n, <2>1, <2>2, <2>3, RangeTail
  <2>5. m \notin Range(delivered[c])
    <3>1. m \in Held(<<"send", c>>)
      BY <2>4, HeldBy
    <3>2. m \notin Held(<<"delivered", c>>)
      BY <1>i, <3>1, HolderNames, HeldApart
    <3> QED BY <3>2, HeldBy
  <2>6. /\ Range(delivered'[c]) = Range(delivered[c]) \cup {m} /\ IsInjective(delivered'[c])
        /\ delivered'[c] \in Seq(Msg)
    BY <1>n, <2>3, <2>4, <2>5, RangeAppend
  <2>7. SeqInv'
    <3>1. delivered' \in [Conns -> Seq(Msg)]
      BY <1>t, <2>2, <2>3, <2>6
    <3>2. NoneTwice'
      BY <1>n, <2>2, <2>3, <2>4, <2>6 DEF NoneTwice
    <3> QED BY <3>1, <3>2 DEF SeqInv
  <2>8. HeldInv'
    <3>1. \A h \in Holders \ {<<"send", c>>, <<"delivered", c>>} : Untouched(h)
      BY <2>2, <2>3 DEF Untouched
    <3>2. /\ Held(<<"send", c>>) = Held(<<"send", c>>)' \cup {m}
          /\ m \notin Held(<<"send", c>>)'
          /\ Held(<<"delivered", c>>)' = Held(<<"delivered", c>>) \cup {m}
      BY <2>4, <2>6, HeldBy, HeldNext
    <3> QED BY <1>i, <2>2, <3>1, <3>2, HolderNames, HeldMoves
  <2>9. StatInv'
    BY <1>s, <1>t, <2>2
  <2> QED BY <2>7, <2>8, <2>9 DEF MoveInv
<1>2. ASSUME NEW c \in Conns, Deliver(c, FALSE) PROVE MoveInv'
  <2>1. PICK m : m = Head(send[c]) OBVIOUS
  <2>2. /\ send[c] # <<>> /\ send' = [send EXCEPT ![c] = Tail(@)]
        /\ failedMsgs' = failedMsgs \cup {m}
        /\ stats' = [stats EXCEPT !.failed = @ + 1]
        /\ UNCHANGED <<hub, broadcast, tasks, worker, push, pushed, lost, delivered>>
    BY <1>2, <2>1 DEF Deliver, chanVars, pushVars
  <2>3. /\ send[c] \in Seq(Msg) /\ send'[c] = Tail(send[c])
        /\ \A d \in Conns \ {c} : send'[d] = send[d]
    BY <1>t, <2>2
  <2>4. /\ m \in Range(send[c]) /\ Range(send[c]) = Range(send'[c]) \cup {m}
        /\ m \notin Range(send'[c]) /\ IsInjective(send'[c])
    BY <1>n, <2>1, <2>2, <2>3, RangeTail
  <2>5. SeqInv'
    <3>1. NoneTwice'
      BY <1>n, <2>2, <2>3, <2>4 DEF NoneTwice
    <3> QED BY <1>t, <2>2, <3>1 DEF SeqInv
  <2>6. HeldInv'
    <3>1. \A h \in Holders \ {<<"send", c>>, <<"failed", None>>} : Untouched(h)
      BY <2>2, <2>3 DEF Untouched
    <3>2. /\ Held(<<"send", c>>) = Held(<<"send", c>>)' \cup {m}
          /\ m \notin Held(<<"send", c>>)'
          /\ Held(<<"failed", None>>)' = Held(<<"failed", None>>) \cup {m}
      BY <2>2, <2>4, HeldBy, HeldNext
    <3>3. <<"failed", None>> \in Holders
      BY HolderNames DEF Single
    <3> QED BY <1>i, <2>2, <3>1, <3>2, <3>3, HolderNames, HeldMoves
  <2>7. m \notin failedMsgs
    <3>1. m \in Held(<<"send", c>>) /\ <<"failed", None>> \in Holders
      BY <2>4, HeldBy, HolderNames DEF Single
    <3>2. m \notin Held(<<"failed", None>>)
      BY <1>i, <3>1, HolderNames, HeldApart
    <3> QED BY <3>2, HeldBy
  <2>8. StatInv'
    BY <1>f, <2>2, <2>7
  <2> QED BY <2>5, <2>6, <2>8 DEF MoveInv
<1>3. CASE Take
  <2>1. PICK m : m = Head(broadcast) OBVIOUS
  <2>2. /\ broadcast # <<>> /\ broadcast' = Tail(broadcast) /\ hub.at = "select"
        /\ \/ lost' = lost \cup {m} /\ UNCHANGED hub
           \/ UNCHANGED lost /\ \E c : hub' = [at |-> "send", conn |-> c, msg |-> m, tries |-> 0]
        /\ UNCHANGED <<send, tasks, worker, push, pushed, delivered, failedMsgs, stats>>
    BY <1>3, <2>1 DEF Take, connVars, pushVars
  <2>3. /\ m \in Msg /\ m \in Range(broadcast) /\ Range(broadcast) = Range(broadcast') \cup {m}
        /\ m \notin Range(broadcast') /\ IsInjective(broadcast')
    BY <1>n, <1>t, <2>1, <2>2, RangeTail
  <2>4. SeqInv'
    <3>1. NoneTwice'
      BY <1>n, <2>2, <2>3 DEF NoneTwice
    <3> QED BY <1>t, <2>2, <3>1 DEF SeqInv
  <2>5. /\ <<"broadcast", None>> \in Holders /\ <<"lost", None>> \in Holders
        /\ <<"hub", None>> \in Holders
    BY HolderNames DEF Single
  <2>6. /\ Held(<<"broadcast", None>>) = Held(<<"broadcast", None>>)' \cup {m}
        /\ m \notin Held(<<"broadcast", None>>)'
    BY <2>3, HeldBy, HeldNext
  <2>7. HeldInv'
    <3>1. CASE lost' = lost \cup {m} /\ UNCHANGED hub
      <4>1. \A h \in Holders \ {<<"broadcast", None>>, <<"lost", None>>} : Untouched(h)
        BY <2>2, <3>1 DEF Untouched
      <4>2. Held(<<"lost", None>>)' = Held(<<"lost", None>>) \cup {m}
        BY <3>1, HeldBy, HeldNext
      <4> QED BY <1>i, <2>2, <2>5, <2>6, <4>1, <4>2, HeldMoves
    <3>2. ASSUME UNCHANGED lost, NEW c, hub' = [at |-> "send", conn |-> c, msg |-> m, tries |-> 0]
          PROVE  HeldInv'
      <4>1. hub'.msg = m /\ hub.msg = None
        BY <2>2, <3>2 DEF CountInv, HandsInv
      <4>2. \A h \in Holders \ {<<"broadcast", None>>, <<"hub", None>>} : Untouched(h)
        BY <2>2, <3>2 DEF Untouched
      <4>3. Held(<<"hub", None>>)' = {m} /\ Held(<<"hub", None>>) = {}
        BY <1>t, <2>3, <4>1, HeldBy, HeldNext
      <4> QED BY <1>i, <2>2, <2>5, <2>6, <4>2, <4>3, HeldMoves
    <3> QED BY <2>2, <3>1, <3>2
  <2>8. StatInv'
    BY <1>s, <2>2
  <2> QED BY <2>4, <2>7, <2>8 DEF MoveInv
<1>4. CASE HubSend
  <2>1. PICK m, c : m = hub.msg /\ c = hub.conn OBVIOUS
  <2>2. /\ m \in Msg /\ c \in Conns /\ send' = [send EXCEPT ![c] = Append(@, m)] /\ hub' = Idle
        /\ UNCHANGED <<broadcast, tasks, worker, push, pushed, delivered, failedMsgs, lost, stats>>
    BY <1>4, <2>1 DEF HubSend, chanVars, pushVars, histVars, TypeInv, LoopPart, LoopHands
  <2>3. /\ send[c] \in Seq(Msg) /\ send'[c] = Append(send[c], m)
        /\ \A d \in Conns \ {c} : send'[d] = send[d]
    BY <1>t, <2>2
  <2>4. <<"hub", None>> \in Holders /\ <<"send", c>> \in Holders
    BY <2>2, HolderNames DEF Single
  <2>5. Held(<<"hub", None>>)' = {} /\ Held(<<"hub", None>>) = {m}
    BY <1>t, <2>1, <2>2, HeldBy, HeldNext DEF Idle
  <2>6. m \notin Range(send[c])
    <3>1. m \notin Held(<<"send", c>>)
      BY <1>i, <2>4, <2>5, HeldApart
    <3> QED BY <3>1, HeldBy
  <2>7. Range(send'[c]) = Range(send[c]) \cup {m} /\ IsInjective(send'[c])
    BY <1>n, <2>2, <2>3, <2>6, RangeAppend
  <2>8. SeqInv'
    <3>1. NoneTwice'
      BY <1>n, <2>2, <2>3, <2>7 DEF NoneTwice
    <3> QED BY <1>t, <2>2, <3>1 DEF SeqInv
  <2>9. HeldInv'
    <3>1. \A h \in Holders \ {<<"hub", None>>, <<"send", c>>} : Untouched(h)
      BY <2>2, <2>3 DEF Untouched
    <3>2. Held(<<"send", c>>)' = Held(<<"send", c>>) \cup {m}
      BY <2>7, HeldBy, HeldNext
    <3> QED BY <1>i, <2>2, <2>4, <2>5, <3>1, <3>2, HeldMoves
  <2>10. StatInv'
    BY <1>s, <2>2
  <2> QED BY <2>8, <2>9, <2>10 DEF MoveInv
(* A step after which everybody holds what they held. *)
<1>k. ASSUME UNCHANGED <<send, delivered, broadcast, tasks, failedMsgs, lost, pushed>>,
             hub'.msg = hub.msg,
             \A w \in Workers : Held(<<"worker", w>>)' = Held(<<"worker", w>>),
             \A p \in Pushers : Held(<<"push", p>>)' = Held(<<"push", p>>),
             stats'.total = stats.total, stats'.failed = stats.failed
      PROVE  MoveInv'
  <2>1. ASSUME NEW h \in Holders PROVE Held(h)' = Held(h)
    <3>1. CASE \E w \in Workers : h = <<"worker", w>>
      BY <1>k, <3>1
    <3>2. CASE \E p \in Pushers : h = <<"push", p>>
      BY <1>k, <3>2
    <3>3. CASE (\A w \in Workers : h # <<"worker", w>>) /\ \A p \in Pushers : h # <<"push", p>>
      <4>1. Untouched(h)
        BY <1>k, <3>3 DEF Untouched
      <4> QED BY <4>1, HeldKept
    <3> QED BY <3>1, <3>2, <3>3
  <2>2. HeldInv'
    BY <1>i, <1>k, <2>1 DEF HeldInv
  <2>3. SeqInv'
    BY <1>i, <1>k DEF SeqInv, NoneTwice
  <2> QED BY <1>k, <1>s, <2>2, <2>3 DEF MoveInv
<1>5. CASE SendTimeout
  <2>1. PICK m : m = hub.msg /\ m \in Msg
    BY <1>5 DEF SendTimeout, TypeInv, LoopPart, LoopHands
  <2>2. UNCHANGED <<send, delivered, broadcast, tasks, worker, push, lost, pushed>>
    BY <1>5 DEF SendTimeout, connVars, chanVars, pushVars
  <2>3. CASE hub' = [hub EXCEPT !.tries = @ + 1] /\ UNCHANGED <<stats, failedMsgs>>
    <3>1. hub'.msg = hub.msg
      BY <1>t, <2>3 DEF LoopState
    <3>2. /\ \A w \in Workers : Held(<<"worker", w>>)' = Held(<<"worker", w>>)
          /\ \A p \in Pushers : Held(<<"push", p>>)' = Held(<<"push", p>>)
      BY <2>2 DEF Held, Pushing
    <3> QED BY <1>k, <2>2, <2>3, <3>1, <3>2
  <2>4. CASE /\ hub' = Idle /\ stats' = [stats EXCEPT !.failed = @ + 1]
             /\ failedMsgs' = failedMsgs \cup {m}
    <3>1. <<"hub", None>> \in Holders /\ <<"failed", None>> \in Holders
      BY HolderNames DEF Single
    <3>2. Held(<<"hub", None>>)' = {} /\ Held(<<"hub", None>>) = {m}
      BY <1>t, <2>1, <2>4, HeldBy, HeldNext DEF Idle
    <3>3. m \notin failedMsgs
      <4>1. m \notin Held(<<"failed", None>>)
        BY <1>i, <3>1, <3>2, HeldApart
      <4> QED BY <4>1, HeldBy
    <3>4. HeldInv'
      <4>1. \A h \in Holders \ {<<"hub", None>>, <<"failed", None>>} : Untouched(h)
        BY <2>2 DEF Untouched
      <4>2. Held(<<"failed", None>>)' = Held(<<"failed", None>>) \cup {m}
        BY <2>4, HeldBy, HeldNext
      <4> QED BY <1>i, <2>2, <3>1, <3>2, <4>1, <4>2, HeldMoves
    <3>5. SeqInv'
      BY <1>i, <2>2 DEF SeqInv, NoneTwice
    <3>6. StatInv'
      BY <1>f, <2>2, <2>4, <3>3
    <3> QED BY <3>4, <3>5, <3>6 DEF MoveInv
  <2> QED BY <1>5, <2>1, <2>3, <2>4 DEF SendTimeout
<1>6. ASSUME NEW p \in Pushers, PushOne(p) PROVE MoveInv'
  <2>1. PICK m : m = Pushing(p) OBVIOUS
  <2>2. m \in Msg /\ m \notin pushed
    BY <1>6, <2>1, PushesNew DEF PushOne, CountInv
  <2>3. /\ pushed' = pushed \cup {m} /\ stats' = [stats EXCEPT !.total = @ + 1] /\ push[p].at = "one"
        /\ UNCHANGED <<send, hub, tasks, worker, lost, failedMsgs, delivered>>
    BY <1>6, <2>1 DEF PushOne, connVars
  <2>4. StatInv'
    <3>1. stats'.total = stats.total + 1 /\ stats'.failed = stats.failed
      BY <1>t, <2>3
    <3>2. IsFiniteSet(pushed') /\ Cardinality(pushed') = Cardinality(pushed) + 1
      BY <1>i, <2>2, <2>3, FS_AddElement DEF StatInv
    <3> QED BY <1>i, <2>3, <3>1, <3>2 DEF StatInv
  <2>5. <<"broadcast", None>> \in Holders /\ <<"push", p>> \in Holders
    BY HolderNames DEF Single
  <2>6. Held(<<"push", p>>) = {} /\ m \notin Range(broadcast)
    <3>1. Held(<<"push", p>>) = {}
      BY <2>3 DEF Held
    <3>2. Held(<<"broadcast", None>>) \subseteq pushed /\ Held(<<"broadcast", None>>) = Range(broadcast)
      BY <1>i, <2>5, HeldBy DEF HeldInv
    <3> QED BY <2>2, <3>1, <3>2
  <2>7. PICK a, q : /\ q = [push[p] EXCEPT !.at = a] /\ push' = [push EXCEPT ![p] = q]
                    /\ \/ a = "next" /\ broadcast' = Append(broadcast, m)
                       \/ a = "full" /\ UNCHANGED broadcast
    BY <1>6, <1>t, <2>1 DEF PushOne, PushState
  <2>8. /\ push'[p] = q /\ q.at = a /\ q.event = push[p].event /\ q.uid = push[p].uid
        /\ \A r \in Pushers \ {p} : push'[r] = push[r]
    BY <1>t, <2>7 DEF PushState
  <2>9. Held(<<"push", p>>)' = IF a = "full" THEN {m} ELSE {}
    <3>1. Held(<<"push", p>>)' = IF q.at \in {"full", "submit"} THEN {[uid |-> q.uid, event |-> q.event]} ELSE {}
      BY <2>8 DEF Held, Pushing
    <3>2. m = [uid |-> q.uid, event |-> q.event]
      BY <2>1, <2>8 DEF Pushing
    <3> QED BY <2>7, <2>8, <3>1, <3>2
  <2>10. CASE a = "next"
    <3>1. broadcast' = Append(broadcast, m)
      BY <2>7, <2>10
    <3>2. Range(broadcast') = Range(broadcast) \cup {m} /\ IsInjective(broadcast')
      BY <1>n, <1>t, <2>2, <2>6, <3>1, RangeAppend
    <3>3. SeqInv'
      <4>1. NoneTwice'
        BY <1>n, <2>3, <3>2 DEF NoneTwice
      <4> QED BY <1>t, <2>3, <4>1 DEF SeqInv
    <3>4. Held(<<"broadcast", None>>)' = Held(<<"broadcast", None>>) \cup {m}
      BY <3>2, HeldBy, HeldNext
    <3>5. \A h \in Holders \ {<<"broadcast", None>>, <<"push", p>>} : Untouched(h)
      BY <2>3, <2>8 DEF Untouched
    <3>6. \A h \in Holders \ {<<"broadcast", None>>} : Held(h)' = Held(h)
      BY <2>6, <2>9, <2>10, <3>5, HeldKept
    <3> QED BY <1>i, <2>2, <2>3, <2>4, <2>5, <3>3, <3>4, <3>6, HeldEnters DEF MoveInv
  <2>11. CASE a = "full"
    <3>1. UNCHANGED broadcast /\ Held(<<"push", p>>)' = Held(<<"push", p>>) \cup {m}
      BY <2>6, <2>7, <2>9, <2>11
    <3>2. SeqInv'
      BY <1>i, <2>3, <3>1 DEF SeqInv, NoneTwice
    <3>3. \A h \in Holders \ {<<"push", p>>} : Untouched(h)
      BY <2>3, <2>8, <3>1 DEF Untouched
    <3>4. \A h \in Holders \ {<<"push", p>>} : Held(h)' = Held(h)
      BY <3>3, HeldKept
    <3> QED BY <1>i, <2>2, <2>3, <2>4, <2>5, <3>1, <3>2, <3>4, HeldEnters DEF MoveInv
  <2> QED BY <2>7, <2>10, <2>11
<1>7. ASSUME NEW p \in Pushers, Submit(p) PROVE MoveInv'
  <2>1. PICK m : m = Pushing(p) OBVIOUS
  <2>2. /\ push[p].at = "submit" /\ tasks' = Append(tasks, m) /\ push' = [push EXCEPT ![p].at = "next"]
        /\ UNCHANGED <<send, delivered, hub, broadcast, worker, lost, failedMsgs, pushed, stats>>
    BY <1>7, <2>1 DEF Submit, connVars, histVars
  <2>3. m \in Msg
    BY <1>t, <2>1, <2>2 DEF Pushing, Msg, TypeInv, PushPart, PushHands, PushState
  <2>4. push'[p].at = "next" /\ \A r \in Pushers \ {p} : push'[r] = push[r]
    BY <1>t, <2>2 DEF PushState
  <2>5. Held(<<"push", p>>) = {m} /\ Held(<<"push", p>>)' = {}
    <3>1. Held(<<"push", p>>)' = {}
      BY <2>4 DEF Held
    <3>2. Held(<<"push", p>>) = {m}
      BY <2>1, <2>2, HeldBy
    <3> QED BY <3>1, <3>2
  <2>6. <<"tasks", None>> \in Holders /\ <<"push", p>> \in Holders
    BY HolderNames DEF Single
  <2>7. m \notin Range(tasks)
    <3>1. m \notin Held(<<"tasks", None>>)
      BY <1>i, <2>5, <2>6, HeldApart
    <3> QED BY <3>1, HeldBy
  <2>8. Range(tasks') = Range(tasks) \cup {m} /\ IsInjective(tasks')
    BY <1>n, <1>t, <2>2, <2>3, <2>7, RangeAppend
  <2>9. SeqInv'
    <3>1. NoneTwice'
      BY <1>n, <2>2, <2>8 DEF NoneTwice
    <3> QED BY <1>t, <2>2, <3>1 DEF SeqInv
  <2>10. HeldInv'
    <3>1. \A h \in Holders \ {<<"push", p>>, <<"tasks", None>>} : Untouched(h)
      BY <2>2, <2>4 DEF Untouched
    <3>2. Held(<<"tasks", None>>)' = Held(<<"tasks", None>>) \cup {m}
      BY <2>8, HeldBy, HeldNext
    <3> QED BY <1>i, <2>2, <2>5, <2>6, <3>1, <3>2, HeldMoves
  <2>11. StatInv'
    BY <1>s, <2>2
  <2> QED BY <2>9, <2>10, <2>11 DEF MoveInv
<1>8. ASSUME NEW w \in Workers, WorkerTake(w) PROVE MoveInv'
  <2>1. PICK m : m = Head(tasks) OBVIOUS
  <2>2. /\ tasks # <<>> /\ tasks' = Tail(tasks) /\ worker[w] = NoTask
        /\ worker' = [worker EXCEPT ![w] = [msg |-> m, tries |-> 0]]
        /\ UNCHANGED <<send, delivered, hub, broadcast, push, lost, failedMsgs, pushed, stats>>
    BY <1>8, <2>1 DEF WorkerTake, connVars, pushVars, histVars
  <2>3. /\ m \in Msg /\ m \in Range(tasks) /\ Range(tasks) = Range(tasks') \cup {m}
        /\ m \notin Range(tasks') /\ IsInjective(tasks')
    BY <1>n, <1>t, <2>1, <2>2, RangeTail
  <2>4. /\ worker'[w].msg = m /\ worker[w].msg = None
        /\ \A v \in Workers \ {w} : worker'[v] = worker[v]
    BY <1>t, <2>2 DEF NoTask
  <2>5. SeqInv'
    <3>1. NoneTwice'
      BY <1>n, <2>2, <2>3 DEF NoneTwice
    <3> QED BY <1>t, <2>2, <3>1 DEF SeqInv
  <2>6. HeldInv'
    <3>1. \A h \in Holders \ {<<"tasks", None>>, <<"worker", w>>} : Untouched(h)
      BY <2>2, <2>4 DEF Untouched
    <3>2. Held(<<"worker", w>>)' = {m} /\ Held(<<"worker", w>>) = {}
      BY <1>t, <2>3, <2>4, HeldBy, HeldNext
    <3>3. /\ Held(<<"tasks", None>>) = Held(<<"tasks", None>>)' \cup {m}
          /\ m \notin Held(<<"tasks", None>>)'
      BY <2>3, HeldBy, HeldNext
    <3>4. <<"tasks", None>> \in Holders /\ <<"worker", w>> \in Holders
      BY HolderNames DEF Single
    <3> QED BY <1>i, <2>2, <3>1, <3>2, <3>3, <3>4, HeldMoves
  <2>7. StatInv'
    BY <1>s, <2>2
  <2> QED BY <2>5, <2>6, <2>7 DEF MoveInv
<1>9. ASSUME NEW w \in Workers, WorkerPush(w) PROVE MoveInv'
  <2>1. PICK m : m = worker[w].msg OBVIOUS
  <2>2. /\ m \in Msg /\ broadcast' = Append(broadcast, m) /\ worker' = [worker EXCEPT ![w] = NoTask]
        /\ UNCHANGED <<send, delivered, hub, tasks, push, lost, failedMsgs, pushed, stats>>
    BY <1>9, <2>1 DEF WorkerPush, connVars, pushVars, histVars, TypeInv, ChanPart, WorkerHands
  <2>3. worker'[w].msg = None /\ \A v \in Workers \ {w} : worker'[v] = worker[v]
    BY <1>t, <2>2 DEF NoTask
  <2>4. Held(<<"worker", w>>)' = {} /\ Held(<<"worker", w>>) = {m}
    BY <1>t, <2>1, <2>2, <2>3, HeldBy, HeldNext
  <2>5. <<"broadcast", None>> \in Holders /\ <<"worker", w>> \in Holders
    BY HolderNames DEF Single
  <2>6. m \notin Range(broadcast)
    <3>1. m \notin Held(<<"broadcast", None>>)
      BY <1>i, <2>4, <2>5, HeldApart
    <3> QED BY <3>1, HeldBy
  <2>7. Range(broadcast') = Range(broadcast) \cup {m} /\ IsInjective(broadcast')
    BY <1>n, <1>t, <2>2, <2>6, RangeAppend
  <2>8. SeqInv'
    <3>1. NoneTwice'
      BY <1>n, <2>2, <2>7 DEF NoneTwice
    <3> QED BY <1>t, <2>2, <3>1 DEF SeqInv
  <2>9. HeldInv'
    <3>1. \A h \in Holders \ {<<"worker", w>>, <<"broadcast", None>>} : Untouched(h)
      BY <2>2, <2>3 DEF Untouched
    <3>2. Held(<<"broadcast", None>>)' = Held(<<"broadcast", None>>) \cup {m}
      BY <2>7, HeldBy, HeldNext
    <3> QED BY <1>i, <2>2, <2>4, <2>5, <3>1, <3>2, HeldMoves
  <2>10. StatInv'
    BY <1>s, <2>2
  <2> QED BY <2>8, <2>9, <2>10 DEF MoveInv
<1>10. ASSUME NEW w \in Workers, WorkerTimeout(w) PROVE MoveInv'
  <2>1. PICK m : m = worker[w].msg OBVIOUS
  <2>2. m \in Msg /\ UNCHANGED <<send, delivered, hub, broadcast, tasks, push, lost, pushed>>
    BY <1>10, <2>1 DEF WorkerTimeout, connVars, pushVars, TypeInv, ChanPart, WorkerHands
  <2>3. CASE worker' = [worker EXCEPT ![w].tries = @ + 1] /\ UNCHANGED <<stats, failedMsgs>>
    <3>1. \A v \in Workers : worker'[v].msg = worker[v].msg
      BY <1>t, <2>3 DEF TaskState
    <3>2. /\ \A v \in Workers : Held(<<"worker", v>>)' = Held(<<"worker", v>>)
          /\ \A p \in Pushers : Held(<<"push", p>>)' = Held(<<"push", p>>)
      BY <2>2, <3>1 DEF Held, Pushing
    <3> QED BY <1>k, <2>2, <2>3, <3>2
  <2>4. CASE /\ worker' = [worker EXCEPT ![w] = NoTask] /\ stats' = [stats EXCEPT !.failed = @ + 1]
             /\ failedMsgs' = failedMsgs \cup {m}
    <3>1. worker'[w].msg = None /\ \A v \in Workers \ {w} : worker'[v] = worker[v]
      BY <1>t, <2>4 DEF NoTask
    <3>2. <<"worker", w>> \in Holders /\ <<"failed", None>> \in Holders
      BY HolderNames DEF Single
    <3>3. Held(<<"worker", w>>)' = {} /\ Held(<<"worker", w>>) = {m}
      BY <1>t, <2>1, <2>2, <3>1, HeldBy, HeldNext
    <3>4. m \notin failedMsgs
      <4>1. m \notin Held(<<"failed", None>>)
        BY <1>i, <3>2, <3>3, HeldApart
      <4> QED BY <4>1, HeldBy
    <3>5. HeldInv'
      <4>1. \A h \in Holders \ {<<"worker", w>>, <<"failed", None>>} : Untouched(h)
        BY <2>2, <3>1 DEF Untouched
      <4>2. Held(<<"failed", None>>)' = Held(<<"failed", None>>) \cup {m}
        BY <2>4, HeldBy, HeldNext
      <4> QED BY <1>i, <2>2, <3>2, <3>3, <4>1, <4>2, HeldMoves
    <3>6. SeqInv'
      BY <1>i, <2>2 DEF SeqInv, NoneTwice
    <3>7. StatInv'
      BY <1>f, <2>2, <2>4, <3>4
    <3> QED BY <3>5, <3>6, <3>7 DEF MoveInv
  <2> QED BY <1>10, <2>1, <2>3, <2>4 DEF WorkerTimeout
<1>11. ASSUME UNCHANGED <<send, delivered, broadcast, tasks, failedMsgs, lost, pushed, stats, worker>>,
              hub'.msg = hub.msg,
              \A p \in Pushers : push'[p] = push[p] \/ ({push[p].at, push'[p].at} \cap {"full", "submit"} = {})
       PROVE  MoveInv'
  <2>1. \A w \in Workers : Held(<<"worker", w>>)' = Held(<<"worker", w>>)
    BY <1>11 DEF Held
  <2>2. \A p \in Pushers : Held(<<"push", p>>)' = Held(<<"push", p>>)
    BY <1>11 DEF Held, Pushing
  <2> QED BY <1>11, <1>k, <2>1, <2>2
<1>12. CASE UNCHANGED hubVars \/ (\E c \in Conns : Open(c) \/ Disconnect(c) \/ StreamClosed(c) \/ Register(c))
            \/ CloseStep
  <2>1. UNCHANGED <<send, delivered, broadcast, tasks, failedMsgs, lost, pushed, stats, worker, hub, push>>
    BY <1>12 DEF hubVars, Open, Disconnect, StreamClosed, Register, CloseStep, ClosePoll, CloseVisit,
                 CloseDelete, CloseSend, CloseCancel, CloseStop, connVars, chanVars, pushVars, histVars
  <2> QED BY <1>11, <2>1
<1>13. CASE UnregisterDelete \/ HubFull \/ HubStop \/ UnregisterClose \/ \E c \in Conns : Unregister(c)
  <2>1. UNCHANGED <<send, delivered, broadcast, tasks, failedMsgs, lost, pushed, stats, worker, push>>
    BY <1>13 DEF UnregisterDelete, HubFull, HubStop, UnregisterClose, Unregister, connVars, chanVars,
                 pushVars, histVars
  <2>2. hub'.msg = hub.msg
    <3>1. CASE UnregisterDelete \/ HubFull \/ HubStop
      BY <1>t, <3>1 DEF UnregisterDelete, HubFull, HubStop, LoopState
    <3>2. CASE UnregisterClose
      BY <3>2 DEF UnregisterClose, Idle, CountInv, HandsInv
    <3>3. ASSUME NEW c \in Conns, Unregister(c) PROVE hub'.msg = hub.msg
      BY <1>t, <3>3 DEF Unregister, LoopState
    <3> QED BY <1>13, <3>1, <3>2, <3>3
  <2> QED BY <1>11, <2>1, <2>2
<1>14. CASE AppPush \/ CloseStart
  <2>1. UNCHANGED <<send, delivered, broadcast, tasks, failedMsgs, lost, pushed, stats, worker, hub>>
    BY <1>14 DEF AppPush, CloseStart, connVars, chanVars, histVars
  <2>2. ASSUME NEW p \in Pushers, push[p].at = "idle", NEW e, NEW todo, PushStart(p, e, todo)
        PROVE  MoveInv'
    <3>1. push'[p].at = "next" /\ \A r \in Pushers \ {p} : push'[r] = push[r]
      BY <1>t, <2>2 DEF PushStart
    <3> QED BY <1>11, <2>1, <2>2, <3>1
  <2>3. CASE AppPush
    <3>1. \E e, todo : PushStart("app", e, todo)
      BY <2>3 DEF AppPush
    <3> QED BY <2>2, <2>3, <3>1 DEF AppPush, Pushers
  <2>4. CASE CloseStart
    <3>1. UNCHANGED push \/ \E e, todo : PushStart("closer", e, todo)
      BY <2>4 DEF CloseStart
    <3>2. push["closer"].at = "idle"
      BY <2>4 DEF CloseStart, CountInv, FreshInv
    <3>3. CASE UNCHANGED push
      BY <1>11, <2>1, <3>3
    <3> QED BY <2>2, <3>1, <3>2, <3>3 DEF Pushers
  <2> QED BY <1>14, <2>3, <2>4
<1>15. ASSUME NEW p \in Pushers, PushNext(p) PROVE MoveInv'
  <2>1. /\ UNCHANGED <<send, delivered, broadcast, tasks, failedMsgs, lost, pushed, stats, worker, hub>>
        /\ push[p].at = "next" /\ push[p] \in PushState
    BY <1>15, <1>t DEF PushNext, connVars, chanVars, histVars
  <2>2. push'[p].at \in {"next", "one", "idle"} /\ \A r \in Pushers \ {p} : push'[r] = push[r]
    <3>1. ASSUME NEW u \in push[p].todo,
                 push' = [push EXCEPT ![p].todo = @ \ {u},
                                      ![p].at   = IF clients[u] = None THEN "next" ELSE "one",
                                      ![p].uid  = u]
          PROVE  push'[p].at \in {"next", "one"} /\ \A r \in Pushers \ {p} : push'[r] = push[r]
      BY <1>t, <2>1, <3>1 DEF PushState
    <3>2. CASE push' = [push EXCEPT ![p] = NoPush]
      BY <1>t, <3>2 DEF NoPush
    <3> QED BY <1>15, <3>1, <3>2 DEF PushNext
  <2> QED BY <1>11, <2>1, <2>2
<1>16. ASSUME NEW p \in Pushers, SubmitAdd(p) PROVE MoveInv'
  <2>1. /\ UNCHANGED <<send, delivered, broadcast, tasks, failedMsgs, lost, pushed, stats, worker, hub>>
        /\ push[p].at = "full" /\ push' = [push EXCEPT ![p].at = "submit"]
    BY <1>16 DEF SubmitAdd, connVars, chanVars, histVars
  <2>2. /\ push'[p].at = "submit" /\ push'[p].uid = push[p].uid /\ push'[p].event = push[p].event
        /\ \A r \in Pushers \ {p} : push'[r] = push[r]
    BY <1>t, <2>1 DEF PushState
  <2>3. \A r \in Pushers : Held(<<"push", r>>)' = Held(<<"push", r>>)
    BY <2>1, <2>2 DEF Held, Pushing
  <2>4. \A w \in Workers : Held(<<"worker", w>>)' = Held(<<"worker", w>>)
    BY <2>1 DEF Held
  <2> QED BY <1>k, <2>1, <2>3, <2>4
<1> QED
  BY <1>1, <1>2, <1>3, <1>4, <1>5, <1>6, <1>7, <1>8, <1>9, <1>10, <1>12, <1>13, <1>14, <1>15, <1>16
  DEF HubNext, HubLoop, Serving, Pushes, PushStep, Working

LEMMA CountInitial == HubInit => CountInv
<1> SUFFICES ASSUME HubInit PROVE CountInv OBVIOUS
<1>1. FreshInv
  BY DEF HubInit, FreshInv, NoPush, CloseEvent, Ahead, Pushers
<1>2. HandsInv
  BY DEF HubInit, HandsInv, Idle
<1>3. StatInv
  BY FS_EmptySet DEF HubInit, StatInv
<1>4. SeqInv
  BY DEF HubInit, SeqInv, NoneTwice, IsInjective
<1>5. HeldInv
  <2>1. ASSUME NEW h \in Holders PROVE Held(h) = {}
    <3>1. Range(<<>>) = {}
      BY DEF Range
    <3>2. /\ \A c \in Conns : Held(<<"send", c>>) = {} /\ Held(<<"delivered", c>>) = {}
          /\ \A w \in Workers : Held(<<"worker", w>>) = {}
          /\ \A p \in Pushers : Held(<<"push", p>>) = {}
      BY <3>1 DEF HubInit, Held, NoTask, NoPush
    <3>3. \A k \in Single : Held(<<k, None>>) = {}
      BY <3>1 DEF HubInit, Held, Single, Idle
    <3> QED BY <3>2, <3>3, HolderIs
  <2> QED BY <2>1 DEF HubInit, HeldInv
<1> QED BY <1>1, <1>2, <1>3, <1>4, <1>5 DEF CountInv

LEMMA CountStep == TypeInv /\ CountInv /\ [HubNext]_hubVars => (TypeInv /\ CountInv)'
<1> SUFFICES ASSUME TypeInv, CountInv, [HubNext]_hubVars PROVE (TypeInv /\ CountInv)' OBVIOUS
<1>1. TypeInv'
  BY TypeStep
<1>2. FreshInv' /\ HandsInv'
  BY FreshStep, HandsStep DEF CountInv
<1>3. MoveInv'
  BY MoveStep
<1> QED BY <1>1, <1>2, <1>3 DEF CountInv, MoveInv

(* Every message Push counted is in exactly one place, once, and nothing     *)
(* else is anywhere, for any number of users, connections, workers and       *)
(* events and any capacities, also while the hub is closed: what Push counts *)
(* is new, and every step hands the message on or ends it (pushOne,          *)
(* AsyncTaskPool, run, Serve, Close, PushStats).                             *)
THEOREM HubConserves == HubSpec => []Conservation
<1>1. CountInv => Conservation
  <2> SUFFICES ASSUME CountInv PROVE Conservation OBVIOUS
  <2>1. HeldInv /\ SeqInv /\ StatInv
    BY DEF CountInv
  <2>2. ASSUME NEW m \in pushed
        PROVE  \E h \in Holders : m \in Held(h) /\ \A k \in Holders \ {h} : m \notin Held(k)
    <3>1. PICK h \in Holders : m \in Held(h)
      BY <2>1 DEF HeldInv
    <3> QED BY <2>1, <3>1, HeldApart
  <2> QED BY <2>1, <2>2 DEF Conservation, HeldInv, SeqInv, StatInv
<1> QED BY <1>1, TypeInitial, CountInitial, CountStep, PTL DEF HubSpec

-----------------------------------------------------------------------------
(* a comes before b if both took the fast path to the same user. *)
Before(f, a, b) ==
  a \in f /\ b \in f /\ CloseEvent \notin {a.event, b.event} /\ a.uid = b.uid => a.event < b.event
Precede(f, A, B) == \A a \in A, b \in B : Before(f, a, b)
Sorted(f, s)     == \A i, j \in DOMAIN s : i < j => Before(f, s[i], s[j])

Hands    == {hub.msg} \ {None}
Taken(c) == Range(delivered[c]) \cup Range(send[c])

(* A message is for the user of the connection it is sent to. *)
UserInv ==
  /\ \A u \in Uids : clients[u] # None => UidOf[clients[u]] = u
  /\ hub.at \in {"send", "retry"} => hub.msg.uid = UidOf[hub.conn]
  /\ \A c \in Conns : \A m \in Taken(c) : m.uid = UidOf[c]

(* What waits in the pool did not take the fast path. *)
SlowInv == /\ fast \subseteq pushed
           /\ \A m \in Range(tasks) : m \notin fast
           /\ \A w \in Workers : worker[w].msg \notin fast
           /\ \A p \in Pushers : push[p].at \in {"full", "submit"} => Pushing(p) \notin fast

(* From the broadcast channel through the loop's hands and a Send channel    *)
(* to the wire, the fast path keeps its order.                               *)
LineInv == /\ Sorted(fast, broadcast) /\ Precede(fast, Hands, Range(broadcast))
           /\ \A c \in Conns : /\ Sorted(fast, send[c]) /\ Sorted(fast, delivered[c])
                               /\ Precede(fast, Range(delivered[c]), Range(send[c]))
                               /\ Precede(fast, Taken(c), Hands \cup Range(broadcast))

OrderInv == UserInv /\ SlowInv /\ LineInv

LEMMA SortedAppend ==
  ASSUME NEW S, NEW s \in Seq(S), NEW m \in S, NEW f, Sorted(f, s), Precede(f, Range(s), {m})
  PROVE  Sorted(f, Append(s, m))
<1>1. DOMAIN Append(s, m) = 1 .. (Len(s) + 1) /\ DOMAIN s = 1 .. Len(s) /\ Len(s) \in Nat
  OBVIOUS
<1>2. (\A i \in 1 .. Len(s) : Append(s, m)[i] = s[i]) /\ Append(s, m)[Len(s) + 1] = m
  OBVIOUS
<1> SUFFICES ASSUME NEW i \in 1 .. (Len(s) + 1), NEW j \in 1 .. (Len(s) + 1), i < j
             PROVE  Before(f, Append(s, m)[i], Append(s, m)[j])
  BY <1>1 DEF Sorted
<1>3. i \in 1 .. Len(s) /\ s[i] \in Range(s)
  BY <1>1 DEF Range
<1>4. CASE j = Len(s) + 1
  BY <1>2, <1>3, <1>4 DEF Precede
<1>5. CASE j \in 1 .. Len(s)
  BY <1>1, <1>2, <1>3, <1>5 DEF Sorted
<1> QED BY <1>1, <1>4, <1>5

LEMMA SortedTail ==
  ASSUME NEW S, NEW s \in Seq(S), s # <<>>, NEW f, Sorted(f, s)
  PROVE  Sorted(f, Tail(s)) /\ Precede(f, {Head(s)}, Range(Tail(s)))
<1>1. /\ DOMAIN Tail(s) = 1 .. (Len(s) - 1) /\ DOMAIN s = 1 .. Len(s) /\ Len(s) \in Nat \ {0}
      /\ Head(s) = s[1]
  OBVIOUS
<1>2. \A i \in 1 .. (Len(s) - 1) : Tail(s)[i] = s[i + 1]
  OBVIOUS
<1>3. Sorted(f, Tail(s))
  <2> SUFFICES ASSUME NEW i \in 1 .. (Len(s) - 1), NEW j \in 1 .. (Len(s) - 1), i < j
               PROVE  Before(f, Tail(s)[i], Tail(s)[j])
    BY <1>1 DEF Sorted
  <2>1. PICK k, l \in DOMAIN s : k = i + 1 /\ l = j + 1 /\ k < l
    BY <1>1
  <2> QED BY <1>2, <2>1 DEF Sorted
<1>4. Precede(f, {Head(s)}, Range(Tail(s)))
  <2> SUFFICES ASSUME NEW j \in 1 .. (Len(s) - 1) PROVE Before(f, Head(s), Tail(s)[j])
    BY <1>1 DEF Precede, Range
  <2>1. PICK k, l \in DOMAIN s : k = 1 /\ l = j + 1 /\ k < l
    BY <1>1
  <2> QED BY <1>1, <1>2, <2>1 DEF Sorted
<1> QED BY <1>3, <1>4

(* A new message on the fast path does not concern the old ones. *)
LEMMA OrderGrows ==
  ASSUME NEW f, NEW m, NEW P, m \notin P
  PROVE  /\ \A s : Sorted(f, s) /\ Range(s) \subseteq P => Sorted(f \cup {m}, s)
         /\ \A A, B : Precede(f, A, B) /\ A \cup B \subseteq P => Precede(f \cup {m}, A, B)
<1>1. \A a, b \in P : Before(f, a, b) => Before(f \cup {m}, a, b)
  BY DEF Before
<1>2. ASSUME NEW s, Sorted(f, s), Range(s) \subseteq P PROVE Sorted(f \cup {m}, s)
  BY <1>1, <1>2 DEF Sorted, Range
<1>3. ASSUME NEW A, NEW B, Precede(f, A, B), A \cup B \subseteq P PROVE Precede(f \cup {m}, A, B)
  BY <1>1, <1>3 DEF Precede
<1> QED BY <1>2, <1>3

LEMMA UserStep ==
  ASSUME TypeInv, SeqInv, UserInv, [HubNext]_hubVars
  PROVE  UserInv'
<1>t. /\ clients \in [Uids -> Conns \cup {None}] /\ UidOf \in [Conns -> Uids] /\ None \notin Conns
      /\ send \in [Conns -> Seq(Msg)] /\ delivered \in [Conns -> Seq(Msg)] /\ hub \in LoopState
  BY HubAssumption DEF TypeInv, ConnTypeOK, LoopPart, SeqInv
<1>1. CASE /\ clients' = clients \/ \E u \in Uids : clients' = [clients EXCEPT ![u] = None]
           /\ UNCHANGED <<send, delivered>>
           /\ hub'.at \in {"send", "retry"} =>
                hub.at \in {"send", "retry"} /\ hub'.msg = hub.msg /\ hub'.conn = hub.conn
  <2>1. \A c \in Conns : Taken(c)' = Taken(c)
    BY <1>1 DEF Taken
  <2> QED BY <1>1, <1>t, <2>1 DEF UserInv
<1>2. ASSUME NEW c \in Conns, Register(c) PROVE UserInv'
  <2>1. UNCHANGED <<send, delivered, hub>> /\ clients' = [clients EXCEPT ![UidOf[c]] = c]
    BY <1>2 DEF Register
  <2>2. \A d \in Conns : Taken(d)' = Taken(d)
    BY <2>1 DEF Taken
  <2> QED BY <1>t, <2>1, <2>2 DEF UserInv
<1>3. ASSUME NEW c \in Conns, NEW ok \in BOOLEAN, Deliver(c, ok) PROVE UserInv'
  <2>1. PICK m : m = Head(send[c]) OBVIOUS
  <2>2. /\ send[c] # <<>> /\ send' = [send EXCEPT ![c] = Tail(@)] /\ UNCHANGED <<clients, hub>>
        /\ delivered' \in {delivered, [delivered EXCEPT ![c] = Append(@, m)]}
    BY <1>3, <2>1 DEF Deliver
  <2>3. /\ send'[c] = Tail(send[c]) /\ delivered'[c] \in {delivered[c], Append(delivered[c], m)}
        /\ \A d \in Conns \ {c} : send'[d] = send[d] /\ delivered'[d] = delivered[d]
    BY <1>t, <2>2
  <2>4. m \in Msg /\ Range(send[c]) = Range(Tail(send[c])) \cup {m} /\ send[c] \in Seq(Msg)
    BY <1>t, <2>1, <2>2, RangeTail
  <2>5. Range(Append(delivered[c], m)) = Range(delivered[c]) \cup {m}
    BY <1>t, <2>4, RangeAppend
  <2>6. \A d \in Conns : Taken(d)' \subseteq Taken(d)
    BY <2>3, <2>4, <2>5 DEF Taken
  <2> QED BY <2>2, <2>6 DEF UserInv
<1>4. CASE Take
  <2>1. PICK m : m = Head(broadcast) OBVIOUS
  <2>2. m \in Msg /\ m.uid \in Uids
    <3>1. broadcast \in Seq(Msg) /\ broadcast # <<>>
      BY <1>4 DEF Take, TypeInv, ChanPart, ChanTypeOK
    <3>2. m \in Msg
      BY <2>1, <3>1, RangeTail
    <3> QED BY <3>2 DEF Msg
  <2>3. /\ UNCHANGED <<clients, send, delivered>>
        /\ \/ UNCHANGED hub
           \/ /\ clients[m.uid] # None
              /\ hub' = [at |-> "send", conn |-> clients[m.uid], msg |-> m, tries |-> 0]
    BY <1>4, <2>1 DEF Take, connVars
  <2>4. \A d \in Conns : Taken(d)' = Taken(d)
    BY <2>3 DEF Taken
  <2>5. hub'.at \in {"send", "retry"} => hub'.msg.uid = UidOf[hub'.conn]
    BY <2>2, <2>3 DEF UserInv
  <2> QED BY <2>3, <2>4, <2>5 DEF UserInv
<1>5. CASE HubSend
  <2>1. PICK m, c : m = hub.msg /\ c = hub.conn OBVIOUS
  <2>2. /\ m \in Msg /\ c \in Conns /\ send' = [send EXCEPT ![c] = Append(@, m)] /\ hub' = Idle
        /\ m.uid = UidOf[c] /\ UNCHANGED <<clients, delivered>>
    BY <1>5, <2>1 DEF HubSend, histVars, TypeInv, LoopPart, LoopHands, UserInv
  <2>3. send'[c] = Append(send[c], m) /\ \A d \in Conns \ {c} : send'[d] = send[d]
    BY <1>t, <2>2
  <2>4. Range(Append(send[c], m)) = Range(send[c]) \cup {m}
    BY <1>t, <2>2, RangeAppend
  <2>5. \A d \in Conns : Taken(d)' \subseteq Taken(d) \cup (IF d = c THEN {m} ELSE {})
    BY <2>2, <2>3, <2>4 DEF Taken
  <2>6. hub'.at = "select"
    BY <2>2 DEF Idle
  <2> QED BY <2>2, <2>5, <2>6 DEF UserInv
<1>6. CASE UnregisterDelete \/ UnregisterClose \/ HubFull \/ SendTimeout \/ HubStop \/ CloseDelete
           \/ \E c \in Conns : Unregister(c)
  <2>1. /\ clients' = clients \/ \E u \in Uids : clients' = [clients EXCEPT ![u] = None]
        /\ UNCHANGED <<send, delivered>>
    <3>1. CASE UnregisterDelete
      BY <1>t, <3>1 DEF UnregisterDelete, connVars, histVars, TypeInv, LoopPart, LoopHands
    <3>2. CASE CloseDelete
      BY <1>t, <3>2 DEF CloseDelete, connVars, histVars, TypeInv, ClosePart, CloseHands
    <3> QED BY <1>6, <3>1, <3>2 DEF UnregisterClose, HubFull, SendTimeout, HubStop, Unregister,
                                    connVars, histVars
  <2>2. hub'.at \in {"send", "retry"} =>
          hub.at \in {"send", "retry"} /\ hub'.msg = hub.msg /\ hub'.conn = hub.conn
    <3>1. CASE UnregisterDelete \/ HubFull \/ HubStop
      BY <1>t, <3>1 DEF UnregisterDelete, HubFull, HubStop, LoopState
    <3>2. CASE UnregisterClose \/ CloseDelete
      BY <3>2 DEF UnregisterClose, CloseDelete, Idle
    <3>3. CASE SendTimeout
      BY <1>t, <3>3 DEF SendTimeout, Idle, LoopState
    <3>4. ASSUME NEW c \in Conns, Unregister(c) PROVE hub'.at \notin {"send", "retry"}
      BY <1>t, <3>4 DEF Unregister, LoopState
    <3> QED BY <1>6, <3>1, <3>2, <3>3, <3>4
  <2> QED BY <1>1, <2>1, <2>2
<1>7. CASE \/ UNCHANGED hubVars \/ (\E c \in Conns : Open(c) \/ Disconnect(c) \/ StreamClosed(c))
           \/ Pushes \/ (\E w \in Workers : Working(w)) \/ CloseStart
           \/ ClosePoll \/ CloseVisit \/ CloseSend \/ CloseCancel \/ CloseStop
  <2>1. UNCHANGED <<clients, send, delivered, hub>>
    BY <1>7 DEF hubVars, Open, Disconnect, StreamClosed, Pushes, AppPush, PushStep, PushNext, PushOne,
                SubmitAdd, Submit, Working, WorkerTake, WorkerPush, WorkerTimeout, CloseStart,
                ClosePoll, CloseVisit, CloseSend, CloseCancel, CloseStop, connVars, histVars
  <2> QED BY <1>1, <2>1
<1> QED BY <1>2, <1>3, <1>4, <1>5, <1>6, <1>7 DEF HubNext, HubLoop, Serving, CloseStep

LEMMA SlowStep ==
  ASSUME TypeInv, CountInv, SlowInv, [HubNext]_hubVars
  PROVE  SlowInv'
<1>t. /\ tasks \in Seq(Msg) /\ worker \in [Workers -> TaskState] /\ push \in [Pushers -> PushState]
      /\ pushed \subseteq Msg /\ None \notin Msg
  BY HubAssumption DEF TypeInv, ChanPart, ChanTypeOK, PushPart, PushTypeOK, CountInv, FreshInv
<1>1. ASSUME UNCHANGED <<fast, pushed>>, \A m \in Range(tasks') : m \notin fast,
             \A w \in Workers : worker'[w].msg \notin fast,
             \A p \in Pushers : push'[p].at \in {"full", "submit"} =>
               /\ push[p].at \in {"full", "submit"}
               /\ push'[p].uid = push[p].uid /\ push'[p].event = push[p].event
      PROVE  SlowInv'
  <2>1. ASSUME NEW p \in Pushers, push'[p].at \in {"full", "submit"} PROVE Pushing(p)' \notin fast
    <3>1. Pushing(p)' = Pushing(p)
      BY <1>1, <2>1 DEF Pushing
    <3>2. Pushing(p) \notin fast
      BY <1>1, <2>1 DEF SlowInv
    <3> QED BY <3>1, <3>2
  <2> QED BY <1>1, <2>1 DEF SlowInv
<1>2. ASSUME NEW p \in Pushers, PushOne(p) PROVE SlowInv'
  <2>1. PICK m : m = Pushing(p) OBVIOUS
  <2>2. /\ m \in Msg /\ m \notin pushed /\ pushed' = pushed \cup {m} /\ UNCHANGED <<tasks, worker>>
        /\ push[p].at = "one"
    BY <1>2, <2>1, PushesNew DEF PushOne, CountInv
  <2>3. PICK a, q : /\ q = [push[p] EXCEPT !.at = a] /\ push' = [push EXCEPT ![p] = q]
                    /\ \/ a = "next" /\ fast' = fast \cup {m}
                       \/ a = "full" /\ UNCHANGED fast
    BY <1>2, <1>t, <2>1 DEF PushOne, PushState
  <2>4. /\ push'[p] = q /\ q.at = a /\ q.event = push[p].event /\ q.uid = push[p].uid
        /\ \A r \in Pushers \ {p} : push'[r] = push[r]
    BY <1>t, <2>3 DEF PushState
  <2>5. fast \subseteq fast' /\ fast' \subseteq fast \cup {m} /\ fast \subseteq pushed
    BY <2>3 DEF SlowInv
  <2>6. ASSUME NEW h \in Holders, NEW n \in Held(h), n \notin fast PROVE n \notin fast'
    BY <2>2, <2>5, <2>6 DEF CountInv, HeldInv
  <2>7. \A n \in Range(tasks') : n \notin fast'
    <3>1. <<"tasks", None>> \in Holders /\ Held(<<"tasks", None>>) = Range(tasks)
      BY HolderNames, HeldBy DEF Single
    <3> QED BY <2>2, <2>6, <3>1 DEF SlowInv
  <2>8. ASSUME NEW w \in Workers PROVE worker'[w].msg \notin fast'
    <3>1. <<"worker", w>> \in Holders /\ Held(<<"worker", w>>) = {worker[w].msg} \ {None}
      BY HolderNames, HeldBy
    <3>2. worker[w].msg \notin fast
      BY DEF SlowInv
    <3>3. CASE worker[w].msg = None
      BY <1>t, <2>2, <2>5, <3>3
    <3>4. CASE worker[w].msg # None
      BY <2>2, <2>6, <3>1, <3>2, <3>4
    <3> QED BY <3>3, <3>4
  <2>9. ASSUME NEW r \in Pushers, push'[r].at \in {"full", "submit"} PROVE Pushing(r)' \notin fast'
    <3>1. CASE r = p
      <4>1. Pushing(r)' = m
        BY <2>1, <2>4, <3>1 DEF Pushing
      <4>2. a = "full" /\ fast' = fast
        BY <2>3, <2>4, <2>9, <3>1
      <4> QED BY <2>2, <2>5, <4>1, <4>2
    <3>2. CASE r # p
      <4>1. Pushing(r)' = Pushing(r) /\ push[r].at \in {"full", "submit"}
        BY <2>4, <2>9, <3>2 DEF Pushing
      <4>2. <<"push", r>> \in Holders /\ Held(<<"push", r>>) = {Pushing(r)}
        BY <4>1, HolderNames, HeldBy
      <4>3. Pushing(r) \notin fast
        BY <4>1 DEF SlowInv
      <4> QED BY <2>6, <4>1, <4>2, <4>3
    <3> QED BY <3>1, <3>2
  <2>10. fast' \subseteq pushed'
    BY <2>2, <2>5
  <2> QED BY <2>7, <2>8, <2>9, <2>10 DEF SlowInv
<1>3. ASSUME NEW p \in Pushers, Submit(p) PROVE SlowInv'
  <2>1. PICK m : m = Pushing(p) OBVIOUS
  <2>2. /\ push[p].at = "submit" /\ tasks' = Append(tasks, m) /\ push' = [push EXCEPT ![p].at = "next"]
        /\ UNCHANGED <<fast, pushed, worker>>
    BY <1>3, <2>1 DEF Submit, histVars
  <2>3. m \in Msg /\ m \notin fast
    BY <1>t, <2>1, <2>2 DEF Pushing, Msg, TypeInv, PushPart, PushHands, PushState, SlowInv
  <2>4. Range(tasks') = Range(tasks) \cup {m}
    BY <1>t, <2>2, <2>3, RangeAppend
  <2>5. push'[p].at = "next" /\ \A r \in Pushers \ {p} : push'[r] = push[r]
    BY <1>t, <2>2 DEF PushState
  <2> QED BY <1>1, <2>2, <2>3, <2>4, <2>5 DEF SlowInv
<1>4. ASSUME NEW w \in Workers, WorkerTake(w) PROVE SlowInv'
  <2>1. PICK m : m = Head(tasks) OBVIOUS
  <2>2. /\ tasks # <<>> /\ tasks' = Tail(tasks) /\ UNCHANGED <<push, fast, pushed>>
        /\ worker' = [worker EXCEPT ![w] = [msg |-> m, tries |-> 0]]
    BY <1>4, <2>1 DEF WorkerTake, pushVars, histVars
  <2>3. m \in Range(tasks) /\ Range(tasks) = Range(tasks') \cup {m}
    BY <1>t, <2>1, <2>2, RangeTail
  <2>4. worker'[w].msg = m /\ \A v \in Workers \ {w} : worker'[v] = worker[v]
    BY <1>t, <2>2
  <2> QED BY <1>1, <2>2, <2>3, <2>4 DEF SlowInv
<1>5. ASSUME NEW w \in Workers, WorkerPush(w) \/ WorkerTimeout(w) PROVE SlowInv'
  <2>1. UNCHANGED <<tasks, push, fast, pushed>>
    BY <1>5 DEF WorkerPush, WorkerTimeout, pushVars, histVars
  <2>2. \/ worker' = [worker EXCEPT ![w] = NoTask]
        \/ worker' = [worker EXCEPT ![w].tries = @ + 1]
    BY <1>5 DEF WorkerPush, WorkerTimeout
  <2>3. \A v \in Workers : worker'[v].msg \in {None, worker[v].msg}
    BY <1>t, <2>2 DEF NoTask, TaskState
  <2>4. None \notin fast
    BY <1>t DEF SlowInv
  <2> QED BY <1>1, <2>1, <2>3, <2>4 DEF SlowInv
<1>6. ASSUME NEW p \in Pushers, SubmitAdd(p) PROVE SlowInv'
  <2>1. UNCHANGED <<tasks, worker, fast, pushed>> /\ push' = [push EXCEPT ![p].at = "submit"] /\ push[p].at = "full"
    BY <1>6 DEF SubmitAdd, chanVars, histVars
  <2>2. /\ push'[p].at = "submit" /\ push'[p].uid = push[p].uid /\ push'[p].event = push[p].event
        /\ \A r \in Pushers \ {p} : push'[r] = push[r]
    BY <1>t, <2>1 DEF PushState
  <2> QED BY <1>1, <2>1, <2>2 DEF SlowInv
<1>7. ASSUME NEW p \in Pushers, PushNext(p) PROVE SlowInv'
  <2>1. UNCHANGED <<tasks, worker, fast, pushed>> /\ push[p].at = "next" /\ push[p] \in PushState
    BY <1>7, <1>t DEF PushNext, chanVars, histVars
  <2>2. push'[p].at \in {"next", "one", "idle"} /\ \A r \in Pushers \ {p} : push'[r] = push[r]
    <3>1. ASSUME NEW u \in push[p].todo,
                 push' = [push EXCEPT ![p].todo = @ \ {u},
                                      ![p].at   = IF clients[u] = None THEN "next" ELSE "one",
                                      ![p].uid  = u]
          PROVE  push'[p].at \in {"next", "one"} /\ \A r \in Pushers \ {p} : push'[r] = push[r]
      BY <1>t, <2>1, <3>1 DEF PushState
    <3>2. CASE push' = [push EXCEPT ![p] = NoPush]
      BY <1>t, <3>2 DEF NoPush
    <3> QED BY <1>7, <3>1, <3>2 DEF PushNext
  <2> QED BY <1>1, <2>1, <2>2 DEF SlowInv
<1>8. CASE AppPush \/ CloseStart
  <2>1. UNCHANGED <<tasks, worker, fast, pushed>>
    BY <1>8 DEF AppPush, CloseStart, chanVars, histVars
  <2>2. UNCHANGED push \/ \E p \in Pushers : \E e, todo : PushStart(p, e, todo)
    BY <1>8 DEF AppPush, CloseStart, Pushers
  <2>3. \A r \in Pushers : push'[r] = push[r] \/ push'[r].at = "next"
    BY <1>t, <2>2 DEF PushStart
  <2> QED BY <1>1, <2>1, <2>3 DEF SlowInv
<1>9. CASE \/ UNCHANGED hubVars \/ HubLoop \/ (\E c \in Conns : Open(c) \/ Disconnect(c) \/ Serving(c))
           \/ CloseStep
  <2>1. UNCHANGED <<tasks, worker, push, fast, pushed>>
    BY <1>9 DEF hubVars, HubLoop, Register, Unregister, UnregisterDelete, UnregisterClose, Take, HubSend,
                HubFull, SendTimeout, HubStop, Open, Disconnect, Serving, Deliver, StreamClosed,
                CloseStep, ClosePoll, CloseVisit, CloseDelete, CloseSend, CloseCancel, CloseStop,
                chanVars, pushVars, histVars
  <2> QED BY <1>1, <2>1 DEF SlowInv
<1> QED BY <1>2, <1>3, <1>4, <1>5, <1>6, <1>7, <1>8, <1>9 DEF HubNext, Pushes, PushStep, Working

LEMMA LineStep ==
  ASSUME TypeInv, CountInv, SlowInv, LineInv, [HubNext]_hubVars
  PROVE  LineInv'
<1>t. /\ send \in [Conns -> Seq(Msg)] /\ delivered \in [Conns -> Seq(Msg)] /\ broadcast \in Seq(Msg)
      /\ hub \in LoopState /\ None \notin Msg /\ nextEvent \in Nat
  BY HubAssumption DEF TypeInv, ConnTypeOK, ChanPart, ChanTypeOK, LoopPart, CountInv, SeqInv,
                       PushPart, PushTypeOK
<1>1. ASSUME UNCHANGED <<send, delivered, fast, broadcast>>, Hands' \subseteq Hands
      PROVE  LineInv'
  <2>1. \A c \in Conns : Taken(c)' = Taken(c)
    BY <1>1 DEF Taken
  <2> QED BY <1>1, <2>1 DEF LineInv, Precede
<1>2. ASSUME NEW c \in Conns, NEW ok \in BOOLEAN, Deliver(c, ok) PROVE LineInv'
  <2>1. PICK m : m = Head(send[c]) OBVIOUS
  <2>2. /\ send[c] # <<>> /\ send' = [send EXCEPT ![c] = Tail(@)] /\ UNCHANGED <<fast, broadcast, hub>>
        /\ delivered' \in {delivered, [delivered EXCEPT ![c] = Append(@, m)]}
    BY <1>2, <2>1 DEF Deliver, chanVars
  <2>3. /\ send'[c] = Tail(send[c]) /\ delivered'[c] \in {delivered[c], Append(delivered[c], m)}
        /\ \A d \in Conns \ {c} : send'[d] = send[d] /\ delivered'[d] = delivered[d]
    BY <1>t, <2>2
  <2>4. /\ m \in Msg /\ Range(send[c]) = Range(send'[c]) \cup {m} /\ send[c] \in Seq(Msg)
    BY <1>t, <2>1, <2>2, <2>3, RangeTail
  <2>5. Sorted(fast, send'[c]) /\ Precede(fast, {m}, Range(send'[c]))
    BY <2>1, <2>2, <2>3, <2>4, SortedTail DEF LineInv
  <2>6. Range(Append(delivered[c], m)) = Range(delivered[c]) \cup {m}
    BY <1>t, <2>4, RangeAppend
  <2>7. Precede(fast, Range(delivered[c]), {m})
    BY <2>4 DEF LineInv, Precede
  <2>8. Sorted(fast, delivered'[c])
    <3>1. Sorted(fast, Append(delivered[c], m))
      BY <1>t, <2>4, <2>7, SortedAppend DEF LineInv
    <3> QED BY <2>3, <3>1 DEF LineInv
  <2>9. Range(delivered'[c]) \subseteq Range(delivered[c]) \cup {m}
    BY <2>3, <2>6
  <2>10. Precede(fast, Range(delivered'[c]), Range(send'[c]))
    <3>1. Precede(fast, Range(delivered[c]), Range(send'[c]))
      BY <2>4 DEF LineInv, Precede
    <3> QED BY <2>5, <2>9, <3>1 DEF Precede
  <2>11. Taken(c)' \subseteq Taken(c) /\ \A d \in Conns \ {c} : Taken(d)' = Taken(d)
    BY <2>3, <2>4, <2>9 DEF Taken
  <2>12. Hands' = Hands
    BY <2>2 DEF Hands
  <2>13. \A d \in Conns : Precede(fast, Taken(d)', Hands' \cup Range(broadcast'))
    BY <2>2, <2>11, <2>12 DEF LineInv, Precede
  <2>14. \A d \in Conns : /\ Sorted(fast, send'[d]) /\ Sorted(fast, delivered'[d])
                          /\ Precede(fast, Range(delivered'[d]), Range(send'[d]))
    BY <2>3, <2>5, <2>8, <2>10 DEF LineInv
  <2>15. Sorted(fast, broadcast') /\ Precede(fast, Hands', Range(broadcast'))
    BY <2>2, <2>12 DEF LineInv
  <2> QED BY <2>2, <2>13, <2>14, <2>15 DEF LineInv
<1>3. CASE Take
  <2>1. PICK m : m = Head(broadcast) OBVIOUS
  <2>2. /\ broadcast # <<>> /\ broadcast' = Tail(broadcast) /\ UNCHANGED <<send, delivered, fast>>
        /\ hub' = hub \/ \E c : hub' = [at |-> "send", conn |-> c, msg |-> m, tries |-> 0]
        /\ hub.at = "select"
    BY <1>3, <2>1 DEF Take, connVars
  <2>3. m \in Msg /\ Range(broadcast) = Range(broadcast') \cup {m}
    BY <1>t, <2>1, <2>2, RangeTail
  <2>4. Sorted(fast, broadcast') /\ Precede(fast, {m}, Range(broadcast'))
    BY <1>t, <2>1, <2>2, SortedTail DEF LineInv
  <2>5. Hands' \subseteq {m}
    <3>1. hub.msg = None
      BY <2>2 DEF CountInv, HandsInv
    <3>2. hub'.msg \in {None, m}
      BY <2>2, <3>1
    <3> QED BY <3>2 DEF Hands
  <2>6. \A c \in Conns : Taken(c)' = Taken(c)
    BY <2>2 DEF Taken
  <2>7. \A c \in Conns : Precede(fast, Taken(c)', Hands' \cup Range(broadcast'))
    BY <2>3, <2>5, <2>6 DEF LineInv, Precede
  <2>8. Precede(fast, Hands', Range(broadcast'))
    BY <2>4, <2>5 DEF Precede
  <2> QED BY <2>2, <2>4, <2>7, <2>8 DEF LineInv
<1>4. CASE HubSend
  <2>1. PICK m, c : m = hub.msg /\ c = hub.conn OBVIOUS
  <2>2. /\ m \in Msg /\ c \in Conns /\ send' = [send EXCEPT ![c] = Append(@, m)] /\ hub' = Idle
        /\ UNCHANGED <<broadcast, delivered, fast>>
    BY <1>4, <2>1 DEF HubSend, chanVars, histVars, TypeInv, LoopPart, LoopHands
  <2>3. send'[c] = Append(send[c], m) /\ \A d \in Conns \ {c} : send'[d] = send[d]
    BY <1>t, <2>2
  <2>4. Range(send'[c]) = Range(send[c]) \cup {m}
    BY <1>t, <2>2, <2>3, RangeAppend
  <2>5. Hands = {m} /\ Hands' = {}
    BY <1>t, <2>1, <2>2 DEF Hands, Idle
  <2>6. Precede(fast, Taken(c), {m}) /\ Precede(fast, {m}, Range(broadcast))
    BY <2>2, <2>5 DEF LineInv, Precede
  <2>7. Sorted(fast, send'[c])
    <3>1. Precede(fast, Range(send[c]), {m})
      BY <2>6 DEF Precede, Taken
    <3> QED BY <1>t, <2>2, <2>3, <3>1, SortedAppend DEF LineInv
  <2>8. Precede(fast, Range(delivered[c]), Range(send'[c]))
    BY <2>2, <2>4, <2>6 DEF LineInv, Precede, Taken
  <2>9. Taken(c)' = Taken(c) \cup {m} /\ \A d \in Conns \ {c} : Taken(d)' = Taken(d)
    BY <2>2, <2>3, <2>4 DEF Taken
  <2>10. \A d \in Conns : Precede(fast, Taken(d)', Hands' \cup Range(broadcast'))
    BY <2>2, <2>5, <2>6, <2>9 DEF LineInv, Precede
  <2>11. Precede(fast, Hands', Range(broadcast'))
    BY <2>5 DEF Precede
  <2>12. \A d \in Conns : /\ Sorted(fast, send'[d]) /\ Sorted(fast, delivered[d])
                          /\ Precede(fast, Range(delivered[d]), Range(send'[d]))
    BY <2>3, <2>7, <2>8 DEF LineInv
  <2> QED BY <2>2, <2>10, <2>11, <2>12 DEF LineInv
(* A message joins the broadcast channel behind all those that are counted. *)
<1>5. ASSUME NEW m \in Msg, broadcast' = Append(broadcast, m), UNCHANGED <<send, delivered, hub>>,
             \A n \in pushed : Before(fast', n, m),
             \A s : Sorted(fast, s) /\ Range(s) \subseteq pushed => Sorted(fast', s),
             \A A, B : Precede(fast, A, B) /\ A \cup B \subseteq pushed => Precede(fast', A, B)
      PROVE  LineInv'
  <2>1. /\ Range(broadcast) \subseteq pushed /\ Hands \subseteq pushed
        /\ \A c \in Conns : Range(send[c]) \subseteq pushed /\ Range(delivered[c]) \subseteq pushed
    <3>1. /\ Held(<<"broadcast", None>>) = Range(broadcast) /\ <<"broadcast", None>> \in Holders
          /\ Held(<<"hub", None>>) = Hands /\ <<"hub", None>> \in Holders
      BY HeldBy, HolderNames DEF Single, Hands
    <3>2. \A c \in Conns :
            /\ Held(<<"send", c>>) = Range(send[c]) /\ <<"send", c>> \in Holders
            /\ Held(<<"delivered", c>>) = Range(delivered[c]) /\ <<"delivered", c>> \in Holders
      BY HeldBy, HolderNames
    <3>3. \A h \in Holders : Held(h) \subseteq pushed
      BY DEF CountInv, HeldInv
    <3> QED BY <3>1, <3>2, <3>3
  <2>2. /\ Sorted(fast', broadcast) /\ Precede(fast', Hands, Range(broadcast))
        /\ \A c \in Conns : /\ Sorted(fast', send[c]) /\ Sorted(fast', delivered[c])
                            /\ Precede(fast', Range(delivered[c]), Range(send[c]))
                            /\ Precede(fast', Taken(c), Hands \cup Range(broadcast))
    <3>1. \A c \in Conns : Taken(c) \subseteq pushed
      BY <2>1 DEF Taken
    <3> QED BY <1>5, <2>1, <3>1 DEF LineInv
  <2>3. Range(broadcast') = Range(broadcast) \cup {m}
    BY <1>t, <1>5, RangeAppend
  <2>4. Precede(fast', Range(broadcast) \cup Hands, {m})
    BY <1>5, <2>1 DEF Precede
  <2>5. \A c \in Conns : Precede(fast', Taken(c), {m})
    BY <1>5, <2>1 DEF Precede, Taken
  <2>6. Sorted(fast', broadcast')
    <3>1. Precede(fast', Range(broadcast), {m})
      BY <2>4 DEF Precede
    <3> QED BY <1>t, <1>5, <2>2, <3>1, SortedAppend
  <2>7. Hands' = Hands /\ \A c \in Conns : Taken(c)' = Taken(c)
    BY <1>5 DEF Hands, Taken
  <2>8. Precede(fast', Hands, Range(broadcast'))
    BY <2>2, <2>3, <2>4 DEF Precede
  <2>9. \A c \in Conns : Precede(fast', Taken(c), Hands \cup Range(broadcast'))
    BY <2>2, <2>3, <2>5 DEF Precede
  <2> QED BY <1>5, <2>2, <2>6, <2>7, <2>8, <2>9 DEF LineInv
<1>6. ASSUME NEW w \in Workers, WorkerPush(w) PROVE LineInv'
  <2>1. PICK m \in Msg : m = worker[w].msg
    BY <1>6 DEF WorkerPush, TypeInv, ChanPart, WorkerHands
  <2>2. broadcast' = Append(broadcast, m) /\ UNCHANGED <<send, delivered, hub, fast>>
    BY <1>6, <2>1 DEF WorkerPush, connVars, histVars
  <2>3. m \notin fast
    BY <2>1 DEF SlowInv
  <2>4. \A n \in pushed : Before(fast', n, m)
    BY <2>2, <2>3 DEF Before
  <2> QED BY <1>5, <2>2, <2>4
<1>7. ASSUME NEW p \in Pushers, PushOne(p) PROVE LineInv'
  <2>1. PICK m : m = Pushing(p) OBVIOUS
  <2>2. m \in Msg /\ m \notin pushed /\ UNCHANGED <<send, delivered, hub>> /\ push[p].at = "one"
    BY <1>7, <2>1, PushesNew DEF PushOne, CountInv, connVars
  <2>3. CASE UNCHANGED <<broadcast, fast>>
    <3>1. Hands' = Hands
      BY <2>2 DEF Hands
    <3> QED BY <1>1, <2>2, <2>3, <3>1
  <2>4. CASE broadcast' = Append(broadcast, m) /\ fast' = fast \cup {m}
    <3>1. /\ \A s : Sorted(fast, s) /\ Range(s) \subseteq pushed => Sorted(fast', s)
          /\ \A A, B : Precede(fast, A, B) /\ A \cup B \subseteq pushed => Precede(fast', A, B)
      BY <2>2, <2>4, OrderGrows
    <3>2. ASSUME NEW n \in pushed, CloseEvent \notin {n.event, m.event}, n.uid = m.uid
          PROVE  n.event < m.event
      <4>1. m.uid = push[p].uid /\ m.event = push[p].event
        BY <2>1 DEF Pushing
      <4>2. p = "app"
        BY <3>2, <4>1 DEF Pushers, CountInv, FreshInv
      <4>3. m.event = nextEvent - 1 /\ n.event < nextEvent /\ n.event # m.event
        BY <2>2, <3>2, <4>1, <4>2 DEF CountInv, FreshInv, Ahead
      <4>4. n.event \in Nat
        BY HubAssumption DEF CountInv, FreshInv, Msg, Events
      <4> QED BY <1>t, <4>3, <4>4
    <3>3. \A n \in pushed : Before(fast', n, m)
      BY <3>2 DEF Before
    <3> QED BY <1>5, <2>2, <2>4, <3>1, <3>3
  <2> QED BY <1>7, <2>1, <2>3, <2>4 DEF PushOne
<1>8. CASE \/ UnregisterDelete \/ UnregisterClose \/ HubFull \/ SendTimeout \/ HubStop
           \/ \E c \in Conns : Unregister(c)
  <2>1. UNCHANGED <<send, delivered, fast, broadcast>>
    BY <1>8 DEF UnregisterDelete, UnregisterClose, HubFull, SendTimeout, HubStop, Unregister,
                connVars, chanVars, histVars
  <2>2. hub'.msg \in {None, hub.msg}
    <3>1. CASE UnregisterDelete \/ HubFull \/ HubStop
      BY <1>t, <3>1 DEF UnregisterDelete, HubFull, HubStop, LoopState
    <3>2. CASE UnregisterClose
      BY <3>2 DEF UnregisterClose, Idle
    <3>3. CASE SendTimeout
      BY <1>t, <3>3 DEF SendTimeout, Idle, LoopState
    <3>4. ASSUME NEW c \in Conns, Unregister(c) PROVE hub'.msg = hub.msg
      BY <1>t, <3>4 DEF Unregister, LoopState
    <3> QED BY <1>8, <3>1, <3>2, <3>3, <3>4
  <2>3. Hands' \subseteq Hands
    BY <2>2 DEF Hands
  <2> QED BY <1>1, <2>1, <2>3
<1>9. CASE \/ UNCHANGED hubVars \/ (\E c \in Conns : Open(c) \/ Disconnect(c) \/ StreamClosed(c) \/ Register(c))
           \/ AppPush \/ (\E p \in Pushers : PushNext(p) \/ SubmitAdd(p) \/ Submit(p))
           \/ (\E w \in Workers : WorkerTake(w) \/ WorkerTimeout(w)) \/ CloseStart \/ CloseStep
  <2>1. UNCHANGED <<send, delivered, fast, broadcast, hub>>
    BY <1>9 DEF hubVars, Open, Disconnect, StreamClosed, Register, AppPush, PushNext, SubmitAdd, Submit,
                WorkerTake, WorkerTimeout, CloseStart, CloseStep, ClosePoll, CloseVisit, CloseDelete,
                CloseSend, CloseCancel, CloseStop, connVars, chanVars, histVars
  <2>2. Hands' = Hands
    BY <2>1 DEF Hands
  <2> QED BY <1>1, <2>1, <2>2
<1> QED BY <1>2, <1>3, <1>4, <1>6, <1>7, <1>8, <1>9
        DEF HubNext, HubLoop, Serving, Pushes, PushStep, Working

LEMMA OrderInitial == HubInit => OrderInv
<1> SUFFICES ASSUME HubInit PROVE OrderInv OBVIOUS
<1>1. Range(<<>>) = {} /\ \A f : Sorted(f, <<>>)
  BY DEF Range, Sorted
<1>2. Hands = {} /\ \A c \in Conns : Taken(c) = {}
  BY <1>1 DEF HubInit, Hands, Taken, Idle
<1>3. UserInv
  BY <1>2 DEF HubInit, UserInv, Idle
<1>4. SlowInv
  BY <1>1 DEF HubInit, SlowInv, NoPush
<1>5. LineInv
  BY <1>1, <1>2 DEF HubInit, LineInv, Precede
<1> QED BY <1>3, <1>4, <1>5 DEF OrderInv

LEMMA OrderStep == TypeInv /\ CountInv /\ OrderInv /\ [HubNext]_hubVars => OrderInv'
  BY UserStep, SlowStep, LineStep DEF OrderInv, CountInv

(* The application's events that took the fast path reach every connection   *)
(* in the order they were pushed in: the channels are queues, the loop holds *)
(* one message at a time, and what went through the pool is not one of them  *)
(* (pushOne, run, Serve).                                                    *)
THEOREM HubFastOrder == HubSpec => []FastPathOrder
<1>1. CountInv /\ OrderInv => FastPathOrder
  <2> SUFFICES ASSUME CountInv, OrderInv, NEW c \in Conns,
                      NEW i \in 1 .. Len(delivered[c]), NEW j \in 1 .. Len(delivered[c]), i < j,
                      delivered[c][i] \in fast, delivered[c][j] \in fast,
                      CloseEvent \notin {delivered[c][i].event, delivered[c][j].event}
               PROVE  delivered[c][i].event < delivered[c][j].event
    BY DEF FastPathOrder
  <2>1. delivered[c] \in Seq(Msg)
    BY DEF CountInv, SeqInv
  <2>2. DOMAIN delivered[c] = 1 .. Len(delivered[c])
    BY <2>1
  <2>3. delivered[c][i] \in Taken(c) /\ delivered[c][j] \in Taken(c)
    BY <2>2 DEF Taken, Range
  <2>4. delivered[c][i].uid = delivered[c][j].uid
    BY <2>3 DEF OrderInv, UserInv
  <2>5. Before(fast, delivered[c][i], delivered[c][j])
    BY <2>2 DEF OrderInv, LineInv, Sorted
  <2> QED BY <2>4, <2>5 DEF Before
<1>2. TypeInv /\ CountInv /\ OrderInv /\ [HubNext]_hubVars => (TypeInv /\ CountInv /\ OrderInv)'
  BY CountStep, OrderStep
<1> QED BY <1>1, <1>2, TypeInitial, CountInitial, OrderInitial, PTL DEF HubSpec

-----------------------------------------------------------------------------
(* The hub as the abstract service.  What is on its way is unsettled, *)
LEMMA OnItsWay ==
  ASSUME HeldInv, NEW h \in Holders, \A c \in Conns : h # <<"delivered", c>>,
         h # <<"failed", None>>, h # <<"lost", None>>, NEW m \in Held(h)
  PROVE  m \in Unsettled
<1>1. m \in pushed
  BY DEF HeldInv
<1>2. <<"failed", None>> \in Holders /\ <<"lost", None>> \in Holders
  BY HolderNames DEF Single
<1>3. m \notin failedMsgs /\ m \notin lost
  BY <1>2, HeldApart, HeldBy
<1>4. ASSUME NEW c \in Conns PROVE m \notin Range(delivered[c])
  <2>1. <<"delivered", c>> \in Holders /\ h # <<"delivered", c>>
    BY HolderNames
  <2>2. m \notin Held(<<"delivered", c>>)
    BY <2>1, HeldApart
  <2> QED BY <2>2, HeldBy
<1> QED BY <1>1, <1>3, <1>4 DEF Unsettled

(* and what Push has not counted is nowhere. *)
LEMMA NotAccepted ==
  ASSUME HeldInv, NEW m, m \notin pushed
  PROVE  /\ m \notin failedMsgs /\ m \notin lost /\ \A c \in Conns : m \notin Range(delivered[c])
         /\ m \notin Service!Accepted
<1>1. m \notin Unsettled
  BY DEF Unsettled
<1>2. <<"failed", None>> \in Holders /\ <<"lost", None>> \in Holders
  BY HolderNames DEF Single
<1>3. m \notin failedMsgs /\ m \notin lost
  BY <1>2, HeldBy DEF HeldInv
<1>4. ASSUME NEW c \in Conns PROVE m \notin Range(delivered[c])
  <2>1. <<"delivered", c>> \in Holders
    BY HolderNames
  <2>2. m \notin Held(<<"delivered", c>>)
    BY <2>1 DEF HeldInv
  <2> QED BY <2>2, HeldBy
<1> QED BY <1>1, <1>3, <1>4 DEF Service!Accepted, Range, Service!Range

(* A step that settles nothing and reaches nobody. *)
LEMMA ServiceRests ==
  ASSUME UNCHANGED <<clients, pushed, fast, delivered, lost, failedMsgs, stats>>
  PROVE  UNCHANGED Service!serviceVars
<1>1. Unsettled' = Unsettled
  BY DEF Unsettled
<1>2. Online' = Online
  BY DEF Online
<1> QED BY <1>1, <1>2 DEF Service!serviceVars

(* The map gains a user or loses one. *)
LEMMA ServiceUsers ==
  ASSUME ConnTypeOK, NEW u \in Uids, NEW c \in Conns \cup {None}, clients' = [clients EXCEPT ![u] = c],
         UNCHANGED <<pushed, fast, delivered, lost, failedMsgs, stats>>
  PROVE  Service!ServiceNext
<1>1. Unsettled' = Unsettled
  BY DEF Unsettled
<1>2. clients'[u] = c /\ \A v \in Uids \ {u} : clients'[v] = clients[v]
  BY DEF ConnTypeOK
<1>3. CASE c = None
  <2>1. Online' = Online \ {u}
    BY <1>2, <1>3 DEF Online
  <2>2. Service!GoOffline(u)
    BY <1>1, <2>1 DEF Service!GoOffline
  <2> QED BY <2>2 DEF Service!ServiceNext
<1>4. CASE c # None
  <2>1. Online' = Online \cup {u}
    BY <1>2, <1>4 DEF Online
  <2>2. Service!ComeOnline(u)
    BY <1>1, <2>1 DEF Service!ComeOnline
  <2> QED BY <2>2 DEF Service!ServiceNext
<1> QED BY <1>3, <1>4

(* A message that is on its way is given up. *)
LEMMA ServiceGivesUp ==
  ASSUME NEW m \in Msg, m \in Unsettled, failedMsgs' = failedMsgs \cup {m},
         stats' = [stats EXCEPT !.failed = @ + 1],
         UNCHANGED <<clients, pushed, fast, delivered, lost>>
  PROVE  Service!ServiceNext
<1>1. Unsettled' = Unsettled \ {m}
  BY DEF Unsettled
<1>2. Online' = Online
  BY DEF Online
<1>3. Service!GiveUp(m)
  BY <1>1, <1>2 DEF Service!GiveUp
<1> QED BY <1>3 DEF Service!ServiceNext

(* Every step of the hub is a step of the service, or leaves it alone. *)
LEMMA ServiceStep ==
  ASSUME TypeInv, CountInv, OrderInv, [HubNext]_hubVars
  PROVE  [Service!ServiceNext]_(Service!serviceVars)
<1>i. SeqInv /\ HeldInv /\ FreshInv /\ HandsInv /\ UserInv /\ LineInv
  BY DEF CountInv, OrderInv
<1>t. /\ ConnTypeOK /\ send \in [Conns -> Seq(Msg)] /\ delivered \in [Conns -> Seq(Msg)]
      /\ broadcast \in Seq(Msg) /\ push \in [Pushers -> PushState] /\ None \notin Msg
  BY <1>i, HubAssumption DEF TypeInv, ConnTypeOK, ChanPart, ChanTypeOK, PushPart, PushTypeOK, SeqInv
<1>h. /\ <<"broadcast", None>> \in Holders /\ <<"hub", None>> \in Holders
      /\ \A c \in Conns : <<"send", c>> \in Holders
      /\ \A w \in Workers : <<"worker", w>> \in Holders
  BY HolderNames DEF Single
<1>1. CASE UNCHANGED <<clients, pushed, fast, delivered, lost, failedMsgs, stats>>
  BY <1>1, ServiceRests
<1>2. ASSUME NEW c \in Conns, Register(c) PROVE Service!ServiceNext
  BY <1>2, <1>t, ServiceUsers, HubAssumption DEF Register
<1>3. CASE UnregisterDelete
  <2>1. hub.conn \in Conns
    BY <1>3 DEF UnregisterDelete, TypeInv, LoopPart, LoopHands
  <2>2. UidOf[hub.conn] \in Uids
    BY <2>1, HubAssumption
  <2> QED BY <1>3, <1>t, <2>2, ServiceUsers DEF UnregisterDelete, histVars
<1>4. CASE CloseDelete
  <2>1. closing.conn \in Conns
    BY <1>4 DEF CloseDelete, TypeInv, ClosePart, CloseHands
  <2>2. UidOf[closing.conn] \in Uids
    BY <2>1, HubAssumption
  <2> QED BY <1>4, <1>t, <2>2, ServiceUsers DEF CloseDelete, histVars
(* The next message of a Send channel. *)
<1>5. ASSUME NEW c \in Conns, NEW ok \in BOOLEAN, Deliver(c, ok)
      PROVE  /\ Head(send[c]) \in Msg /\ Head(send[c]) \in Range(send[c])
             /\ Head(send[c]) \in Unsettled
  <2>1. send[c] # <<>> /\ send[c] \in Seq(Msg)
    BY <1>5, <1>t DEF Deliver
  <2>2. Head(send[c]) \in Msg /\ Head(send[c]) \in Range(send[c])
    BY <2>1, RangeTail
  <2>3. Head(send[c]) \in Held(<<"send", c>>)
    BY <2>2, HeldBy
  <2>4. /\ \A d \in Conns : <<"send", c>> # <<"delivered", d>>
        /\ <<"send", c>> # <<"failed", None>> /\ <<"send", c>> # <<"lost", None>>
    OBVIOUS
  <2>5. Head(send[c]) \in Unsettled
    BY <1>i, <1>h, <2>3, <2>4, OnItsWay
  <2> QED BY <2>2, <2>5
<1>6. ASSUME NEW c \in Conns, Deliver(c, TRUE) PROVE Service!ServiceNext
  <2>1. PICK m : m = Head(send[c]) OBVIOUS
  <2>2. m \in Msg /\ m \in Range(send[c]) /\ m \in Unsettled
    BY <1>5, <1>6, <2>1
  <2>3. /\ delivered' = [delivered EXCEPT ![c] = Append(@, m)]
        /\ stats' = [stats EXCEPT !.success = @ + 1]
        /\ UNCHANGED <<clients, pushed, fast, lost, failedMsgs>>
    BY <1>6, <2>1 DEF Deliver
  <2>4. delivered'[c] = Append(delivered[c], m) /\ \A d \in Conns \ {c} : delivered'[d] = delivered[d]
    BY <1>t, <2>3
  <2>5. Range(delivered'[c]) = Range(delivered[c]) \cup {m}
    BY <1>t, <2>2, <2>4, RangeAppend
  <2>6. Unsettled' = Unsettled \ {m}
    BY <2>3, <2>4, <2>5 DEF Unsettled
  <2>7. Online' = Online
    BY <2>3 DEF Online
  <2>8. m.uid = UidOf[c] /\ \A n \in Range(delivered[c]) : n.uid = UidOf[c]
    BY <1>i, <2>2 DEF UserInv, Taken
  <2>9. \A n \in Range(delivered[c]) : Before(fast, n, m)
    BY <1>i, <2>2 DEF LineInv, Precede
  <2>10. \A n \in Service!Range(delivered[c]) : Service!Ordered(n, m) => n.event < m.event
    BY <2>8, <2>9 DEF Before, Service!Ordered, Range, Service!Range
  <2>11. Service!Receive(c, m)
    BY <2>2, <2>3, <2>6, <2>7, <2>8, <2>10 DEF Service!Receive
  <2> QED BY <2>2, <2>11 DEF Service!ServiceNext
<1>7. ASSUME NEW c \in Conns, Deliver(c, FALSE) PROVE Service!ServiceNext
  <2>1. PICK m : m = Head(send[c]) OBVIOUS
  <2>2. m \in Msg /\ m \in Unsettled
    BY <1>5, <1>7, <2>1
  <2>3. /\ failedMsgs' = failedMsgs \cup {m} /\ stats' = [stats EXCEPT !.failed = @ + 1]
        /\ UNCHANGED <<clients, pushed, fast, delivered, lost>>
    BY <1>7, <2>1 DEF Deliver
  <2> QED BY <2>2, <2>3, ServiceGivesUp
<1>8. CASE Take
  <2>1. PICK m : m = Head(broadcast) OBVIOUS
  <2>2. /\ broadcast # <<>> /\ UNCHANGED <<clients, pushed, fast, delivered, failedMsgs, stats>>
        /\ UNCHANGED lost \/ (clients[m.uid] = None /\ lost' = lost \cup {m})
    BY <1>8, <2>1 DEF Take
  <2>3. m \in Msg /\ m \in Range(broadcast)
    BY <1>t, <2>1, <2>2, RangeTail
  <2>4. m \in Unsettled
    <3>1. m \in Held(<<"broadcast", None>>)
      BY <2>3, HeldBy
    <3>2. /\ \A d \in Conns : <<"broadcast", None>> # <<"delivered", d>>
          /\ <<"broadcast", None>> # <<"failed", None>> /\ <<"broadcast", None>> # <<"lost", None>>
      OBVIOUS
    <3> QED BY <1>i, <1>h, <3>1, <3>2, OnItsWay
  <2>5. CASE UNCHANGED lost
    BY <1>1, <2>2, <2>5
  <2>6. CASE clients[m.uid] = None /\ lost' = lost \cup {m}
    <3>1. Unsettled' = Unsettled \ {m}
      BY <2>2, <2>6 DEF Unsettled
    <3>2. Online' = Online /\ m.uid \notin Online
      BY <2>2, <2>6 DEF Online
    <3>3. Service!Miss(m)
      BY <2>2, <2>4, <2>6, <3>1, <3>2 DEF Service!Miss
    <3> QED BY <2>3, <3>3 DEF Service!ServiceNext
  <2> QED BY <2>2, <2>5, <2>6
<1>9. CASE SendTimeout
  <2>1. PICK m : m = hub.msg OBVIOUS
  <2>2. /\ hub.at = "retry" /\ UNCHANGED <<clients, pushed, fast, delivered, lost>>
        /\ \/ UNCHANGED <<failedMsgs, stats>>
           \/ failedMsgs' = failedMsgs \cup {m} /\ stats' = [stats EXCEPT !.failed = @ + 1]
    BY <1>9, <2>1 DEF SendTimeout
  <2>3. m \in Msg
    BY <2>1, <2>2 DEF TypeInv, LoopPart, LoopHands
  <2>4. m \in Unsettled
    <3>1. m \in Held(<<"hub", None>>)
      BY <1>t, <2>1, <2>3, HeldBy
    <3>2. /\ \A d \in Conns : <<"hub", None>> # <<"delivered", d>>
          /\ <<"hub", None>> # <<"failed", None>> /\ <<"hub", None>> # <<"lost", None>>
      OBVIOUS
    <3> QED BY <1>i, <1>h, <3>1, <3>2, OnItsWay
  <2>5. CASE UNCHANGED <<failedMsgs, stats>>
    BY <1>1, <2>2, <2>5
  <2> QED BY <2>2, <2>3, <2>4, <2>5, ServiceGivesUp
<1>10. ASSUME NEW w \in Workers, WorkerTimeout(w) PROVE [Service!ServiceNext]_(Service!serviceVars)
  <2>1. PICK m : m = worker[w].msg OBVIOUS
  <2>2. /\ worker[w] # NoTask /\ UNCHANGED <<clients, pushed, fast, delivered, lost>>
        /\ \/ UNCHANGED <<failedMsgs, stats>>
           \/ failedMsgs' = failedMsgs \cup {m} /\ stats' = [stats EXCEPT !.failed = @ + 1]
    BY <1>10, <2>1 DEF WorkerTimeout
  <2>3. m \in Msg
    BY <2>1, <2>2 DEF TypeInv, ChanPart, WorkerHands
  <2>4. m \in Unsettled
    <3>1. m \in Held(<<"worker", w>>)
      BY <1>t, <2>1, <2>3, HeldBy
    <3>2. /\ \A d \in Conns : <<"worker", w>> # <<"delivered", d>>
          /\ <<"worker", w>> # <<"failed", None>> /\ <<"worker", w>> # <<"lost", None>>
      OBVIOUS
    <3> QED BY <1>i, <1>h, <3>1, <3>2, OnItsWay
  <2>5. CASE UNCHANGED <<failedMsgs, stats>>
    BY <1>1, <2>2, <2>5
  <2> QED BY <2>2, <2>3, <2>4, <2>5, ServiceGivesUp
<1>11. ASSUME NEW p \in Pushers, PushOne(p) PROVE Service!ServiceNext
  <2>1. PICK m : m = Pushing(p) OBVIOUS
  <2>2. /\ push[p].at = "one" /\ pushed' = pushed \cup {m}
        /\ stats' = [stats EXCEPT !.total = @ + 1]
        /\ fast' = fast \/ fast' = fast \cup {m}
        /\ UNCHANGED <<clients, delivered, lost, failedMsgs>>
    BY <1>11, <2>1 DEF PushOne
  <2>3. push[p].uid \in Uids /\ push[p].event \in Events
    BY <1>t, <2>2 DEF TypeInv, PushPart, PushHands, PushState
  <2>4. m \in Msg /\ m.uid = push[p].uid /\ m.event = push[p].event
    BY <2>1, <2>3 DEF Pushing, Msg
  <2>5. m \notin pushed
    BY <1>i, <2>2, <2>4 DEF FreshInv, Ahead
  <2>6. /\ m \notin failedMsgs /\ m \notin lost /\ \A c \in Conns : m \notin Range(delivered[c])
        /\ m \notin Service!Accepted
    BY <1>i, <2>5, NotAccepted
  <2>7. Unsettled' = Unsettled \cup {m}
    BY <2>2, <2>6 DEF Unsettled
  <2>8. Online' = Online
    BY <2>2 DEF Online
  <2>9. Service!Accept(m)
    BY <2>2, <2>6, <2>7, <2>8 DEF Service!Accept
  <2> QED BY <2>4, <2>9 DEF Service!ServiceNext
<1>12. CASE UNCHANGED hubVars
  BY <1>1, <1>12 DEF hubVars, histVars
<1>13. ASSUME NEW c \in Conns, Open(c) \/ Disconnect(c) \/ StreamClosed(c) \/ Unregister(c)
       PROVE  UNCHANGED Service!serviceVars
  BY <1>13, ServiceRests DEF Open, Disconnect, StreamClosed, Unregister, histVars
<1>14. CASE UnregisterClose \/ HubSend \/ HubFull \/ HubStop
  BY <1>1, <1>14 DEF UnregisterClose, HubSend, HubFull, HubStop, histVars
<1>15. CASE AppPush
  BY <1>1, <1>15 DEF AppPush, histVars
<1>16. ASSUME NEW p \in Pushers, PushNext(p) \/ SubmitAdd(p) \/ Submit(p)
       PROVE  UNCHANGED Service!serviceVars
  BY <1>16, ServiceRests DEF PushNext, SubmitAdd, Submit, histVars
<1>17. ASSUME NEW w \in Workers, WorkerTake(w) \/ WorkerPush(w)
       PROVE  UNCHANGED Service!serviceVars
  BY <1>17, ServiceRests DEF WorkerTake, WorkerPush, histVars
<1>18. CASE CloseStart \/ ClosePoll \/ CloseVisit \/ CloseSend \/ CloseCancel \/ CloseStop
  BY <1>1, <1>18 DEF CloseStart, ClosePoll, CloseVisit, CloseSend, CloseCancel, CloseStop, histVars
<1> QED
  BY <1>2, <1>3, <1>4, <1>6, <1>7, <1>8, <1>9, <1>10, <1>11, <1>12, <1>13, <1>14, <1>15, <1>16,
     <1>17, <1>18
  DEF HubNext, HubLoop, Serving, Pushes, PushStep, Working, CloseStep

(* The hub implements the abstract event service, for any number of users,  *)
(* connections, workers and events and any capacities, with overlapping     *)
(* connections and while it is closed (Push, run, Serve, Close).            *)
THEOREM HubImplementsService == HubSpec => ImplementsService
<1>1. HubInit => Service!ServiceInit
  <2> SUFFICES ASSUME HubInit PROVE Service!ServiceInit OBVIOUS
  <2>1. Online = {}
    BY DEF HubInit, Online
  <2>2. Unsettled = {}
    BY DEF HubInit, Unsettled
  <2> QED BY <2>1, <2>2 DEF HubInit, Service!ServiceInit
<1>2. TypeInv /\ CountInv /\ OrderInv /\ [HubNext]_hubVars => (TypeInv /\ CountInv /\ OrderInv)'
  BY CountStep, OrderStep
<1>3. TypeInv /\ CountInv /\ OrderInv /\ [HubNext]_hubVars
        => [Service!ServiceNext]_(Service!serviceVars)
  BY ServiceStep
<1> QED
  BY <1>1, <1>2, <1>3, TypeInitial, CountInitial, OrderInitial, PTL
  DEF HubSpec, ImplementsService, Service!ServiceSpec
=============================================================================
