------------------------------ MODULE SSEResend ------------------------------
(***************************************************************************)
(* Resending events after a reconnection, end to end: Push with a Store,   *)
(* Serve with resendEvents (pkg/sse hub.go, server.go), and the SSEClient  *)
(* that remembers the last event id it has seen (client.go).               *)
(*                                                                         *)
(* One user, one event type, one application that pushes; event ids grow.  *)
(* The path through the hub (SSEHub) is abstracted to a FIFO broadcast     *)
(* channel and, when Slow, the task pool that overtakes and gives up.  The *)
(* client connects again after the server has let the old connection go.   *)
(*                                                                         *)
(* `got' and `since' are history: the events the client received, and what *)
(* was saved when the connection on which it got the first one began;      *)
(* `delayed' are the events that took the task pool or were given up, and  *)
(* `missed' those that are neither pushed nor listed: Push looked the      *)
(* client up before the hub's loop had entered it, when Serve had already  *)
(* listed the store; or the listing failed.                                *)
(***************************************************************************)
EXTENDS Integers, Sequences

CONSTANTS PageSize,    \* resendEvents: events per ListByLastID
          Slow,        \* may the broadcast channel be full, or a client too slow?
          MaxEvents,   \* bound: events the application pushes
          MaxBreaks    \* bound: connections that break

ASSUME ResendAssumption == /\ PageSize \in Nat \ {0}
                           /\ Slow \in BOOLEAN
                           /\ MaxEvents \in Nat /\ MaxBreaks \in Nat

VARIABLES saved,       \* the Store: events 1 .. saved
          pushing,     \* Push is between Save and clients.Has
          broadcast,   \* Hub.broadcast
          late,        \* events in the task pool
          conn,        \* Serve: none, resend, listed, stream, broken
          reg,         \* Hub.clients: "no", "yes"; "taken" from register by the loop
          cursor,      \* resendEvents: lastEventID
          queue,       \* UserClient.Send
          wire,        \* events written to the connection
          up,          \* the client is connected
          lastEventID, \* SSEClient.lastEventID, 0 for ""
          breaks, got, since, delayed, missed

resendVars == <<saved, pushing, broadcast, late, conn, reg, cursor, queue, wire, up,
                lastEventID, breaks, got, since, delayed, missed>>

(* A slip: Serve registers the client after resendEvents. *)
RegisteredLate == reg = "yes" /\ conn \in {"stream", "broken"}

(* Serve registers the client before resendEvents and unregisters it last. *)
Registered == reg = "yes"

-----------------------------------------------------------------------------
(* Push: store.Save *)
Save ==
  /\ ~pushing /\ saved < MaxEvents
  /\ saved' = saved + 1
  /\ pushing' = TRUE
  /\ UNCHANGED <<broadcast, late, conn, reg, cursor, queue, wire, up, lastEventID, breaks,
                 got, since, delayed, missed>>

(* History: the event looked up after the listing and before clients.Set. *)
TooEarly == IF reg = "taken" /\ conn \in {"listed", "stream"} THEN {saved} ELSE {}

(* Push: clients.Has, then pushOne. *)
PushSaved ==
  /\ pushing
  /\ pushing' = FALSE
  /\ \/ /\ ~Registered /\ missed' = missed \cup TooEarly
        /\ UNCHANGED <<broadcast, late, delayed>>
     \/ /\ Registered /\ broadcast' = Append(broadcast, saved)
        /\ UNCHANGED <<late, delayed, missed>>
     \/ /\ Registered /\ Slow /\ late' = late \cup {saved}
        /\ delayed' = delayed \cup {saved}
        /\ UNCHANGED <<broadcast, missed>>
  /\ UNCHANGED <<saved, conn, reg, cursor, queue, wire, up, lastEventID, breaks, got, since>>

(* tryPushWithTimeout: a worker gets its event in, or gives up. *)
LatePush ==
  /\ \E e \in late : /\ late' = late \ {e}
                     /\ \/ broadcast' = Append(broadcast, e)
                        \/ UNCHANGED broadcast
  /\ UNCHANGED <<saved, pushing, conn, reg, cursor, queue, wire, up, lastEventID, breaks,
                 got, since, delayed, missed>>

(* Hub.run: the client's Send channel, nobody, or (trySendWithTimeout) a    *)
(* client too slow to take it.                                              *)
HubTake ==
  /\ broadcast # <<>> /\ reg # "taken"
  /\ broadcast' = Tail(broadcast)
  /\ \/ /\ Registered /\ queue' = Append(queue, Head(broadcast))
        /\ UNCHANGED delayed
     \/ ~Registered /\ UNCHANGED <<queue, delayed>>
     \/ /\ Registered /\ Slow /\ delayed' = delayed \cup {Head(broadcast)}
        /\ UNCHANGED queue
  /\ UNCHANGED <<saved, pushing, late, conn, reg, cursor, wire, up, lastEventID, breaks, got,
                 since, missed>>

-----------------------------------------------------------------------------
(* SSEClient.stream sends the request with Last-Event-ID; Serve hands the   *)
(* client to the hub's loop (register has no buffer) and resends only if    *)
(* the header is there.                                                     *)
Connect ==
  /\ conn = "none"
  /\ up' = TRUE /\ reg' = "taken"
  /\ conn' = IF lastEventID # 0 THEN "resend" ELSE "stream"
  /\ cursor' = lastEventID
  /\ since' = IF got = {} THEN saved ELSE since
  /\ UNCHANGED <<saved, pushing, broadcast, late, queue, wire, lastEventID, breaks, got,
                 delayed, missed>>

(* Hub.run: clients.Set, while Serve goes on. *)
SetClient ==
  /\ reg = "taken"
  /\ reg' = "yes"
  /\ UNCHANGED <<saved, pushing, broadcast, late, conn, cursor, queue, wire, up,
                 lastEventID, breaks, got, since, delayed, missed>>

(* Store.ListByLastID: at most PageSize events after the cursor. *)
Page == LET last == IF cursor + PageSize < saved THEN cursor + PageSize ELSE saved
        IN  [i \in 1 .. (last - cursor) |-> cursor + i]

(* A slip: only the first page is sent. *)
ResendOnce ==
  /\ conn = "resend"
  /\ wire' = wire \o Page
  /\ conn' = "listed"
  /\ UNCHANGED <<saved, pushing, broadcast, late, reg, cursor, queue, up, lastEventID,
                 breaks, got, since, delayed, missed>>

(* resendEvents: a page after the cursor, until a page is empty, or the     *)
(* store says with the last page that nothing follows.                      *)
Resend ==
  /\ conn = "resend"
  /\ wire' = wire \o Page
  /\ cursor' = cursor + Len(Page)
  /\ \/ Page # <<>> /\ conn' = "resend"
     \/ cursor' = saved /\ conn' = "listed"
  /\ UNCHANGED <<saved, pushing, broadcast, late, reg, queue, up, lastEventID, breaks, got,
                 since, delayed, missed>>

(* resendEvents: ListByLastID fails; what it would have listed is not sent, *)
(* and Serve goes on.                                                       *)
ListFails ==
  /\ conn = "resend"
  /\ conn' = "listed"
  /\ missed' = missed \cup (cursor + 1 .. saved)
  /\ UNCHANGED <<saved, pushing, broadcast, late, reg, cursor, queue, wire, up, lastEventID,
                 breaks, got, since, delayed>>

StartStream ==
  /\ conn = "listed"
  /\ conn' = "stream"
  /\ UNCHANGED <<saved, pushing, broadcast, late, reg, cursor, queue, wire, up, lastEventID,
                 breaks, got, since, delayed, missed>>

(* The callback of c.Stream: Send to the connection. *)
Stream ==
  /\ conn = "stream" /\ queue # <<>>
  /\ wire' = Append(wire, Head(queue))
  /\ queue' = Tail(queue)
  /\ UNCHANGED <<saved, pushing, broadcast, late, conn, reg, cursor, up, lastEventID, breaks,
                 got, since, delayed, missed>>

(* SSEClient.processEvent *)
Receive ==
  LET e == Head(wire) IN
  /\ up /\ wire # <<>>
  /\ wire' = Tail(wire)
  /\ lastEventID' = e
  /\ got' = got \cup {e}
  /\ UNCHANGED <<saved, pushing, broadcast, late, conn, reg, cursor, queue, up, breaks,
                 since, delayed, missed>>

(* The connection breaks: what was written and not read is gone. *)
Break ==
  /\ up /\ breaks < MaxBreaks
  /\ up' = FALSE /\ breaks' = breaks + 1
  /\ wire' = <<>>
  /\ conn' = "broken"
  /\ UNCHANGED <<saved, pushing, broadcast, late, reg, cursor, queue, lastEventID, got,
                 since, delayed, missed>>

(* The server notices: unregister, and the Send channel is dropped. *)
Unregister ==
  /\ conn = "broken" /\ reg = "yes"
  /\ conn' = "none" /\ reg' = "no"
  /\ queue' = <<>>
  /\ UNCHANGED <<saved, pushing, broadcast, late, cursor, wire, up, lastEventID, breaks,
                 got, since, delayed, missed>>

-----------------------------------------------------------------------------
ResendInit ==
  /\ saved = 0 /\ pushing = FALSE /\ broadcast = <<>> /\ late = {}
  /\ conn = "none" /\ reg = "no" /\ cursor = 0 /\ queue = <<>> /\ wire = <<>>
  /\ up = FALSE /\ lastEventID = 0 /\ breaks = 0 /\ got = {} /\ since = 0
  /\ delayed = {} /\ missed = {}

Progress == \/ PushSaved \/ LatePush \/ HubTake \/ SetClient
            \/ Connect \/ Resend \/ ListFails \/ StartStream \/ Stream \/ Receive \/ Unregister

ResendNext == Save \/ Break \/ Progress

ResendSpec == ResendInit /\ [][ResendNext]_resendVars

(* Push, the hub loop, Serve and the client each run on; nothing forces the *)
(* application to push or a connection to break.                            *)
ResendLiveSpec ==
  /\ ResendSpec
  /\ WF_resendVars(PushSaved) /\ WF_resendVars(LatePush) /\ WF_resendVars(HubTake)
  /\ WF_resendVars(SetClient) /\ WF_resendVars(Connect) /\ WF_resendVars(Receive)
  /\ WF_resendVars(Resend \/ ListFails \/ StartStream \/ Stream \/ Unregister)

-----------------------------------------------------------------------------
Ids == 1 .. MaxEvents

(* Type invariant. *)
ResendTypeOK ==
  /\ saved \in 0 .. MaxEvents /\ cursor \in 0 .. saved /\ lastEventID \in 0 .. saved
  /\ pushing \in BOOLEAN /\ up \in BOOLEAN
  /\ {broadcast, queue, wire} \subseteq Seq(Ids)
  /\ late \subseteq delayed /\ {delayed, missed, got} \subseteq SUBSET Ids
  /\ conn \in {"none", "resend", "listed", "stream", "broken"}
  /\ up <=> conn \in {"resend", "listed", "stream"}
  /\ reg \in {"no", "taken", "yes"} /\ (reg = "no" <=> conn = "none")

Due(e) == got # {} /\ since < e /\ e <= saved

(* A reconnection leaves no hole: of what was saved since that connection   *)
(* began, the client has whatever does not come after its Last-Event-ID and *)
(* would therefore not be resent, unless the hub sent it through its task   *)
(* pool or gave it up, however it delays and reorders those, or it was      *)
(* missed between listing and clients.Set (Push saves before it looks the   *)
(* client up, Serve registers before it lists).                             *)
NoneForgotten ==
  \A e \in Ids : Due(e) /\ e \notin delayed \cup missed => e \in got \/ e > lastEventID

(* Every event saved since that connection began reaches the client, once   *)
(* connections stop breaking, unless the hub delayed or missed it           *)
(* (resendEvents, Hub.run, SSEClient).                                      *)
EventuallyReceived == \A e \in Ids : Due(e) ~> e \in got \cup delayed \cup missed

=============================================================================
