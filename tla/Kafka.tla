-------------------------------- MODULE Kafka --------------------------------
(***************************************************************************)
(* pkg/kafka: ConsumeClaim of one partition of a consumer group, through   *)
(* rebalances and crashes, and the AsyncProducer with handleResponse.      *)
(*                                                                         *)
(* Offsets are 1 .. log.  sarama hands the messages of a claim over in     *)
(* order, keeps the highest offset marked, and commits that one: on        *)
(* Commit, or by itself with auto-commit (also when a session ends).       *)
(***************************************************************************)
EXTENDS Naturals, FiniteSetsExt

CONSTANTS LastOffset,    \* bound: messages in the partition
          MaxSessions,   \* bound: calls of Consume
          Sends          \* messages given to the producer

ASSUME KafkaAssumption == LastOffset \in Nat /\ MaxSessions \in Nat \ {0}

VARIABLES log,          \* messages the partition holds
          autoCommit,   \* autoCommitEnable
          claim,        \* ConsumeClaim: "select", "handle", "mark", "commit";
                        \* "returned": and Consume with it; "ended" in a slip
          offset,       \* the message in hand, or the last one taken
          marked,       \* highest offset marked in this session
          committed,    \* highest offset committed
          tried,        \* history: offsets whose handler ran
          sessions,
          input,        \* messages that sarama has accepted and not answered
          errors,       \* Producer.Errors()
          sent,         \* history: messages accepted
          response,     \* handleResponse: "select" or "done"
          ended         \* Close: "no", "exit" (closed), "closed"

claimVars == <<log, autoCommit, claim, offset, marked, committed, tried, sessions>>
produceVars == <<input, errors, sent, response, ended>>
kafkaVars == <<claimVars, produceVars>>

-----------------------------------------------------------------------------
(* ConsumeClaim *)

(* Somebody appends a message to the partition. *)
Produced ==
  /\ log < LastOffset /\ log' = log + 1
  /\ UNCHANGED <<autoCommit, claim, offset, marked, committed, tried, sessions, produceVars>>

(* A slip: a message is marked when it is taken. *)
TakeMarked ==
  /\ claim = "select" /\ offset < log
  /\ claim' = "handle" /\ offset' = offset + 1 /\ marked' = offset'
  /\ UNCHANGED <<log, autoCommit, committed, tried, sessions, produceVars>>

(* A message of the claim is taken. *)
TakeMessage ==
  /\ claim = "select" /\ offset < log
  /\ claim' = "handle" /\ offset' = offset + 1
  /\ UNCHANGED <<log, autoCommit, marked, committed, tried, sessions, produceVars>>

HandleDone ==
  /\ claim = "handle" /\ claim' = "mark" /\ tried' = tried \cup {offset}
  /\ UNCHANGED <<log, autoCommit, offset, marked, committed, sessions, produceVars>>

(* A slip: the deferred function recovers and does not call ConsumeClaim. *)
HandleErrorEnds ==
  /\ claim = "handle" /\ claim' \in {"select", "ended"} /\ tried' = tried \cup {offset}
  /\ UNCHANGED <<log, autoCommit, offset, marked, committed, sessions, produceVars>>

(* The handler returns an error, or panics and ConsumeClaim is called again: *)
(* either way the next message is taken and this one is not marked.        *)
HandleError ==
  /\ claim = "handle" /\ claim' = "select" /\ tried' = tried \cup {offset}
  /\ UNCHANGED <<log, autoCommit, offset, marked, committed, sessions, produceVars>>

(* MarkMessage, and Commit unless sarama commits by itself. *)
MarkMessage ==
  /\ claim = "mark" /\ marked' = Max({marked, offset})
  /\ claim' = IF autoCommit THEN "select" ELSE "commit"
  /\ UNCHANGED <<log, autoCommit, offset, committed, tried, sessions, produceVars>>

Commit ==
  /\ claim = "commit" /\ claim' = "select" /\ committed' = marked
  /\ UNCHANGED <<log, autoCommit, offset, marked, tried, sessions, produceVars>>

(* sarama's own commit, at any time. *)
AutoCommit ==
  /\ autoCommit /\ committed # marked /\ committed' = marked
  /\ UNCHANGED <<log, autoCommit, claim, offset, marked, tried, sessions, produceVars>>

(* A session ends, and the next one will begin where the committed offset  *)
(* says.                                                                   *)
EndSession(c) ==
  /\ claim' = "returned" /\ committed' = c /\ offset' = c /\ marked' = c
  /\ UNCHANGED <<log, autoCommit, tried, sessions, produceVars>>

(* A rebalance, or the context of Consume is cancelled: ConsumeClaim       *)
(* returns, and so does Consume, which asks for one session only.          *)
ClaimReturns ==
  /\ claim \in {"select", "ended"}
  /\ EndSession(IF autoCommit THEN marked ELSE committed)

Crash == claim # "returned" /\ EndSession(committed)

(* The application calls Consume, for the first time or once more. *)
Consume ==
  /\ claim = "returned" /\ claim' = "select"
  /\ sessions < MaxSessions /\ sessions' = sessions + 1
  /\ UNCHANGED <<log, autoCommit, offset, marked, committed, tried, produceVars>>

-----------------------------------------------------------------------------
(* AsyncProducer *)

(* SendMessage: accepted unless exit is closed (with both ready, either;   *)
(* after Producer.Close the send on the closed Input panics instead).      *)
SendMessage(m) ==
  /\ m \notin sent /\ ended # "closed"
  /\ sent' = sent \cup {m} /\ input' = input \cup {m}
  /\ UNCHANGED <<claimVars, errors, response, ended>>

(* sarama answers: a success, which is logged, or an error. *)
SendResult(m) ==
  /\ m \in input /\ input' = input \ {m}
  /\ errors' \in {errors, errors \cup {m}}
  /\ UNCHANGED <<claimVars, sent, response, ended>>

(* handleResponse takes an error and calls handleFn; after a panic it      *)
(* calls itself.                                                           *)
TellFailure(m) ==
  /\ response = "select" /\ m \in errors
  /\ errors' = errors \ {m}
  /\ UNCHANGED <<claimVars, input, sent, response, ended>>

ResponseExits ==
  /\ response = "select" /\ ended # "no" /\ response' = "done"
  /\ UNCHANGED <<claimVars, input, errors, sent, ended>>

(* Close: close(exit), then Producer.Close, which answers every message in *)
(* flight and returns the errors nobody has read.                          *)
CloseProducer ==
  /\ ended = "no" /\ ended' = "exit"
  /\ UNCHANGED <<claimVars, input, errors, sent, response>>

CloseSarama ==
  /\ ended = "exit" /\ ended' = "closed" /\ input' = {} /\ errors' = {}
  /\ UNCHANGED <<claimVars, sent, response>>

-----------------------------------------------------------------------------
KafkaInit ==
  /\ log = 0 /\ autoCommit \in BOOLEAN /\ claim = "returned"
  /\ offset = 0 /\ marked = 0 /\ committed = 0 /\ tried = {} /\ sessions = 0
  /\ input = {} /\ errors = {} /\ sent = {} /\ response = "select" /\ ended = "no"

Claim   == TakeMessage \/ HandleDone \/ HandleError \/ MarkMessage \/ Commit
Respond == ResponseExits \/ \E m \in Sends : TellFailure(m)

KafkaNext ==
  \/ Produced \/ Claim \/ AutoCommit \/ ClaimReturns \/ Crash \/ Consume
  \/ Respond \/ CloseProducer \/ CloseSarama
  \/ \E m \in Sends : SendMessage(m) \/ SendResult(m)

(* Handlers return and goroutines run on; the broker owes nothing, and     *)
(* nothing makes the application call Consume again.                       *)
KafkaSpec ==
  KafkaInit /\ [][KafkaNext]_kafkaVars /\ WF_kafkaVars(Claim) /\ WF_kafkaVars(Respond)

-----------------------------------------------------------------------------
(* No crash or rebalance, at whatever step, makes the group skip a message *)
(* that no handler has seen: what is committed was tried (ConsumeClaim).   *)
CommittedWasTried == 1 .. committed \subseteq tried

(* Every message is dealt with, whatever the handlers of the others do.    *)
(* One of the claim reaches the handler: errors and panics do not end the  *)
(* claim (ConsumeClaim).  Only when Consume has returned, as it does after *)
(* each rebalance, and nobody calls it again, are messages left.  One that *)
(* could not be produced reaches handleFailedFn, until Close ("if producer *)
(* message failed, you can handle it", handleResponse).                    *)
EveryMessageTried ==
  /\ tried # 1 .. log ~> tried = 1 .. log \/ [](claim = "returned")
  /\ errors # {} ~> errors = {} \/ ended # "no"

=============================================================================
