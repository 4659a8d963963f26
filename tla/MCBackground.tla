---------------------------- MODULE MCBackground ----------------------------
(* Work that runs in the background of a program: the clients of the       *)
(* message brokers and the scheduled tasks; `part' says which one a        *)
(* behaviour is of, and the fairness conditions are those of the component.*)
(*                                                                         *)
(* rabbitmq: two messages, no prefetch limit or a limit of one, two        *)
(*   channels on a connection, two faults;                                 *)
(* kafka: three messages and three calls of Consume, two messages sent;    *)
(* cron: two callers of Run and DeleteTask on one run-once task, which may *)
(*   panic any number of times.                                            *)
EXTENDS RabbitMQ, Kafka, GoCron

CONSTANTS Parts, u1, u2
VARIABLE part

MCUsers == {u1, u2}

backgroundVars == <<part, rabbitVars, kafkaVars, cronVars>>

(* The choices of a component that is not running are fixed. *)
BackgroundInit ==
  /\ part \in Parts /\ RabbitInit /\ KafkaInit /\ CronInit
  /\ part # "rabbitmq" => ~manual
  /\ ~manual => prefetch = 0   \* auto-ack leaves nothing for the limit to count
  /\ part # "kafka" => ~autoCommit

BackgroundNext ==
  \/ part = "rabbitmq" /\ RabbitNext /\ UNCHANGED <<part, kafkaVars, cronVars>>
  \/ part = "kafka"    /\ KafkaNext  /\ UNCHANGED <<part, rabbitVars, cronVars>>
  \/ part = "cron"     /\ CronNext   /\ UNCHANGED <<part, rabbitVars, kafkaVars>>

BackgroundSpec ==
  /\ BackgroundInit /\ [][BackgroundNext]_backgroundVars
  /\ WF_rabbitVars(part = "rabbitmq" /\ MonitorStep)
  /\ WF_rabbitVars(part = "rabbitmq" /\ ConsumeStep)
  /\ WF_rabbitVars(part = "rabbitmq" /\ CloseExit)
  /\ SF_rabbitVars(part = "rabbitmq" /\ ConsumeExit)
  /\ \A m \in Messages : WF_rabbitVars(part = "rabbitmq" /\ Deliver(m))
  /\ WF_kafkaVars(part = "kafka" /\ Claim) /\ WF_kafkaVars(part = "kafka" /\ Respond)
  /\ \A u \in Users : WF_cronVars(part = "cron" /\ UserStep(u))
  /\ \A j \in Jobs : WF_cronVars(part = "cron" /\ JobStep(j))
  /\ \A i \in IDs : WF_cronVars(part = "cron" /\ Fire(i, 1))
=============================================================================
