------------------------------ MODULE Producer ------------------------------
(***************************************************************************)
(* The RabbitMQ producer of the tasks service.  Each incarnation of the    *)
(* service tries to connect once, while its router is built; it serves     *)
(* requests whether or not it could, and never connects again.             *)
(***************************************************************************)
EXTENDS Broker

CONSTANT MaxEnqueues  \* bound on the messages published from outside the worker

ASSUME ProducerAssumption == MaxEnqueues \in Nat

VARIABLES
  serving,   \* serving[p]: the service is up, with or without a producer
  accepted,  \* accepted[p]: history, message ids answered 202 Accepted by p
  enqueued   \* history: messages published from outside the worker

producerVars == <<serving, accepted, enqueued>>

ProducerTypeOK ==
  /\ serving \in [Producers -> BOOLEAN]
  /\ accepted \in [Producers -> SUBSET MsgIds]
  /\ enqueued \in 0..MaxEnqueues

ProducerInit ==
  /\ serving = [p \in Producers |-> FALSE]
  /\ accepted = [p \in Producers |-> {}]
  /\ enqueued = 0

\* NewRouter: NewProducer connects, or fails and the service continues without.
StartService(p) ==
  /\ ~serving[p]
  /\ serving' = [serving EXCEPT ![p] = TRUE]
  /\ \/ Connect(p)
     \/ UNCHANGED <<linked, open>>
  /\ UNCHANGED <<copies, wire, inbox, accepted, enqueued>>

\* Mutant: the error of Publish is ignored.
CanPublishAlways(p) == serving[p]

\* There is a producer and its channel is not known to be closed.
CanPublish(p) == serving[p] /\ open[p]

\* The job a client's message becomes.
NewJob(m, t) == [mid |-> m, task |-> t, attempt |-> 1]

\* POST /v1/jobs/process-task answered 202: the publish was written.  With no
\* producer, or a closed channel, the answer is 500 and nothing changes.
EnqueueProcessTask(p, m, t) ==
  /\ CanPublish(p)
  /\ enqueued < MaxEnqueues
  /\ enqueued' = enqueued + 1
  /\ Send(p, [op |-> "publish", body |-> NewJob(m, t)])
  /\ accepted' = [accepted EXCEPT ![p] = @ \cup {m}]
  /\ UNCHANGED <<copies, linked, open, inbox, serving>>
=============================================================================
