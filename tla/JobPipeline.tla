---------------------------- MODULE JobPipeline ----------------------------
(***************************************************************************)
(* The asynchronous job pipeline: tasks services that enqueue process_task *)
(* jobs, RabbitMQ, and the worker, with every process and connection free  *)
(* to fail between any two steps.                                          *)
(***************************************************************************)
EXTENDS Worker, Producer

CONSTANT ForeignBodies  \* bodies that other publishers put on the main queue

ASSUME PipelineAssumption == ForeignBodies \subseteq Body

vars == <<brokerVars, workerVars, producerVars>>

TypeOK == BrokerTypeOK /\ WorkerTypeOK /\ ProducerTypeOK

Init == BrokerInit /\ WorkerInit /\ ProducerInit

-----------------------------------------------------------------------------
(* Failures.  Every connection may break, but the worker is not killed and *)
(* does not lose its connection in its last life, so that a behaviour has  *)
(* finitely many failures.                                                 *)

MayBreak(c) == c # MaxLives

\* One end of a connection that both held open gives it up.
LinkFailure(c) == linked[c] /\ open[c] /\ MayBreak(c)

\* The end that still holds a connection the other has given up follows.
LinkCleanup(c) == linked[c] # open[c]

BreakByBroker(c) == LinkFailure(c) /\ BrokerClose(c)
BreakByClient(c) == LinkFailure(c) /\ ClientClose(c)
FinishClose(c)   == LinkCleanup(c) /\ (BrokerClose(c) \/ ClientClose(c))

\* A message from some other publisher; bounded with the producers' messages.
ForeignPublish(b) ==
  /\ enqueued < MaxEnqueues
  /\ enqueued' = enqueued + 1
  /\ copies' = Append(copies, [body |-> b, st |-> "ready", by |-> NoConn])
  /\ UNCHANGED <<wire, linked, open, inbox, serving, accepted>>

-----------------------------------------------------------------------------
BrokerStep ==
  /\ \/ \E c \in Conns : BrokerPublish(c) \/ BrokerSettle(c)
     \/ \E c \in Lives, k \in DOMAIN copies : Deliver(c, k)
  /\ UNCHANGED <<workerVars, producerVars>>

LinkStep ==
  /\ \E c \in Conns : BreakByBroker(c) \/ BreakByClient(c) \/ FinishClose(c)
  /\ UNCHANGED <<workerVars, producerVars>>

WorkerStep ==
  /\ WorkerStart \/ WorkerExit \/ WorkerCrash \/ Handle
  /\ UNCHANGED producerVars

ProducerStep ==
  /\ \E p \in Producers :
       \/ StartService(p)
       \/ \E m \in MsgIds, t \in Tasks : EnqueueProcessTask(p, m, t)
  /\ UNCHANGED workerVars

ForeignStep ==
  /\ \E b \in ForeignBodies : ForeignPublish(b)
  /\ UNCHANGED workerVars

Next == BrokerStep \/ LinkStep \/ WorkerStep \/ ProducerStep \/ ForeignStep

Spec == Init /\ [][Next]_vars

(***************************************************************************)
(* The broker keeps reading and delivering, the second end of a broken     *)
(* connection notices in the end (TCP reset or AMQP heartbeat), the worker *)
(* goroutine keeps running and a stopped worker is restarted (restart:     *)
(* unless-stopped).  Nothing makes a client enqueue or a failure happen.   *)
(***************************************************************************)
Fairness ==
  /\ \A c \in Conns :
       /\ WF_vars((BrokerPublish(c) \/ BrokerSettle(c)) /\ UNCHANGED <<workerVars, producerVars>>)
       /\ WF_vars(FinishClose(c) /\ UNCHANGED <<workerVars, producerVars>>)
  /\ \A c \in Lives :
       WF_vars((\E k \in DOMAIN copies : Deliver(c, k)) /\ UNCHANGED <<workerVars, producerVars>>)
  /\ WF_vars((WorkerStart \/ WorkerExit \/ Handle) /\ UNCHANGED producerVars)

FairSpec == Spec /\ Fairness

-----------------------------------------------------------------------------
(* Safety. *)

\* An id the queue has taken is never forgotten: a copy is still to be handled,
\* or it was processed, or it is in the dead-letter queue.  It relies on handle()
\* publishing the retry before it acks the original, on one channel.
NoJobLost ==
  \A m \in MsgIds : Known(m) => LiveCopy(m) \/ effects[m] > 0 \/ DeadCopy(m)

\* Every ack or nack the broker has yet to read names a copy it still counts as
\* unacked on that connection, and no copy is named twice: a second settlement
\* of a delivery tag is a channel error that would take the worker down.
SettlementsValid ==
  \A c \in Lives : \A i \in DOMAIN wire[c] :
    wire[c][i].op # "publish" =>
      /\ wire[c][i].copy \in HeldBy(c)
      /\ \A j \in DOMAIN wire[c] :
           wire[c][j].op # "publish" /\ wire[c][j].copy = wire[c][i].copy => j = i

\* A message id takes effect at most once per life of the worker: only a restart,
\* which empties the deduplication store, lets it be processed again, whatever
\* copies retries, clients and redeliveries made of it.
EffectsBounded == \A m \in MsgIds : effects[m] <= life

\* Jobs that only the producers publish: no foreign message uses their id.
OwnId(m) == \A b \in ForeignBodies : b = Malformed \/ b.mid # m

\* A copy of this id and task was published for this attempt.
Attempted(m, t, n) ==
  \E k \in DOMAIN copies : copies[k].body = [mid |-> m, task |-> t, attempt |-> n]

\* A job is dead-lettered only after all its attempts were published and failed:
\* none is skipped, and none is beyond the limit, across redeliveries and restarts.
DeadOnlyWhenExhausted ==
  \A k \in DOMAIN copies :
    copies[k].st = "dead" /\ copies[k].body # Malformed /\ OwnId(copies[k].body.mid) =>
      LET job == copies[k].body
      IN /\ job.attempt = MaxAttempts
         /\ \A n \in 1..MaxAttempts :
              /\ Attempted(job.mid, job.task, n)
              /\ ProcessFails([job EXCEPT !.attempt = n])

\* Each life of the worker leaves at most one more message in the queues than
\* were put there from outside: a retry is one message turned into one message,
\* and only a break between its publish and its ack can make two of it.
DuplicationBounded ==
  Cardinality({k \in DOMAIN copies : copies[k].st # "acked"}) <= enqueued + life

\* A job answered 202 has reached the queue or is on its way there, as long as
\* the broker still holds the connection that took it.
AcceptedTracked ==
  \A p \in Producers : \A m \in accepted[p] :
    linked[p] => \/ Known(m)
                 \/ \E i \in DOMAIN wire[p] : wire[p][i].body.mid = m

-----------------------------------------------------------------------------
(* What the pipeline implements: at-least-once delivery by message id.     *)

\* Retries, redeliveries and restarts are invisible to the promise of JobDelivery;
\* above all, an id stops being outstanding only once it has had its outcome.
Delivery == INSTANCE JobDelivery WITH
  outstanding <- {m \in MsgIds : LiveCopy(m)},
  executed    <- {m \in MsgIds : effects[m] > 0},
  buried      <- {m \in MsgIds : DeadCopy(m)}

DeliveryRefined == Delivery!DeliverySpec

-----------------------------------------------------------------------------
(* Liveness. *)

\* A job that fails for a passing reason is processed in the end, given one more
\* attempt than it needs.
TransientJobsSucceed ==
  \A m \in MsgIds :
    (/\ MaxAttempts >= 2
     /\ \E k \in DOMAIN copies : Of(k, m) /\ copies[k].body.task \notin FailTasks)
      ~> effects[m] > 0

\* Every id the queue has taken has its outcome in the end.
JobsHaveOutcome ==
  \A m \in MsgIds : Known(m) ~> (effects[m] > 0 \/ DeadCopy(m))

\* The main queue drains: no message is retried, redelivered or left unacked for
\* ever.
QueueDrains == <>[](\A k \in DOMAIN copies : ~Live(k))
=============================================================================
