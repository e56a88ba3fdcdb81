------------------------------- MODULE Worker -------------------------------
(***************************************************************************)
(* The worker process: one connection per life, a single goroutine that    *)
(* ranges over the deliveries and handles them one at a time, and a        *)
(* deduplication store that lives in memory.  Nothing survives a restart   *)
(* but the queue.                                                          *)
(***************************************************************************)
EXTENDS Broker

VARIABLES
  life,    \* number of times the worker was started; its current connection
  proc,    \* where the goroutine is
  cur,     \* the copy handle() has in hand, 0 when none
  seen,    \* processedStore.seen of this life
  effects  \* history: how often a message id was processed successfully

workerVars == <<life, proc, cur, seen, effects>>

ProcState == {"down", "idle", "processing", "processed", "republished"}

WorkerTypeOK ==
  /\ life \in 0..MaxLives
  /\ proc \in ProcState
  /\ cur \in Nat
  /\ seen \subseteq MsgIds
  /\ effects \in [MsgIds -> Nat]
  /\ proc # "down" => life # 0
  /\ cur # 0 <=> proc \in {"processing", "processed", "republished"}
  /\ cur # 0 => cur \in DOMAIN copies /\ copies[cur].body # Malformed

WorkerInit ==
  /\ life = 0
  /\ proc = "down"
  /\ cur = 0
  /\ seen = {}
  /\ effects = [m \in MsgIds |-> 0]

\* The job in hand: the delivered body, its attempt counter normalised.
Job == Normalise(copies[cur].body)

Ack(k)  == Send(life, [op |-> "ack", copy |-> k])
Nack(k) == Send(life, [op |-> "nack", copy |-> k])

-----------------------------------------------------------------------------
(* Starting and stopping. *)

\* newProcessedStore
NewSeen == {}

\* main() up to the range loop: dial, declare, set the prefetch, consume.
\* A start that fails exits again at once and changes nothing.
WorkerStart ==
  /\ proc = "down"
  /\ life < MaxLives
  /\ life' = life + 1
  /\ proc' = "idle"
  /\ seen' = NewSeen
  /\ Connect(life + 1)
  /\ UNCHANGED <<copies, wire, inbox, cur, effects>>

\* The library has closed the deliveries channel: the range ends, main returns.
\* It may drop deliveries it had buffered.
WorkerExit ==
  /\ proc = "idle"
  /\ ~open[life]
  /\ proc' = "down"
  /\ inbox' = [inbox EXCEPT ![life] = <<>>]
  /\ UNCHANGED <<copies, wire, linked, open, life, cur, seen, effects>>

\* The process is killed at any point of the loop.
WorkerCrash ==
  /\ proc # "down"
  /\ life < MaxLives
  /\ proc' = "down"
  /\ cur' = 0
  /\ open' = [open EXCEPT ![life] = FALSE]
  /\ inbox' = [inbox EXCEPT ![life] = <<>>]
  /\ UNCHANGED <<copies, wire, linked, life, seen, effects>>

-----------------------------------------------------------------------------
(* handle(msg), up to process(). *)

Incoming == Head(inbox[life])

Take ==
  /\ proc = "idle"
  /\ inbox[life] # <<>>
  /\ inbox' = [inbox EXCEPT ![life] = Tail(@)]
  /\ UNCHANGED <<copies, linked, open, life, seen, effects>>

\* A body that does not decode, or is no process_task job, is dead-lettered.
RejectInvalid ==
  /\ Take
  /\ copies[Incoming].body = Malformed
  /\ Nack(Incoming)
  /\ UNCHANGED <<proc, cur>>

\* processedIDs.Exists
IsDuplicate(m) == m \in seen

\* Mutant: the return after the ack of a duplicate is missing.
AckDuplicateFallsThrough ==
  /\ Take
  /\ copies[Incoming].body # Malformed
  /\ IsDuplicate(copies[Incoming].body.mid)
  /\ Ack(Incoming)
  /\ proc' = "processing"
  /\ cur' = Incoming

\* Mutant: a duplicate is ignored without an ack.
AckDuplicateSilent ==
  /\ Take
  /\ copies[Incoming].body # Malformed
  /\ IsDuplicate(copies[Incoming].body.mid)
  /\ UNCHANGED <<wire, proc, cur>>

AckDuplicate ==
  /\ Take
  /\ copies[Incoming].body # Malformed
  /\ IsDuplicate(copies[Incoming].body.mid)
  /\ Ack(Incoming)
  /\ UNCHANGED <<proc, cur>>

BeginProcessing ==
  /\ Take
  /\ copies[Incoming].body # Malformed
  /\ ~IsDuplicate(copies[Incoming].body.mid)
  /\ proc' = "processing"
  /\ cur' = Incoming
  /\ UNCHANGED wire

-----------------------------------------------------------------------------
(* handle(msg), once process() has answered. *)

\* Mutant: the goroutine goes on with a message still in hand.
FinishedHolding(next) ==
  /\ proc' = next
  /\ UNCHANGED <<copies, linked, open, inbox, life, cur>>

Finished(next) ==
  /\ proc' = next
  /\ cur' = IF next = "idle" THEN 0 ELSE cur
  /\ UNCHANGED <<copies, linked, open, inbox, life>>

\* Mutant: success is not recorded.
MarkedNot(m) == seen

\* processedIDs.Mark
Marked(m) == seen \cup {m}

\* process() succeeds and the id is marked; the ack is a step of its own.
ProcessSucceeds ==
  /\ proc = "processing"
  /\ ~ProcessFails(Job)
  /\ effects' = [effects EXCEPT ![Job.mid] = @ + 1]
  /\ seen' = Marked(Job.mid)
  /\ Finished("processed")
  /\ UNCHANGED wire

AckProcessed ==
  /\ proc = "processed"
  /\ Ack(cur)
  /\ Finished("idle")
  /\ UNCHANGED <<seen, effects>>

DeadLetter ==
  /\ proc = "processing"
  /\ ProcessFails(Job)
  /\ Exhausted(Job)
  /\ Nack(cur)
  /\ Finished("idle")
  /\ UNCHANGED <<seen, effects>>

\* Mutant: the original is acked before its retry is published.
RepublishAckFirst ==
  /\ proc = "processing"
  /\ ProcessFails(Job)
  /\ ~Exhausted(Job)
  /\ open[life]
  /\ wire' = IF linked[life]
             THEN [wire EXCEPT ![life] = @ \o <<[op |-> "ack", copy |-> cur],
                                                [op |-> "publish", body |-> NextAttempt(Job)]>>]
             ELSE wire
  /\ Finished("idle")
  /\ UNCHANGED <<seen, effects>>

\* Mutant: publishRetry publishes again what it has already published.
RepublishTwice ==
  /\ proc = "processing"
  /\ ProcessFails(Job)
  /\ ~Exhausted(Job)
  /\ open[life]
  /\ wire' = IF linked[life]
             THEN [wire EXCEPT ![life] = @ \o <<[op |-> "publish", body |-> NextAttempt(Job)],
                                                [op |-> "publish", body |-> NextAttempt(Job)]>>]
             ELSE wire
  /\ Finished("republished")
  /\ UNCHANGED <<seen, effects>>

\* publishRetry succeeds; the ack of the original is a step of its own.
Republish ==
  /\ proc = "processing"
  /\ ProcessFails(Job)
  /\ ~Exhausted(Job)
  /\ open[life]
  /\ Send(life, [op |-> "publish", body |-> NextAttempt(Job)])
  /\ Finished("republished")
  /\ UNCHANGED <<seen, effects>>

\* publishRetry fails on the closed channel: handle returns the error and
\* leaves the message unacknowledged.
RepublishFails ==
  /\ proc = "processing"
  /\ ProcessFails(Job)
  /\ ~Exhausted(Job)
  /\ ~open[life]
  /\ Finished("idle")
  /\ UNCHANGED <<wire, seen, effects>>

AckRepublished ==
  /\ proc = "republished"
  /\ Ack(cur)
  /\ Finished("idle")
  /\ UNCHANGED <<seen, effects>>

Handle ==
  \/ RejectInvalid
  \/ AckDuplicate
  \/ BeginProcessing
  \/ ProcessSucceeds
  \/ AckProcessed
  \/ DeadLetter
  \/ Republish
  \/ RepublishFails
  \/ AckRepublished
=============================================================================
