------------------------- MODULE JobPipelineProofs -------------------------
(***************************************************************************)
(* Theorems about the job pipeline, for every number of producers, worker  *)
(* lives, message ids, tasks and attempts, and every prefetch: types, the  *)
(* effects of an id, the settlement of deliveries, and the number of       *)
(* messages.                                                               *)
(***************************************************************************)
EXTENDS JobPipeline, Integers, SequenceTheorems, FiniteSetTheorems, TLAPS

(* What the sequence operators of the models do, in the form the proofs    *)
(* use: an update in place, a map over the positions, a message appended   *)
(* to or taken from a channel.                                             *)

\* A function on the positions of a sequence is a sequence of the same length.
LEMMA SeqMap ==
  ASSUME NEW S, NEW s \in Seq(S), NEW T \in [DOMAIN s -> S]
  PROVE  /\ T \in Seq(S)
         /\ Len(T) = Len(s)
         /\ DOMAIN T = DOMAIN s
         /\ DOMAIN s = 1..Len(s)
  OBVIOUS

\* Replacing one element keeps the others, and the length.
LEMMA SeqExcept ==
  ASSUME NEW S, NEW s \in Seq(S), NEW i, NEW e, i \in DOMAIN s => e \in S
  PROVE  /\ [s EXCEPT ![i] = e] \in Seq(S)
         /\ Len([s EXCEPT ![i] = e]) = Len(s)
         /\ DOMAIN [s EXCEPT ![i] = e] = DOMAIN s
         /\ \A j \in DOMAIN s : [s EXCEPT ![i] = e][j] = IF j = i THEN e ELSE s[j]
<1>. DEFINE T == [s EXCEPT ![i] = e]
<1>1. s \in [DOMAIN s -> S]
  BY LenProperties
<1>2. T \in [DOMAIN s -> S]
  BY <1>1
<1>3. \A j \in DOMAIN s : T[j] = IF j = i THEN e ELSE s[j]
  BY <1>1
<1>4. /\ T \in Seq(S)
      /\ Len(T) = Len(s)
      /\ DOMAIN T = DOMAIN s
  <2>. HIDE DEF T
  <2>. QED BY <1>2, SeqMap
<1>. QED BY <1>3, <1>4

\* A sequence over a set is a sequence over any larger set.
LEMMA SeqWiden ==
  ASSUME NEW S, NEW T, S \subseteq T, NEW s \in Seq(S)
  PROVE  s \in Seq(T)
<1>1. s \in [DOMAIN s -> T]
  BY LenProperties
<1>. QED BY <1>1, SeqMap

\* Appending adds one position, at the end.
LEMMA SeqAppend ==
  ASSUME NEW S, NEW s \in Seq(S), NEW e \in S
  PROVE  /\ Append(s, e) \in Seq(S)
         /\ Len(Append(s, e)) = Len(s) + 1
         /\ DOMAIN s = 1..Len(s)
         /\ DOMAIN Append(s, e) = 1..(Len(s) + 1)
         /\ \A j \in DOMAIN s : Append(s, e)[j] = s[j]
         /\ Append(s, e)[Len(s) + 1] = e
  OBVIOUS

\* Taking the first element moves every other one forward by one position.
LEMMA SeqTail ==
  ASSUME NEW S, NEW s \in Seq(S), s # <<>>
  PROVE  /\ Head(s) \in S
         /\ Head(s) = s[1]
         /\ 1 \in DOMAIN s
         /\ DOMAIN s = 1..Len(s)
         /\ Tail(s) \in Seq(S)
         /\ Len(Tail(s)) = Len(s) - 1
         /\ DOMAIN Tail(s) = 1..(Len(s) - 1)
         /\ \A j \in DOMAIN Tail(s) : Tail(s)[j] = s[j + 1] /\ j + 1 \in DOMAIN s
  OBVIOUS

-----------------------------------------------------------------------------

USE DEF Conns, NoConn

-----------------------------------------------------------------------------
(* Type correctness. *)

LEMMA JobTyped ==
  ASSUME NEW b \in Body, b # Malformed
  PROVE  /\ Normalise(b) \in ProcessTaskJob
         /\ NextAttempt(Normalise(b)) \in ProcessTaskJob
         /\ NextAttempt(Normalise(b)) # Malformed
         /\ Normalise(b).mid = b.mid
         /\ Normalise(b).task = b.task
         /\ NextAttempt(Normalise(b)).mid = b.mid
         /\ NextAttempt(Normalise(b)).task = b.task
         /\ b.mid \in MsgIds
  BY JobsAssumption DEF Body, Normalise, NextAttempt, ProcessTaskJob

LEMMA FramesTyped ==
  /\ \A b \in Body : [op |-> "publish", body |-> b] \in Frame
  /\ \A k \in Nat : [op |-> "ack", copy |-> k] \in Frame
  /\ \A k \in Nat : [op |-> "nack", copy |-> k] \in Frame
  BY DEF Frame, PublishFrame, SettleFrame

\* Writing one frame.
LEMMA SendTyped ==
  ASSUME BrokerTypeOK, NEW c \in Conns, NEW f \in Frame, Send(c, f)
  PROVE  /\ wire' \in [Conns -> Seq(Frame)]
         /\ \A d \in Conns : d # c => wire'[d] = wire[d]
         /\ wire'[c] = IF open[c] /\ linked[c] THEN Append(wire[c], f) ELSE wire[c]
  BY SeqAppend DEF BrokerTypeOK, Send

\* Copies are only ever added, and their bodies never change.
BodiesKept ==
  /\ DOMAIN copies \subseteq DOMAIN copies'
  /\ \A k \in DOMAIN copies : copies'[k].body = copies[k].body

\* What the types need of a step that changes the copies.
LEMMA InboxWiden ==
  ASSUME BrokerTypeOK, BodiesKept
  PROVE  inbox \in [Lives -> Seq(DOMAIN copies')]
<1>1. \A c \in Lives : inbox[c] \in Seq(DOMAIN copies')
  BY SeqWiden DEF BrokerTypeOK, BodiesKept
<1>. QED BY <1>1 DEF BrokerTypeOK

LEMMA AppendCopyTyped ==
  ASSUME BrokerTypeOK, NEW b \in Body,
         copies' = Append(copies, [body |-> b, st |-> "ready", by |-> NoConn])
  PROVE  /\ copies' \in Seq(Copy)
         /\ BodiesKept
         /\ inbox \in [Lives -> Seq(DOMAIN copies')]
<1>. DEFINE e == [body |-> b, st |-> "ready", by |-> NoConn]
<1>1. e \in Copy
  BY DEF Copy
<1>2. /\ copies' \in Seq(Copy)
      /\ BodiesKept
  <2>. HIDE DEF e
  <2>1. copies' = Append(copies, e)
    BY DEF e
  <2>. QED BY <1>1, <2>1, SeqAppend DEF BrokerTypeOK, BodiesKept
<1>. QED BY <1>2, InboxWiden

LEMMA BrokerPublishTyped ==
  ASSUME BrokerTypeOK, NEW c \in Conns, BrokerPublish(c)
  PROVE  BrokerTypeOK' /\ BodiesKept
<1>1. wire[c] \in Seq(Frame) /\ wire[c] # <<>>
  BY DEF BrokerTypeOK, BrokerPublish
<1>2. Head(wire[c]) \in Frame /\ Tail(wire[c]) \in Seq(Frame)
  BY <1>1, SeqTail
<1>3. Head(wire[c]).body \in Body
  BY <1>2 DEF BrokerPublish, Frame, PublishFrame, SettleFrame
<1>4. /\ copies' \in Seq(Copy)
      /\ BodiesKept
      /\ inbox \in [Lives -> Seq(DOMAIN copies')]
  BY <1>3, AppendCopyTyped DEF BrokerPublish
<1>. QED BY <1>2, <1>4 DEF BrokerTypeOK, BrokerPublish

LEMMA BrokerSettleTyped ==
  ASSUME BrokerTypeOK, NEW c \in Conns, BrokerSettle(c)
  PROVE  BrokerTypeOK' /\ BodiesKept
<1>1. wire[c] \in Seq(Frame) /\ wire[c] # <<>>
  BY DEF BrokerTypeOK, BrokerSettle
<1>2. Tail(wire[c]) \in Seq(Frame)
  BY <1>1, SeqTail
<1>. DEFINE f == Head(wire[c])
            e == [copies[f.copy] EXCEPT !.st = SettledAs(f.op), !.by = NoConn]
<1>3. f.copy \in DOMAIN copies => e \in Copy /\ e.body = copies[f.copy].body
  <2>1. f.copy \in DOMAIN copies => copies[f.copy] \in Copy
    BY ElementOfSeq, LenProperties DEF BrokerTypeOK
  <2>. QED BY <2>1 DEF Copy, SettledAs
<1>4. copies' = [copies EXCEPT ![f.copy] = e]
  BY DEF BrokerSettle
<1>5. copies' \in Seq(Copy) /\ DOMAIN copies' = DOMAIN copies /\ BodiesKept
  <2>. HIDE DEF e, f
  <2>. QED BY <1>3, <1>4, SeqExcept DEF BrokerTypeOK, BodiesKept
<1>. QED BY <1>2, <1>5 DEF BrokerTypeOK, BrokerSettle

LEMMA DeliverTyped ==
  ASSUME BrokerTypeOK, NEW c \in Lives, NEW k \in DOMAIN copies, Deliver(c, k)
  PROVE  BrokerTypeOK' /\ BodiesKept
<1>. DEFINE e == [copies[k] EXCEPT !.st = "unacked", !.by = c]
<1>1. e \in Copy /\ e.body = copies[k].body
  <2>1. copies[k] \in Copy
    BY ElementOfSeq, LenProperties DEF BrokerTypeOK
  <2>. QED BY <2>1 DEF Copy
<1>2. copies' = [copies EXCEPT ![k] = e]
  BY DEF Deliver
<1>3. copies' \in Seq(Copy) /\ DOMAIN copies' = DOMAIN copies /\ BodiesKept
  <2>. HIDE DEF e
  <2>. QED BY <1>1, <1>2, SeqExcept DEF BrokerTypeOK, BodiesKept
<1>4. inbox' \in [Lives -> Seq(DOMAIN copies)]
  BY SeqAppend DEF BrokerTypeOK, Deliver
<1>. QED BY <1>3, <1>4 DEF BrokerTypeOK, Deliver

LEMMA BrokerCloseTyped ==
  ASSUME BrokerTypeOK, NEW c \in Conns, BrokerClose(c)
  PROVE  BrokerTypeOK' /\ BodiesKept
<1>1. /\ Requeue(c) \in [DOMAIN copies -> Copy]
      /\ \A k \in DOMAIN copies : Requeue(c)[k].body = copies[k].body
  <2>1. \A k \in DOMAIN copies : copies[k] \in Copy
    BY ElementOfSeq, LenProperties DEF BrokerTypeOK
  <2>. QED BY <2>1 DEF Requeue, Copy
<1>2. Requeue(c) \in Seq(Copy) /\ DOMAIN Requeue(c) = DOMAIN copies
  BY <1>1, SeqMap DEF BrokerTypeOK
<1>. QED BY <1>1, <1>2 DEF BrokerTypeOK, BrokerClose, BodiesKept

LEMMA ClientCloseTyped ==
  ASSUME BrokerTypeOK, NEW c \in Conns, ClientClose(c)
  PROVE  BrokerTypeOK' /\ BodiesKept
  BY DEF BrokerTypeOK, ClientClose, BodiesKept

\* A step of the broker or of a connection leaves the worker's types alone.
LEMMA WorkerTypeKept ==
  ASSUME WorkerTypeOK, BodiesKept, UNCHANGED workerVars
  PROVE  WorkerTypeOK'
  BY DEF WorkerTypeOK, BodiesKept, workerVars

-----------------------------------------------------------------------------
(* The worker's steps. *)

LEMMA LifeIsConn ==
  ASSUME WorkerTypeOK, proc # "down"
  PROVE  life \in Lives /\ life \in Conns
  BY BrokerAssumption DEF WorkerTypeOK, Lives

LEMMA WorkerStartTyped ==
  ASSUME BrokerTypeOK, WorkerTypeOK, WorkerStart
  PROVE  BrokerTypeOK' /\ WorkerTypeOK'
<1>1. BrokerTypeOK'
  BY DEF BrokerTypeOK, WorkerStart, Connect
<1>2. WorkerTypeOK'
  BY BrokerAssumption DEF WorkerTypeOK, WorkerStart, NewSeen, ProcState
<1>. QED BY <1>1, <1>2

LEMMA WorkerExitTyped ==
  ASSUME BrokerTypeOK, WorkerTypeOK, WorkerExit
  PROVE  BrokerTypeOK' /\ WorkerTypeOK'
  BY EmptySeq DEF BrokerTypeOK, WorkerTypeOK, WorkerExit, ProcState

LEMMA WorkerCrashTyped ==
  ASSUME BrokerTypeOK, WorkerTypeOK, WorkerCrash
  PROVE  BrokerTypeOK' /\ WorkerTypeOK'
  BY EmptySeq DEF BrokerTypeOK, WorkerTypeOK, WorkerCrash, ProcState

\* Taking a delivery from the inbox.
LEMMA TakeTyped ==
  ASSUME BrokerTypeOK, WorkerTypeOK, Take
  PROVE  /\ life \in Lives
         /\ Incoming \in DOMAIN copies
         /\ Incoming \in Nat /\ Incoming # 0
         /\ inbox' \in [Lives -> Seq(DOMAIN copies)]
<1>1. life \in Lives
  BY LifeIsConn DEF Take
<1>2. inbox[life] \in Seq(DOMAIN copies) /\ inbox[life] # <<>>
  BY <1>1 DEF BrokerTypeOK, Take
<1>3. Head(inbox[life]) \in DOMAIN copies /\ Tail(inbox[life]) \in Seq(DOMAIN copies)
  BY <1>2, SeqTail
<1>4. DOMAIN copies = 1..Len(copies) /\ Len(copies) \in Nat
  BY LenProperties DEF BrokerTypeOK
<1>5. inbox' \in [Lives -> Seq(DOMAIN copies)]
  BY <1>1, <1>3 DEF BrokerTypeOK, Take
<1>. QED BY <1>1, <1>3, <1>4, <1>5 DEF Incoming

\* Answering a delivery: writing one frame and changing nothing else of the
\* broker's.
LEMMA WorkerSendTyped ==
  ASSUME BrokerTypeOK, life \in Lives, NEW f \in Frame, Send(life, f),
         UNCHANGED <<copies, linked, open>>,
         inbox' \in [Lives -> Seq(DOMAIN copies)]
  PROVE  BrokerTypeOK'
<1>1. wire' \in [Conns -> Seq(Frame)]
  BY SendTyped
<1>. QED BY <1>1 DEF BrokerTypeOK

LEMMA TakeActionsTyped ==
  ASSUME BrokerTypeOK, WorkerTypeOK,
         RejectInvalid \/ AckDuplicate \/ BeginProcessing
  PROVE  BrokerTypeOK' /\ WorkerTypeOK'
<1>1. Take
  BY DEF RejectInvalid, AckDuplicate, BeginProcessing
<1>2. /\ life \in Lives
      /\ Incoming \in DOMAIN copies
      /\ Incoming \in Nat /\ Incoming # 0
      /\ inbox' \in [Lives -> Seq(DOMAIN copies)]
  BY <1>1, TakeTyped
<1>3. UNCHANGED <<copies, linked, open>>
  BY <1>1 DEF Take
<1>4. CASE RejectInvalid
  <2>1. BrokerTypeOK'
    BY <1>2, <1>3, <1>4, FramesTyped, WorkerSendTyped DEF RejectInvalid, Nack
  <2>. QED BY <1>4, <2>1 DEF WorkerTypeOK, RejectInvalid, Take
<1>5. CASE AckDuplicate
  <2>1. BrokerTypeOK'
    BY <1>2, <1>3, <1>5, FramesTyped, WorkerSendTyped DEF AckDuplicate, Ack
  <2>. QED BY <1>5, <2>1 DEF WorkerTypeOK, AckDuplicate, Take
<1>6. CASE BeginProcessing
  <2>1. BrokerTypeOK'
    BY <1>2, <1>3, <1>6 DEF BeginProcessing, BrokerTypeOK
  <2>2. WorkerTypeOK'
    BY <1>2, <1>6 DEF WorkerTypeOK, BeginProcessing, Take, ProcState
  <2>. QED BY <2>1, <2>2
<1>. QED BY <1>4, <1>5, <1>6

\* The job in hand.
LEMMA InHandTyped ==
  ASSUME BrokerTypeOK, WorkerTypeOK, proc \in {"processing", "processed", "republished"}
  PROVE  /\ life \in Lives
         /\ cur \in DOMAIN copies
         /\ copies[cur].body \in Body /\ copies[cur].body # Malformed
         /\ Job \in ProcessTaskJob
         /\ Job.mid = copies[cur].body.mid
         /\ Job.mid \in MsgIds
         /\ NextAttempt(Job) \in Body
<1>1. life \in Lives
  BY LifeIsConn
<1>2. cur \in DOMAIN copies /\ copies[cur].body # Malformed
  BY DEF WorkerTypeOK
<1>3. copies[cur] \in Copy
  BY <1>2, ElementOfSeq, LenProperties DEF BrokerTypeOK
<1>4. copies[cur].body \in Body
  BY <1>3 DEF Copy
<1>. QED BY <1>1, <1>2, <1>4, JobTyped DEF Job, Body

LEMMA FinishedTyped ==
  ASSUME BrokerTypeOK, WorkerTypeOK, proc = "processing" \/ proc = "processed" \/ proc = "republished",
         NEW next \in {"idle", "processed", "republished"}, Finished(next),
         seen' \subseteq MsgIds, effects' \in [MsgIds -> Nat]
  PROVE  WorkerTypeOK'
  BY DEF WorkerTypeOK, Finished, ProcState

LEMMA FinishActionsTyped ==
  ASSUME BrokerTypeOK, WorkerTypeOK,
         \/ ProcessSucceeds \/ AckProcessed \/ DeadLetter
         \/ Republish \/ RepublishFails \/ AckRepublished
  PROVE  BrokerTypeOK' /\ WorkerTypeOK'
<1>1. proc \in {"processing", "processed", "republished"}
  BY DEF ProcessSucceeds, AckProcessed, DeadLetter, Republish, RepublishFails, AckRepublished
<1>2. /\ life \in Lives
      /\ cur \in Nat
      /\ Job.mid \in MsgIds
      /\ NextAttempt(Job) \in Body
  BY <1>1, InHandTyped DEF WorkerTypeOK
<1>3. UNCHANGED <<copies, linked, open, inbox>>
  BY DEF ProcessSucceeds, AckProcessed, DeadLetter, Republish, RepublishFails,
         AckRepublished, Finished
<1>4. inbox' \in [Lives -> Seq(DOMAIN copies)]
  BY <1>3 DEF BrokerTypeOK
<1>5. seen \subseteq MsgIds /\ effects \in [MsgIds -> Nat]
  BY DEF WorkerTypeOK
<1>6. CASE ProcessSucceeds
  <2>1. seen' \subseteq MsgIds /\ effects' \in [MsgIds -> Nat]
    BY <1>2, <1>5, <1>6 DEF ProcessSucceeds, Marked
  <2>2. BrokerTypeOK'
    BY <1>3, <1>6 DEF ProcessSucceeds, BrokerTypeOK
  <2>. QED BY <1>6, <2>1, <2>2, FinishedTyped DEF ProcessSucceeds
<1>7. CASE AckProcessed
  <2>1. BrokerTypeOK'
    BY <1>2, <1>3, <1>4, <1>7, FramesTyped, WorkerSendTyped DEF AckProcessed, Ack
  <2>. QED BY <1>5, <1>7, <2>1, FinishedTyped DEF AckProcessed
<1>8. CASE DeadLetter
  <2>1. BrokerTypeOK'
    BY <1>2, <1>3, <1>4, <1>8, FramesTyped, WorkerSendTyped DEF DeadLetter, Nack
  <2>. QED BY <1>5, <1>8, <2>1, FinishedTyped DEF DeadLetter
<1>9. CASE Republish
  <2>1. BrokerTypeOK'
    BY <1>2, <1>3, <1>4, <1>9, FramesTyped, WorkerSendTyped DEF Republish
  <2>. QED BY <1>5, <1>9, <2>1, FinishedTyped DEF Republish
<1>10. CASE RepublishFails
  <2>1. BrokerTypeOK'
    BY <1>3, <1>10 DEF RepublishFails, BrokerTypeOK
  <2>. QED BY <1>5, <1>10, <2>1, FinishedTyped DEF RepublishFails
<1>11. CASE AckRepublished
  <2>1. BrokerTypeOK'
    BY <1>2, <1>3, <1>4, <1>11, FramesTyped, WorkerSendTyped DEF AckRepublished, Ack
  <2>. QED BY <1>5, <1>11, <2>1, FinishedTyped DEF AckRepublished
<1>. QED BY <1>6, <1>7, <1>8, <1>9, <1>10, <1>11

-----------------------------------------------------------------------------
(* The steps of the producers and of other publishers. *)

LEMMA StartServiceTyped ==
  ASSUME BrokerTypeOK, ProducerTypeOK, NEW p \in Producers, StartService(p)
  PROVE  BrokerTypeOK' /\ ProducerTypeOK' /\ BodiesKept
<1>1. ProducerTypeOK'
  BY DEF ProducerTypeOK, StartService
<1>2. BrokerTypeOK' /\ BodiesKept
  BY DEF BrokerTypeOK, StartService, Connect, BodiesKept
<1>. QED BY <1>1, <1>2

LEMMA EnqueueTyped ==
  ASSUME BrokerTypeOK, ProducerTypeOK, NEW p \in Producers, NEW m \in MsgIds, NEW t \in Tasks,
         EnqueueProcessTask(p, m, t)
  PROVE  BrokerTypeOK' /\ ProducerTypeOK' /\ BodiesKept
<1>1. ProducerTypeOK'
  BY ProducerAssumption DEF ProducerTypeOK, EnqueueProcessTask
<1>. DEFINE b == [mid |-> m, task |-> t, attempt |-> 1]
<1>2. [op |-> "publish", body |-> b] \in Frame
  BY FramesTyped DEF Body, ProcessTaskJob
<1>3. wire' \in [Conns -> Seq(Frame)]
  <2>1. Send(p, [op |-> "publish", body |-> b])
    BY DEF EnqueueProcessTask, NewJob
  <2>. HIDE DEF b
  <2>. QED BY <1>2, <2>1, SendTyped
<1>4. BrokerTypeOK' /\ BodiesKept
  BY <1>3 DEF BrokerTypeOK, EnqueueProcessTask, BodiesKept
<1>. QED BY <1>1, <1>4

LEMMA ForeignTyped ==
  ASSUME BrokerTypeOK, ProducerTypeOK, NEW b \in ForeignBodies, ForeignPublish(b)
  PROVE  BrokerTypeOK' /\ ProducerTypeOK' /\ BodiesKept
<1>1. ProducerTypeOK'
  BY ProducerAssumption DEF ProducerTypeOK, ForeignPublish
<1>2. b \in Body
  BY PipelineAssumption
<1>3. /\ copies' \in Seq(Copy)
      /\ BodiesKept
      /\ inbox \in [Lives -> Seq(DOMAIN copies')]
  BY <1>2, AppendCopyTyped DEF ForeignPublish
<1>. QED BY <1>1, <1>3 DEF BrokerTypeOK, ForeignPublish

-----------------------------------------------------------------------------
LEMMA InitTyped == Init => TypeOK
<1>1. BrokerInit => BrokerTypeOK
  BY EmptySeq DEF BrokerInit, BrokerTypeOK
<1>2. WorkerInit => WorkerTypeOK
  BY BrokerAssumption DEF WorkerInit, WorkerTypeOK, ProcState
<1>3. ProducerInit => ProducerTypeOK
  BY ProducerAssumption DEF ProducerInit, ProducerTypeOK
<1>. QED BY <1>1, <1>2, <1>3 DEF Init, TypeOK

LEMMA StepTyped == TypeOK /\ [Next]_vars => TypeOK'
<1>. SUFFICES ASSUME TypeOK, [Next]_vars
              PROVE  TypeOK'
  OBVIOUS
<1>. BrokerTypeOK /\ WorkerTypeOK /\ ProducerTypeOK
  BY DEF TypeOK
<1>1. CASE BrokerStep
  <2>1. BrokerTypeOK' /\ BodiesKept
    BY <1>1, BrokerPublishTyped, BrokerSettleTyped, DeliverTyped DEF BrokerStep
  <2>. QED BY <1>1, <2>1, WorkerTypeKept DEF BrokerStep, TypeOK, ProducerTypeOK, producerVars
<1>2. CASE LinkStep
  <2>1. BrokerTypeOK' /\ BodiesKept
    BY <1>2, BrokerCloseTyped, ClientCloseTyped
       DEF LinkStep, BreakByBroker, BreakByClient, FinishClose
  <2>. QED BY <1>2, <2>1, WorkerTypeKept DEF LinkStep, TypeOK, ProducerTypeOK, producerVars
<1>3. CASE WorkerStep
  <2>1. BrokerTypeOK' /\ WorkerTypeOK'
    BY <1>3, WorkerStartTyped, WorkerExitTyped, WorkerCrashTyped, TakeActionsTyped,
       FinishActionsTyped DEF WorkerStep, Handle
  <2>. QED BY <1>3, <2>1 DEF WorkerStep, TypeOK, ProducerTypeOK, producerVars
<1>4. CASE ProducerStep
  <2>1. BrokerTypeOK' /\ ProducerTypeOK' /\ BodiesKept
    BY <1>4, StartServiceTyped, EnqueueTyped DEF ProducerStep
  <2>. QED BY <1>4, <2>1, WorkerTypeKept DEF ProducerStep, TypeOK
<1>5. CASE ForeignStep
  <2>1. BrokerTypeOK' /\ ProducerTypeOK' /\ BodiesKept
    BY <1>5, ForeignTyped DEF ForeignStep
  <2>. QED BY <1>5, <2>1, WorkerTypeKept DEF ForeignStep, TypeOK
<1>6. CASE UNCHANGED vars
  BY <1>6 DEF TypeOK, BrokerTypeOK, WorkerTypeOK, ProducerTypeOK,
              vars, brokerVars, workerVars, producerVars
<1>. QED BY <1>1, <1>2, <1>3, <1>4, <1>5, <1>6 DEF Next

\* The variables of the pipeline always have their types: the goroutine has a
\* message in hand exactly while it handles one, and that message is a job.
THEOREM TypeCorrect == Spec => []TypeOK
  BY InitTyped, StepTyped, PTL DEF Spec

-----------------------------------------------------------------------------
(***************************************************************************)
(* A message id takes effect at most once per life of the worker.          *)
(*                                                                         *)
(* EffectsBounded is not inductive: an id that was never marked in this    *)
(* life has only the effects of earlier lives, and the job being processed *)
(* is one that was not marked when it was taken, nor since, because one    *)
(* goroutine handles the deliveries one at a time.                         *)
(***************************************************************************)

EffectsInv ==
  /\ EffectsBounded
  /\ life > 0 => \A m \in MsgIds \ seen : effects[m] <= life - 1
  /\ proc = "processing" => Job.mid \notin seen

\* Every step but the worker's leaves the worker, and the job in its hand, alone.
LEMMA OthersStep ==
  ASSUME TypeOK, BrokerStep \/ LinkStep \/ ProducerStep \/ ForeignStep
  PROVE  UNCHANGED workerVars /\ BodiesKept
<1>. BrokerTypeOK /\ ProducerTypeOK
  BY DEF TypeOK
<1>1. CASE BrokerStep
  BY <1>1, BrokerPublishTyped, BrokerSettleTyped, DeliverTyped DEF BrokerStep
<1>2. CASE LinkStep
  BY <1>2, BrokerCloseTyped, ClientCloseTyped
     DEF LinkStep, BreakByBroker, BreakByClient, FinishClose
<1>3. CASE ProducerStep
  BY <1>3, StartServiceTyped, EnqueueTyped DEF ProducerStep
<1>4. CASE ForeignStep
  BY <1>4, ForeignTyped DEF ForeignStep
<1>. QED BY <1>1, <1>2, <1>3, <1>4

LEMMA EffectsStep == TypeOK /\ EffectsInv /\ [Next]_vars => EffectsInv'
<1>. SUFFICES ASSUME TypeOK, EffectsInv, [Next]_vars
              PROVE  EffectsInv'
  OBVIOUS
<1>. /\ BrokerTypeOK /\ WorkerTypeOK
     /\ life \in Nat
     /\ effects \in [MsgIds -> Nat]
  BY BrokerAssumption DEF TypeOK, WorkerTypeOK
<1>1. CASE BrokerStep \/ LinkStep \/ ProducerStep \/ ForeignStep
  <2>1. UNCHANGED workerVars /\ BodiesKept
    BY <1>1, OthersStep
  <2>2. proc = "processing" => cur \in DOMAIN copies
    BY InHandTyped
  <2>3. proc = "processing" => Job' = Job
    BY <2>1, <2>2 DEF Job, Normalise, BodiesKept, workerVars
  <2>. QED BY <2>1, <2>3 DEF EffectsInv, EffectsBounded, workerVars
<1>2. CASE WorkerStart
  BY <1>2 DEF EffectsInv, EffectsBounded, WorkerStart, NewSeen
<1>3. CASE WorkerExit \/ WorkerCrash
  BY <1>3 DEF EffectsInv, EffectsBounded, WorkerExit, WorkerCrash
<1>4. CASE RejectInvalid \/ AckDuplicate
  BY <1>4 DEF EffectsInv, EffectsBounded, RejectInvalid, AckDuplicate, Take
<1>5. CASE BeginProcessing
  <2>1. Incoming \in DOMAIN copies
    BY <1>5, TakeTyped DEF BeginProcessing
  <2>2. copies[Incoming].body \in Body /\ copies[Incoming].body # Malformed
    <3>1. copies[Incoming] \in Copy
      BY <2>1, ElementOfSeq, LenProperties DEF BrokerTypeOK
    <3>. QED BY <1>5, <3>1 DEF Copy, BeginProcessing
  <2>3. Job' = Normalise(copies[Incoming].body)
    BY <1>5 DEF BeginProcessing, Take, Job
  <2>4. Job'.mid = copies[Incoming].body.mid
    BY <2>2, <2>3, JobTyped
  <2>5. Job'.mid \notin seen
    BY <1>5, <2>4 DEF BeginProcessing, IsDuplicate
  <2>. QED BY <1>5, <2>5 DEF EffectsInv, EffectsBounded, BeginProcessing, Take
<1>6. CASE ProcessSucceeds
  <2>1. Job.mid \in MsgIds /\ life > 0
    BY <1>6, InHandTyped, BrokerAssumption DEF ProcessSucceeds, Lives
  <2>2. effects[Job.mid] <= life - 1
    BY <1>6, <2>1 DEF EffectsInv, ProcessSucceeds
  <2>3. \A m \in MsgIds : effects'[m] = IF m = Job.mid THEN effects[m] + 1 ELSE effects[m]
    BY <1>6, <2>1 DEF ProcessSucceeds
  <2>4. seen' = seen \cup {Job.mid} /\ life' = life /\ proc' # "processing"
    BY <1>6 DEF ProcessSucceeds, Marked, Finished
  <2>5. \A m \in MsgIds : effects[m] \in Nat
    OBVIOUS
  <2>. HIDE DEF Job
  <2>. QED BY <2>1, <2>2, <2>3, <2>4, <2>5 DEF EffectsInv, EffectsBounded
<1>7. CASE AckProcessed \/ DeadLetter \/ Republish \/ RepublishFails \/ AckRepublished
  BY <1>7 DEF EffectsInv, EffectsBounded, AckProcessed, DeadLetter, Republish,
              RepublishFails, AckRepublished, Finished
<1>8. CASE UNCHANGED vars
  BY <1>8 DEF EffectsInv, EffectsBounded, Job, vars, workerVars, brokerVars
<1>. QED BY <1>1, <1>2, <1>3, <1>4, <1>5, <1>6, <1>7, <1>8
            DEF Next, WorkerStep, Handle

\* However many copies of a message clients, retries and redeliveries make, each
\* life of the worker processes its id successfully once at most.
THEOREM EffectsOncePerLife == Spec => []EffectsBounded
<1>1. Init => EffectsInv
  BY DEF Init, WorkerInit, EffectsInv, EffectsBounded
<1>2. EffectsInv => EffectsBounded
  BY DEF EffectsInv
<1>. QED BY <1>1, <1>2, TypeCorrect, EffectsStep, PTL DEF Spec

-----------------------------------------------------------------------------
(***************************************************************************)
(* Every delivery is settled at most once, on the connection that holds    *)
(* it.                                                                     *)
(***************************************************************************)

USE DEF Conns, NoConn

-----------------------------------------------------------------------------
(* Sequences of frames. *)

NamedIn(w, k) == \E i \in DOMAIN w : w[i].op # "publish" /\ w[i].copy = k

\* The settlements in w name copies of H, each at most once.
ValidIn(w, H) ==
  \A i \in DOMAIN w :
    w[i].op # "publish" =>
      /\ w[i].copy \in H
      /\ \A j \in DOMAIN w : w[j].op # "publish" /\ w[j].copy = w[i].copy => j = i

LEMMA ValidAppend ==
  ASSUME NEW w \in Seq(Frame), NEW f \in Frame, NEW H, ValidIn(w, H),
         f.op # "publish" => f.copy \in H /\ ~NamedIn(w, f.copy)
  PROVE  /\ ValidIn(Append(w, f), H)
         /\ \A k : NamedIn(Append(w, f), k) =>
                     NamedIn(w, k) \/ (f.op # "publish" /\ k = f.copy)
<1>. DEFINE v == Append(w, f)
            n == Len(w) + 1
<1>1. /\ DOMAIN w = 1..Len(w) /\ DOMAIN v = 1..n /\ Len(w) \in Nat
      /\ \A j \in DOMAIN w : v[j] = w[j]
      /\ v[n] = f
  BY SeqAppend, LenProperties
<1>. HIDE DEF v, n
<1>2. n = Len(w) + 1
  BY DEF n
<1>3. \A j \in DOMAIN v : j = n \/ (j \in DOMAIN w /\ v[j] = w[j])
  BY <1>1, <1>2
<1>4. \A k : NamedIn(v, k) => NamedIn(w, k) \/ (f.op # "publish" /\ k = f.copy)
  BY <1>1, <1>3 DEF NamedIn
<1>5. ValidIn(v, H)
  <2>. SUFFICES ASSUME NEW i \in DOMAIN v, v[i].op # "publish"
                PROVE  /\ v[i].copy \in H
                       /\ \A j \in DOMAIN v :
                            v[j].op # "publish" /\ v[j].copy = v[i].copy => j = i
    BY DEF ValidIn
  <2>1. CASE i = n
    BY <1>1, <1>3, <2>1 DEF NamedIn
  <2>2. CASE i \in DOMAIN w /\ v[i] = w[i]
    BY <1>1, <1>3, <2>2 DEF ValidIn, NamedIn
  <2>. QED BY <1>3, <2>1, <2>2
<1>. QED BY <1>4, <1>5 DEF v

LEMMA ValidTail ==
  ASSUME NEW w \in Seq(Frame), w # <<>>, NEW H, ValidIn(w, H)
  PROVE  /\ ValidIn(Tail(w), H)
         /\ \A k : NamedIn(Tail(w), k) => NamedIn(w, k)
         /\ Head(w).op # "publish" =>
              /\ Head(w).copy \in H
              /\ NamedIn(w, Head(w).copy)
              /\ ~NamedIn(Tail(w), Head(w).copy)
              /\ ValidIn(Tail(w), H \ {Head(w).copy})
<1>. DEFINE v == Tail(w)
            h == Head(w)
<1>1. /\ h = w[1] /\ 1 \in DOMAIN w
      /\ DOMAIN v = 1..(Len(w) - 1) /\ Len(w) \in Nat
      /\ \A j \in DOMAIN v : v[j] = w[j + 1] /\ j + 1 \in DOMAIN w
  BY SeqTail, LenProperties
<1>. HIDE DEF v, h
<1>2. \A j \in DOMAIN v : j \in Nat /\ j # 0
  BY <1>1
<1>3. \A i, j \in DOMAIN v : i + 1 = j + 1 => i = j
  BY <1>2
<1>4. \A j \in DOMAIN v : j + 1 # 1
  BY <1>2
<1>5. ValidIn(v, H)
  BY <1>1, <1>3 DEF ValidIn
<1>6. \A k : NamedIn(v, k) => NamedIn(w, k)
  BY <1>1 DEF NamedIn
<1>7. ASSUME h.op # "publish"
      PROVE  h.copy \in H /\ NamedIn(w, h.copy) /\ ~NamedIn(v, h.copy)
  BY <1>1, <1>4, <1>7 DEF ValidIn, NamedIn
<1>8. ASSUME h.op # "publish"
      PROVE  ValidIn(v, H \ {h.copy})
  BY <1>5, <1>7, <1>8 DEF ValidIn, NamedIn
<1>. QED BY <1>5, <1>6, <1>7, <1>8 DEF v, h

LEMMA ValidWiden ==
  ASSUME NEW w, NEW H, NEW G, ValidIn(w, H), H \subseteq G
  PROVE  ValidIn(w, G)
  BY DEF ValidIn

LEMMA ValidEmpty == \A H : ValidIn(<<>>, H) /\ \A k : ~NamedIn(<<>>, k)
  BY DEF ValidIn, NamedIn

LEMMA NamedHeld ==
  ASSUME NEW w, NEW H, ValidIn(w, H), NEW k, NamedIn(w, k)
  PROVE  k \in H
  BY DEF ValidIn, NamedIn

-----------------------------------------------------------------------------
(* Deliveries in the worker's hands: the buffered ones in box, and the one *)
(* being handled, in (0 when none).                                        *)

InHand(box, in, w, H) ==
  /\ \A i \in DOMAIN box : box[i] \in H /\ ~NamedIn(w, box[i]) /\ box[i] # in
  /\ \A i, j \in DOMAIN box : box[i] = box[j] => i = j
  /\ in # 0 => in \in H /\ ~NamedIn(w, in)

LEMMA InHandTake ==
  ASSUME NEW S, NEW box \in Seq(S), box # <<>>, 0 \notin S, NEW w, NEW H, InHand(box, 0, w, H)
  PROVE  /\ InHand(Tail(box), Head(box), w, H)
         /\ Head(box) \in H /\ ~NamedIn(w, Head(box))
<1>. DEFINE t == Tail(box)
            h == Head(box)
<1>1. /\ h = box[1] /\ 1 \in DOMAIN box /\ h \in S
      /\ DOMAIN t = 1..(Len(box) - 1) /\ Len(box) \in Nat
      /\ \A j \in DOMAIN t : t[j] = box[j + 1] /\ j + 1 \in DOMAIN box
  BY SeqTail, LenProperties
<1>. HIDE DEF t, h
<1>2. /\ \A i, j \in DOMAIN t : i + 1 = j + 1 => i = j
      /\ \A j \in DOMAIN t : j + 1 # 1
  BY <1>1
<1>3. h \in H /\ ~NamedIn(w, h)
  BY <1>1 DEF InHand
<1>4. \A j \in DOMAIN t : t[j] \in H /\ ~NamedIn(w, t[j]) /\ t[j] # h
  BY <1>1, <1>2 DEF InHand
<1>5. \A i, j \in DOMAIN t : t[i] = t[j] => i = j
  BY <1>1, <1>2 DEF InHand
<1>. QED BY <1>3, <1>4, <1>5 DEF InHand, t, h

LEMMA InHandDeliver ==
  ASSUME NEW S, NEW box \in Seq(S), NEW k \in S, NEW in, NEW w, NEW H,
         k # 0, k \notin H, ValidIn(w, H), InHand(box, in, w, H)
  PROVE  InHand(Append(box, k), in, w, H \cup {k})
<1>. DEFINE v == Append(box, k)
            n == Len(box) + 1
<1>1. /\ DOMAIN box = 1..Len(box) /\ DOMAIN v = 1..n /\ Len(box) \in Nat
      /\ \A j \in DOMAIN box : v[j] = box[j]
      /\ v[n] = k
  BY SeqAppend, LenProperties
<1>2. ~NamedIn(w, k) /\ in # k
  BY NamedHeld DEF InHand
<1>3. n = Len(box) + 1
  OBVIOUS
<1>. HIDE DEF v, n
<1>4. \A j \in DOMAIN v : j = n \/ (j \in DOMAIN box /\ v[j] = box[j])
  BY <1>1, <1>3
<1>5. \A j \in DOMAIN v : v[j] \in H \cup {k} /\ ~NamedIn(w, v[j]) /\ v[j] # in
  BY <1>1, <1>2, <1>4 DEF InHand
<1>6. \A i, j \in DOMAIN v : v[i] = v[j] => i = j
  BY <1>1, <1>4 DEF InHand
<1>. QED BY <1>5, <1>6 DEF InHand, v

\* What is in hand stays so when less is named, or what was let go of is named.
LEMMA InHandKept ==
  ASSUME NEW box, NEW in, NEW w, NEW H, InHand(box, in, w, H),
         NEW v, NEW G,
         \A k \in H : k \in G \/ NamedIn(w, k),
         \A k : NamedIn(v, k) => NamedIn(w, k)
  PROVE  InHand(box, in, v, G)
  BY DEF InHand

LEMMA InHandReleased ==
  ASSUME NEW box, NEW in, NEW w, NEW H, InHand(box, in, w, H), NEW v,
         \A i \in DOMAIN box : box[i] # 0,
         \A k : NamedIn(v, k) => NamedIn(w, k) \/ k = in
  PROVE  InHand(box, 0, v, H)
  BY DEF InHand

-----------------------------------------------------------------------------
(***************************************************************************)
(* What the two ends of the connections, and the processes, agree on.      *)
(***************************************************************************)

LinkInv ==
  /\ \A c \in Conns : ~linked[c] => wire[c] = <<>>
  /\ \A c \in Lives : linked[c] => c <= life
  /\ \A c \in Lives : open[c] => c = life /\ proc # "down"
  /\ \A c \in Lives : inbox[c] # <<>> => c = life /\ proc # "down"
  /\ \A p \in Producers : linked[p] \/ open[p] => serving[p]
  /\ \A p \in Producers : \A i \in DOMAIN wire[p] : wire[p][i].op = "publish"
  /\ \A k \in DOMAIN copies :
       copies[k].st = "unacked" => copies[k].by \in Lives /\ linked[copies[k].by]

\* Reading one frame off a wire.
LEMMA ReadFacts ==
  ASSUME BrokerTypeOK, NEW c \in Conns, wire[c] # <<>>,
         wire' = [wire EXCEPT ![c] = Tail(@)]
  PROVE  /\ \A d \in Conns : d # c => wire'[d] = wire[d]
         /\ wire'[c] = Tail(wire[c])
         /\ \A i \in DOMAIN wire'[c] : \E j \in DOMAIN wire[c] : wire'[c][i] = wire[c][j]
<1>1. wire[c] \in Seq(Frame)
  BY DEF BrokerTypeOK
<1>2. wire'[c] = Tail(wire[c]) /\ \A d \in Conns : d # c => wire'[d] = wire[d]
  BY DEF BrokerTypeOK
<1>3. \A i \in DOMAIN Tail(wire[c]) : \E j \in DOMAIN wire[c] : Tail(wire[c])[i] = wire[c][j]
  BY <1>1, SeqTail
<1>. QED BY <1>2, <1>3

\* A new copy is ready, and the others are what they were.
LEMMA AppendFacts ==
  ASSUME BrokerTypeOK, NEW b \in Body,
         copies' = Append(copies, [body |-> b, st |-> "ready", by |-> NoConn])
  PROVE  /\ DOMAIN copies \subseteq DOMAIN copies'
         /\ \A k \in DOMAIN copies' :
              \/ k \in DOMAIN copies /\ copies'[k] = copies[k]
              \/ k \notin DOMAIN copies /\ copies'[k].st = "ready" /\ copies'[k].body = b
         /\ \E k \in DOMAIN copies' : copies'[k].body = b
         /\ \A c \in Lives : HeldBy(c)' = HeldBy(c)
<1>. DEFINE e == [body |-> b, st |-> "ready", by |-> NoConn]
<1>1. e \in Copy /\ e.st = "ready" /\ e.body = b
  BY DEF Copy
<1>2. copies' = Append(copies, e) /\ copies \in Seq(Copy)
  BY DEF BrokerTypeOK
<1>. HIDE DEF e
<1>3. /\ DOMAIN copies = 1..Len(copies) /\ DOMAIN copies' = 1..(Len(copies) + 1)
      /\ Len(copies) \in Nat
      /\ \A k \in DOMAIN copies : copies'[k] = copies[k]
      /\ copies'[Len(copies) + 1] = e
  BY <1>1, <1>2, SeqAppend, LenProperties
<1>4. \A k \in DOMAIN copies' :
        \/ k \in DOMAIN copies /\ copies'[k] = copies[k]
        \/ k \notin DOMAIN copies /\ copies'[k].st = "ready" /\ copies'[k].body = b
  BY <1>1, <1>3
<1>5. /\ DOMAIN copies \subseteq DOMAIN copies'
      /\ \E k \in DOMAIN copies' : copies'[k].body = b
  BY <1>1, <1>3
<1>. QED BY <1>3, <1>4, <1>5 DEF HeldBy

\* The broker reads a publish frame.
LEMMA PublishFacts ==
  ASSUME BrokerTypeOK, NEW c \in Conns, BrokerPublish(c)
  PROVE  /\ \A k \in DOMAIN copies' :
              \/ k \in DOMAIN copies /\ copies'[k] = copies[k]
              \/ /\ k \notin DOMAIN copies
                 /\ copies'[k].st = "ready" /\ copies'[k].body = Head(wire[c]).body
         /\ \E k \in DOMAIN copies' : copies'[k].body = Head(wire[c]).body
         /\ Head(wire[c]).op = "publish" /\ Head(wire[c]).body \in Body
         /\ \A d \in Lives : HeldBy(d)' = HeldBy(d)
         /\ wire[c] # <<>> /\ wire[c] \in Seq(Frame)
         /\ wire'[c] = Tail(wire[c])
         /\ \A d \in Conns : d # c => wire'[d] = wire[d]
<1>1. wire[c] \in Seq(Frame) /\ wire[c] # <<>>
  BY DEF BrokerTypeOK, BrokerPublish
<1>2. Head(wire[c]) \in Frame
  BY <1>1, SeqTail
<1>3. Head(wire[c]).body \in Body
  BY <1>2 DEF BrokerPublish, Frame, PublishFrame, SettleFrame
<1>. QED BY <1>1, <1>3, AppendFacts, ReadFacts DEF BrokerPublish

\* The broker reads a settlement of a copy it has.
LEMMA SettleFacts ==
  ASSUME BrokerTypeOK, NEW c \in Conns, BrokerSettle(c)
  PROVE  /\ DOMAIN copies' = DOMAIN copies
         /\ \A k \in DOMAIN copies :
              IF k = Head(wire[c]).copy THEN copies'[k].st = SettledAs(Head(wire[c]).op)
                                        ELSE copies'[k] = copies[k]
         /\ \A d \in Lives : HeldBy(d)' = HeldBy(d) \ {Head(wire[c]).copy}
         /\ wire[c] # <<>> /\ wire[c] \in Seq(Frame) /\ Head(wire[c]).op # "publish"
         /\ wire'[c] = Tail(wire[c])
         /\ \A d \in Conns : d # c => wire'[d] = wire[d]
<1>. DEFINE f == Head(wire[c])
            e == [copies[f.copy] EXCEPT !.st = SettledAs(f.op), !.by = NoConn]
<1>1. copies' = [copies EXCEPT ![f.copy] = e]
  BY DEF BrokerSettle
<1>2. f.copy \in DOMAIN copies => e \in Copy /\ e.st = SettledAs(f.op) /\ e.st # "unacked"
  <2>1. f.copy \in DOMAIN copies => copies[f.copy] \in Copy
    BY ElementOfSeq, LenProperties DEF BrokerTypeOK
  <2>. QED BY <2>1 DEF Copy, SettledAs
<1>3. wire[c] # <<>> /\ wire[c] \in Seq(Frame) /\ f.op # "publish"
  BY DEF BrokerTypeOK, BrokerSettle
<1>4. /\ DOMAIN copies' = DOMAIN copies
      /\ \A k \in DOMAIN copies : copies'[k] = IF k = f.copy THEN e ELSE copies[k]
  <2>. HIDE DEF e, f
  <2>. QED BY <1>1, <1>2, SeqExcept DEF BrokerTypeOK
<1>5. \A d \in Lives : HeldBy(d)' = HeldBy(d) \ {f.copy}
  <2>. HIDE DEF e, f
  <2>. QED BY <1>2, <1>4 DEF HeldBy
<1>6. /\ wire'[c] = Tail(wire[c])
      /\ \A d \in Conns : d # c => wire'[d] = wire[d]
  BY <1>3, ReadFacts DEF BrokerSettle
<1>. HIDE DEF e
<1>. QED BY <1>2, <1>3, <1>4, <1>5, <1>6

LEMMA DeliverFacts ==
  ASSUME BrokerTypeOK, NEW c \in Lives, NEW k \in DOMAIN copies, Deliver(c, k)
  PROVE  /\ DOMAIN copies' = DOMAIN copies
         /\ copies'[k].st = "unacked" /\ copies'[k].by = c
         /\ \A j \in DOMAIN copies : j # k => copies'[j] = copies[j]
         /\ \A d \in Lives : k \notin HeldBy(d)
         /\ \A d \in Lives : HeldBy(d)' = IF d = c THEN HeldBy(d) \cup {k} ELSE HeldBy(d)
<1>. DEFINE e == [copies[k] EXCEPT !.st = "unacked", !.by = c]
<1>1. e \in Copy /\ e.st = "unacked" /\ e.by = c
  <2>1. copies[k] \in Copy
    BY ElementOfSeq, LenProperties DEF BrokerTypeOK
  <2>. QED BY <2>1 DEF Copy
<1>2. copies' = [copies EXCEPT ![k] = e] /\ copies[k].st = "ready"
  BY DEF Deliver
<1>. HIDE DEF e
<1>3. /\ DOMAIN copies' = DOMAIN copies
      /\ \A j \in DOMAIN copies : copies'[j] = IF j = k THEN e ELSE copies[j]
  BY <1>1, <1>2, SeqExcept DEF BrokerTypeOK
<1>4. \A d \in Lives : k \notin HeldBy(d)
  BY <1>2 DEF HeldBy
<1>. QED BY <1>1, <1>3, <1>4 DEF HeldBy

LEMMA CloseFacts ==
  ASSUME BrokerTypeOK, NEW c \in Conns, BrokerClose(c)
  PROVE  /\ DOMAIN copies' = DOMAIN copies
         /\ \A k \in DOMAIN copies : IF k \in HeldBy(c) THEN copies'[k].st = "ready"
                                                        ELSE copies'[k] = copies[k]
         /\ \A d \in Lives : d # c => HeldBy(d)' = HeldBy(d)
         /\ wire'[c] = <<>> /\ ~linked'[c]
         /\ \A d \in Conns : d # c => wire'[d] = wire[d] /\ linked'[d] = linked[d]
<1>1. /\ DOMAIN copies' = DOMAIN copies
      /\ \A k \in DOMAIN copies : IF k \in HeldBy(c) THEN copies'[k].st = "ready"
                                                     ELSE copies'[k] = copies[k]
  <2>1. \A k \in DOMAIN copies : copies[k] \in Copy
    BY ElementOfSeq, LenProperties DEF BrokerTypeOK
  <2>. QED BY <2>1 DEF BrokerClose, Requeue, Copy
<1>2. \A d \in Lives : d # c => HeldBy(d)' = HeldBy(d)
  BY <1>1 DEF HeldBy
<1>. QED BY <1>1, <1>2 DEF BrokerClose, BrokerTypeOK

-----------------------------------------------------------------------------
(* The links stay in agreement. *)

LEMMA ConnsApart == \A p \in Producers, c \in Lives : p # c
  BY BrokerAssumption

LEMMA LinkInit == Init => LinkInv
  BY ConnsApart DEF Init, BrokerInit, LinkInv

LEMMA LinkBroker ==
  ASSUME TypeOK, LinkInv, BrokerStep
  PROVE  LinkInv'
<1>. BrokerTypeOK /\ UNCHANGED <<life, proc, serving>>
  BY DEF TypeOK, BrokerStep, workerVars, producerVars
<1>1. CASE \E c \in Conns : BrokerPublish(c)
  <2>. PICK c \in Conns : BrokerPublish(c)
    BY <1>1
  <2>1. /\ \A k \in DOMAIN copies' :
              \/ k \in DOMAIN copies /\ copies'[k] = copies[k]
              \/ k \notin DOMAIN copies /\ copies'[k].st = "ready"
        /\ wire[c] # <<>>
    BY PublishFacts
  <2>2. /\ UNCHANGED <<linked, open, inbox>>
        /\ wire' = [wire EXCEPT ![c] = Tail(@)]
    BY DEF BrokerPublish
  <2>3. /\ \A d \in Conns : d # c => wire'[d] = wire[d]
        /\ \A i \in DOMAIN wire'[c] : \E j \in DOMAIN wire[c] : wire'[c][i] = wire[c][j]
    BY <2>1, <2>2, ReadFacts
  <2>. QED BY <2>1, <2>2, <2>3 DEF LinkInv
<1>2. CASE \E c \in Conns : BrokerSettle(c)
  <2>. PICK c \in Conns : BrokerSettle(c)
    BY <1>2
  <2>1. /\ DOMAIN copies' = DOMAIN copies
        /\ \A k \in DOMAIN copies : copies'[k].st = "unacked" => copies'[k] = copies[k]
        /\ wire[c] # <<>>
    BY SettleFacts DEF SettledAs
  <2>2. /\ UNCHANGED <<linked, open, inbox>>
        /\ wire' = [wire EXCEPT ![c] = Tail(@)]
    BY DEF BrokerSettle
  <2>3. /\ \A d \in Conns : d # c => wire'[d] = wire[d]
        /\ \A i \in DOMAIN wire'[c] : \E j \in DOMAIN wire[c] : wire'[c][i] = wire[c][j]
    BY <2>1, <2>2, ReadFacts
  <2>. QED BY <2>1, <2>2, <2>3 DEF LinkInv
<1>3. CASE \E c \in Lives, k \in DOMAIN copies : Deliver(c, k)
  <2>. PICK c \in Lives, k \in DOMAIN copies : Deliver(c, k)
    BY <1>3
  <2>1. /\ DOMAIN copies' = DOMAIN copies
        /\ copies'[k].by = c
        /\ \A j \in DOMAIN copies : j # k => copies'[j] = copies[j]
    BY DeliverFacts
  <2>2. UNCHANGED <<wire, linked, open>> /\ linked[c]
    BY DEF Deliver
  <2>3. \A d \in Lives : inbox'[d] = inbox[d] \/ (d = c /\ open[c])
    BY DEF Deliver, BrokerTypeOK
  <2>. QED BY <2>1, <2>2, <2>3 DEF LinkInv
<1>. QED BY <1>1, <1>2, <1>3 DEF BrokerStep

LEMMA LinkLinks ==
  ASSUME TypeOK, LinkInv, LinkStep
  PROVE  LinkInv'
<1>. BrokerTypeOK /\ UNCHANGED <<life, proc, serving>>
  BY DEF TypeOK, LinkStep, workerVars, producerVars
<1>1. PICK c \in Conns : BrokerClose(c) \/ ClientClose(c)
  BY DEF LinkStep, BreakByBroker, BreakByClient, FinishClose
<1>2. CASE BrokerClose(c)
  <2>1. /\ DOMAIN copies' = DOMAIN copies
        /\ \A k \in DOMAIN copies : IF k \in HeldBy(c) THEN copies'[k].st = "ready"
                                                       ELSE copies'[k] = copies[k]
        /\ wire'[c] = <<>> /\ ~linked'[c]
        /\ \A d \in Conns : d # c => wire'[d] = wire[d] /\ linked'[d] = linked[d]
    BY <1>2, CloseFacts
  <2>2. UNCHANGED <<open, inbox>>
    BY <1>2 DEF BrokerClose
  <2>3. \A k \in DOMAIN copies' : copies'[k].st = "unacked" =>
          copies'[k] = copies[k] /\ copies[k].by # c
    BY <2>1 DEF HeldBy
  <2>4. \A i \in DOMAIN wire'[c] : wire'[c][i].op = "publish"
    BY <2>1
  <2>. QED BY <2>1, <2>2, <2>3, <2>4 DEF LinkInv
<1>3. CASE ClientClose(c)
  BY <1>3 DEF ClientClose, BrokerTypeOK, LinkInv
<1>. QED BY <1>1, <1>2, <1>3

\* The worker writes on its own connection, and only while both ends hold it.
LEMMA LinkSend ==
  ASSUME BrokerTypeOK, LinkInv, life \in Lives, NEW f \in Frame, Send(life, f),
         UNCHANGED <<copies, linked, open, life, serving>>,
         proc # "down", proc' # "down",
         \A c \in Lives : c # life => inbox'[c] = inbox[c]
  PROVE  LinkInv'
<1>1. /\ \A d \in Conns : d # life => wire'[d] = wire[d]
      /\ ~linked[life] => wire'[life] = wire[life]
  BY SendTyped
<1>. QED BY <1>1, ConnsApart DEF LinkInv

LEMMA LinkWorker ==
  ASSUME TypeOK, LinkInv, WorkerStep
  PROVE  LinkInv'
<1>. /\ BrokerTypeOK /\ WorkerTypeOK /\ UNCHANGED serving
     /\ life \in Nat
  BY BrokerAssumption DEF TypeOK, WorkerStep, producerVars, WorkerTypeOK
<1>1. CASE WorkerStart
  <2>1. life + 1 \in Lives /\ \A c \in Lives : c \in Nat
    BY <1>1, BrokerAssumption DEF WorkerStart, Lives
  <2>2. \A c \in Conns : /\ linked'[c] = (c = life + 1 \/ linked[c])
                         /\ open'[c] = (c = life + 1 \/ open[c])
    BY <1>1, <2>1 DEF WorkerStart, Connect, BrokerTypeOK
  <2>3. /\ UNCHANGED <<copies, wire, inbox>>
        /\ life' = life + 1 /\ proc = "down" /\ proc' = "idle"
    BY <1>1 DEF WorkerStart
  <2>4. \A c \in Lives : linked'[c] => c <= life'
    <3>1. \A c \in Lives : linked'[c] => c = life + 1 \/ c <= life
      BY <2>2 DEF LinkInv
    <3>. QED BY <2>1, <2>3, <3>1
  <2>5. \A c \in Lives : (open'[c] => c = life') /\ inbox'[c] = <<>>
    BY <2>1, <2>2, <2>3 DEF LinkInv
  <2>6. \A p \in Producers : linked'[p] \/ open'[p] => serving'[p]
    BY <2>1, <2>2, <2>3, ConnsApart DEF LinkInv
  <2>7. \A c \in Conns : ~linked'[c] => wire'[c] = <<>>
    BY <2>2, <2>3 DEF LinkInv
  <2>8. \A c \in Lives : linked[c] => linked'[c]
    BY <2>2
  <2>. QED BY <2>3, <2>4, <2>5, <2>6, <2>7, <2>8 DEF LinkInv
<1>2. CASE WorkerExit \/ WorkerCrash
  <2>1. /\ life \in Lives
        /\ UNCHANGED <<copies, wire, linked, life>>
        /\ proc # "down"
    BY <1>2, LifeIsConn DEF WorkerExit, WorkerCrash
  <2>2. \A c \in Lives : inbox'[c] = IF c = life THEN <<>> ELSE inbox[c]
    BY <1>2, <2>1 DEF WorkerExit, WorkerCrash, BrokerTypeOK
  <2>3. \A c \in Conns : open'[c] => c # life /\ open[c]
    BY <1>2, <2>1 DEF WorkerExit, WorkerCrash, BrokerTypeOK
  <2>4. /\ \A c \in Lives : ~open'[c]
        /\ \A c \in Lives : inbox'[c] = <<>>
    BY <2>2, <2>3 DEF LinkInv
  <2>. QED BY <2>1, <2>3, <2>4 DEF LinkInv
<1>3. CASE RejectInvalid \/ AckDuplicate \/ BeginProcessing
  <2>1. Take
    BY <1>3 DEF RejectInvalid, AckDuplicate, BeginProcessing
  <2>2. life \in Lives /\ Incoming \in Nat
    BY <2>1, TakeTyped
  <2>3. /\ UNCHANGED <<copies, linked, open, life>>
        /\ proc # "down" /\ proc' # "down"
        /\ \A c \in Lives : c # life => inbox'[c] = inbox[c]
    BY <1>3, <2>1, <2>2 DEF Take, RejectInvalid, AckDuplicate, BeginProcessing, BrokerTypeOK
  <2>4. CASE RejectInvalid
    BY <2>2, <2>3, <2>4, FramesTyped, LinkSend DEF RejectInvalid, Nack
  <2>5. CASE AckDuplicate
    BY <2>2, <2>3, <2>5, FramesTyped, LinkSend DEF AckDuplicate, Ack
  <2>6. CASE BeginProcessing
    <3>1. UNCHANGED wire
      BY <2>6 DEF BeginProcessing
    <3>. QED BY <2>2, <2>3, <3>1 DEF LinkInv
  <2>. QED BY <1>3, <2>4, <2>5, <2>6
<1>4. CASE \/ ProcessSucceeds \/ AckProcessed \/ DeadLetter
           \/ Republish \/ RepublishFails \/ AckRepublished
  <2>1. proc \in {"processing", "processed", "republished"}
    BY <1>4 DEF ProcessSucceeds, AckProcessed, DeadLetter, Republish, RepublishFails, AckRepublished
  <2>2. /\ life \in Lives /\ cur \in Nat
        /\ NextAttempt(Job) \in Body
    BY <2>1, InHandTyped DEF WorkerTypeOK
  <2>3. /\ UNCHANGED <<copies, linked, open, inbox, life>>
        /\ proc # "down" /\ proc' # "down"
    BY <1>4 DEF ProcessSucceeds, AckProcessed, DeadLetter, Republish, RepublishFails,
                AckRepublished, Finished
  <2>4. CASE ProcessSucceeds \/ RepublishFails
    <3>1. UNCHANGED wire
      BY <2>4 DEF ProcessSucceeds, RepublishFails
    <3>. QED BY <2>3, <3>1 DEF LinkInv
  <2>5. CASE AckProcessed \/ AckRepublished
    BY <2>2, <2>3, <2>5, FramesTyped, LinkSend DEF AckProcessed, AckRepublished, Ack
  <2>6. CASE DeadLetter
    BY <2>2, <2>3, <2>6, FramesTyped, LinkSend DEF DeadLetter, Nack
  <2>7. CASE Republish
    BY <2>2, <2>3, <2>7, FramesTyped, LinkSend DEF Republish
  <2>. QED BY <1>4, <2>4, <2>5, <2>6, <2>7
<1>. QED BY <1>1, <1>2, <1>3, <1>4 DEF WorkerStep, Handle

LEMMA LinkPublishers ==
  ASSUME TypeOK, LinkInv, ProducerStep \/ ForeignStep
  PROVE  LinkInv'
<1>. BrokerTypeOK /\ ProducerTypeOK /\ UNCHANGED <<life, proc>>
  BY DEF TypeOK, ProducerStep, ForeignStep, workerVars
<1>1. ASSUME NEW p \in Producers, StartService(p)
      PROVE  LinkInv'
  <2>1. /\ \A c \in Conns : c # p => linked'[c] = linked[c] /\ open'[c] = open[c]
        /\ linked[p] => linked'[p]
        /\ UNCHANGED <<copies, wire, inbox>>
        /\ serving'[p] /\ \A q \in Producers : serving[q] => serving'[q]
    BY <1>1 DEF StartService, Connect, BrokerTypeOK, ProducerTypeOK
  <2>. QED BY <1>1, <2>1, ConnsApart DEF LinkInv
<1>2. ASSUME NEW p \in Producers, NEW m \in MsgIds, NEW t \in Tasks, EnqueueProcessTask(p, m, t)
      PROVE  LinkInv'
  <2>. DEFINE f == [op |-> "publish", body |-> [mid |-> m, task |-> t, attempt |-> 1]]
  <2>1. f \in Frame /\ f.op = "publish"
    BY FramesTyped DEF Body, ProcessTaskJob
  <2>2. Send(p, f)
    BY <1>2 DEF EnqueueProcessTask, NewJob
  <2>3. UNCHANGED <<copies, linked, open, inbox, serving>>
    BY <1>2 DEF EnqueueProcessTask
  <2>. HIDE DEF f
  <2>4. /\ \A d \in Conns : d # p => wire'[d] = wire[d]
        /\ wire'[p] = IF open[p] /\ linked[p] THEN Append(wire[p], f) ELSE wire[p]
    BY <1>2, <2>1, <2>2, SendTyped
  <2>5. (\A i \in DOMAIN wire[p] : wire[p][i].op = "publish")
           => \A i \in DOMAIN wire'[p] : wire'[p][i].op = "publish"
    <3>1. wire[p] \in Seq(Frame)
      BY <1>2 DEF BrokerTypeOK
    <3>2. \A i \in DOMAIN Append(wire[p], f) :
            (i \in DOMAIN wire[p] /\ Append(wire[p], f)[i] = wire[p][i]) \/ Append(wire[p], f)[i] = f
      BY <2>1, <3>1, SeqAppend, LenProperties
    <3>. QED BY <2>1, <2>4, <3>2
  <2>6. /\ \A q \in Producers : q # p => wire'[q] = wire[q]
        /\ \A c \in Lives : wire'[c] = wire[c]
    BY <1>2, <2>4, ConnsApart
  <2>7. \A d \in Conns : ~linked[d] => wire'[d] = wire[d]
    BY <2>4
  <2>8. \A q \in Producers : \A i \in DOMAIN wire'[q] : wire'[q][i].op = "publish"
    BY <2>5, <2>6 DEF LinkInv
  <2>. QED BY <2>3, <2>7, <2>8 DEF LinkInv
<1>3. ASSUME NEW b \in ForeignBodies, ForeignPublish(b)
      PROVE  LinkInv'
  <2>1. b \in Body
    BY PipelineAssumption
  <2>2. \A k \in DOMAIN copies' :
          \/ k \in DOMAIN copies /\ copies'[k] = copies[k]
          \/ k \notin DOMAIN copies /\ copies'[k].st = "ready"
    BY <1>3, <2>1, AppendFacts DEF ForeignPublish
  <2>3. UNCHANGED <<wire, linked, open, inbox, serving>>
    BY <1>3 DEF ForeignPublish
  <2>. QED BY <2>2, <2>3 DEF LinkInv
<1>. QED BY <1>1, <1>2, <1>3 DEF ProducerStep, ForeignStep

LEMMA LinkStepKept == TypeOK /\ LinkInv /\ [Next]_vars => LinkInv'
<1>1. TypeOK /\ LinkInv /\ UNCHANGED vars => LinkInv'
  BY DEF LinkInv, vars, brokerVars, workerVars, producerVars
<1>. QED BY <1>1, LinkBroker, LinkLinks, LinkWorker, LinkPublishers DEF Next

-----------------------------------------------------------------------------
(***************************************************************************)
(* Settlements.                                                            *)
(*                                                                         *)
(* SettlementsValid is not inductive: that the next settlement will be     *)
(* valid too depends on what the worker has in hand being unacked on its   *)
(* connection and not yet settled by a frame on the wire.                  *)
(***************************************************************************)

Carried == life # 0 /\ linked[life] => InHand(inbox[life], cur, wire[life], HeldBy(life))

SettleInv == SettlementsValid /\ Carried

LEMMA ValidByLife == SettlementsValid <=> \A c \in Lives : ValidIn(wire[c], HeldBy(c))
  BY DEF SettlementsValid, ValidIn

LEMMA ValidByLifeNext ==
  SettlementsValid' <=> \A c \in Lives : ValidIn(wire'[c], HeldBy(c)')
  BY DEF SettlementsValid, ValidIn, HeldBy

LEMMA InHandEmpty == \A w, H : InHand(<<>>, 0, w, H)
  BY DEF InHand

LEMMA LifeRange ==
  ASSUME TypeOK, life # 0
  PROVE  life \in Lives
  BY BrokerAssumption DEF TypeOK, WorkerTypeOK, Lives

\* Nothing the settlements depend on changes.
LEMMA SettleKept ==
  ASSUME TypeOK, SettleInv, UNCHANGED <<life, cur>>,
         \A c \in Lives : /\ wire'[c] = wire[c] /\ inbox'[c] = inbox[c]
                          /\ linked'[c] = linked[c] /\ HeldBy(c)' = HeldBy(c)
  PROVE  SettleInv'
<1>1. \A c \in Lives : ValidIn(wire'[c], HeldBy(c)')
  BY ValidByLife DEF SettleInv
<1>2. life' # 0 /\ linked'[life'] =>
        InHand(inbox'[life'], cur', wire'[life'], HeldBy(life)')
  BY LifeRange DEF SettleInv, Carried
<1>. QED BY <1>1, <1>2, ValidByLifeNext DEF SettleInv, Carried

LEMMA SettleInit == Init => SettleInv
<1>. SUFFICES ASSUME Init PROVE SettleInv
  OBVIOUS
<1>1. \A c \in Lives : ValidIn(wire[c], HeldBy(c))
  BY ValidEmpty DEF Init, BrokerInit
<1>2. life = 0
  BY DEF Init, WorkerInit
<1>. QED BY <1>1, <1>2, ValidByLife DEF SettleInv, Carried

\* The broker reads a settlement: it is valid, so the copy is held by the
\* connection that named it and by no other.
LEMMA SettleBroker ==
  ASSUME TypeOK, LinkInv, SettleInv, BrokerStep
  PROVE  SettleInv'
<1>. BrokerTypeOK /\ UNCHANGED <<life, cur>>
  BY DEF TypeOK, BrokerStep, workerVars
<1>1. \A c \in Lives : ValidIn(wire[c], HeldBy(c)) /\ wire[c] \in Seq(Frame)
  BY ValidByLife DEF SettleInv, BrokerTypeOK
<1>2. life # 0 => life \in Lives
  BY LifeRange
<1>3. CASE \E c \in Conns : BrokerPublish(c)
  <2>. PICK c \in Conns : BrokerPublish(c)
    BY <1>3
  <2>1. /\ \A d \in Lives : HeldBy(d)' = HeldBy(d)
        /\ wire[c] # <<>>
        /\ wire'[c] = Tail(wire[c])
        /\ \A d \in Conns : d # c => wire'[d] = wire[d]
    BY PublishFacts
  <2>2. UNCHANGED <<linked, open, inbox>>
    BY DEF BrokerPublish
  <2>3. \A d \in Lives : /\ ValidIn(wire'[d], HeldBy(d))
                         /\ \A k : NamedIn(wire'[d], k) => NamedIn(wire[d], k)
    <3>1. CASE c \in Lives
      <4>1. /\ ValidIn(wire'[c], HeldBy(c))
            /\ \A k : NamedIn(wire'[c], k) => NamedIn(wire[c], k)
        <5>. DEFINE w == wire[c]
                    H == HeldBy(c)
        <5>1. w \in Seq(Frame) /\ w # <<>> /\ ValidIn(w, H)
          BY <1>1, <2>1, <3>1
        <5>2. ValidIn(Tail(w), H) /\ \A k : NamedIn(Tail(w), k) => NamedIn(w, k)
          <6>. HIDE DEF w, H
          <6>. QED BY <5>1, ValidTail
        <5>. QED BY <2>1, <5>2
      <4>. QED BY <1>1, <2>1, <4>1
    <3>2. CASE c \notin Lives
      BY <1>1, <2>1, <3>2
    <3>. QED BY <3>1, <3>2
  <2>4. life # 0 /\ linked[life] => InHand(inbox[life], cur, wire'[life], HeldBy(life))
    BY <1>2, <2>3, InHandKept DEF SettleInv, Carried
  <2>. QED BY <1>2, <2>1, <2>2, <2>3, <2>4, ValidByLifeNext DEF SettleInv, Carried
<1>4. CASE \E c \in Conns : BrokerSettle(c)
  <2>. PICK c \in Conns : BrokerSettle(c)
    BY <1>4
  <2>. DEFINE k == Head(wire[c]).copy
  <2>1. /\ \A d \in Lives : HeldBy(d)' = HeldBy(d) \ {k}
        /\ wire[c] # <<>> /\ Head(wire[c]).op # "publish"
        /\ wire'[c] = Tail(wire[c])
        /\ \A d \in Conns : d # c => wire'[d] = wire[d]
    BY SettleFacts
  <2>2. UNCHANGED <<linked, open, inbox>>
    BY DEF BrokerSettle
  <2>3. c \in Lives
    <3>1. Head(wire[c]) = wire[c][1] /\ 1 \in DOMAIN wire[c]
      BY <2>1, SeqTail DEF BrokerTypeOK
    <3>. QED BY <2>1, <3>1 DEF LinkInv
  <2>4. /\ k \in HeldBy(c) /\ NamedIn(wire[c], k)
        /\ ValidIn(wire'[c], HeldBy(c) \ {k})
        /\ \A j : NamedIn(wire'[c], j) => NamedIn(wire[c], j)
    <3>. DEFINE w == wire[c]
                H == HeldBy(c)
    <3>1. w \in Seq(Frame) /\ w # <<>> /\ ValidIn(w, H) /\ Head(w).op # "publish"
      BY <1>1, <2>1, <2>3
    <3>2. /\ Head(w).copy \in H /\ NamedIn(w, Head(w).copy)
          /\ ValidIn(Tail(w), H \ {Head(w).copy})
          /\ \A j : NamedIn(Tail(w), j) => NamedIn(w, j)
      <4>. HIDE DEF w, H
      <4>. QED BY <3>1, ValidTail
    <3>. QED BY <2>1, <3>2
  <2>5. \A d \in Lives : d # c => k \notin HeldBy(d)
    BY <2>4 DEF HeldBy
  <2>. HIDE DEF k
  <2>6. \A d \in Lives : d # c => HeldBy(d)' = HeldBy(d) /\ wire'[d] = wire[d]
    BY <2>1, <2>5
  <2>7. \A d \in Lives : ValidIn(wire'[d], HeldBy(d)')
    BY <1>1, <2>1, <2>3, <2>4, <2>6
  <2>8. life # 0 /\ linked[life] => InHand(inbox[life], cur, wire'[life], HeldBy(life)')
    <3>1. CASE life = c
      <4>1. \A j \in HeldBy(c) : j \in HeldBy(c) \ {k} \/ NamedIn(wire[c], j)
        BY <2>4
      <4>. QED BY <2>1, <2>3, <2>4, <3>1, <4>1, InHandKept DEF SettleInv, Carried
    <3>2. CASE life # c
      BY <1>2, <2>6, <3>2 DEF SettleInv, Carried
    <3>. QED BY <3>1, <3>2
  <2>. QED BY <1>2, <2>2, <2>7, <2>8, ValidByLifeNext DEF SettleInv, Carried
<1>5. CASE \E c \in Lives, k \in DOMAIN copies : Deliver(c, k)
  <2>. PICK c \in Lives, k \in DOMAIN copies : Deliver(c, k)
    BY <1>5
  <2>1. /\ \A d \in Lives : k \notin HeldBy(d)
        /\ \A d \in Lives : HeldBy(d)' = IF d = c THEN HeldBy(d) \cup {k} ELSE HeldBy(d)
    BY DeliverFacts
  <2>2. UNCHANGED <<wire, linked, open>>
    BY DEF Deliver
  <2>3. /\ inbox'[c] = IF open[c] THEN Append(inbox[c], k) ELSE inbox[c]
        /\ \A d \in Lives : d # c => inbox'[d] = inbox[d]
        /\ inbox[c] \in Seq(DOMAIN copies)
    BY DEF Deliver, BrokerTypeOK
  <2>4. k # 0
    BY LenProperties DEF BrokerTypeOK
  <2>5. \A d \in Lives : ValidIn(wire'[d], HeldBy(d)')
    BY <1>1, <2>1, <2>2, ValidWiden
  <2>6. life # 0 /\ linked[life] => InHand(inbox'[life], cur, wire[life], HeldBy(life)')
    <3>. SUFFICES ASSUME life # 0, linked[life]
                  PROVE  InHand(inbox'[life], cur, wire[life], HeldBy(life)')
      OBVIOUS
    <3>0. InHand(inbox[life], cur, wire[life], HeldBy(life)) /\ life \in Lives
      BY <1>2 DEF SettleInv, Carried
    <3>1. CASE life = c /\ open[c]
      <4>1. InHand(Append(inbox[c], k), cur, wire[c], HeldBy(c) \cup {k})
        BY <1>1, <2>1, <2>3, <2>4, <3>0, <3>1, InHandDeliver
      <4>. QED BY <2>1, <2>3, <3>1, <4>1
    <3>2. CASE life = c /\ ~open[c]
      <4>1. InHand(inbox[c], cur, wire[c], HeldBy(c) \cup {k})
        BY <3>0, <3>2, InHandKept
      <4>. QED BY <2>1, <2>3, <3>2, <4>1
    <3>3. CASE life # c
      BY <2>1, <2>3, <3>0, <3>3
    <3>. QED BY <3>1, <3>2, <3>3
  <2>. QED BY <1>2, <2>2, <2>5, <2>6, ValidByLifeNext DEF SettleInv, Carried
<1>. QED BY <1>3, <1>4, <1>5 DEF BrokerStep

LEMMA SettleLinks ==
  ASSUME TypeOK, LinkInv, SettleInv, LinkStep
  PROVE  SettleInv'
<1>. BrokerTypeOK /\ UNCHANGED <<life, cur>>
  BY DEF TypeOK, LinkStep, workerVars
<1>1. PICK c \in Conns : BrokerClose(c) \/ ClientClose(c)
  BY DEF LinkStep, BreakByBroker, BreakByClient, FinishClose
<1>2. CASE BrokerClose(c)
  <2>1. /\ \A d \in Lives : d # c => HeldBy(d)' = HeldBy(d)
        /\ wire'[c] = <<>> /\ ~linked'[c]
        /\ \A d \in Conns : d # c => wire'[d] = wire[d] /\ linked'[d] = linked[d]
    BY <1>2, CloseFacts
  <2>2. UNCHANGED <<open, inbox>>
    BY <1>2 DEF BrokerClose
  <2>3. \A d \in Lives : ValidIn(wire'[d], HeldBy(d)')
    BY <2>1, ValidEmpty, ValidByLife DEF SettleInv
  <2>4. life # 0 /\ linked'[life] => InHand(inbox[life], cur, wire'[life], HeldBy(life)')
    BY <2>1, LifeRange DEF SettleInv, Carried
  <2>. QED BY <2>2, <2>3, <2>4, ValidByLifeNext DEF SettleInv, Carried
<1>3. CASE ClientClose(c)
  BY <1>3, SettleKept DEF ClientClose, HeldBy
<1>. QED BY <1>1, <1>2, <1>3

\* The worker writes frame f: on a connection the broker holds, f settles a copy
\* in hand or settles nothing.
LEMMA SettleSend ==
  ASSUME TypeOK, SettleInv, life \in Lives, NEW f \in Frame, Send(life, f),
         UNCHANGED <<copies, linked, open, life>>,
         f.op # "publish" /\ linked[life] =>
           f.copy \in HeldBy(life) /\ ~NamedIn(wire[life], f.copy)
  PROVE  /\ SettlementsValid'
         /\ HeldBy(life)' = HeldBy(life)
         /\ \A k : NamedIn(wire'[life], k) =>
                     NamedIn(wire[life], k) \/ (f.op # "publish" /\ k = f.copy)
<1>. BrokerTypeOK
  BY DEF TypeOK
<1>. DEFINE w == wire[life]
            H == HeldBy(life)
<1>1. /\ \A d \in Lives : d # life => wire'[d] = wire[d]
      /\ wire'[life] = IF open[life] /\ linked[life] THEN Append(w, f) ELSE w
  BY SendTyped
<1>2. \A d \in Lives : HeldBy(d)' = HeldBy(d)
  BY DEF HeldBy
<1>3. w \in Seq(Frame) /\ ValidIn(w, H)
  BY ValidByLife DEF BrokerTypeOK, SettleInv
<1>4. linked[life] =>
        /\ ValidIn(Append(w, f), H)
        /\ \A k : NamedIn(Append(w, f), k) => NamedIn(w, k) \/ (f.op # "publish" /\ k = f.copy)
  <2>. HIDE DEF w, H
  <2>1. f.op # "publish" /\ linked[life] => f.copy \in H /\ ~NamedIn(w, f.copy)
    BY DEF w, H
  <2>. QED BY <1>3, <2>1, ValidAppend
<1>5. \A d \in Lives : ValidIn(wire'[d], HeldBy(d)')
  BY <1>1, <1>2, <1>3, <1>4, ValidByLife DEF SettleInv
<1>. QED BY <1>1, <1>2, <1>4, <1>5, ValidByLifeNext

LEMMA InboxNonzero ==
  ASSUME BrokerTypeOK, NEW c \in Lives
  PROVE  \A i \in DOMAIN inbox[c] : inbox[c][i] # 0
<1>1. inbox[c] \in Seq(DOMAIN copies) /\ 0 \notin DOMAIN copies
  BY LenProperties DEF BrokerTypeOK
<1>. QED BY <1>1, ElementOfSeq, LenProperties

LEMMA SettleTake ==
  ASSUME TypeOK, LinkInv, SettleInv, RejectInvalid \/ AckDuplicate \/ BeginProcessing
  PROVE  SettleInv'
<1>. BrokerTypeOK /\ WorkerTypeOK
  BY DEF TypeOK
<1>1. Take
  BY DEF RejectInvalid, AckDuplicate, BeginProcessing
<1>2. life \in Lives /\ Incoming \in Nat /\ Incoming # 0
  BY <1>1, TakeTyped
<1>3. /\ UNCHANGED <<copies, linked, open, life>>
      /\ inbox'[life] = Tail(inbox[life])
      /\ cur = 0
  BY <1>1, <1>2 DEF Take, BrokerTypeOK, WorkerTypeOK
<1>. DEFINE box == inbox[life]
            w == wire[life]
            H == HeldBy(life)
<1>4. life # 0
  BY <1>2, BrokerAssumption DEF Lives
<1>5. linked[life] => /\ InHand(Tail(box), Incoming, w, H)
                      /\ Incoming \in H /\ ~NamedIn(w, Incoming)
  <2>. SUFFICES ASSUME linked[life]
                PROVE  /\ InHand(Tail(box), Head(box), w, H)
                       /\ Head(box) \in H /\ ~NamedIn(w, Head(box))
    BY DEF Incoming
  <2>1. InHand(box, 0, w, H)
    BY <1>3, <1>4 DEF SettleInv, Carried
  <2>2. box \in Seq(DOMAIN copies) /\ box # <<>> /\ 0 \notin DOMAIN copies
    BY <1>1, <1>2, LenProperties DEF Take, BrokerTypeOK
  <2>. HIDE DEF box, w, H
  <2>. QED BY <2>1, <2>2, InHandTake
<1>6. \A i \in DOMAIN Tail(box) : Tail(box)[i] # 0
  <2>1. box \in Seq(DOMAIN copies) /\ box # <<>>
    BY <1>1, <1>2 DEF Take, BrokerTypeOK
  <2>2. \A i \in DOMAIN box : box[i] # 0
    BY <1>2, InboxNonzero
  <2>. HIDE DEF box
  <2>. QED BY <2>1, <2>2, SeqTail
<1>7. ASSUME NEW f \in Frame, f.op # "publish", f.copy = Incoming, Send(life, f), cur' = cur
      PROVE  SettleInv'
  <2>1. /\ SettlementsValid'
        /\ HeldBy(life)' = H
        /\ \A k : NamedIn(wire'[life], k) => NamedIn(w, k) \/ k = Incoming
    BY <1>2, <1>3, <1>5, <1>7, SettleSend
  <2>2. linked[life] => InHand(Tail(box), 0, wire'[life], H)
    BY <1>5, <1>6, <2>1, InHandReleased
  <2>. QED BY <1>3, <1>7, <2>1, <2>2 DEF SettleInv, Carried
<1>8. CASE RejectInvalid
  BY <1>2, <1>7, <1>8, FramesTyped DEF RejectInvalid, Nack
<1>9. CASE AckDuplicate
  BY <1>2, <1>7, <1>9, FramesTyped DEF AckDuplicate, Ack
<1>10. CASE BeginProcessing
  <2>1. UNCHANGED wire /\ cur' = Incoming
    BY <1>10 DEF BeginProcessing
  <2>2. \A d \in Lives : HeldBy(d)' = HeldBy(d)
    BY <1>3 DEF HeldBy
  <2>3. SettlementsValid'
    BY <2>1, <2>2, ValidByLife, ValidByLifeNext DEF SettleInv
  <2>4. HeldBy(life)' = H
    BY <1>2, <1>3, <2>2
  <2>. QED BY <1>3, <1>5, <2>1, <2>3, <2>4 DEF SettleInv, Carried
<1>. QED BY <1>8, <1>9, <1>10

LEMMA SettleFinish ==
  ASSUME TypeOK, LinkInv, SettleInv,
         \/ ProcessSucceeds \/ AckProcessed \/ DeadLetter
         \/ Republish \/ RepublishFails \/ AckRepublished
  PROVE  SettleInv'
<1>. BrokerTypeOK /\ WorkerTypeOK
  BY DEF TypeOK
<1>1. proc \in {"processing", "processed", "republished"}
  BY DEF ProcessSucceeds, AckProcessed, DeadLetter, Republish, RepublishFails, AckRepublished
<1>2. life \in Lives /\ cur \in Nat /\ cur # 0 /\ NextAttempt(Job) \in Body
  BY <1>1, InHandTyped DEF WorkerTypeOK
<1>3. life # 0
  BY <1>2, BrokerAssumption DEF Lives
<1>4. UNCHANGED <<copies, linked, open, inbox, life>> /\ cur' \in {0, cur}
  BY DEF ProcessSucceeds, AckProcessed, DeadLetter, Republish, RepublishFails,
         AckRepublished, Finished
<1>. DEFINE box == inbox[life]
            w == wire[life]
            H == HeldBy(life)
<1>5. linked[life] => InHand(box, cur, w, H)
  BY <1>3 DEF SettleInv, Carried
<1>6. \A i \in DOMAIN box : box[i] # 0
  BY <1>2, InboxNonzero
<1>8. ASSUME NEW f \in Frame, f.op # "publish", f.copy = cur, Send(life, f), cur' = 0
      PROVE  SettleInv'
  <2>1. /\ SettlementsValid'
        /\ HeldBy(life)' = H
        /\ \A k : NamedIn(wire'[life], k) => NamedIn(w, k) \/ k = cur
    BY <1>2, <1>4, <1>5, <1>8, SettleSend DEF InHand
  <2>2. linked[life] => InHand(box, 0, wire'[life], H)
    BY <1>5, <1>6, <2>1, InHandReleased
  <2>. QED BY <1>4, <1>8, <2>1, <2>2 DEF SettleInv, Carried
<1>9. CASE AckProcessed \/ AckRepublished
  BY <1>2, <1>8, <1>9, FramesTyped DEF AckProcessed, AckRepublished, Ack, Finished
<1>10. CASE DeadLetter
  BY <1>2, <1>8, <1>10, FramesTyped DEF DeadLetter, Nack, Finished
<1>11. CASE Republish
  <2>. DEFINE f == [op |-> "publish", body |-> NextAttempt(Job)]
  <2>1. f \in Frame /\ f.op = "publish"
    BY <1>2, FramesTyped
  <2>2. Send(life, f) /\ cur' = cur
    BY <1>11 DEF Republish, Finished
  <2>. HIDE DEF f
  <2>3. /\ SettlementsValid'
        /\ HeldBy(life)' = H
        /\ \A k : NamedIn(wire'[life], k) => NamedIn(w, k)
    BY <1>2, <1>4, <2>1, <2>2, SettleSend
  <2>4. linked[life] => InHand(box, cur, wire'[life], H)
    BY <1>5, <2>3, InHandKept
  <2>. QED BY <1>4, <2>2, <2>3, <2>4 DEF SettleInv, Carried
<1>12. CASE ProcessSucceeds \/ RepublishFails
  <2>1. UNCHANGED wire
    BY <1>12 DEF ProcessSucceeds, RepublishFails
  <2>2. \A d \in Lives : HeldBy(d)' = HeldBy(d)
    BY <1>4 DEF HeldBy
  <2>3. SettlementsValid'
    BY <2>1, <2>2, ValidByLife, ValidByLifeNext DEF SettleInv
  <2>4. HeldBy(life)' = H
    BY <1>2, <1>4, <2>2
  <2>5. linked[life] => InHand(box, cur', w, H)
    BY <1>4, <1>5, <1>6, InHandReleased
  <2>. QED BY <1>4, <2>1, <2>3, <2>4, <2>5 DEF SettleInv, Carried
<1>. QED BY <1>9, <1>10, <1>11, <1>12

LEMMA SettleStartStop ==
  ASSUME TypeOK, LinkInv, SettleInv, WorkerStart \/ WorkerExit \/ WorkerCrash
  PROVE  SettleInv'
<1>. BrokerTypeOK /\ WorkerTypeOK
  BY DEF TypeOK
<1>1. UNCHANGED <<copies, wire>>
  BY DEF WorkerStart, WorkerExit, WorkerCrash
<1>2. \A d \in Lives : HeldBy(d)' = HeldBy(d)
  BY <1>1 DEF HeldBy
<1>3. SettlementsValid'
  BY <1>1, <1>2, ValidByLife, ValidByLifeNext DEF SettleInv
<1>4. life' \in Lives /\ cur' = 0 /\ inbox'[life'] = <<>>
  <2>1. CASE WorkerStart
    <3>1. life + 1 \in Lives /\ cur = 0 /\ proc = "down"
      BY <2>1, BrokerAssumption DEF WorkerStart, WorkerTypeOK, Lives
    <3>. QED BY <2>1, <3>1 DEF WorkerStart, LinkInv
  <2>2. CASE WorkerExit \/ WorkerCrash
    <3>1. life \in Lives
      BY <2>2, LifeIsConn DEF WorkerExit, WorkerCrash
    <3>. QED BY <2>2, <3>1 DEF WorkerExit, WorkerCrash, WorkerTypeOK, BrokerTypeOK
  <2>. QED BY <2>1, <2>2
<1>. QED BY <1>3, <1>4, InHandEmpty DEF SettleInv, Carried

LEMMA SettlePublishers ==
  ASSUME TypeOK, LinkInv, SettleInv, ProducerStep \/ ForeignStep
  PROVE  SettleInv'
<1>. BrokerTypeOK /\ UNCHANGED <<life, cur>>
  BY DEF TypeOK, ProducerStep, ForeignStep, workerVars
<1>1. ASSUME NEW p \in Producers, StartService(p)
      PROVE  SettleInv'
  <2>1. /\ \A c \in Lives : linked'[c] = linked[c]
        /\ UNCHANGED <<copies, wire, inbox>>
    BY <1>1, ConnsApart DEF StartService, Connect, BrokerTypeOK
  <2>. QED BY <2>1, SettleKept DEF HeldBy
<1>2. ASSUME NEW p \in Producers, NEW m \in MsgIds, NEW t \in Tasks, EnqueueProcessTask(p, m, t)
      PROVE  SettleInv'
  <2>1. /\ \A c \in Lives : wire'[c] = wire[c]
        /\ UNCHANGED <<copies, linked, inbox>>
    BY <1>2, ConnsApart DEF EnqueueProcessTask, Send, BrokerTypeOK
  <2>. QED BY <2>1, SettleKept DEF HeldBy
<1>3. ASSUME NEW b \in ForeignBodies, ForeignPublish(b)
      PROVE  SettleInv'
  <2>1. b \in Body
    BY PipelineAssumption
  <2>2. \A c \in Lives : HeldBy(c)' = HeldBy(c)
    BY <1>3, <2>1, AppendFacts DEF ForeignPublish
  <2>3. UNCHANGED <<wire, linked, inbox>>
    BY <1>3 DEF ForeignPublish
  <2>. QED BY <2>2, <2>3, SettleKept
<1>. QED BY <1>1, <1>2, <1>3 DEF ProducerStep, ForeignStep

LEMMA SettleStepKept == TypeOK /\ LinkInv /\ SettleInv /\ [Next]_vars => SettleInv'
<1>1. TypeOK /\ LinkInv /\ SettleInv /\ UNCHANGED vars => SettleInv'
  BY SettleKept DEF HeldBy, vars, brokerVars, workerVars
<1>. QED BY <1>1, SettleBroker, SettleLinks, SettleTake, SettleFinish, SettleStartStop,
            SettlePublishers DEF Next, WorkerStep, Handle

\* Whatever fails and whenever, no ack or nack of the worker ever names a delivery
\* the broker does not hold for its connection, or one already settled: what
\* handle() returns without settling is never settled later, and what it settled
\* never again.
THEOREM SettledOnce == Spec => []SettlementsValid
<1>1. SettleInv => SettlementsValid
  BY DEF SettleInv
<1>. QED BY <1>1, TypeCorrect, LinkInit, SettleInit, LinkStepKept, SettleStepKept, PTL DEF Spec

-----------------------------------------------------------------------------
(***************************************************************************)
(* Why messages do not multiply.                                           *)
(*                                                                         *)
(* DuplicationBounded is not inductive: a publish frame on a wire is a     *)
(* message too.  Of the frames of the producers each was counted when it   *)
(* was enqueued.  Of the frames of the worker a publish is followed by the *)
(* ack of the original, so that a life may be one message ahead only while *)
(* it owes that ack, and for ever once it cannot send it any more.         *)
(***************************************************************************)

NotAcked == {k \in DOMAIN copies : copies[k].st # "acked"}

\* The frames on the wires of the producers, as pairs of a connection and a position.
Written == {q \in Producers \X Nat : q[2] \in DOMAIN wire[q[1]]}

\* Every publish in w is followed by an ack, but for a last one, if due.
PairedIn(w, due) ==
  \A i \in DOMAIN w : w[i].op = "publish" =>
    IF i = Len(w) THEN due ELSE i + 1 \in DOMAIN w /\ w[i + 1].op = "ack"

\* The worker has yet to write the ack of its last publish, or no longer can.
Due(c) == ~open[c] \/ proc = "republished"

\* The next frame of c may take a copy away, and none adds one before it.
Owes(c) ==
  \/ ~linked[c]
  \/ wire[c] # <<>> /\ wire[c][1].op = "ack"
  \/ wire[c] = <<>> /\ Due(c)

Owing == {c \in 1..life : Owes(c)}

PairInv == \A c \in Lives : linked[c] => PairedIn(wire[c], Due(c))

CountInv ==
  /\ IsFiniteSet(Written)
  /\ Cardinality(NotAcked) + Cardinality(Written) <= enqueued + Cardinality(Owing)

LEMMA PairedAppend ==
  ASSUME NEW w \in Seq(Frame), NEW f \in Frame, NEW due, NEW next, PairedIn(w, due),
         due => f.op = "ack", f.op = "publish" => next
  PROVE  PairedIn(Append(w, f), next)
<1>. DEFINE v == Append(w, f)
            n == Len(w) + 1
<1>1. /\ DOMAIN w = 1..Len(w) /\ DOMAIN v = 1..n /\ Len(v) = n /\ Len(w) \in Nat
      /\ \A j \in DOMAIN w : v[j] = w[j]
      /\ v[n] = f
  BY SeqAppend, LenProperties
<1>. HIDE DEF v, n
<1>2. n = Len(w) + 1
  BY DEF n
<1>3. \A j \in DOMAIN v : j = n \/ (j \in DOMAIN w /\ v[j] = w[j])
  BY <1>1, <1>2
<1>4. \A j \in DOMAIN w : j # Len(w) => j # n /\ j + 1 # n
  BY <1>1, <1>2
<1>5. ASSUME NEW i \in DOMAIN v, v[i].op = "publish"
      PROVE  IF i = Len(v) THEN next ELSE i + 1 \in DOMAIN v /\ v[i + 1].op = "ack"
  <2>1. CASE i = n
    BY <1>1, <1>5, <2>1
  <2>2. CASE i # n
    <3>1. i \in DOMAIN w /\ w[i].op = "publish"
      BY <1>3, <1>5, <2>2
    <3>2. CASE i = Len(w)
      <4>1. due
        BY <3>1, <3>2 DEF PairedIn
      <4>2. i + 1 = n /\ n \in DOMAIN v
        BY <1>1, <1>2, <3>2
      <4>. QED BY <1>1, <2>2, <4>1, <4>2
    <3>3. CASE i # Len(w)
      <4>1. i + 1 \in DOMAIN w /\ w[i + 1].op = "ack"
        BY <3>1, <3>3 DEF PairedIn
      <4>2. i + 1 \in DOMAIN v /\ v[i + 1] = w[i + 1]
        BY <1>1, <1>2, <4>1
      <4>. QED BY <1>1, <2>2, <4>1, <4>2
    <3>. QED BY <3>2, <3>3
  <2>. QED BY <2>1, <2>2
<1>. QED BY <1>5 DEF PairedIn, v

LEMMA PairedTail ==
  ASSUME NEW w \in Seq(Frame), w # <<>>, NEW due, PairedIn(w, due)
  PROVE  /\ PairedIn(Tail(w), due)
         /\ Head(w).op = "publish" =>
              IF Tail(w) = <<>> THEN due ELSE Tail(w)[1].op = "ack"
<1>. DEFINE v == Tail(w)
<1>1. /\ DOMAIN w = 1..Len(w) /\ Len(w) \in Nat /\ 1 \in DOMAIN w /\ Head(w) = w[1]
      /\ v \in Seq(Frame) /\ Len(v) = Len(w) - 1 /\ DOMAIN v = 1..(Len(w) - 1)
      /\ \A j \in DOMAIN v : v[j] = w[j + 1] /\ j + 1 \in DOMAIN w
      /\ v = <<>> <=> Len(v) = 0
  BY SeqTail, LenProperties, EmptySeq
<1>. HIDE DEF v
<1>2. ASSUME NEW i \in DOMAIN v, v[i].op = "publish"
      PROVE  IF i = Len(v) THEN due ELSE i + 1 \in DOMAIN v /\ v[i + 1].op = "ack"
  <2>1. i \in Nat /\ w[i + 1].op = "publish" /\ i + 1 \in DOMAIN w
    BY <1>1, <1>2
  <2>2. CASE i = Len(v)
    BY <1>1, <2>1, <2>2 DEF PairedIn
  <2>3. CASE i # Len(v)
    <3>1. i + 1 \in DOMAIN v /\ i + 1 # Len(w) /\ v[i + 1] = w[(i + 1) + 1]
      BY <1>1, <2>1, <2>3
    <3>. QED BY <2>1, <2>3, <3>1 DEF PairedIn
  <2>. QED BY <2>2, <2>3
<1>3. ASSUME Head(w).op = "publish"
      PROVE  IF v = <<>> THEN due ELSE v[1].op = "ack"
  <2>1. CASE Len(w) = 1
    BY <1>1, <1>3, <2>1 DEF PairedIn
  <2>2. CASE Len(w) # 1
    <3>1. 1 \in DOMAIN v /\ v[1] = w[1 + 1]
      BY <1>1, <2>2
    <3>. QED BY <1>1, <1>3, <2>2, <3>1 DEF PairedIn
  <2>. QED BY <2>1, <2>2
<1>. QED BY <1>2, <1>3 DEF PairedIn, v

-----------------------------------------------------------------------------
(* Counting. *)

LEMMA NotAckedFinite ==
  ASSUME BrokerTypeOK
  PROVE  IsFiniteSet(NotAcked) /\ Cardinality(NotAcked) \in Nat
<1>1. DOMAIN copies = 1..Len(copies) /\ Len(copies) \in Nat
  BY LenProperties DEF BrokerTypeOK
<1>2. IsFiniteSet(DOMAIN copies)
  BY <1>1, FS_Interval
<1>3. NotAcked \in SUBSET DOMAIN copies
  BY DEF NotAcked
<1>. QED BY <1>2, <1>3, FS_Subset, FS_CardinalityType

LEMMA OwingFinite ==
  ASSUME life \in Nat
  PROVE  IsFiniteSet(Owing) /\ Cardinality(Owing) \in Nat /\ Cardinality(Owing) <= life
<1>1. IsFiniteSet(1..life) /\ Cardinality(1..life) = life
  BY FS_Interval
<1>2. Owing \in SUBSET (1..life)
  BY DEF Owing
<1>. QED BY <1>1, <1>2, FS_Subset, FS_CardinalityType

OwedKept == \A c \in 1..life : Owes(c) => Owes(c)'

LEMMA OwingGrows ==
  ASSUME life \in Nat, life' \in Nat, life <= life', OwedKept
  PROVE  Cardinality(Owing) <= Cardinality(Owing') /\ Cardinality(Owing') \in Nat
<1>1. IsFiniteSet(Owing')
  <2>1. IsFiniteSet(1..life')
    BY FS_Interval
  <2>2. Owing' \in SUBSET (1..life')
    BY DEF Owing
  <2>. QED BY <2>1, <2>2, FS_Subset
<1>2. Owing \in SUBSET Owing'
  BY DEF Owing, OwedKept
<1>. QED BY <1>1, <1>2, FS_Subset, FS_CardinalityType

\* What one step may do to the bound.
LEMMA CountKept ==
  ASSUME TypeOK, TypeOK', CountInv, NotAcked' = NotAcked, Written' \subseteq Written,
         enqueued' = enqueued, life <= life', OwedKept
  PROVE  CountInv'
<1>1. life \in Nat /\ life' \in Nat /\ enqueued \in Nat
  BY BrokerAssumption, ProducerAssumption DEF TypeOK, WorkerTypeOK, ProducerTypeOK
<1>2. Cardinality(Owing) <= Cardinality(Owing') /\ Cardinality(Owing) \in Nat /\ Cardinality(Owing') \in Nat
  BY <1>1, OwingGrows, OwingFinite
<1>3. /\ IsFiniteSet(Written') /\ Cardinality(Written') <= Cardinality(Written)
      /\ Cardinality(Written') \in Nat /\ Cardinality(Written) \in Nat
  BY FS_Subset, FS_CardinalityType DEF CountInv
<1>4. Cardinality(NotAcked) \in Nat
  BY NotAckedFinite DEF TypeOK
<1>. QED BY <1>1, <1>2, <1>3, <1>4 DEF CountInv

\* The queue takes one more message.
LEMMA OneMore ==
  ASSUME BrokerTypeOK, NEW b \in Body,
         copies' = Append(copies, [body |-> b, st |-> "ready", by |-> NoConn])
  PROVE  Cardinality(NotAcked') = Cardinality(NotAcked) + 1
<1>. DEFINE e == [body |-> b, st |-> "ready", by |-> NoConn]
            n == Len(copies) + 1
<1>1. e \in Copy /\ e.st = "ready"
  BY DEF Copy
<1>2. copies' = Append(copies, e) /\ copies \in Seq(Copy)
  BY DEF BrokerTypeOK
<1>3. n = Len(copies) + 1
  OBVIOUS
<1>. HIDE DEF e, n
<1>4. /\ DOMAIN copies = 1..Len(copies) /\ DOMAIN copies' = 1..n
      /\ Len(copies) \in Nat
      /\ \A k \in DOMAIN copies : copies'[k] = copies[k]
      /\ copies'[n] = e
  BY <1>1, <1>2, <1>3, SeqAppend, LenProperties
<1>5. DOMAIN copies' = DOMAIN copies \cup {n} /\ n \notin DOMAIN copies
  BY <1>3, <1>4
<1>6. NotAcked' = NotAcked \cup {n} /\ n \notin NotAcked
  BY <1>1, <1>4, <1>5 DEF NotAcked
<1>. QED BY <1>6, NotAckedFinite, FS_AddElement

\* A held copy is settled: an ack takes it away, a rejection leaves it in the DLQ.
LEMMA OneSettled ==
  ASSUME BrokerTypeOK, NEW c \in Conns, BrokerSettle(c), NEW d, Head(wire[c]).copy \in HeldBy(d)
  PROVE  Cardinality(NotAcked') = IF Head(wire[c]).op = "ack" THEN Cardinality(NotAcked) - 1
                                                              ELSE Cardinality(NotAcked)
<1>. DEFINE k == Head(wire[c]).copy
            op == Head(wire[c]).op
<1>1. /\ DOMAIN copies' = DOMAIN copies
      /\ \A j \in DOMAIN copies : IF j = k THEN copies'[j].st = SettledAs(op)
                                           ELSE copies'[j] = copies[j]
  BY SettleFacts
<1>2. k \in DOMAIN copies /\ copies[k].st = "unacked"
  BY DEF HeldBy
<1>. HIDE DEF k, op
<1>3. k \in NotAcked
  BY <1>2 DEF NotAcked
<1>4. NotAcked' = IF op = "ack" THEN NotAcked \ {k} ELSE NotAcked
  BY <1>1, <1>2 DEF NotAcked, SettledAs
<1>5. op = "ack" => Cardinality(NotAcked') = Cardinality(NotAcked) - 1
  BY <1>3, <1>4, NotAckedFinite, FS_RemoveElement
<1>6. op # "ack" => Cardinality(NotAcked') = Cardinality(NotAcked)
  BY <1>4
<1>. QED BY <1>5, <1>6 DEF op

\* The broker takes a frame off the wire of a producer.
LEMMA WrittenRead ==
  ASSUME BrokerTypeOK, NEW p \in Producers, IsFiniteSet(Written), wire[p] # <<>>,
         wire'[p] = Tail(wire[p]), \A q \in Producers : q # p => wire'[q] = wire[q]
  PROVE  IsFiniteSet(Written') /\ Cardinality(Written') = Cardinality(Written) - 1
<1>. DEFINE n == Len(wire[p])
<1>1. /\ DOMAIN wire[p] = 1..n /\ n \in Nat /\ n \in DOMAIN wire[p]
      /\ DOMAIN wire'[p] = 1..(n - 1)
  BY SeqTail, LenProperties, EmptySeq DEF BrokerTypeOK
<1>. HIDE DEF n
<1>2. DOMAIN wire'[p] = DOMAIN wire[p] \ {n}
  BY <1>1
<1>3. \A q \in Producers, i \in Nat :
        i \in DOMAIN wire'[q] <=> i \in DOMAIN wire[q] /\ <<q, i>> # <<p, n>>
  BY <1>2
<1>4. Written' = Written \ {<<p, n>>}
  BY <1>3 DEF Written
<1>5. <<p, n>> \in Written
  BY <1>1 DEF Written
<1>. QED BY <1>4, <1>5, FS_RemoveElement

\* A producer writes a frame, or writes it to a link that is gone.
LEMMA WrittenSend ==
  ASSUME BrokerTypeOK, NEW p \in Producers, IsFiniteSet(Written), NEW f \in Frame, Send(p, f)
  PROVE  /\ IsFiniteSet(Written')
         /\ Cardinality(Written') \in Nat
         /\ Cardinality(Written') <= Cardinality(Written) + 1
<1>. DEFINE n == Len(wire[p]) + 1
            q == <<p, n>>
<1>1. /\ \A d \in Conns : d # p => wire'[d] = wire[d]
      /\ wire'[p] = IF open[p] /\ linked[p] THEN Append(wire[p], f) ELSE wire[p]
  BY SendTyped
<1>2. /\ DOMAIN wire[p] = 1..Len(wire[p]) /\ Len(wire[p]) \in Nat
      /\ DOMAIN Append(wire[p], f) = 1..n /\ n = Len(wire[p]) + 1
  BY SeqAppend, LenProperties DEF BrokerTypeOK
<1>. HIDE DEF n
<1>3. DOMAIN wire'[p] \subseteq DOMAIN wire[p] \cup {n}
  BY <1>1, <1>2
<1>4. Written' \in SUBSET (Written \cup {q})
  <2>1. \A r \in Producers, i \in Nat :
          i \in DOMAIN wire'[r] => i \in DOMAIN wire[r] \/ <<r, i>> = <<p, n>>
    BY <1>1, <1>3
  <2>. QED BY <2>1 DEF Written
<1>. HIDE DEF q
<1>5. /\ IsFiniteSet(Written \cup {q}) /\ Cardinality(Written) \in Nat
      /\ Cardinality(Written \cup {q}) \in Nat
      /\ Cardinality(Written \cup {q}) <= Cardinality(Written) + 1
  <2>1. Cardinality(Written) \in Nat
    BY FS_CardinalityType
  <2>2. /\ IsFiniteSet(Written \cup {q})
        /\ \/ Cardinality(Written \cup {q}) = Cardinality(Written)
           \/ Cardinality(Written \cup {q}) = Cardinality(Written) + 1
    BY FS_AddElement
  <2>. QED BY <2>1, <2>2
<1>6. /\ IsFiniteSet(Written') /\ Cardinality(Written') \in Nat
      /\ Cardinality(Written') <= Cardinality(Written \cup {q})
  BY <1>4, <1>5, FS_Subset, FS_CardinalityType
<1>. QED BY <1>5, <1>6

LEMMA PairedWiden ==
  ASSUME NEW w, NEW due, NEW next, PairedIn(w, due), due => next
  PROVE  PairedIn(w, next)
  BY DEF PairedIn

\* What is put in from outside, or moves from a producer's wire into the queue.
LEMMA CountFrom ==
  ASSUME TypeOK, TypeOK', CountInv, OwedKept, life <= life',
         IsFiniteSet(Written'), Cardinality(Written') \in Nat,
         NEW n \in 0..1, Cardinality(NotAcked') = Cardinality(NotAcked) + n,
         Cardinality(Written') + n <= Cardinality(Written) + (enqueued' - enqueued)
  PROVE  CountInv'
<1>1. life \in Nat /\ life' \in Nat /\ enqueued \in Nat /\ enqueued' \in Nat
  BY BrokerAssumption, ProducerAssumption DEF TypeOK, WorkerTypeOK, ProducerTypeOK
<1>2. Cardinality(Owing) <= Cardinality(Owing') /\ Cardinality(Owing) \in Nat /\ Cardinality(Owing') \in Nat
  BY <1>1, OwingGrows, OwingFinite
<1>3. Cardinality(NotAcked) \in Nat /\ Cardinality(Written) \in Nat
  BY NotAckedFinite, FS_CardinalityType DEF TypeOK, CountInv
<1>. QED BY <1>1, <1>2, <1>3 DEF CountInv

\* Nothing is read or written, and what was due stays due.
LEMMA CountQuiet ==
  ASSUME TypeOK, TypeOK', PairInv, CountInv, NotAcked' = NotAcked,
         UNCHANGED <<wire, linked, enqueued, life>>,
         \A c \in Lives : Due(c) => Due(c)'
  PROVE  PairInv' /\ CountInv'
<1>1. 1..life \subseteq Lives /\ life \in Nat
  BY BrokerAssumption DEF TypeOK, WorkerTypeOK, Lives
<1>2. OwedKept
  BY <1>1 DEF OwedKept, Owes
<1>3. Written' = Written
  BY DEF Written
<1>4. CountInv'
  BY <1>1, <1>2, <1>3, CountKept
<1>5. PairInv'
  <2>. SUFFICES ASSUME NEW c \in Lives, linked[c]
                PROVE  PairedIn(wire[c], Due(c)')
    BY DEF PairInv
  <2>1. PairedIn(wire[c], Due(c))
    BY DEF PairInv
  <2>. QED BY <2>1, PairedWiden
<1>. QED BY <1>4, <1>5

-----------------------------------------------------------------------------
(* The broker reads. *)

LEMMA CountPublish ==
  ASSUME TypeOK, TypeOK', LinkInv, PairInv, CountInv,
         NEW c \in Conns, BrokerPublish(c), UNCHANGED <<workerVars, producerVars>>
  PROVE  PairInv' /\ CountInv'
<1>. /\ BrokerTypeOK
     /\ UNCHANGED <<linked, open, life, proc, enqueued>>
     /\ life \in Nat
  BY BrokerAssumption DEF TypeOK, WorkerTypeOK, BrokerPublish, workerVars, producerVars
<1>1. /\ Head(wire[c]).op = "publish" /\ Head(wire[c]).body \in Body
      /\ wire[c] # <<>> /\ wire[c] \in Seq(Frame)
      /\ wire'[c] = Tail(wire[c])
      /\ \A d \in Conns : d # c => wire'[d] = wire[d]
  BY PublishFacts
<1>2. Cardinality(NotAcked') = Cardinality(NotAcked) + 1
  BY <1>1, OneMore DEF BrokerPublish
<1>3. \A d : Due(d)' = Due(d)
  BY DEF Due
<1>4. 1..life \subseteq Lives
  BY BrokerAssumption DEF TypeOK, WorkerTypeOK, Lives
<1>5. CASE c \in Producers
  <2>1. \A d \in Lives : wire'[d] = wire[d]
    BY <1>1, <1>5, ConnsApart
  <2>2. OwedKept
    BY <1>3, <1>4, <2>1 DEF OwedKept, Owes
  <2>3. PairInv'
    BY <1>3, <2>1 DEF PairInv
  <2>4. IsFiniteSet(Written') /\ Cardinality(Written') = Cardinality(Written) - 1
    BY <1>1, <1>5, WrittenRead DEF CountInv
  <2>5. Cardinality(Written') \in Nat /\ Cardinality(Written) \in Nat /\ enqueued \in Nat
    BY <2>4, FS_CardinalityType, ProducerAssumption DEF CountInv, TypeOK, ProducerTypeOK
  <2>6. CountInv'
    BY <1>2, <2>2, <2>4, <2>5, CountFrom
  <2>. QED BY <2>3, <2>6
<1>6. CASE c \in Lives
  <2>. DEFINE w == wire[c]
  <2>1. linked[c] /\ c \in 1..life
    BY <1>1, <1>6, BrokerAssumption DEF LinkInv, Lives
  <2>2. /\ PairedIn(Tail(w), Due(c))
        /\ IF Tail(w) = <<>> THEN Due(c) ELSE Tail(w)[1].op = "ack"
    <3>1. PairedIn(w, Due(c)) /\ w \in Seq(Frame) /\ w # <<>> /\ Head(w).op = "publish"
      BY <1>1, <1>6, <2>1 DEF PairInv
    <3>. HIDE DEF w
    <3>. QED BY <3>1, PairedTail
  <2>3. Owes(c)'
    BY <1>1, <1>3, <2>1, <2>2 DEF Owes
  <2>4. ~Owes(c)
    <3>1. w[1].op = "publish"
      BY <1>1, SeqTail
    <3>. QED BY <1>1, <2>1, <3>1 DEF Owes
  <2>5. \A d \in Lives : d # c => (Owes(d)' <=> Owes(d))
    BY <1>1, <1>3 DEF Owes
  <2>6. Owing' = Owing \cup {c} /\ c \notin Owing
    BY <1>4, <2>1, <2>3, <2>4, <2>5 DEF Owing
  <2>7. Cardinality(Owing') = Cardinality(Owing) + 1 /\ Cardinality(Owing) \in Nat
    BY <2>6, OwingFinite, FS_AddElement
  <2>8. Written' = Written
    <3>1. \A p \in Producers : wire'[p] = wire[p]
      BY <1>1, <1>6, ConnsApart
    <3>. QED BY <3>1 DEF Written
  <2>9. PairInv'
    BY <1>1, <1>3, <2>2 DEF PairInv
  <2>10. Cardinality(NotAcked) \in Nat /\ Cardinality(Written) \in Nat /\ enqueued \in Nat
    BY NotAckedFinite, FS_CardinalityType, ProducerAssumption DEF CountInv, TypeOK, ProducerTypeOK
  <2>11. CountInv'
    BY <1>2, <2>7, <2>8, <2>10 DEF CountInv
  <2>. QED BY <2>9, <2>11
<1>. QED BY <1>5, <1>6

LEMMA CountSettle ==
  ASSUME TypeOK, TypeOK', LinkInv, SettleInv, PairInv, CountInv,
         NEW c \in Conns, BrokerSettle(c), UNCHANGED <<workerVars, producerVars>>
  PROVE  PairInv' /\ CountInv'
<1>. /\ BrokerTypeOK
     /\ UNCHANGED <<linked, open, life, proc, enqueued>>
     /\ life \in Nat
  BY BrokerAssumption DEF TypeOK, WorkerTypeOK, BrokerSettle, workerVars, producerVars
<1>1. /\ wire[c] # <<>> /\ wire[c] \in Seq(Frame) /\ Head(wire[c]).op # "publish"
      /\ wire'[c] = Tail(wire[c])
      /\ \A d \in Conns : d # c => wire'[d] = wire[d]
  BY SettleFacts
<1>2. Head(wire[c]) = wire[c][1] /\ 1 \in DOMAIN wire[c]
  BY <1>1, SeqTail
<1>3. c \in Lives
  BY <1>1, <1>2 DEF LinkInv
<1>4. linked[c]
  BY <1>1 DEF LinkInv
<1>5. Head(wire[c]).copy \in HeldBy(c)
  BY <1>1, <1>2, <1>3 DEF SettleInv, SettlementsValid
<1>6. Cardinality(NotAcked') = IF Head(wire[c]).op = "ack" THEN Cardinality(NotAcked) - 1
                                                           ELSE Cardinality(NotAcked)
  BY <1>5, OneSettled
<1>7. \A d : Due(d)' = Due(d)
  BY DEF Due
<1>8. 1..life \subseteq Lives
  BY BrokerAssumption DEF TypeOK, WorkerTypeOK, Lives
<1>9. Written' = Written
  <2>1. \A p \in Producers : wire'[p] = wire[p]
    BY <1>1, <1>3, ConnsApart
  <2>. QED BY <2>1 DEF Written
<1>10. PairInv'
  <2>. DEFINE w == wire[c]
  <2>1. PairedIn(w, Due(c)) /\ w \in Seq(Frame) /\ w # <<>>
    BY <1>1, <1>3, <1>4 DEF PairInv
  <2>2. PairedIn(Tail(w), Due(c))
    <3>. HIDE DEF w
    <3>. QED BY <2>1, PairedTail
  <2>. QED BY <1>1, <1>7, <2>2 DEF PairInv
<1>11. \A d \in Lives : d # c => (Owes(d)' <=> Owes(d))
  BY <1>1, <1>7 DEF Owes
<1>12. Cardinality(NotAcked) \in Nat /\ Cardinality(Written) \in Nat /\ enqueued \in Nat
  BY NotAckedFinite, FS_CardinalityType, ProducerAssumption DEF CountInv, TypeOK, ProducerTypeOK
<1>13. CASE Head(wire[c]).op = "ack"
  <2>1. Owing \ {c} \in SUBSET Owing'
    BY <1>8, <1>11 DEF Owing
  <2>2. /\ IsFiniteSet(Owing) /\ Cardinality(Owing) \in Nat
        /\ IsFiniteSet(Owing') /\ Cardinality(Owing') \in Nat
    <3>1. IsFiniteSet(1..life) /\ Owing' \in SUBSET (1..life)
      BY FS_Interval DEF Owing
    <3>. QED BY <3>1, OwingFinite, FS_Subset, FS_CardinalityType
  <2>3. Cardinality(Owing \ {c}) <= Cardinality(Owing')
    BY <2>1, <2>2, FS_Subset
  <2>4. Cardinality(Owing \ {c}) = Cardinality(Owing) \/ Cardinality(Owing \ {c}) = Cardinality(Owing) - 1
    BY <2>2, FS_RemoveElement
  <2>5. CountInv'
    BY <1>6, <1>9, <1>12, <1>13, <2>2, <2>3, <2>4 DEF CountInv
  <2>. QED BY <1>10, <2>5
<1>14. CASE Head(wire[c]).op # "ack"
  <2>1. ~Owes(c)
    BY <1>1, <1>2, <1>4, <1>14 DEF Owes
  <2>2. OwedKept
    BY <1>8, <1>11, <2>1 DEF OwedKept
  <2>3. CountInv'
    BY <1>6, <1>9, <1>12, <1>14, <2>2, CountFrom DEF CountInv
  <2>. QED BY <1>10, <2>3
<1>. QED BY <1>13, <1>14

LEMMA CountBroker ==
  ASSUME TypeOK, TypeOK', LinkInv, SettleInv, PairInv, CountInv, BrokerStep
  PROVE  PairInv' /\ CountInv'
<1>. BrokerTypeOK /\ UNCHANGED <<workerVars, producerVars>>
  BY DEF TypeOK, BrokerStep
<1>1. ASSUME NEW c \in Lives, NEW k \in DOMAIN copies, Deliver(c, k)
      PROVE  PairInv' /\ CountInv'
  <2>1. /\ DOMAIN copies' = DOMAIN copies
        /\ copies'[k].st = "unacked" /\ copies[k].st = "ready"
        /\ \A j \in DOMAIN copies : j # k => copies'[j] = copies[j]
    BY <1>1, DeliverFacts DEF Deliver
  <2>2. NotAcked' = NotAcked
    BY <2>1 DEF NotAcked
  <2>3. UNCHANGED <<wire, linked, open, proc, life, enqueued>>
    BY <1>1 DEF Deliver, workerVars, producerVars
  <2>. QED BY <2>2, <2>3, CountQuiet DEF Due
<1>. QED BY <1>1, CountPublish, CountSettle DEF BrokerStep

LEMMA CountLinks ==
  ASSUME TypeOK, TypeOK', PairInv, CountInv, LinkStep
  PROVE  PairInv' /\ CountInv'
<1>. BrokerTypeOK /\ UNCHANGED <<life, proc, enqueued>>
  BY DEF TypeOK, LinkStep, workerVars, producerVars
<1>1. PICK c \in Conns : BrokerClose(c) \/ ClientClose(c)
  BY DEF LinkStep, BreakByBroker, BreakByClient, FinishClose
<1>2. CASE BrokerClose(c)
  <2>1. /\ DOMAIN copies' = DOMAIN copies
        /\ \A k \in DOMAIN copies : IF k \in HeldBy(c) THEN copies'[k].st = "ready"
                                                       ELSE copies'[k] = copies[k]
        /\ wire'[c] = <<>> /\ ~linked'[c]
        /\ \A d \in Conns : d # c => wire'[d] = wire[d] /\ linked'[d] = linked[d]
    BY <1>2, CloseFacts
  <2>2. NotAcked' = NotAcked
    BY <2>1 DEF NotAcked, HeldBy
  <2>3. \A d : Due(d)' = Due(d)
    BY <1>2 DEF BrokerClose, Due
  <2>4. 1..life \subseteq Lives /\ life \in Nat
    BY BrokerAssumption DEF TypeOK, WorkerTypeOK, Lives
  <2>5. OwedKept
    BY <2>1, <2>3, <2>4 DEF OwedKept, Owes
  <2>6. Written' \subseteq Written
    BY <2>1 DEF Written
  <2>7. CountInv'
    BY <2>2, <2>4, <2>5, <2>6, CountKept
  <2>8. PairInv'
    BY <2>1, <2>3 DEF PairInv
  <2>. QED BY <2>7, <2>8
<1>3. CASE ClientClose(c)
  <2>1. UNCHANGED <<copies, wire, linked>> /\ \A d \in Conns : open'[d] => open[d]
    BY <1>3 DEF ClientClose, BrokerTypeOK
  <2>2. NotAcked' = NotAcked
    BY <2>1 DEF NotAcked
  <2>. QED BY <2>1, <2>2, CountQuiet DEF Due
<1>. QED BY <1>1, <1>2, <1>3

-----------------------------------------------------------------------------
(* The worker writes. *)

\* A frame of the worker: what was due is written first, and a publish makes
\* its ack due.
LEMMA CountSend ==
  ASSUME TypeOK, TypeOK', LinkInv, PairInv, CountInv, life \in Lives, NEW f \in Frame,
         Send(life, f), UNCHANGED <<copies, linked, open, life, enqueued>>,
         open[life] /\ proc = "republished" => f.op = "ack",
         f.op = "publish" => proc' = "republished"
  PROVE  PairInv' /\ CountInv'
<1>. BrokerTypeOK /\ life \in Conns
  BY DEF TypeOK
<1>1. /\ \A d \in Conns : d # life => wire'[d] = wire[d]
      /\ wire'[life] = IF open[life] /\ linked[life] THEN Append(wire[life], f) ELSE wire[life]
  BY SendTyped
<1>2. NotAcked' = NotAcked
  BY DEF NotAcked
<1>3. \A d \in Lives : d # life => ~open[d]
  BY DEF LinkInv
<1>4. \A d \in Lives : d # life => Due(d) /\ Due(d)'
  BY <1>3 DEF Due
<1>5. Written' = Written
  <2>1. \A p \in Producers : wire'[p] = wire[p]
    BY <1>1, ConnsApart
  <2>. QED BY <2>1 DEF Written
<1>6. 1..life \subseteq Lives /\ life \in Nat
  BY BrokerAssumption DEF TypeOK, WorkerTypeOK, Lives
<1>7. \A d \in Lives : d # life => (Owes(d) => Owes(d)')
  BY <1>1, <1>4 DEF Owes
<1>8. CASE open[life] /\ linked[life]
  <2>. DEFINE w == wire[life]
              v == Append(w, f)
  <2>1. w \in Seq(Frame) /\ wire'[life] = v
    BY <1>1, <1>8 DEF BrokerTypeOK
  <2>2. PairedIn(w, Due(life))
    BY <1>8 DEF PairInv
  <2>3. Due(life) => f.op = "ack"
    BY <1>8 DEF Due
  <2>4. f.op = "publish" => Due(life)'
    BY DEF Due
  <2>5. PairedIn(v, Due(life)')
    <3>. HIDE DEF w
    <3>. QED BY <2>1, <2>2, <2>3, <2>4, PairedAppend
  <2>6. Len(w) \in Nat /\ DOMAIN v = 1..(Len(w) + 1) /\ v[Len(w) + 1] = f
        /\ \A i \in DOMAIN w : v[i] = w[i]
        /\ DOMAIN w = 1..Len(w)
    <3>. HIDE DEF w
    <3>. QED BY <2>1, SeqAppend, LenProperties
  <2>7. v # <<>>
    BY <2>6
  <2>8. w = <<>> => v[1] = f
    BY <2>6
  <2>9. w # <<>> => v[1] = w[1]
    BY <2>1, <2>6, EmptySeq
  <2>10. Owes(life) => Owes(life)'
    <3>. HIDE DEF v
    <3>. QED BY <1>8, <2>1, <2>3, <2>7, <2>8, <2>9 DEF Owes
  <2>11. OwedKept
    BY <1>6, <1>7, <2>10 DEF OwedKept
  <2>12. CountInv'
    BY <1>2, <1>5, <1>6, <2>11, CountKept
  <2>13. PairInv'
    <3>. HIDE DEF v
    <3>. QED BY <1>1, <1>4, <2>1, <2>5, PairedWiden DEF PairInv
  <2>. QED BY <2>12, <2>13
<1>9. CASE ~(open[life] /\ linked[life])
  <2>1. \A d \in Lives : wire'[d] = wire[d]
    BY <1>1, <1>9
  <2>2. linked[life] => Due(life) /\ Due(life)'
    BY <1>9 DEF Due
  <2>3. OwedKept
    BY <1>6, <1>7, <2>1, <2>2 DEF OwedKept, Owes
  <2>4. CountInv'
    BY <1>2, <1>5, <1>6, <2>3, CountKept
  <2>5. \A d \in Lives : linked[d] => PairedIn(wire[d], Due(d)')
    BY <1>4, <2>2, PairedWiden DEF PairInv
  <2>. QED BY <2>1, <2>4, <2>5 DEF PairInv
<1>. QED BY <1>8, <1>9

LEMMA CountWorker ==
  ASSUME TypeOK, TypeOK', LinkInv, PairInv, CountInv, WorkerStep
  PROVE  PairInv' /\ CountInv'
<1>. /\ BrokerTypeOK /\ WorkerTypeOK /\ UNCHANGED enqueued
     /\ life \in Nat
  BY BrokerAssumption DEF TypeOK, WorkerStep, producerVars, WorkerTypeOK
<1>1. CASE WorkerStart
  <2>1. life + 1 \in Lives /\ \A c \in Lives : c \in Nat
    BY <1>1, BrokerAssumption DEF WorkerStart, Lives
  <2>2. \A c \in Conns : c # life + 1 => linked'[c] = linked[c] /\ open'[c] = open[c]
    BY <1>1, <2>1 DEF WorkerStart, Connect, BrokerTypeOK
  <2>3. /\ UNCHANGED <<copies, wire>>
        /\ life' = life + 1 /\ proc = "down"
    BY <1>1 DEF WorkerStart
  <2>4. \A c \in Lives : ~open[c]
    BY <2>3 DEF LinkInv
  <2>5. \A c \in Lives : c # life + 1 => Due(c) /\ Due(c)' /\ (Owes(c) <=> Owes(c)')
    BY <2>2, <2>3, <2>4 DEF Due, Owes
  <2>6. wire[life + 1] = <<>>
    <3>1. ~linked[life + 1]
      BY <2>1 DEF LinkInv
    <3>. QED BY <2>1, <3>1 DEF LinkInv
  <2>7. PairInv'
    <3>1. \A c \in Lives : PairedIn(<<>>, Due(c)')
      BY DEF PairedIn
    <3>2. \A c \in Lives : c # life + 1 /\ linked[c] => PairedIn(wire[c], Due(c)')
      BY <2>5, PairedWiden DEF PairInv
    <3>3. \A c \in Lives : linked'[c] => PairedIn(wire'[c], Due(c)')
      BY <2>2, <2>3, <2>6, <3>1, <3>2
    <3>. QED BY <3>3 DEF PairInv
  <2>8. 1..life \subseteq Lives /\ life + 1 \notin 1..life
    BY BrokerAssumption DEF TypeOK, WorkerTypeOK, Lives
  <2>9. OwedKept
    BY <2>5, <2>8 DEF OwedKept
  <2>10. NotAcked' = NotAcked /\ Written' = Written
    BY <2>3 DEF NotAcked, Written
  <2>. QED BY <2>3, <2>7, <2>9, <2>10, CountKept
<1>2. CASE WorkerExit \/ WorkerCrash
  <2>1. /\ life \in Lives
        /\ UNCHANGED <<copies, wire, linked, life>>
    BY <1>2, LifeIsConn DEF WorkerExit, WorkerCrash
  <2>2. \A c \in Conns : open'[c] => c # life /\ open[c]
    BY <1>2, <2>1 DEF WorkerExit, WorkerCrash, BrokerTypeOK
  <2>3. \A c \in Lives : Due(c)'
    BY <2>2 DEF LinkInv, Due
  <2>4. NotAcked' = NotAcked
    BY <2>1 DEF NotAcked
  <2>. QED BY <2>1, <2>3, <2>4, CountQuiet
<1>3. CASE RejectInvalid \/ AckDuplicate \/ BeginProcessing
  <2>1. Take
    BY <1>3 DEF RejectInvalid, AckDuplicate, BeginProcessing
  <2>2. life \in Lives /\ Incoming \in Nat
    BY <2>1, TakeTyped
  <2>3. UNCHANGED <<copies, linked, open, life>> /\ proc = "idle"
    BY <2>1 DEF Take
  <2>4. CASE RejectInvalid
    BY <2>2, <2>3, <2>4, FramesTyped, CountSend DEF RejectInvalid, Nack
  <2>5. CASE AckDuplicate
    BY <2>2, <2>3, <2>5, FramesTyped, CountSend DEF AckDuplicate, Ack
  <2>6. CASE BeginProcessing
    <3>1. UNCHANGED wire /\ NotAcked' = NotAcked
      BY <2>3, <2>6 DEF BeginProcessing, NotAcked
    <3>2. \A c \in Lives : Due(c) => Due(c)'
      BY <2>3 DEF Due
    <3>. QED BY <2>3, <3>1, <3>2, CountQuiet
  <2>. QED BY <1>3, <2>4, <2>5, <2>6
<1>4. CASE \/ ProcessSucceeds \/ AckProcessed \/ DeadLetter
           \/ Republish \/ RepublishFails \/ AckRepublished
  <2>1. proc \in {"processing", "processed", "republished"}
    BY <1>4 DEF ProcessSucceeds, AckProcessed, DeadLetter, Republish, RepublishFails, AckRepublished
  <2>2. /\ life \in Lives /\ cur \in Nat
        /\ NextAttempt(Job) \in Body
    BY <2>1, InHandTyped DEF WorkerTypeOK
  <2>3. UNCHANGED <<copies, linked, open, inbox, life>>
    BY <1>4 DEF ProcessSucceeds, AckProcessed, DeadLetter, Republish, RepublishFails,
                AckRepublished, Finished
  <2>4. CASE ProcessSucceeds \/ RepublishFails
    <3>1. UNCHANGED wire /\ proc = "processing"
      BY <2>4 DEF ProcessSucceeds, RepublishFails
    <3>2. NotAcked' = NotAcked
      BY <2>3 DEF NotAcked
    <3>3. \A c \in Lives : Due(c) => Due(c)'
      BY <2>3, <3>1 DEF Due
    <3>. QED BY <2>3, <3>1, <3>2, <3>3, CountQuiet
  <2>5. CASE AckProcessed \/ AckRepublished
    BY <2>2, <2>3, <2>5, FramesTyped, CountSend DEF AckProcessed, AckRepublished, Ack
  <2>6. CASE DeadLetter
    BY <2>2, <2>3, <2>6, FramesTyped, CountSend DEF DeadLetter, Nack
  <2>7. CASE Republish
    BY <2>2, <2>3, <2>7, FramesTyped, CountSend DEF Republish, Finished
  <2>. QED BY <1>4, <2>4, <2>5, <2>6, <2>7
<1>. QED BY <1>1, <1>2, <1>3, <1>4 DEF WorkerStep, Handle

-----------------------------------------------------------------------------
(* Messages from outside. *)

LEMMA CountPublishers ==
  ASSUME TypeOK, TypeOK', LinkInv, PairInv, CountInv, ProducerStep \/ ForeignStep
  PROVE  PairInv' /\ CountInv'
<1>. /\ BrokerTypeOK /\ ProducerTypeOK /\ UNCHANGED <<life, proc>>
     /\ life \in Nat /\ 1..life \subseteq Lives
     /\ enqueued \in Nat /\ Cardinality(Written) \in Nat
  BY BrokerAssumption, ProducerAssumption, FS_CardinalityType
     DEF TypeOK, ProducerStep, ForeignStep, workerVars, WorkerTypeOK, ProducerTypeOK, Lives, CountInv
<1>1. ASSUME NEW p \in Producers, StartService(p)
      PROVE  PairInv' /\ CountInv'
  <2>1. /\ \A c \in Lives : linked'[c] = linked[c] /\ open'[c] = open[c]
        /\ UNCHANGED <<copies, wire, enqueued>>
    BY <1>1, ConnsApart DEF StartService, Connect, BrokerTypeOK
  <2>2. \A c \in Lives : Due(c)' = Due(c)
    BY <2>1 DEF Due
  <2>3. OwedKept
    BY <2>1, <2>2 DEF OwedKept, Owes
  <2>4. NotAcked' = NotAcked /\ Written' = Written
    BY <2>1 DEF NotAcked, Written
  <2>5. CountInv'
    BY <2>1, <2>3, <2>4, CountKept
  <2>. QED BY <2>1, <2>2, <2>5 DEF PairInv
<1>2. ASSUME NEW p \in Producers, NEW m \in MsgIds, NEW t \in Tasks, EnqueueProcessTask(p, m, t)
      PROVE  PairInv' /\ CountInv'
  <2>. DEFINE f == [op |-> "publish", body |-> [mid |-> m, task |-> t, attempt |-> 1]]
  <2>1. f \in Frame
    BY FramesTyped DEF Body, ProcessTaskJob
  <2>2. Send(p, f)
    BY <1>2 DEF EnqueueProcessTask, NewJob
  <2>3. UNCHANGED <<copies, linked, open>> /\ enqueued' = enqueued + 1
    BY <1>2 DEF EnqueueProcessTask
  <2>. HIDE DEF f
  <2>4. \A c \in Lives : wire'[c] = wire[c]
    BY <1>2, <2>1, <2>2, SendTyped, ConnsApart
  <2>5. /\ IsFiniteSet(Written') /\ Cardinality(Written') \in Nat
        /\ Cardinality(Written') <= Cardinality(Written) + 1
    BY <1>2, <2>1, <2>2, WrittenSend DEF CountInv
  <2>6. \A c \in Lives : Due(c)' = Due(c)
    BY <2>3 DEF Due
  <2>7. OwedKept
    BY <2>3, <2>4, <2>6 DEF OwedKept, Owes
  <2>8. Cardinality(NotAcked') = Cardinality(NotAcked) + 0
    BY <2>3, NotAckedFinite DEF NotAcked
  <2>9. CountInv'
    BY <2>3, <2>5, <2>7, <2>8, CountFrom
  <2>. QED BY <2>3, <2>4, <2>6, <2>9 DEF PairInv
<1>3. ASSUME NEW b \in ForeignBodies, ForeignPublish(b)
      PROVE  PairInv' /\ CountInv'
  <2>1. b \in Body
    BY PipelineAssumption
  <2>2. UNCHANGED <<wire, linked, open>> /\ enqueued' = enqueued + 1
    BY <1>3 DEF ForeignPublish
  <2>3. Cardinality(NotAcked') = Cardinality(NotAcked) + 1
    BY <1>3, <2>1, OneMore DEF ForeignPublish
  <2>4. \A c \in Lives : Due(c)' = Due(c)
    BY <2>2 DEF Due
  <2>5. OwedKept
    BY <2>2, <2>4 DEF OwedKept, Owes
  <2>6. Written' = Written /\ IsFiniteSet(Written)
    BY <2>2 DEF Written, CountInv
  <2>7. CountInv'
    BY <2>2, <2>3, <2>5, <2>6, CountFrom
  <2>. QED BY <2>2, <2>4, <2>7 DEF PairInv
<1>. QED BY <1>1, <1>2, <1>3 DEF ProducerStep, ForeignStep

LEMMA CountInit == Init => PairInv /\ CountInv
<1>. SUFFICES ASSUME Init PROVE PairInv /\ CountInv
  OBVIOUS
<1>1. copies = <<>> /\ wire = [c \in Conns |-> <<>>] /\ life = 0 /\ enqueued = 0
  BY DEF Init, BrokerInit, WorkerInit, ProducerInit
<1>2. NotAcked = {} /\ Written = {} /\ Owing = {}
  BY <1>1 DEF NotAcked, Written, Owing
<1>3. PairInv
  BY <1>1 DEF PairInv, PairedIn
<1>. QED BY <1>1, <1>2, <1>3, FS_EmptySet DEF CountInv

LEMMA CountStepKept ==
  TypeOK /\ TypeOK' /\ LinkInv /\ SettleInv /\ PairInv /\ CountInv /\ [Next]_vars
     => PairInv' /\ CountInv'
<1>1. TypeOK /\ TypeOK' /\ PairInv /\ CountInv /\ UNCHANGED vars => PairInv' /\ CountInv'
  <2>. SUFFICES ASSUME TypeOK, TypeOK', PairInv, CountInv, UNCHANGED vars
                PROVE  PairInv' /\ CountInv'
    OBVIOUS
  <2>1. UNCHANGED <<copies, wire, linked, open, life, proc, enqueued>>
    BY DEF vars, brokerVars, workerVars, producerVars
  <2>2. NotAcked' = NotAcked
    BY <2>1 DEF NotAcked
  <2>. QED BY <2>1, <2>2, CountQuiet DEF Due
<1>. QED BY <1>1, CountBroker, CountLinks, CountWorker, CountPublishers DEF Next

\* Retries, breaks and restarts leave at most one message per life of the worker
\* more than were put in from outside, whatever the number of lives.
THEOREM RetriesDoNotMultiply == Spec => []DuplicationBounded
<1>1. TypeOK /\ CountInv => DuplicationBounded
  <2>. SUFFICES ASSUME TypeOK, CountInv
                PROVE  Cardinality(NotAcked) <= enqueued + life
    BY DEF DuplicationBounded, NotAcked
  <2>1. /\ life \in Nat /\ enqueued \in Nat
        /\ Cardinality(NotAcked) \in Nat /\ Cardinality(Written) \in Nat
        /\ Cardinality(Owing) \in Nat /\ Cardinality(Owing) <= life
    BY BrokerAssumption, ProducerAssumption, NotAckedFinite, OwingFinite, FS_CardinalityType
       DEF TypeOK, WorkerTypeOK, ProducerTypeOK, CountInv
  <2>. QED BY <2>1 DEF CountInv
<1>. QED BY <1>1, TypeCorrect, LinkInit, LinkStepKept, SettleInit, SettleStepKept,
            CountInit, CountStepKept, PTL DEF Spec
=============================================================================
