------------------------- MODULE JobDeliveryProofs -------------------------
(***************************************************************************)
(* No job is lost, accepted jobs are tracked, the pipeline implements      *)
(* at-least-once delivery, and no job is dead-lettered early, for every    *)
(* number of lives, connections and messages and every prefetch.           *)
(***************************************************************************)
EXTENDS JobPipelineProofs

USE DEF Conns, NoConn

-----------------------------------------------------------------------------
(***************************************************************************)
(* Why no job is lost.                                                     *)
(*                                                                         *)
(* A copy is acked only once its id was processed or the copy of its next  *)
(* attempt is published, and the wire keeps the publish before the ack.    *)
(* So the copy with the highest attempt of an id that was never processed  *)
(* is not acked.                                                           *)
(***************************************************************************)

AttemptOf(b) == Normalise(b).attempt

\* <<k, b>>: b is the body of the retry of copy k.
RetryPairs ==
  {p \in (DOMAIN copies) \X ProcessTaskJob :
     LET a == copies[p[1]].body
     IN a # Malformed /\ p[2].mid = a.mid /\ AttemptOf(p[2]) = AttemptOf(a) + 1}

\* The copies that may be acked without losing their id.
Covered ==
  {k \in DOMAIN copies :
     /\ copies[k].body # Malformed
     /\ \/ effects[copies[k].body.mid] > 0
        \/ \E j \in DOMAIN copies : <<k, copies[j].body>> \in RetryPairs}

\* A retry of copy k is among the frames of w before position n.
RetryBefore(w, n, k, R) ==
  \E j \in DOMAIN w : j < n /\ w[j].op = "publish" /\ <<k, w[j].body>> \in R

\* Every ack in w names a copy of A, or follows the publish of its retry.
AcksCovered(w, A, R) ==
  \A i \in DOMAIN w : w[i].op = "ack" => w[i].copy \in A \/ RetryBefore(w, i, w[i].copy, R)

\* One copy of each id the queue has taken is on the highest attempt.
HighestAttempt(m) ==
  \E k \in DOMAIN copies :
    /\ Of(k, m)
    /\ \A j \in DOMAIN copies : Of(j, m) => AttemptOf(copies[j].body) <= AttemptOf(copies[k].body)

HighestInv == \A m \in MsgIds : Known(m) => HighestAttempt(m)
AckedInv   == \A k \in DOMAIN copies : copies[k].st = "acked" => k \in Covered
AcksInv    == \A c \in Lives : AcksCovered(wire[c], Covered, RetryPairs)
SeenInv    == \A m \in seen : effects[m] > 0

\* The ack that the worker is about to send will be one of those.
AckDueInv ==
  /\ proc = "processed" => cur \in Covered
  /\ proc = "republished" /\ linked[life] =>
       cur \in Covered \/ RetryBefore(wire[life], Len(wire[life]) + 1, cur, RetryPairs)

LossInv == HighestInv /\ AckedInv /\ AcksInv /\ SeenInv /\ AckDueInv

-----------------------------------------------------------------------------
(* Acks and retries in a sequence of frames. *)

LEMMA AcksWiden ==
  ASSUME NEW w, NEW A, NEW R, NEW B, NEW Q, A \subseteq B, R \subseteq Q
  PROVE  /\ AcksCovered(w, A, R) => AcksCovered(w, B, Q)
         /\ \A n, k : RetryBefore(w, n, k, R) => RetryBefore(w, n, k, Q)
<1>1. \A n, k : RetryBefore(w, n, k, R) => RetryBefore(w, n, k, Q)
  BY DEF RetryBefore
<1>. QED BY <1>1 DEF AcksCovered

LEMMA AcksAppend ==
  ASSUME NEW w \in Seq(Frame), NEW f \in Frame, NEW A, NEW R, AcksCovered(w, A, R),
         f.op = "ack" => f.copy \in A \/ RetryBefore(w, Len(w) + 1, f.copy, R)
  PROVE  /\ AcksCovered(Append(w, f), A, R)
         /\ \A k : f.op = "publish" /\ <<k, f.body>> \in R =>
                     RetryBefore(Append(w, f), Len(Append(w, f)) + 1, k, R)
<1>. DEFINE v == Append(w, f)
            n == Len(w) + 1
<1>1. /\ DOMAIN w = 1..Len(w) /\ DOMAIN v = 1..n /\ Len(w) \in Nat /\ Len(v) = n
      /\ \A j \in DOMAIN w : v[j] = w[j]
      /\ v[n] = f
  BY SeqAppend, LenProperties
<1>2. n = Len(w) + 1
  OBVIOUS
<1>. HIDE DEF v, n
<1>3. /\ DOMAIN w \subseteq DOMAIN v
      /\ \A j \in DOMAIN v : j = n \/ (j \in DOMAIN w /\ v[j] = w[j])
  BY <1>1, <1>2
<1>4. \A m, k : RetryBefore(w, m, k, R) => RetryBefore(v, m, k, R)
  BY <1>1, <1>3 DEF RetryBefore
<1>5. AcksCovered(v, A, R)
  BY <1>1, <1>2, <1>3, <1>4 DEF AcksCovered
<1>6. n \in DOMAIN v /\ n < Len(v) + 1
  BY <1>1, <1>2
<1>7. \A k : f.op = "publish" /\ <<k, f.body>> \in R => RetryBefore(v, Len(v) + 1, k, R)
  BY <1>1, <1>6 DEF RetryBefore
<1>. QED BY <1>5, <1>7 DEF v

\* The first frame is read: a retry it carries is published.
LEMMA AcksTail ==
  ASSUME NEW w \in Seq(Frame), w # <<>>, NEW A, NEW R, AcksCovered(w, A, R),
         NEW B, NEW Q, A \subseteq B, R \subseteq Q,
         \A k : Head(w).op = "publish" /\ <<k, Head(w).body>> \in R => k \in B
  PROVE  /\ AcksCovered(Tail(w), B, Q)
         /\ \A k : RetryBefore(w, Len(w) + 1, k, R) =>
                     k \in B \/ RetryBefore(Tail(w), Len(Tail(w)) + 1, k, Q)
         /\ Head(w).op = "ack" => Head(w).copy \in A
<1>. DEFINE v == Tail(w)
            h == Head(w)
<1>1. /\ h = w[1] /\ 1 \in DOMAIN w
      /\ DOMAIN w = 1..Len(w) /\ DOMAIN v = 1..(Len(w) - 1) /\ Len(w) \in Nat
      /\ Len(v) = Len(w) - 1
      /\ \A j \in DOMAIN v : v[j] = w[j + 1] /\ j + 1 \in DOMAIN w
  BY SeqTail, LenProperties
<1>. HIDE DEF v, h
<1>2. \A j \in DOMAIN w : j = 1 \/ (j - 1 \in DOMAIN v /\ v[j - 1] = w[j])
  <2>. SUFFICES ASSUME NEW j \in DOMAIN w, j # 1
                PROVE  j - 1 \in DOMAIN v /\ v[j - 1] = w[j]
    OBVIOUS
  <2>1. j - 1 \in DOMAIN v /\ (j - 1) + 1 = j
    BY <1>1
  <2>. QED BY <1>1, <2>1
<1>3. ASSUME NEW n \in Int, NEW k, RetryBefore(w, n + 1, k, R)
      PROVE  k \in B \/ RetryBefore(v, n, k, Q)
  <2>1. PICK j \in DOMAIN w : j < n + 1 /\ w[j].op = "publish" /\ <<k, w[j].body>> \in R
    BY <1>3 DEF RetryBefore
  <2>2. CASE j = 1
    BY <1>1, <2>1, <2>2 DEF h
  <2>3. CASE j - 1 \in DOMAIN v /\ v[j - 1] = w[j]
    <3>1. j - 1 < n
      BY <1>1, <2>1
    <3>. QED BY <2>1, <2>3, <3>1 DEF RetryBefore
  <2>. QED BY <1>2, <2>2, <2>3
<1>4. AcksCovered(v, B, Q)
  <2>. SUFFICES ASSUME NEW i \in DOMAIN v, v[i].op = "ack"
                PROVE  v[i].copy \in B \/ RetryBefore(v, i, v[i].copy, Q)
    BY DEF AcksCovered
  <2>1. i \in Int /\ v[i] = w[i + 1] /\ i + 1 \in DOMAIN w
    BY <1>1
  <2>2. v[i].copy \in A \/ RetryBefore(w, i + 1, v[i].copy, R)
    BY <2>1 DEF AcksCovered
  <2>. QED BY <1>3, <2>1, <2>2
<1>5. \A k : RetryBefore(w, Len(w) + 1, k, R) => k \in B \/ RetryBefore(v, Len(v) + 1, k, Q)
  <2>1. Len(v) + 1 = Len(w) /\ Len(w) \in Int
    BY <1>1
  <2>. QED BY <1>3, <2>1
<1>6. h.op = "ack" => h.copy \in A
  <2>0. \A j \in DOMAIN w : ~(j < 1)
    BY <1>1
  <2>1. \A k : ~RetryBefore(w, 1, k, R)
    BY <2>0 DEF RetryBefore
  <2>. QED BY <1>1, <2>1 DEF AcksCovered
<1>. QED BY <1>4, <1>5, <1>6 DEF v, h

LEMMA AcksEmpty == \A A, R : AcksCovered(<<>>, A, R)
  BY DEF AcksCovered

-----------------------------------------------------------------------------
(* What a step that only adds copies, and effects, keeps. *)

EffectsKept == \A m \in MsgIds : effects[m] > 0 => effects'[m] > 0

LEMMA BodyTyped ==
  ASSUME BrokerTypeOK, NEW k \in DOMAIN copies
  PROVE  /\ copies[k].body \in Body
         /\ copies[k].st \in {"ready", "unacked", "acked", "dead"}
         /\ copies[k].body # Malformed =>
              /\ copies[k].body \in ProcessTaskJob
              /\ copies[k].body.mid \in MsgIds
              /\ AttemptOf(copies[k].body) \in Int
<1>1. copies[k] \in Copy
  BY ElementOfSeq, LenProperties DEF BrokerTypeOK
<1>2. copies[k].body \in Body /\ copies[k].st \in {"ready", "unacked", "acked", "dead"}
  BY <1>1 DEF Copy
<1>. QED BY <1>2, JobTyped DEF AttemptOf, Body, ProcessTaskJob

LEMMA CoveredGrows ==
  ASSUME BrokerTypeOK, BodiesKept, EffectsKept
  PROVE  Covered \subseteq Covered' /\ RetryPairs \subseteq RetryPairs'
<1>1. RetryPairs \subseteq RetryPairs'
  BY DEF RetryPairs, BodiesKept
<1>2. Covered \subseteq Covered'
  <2>. SUFFICES ASSUME NEW k \in Covered
                PROVE  k \in Covered'
    OBVIOUS
  <2>1. /\ k \in DOMAIN copies /\ k \in DOMAIN copies'
        /\ copies'[k].body = copies[k].body /\ copies[k].body # Malformed
        /\ copies[k].body.mid \in MsgIds
    BY BodyTyped DEF Covered, BodiesKept
  <2>2. CASE effects[copies[k].body.mid] > 0
    BY <2>1, <2>2 DEF Covered, EffectsKept
  <2>3. CASE \E j \in DOMAIN copies : <<k, copies[j].body>> \in RetryPairs
    <3>1. \E j \in DOMAIN copies' : <<k, copies'[j].body>> \in RetryPairs'
      BY <1>1, <2>3 DEF BodiesKept
    <3>. QED BY <2>1, <3>1 DEF Covered
  <2>. QED BY <2>2, <2>3 DEF Covered
<1>. QED BY <1>1, <1>2

LEMMA HighestSame ==
  ASSUME HighestInv, BodiesKept, DOMAIN copies' = DOMAIN copies
  PROVE  HighestInv'
  BY DEF HighestInv, HighestAttempt, Known, Of, BodiesKept

\* A new copy is the highest one of its id, or the highest one stays so.
LEMMA HighestAdded ==
  ASSUME BrokerTypeOK, HighestInv, BodiesKept, NEW b \in Body,
         \A k \in DOMAIN copies' : k \in DOMAIN copies \/ copies'[k].body = b
  PROVE  HighestInv'
<1>. SUFFICES ASSUME NEW m \in MsgIds, NEW k \in DOMAIN copies', Of(k, m)'
              PROVE  HighestAttempt(m)'
  BY DEF HighestInv, Known
<1>1. \A j \in DOMAIN copies : Of(j, m)' <=> Of(j, m)
  BY DEF Of, BodiesKept
<1>2. \A j \in DOMAIN copies :
        Of(j, m) => AttemptOf(copies[j].body) \in Int /\ copies'[j].body = copies[j].body
  BY BodyTyped DEF Of, BodiesKept
<1>3. b # Malformed => AttemptOf(b) \in Int
  BY JobTyped DEF AttemptOf, ProcessTaskJob
<1>4. CASE \E h \in DOMAIN copies : Of(h, m)
  <2>1. PICK h \in DOMAIN copies :
          /\ Of(h, m)
          /\ \A j \in DOMAIN copies :
               Of(j, m) => AttemptOf(copies[j].body) <= AttemptOf(copies[h].body)
    BY <1>4 DEF HighestInv, HighestAttempt, Known
  <2>2. h \in DOMAIN copies' /\ Of(h, m)' /\ copies'[h].body = copies[h].body
    BY <1>1, <1>2, <2>1 DEF BodiesKept
  <2>3. CASE \E n \in DOMAIN copies' : /\ n \notin DOMAIN copies /\ Of(n, m)'
                                       /\ ~(AttemptOf(b) <= AttemptOf(copies[h].body))
    <3>1. PICK n \in DOMAIN copies' : n \notin DOMAIN copies /\ Of(n, m)'
      BY <2>3
    <3>2. copies'[n].body = b /\ b # Malformed
      BY <3>1 DEF Of
    <3>3. \A j \in DOMAIN copies' : Of(j, m)' => AttemptOf(copies'[j].body) <= AttemptOf(b)
      BY <1>1, <1>2, <1>3, <2>1, <2>3, <3>2
    <3>. QED BY <3>1, <3>2, <3>3 DEF HighestAttempt
  <2>4. CASE ~\E n \in DOMAIN copies' : /\ n \notin DOMAIN copies /\ Of(n, m)'
                                        /\ ~(AttemptOf(b) <= AttemptOf(copies[h].body))
    <3>1. \A j \in DOMAIN copies' :
            Of(j, m)' => AttemptOf(copies'[j].body) <= AttemptOf(copies'[h].body)
      BY <1>1, <1>2, <2>1, <2>2, <2>4
    <3>. QED BY <2>2, <3>1 DEF HighestAttempt
  <2>. QED BY <2>3, <2>4
<1>5. CASE ~\E h \in DOMAIN copies : Of(h, m)
  <2>1. \A j \in DOMAIN copies' : Of(j, m)' => copies'[j].body = b
    BY <1>1, <1>5
  <2>2. copies'[k].body = b /\ b # Malformed
    BY <2>1 DEF Of
  <2>3. \A j \in DOMAIN copies' : Of(j, m)' => AttemptOf(copies'[j].body) <= AttemptOf(copies'[k].body)
    BY <1>3, <2>1, <2>2
  <2>. QED BY <2>3 DEF HighestAttempt
<1>. QED BY <1>4, <1>5

\* The highest copy of an id that was not processed is not acked.
LEMMA LossImplied == BrokerTypeOK /\ LossInv => NoJobLost
<1>. SUFFICES ASSUME BrokerTypeOK, LossInv, NEW m \in MsgIds, Known(m)
              PROVE  LiveCopy(m) \/ effects[m] > 0 \/ DeadCopy(m)
  BY DEF NoJobLost
<1>1. PICK k \in DOMAIN copies :
        /\ Of(k, m)
        /\ \A j \in DOMAIN copies :
             Of(j, m) => AttemptOf(copies[j].body) <= AttemptOf(copies[k].body)
  BY DEF LossInv, HighestInv, HighestAttempt
<1>2. CASE copies[k].st = "acked"
  <2>1. k \in Covered
    BY <1>2 DEF LossInv, AckedInv
  <2>2. ASSUME NEW j \in DOMAIN copies, <<k, copies[j].body>> \in RetryPairs
        PROVE  FALSE
    <3>1. /\ copies[j].body \in ProcessTaskJob
          /\ copies[j].body.mid = copies[k].body.mid
          /\ AttemptOf(copies[j].body) = AttemptOf(copies[k].body) + 1
      BY <2>2 DEF RetryPairs
    <3>2. Of(j, m)
      BY <1>1, <3>1, JobsAssumption DEF Of
    <3>3. AttemptOf(copies[k].body) \in Int
      BY <1>1, BodyTyped DEF Of
    <3>. QED BY <1>1, <3>1, <3>2, <3>3
  <2>. QED BY <1>1, <2>1, <2>2 DEF Covered, Of
<1>3. CASE copies[k].st = "dead"
  BY <1>1, <1>3 DEF DeadCopy
<1>4. CASE Live(k)
  BY <1>1, <1>4 DEF LiveCopy
<1>. QED BY <1>2, <1>3, <1>4, BodyTyped DEF Live

-----------------------------------------------------------------------------
(* The steps. *)

LEMMA LossInit == Init => LossInv
<1>. SUFFICES ASSUME Init PROVE LossInv
  OBVIOUS
<1>1. copies = <<>> /\ (\A c \in Lives : wire[c] = <<>>) /\ seen = {} /\ proc = "down"
  BY DEF Init, BrokerInit, WorkerInit
<1>2. HighestInv /\ AckedInv
  BY <1>1 DEF HighestInv, AckedInv, Known
<1>3. AcksInv
  BY <1>1, AcksEmpty DEF AcksInv
<1>. QED BY <1>1, <1>2, <1>3 DEF LossInv, SeenInv, AckDueInv

\* The wires and the worker are as they were.
LEMMA LossQuiet ==
  ASSUME BrokerTypeOK, WorkerTypeOK, LossInv, BodiesKept, EffectsKept,
         HighestInv', AckedInv',
         UNCHANGED <<life, proc, cur, seen>>,
         \A c \in Lives : wire'[c] = wire[c],
         \A c \in Lives : linked'[c] => linked[c],
         proc # "down" => life \in Lives
  PROVE  LossInv'
<1>1. Covered \subseteq Covered' /\ RetryPairs \subseteq RetryPairs'
  BY CoveredGrows
<1>2. AcksInv'
  BY <1>1, AcksWiden DEF LossInv, AcksInv
<1>3. SeenInv'
  BY DEF LossInv, SeenInv, EffectsKept, WorkerTypeOK
<1>4. AckDueInv'
  BY <1>1, AcksWiden DEF LossInv, AckDueInv
<1>. QED BY <1>2, <1>3, <1>4 DEF LossInv

\* The broker reads a frame of connection c.
LEMMA LossRead ==
  ASSUME BrokerTypeOK, LossInv, BodiesKept, UNCHANGED <<workerVars, linked>>,
         proc # "down" => life \in Lives,
         NEW c \in Conns, wire[c] # <<>>,
         wire'[c] = Tail(wire[c]),
         \A d \in Conns : d # c => wire'[d] = wire[d],
         Head(wire[c]).op = "publish" =>
           \E k \in DOMAIN copies' : copies'[k].body = Head(wire[c]).body
  PROVE  AcksInv' /\ SeenInv' /\ AckDueInv'
<1>. /\ UNCHANGED <<life, proc, cur, seen, effects>>
     /\ EffectsKept
  BY DEF workerVars, EffectsKept
<1>. DEFINE A == Covered
            B == Covered'
            R == RetryPairs
            Q == RetryPairs'
            w == wire[c]
<1>1. A \subseteq B /\ R \subseteq Q
  BY CoveredGrows
<1>2. \A k : Head(w).op = "publish" /\ <<k, Head(w).body>> \in R => k \in B
  <2>. SUFFICES ASSUME NEW k, Head(w).op = "publish", <<k, Head(w).body>> \in R
                PROVE  k \in B
    OBVIOUS
  <2>1. <<k, Head(w).body>> \in Q /\ k \in DOMAIN copies /\ copies[k].body # Malformed
    BY <1>1 DEF RetryPairs
  <2>2. k \in DOMAIN copies' /\ copies'[k].body # Malformed
    BY <2>1 DEF BodiesKept
  <2>3. \E j \in DOMAIN copies' : <<k, copies'[j].body>> \in RetryPairs'
    BY <2>1
  <2>. QED BY <2>2, <2>3 DEF Covered
<1>3. c \in Lives => AcksCovered(w, A, R)
  BY DEF LossInv, AcksInv
<1>4. w \in Seq(Frame) /\ w # <<>>
  BY DEF BrokerTypeOK
<1>5. c \in Lives =>
        /\ AcksCovered(Tail(w), B, Q)
        /\ \A k : RetryBefore(w, Len(w) + 1, k, R) =>
                    k \in B \/ RetryBefore(Tail(w), Len(Tail(w)) + 1, k, Q)
  <2>. HIDE DEF A, B, R, Q, w
  <2>. QED BY <1>1, <1>2, <1>3, <1>4, AcksTail
<1>6. AcksInv'
  <2>1. \A d \in Lives : d # c => AcksCovered(wire'[d], B, Q)
    BY <1>1, AcksWiden DEF LossInv, AcksInv
  <2>. QED BY <1>5, <2>1 DEF AcksInv
<1>7. SeenInv'
  BY DEF LossInv, SeenInv
<1>8. AckDueInv'
  <2>1. CASE proc = "republished" /\ linked[life]
    <3>1. cur \in A \/ RetryBefore(wire[life], Len(wire[life]) + 1, cur, R)
      BY <2>1 DEF LossInv, AckDueInv
    <3>2. cur \in B \/ RetryBefore(wire'[life], Len(wire'[life]) + 1, cur, Q)
      <4>1. CASE life = c
        BY <1>1, <1>5, <2>1, <3>1, <4>1
      <4>2. CASE life # c
        <5>1. wire'[life] = wire[life]
          BY <2>1, <4>2
        <5>. QED BY <1>1, <3>1, <5>1, AcksWiden
      <4>. QED BY <4>1, <4>2
    <3>. QED BY <2>1, <3>2 DEF AckDueInv
  <2>2. CASE ~(proc = "republished" /\ linked[life])
    BY <1>1, <2>2 DEF LossInv, AckDueInv
  <2>. QED BY <2>1, <2>2
<1>. QED BY <1>6, <1>7, <1>8

LEMMA LossBroker ==
  ASSUME TypeOK, LinkInv, LossInv, BrokerStep
  PROVE  LossInv'
<1>. BrokerTypeOK /\ WorkerTypeOK /\ UNCHANGED workerVars
  BY DEF TypeOK, BrokerStep
<1>0. /\ UNCHANGED <<life, proc, cur, seen, effects>>
      /\ EffectsKept
      /\ proc # "down" => life \in Lives
  BY LifeIsConn DEF workerVars, EffectsKept
<1>1. CASE \E c \in Conns : BrokerPublish(c)
  <2>. PICK c \in Conns : BrokerPublish(c)
    BY <1>1
  <2>. DEFINE b == Head(wire[c]).body
  <2>1. /\ \A k \in DOMAIN copies' :
             \/ k \in DOMAIN copies /\ copies'[k] = copies[k]
             \/ k \notin DOMAIN copies /\ copies'[k].st = "ready" /\ copies'[k].body = b
        /\ \E k \in DOMAIN copies' : copies'[k].body = b
        /\ b \in Body
        /\ wire[c] # <<>> /\ wire'[c] = Tail(wire[c])
        /\ \A d \in Conns : d # c => wire'[d] = wire[d]
    BY PublishFacts
  <2>2. BodiesKept /\ UNCHANGED linked
    BY BrokerPublishTyped DEF BrokerPublish
  <2>. HIDE DEF b
  <2>3. HighestInv'
    BY <2>1, <2>2, HighestAdded DEF LossInv
  <2>4. AckedInv'
    BY <1>0, <2>1, <2>2, CoveredGrows DEF LossInv, AckedInv
  <2>5. AcksInv' /\ SeenInv' /\ AckDueInv'
    BY <1>0, <2>1, <2>2, LossRead DEF b
  <2>. QED BY <2>3, <2>4, <2>5 DEF LossInv
<1>2. CASE \E c \in Conns : BrokerSettle(c)
  <2>. PICK c \in Conns : BrokerSettle(c)
    BY <1>2
  <2>1. /\ DOMAIN copies' = DOMAIN copies
        /\ \A k \in DOMAIN copies :
             IF k = Head(wire[c]).copy THEN copies'[k].st = SettledAs(Head(wire[c]).op)
                                       ELSE copies'[k] = copies[k]
        /\ wire[c] # <<>> /\ wire[c] \in Seq(Frame) /\ Head(wire[c]).op # "publish"
        /\ wire'[c] = Tail(wire[c])
        /\ \A d \in Conns : d # c => wire'[d] = wire[d]
    BY SettleFacts
  <2>2. BodiesKept /\ UNCHANGED linked
    BY BrokerSettleTyped DEF BrokerSettle
  <2>3. HighestInv'
    BY <2>1, <2>2, HighestSame DEF LossInv
  <2>4. c \in Lives
    <3>1. Head(wire[c]) = wire[c][1] /\ 1 \in DOMAIN wire[c]
      BY <2>1, SeqTail
    <3>. QED BY <2>1, <3>1 DEF LinkInv
  <2>5. Head(wire[c]).op = "ack" => Head(wire[c]).copy \in Covered
    <3>. DEFINE A == Covered
                R == RetryPairs
                w == wire[c]
    <3>1. w \in Seq(Frame) /\ w # <<>> /\ AcksCovered(w, A, R) /\ Head(w).op # "publish"
      BY <2>1, <2>4 DEF LossInv, AcksInv
    <3>. HIDE DEF A, R, w
    <3>2. Head(w).op = "ack" => Head(w).copy \in A
      BY <3>1, AcksTail
    <3>. QED BY <3>2 DEF A, w
  <2>6. AckedInv'
    <3>1. Covered \subseteq Covered'
      BY <1>0, <2>2, CoveredGrows
    <3>. QED BY <2>1, <2>5, <3>1 DEF LossInv, AckedInv, SettledAs
  <2>7. AcksInv' /\ SeenInv' /\ AckDueInv'
    BY <1>0, <2>1, <2>2, LossRead
  <2>. QED BY <2>3, <2>6, <2>7 DEF LossInv
<1>3. CASE \E c \in Lives, k \in DOMAIN copies : Deliver(c, k)
  <2>. PICK c \in Lives, k \in DOMAIN copies : Deliver(c, k)
    BY <1>3
  <2>1. /\ DOMAIN copies' = DOMAIN copies
        /\ copies'[k].st = "unacked"
        /\ \A j \in DOMAIN copies : j # k => copies'[j] = copies[j]
    BY DeliverFacts
  <2>2. BodiesKept /\ UNCHANGED <<wire, linked>>
    BY DeliverTyped DEF Deliver
  <2>3. HighestInv'
    BY <2>1, <2>2, HighestSame DEF LossInv
  <2>4. AckedInv'
    BY <1>0, <2>1, <2>2, CoveredGrows DEF LossInv, AckedInv
  <2>. QED BY <1>0, <2>2, <2>3, <2>4, LossQuiet
<1>. QED BY <1>1, <1>2, <1>3 DEF BrokerStep

LEMMA LossLinks ==
  ASSUME TypeOK, LossInv, LinkStep
  PROVE  LossInv'
<1>. BrokerTypeOK /\ WorkerTypeOK /\ UNCHANGED workerVars
  BY DEF TypeOK, LinkStep
<1>0. /\ UNCHANGED <<life, proc, cur, seen, effects>>
      /\ EffectsKept
      /\ proc # "down" => life \in Lives
  BY LifeIsConn DEF workerVars, EffectsKept
<1>1. PICK c \in Conns : BrokerClose(c) \/ ClientClose(c)
  BY DEF LinkStep, BreakByBroker, BreakByClient, FinishClose
<1>2. CASE BrokerClose(c)
  <2>1. /\ DOMAIN copies' = DOMAIN copies
        /\ \A k \in DOMAIN copies : copies'[k].st = "ready" \/ copies'[k] = copies[k]
        /\ wire'[c] = <<>> /\ ~linked'[c]
        /\ \A d \in Conns : d # c => wire'[d] = wire[d] /\ linked'[d] = linked[d]
    BY <1>2, CloseFacts
  <2>2. BodiesKept
    BY <1>2, BrokerCloseTyped
  <2>3. Covered \subseteq Covered' /\ RetryPairs \subseteq RetryPairs'
    BY <1>0, <2>2, CoveredGrows
  <2>4. HighestInv' /\ AckedInv'
    BY <2>1, <2>2, <2>3, HighestSame DEF LossInv, AckedInv
  <2>5. AcksInv'
    BY <2>1, <2>3, AcksWiden, AcksEmpty DEF LossInv, AcksInv
  <2>6. SeenInv'
    BY <1>0 DEF LossInv, SeenInv
  <2>7. AckDueInv'
    <3>1. CASE proc = "republished" /\ linked'[life]
      <4>1. wire'[life] = wire[life] /\ linked[life]
        BY <1>0, <2>1, <3>1
      <4>2. cur \in Covered \/ RetryBefore(wire[life], Len(wire[life]) + 1, cur, RetryPairs)
        BY <3>1, <4>1 DEF LossInv, AckDueInv
      <4>3. cur \in Covered' \/ RetryBefore(wire'[life], Len(wire'[life]) + 1, cur, RetryPairs')
        BY <2>3, <4>1, <4>2, AcksWiden
      <4>. QED BY <1>0, <3>1, <4>3 DEF AckDueInv
    <3>2. CASE ~(proc = "republished" /\ linked'[life])
      BY <1>0, <2>3, <3>2 DEF LossInv, AckDueInv
    <3>. QED BY <3>1, <3>2
  <2>. QED BY <2>4, <2>5, <2>6, <2>7 DEF LossInv
<1>3. CASE ClientClose(c)
  <2>1. UNCHANGED <<copies, wire, linked>>
    BY <1>3 DEF ClientClose
  <2>2. BodiesKept
    BY <2>1 DEF BodiesKept
  <2>3. HighestInv' /\ AckedInv'
    BY <1>0, <2>1, <2>2, HighestSame, CoveredGrows DEF LossInv, AckedInv
  <2>. QED BY <1>0, <2>1, <2>2, <2>3, LossQuiet
<1>. QED BY <1>1, <1>2, <1>3

\* The worker's own steps change no copy.
LEMMA LossWorkerKeeps ==
  ASSUME TypeOK, LossInv, UNCHANGED copies, EffectsKept
  PROVE  /\ HighestInv' /\ AckedInv'
         /\ Covered \subseteq Covered' /\ RetryPairs \subseteq RetryPairs'
         /\ (\A c \in Lives : wire'[c] = wire[c]) => AcksInv'
         /\ seen' = seen => SeenInv'
<1>. BrokerTypeOK /\ WorkerTypeOK
  BY DEF TypeOK
<1>1. BodiesKept /\ DOMAIN copies' = DOMAIN copies
  BY DEF BodiesKept
<1>2. Covered \subseteq Covered' /\ RetryPairs \subseteq RetryPairs'
  BY <1>1, CoveredGrows
<1>3. HighestInv' /\ AckedInv'
  BY <1>1, <1>2, HighestSame DEF LossInv, AckedInv
<1>4. (\A c \in Lives : wire'[c] = wire[c]) => AcksInv'
  BY <1>2, AcksWiden DEF LossInv, AcksInv
<1>5. seen' = seen => SeenInv'
  BY DEF LossInv, SeenInv, EffectsKept, WorkerTypeOK
<1>. QED BY <1>2, <1>3, <1>4, <1>5

\* The worker writes frame f; what it acks, on a connection the broker holds, is
\* covered.
LEMMA LossWrite ==
  ASSUME TypeOK, LossInv, life \in Lives, NEW f \in Frame, Send(life, f),
         UNCHANGED <<copies, linked, life, seen, effects>>,
         f.op = "ack" /\ linked[life] =>
           \/ f.copy \in Covered
           \/ RetryBefore(wire[life], Len(wire[life]) + 1, f.copy, RetryPairs)
  PROVE  /\ HighestInv' /\ AckedInv' /\ AcksInv' /\ SeenInv'
         /\ linked[life] /\ open[life] => wire'[life] = Append(wire[life], f)
         /\ RetryPairs \subseteq RetryPairs'
         /\ wire[life] \in Seq(Frame) /\ AcksCovered(wire[life], Covered, RetryPairs)
<1>. BrokerTypeOK
  BY DEF TypeOK
<1>. DEFINE A == Covered
            R == RetryPairs
            w == wire[life]
<1>1. /\ \A d \in Lives : d # life => wire'[d] = wire[d]
      /\ wire'[life] = IF open[life] /\ linked[life] THEN Append(w, f) ELSE w
  BY SendTyped
<1>2. EffectsKept
  BY DEF EffectsKept
<1>3. /\ HighestInv' /\ AckedInv' /\ SeenInv'
      /\ A \subseteq Covered' /\ R \subseteq RetryPairs'
  BY <1>2, LossWorkerKeeps
<1>4. w \in Seq(Frame) /\ AcksCovered(w, A, R)
  BY DEF BrokerTypeOK, LossInv, AcksInv
<1>5. linked[life] => AcksCovered(Append(w, f), A, R)
  <2>1. f.op = "ack" /\ linked[life] => f.copy \in A \/ RetryBefore(w, Len(w) + 1, f.copy, R)
    OBVIOUS
  <2>. HIDE DEF A, R, w
  <2>. QED BY <1>4, <2>1, AcksAppend
<1>6. \A d \in Lives : AcksCovered(wire'[d], A, R)
  BY <1>1, <1>4, <1>5 DEF LossInv, AcksInv
<1>7. AcksInv'
  BY <1>3, <1>6, AcksWiden DEF AcksInv
<1>. QED BY <1>1, <1>3, <1>4, <1>7

LEMMA LossTake ==
  ASSUME TypeOK, LossInv, RejectInvalid \/ AckDuplicate \/ BeginProcessing
  PROVE  LossInv'
<1>. BrokerTypeOK /\ WorkerTypeOK
  BY DEF TypeOK
<1>1. Take
  BY DEF RejectInvalid, AckDuplicate, BeginProcessing
<1>2. life \in Lives /\ Incoming \in Nat /\ Incoming \in DOMAIN copies
  BY <1>1, TakeTyped
<1>3. UNCHANGED <<copies, linked, open, life, seen, effects>> /\ EffectsKept
  BY <1>1 DEF Take, EffectsKept
<1>4. AckDueInv'
  <2>1. proc' # "processed" /\ proc' # "republished"
    BY DEF RejectInvalid, AckDuplicate, BeginProcessing, Take
  <2>. QED BY <2>1 DEF AckDueInv
<1>5. CASE RejectInvalid
  <2>. DEFINE f == [op |-> "nack", copy |-> Incoming]
  <2>1. f \in Frame /\ f.op # "ack" /\ Send(life, f)
    BY <1>2, <1>5, FramesTyped DEF RejectInvalid, Nack
  <2>. HIDE DEF f
  <2>. QED BY <1>2, <1>3, <1>4, <2>1, LossWrite DEF LossInv
<1>6. CASE AckDuplicate
  <2>. DEFINE f == [op |-> "ack", copy |-> Incoming]
  <2>1. f \in Frame /\ f.copy = Incoming /\ Send(life, f)
    BY <1>2, <1>6, FramesTyped DEF AckDuplicate, Ack
  <2>2. Incoming \in Covered
    BY <1>2, <1>6 DEF AckDuplicate, IsDuplicate, LossInv, SeenInv, Covered
  <2>. HIDE DEF f
  <2>. QED BY <1>2, <1>3, <1>4, <2>1, <2>2, LossWrite DEF LossInv
<1>7. CASE BeginProcessing
  BY <1>3, <1>4, <1>7, LossWorkerKeeps DEF BeginProcessing, LossInv
<1>. QED BY <1>5, <1>6, <1>7

LEMMA LossFinish ==
  ASSUME TypeOK, LossInv,
         \/ ProcessSucceeds \/ AckProcessed \/ DeadLetter
         \/ Republish \/ RepublishFails \/ AckRepublished
  PROVE  LossInv'
<1>. BrokerTypeOK /\ WorkerTypeOK
  BY DEF TypeOK
<1>1. proc \in {"processing", "processed", "republished"}
  BY DEF ProcessSucceeds, AckProcessed, DeadLetter, Republish, RepublishFails, AckRepublished
<1>2. /\ life \in Lives /\ cur \in Nat /\ cur \in DOMAIN copies
      /\ copies[cur].body # Malformed /\ copies[cur].body \in Body
      /\ Job.mid = copies[cur].body.mid /\ Job.mid \in MsgIds
  BY <1>1, InHandTyped DEF WorkerTypeOK
<1>3. UNCHANGED <<copies, linked, open, life>>
  BY DEF ProcessSucceeds, AckProcessed, DeadLetter, Republish, RepublishFails,
         AckRepublished, Finished
<1>4. ASSUME NEW f \in Frame, f.op # "publish", f.copy = cur, Send(life, f),
             UNCHANGED <<seen, effects>>, proc' = "idle",
             f.op = "ack" => proc \in {"processed", "republished"}
      PROVE  LossInv'
  <2>1. f.op = "ack" /\ linked[life] =>
          f.copy \in Covered \/ RetryBefore(wire[life], Len(wire[life]) + 1, f.copy, RetryPairs)
    BY <1>4 DEF LossInv, AckDueInv
  <2>2. AckDueInv'
    BY <1>4 DEF AckDueInv
  <2>. QED BY <1>2, <1>3, <1>4, <2>1, <2>2, LossWrite DEF LossInv
<1>5. CASE AckProcessed \/ AckRepublished
  BY <1>2, <1>4, <1>5, FramesTyped DEF AckProcessed, AckRepublished, Ack, Finished
<1>6. CASE DeadLetter
  BY <1>2, <1>4, <1>6, FramesTyped DEF DeadLetter, Nack, Finished
<1>7. CASE RepublishFails
  <2>1. UNCHANGED <<wire, seen, effects>> /\ proc' = "idle" /\ EffectsKept
    BY <1>7 DEF RepublishFails, Finished, EffectsKept
  <2>. QED BY <1>3, <2>1, LossWorkerKeeps DEF LossInv, AckDueInv
<1>8. CASE Republish
  <2>. DEFINE b == NextAttempt(Job)
              f == [op |-> "publish", body |-> b]
  <2>1. <<cur, b>> \in RetryPairs /\ b \in Body
    <3>1. /\ b \in ProcessTaskJob /\ b.mid = copies[cur].body.mid
          /\ Job \in ProcessTaskJob
      BY <1>2, JobTyped DEF Job
    <3>2. AttemptOf(b) = AttemptOf(copies[cur].body) + 1
      <4>1. Job.attempt \in Int /\ Job.attempt > 0
        BY <1>2, JobsAssumption DEF Job, Normalise, Body, ProcessTaskJob
      <4>2. b.attempt = Job.attempt + 1
        BY <3>1 DEF NextAttempt, ProcessTaskJob
      <4>. QED BY <4>1, <4>2 DEF AttemptOf, Normalise, Job
    <3>. QED BY <1>2, <3>1, <3>2 DEF RetryPairs, Body
  <2>2. f \in Frame /\ f.op = "publish" /\ f.body = b
    BY <2>1, FramesTyped
  <2>3. Send(life, f) /\ open[life] /\ proc' = "republished" /\ cur' = cur
    BY <1>8 DEF Republish, Finished
  <2>4. UNCHANGED <<seen, effects>>
    BY <1>8 DEF Republish
  <2>. HIDE DEF f, b
  <2>5. /\ HighestInv' /\ AckedInv' /\ AcksInv' /\ SeenInv'
        /\ linked[life] => wire'[life] = Append(wire[life], f)
        /\ RetryPairs \subseteq RetryPairs'
        /\ wire[life] \in Seq(Frame) /\ AcksCovered(wire[life], Covered, RetryPairs)
    BY <1>2, <1>3, <2>1, <2>2, <2>3, <2>4, LossWrite
  <2>6. linked[life] => RetryBefore(wire'[life], Len(wire'[life]) + 1, cur, RetryPairs)
    <3>. DEFINE A == Covered
                R == RetryPairs
                w == wire[life]
    <3>1. w \in Seq(Frame) /\ AcksCovered(w, A, R) /\ <<cur, f.body>> \in R
      BY <2>1, <2>2, <2>5
    <3>. HIDE DEF A, R, w
    <3>2. RetryBefore(Append(w, f), Len(Append(w, f)) + 1, cur, R)
      BY <2>2, <3>1, AcksAppend
    <3>. QED BY <2>5, <3>2 DEF R, w
  <2>7. AckDueInv'
    BY <1>3, <2>3, <2>5, <2>6 DEF AckDueInv, RetryBefore
  <2>. QED BY <2>5, <2>7 DEF LossInv
<1>9. CASE ProcessSucceeds
  <2>1. /\ \A m \in MsgIds : effects'[m] = IF m = Job.mid THEN effects[m] + 1 ELSE effects[m]
        /\ \A m \in MsgIds : effects[m] \in Nat
    BY <1>9 DEF ProcessSucceeds, WorkerTypeOK
  <2>2. EffectsKept /\ effects'[Job.mid] > 0
    BY <1>2, <2>1 DEF EffectsKept
  <2>3. /\ seen' = seen \cup {Job.mid} /\ proc' = "processed" /\ cur' = cur
        /\ UNCHANGED wire
    BY <1>9 DEF ProcessSucceeds, Marked, Finished
  <2>4. HighestInv' /\ AckedInv' /\ AcksInv'
    BY <1>3, <2>2, <2>3, LossWorkerKeeps
  <2>5. SeenInv'
    BY <2>2, <2>3 DEF LossInv, SeenInv, EffectsKept, WorkerTypeOK
  <2>6. cur' \in Covered'
    BY <1>2, <1>3, <2>2, <2>3 DEF Covered
  <2>. QED BY <2>3, <2>4, <2>5, <2>6 DEF LossInv, AckDueInv
<1>. QED BY <1>5, <1>6, <1>7, <1>8, <1>9

LEMMA LossStartStop ==
  ASSUME TypeOK, LossInv, WorkerStart \/ WorkerExit \/ WorkerCrash
  PROVE  LossInv'
<1>1. UNCHANGED <<copies, wire, effects>> /\ EffectsKept /\ seen' \in {{}, seen}
  BY DEF WorkerStart, WorkerExit, WorkerCrash, NewSeen, EffectsKept
<1>2. proc' # "processed" /\ proc' # "republished"
  BY DEF WorkerStart, WorkerExit, WorkerCrash
<1>. QED BY <1>1, <1>2, LossWorkerKeeps DEF LossInv, SeenInv, AckDueInv

LEMMA LossPublishers ==
  ASSUME TypeOK, LossInv, ProducerStep \/ ForeignStep
  PROVE  LossInv'
<1>. BrokerTypeOK /\ WorkerTypeOK /\ UNCHANGED workerVars
  BY DEF TypeOK, ProducerStep, ForeignStep
<1>0. /\ UNCHANGED <<life, proc, cur, seen, effects>>
      /\ EffectsKept
      /\ proc # "down" => life \in Lives
  BY LifeIsConn DEF workerVars, EffectsKept
<1>1. ASSUME NEW p \in Producers,
             StartService(p) \/ \E m \in MsgIds, t \in Tasks : EnqueueProcessTask(p, m, t)
      PROVE  LossInv'
  <2>1. /\ \A c \in Lives : wire'[c] = wire[c] /\ linked'[c] = linked[c]
        /\ UNCHANGED copies
    BY <1>1, ConnsApart DEF StartService, Connect, EnqueueProcessTask, Send, BrokerTypeOK
  <2>2. BodiesKept /\ HighestInv' /\ AckedInv'
    BY <1>0, <2>1, LossWorkerKeeps DEF BodiesKept
  <2>. QED BY <1>0, <2>1, <2>2, LossQuiet
<1>2. ASSUME NEW b \in ForeignBodies, ForeignPublish(b)
      PROVE  LossInv'
  <2>1. b \in Body
    BY PipelineAssumption
  <2>2. \A k \in DOMAIN copies' :
          \/ k \in DOMAIN copies /\ copies'[k] = copies[k]
          \/ k \notin DOMAIN copies /\ copies'[k].st = "ready" /\ copies'[k].body = b
    BY <1>2, <2>1, AppendFacts DEF ForeignPublish
  <2>3. BodiesKept /\ UNCHANGED <<wire, linked>>
    BY <1>2, <2>1, AppendCopyTyped DEF ForeignPublish
  <2>4. HighestInv'
    BY <2>1, <2>2, <2>3, HighestAdded DEF LossInv
  <2>5. AckedInv'
    BY <1>0, <2>2, <2>3, CoveredGrows DEF LossInv, AckedInv
  <2>. QED BY <1>0, <2>3, <2>4, <2>5, LossQuiet
<1>. QED BY <1>1, <1>2 DEF ProducerStep, ForeignStep

LEMMA LossStepKept == TypeOK /\ LinkInv /\ LossInv /\ [Next]_vars => LossInv'
<1>1. TypeOK /\ LossInv /\ UNCHANGED vars => LossInv'
  <2>. SUFFICES ASSUME TypeOK, LossInv, UNCHANGED vars PROVE LossInv'
    OBVIOUS
  <2>1. /\ UNCHANGED <<copies, wire, linked, life, proc, cur, seen, effects>>
        /\ BrokerTypeOK /\ WorkerTypeOK
    BY DEF TypeOK, vars, brokerVars, workerVars
  <2>2. EffectsKept /\ BodiesKept /\ (proc # "down" => life \in Lives)
    BY <2>1, LifeIsConn DEF EffectsKept, BodiesKept
  <2>. QED BY <2>1, <2>2, LossWorkerKeeps, LossQuiet
<1>. QED BY <1>1, LossBroker, LossLinks, LossTake, LossFinish, LossStartStop,
            LossPublishers DEF Next, WorkerStep, Handle

\* An id the queue has taken always has a copy still to be handled, or was
\* processed, or is in the dead-letter queue, whatever breaks and restarts: handle()
\* publishes a retry before it acks the original, on the same channel.
THEOREM NothingLost == Spec => []NoJobLost
<1>1. TypeOK /\ LossInv => NoJobLost
  BY LossImplied DEF TypeOK
<1>. QED BY <1>1, TypeCorrect, LinkInit, LinkStepKept, LossInit, LossStepKept, PTL DEF Spec

-----------------------------------------------------------------------------
(***************************************************************************)
(* The pipeline implements JobDelivery.                                    *)
(*                                                                         *)
(* That only an outstanding id is executed needs the copy in hand to be    *)
(* live, even when its connection is gone and the broker took it back;     *)
(* that an id stops being outstanding only with an outcome is NoJobLost.   *)
(***************************************************************************)

AtHand(k) == k = cur \/ \E i \in DOMAIN inbox[life] : inbox[life][i] = k

HandLive ==
  life # 0 =>
    \A k \in DOMAIN copies :
      AtHand(k) => Live(k) /\ \A c \in Lives : ~NamedIn(wire[c], k)

\* What is at hand stays as it is, or leaves the hand.
LEMMA HandKept ==
  ASSUME TypeOK, HandLive, life' = life,
         \A k \in DOMAIN copies : Live(k) /\ AtHand(k)' => k \in DOMAIN copies' /\ Live(k)',
         \A k \in DOMAIN copies' : life # 0 /\ AtHand(k)' => k \in DOMAIN copies /\ AtHand(k),
         \A k \in DOMAIN copies, c \in Lives :
           AtHand(k)' /\ NamedIn(wire'[c], k) => NamedIn(wire[c], k)
  PROVE  HandLive'
  BY DEF HandLive

LEMMA AtHandCopy ==
  ASSUME TypeOK, life # 0, NEW k, AtHand(k), k # 0
  PROVE  k \in DOMAIN copies
<1>1. inbox[life] \in Seq(DOMAIN copies)
  BY LifeRange DEF TypeOK, BrokerTypeOK
<1>2. \A i \in DOMAIN inbox[life] : inbox[life][i] \in DOMAIN copies
  BY <1>1, ElementOfSeq, LenProperties
<1>. QED BY <1>2 DEF AtHand, TypeOK, WorkerTypeOK

LEMMA HandBroker ==
  ASSUME TypeOK, LinkInv, SettleInv, HandLive, BrokerStep
  PROVE  HandLive'
<1>. BrokerTypeOK /\ UNCHANGED <<life, cur>>
  BY DEF TypeOK, BrokerStep, workerVars
<1>1. CASE \E c \in Conns : BrokerPublish(c)
  <2>. PICK c \in Conns : BrokerPublish(c)
    BY <1>1
  <2>1. /\ \A k \in DOMAIN copies : k \in DOMAIN copies' => copies'[k] = copies[k]
        /\ wire[c] # <<>>
        /\ UNCHANGED inbox
        /\ wire' = [wire EXCEPT ![c] = Tail(@)]
    BY PublishFacts DEF BrokerPublish
  <2>2. DOMAIN copies \subseteq DOMAIN copies' /\ 0 \notin DOMAIN copies'
    BY BrokerPublishTyped, LenProperties DEF BodiesKept, BrokerTypeOK
  <2>3. \A k \in DOMAIN copies' : life # 0 /\ AtHand(k)' => k \in DOMAIN copies /\ AtHand(k)
    BY <2>1, <2>2, AtHandCopy DEF AtHand
  <2>4. \A k, d : d \in Lives /\ NamedIn(wire'[d], k) => NamedIn(wire[d], k)
    BY <2>1, ReadFacts DEF NamedIn
  <2>5. \A k \in DOMAIN copies : Live(k) => Live(k)'
    BY <2>1, <2>2 DEF Live
  <2>. QED BY <2>2, <2>3, <2>4, <2>5, HandKept
<1>2. CASE \E c \in Conns : BrokerSettle(c)
  <2>. PICK c \in Conns : BrokerSettle(c)
    BY <1>2
  <2>. DEFINE n == Head(wire[c]).copy
  <2>1. /\ DOMAIN copies' = DOMAIN copies
        /\ \A k \in DOMAIN copies : k # n => copies'[k] = copies[k]
        /\ wire[c] # <<>> /\ wire[c] \in Seq(Frame) /\ Head(wire[c]).op # "publish"
        /\ UNCHANGED inbox
        /\ wire' = [wire EXCEPT ![c] = Tail(@)]
    BY SettleFacts DEF BrokerSettle
  <2>2. c \in Lives /\ NamedIn(wire[c], n)
    <3>1. Head(wire[c]) = wire[c][1] /\ 1 \in DOMAIN wire[c]
      BY <2>1, SeqTail
    <3>. QED BY <2>1, <3>1 DEF LinkInv, NamedIn
  <2>3. \A k : AtHand(k)' <=> AtHand(k)
    BY <2>1 DEF AtHand
  <2>4. \A k, d : d \in Lives /\ NamedIn(wire'[d], k) => NamedIn(wire[d], k)
    BY <2>1, ReadFacts DEF NamedIn
  <2>5. \A k \in DOMAIN copies : life # 0 /\ AtHand(k) => k # n
    BY <2>2 DEF HandLive
  <2>. HIDE DEF n
  <2>. QED BY <2>1, <2>3, <2>4, <2>5 DEF HandLive, Live
<1>3. CASE \E c \in Lives, k \in DOMAIN copies : Deliver(c, k)
  <2>. PICK c \in Lives, k \in DOMAIN copies : Deliver(c, k)
    BY <1>3
  <2>1. /\ DOMAIN copies' = DOMAIN copies
        /\ copies'[k].st = "unacked"
        /\ \A j \in DOMAIN copies : j # k => copies'[j] = copies[j]
        /\ \A d \in Lives : k \notin HeldBy(d)
    BY DeliverFacts
  <2>2. UNCHANGED wire
    BY DEF Deliver
  <2>3. \A d \in Lives : ~NamedIn(wire[d], k)
    BY <2>1, NamedHeld, ValidByLife DEF SettleInv
  <2>4. \A j : life # 0 /\ AtHand(j)' => j = k \/ AtHand(j)
    <3>. SUFFICES ASSUME life # 0, NEW j, AtHand(j)'
                  PROVE  j = k \/ AtHand(j)
      OBVIOUS
    <3>1. life \in Lives
      BY LifeRange
    <3>2. inbox'[life] = inbox[life] \/ inbox'[life] = Append(inbox[life], k)
      BY <3>1 DEF Deliver, BrokerTypeOK
    <3>3. inbox[life] \in Seq(DOMAIN copies)
      BY <3>1 DEF BrokerTypeOK
    <3>4. \A i \in DOMAIN Append(inbox[life], k) :
            \/ Append(inbox[life], k)[i] = k
            \/ i \in DOMAIN inbox[life] /\ Append(inbox[life], k)[i] = inbox[life][i]
      BY <3>3, SeqAppend, LenProperties
    <3>. QED BY <3>2, <3>4 DEF AtHand
  <2>. QED BY <2>1, <2>2, <2>3, <2>4 DEF HandLive, Live
<1>. QED BY <1>1, <1>2, <1>3 DEF BrokerStep

LEMMA HandLinks ==
  ASSUME TypeOK, HandLive, LinkStep
  PROVE  HandLive'
<1>. BrokerTypeOK /\ UNCHANGED <<life, cur>>
  BY DEF TypeOK, LinkStep, workerVars
<1>1. PICK c \in Conns : BrokerClose(c) \/ ClientClose(c)
  BY DEF LinkStep, BreakByBroker, BreakByClient, FinishClose
<1>2. UNCHANGED inbox
  BY <1>1 DEF BrokerClose, ClientClose
<1>3. \A k : AtHand(k)' <=> AtHand(k)
  BY <1>2 DEF AtHand
<1>4. CASE BrokerClose(c)
  <2>1. /\ DOMAIN copies' = DOMAIN copies
        /\ \A k \in DOMAIN copies : copies'[k].st = "ready" \/ copies'[k] = copies[k]
        /\ \A d \in Lives : wire'[d] = <<>> \/ wire'[d] = wire[d]
    BY <1>4, CloseFacts
  <2>2. \A k, d : d \in Lives /\ NamedIn(wire'[d], k) => NamedIn(wire[d], k)
    BY <2>1, ValidEmpty
  <2>. QED BY <1>3, <2>1, <2>2 DEF HandLive, Live
<1>5. CASE ClientClose(c)
  BY <1>3, <1>5 DEF ClientClose, HandLive, Live
<1>. QED BY <1>1, <1>4, <1>5

LEMMA HandWorker ==
  ASSUME TypeOK, LinkInv, SettleInv, HandLive, WorkerStep
  PROVE  HandLive'
<1>. BrokerTypeOK /\ WorkerTypeOK
  BY DEF TypeOK
<1>0. 0 \notin DOMAIN copies
  BY LenProperties DEF BrokerTypeOK
<1>1. CASE WorkerStart \/ WorkerExit \/ WorkerCrash
  <2>1. UNCHANGED copies /\ cur' = 0 /\ inbox'[life'] = <<>>
    <3>1. CASE WorkerStart
      <4>1. life + 1 \in Lives /\ cur = 0 /\ proc = "down"
        BY <3>1, BrokerAssumption DEF WorkerStart, WorkerTypeOK, Lives
      <4>. QED BY <3>1, <4>1 DEF WorkerStart, LinkInv
    <3>2. CASE WorkerExit \/ WorkerCrash
      <4>1. life \in Lives
        BY <3>2, LifeIsConn DEF WorkerExit, WorkerCrash
      <4>. QED BY <3>2, <4>1 DEF WorkerExit, WorkerCrash, WorkerTypeOK, BrokerTypeOK
    <3>. QED BY <1>1, <3>1, <3>2
  <2>2. \A k \in DOMAIN copies' : ~AtHand(k)'
    BY <1>0, <2>1 DEF AtHand
  <2>. QED BY <2>2 DEF HandLive
\* Nothing is written, or a frame that settles nothing at hand any more.
<1>2. ASSUME life \in Lives, UNCHANGED <<copies, life>>,
             \A k \in DOMAIN copies : AtHand(k)' => AtHand(k),
             UNCHANGED wire \/ \E f \in Frame :
               /\ Send(life, f)
               /\ linked[life] /\ f.op # "publish" => ~AtHand(f.copy)'
      PROVE  HandLive'
  <2>1. ASSUME NEW k \in DOMAIN copies, AtHand(k)', NEW c \in Lives, NamedIn(wire'[c], k)
        PROVE  NamedIn(wire[c], k)
    <3>1. CASE UNCHANGED wire
      BY <2>1, <3>1
    <3>2. CASE \E f \in Frame : /\ Send(life, f)
                                /\ linked[life] /\ f.op # "publish" => ~AtHand(f.copy)'
      <4>. PICK f \in Frame : /\ Send(life, f)
                              /\ linked[life] /\ f.op # "publish" => ~AtHand(f.copy)'
        BY <3>2
      <4>1. /\ \A d \in Conns : d # life => wire'[d] = wire[d]
            /\ wire'[life] = IF open[life] /\ linked[life] THEN Append(wire[life], f)
                                                           ELSE wire[life]
        BY <1>2, SendTyped
      <4>2. CASE c = life /\ linked[life] /\ wire'[life] = Append(wire[life], f)
        <5>1. wire[life] \in Seq(Frame)
          BY <1>2 DEF BrokerTypeOK
        <5>2. \A i \in DOMAIN Append(wire[life], f) :
                \/ Append(wire[life], f)[i] = f
                \/ i \in DOMAIN wire[life] /\ Append(wire[life], f)[i] = wire[life][i]
          BY <5>1, SeqAppend, LenProperties
        <5>3. NamedIn(wire[life], k) \/ (f.op # "publish" /\ f.copy = k)
          BY <2>1, <4>2, <5>2 DEF NamedIn
        <5>. QED BY <2>1, <4>2, <5>3
      <4>3. CASE wire'[c] = wire[c]
        BY <2>1, <4>3
      <4>. QED BY <4>1, <4>2, <4>3
    <3>. QED BY <1>2, <3>1, <3>2
  <2>2. \A k \in DOMAIN copies : Live(k) => Live(k)'
    BY <1>2 DEF Live
  <2>. QED BY <1>2, <2>1, <2>2, HandKept
<1>3. CASE RejectInvalid \/ AckDuplicate \/ BeginProcessing
  <2>1. Take
    BY <1>3 DEF RejectInvalid, AckDuplicate, BeginProcessing
  <2>2. life \in Lives /\ Incoming \in DOMAIN copies /\ Incoming \in Nat
    BY <2>1, TakeTyped
  <2>3. /\ UNCHANGED <<copies, life>> /\ inbox'[life] = Tail(inbox[life])
        /\ cur = 0 /\ life # 0
        /\ inbox[life] # <<>> /\ inbox[life] \in Seq(DOMAIN copies)
    BY <2>1, <2>2, BrokerAssumption DEF Take, BrokerTypeOK, WorkerTypeOK, Lives
  <2>4. /\ Incoming = inbox[life][1] /\ 1 \in DOMAIN inbox[life]
        /\ \A i \in DOMAIN Tail(inbox[life]) :
             Tail(inbox[life])[i] = inbox[life][i + 1] /\ i + 1 \in DOMAIN inbox[life]
    BY <2>3, SeqTail DEF Incoming
  <2>5. cur' \in {0, Incoming}
    BY <1>3, <2>3 DEF RejectInvalid, AckDuplicate, BeginProcessing
  <2>6. \A k \in DOMAIN copies : AtHand(k)' => AtHand(k)
    BY <1>0, <2>3, <2>4, <2>5 DEF AtHand
  <2>7. linked[life] /\ cur' = 0 => \A k : k = Incoming => ~AtHand(k)'
    <3>. DEFINE box == inbox[life]
                w == wire[life]
                H == HeldBy(life)
    <3>1. linked[life] => InHand(box, 0, w, H)
      BY <2>3 DEF SettleInv, Carried
    <3>2. linked[life] => InHand(Tail(box), Head(box), w, H)
      <4>1. box \in Seq(DOMAIN copies) /\ box # <<>> /\ 0 \notin DOMAIN copies
        BY <1>0, <2>3
      <4>. HIDE DEF box, w, H
      <4>. QED BY <3>1, <4>1, InHandTake
    <3>3. linked[life] => \A i \in DOMAIN Tail(box) : Tail(box)[i] # Incoming
      BY <3>2 DEF InHand, Incoming
    <3>. QED BY <1>0, <2>2, <2>3, <3>3 DEF AtHand
  <2>8. CASE RejectInvalid
    <3>1. \E f \in Frame : Send(life, f) /\ f.copy = Incoming /\ cur' = 0
      BY <2>2, <2>3, <2>8, FramesTyped DEF RejectInvalid, Nack
    <3>. QED BY <1>2, <2>2, <2>3, <2>6, <2>7, <3>1
  <2>9. CASE AckDuplicate
    <3>1. \E f \in Frame : Send(life, f) /\ f.copy = Incoming /\ cur' = 0
      BY <2>2, <2>3, <2>9, FramesTyped DEF AckDuplicate, Ack
    <3>. QED BY <1>2, <2>2, <2>3, <2>6, <2>7, <3>1
  <2>10. CASE BeginProcessing
    <3>1. UNCHANGED wire
      BY <2>10 DEF BeginProcessing
    <3>. QED BY <1>2, <2>2, <2>3, <2>6, <3>1
  <2>. QED BY <1>3, <2>8, <2>9, <2>10
<1>4. CASE \/ ProcessSucceeds \/ AckProcessed \/ DeadLetter
           \/ Republish \/ RepublishFails \/ AckRepublished
  <2>1. proc \in {"processing", "processed", "republished"}
    BY <1>4 DEF ProcessSucceeds, AckProcessed, DeadLetter, Republish, RepublishFails, AckRepublished
  <2>2. /\ life \in Lives /\ cur \in Nat /\ cur \in DOMAIN copies /\ life # 0
        /\ NextAttempt(Job) \in Body
    BY <2>1, InHandTyped, BrokerAssumption DEF WorkerTypeOK, Lives
  <2>3. UNCHANGED <<copies, inbox, life>> /\ cur' \in {0, cur}
    BY <1>4 DEF ProcessSucceeds, AckProcessed, DeadLetter, Republish, RepublishFails,
                AckRepublished, Finished
  <2>4. \A k \in DOMAIN copies : AtHand(k)' => AtHand(k)
    BY <1>0, <2>3 DEF AtHand
  <2>5. linked[life] /\ cur' = 0 => \A k : k = cur => ~AtHand(k)'
    BY <1>0, <2>2, <2>3 DEF SettleInv, Carried, InHand, AtHand
  <2>6. CASE ProcessSucceeds \/ RepublishFails
    <3>1. UNCHANGED wire
      BY <2>6 DEF ProcessSucceeds, RepublishFails
    <3>. QED BY <1>2, <2>2, <2>3, <2>4, <3>1
  <2>7. CASE AckProcessed \/ AckRepublished
    <3>1. \E f \in Frame : Send(life, f) /\ f.copy = cur /\ cur' = 0
      BY <2>2, <2>7, FramesTyped DEF AckProcessed, AckRepublished, Ack, Finished
    <3>. QED BY <1>2, <2>2, <2>3, <2>4, <2>5, <3>1
  <2>8. CASE DeadLetter
    <3>1. \E f \in Frame : Send(life, f) /\ f.copy = cur /\ cur' = 0
      BY <2>2, <2>8, FramesTyped DEF DeadLetter, Nack, Finished
    <3>. QED BY <1>2, <2>2, <2>3, <2>4, <2>5, <3>1
  <2>9. CASE Republish
    <3>1. \E f \in Frame : Send(life, f) /\ f.op = "publish"
      BY <2>2, <2>9, FramesTyped DEF Republish
    <3>. QED BY <1>2, <2>2, <2>3, <2>4, <3>1
  <2>. QED BY <1>4, <2>6, <2>7, <2>8, <2>9
<1>. QED BY <1>1, <1>3, <1>4 DEF WorkerStep, Handle

LEMMA HandPublishers ==
  ASSUME TypeOK, HandLive, ProducerStep \/ ForeignStep
  PROVE  HandLive'
<1>. BrokerTypeOK /\ UNCHANGED <<life, cur>>
  BY DEF TypeOK, ProducerStep, ForeignStep, workerVars
<1>1. CASE ProducerStep
  <2>1. /\ \A c \in Lives : wire'[c] = wire[c]
        /\ UNCHANGED <<copies, inbox>>
    BY <1>1, ConnsApart DEF ProducerStep, StartService, Connect, EnqueueProcessTask, Send, BrokerTypeOK
  <2>. QED BY <2>1 DEF HandLive, AtHand, Live
<1>2. CASE ForeignStep
  <2>. PICK b \in ForeignBodies : ForeignPublish(b)
    BY <1>2 DEF ForeignStep
  <2>1. b \in Body
    BY PipelineAssumption
  <2>2. \A k \in DOMAIN copies : k \in DOMAIN copies' => copies'[k] = copies[k]
    BY <2>1, AppendFacts DEF ForeignPublish
  <2>3. DOMAIN copies \subseteq DOMAIN copies' /\ 0 \notin DOMAIN copies'
    BY <2>1, AppendCopyTyped, LenProperties DEF ForeignPublish, BodiesKept
  <2>4. UNCHANGED <<wire, inbox>>
    BY DEF ForeignPublish
  <2>5. \A k \in DOMAIN copies' : life # 0 /\ AtHand(k)' => k \in DOMAIN copies /\ AtHand(k)
    BY <2>3, <2>4, AtHandCopy DEF AtHand
  <2>. QED BY <2>2, <2>3, <2>4, <2>5 DEF HandLive, Live
<1>. QED BY <1>1, <1>2

LEMMA HandStepKept == TypeOK /\ LinkInv /\ SettleInv /\ HandLive /\ [Next]_vars => HandLive'
<1>1. HandLive /\ UNCHANGED vars => HandLive'
  BY DEF HandLive, AtHand, Live, vars, brokerVars, workerVars
<1>. QED BY <1>1, HandBroker, HandLinks, HandWorker, HandPublishers DEF Next

\* The state of JobDelivery, as the pipeline has it.
Outstanding == {m \in MsgIds : LiveCopy(m)}
Executed    == {m \in MsgIds : effects[m] > 0}
Buried      == {m \in MsgIds : DeadCopy(m)}

LEMMA Stutters ==
  ASSUME Outstanding' = Outstanding, Executed' = Executed, Buried' = Buried
  PROVE  [Delivery!DeliveryNext]_(Delivery!deliveryVars)
  BY DEF Outstanding, Executed, Buried, Delivery!deliveryVars

\* No copy comes, goes, or has its outcome.
LEMMA CopiesStand ==
  ASSUME BodiesKept, DOMAIN copies' = DOMAIN copies, UNCHANGED effects,
         \A k \in DOMAIN copies : (Live(k)' <=> Live(k)) /\ (copies'[k].st = "dead" <=> copies[k].st = "dead")
  PROVE  [Delivery!DeliveryNext]_(Delivery!deliveryVars)
<1>1. \A m : (LiveCopy(m)' <=> LiveCopy(m)) /\ (DeadCopy(m)' <=> DeadCopy(m))
  BY DEF LiveCopy, DeadCopy, Of, BodiesKept
<1>. QED BY <1>1, Stutters DEF Outstanding, Executed, Buried

LEMMA NewPosition ==
  ASSUME BrokerTypeOK, NEW b \in Body,
         copies' = Append(copies, [body |-> b, st |-> "ready", by |-> NoConn])
  PROVE  \E k \in DOMAIN copies' : k \notin DOMAIN copies
<1>. DEFINE e == [body |-> b, st |-> "ready", by |-> NoConn]
<1>1. e \in Copy /\ copies' = Append(copies, e) /\ copies \in Seq(Copy)
  BY DEF Copy, BrokerTypeOK
<1>. HIDE DEF e
<1>2. /\ DOMAIN copies = 1..Len(copies) /\ DOMAIN copies' = 1..(Len(copies) + 1)
      /\ Len(copies) \in Nat
  BY <1>1, SeqAppend, LenProperties
<1>3. Len(copies) + 1 \in DOMAIN copies' /\ Len(copies) + 1 \notin DOMAIN copies
  BY <1>2
<1>. QED BY <1>3

\* A new copy reaches the queue.
LEMMA CopyAdded ==
  ASSUME BrokerTypeOK, NEW b \in Body, BodiesKept, UNCHANGED effects,
         \A k \in DOMAIN copies' :
           \/ k \in DOMAIN copies /\ copies'[k] = copies[k]
           \/ k \notin DOMAIN copies /\ copies'[k].st = "ready" /\ copies'[k].body = b,
         \E k \in DOMAIN copies' : k \notin DOMAIN copies
  PROVE  [Delivery!DeliveryNext]_(Delivery!deliveryVars)
<1>1. \A m : DeadCopy(m)' <=> DeadCopy(m)
  BY DEF DeadCopy, Of, BodiesKept
<1>2. \A m : LiveCopy(m)' <=> LiveCopy(m) \/ (b # Malformed /\ b.mid = m)
  BY DEF LiveCopy, Live, Of, BodiesKept
<1>3. Executed' = Executed /\ Buried' = Buried
  BY <1>1 DEF Executed, Buried
<1>4. CASE b = Malformed
  BY <1>2, <1>3, <1>4, Stutters DEF Outstanding
<1>5. CASE b # Malformed
  <2>1. b.mid \in MsgIds
    BY <1>5, JobTyped
  <2>2. Outstanding' = Outstanding \cup {b.mid}
    BY <1>2, <1>5, <2>1 DEF Outstanding
  <2>3. Delivery!Accept(b.mid)
    BY <1>3, <2>2 DEF Outstanding, Executed, Buried, Delivery!Accept
  <2>. QED BY <2>1, <2>3 DEF Delivery!DeliveryNext
<1>. QED BY <1>4, <1>5

\* The broker reads the ack or nack of copy k, which it counts as unacked.
LEMMA CopySettled ==
  ASSUME BrokerTypeOK, BodiesKept, DOMAIN copies' = DOMAIN copies, UNCHANGED effects,
         NEW k \in DOMAIN copies, Live(k), copies'[k].st \in {"acked", "dead"},
         \A j \in DOMAIN copies : j # k => copies'[j] = copies[j],
         NoJobLost'
  PROVE  [Delivery!DeliveryNext]_(Delivery!deliveryVars)
<1>1. CASE copies[k].body = Malformed
  <2>1. \A n : (LiveCopy(n)' <=> LiveCopy(n)) /\ (DeadCopy(n)' <=> DeadCopy(n))
    BY <1>1 DEF LiveCopy, DeadCopy, Live, Of, BodiesKept
  <2>. QED BY <2>1, Stutters DEF Outstanding, Executed, Buried
<1>2. CASE copies[k].body # Malformed
  <2>. PICK m \in MsgIds : m = copies[k].body.mid
    BY <1>2, BodyTyped
  <2>1. Of(k, m) /\ Of(k, m)' /\ (\A n : Of(k, n) <=> n = m)
    BY <1>2 DEF Of, BodiesKept
  <2>2. \A n : n # m => (LiveCopy(n)' <=> LiveCopy(n)) /\ (DeadCopy(n)' <=> DeadCopy(n))
    BY <2>1 DEF LiveCopy, DeadCopy, Live, Of, BodiesKept
  <2>3. m \in Outstanding /\ Executed' = Executed
    BY <2>1 DEF Outstanding, LiveCopy, Executed
  <2>4. Outstanding' = Outstanding \/ Outstanding' = Outstanding \ {m}
    <3>1. CASE LiveCopy(m)'
      BY <2>2, <2>3, <3>1 DEF Outstanding
    <3>2. CASE ~LiveCopy(m)'
      BY <2>2, <3>2 DEF Outstanding
    <3>. QED BY <3>1, <3>2
  <2>5. CASE copies'[k].st = "dead"
    <3>1. DeadCopy(m)'
      BY <2>1, <2>5 DEF DeadCopy
    <3>2. Buried' = Buried \cup {m}
      BY <2>1, <2>2, <3>1 DEF Buried
    <3>3. Delivery!Bury(m)
      BY <2>3, <2>4, <3>2 DEF Outstanding, Executed, Buried, Delivery!Bury
    <3>. QED BY <2>1, <3>3 DEF Delivery!DeliveryNext
  <2>6. CASE copies'[k].st = "acked"
    <3>1. DeadCopy(m)' <=> DeadCopy(m)
      BY <2>6 DEF DeadCopy, Live, Of, BodiesKept
    <3>2. Buried' = Buried
      BY <2>2, <3>1 DEF Buried
    <3>3. CASE LiveCopy(m)'
      <4>1. Outstanding' = Outstanding
        BY <2>3, <2>4, <3>3 DEF Outstanding
      <4>. QED BY <2>3, <3>2, <4>1, Stutters
    <3>4. CASE ~LiveCopy(m)'
      <4>1. Known(m)'
        BY <2>1 DEF Known
      <4>2. m \in Executed \cup Buried
        BY <2>1, <3>1, <3>4, <4>1 DEF NoJobLost, Executed, Buried
      <4>3. Outstanding' = Outstanding \ {m}
        BY <2>2, <3>4 DEF Outstanding
      <4>4. Delivery!Settle(m)
        BY <2>3, <3>2, <4>2, <4>3 DEF Outstanding, Executed, Buried, Delivery!Settle
      <4>. QED BY <2>1, <4>4 DEF Delivery!DeliveryNext
    <3>. QED BY <3>3, <3>4
  <2>. QED BY <2>5, <2>6
<1>. QED BY <1>1, <1>2

\* Every step of the pipeline is a step of JobDelivery, or leaves its variables
\* alone.
LEMMA DeliveryStep ==
  ASSUME TypeOK, LinkInv, SettleInv, HandLive, NoJobLost', [Next]_vars
  PROVE  [Delivery!DeliveryNext]_(Delivery!deliveryVars)
<1>. BrokerTypeOK /\ WorkerTypeOK
  BY DEF TypeOK
<1>1. CASE UNCHANGED <<copies, effects>>
  BY <1>1, Stutters DEF Outstanding, Executed, Buried, LiveCopy, DeadCopy, Live, Of
<1>2. CASE BrokerStep
  <2>0. UNCHANGED effects
    BY <1>2 DEF BrokerStep, workerVars
  <2>1. ASSUME NEW c \in Conns, BrokerPublish(c)
        PROVE  [Delivery!DeliveryNext]_(Delivery!deliveryVars)
    <3>. DEFINE b == Head(wire[c]).body
    <3>1. /\ \A k \in DOMAIN copies' :
               \/ k \in DOMAIN copies /\ copies'[k] = copies[k]
               \/ k \notin DOMAIN copies /\ copies'[k].st = "ready" /\ copies'[k].body = b
          /\ b \in Body
      BY <2>1, PublishFacts
    <3>2. BodiesKept
      BY <2>1, BrokerPublishTyped
    <3>3. \E k \in DOMAIN copies' : k \notin DOMAIN copies
      BY <2>1, <3>1, NewPosition DEF BrokerPublish
    <3>. HIDE DEF b
    <3>. QED BY <2>0, <3>1, <3>2, <3>3, CopyAdded
  <2>2. ASSUME NEW c \in Conns, BrokerSettle(c)
        PROVE  [Delivery!DeliveryNext]_(Delivery!deliveryVars)
    <3>. DEFINE n == Head(wire[c]).copy
    <3>1. /\ DOMAIN copies' = DOMAIN copies
          /\ \A k \in DOMAIN copies :
               IF k = n THEN copies'[k].st = SettledAs(Head(wire[c]).op)
                        ELSE copies'[k] = copies[k]
          /\ wire[c] # <<>> /\ wire[c] \in Seq(Frame) /\ Head(wire[c]).op # "publish"
      BY <2>2, SettleFacts
    <3>2. BodiesKept
      BY <2>2, BrokerSettleTyped
    <3>3. n \in DOMAIN copies /\ Live(n)
      <4>1. Head(wire[c]) = wire[c][1] /\ 1 \in DOMAIN wire[c]
        BY <3>1, SeqTail
      <4>2. c \in Lives
        BY <2>2, <3>1, <4>1 DEF LinkInv
      <4>3. n \in HeldBy(c)
        BY <3>1, <4>1, <4>2 DEF SettleInv, SettlementsValid
      <4>. QED BY <4>3 DEF HeldBy, Live
    <3>. HIDE DEF n
    <3>. QED BY <2>0, <3>1, <3>2, <3>3, CopySettled DEF SettledAs
  <2>3. ASSUME NEW c \in Lives, NEW k \in DOMAIN copies, Deliver(c, k)
        PROVE  [Delivery!DeliveryNext]_(Delivery!deliveryVars)
    <3>1. /\ DOMAIN copies' = DOMAIN copies
          /\ copies'[k].st = "unacked" /\ copies[k].st = "ready"
          /\ \A j \in DOMAIN copies : j # k => copies'[j] = copies[j]
      BY <2>3, DeliverFacts DEF Deliver
    <3>2. BodiesKept
      BY <2>3, DeliverTyped
    <3>. QED BY <2>0, <3>1, <3>2, CopiesStand DEF Live
  <2>. QED BY <1>2, <2>1, <2>2, <2>3 DEF BrokerStep
<1>3. CASE LinkStep
  <2>0. UNCHANGED effects
    BY <1>3 DEF LinkStep, workerVars
  <2>1. PICK c \in Conns : BrokerClose(c) \/ ClientClose(c)
    BY <1>3 DEF LinkStep, BreakByBroker, BreakByClient, FinishClose
  <2>2. CASE BrokerClose(c)
    <3>1. /\ DOMAIN copies' = DOMAIN copies
          /\ \A k \in DOMAIN copies : IF k \in HeldBy(c) THEN copies'[k].st = "ready"
                                                         ELSE copies'[k] = copies[k]
      BY <2>2, CloseFacts
    <3>2. BodiesKept
      BY <2>2, BrokerCloseTyped
    <3>. QED BY <2>0, <3>1, <3>2, CopiesStand DEF HeldBy, Live
  <2>3. CASE ClientClose(c)
    BY <1>1, <2>0, <2>3 DEF ClientClose
  <2>. QED BY <2>1, <2>2, <2>3
<1>4. CASE ProcessSucceeds
  <2>. PICK m \in MsgIds : m = Job.mid
    BY <1>4, InHandTyped DEF ProcessSucceeds
  <2>1. /\ life \in Lives /\ life # 0 /\ cur \in DOMAIN copies
        /\ copies[cur].body # Malformed /\ m = copies[cur].body.mid
    BY <1>4, InHandTyped, BrokerAssumption DEF ProcessSucceeds, WorkerTypeOK, Lives
  <2>2. Live(cur)
    BY <2>1 DEF HandLive, AtHand
  <2>3. m \in Outstanding
    BY <2>1, <2>2 DEF Outstanding, LiveCopy, Of
  <2>4. /\ UNCHANGED copies
        /\ \A n \in MsgIds : effects'[n] = IF n = m THEN effects[n] + 1 ELSE effects[n]
        /\ \A n \in MsgIds : effects[n] \in Nat
    BY <1>4 DEF ProcessSucceeds, Finished, WorkerTypeOK
  <2>5. Executed' = Executed \cup {m}
    BY <2>1, <2>4 DEF Executed
  <2>6. Outstanding' = Outstanding /\ Buried' = Buried
    BY <2>4 DEF Outstanding, Buried, LiveCopy, DeadCopy, Live, Of
  <2>7. Delivery!Execute(m)
    BY <2>3, <2>5, <2>6 DEF Outstanding, Executed, Buried, Delivery!Execute
  <2>. QED BY <2>1, <2>7 DEF Delivery!DeliveryNext
<1>5. CASE WorkerStep /\ ~ProcessSucceeds
  BY <1>1, <1>5 DEF WorkerStep, Handle, WorkerStart, WorkerExit, WorkerCrash, RejectInvalid,
       AckDuplicate, BeginProcessing, Take, AckProcessed, DeadLetter, Republish,
       RepublishFails, AckRepublished, Finished
<1>6. CASE ProducerStep
  BY <1>1, <1>6 DEF ProducerStep, StartService, EnqueueProcessTask, workerVars
<1>7. CASE ForeignStep
  <2>. PICK b \in ForeignBodies : ForeignPublish(b)
    BY <1>7 DEF ForeignStep
  <2>1. b \in Body /\ UNCHANGED effects
    BY <1>7, PipelineAssumption DEF ForeignStep, workerVars
  <2>2. \A k \in DOMAIN copies' :
          \/ k \in DOMAIN copies /\ copies'[k] = copies[k]
          \/ k \notin DOMAIN copies /\ copies'[k].st = "ready" /\ copies'[k].body = b
    BY <2>1, AppendFacts DEF ForeignPublish
  <2>3. BodiesKept
    BY <2>1, AppendCopyTyped DEF ForeignPublish
  <2>4. \E k \in DOMAIN copies' : k \notin DOMAIN copies
    BY <2>1, NewPosition DEF ForeignPublish
  <2>. QED BY <2>1, <2>2, <2>3, <2>4, CopyAdded
<1>8. CASE UNCHANGED vars
  BY <1>1, <1>8 DEF vars, brokerVars, workerVars
<1>. QED BY <1>2, <1>3, <1>4, <1>5, <1>6, <1>7, <1>8 DEF Next, WorkerStep

\* Retries, redeliveries, restarts and broken connections are invisible to the
\* promise of JobDelivery: an id stops being outstanding only with an outcome, and
\* only an outstanding one is executed or buried.
THEOREM PipelineRefinesDelivery == Spec => DeliveryRefined
<1>1. Init => HandLive /\ Delivery!DeliveryInit
  BY DEF Init, BrokerInit, WorkerInit, HandLive, LiveCopy, DeadCopy, Delivery!DeliveryInit
<1>. QED BY <1>1, TypeCorrect, LinkInit, LinkStepKept, SettleInit, SettleStepKept, HandStepKept,
            NothingLost, DeliveryStep, PTL
         DEF Spec, DeliveryRefined, Delivery!DeliverySpec

-----------------------------------------------------------------------------
(***************************************************************************)
(* What was answered 202 Accepted.                                         *)
(*                                                                         *)
(* A producer writes jobs only, and accepts nothing before it connects;    *)
(* once the broker has given up its connection, it never has another one.  *)
(***************************************************************************)

JobFrames(w) == \A i \in DOMAIN w : w[i].op = "publish" /\ w[i].body \in ProcessTaskJob

AcceptInv ==
  /\ AcceptedTracked
  /\ \A p \in Producers : JobFrames(wire[p])
  /\ \A p \in Producers : ~serving[p] => accepted[p] = {}

LEMMA KnownKept ==
  ASSUME BodiesKept, NEW m, Known(m)
  PROVE  Known(m)'
  BY DEF Known, Of, BodiesKept

\* The producers' wires and answers are as they were, or their connection is lost.
LEMMA AcceptQuiet ==
  ASSUME AcceptInv, BodiesKept, UNCHANGED <<accepted, serving>>,
         \A p \in Producers :
           \/ wire'[p] = wire[p] /\ (linked'[p] => linked[p])
           \/ wire'[p] = <<>> /\ ~linked'[p]
  PROVE  AcceptInv'
<1>1. AcceptedTracked'
  BY KnownKept DEF AcceptInv, AcceptedTracked
<1>2. \A p \in Producers : JobFrames(wire'[p])
  BY DEF AcceptInv, JobFrames
<1>. QED BY <1>1, <1>2 DEF AcceptInv, JobFrames

\* The job that leaves a producer's wire is known from then on.
LEMMA AcceptRead ==
  ASSUME BrokerTypeOK, AcceptInv, NEW c \in Conns, BrokerPublish(c),
         UNCHANGED <<accepted, serving>>
  PROVE  AcceptInv'
<1>. DEFINE w == wire[c]
            v == wire'[c]
            b == Head(wire[c]).body
<1>1. /\ \E k \in DOMAIN copies' : copies'[k].body = b
      /\ w \in Seq(Frame) /\ w # <<>> /\ v = Tail(w)
      /\ \A d \in Conns : d # c => wire'[d] = wire[d]
  BY PublishFacts
<1>2. BodiesKept /\ UNCHANGED linked
  BY BrokerPublishTyped DEF BrokerPublish
<1>3. /\ b = w[1].body /\ 1 \in DOMAIN w
      /\ \A j \in DOMAIN v : v[j] = w[j + 1] /\ j + 1 \in DOMAIN w
      /\ \A j \in DOMAIN w : j = 1 \/ (j - 1 \in DOMAIN v /\ v[j - 1] = w[j])
  <2>1. /\ Head(w) = w[1] /\ 1 \in DOMAIN w
        /\ DOMAIN w = 1..Len(w) /\ DOMAIN v = 1..(Len(w) - 1) /\ Len(w) \in Nat
        /\ \A j \in DOMAIN v : v[j] = w[j + 1] /\ j + 1 \in DOMAIN w
    BY <1>1, SeqTail
  <2>. HIDE DEF v
  <2>2. \A j \in DOMAIN w : j = 1 \/ (j - 1 \in DOMAIN v /\ (j - 1) + 1 = j)
    BY <2>1
  <2>. QED BY <2>1, <2>2
<1>. HIDE DEF v, w, b
<1>4. c \in Producers => b \in ProcessTaskJob /\ JobFrames(v)
  BY <1>3 DEF AcceptInv, JobFrames, w
<1>5. \A p \in Producers : JobFrames(wire'[p])
  BY <1>1, <1>4 DEF AcceptInv, v
<1>6. \A n : c \in Producers /\ n = b.mid => Known(n)'
  <2>1. c \in Producers => b # Malformed
    BY <1>4, JobsAssumption
  <2>. QED BY <1>1, <2>1 DEF Known, Of
<1>7. ASSUME NEW p \in Producers, NEW m \in accepted[p], linked[p]
      PROVE  Known(m)' \/ \E i \in DOMAIN wire'[p] : wire'[p][i].body.mid = m
  <2>1. CASE Known(m)
    BY <1>2, <2>1, KnownKept
  <2>2. CASE p # c /\ \E i \in DOMAIN wire[p] : wire[p][i].body.mid = m
    BY <1>1, <2>2
  <2>3. CASE p = c /\ \E i \in DOMAIN w : w[i].body.mid = m
    BY <1>3, <1>6, <2>3 DEF v
  <2>. QED BY <1>7, <2>1, <2>2, <2>3 DEF AcceptInv, AcceptedTracked, w
<1>8. AcceptedTracked'
  BY <1>2, <1>7 DEF AcceptedTracked
<1>. QED BY <1>5, <1>8 DEF AcceptInv, JobFrames

LEMMA AcceptEnqueue ==
  ASSUME TypeOK, LinkInv, AcceptInv, NEW p \in Producers, NEW m \in MsgIds, NEW t \in Tasks,
         EnqueueProcessTask(p, m, t)
  PROVE  AcceptInv'
<1>. BrokerTypeOK /\ ProducerTypeOK
  BY DEF TypeOK
<1>. DEFINE b == [mid |-> m, task |-> t, attempt |-> 1]
            f == [op |-> "publish", body |-> b]
<1>1. /\ b \in ProcessTaskJob /\ b.mid = m
      /\ f \in Frame /\ f.op = "publish" /\ f.body = b
  BY FramesTyped DEF Body, ProcessTaskJob
<1>2. Send(p, f) /\ UNCHANGED <<copies, linked, open, serving>> /\ open[p] /\ serving[p]
  BY DEF EnqueueProcessTask, NewJob, CanPublish
<1>3. /\ accepted'[p] = accepted[p] \cup {m}
      /\ \A q \in Producers : q # p => accepted'[q] = accepted[q]
  BY DEF EnqueueProcessTask, ProducerTypeOK
<1>. HIDE DEF f, b
<1>4. /\ \A d \in Conns : d # p => wire'[d] = wire[d]
      /\ wire'[p] = IF open[p] /\ linked[p] THEN Append(wire[p], f) ELSE wire[p]
      /\ wire[p] \in Seq(Frame)
  BY <1>1, <1>2, SendTyped DEF BrokerTypeOK
<1>5. /\ \A i \in DOMAIN Append(wire[p], f) :
           \/ Append(wire[p], f)[i] = f
           \/ i \in DOMAIN wire[p] /\ Append(wire[p], f)[i] = wire[p][i]
      /\ \A i \in DOMAIN wire[p] :
           i \in DOMAIN Append(wire[p], f) /\ Append(wire[p], f)[i] = wire[p][i]
      /\ \E i \in DOMAIN Append(wire[p], f) : Append(wire[p], f)[i] = f
  BY <1>1, <1>4, SeqAppend, LenProperties
<1>6. \A q \in Producers : JobFrames(wire'[q])
  <2>1. JobFrames(wire[p])
    BY DEF AcceptInv
  <2>2. JobFrames(Append(wire[p], f))
    BY <1>1, <1>5, <2>1 DEF JobFrames
  <2>. QED BY <1>4, <2>1, <2>2 DEF AcceptInv
<1>7. \A n : Known(n)' <=> Known(n)
  BY <1>2 DEF Known, Of
<1>8. ASSUME NEW q \in Producers, NEW n \in accepted'[q], linked[q]
      PROVE  Known(n) \/ \E i \in DOMAIN wire'[q] : wire'[q][i].body.mid = n
  <2>1. CASE q # p
    BY <1>3, <1>4, <1>8, <2>1 DEF AcceptInv, AcceptedTracked
  <2>2. CASE q = p
    <3>1. wire'[p] = Append(wire[p], f)
      BY <1>2, <1>4, <1>8, <2>2
    <3>2. CASE n = m
      BY <1>1, <1>5, <2>2, <3>1, <3>2
    <3>3. CASE n \in accepted[p]
      <4>1. Known(n) \/ \E i \in DOMAIN wire[p] : wire[p][i].body.mid = n
        BY <1>8, <2>2, <3>3 DEF AcceptInv, AcceptedTracked
      <4>. QED BY <1>5, <2>2, <3>1, <4>1
    <3>. QED BY <1>3, <1>8, <2>2, <3>2, <3>3
  <2>. QED BY <2>1, <2>2
<1>9. AcceptedTracked'
  BY <1>2, <1>7, <1>8 DEF AcceptedTracked
<1>. QED BY <1>2, <1>3, <1>6, <1>9 DEF AcceptInv, JobFrames

LEMMA AcceptStep == TypeOK /\ LinkInv /\ AcceptInv /\ [Next]_vars => AcceptInv'
<1>. SUFFICES ASSUME TypeOK, LinkInv, AcceptInv, [Next]_vars
              PROVE  AcceptInv'
  OBVIOUS
<1>. BrokerTypeOK /\ WorkerTypeOK /\ ProducerTypeOK
  BY DEF TypeOK
<1>1. CASE BrokerStep
  <2>0. UNCHANGED <<accepted, serving>>
    BY <1>1 DEF BrokerStep, producerVars
  <2>1. ASSUME NEW c \in Conns, BrokerPublish(c)
        PROVE  AcceptInv'
    BY <2>0, <2>1, AcceptRead
  <2>2. ASSUME NEW c \in Conns, BrokerSettle(c)
        PROVE  AcceptInv'
    <3>1. /\ wire[c] # <<>> /\ wire[c] \in Seq(Frame) /\ Head(wire[c]).op # "publish"
          /\ \A d \in Conns : d # c => wire'[d] = wire[d]
      BY <2>2, SettleFacts
    <3>2. c \in Lives
      <4>1. Head(wire[c]) = wire[c][1] /\ 1 \in DOMAIN wire[c]
        BY <3>1, SeqTail
      <4>. QED BY <2>2, <3>1, <4>1 DEF LinkInv
    <3>3. BodiesKept /\ UNCHANGED linked
      BY <2>2, BrokerSettleTyped DEF BrokerSettle
    <3>. QED BY <2>0, <3>1, <3>2, <3>3, ConnsApart, AcceptQuiet
  <2>3. ASSUME NEW c \in Lives, NEW k \in DOMAIN copies, Deliver(c, k)
        PROVE  AcceptInv'
    <3>1. BodiesKept /\ UNCHANGED <<wire, linked>>
      BY <2>3, DeliverTyped DEF Deliver
    <3>. QED BY <2>0, <3>1, AcceptQuiet
  <2>. QED BY <1>1, <2>1, <2>2, <2>3 DEF BrokerStep
<1>2. CASE LinkStep
  <2>0. UNCHANGED <<accepted, serving>>
    BY <1>2 DEF LinkStep, producerVars
  <2>. PICK c \in Conns : BrokerClose(c) \/ ClientClose(c)
    BY <1>2 DEF LinkStep, BreakByBroker, BreakByClient, FinishClose
  <2>1. CASE BrokerClose(c)
    <3>1. /\ wire'[c] = <<>> /\ ~linked'[c]
          /\ \A d \in Conns : d # c => wire'[d] = wire[d] /\ linked'[d] = linked[d]
      BY <2>1, CloseFacts
    <3>2. BodiesKept
      BY <2>1, BrokerCloseTyped
    <3>. QED BY <2>0, <3>1, <3>2, AcceptQuiet
  <2>2. CASE ClientClose(c)
    BY <2>0, <2>2, ClientCloseTyped, AcceptQuiet DEF ClientClose
  <2>. QED BY <2>1, <2>2
<1>3. CASE WorkerStep
  <2>1. UNCHANGED <<copies, accepted, serving>> /\ BodiesKept
    BY <1>3 DEF WorkerStep, Handle, WorkerStart, WorkerExit, WorkerCrash, RejectInvalid,
         AckDuplicate, BeginProcessing, Take, ProcessSucceeds, AckProcessed, DeadLetter,
         Republish, RepublishFails, AckRepublished, Finished, producerVars, BodiesKept
  <2>2. CASE WorkerStart
    <3>1. life + 1 \in Lives
      BY <2>2, BrokerAssumption DEF WorkerStart, WorkerTypeOK, Lives
    <3>2. \A p \in Producers : wire'[p] = wire[p] /\ linked'[p] = linked[p]
      BY <2>2, <3>1, ConnsApart DEF WorkerStart, Connect, BrokerTypeOK
    <3>. QED BY <2>1, <3>2, AcceptQuiet
  <2>3. CASE WorkerExit \/ WorkerCrash
    BY <2>1, <2>3, AcceptQuiet DEF WorkerExit, WorkerCrash
  <2>4. CASE Handle
    <3>1. life \in Lives /\ UNCHANGED linked
      BY <2>4, LifeIsConn DEF Handle, RejectInvalid, AckDuplicate, BeginProcessing, Take,
           ProcessSucceeds, AckProcessed, DeadLetter, Republish, RepublishFails,
           AckRepublished, Finished
    <3>2. UNCHANGED wire \/ \E f : Send(life, f)
      BY <2>4 DEF Handle, RejectInvalid, AckDuplicate, BeginProcessing, Ack, Nack,
           ProcessSucceeds, AckProcessed, DeadLetter, Republish, RepublishFails,
           AckRepublished
    <3>3. \A p \in Producers : wire'[p] = wire[p]
      BY <3>1, <3>2, ConnsApart DEF Send, BrokerTypeOK
    <3>. QED BY <2>1, <3>1, <3>3, AcceptQuiet
  <2>. QED BY <1>3, <2>2, <2>3, <2>4 DEF WorkerStep
<1>4. CASE ProducerStep
  <2>1. ASSUME NEW p \in Producers, StartService(p)
        PROVE  AcceptInv'
    <3>1. /\ UNCHANGED <<copies, wire, accepted>> /\ accepted[p] = {}
          /\ \A q \in Producers : q # p => linked'[q] = linked[q] /\ serving'[q] = serving[q]
      BY <2>1 DEF StartService, Connect, AcceptInv, BrokerTypeOK, ProducerTypeOK
    <3>2. \A n : Known(n)' <=> Known(n)
      BY <3>1 DEF Known, Of
    <3>3. AcceptedTracked'
      BY <3>1, <3>2 DEF AcceptInv, AcceptedTracked
    <3>4. \A q \in Producers : ~serving'[q] => accepted'[q] = {}
      BY <3>1 DEF AcceptInv
    <3>. QED BY <3>1, <3>3, <3>4 DEF AcceptInv, JobFrames
  <2>. QED BY <1>4, <2>1, AcceptEnqueue DEF ProducerStep
<1>5. CASE ForeignStep
  <2>. PICK b \in ForeignBodies : ForeignPublish(b)
    BY <1>5 DEF ForeignStep
  <2>1. UNCHANGED <<wire, linked, accepted, serving>> /\ b \in Body
    BY PipelineAssumption DEF ForeignPublish
  <2>2. BodiesKept
    BY <2>1, AppendCopyTyped DEF ForeignPublish
  <2>. QED BY <2>1, <2>2, AcceptQuiet
<1>6. CASE UNCHANGED vars
  BY <1>6, AcceptQuiet DEF vars, brokerVars, producerVars, BodiesKept
<1>. QED BY <1>1, <1>2, <1>3, <1>4, <1>5, <1>6 DEF Next

\* A job answered 202 is in the queue's history or still on the wire of the service
\* that answered, as long as the broker holds that service's connection.
THEOREM AcceptedStayTracked == Spec => []AcceptedTracked
<1>1. Init => AcceptInv
  BY DEF Init, BrokerInit, ProducerInit, AcceptInv, AcceptedTracked, JobFrames
<1>2. AcceptInv => AcceptedTracked
  BY DEF AcceptInv
<1>. QED BY <1>1, <1>2, TypeCorrect, LinkInit, LinkStepKept, AcceptStep, PTL DEF Spec

-----------------------------------------------------------------------------
(***************************************************************************)
(* Why a job is dead-lettered only when it is exhausted.                   *)
(*                                                                         *)
(* DeadOnlyWhenExhausted speaks of dead copies only; the invariant is that *)
(* every copy, and every publish frame on its way to be one, has earned    *)
(* its attempt: the earlier ones were published and fail.  A nack on its   *)
(* way names a copy on its last attempt.                                   *)
(***************************************************************************)

FailsAt(t, n) == t \in FailTasks \/ (t \in FlakyTasks /\ n < 2)

\* b is a job of the producers.
Own(b) == b # Malformed /\ OwnId(b.mid)

Earned(b) ==
  Own(b) =>
    /\ b.attempt \in 1..MaxAttempts
    /\ \A n \in 1..(b.attempt - 1) : Attempted(b.mid, b.task, n) /\ FailsAt(b.task, n)

Spent(b) == Own(b) => b.attempt = MaxAttempts /\ FailsAt(b.task, b.attempt)

FrameOk(f) ==
  /\ f.op = "publish" => Earned(f.body)
  /\ f.op = "nack" => f.copy \in DOMAIN copies /\ Spent(copies[f.copy].body)

CopyOk(k) ==
  /\ Earned(copies[k].body)
  /\ copies[k].st = "dead" => Spent(copies[k].body)

FramesInv == \A c \in Conns : \A i \in DOMAIN wire[c] : FrameOk(wire[c][i])
CopiesInv == \A k \in DOMAIN copies : CopyOk(k)

RetryInv == FramesInv /\ CopiesInv

LEMMA FailsIsFailsAt ==
  ASSUME NEW b \in ProcessTaskJob
  PROVE  /\ ProcessFails(b) <=> FailsAt(b.task, b.attempt)
         /\ \A n \in Int : ProcessFails([b EXCEPT !.attempt = n]) <=> FailsAt(b.task, n)
  BY DEF ProcessFails, FailsAt, ProcessTaskJob

LEMMA AttemptsKept ==
  ASSUME BodiesKept, NEW b, Earned(b)
  PROVE  Earned(b)'
<1>1. \A n : Attempted(b.mid, b.task, n) => Attempted(b.mid, b.task, n)'
  BY DEF Attempted, BodiesKept
<1>. QED BY <1>1 DEF Earned, Own

LEMMA FrameStaysOk ==
  ASSUME BodiesKept, NEW f, FrameOk(f)
  PROVE  FrameOk(f)'
<1>1. f.op = "publish" => Earned(f.body)'
  BY AttemptsKept DEF FrameOk
<1>2. f.op = "nack" => f.copy \in DOMAIN copies' /\ copies'[f.copy].body = copies[f.copy].body
  BY DEF FrameOk, BodiesKept
<1>. QED BY <1>1, <1>2 DEF FrameOk, Spent, Own

\* The frames of the next state are frames of this one, or new ones in order.
LEMMA FramesKept ==
  ASSUME BodiesKept, FramesInv,
         \A c \in Conns : \A i \in DOMAIN wire'[c] :
           (\E j \in DOMAIN wire[c] : wire'[c][i] = wire[c][j]) \/ FrameOk(wire[c][i])'
  PROVE  FramesInv'
<1>. SUFFICES ASSUME NEW c \in Conns, NEW i \in DOMAIN wire'[c]
              PROVE  FrameOk(wire[c][i])'
  BY DEF FramesInv
<1>1. ASSUME NEW j \in DOMAIN wire[c], wire'[c][i] = wire[c][j]
      PROVE  FrameOk(wire[c][i])'
  <2>. DEFINE f == wire[c][j]
  <2>1. FrameOk(f)
    BY DEF FramesInv
  <2>2. \A g : FrameOk(g) => FrameOk(g)'
    BY FrameStaysOk
  <2>3. wire'[c][i] = f
    BY <1>1
  <2>. QED BY <2>1, <2>2, <2>3 DEF FrameOk
<1>. QED BY <1>1

\* A step that leaves every frame on its wire, or drops it.
LEMMA FramesDropped ==
  ASSUME BodiesKept, FramesInv,
         \A c \in Conns : \A i \in DOMAIN wire'[c] : \E j \in DOMAIN wire[c] : wire'[c][i] = wire[c][j]
  PROVE  FramesInv'
  BY FramesKept

LEMMA CopyStaysOk ==
  ASSUME BrokerTypeOK, BodiesKept, CopiesInv, NEW k \in DOMAIN copies,
         copies'[k].st = "dead" => copies[k].st = "dead" \/ Spent(copies[k].body)
  PROVE  CopyOk(k)'
<1>1. /\ copies'[k].body = copies[k].body
      /\ CopyOk(k)
  BY DEF BodiesKept, CopiesInv
<1>2. Earned(copies[k].body)'
  <2>1. \A b : Earned(b) => Earned(b)'
    BY AttemptsKept
  <2>. QED BY <1>1, <2>1 DEF CopyOk, Earned, Own
<1>. QED BY <1>1, <1>2 DEF CopyOk, Spent, Own

LEMMA RetryInit == Init => RetryInv
  BY DEF Init, BrokerInit, RetryInv, FramesInv, CopiesInv

LEMMA RetryBroker ==
  ASSUME TypeOK, RetryInv, BrokerStep
  PROVE  RetryInv'
<1>. BrokerTypeOK /\ FramesInv /\ CopiesInv
  BY DEF TypeOK, RetryInv
<1>1. CASE \E c \in Conns : BrokerPublish(c)
  <2>. PICK c \in Conns : BrokerPublish(c)
    BY <1>1
  <2>1. /\ \A k \in DOMAIN copies' :
             \/ k \in DOMAIN copies /\ copies'[k] = copies[k]
             \/ /\ k \notin DOMAIN copies
                /\ copies'[k].st = "ready" /\ copies'[k].body = Head(wire[c]).body
        /\ Head(wire[c]).op = "publish" /\ Head(wire[c]).body \in Body
        /\ wire[c] # <<>> /\ wire[c] \in Seq(Frame)
    BY PublishFacts
  <2>2. BodiesKept
    BY BrokerPublishTyped
  <2>3. FrameOk(Head(wire[c]))
    BY <2>1, SeqTail DEF FramesInv
  <2>4. FramesInv'
    BY <2>1, <2>2, ReadFacts, FramesDropped DEF BrokerPublish
  <2>5. ASSUME NEW k \in DOMAIN copies', k \notin DOMAIN copies
        PROVE  CopyOk(k)'
    <3>. DEFINE b == Head(wire[c]).body
    <3>1. Earned(b)
      BY <2>1, <2>3 DEF FrameOk
    <3>2. \A a : Earned(a) => Earned(a)'
      BY <2>2, AttemptsKept
    <3>3. copies'[k].st = "ready" /\ copies'[k].body = b
      BY <2>1, <2>5
    <3>. QED BY <3>1, <3>2, <3>3 DEF CopyOk, Earned, Own
  <2>6. CopiesInv'
    BY <2>1, <2>2, <2>5, CopyStaysOk DEF CopiesInv
  <2>. QED BY <2>4, <2>6 DEF RetryInv
<1>2. CASE \E c \in Conns : BrokerSettle(c)
  <2>. PICK c \in Conns : BrokerSettle(c)
    BY <1>2
  <2>. DEFINE f == Head(wire[c])
  <2>1. /\ DOMAIN copies' = DOMAIN copies
        /\ \A k \in DOMAIN copies :
             IF k = f.copy THEN copies'[k].st = SettledAs(f.op) ELSE copies'[k] = copies[k]
        /\ wire[c] # <<>> /\ wire[c] \in Seq(Frame) /\ f.op # "publish"
    BY SettleFacts
  <2>2. BodiesKept
    BY BrokerSettleTyped
  <2>3. FrameOk(f) /\ f \in Frame
    BY <2>1, SeqTail DEF FramesInv
  <2>4. FramesInv'
    BY <2>1, <2>2, ReadFacts, FramesDropped DEF BrokerSettle
  <2>5. \A k \in DOMAIN copies :
          copies'[k].st = "dead" => copies[k].st = "dead" \/ Spent(copies[k].body)
    <3>1. f.op \in {"ack", "nack"}
      BY <2>1, <2>3 DEF Frame, PublishFrame, SettleFrame
    <3>. QED BY <2>1, <2>3, <3>1 DEF FrameOk, SettledAs
  <2>6. CopiesInv'
    BY <2>1, <2>2, <2>5, CopyStaysOk DEF CopiesInv
  <2>. QED BY <2>4, <2>6 DEF RetryInv
<1>3. CASE \E c \in Lives, k \in DOMAIN copies : Deliver(c, k)
  <2>. PICK c \in Lives, k \in DOMAIN copies : Deliver(c, k)
    BY <1>3
  <2>1. /\ DOMAIN copies' = DOMAIN copies
        /\ copies'[k].st = "unacked"
        /\ \A j \in DOMAIN copies : j # k => copies'[j] = copies[j]
    BY DeliverFacts
  <2>2. BodiesKept /\ UNCHANGED wire
    BY DeliverTyped DEF Deliver
  <2>3. FramesInv'
    BY <2>2, FramesDropped
  <2>4. \A j \in DOMAIN copies : copies'[j].st = "dead" => copies[j].st = "dead"
    BY <2>1
  <2>5. CopiesInv'
    BY <2>1, <2>2, <2>4, CopyStaysOk DEF CopiesInv
  <2>. QED BY <2>3, <2>5 DEF RetryInv
<1>. QED BY <1>1, <1>2, <1>3 DEF BrokerStep

LEMMA RetryLinks ==
  ASSUME TypeOK, RetryInv, LinkStep
  PROVE  RetryInv'
<1>. BrokerTypeOK /\ FramesInv /\ CopiesInv
  BY DEF TypeOK, RetryInv
<1>. PICK c \in Conns : BrokerClose(c) \/ ClientClose(c)
  BY DEF LinkStep, BreakByBroker, BreakByClient, FinishClose
<1>1. CASE BrokerClose(c)
  <2>1. /\ DOMAIN copies' = DOMAIN copies
        /\ \A k \in DOMAIN copies : copies'[k].st = "ready" \/ copies'[k] = copies[k]
        /\ wire'[c] = <<>> /\ \A d \in Conns : d # c => wire'[d] = wire[d]
    BY <1>1, CloseFacts
  <2>2. BodiesKept
    BY <1>1, BrokerCloseTyped
  <2>3. FramesInv'
    BY <2>1, <2>2, FramesDropped
  <2>4. \A j \in DOMAIN copies : copies'[j].st = "dead" => copies[j].st = "dead"
    BY <2>1
  <2>5. CopiesInv'
    BY <2>1, <2>2, <2>4, CopyStaysOk DEF CopiesInv
  <2>. QED BY <2>3, <2>5 DEF RetryInv
<1>2. CASE ClientClose(c)
  <2>1. UNCHANGED <<copies, wire>>
    BY <1>2 DEF ClientClose
  <2>2. BodiesKept
    BY <2>1 DEF BodiesKept
  <2>. QED BY <2>1, <2>2, FramesDropped, CopyStaysOk DEF RetryInv, CopiesInv
<1>. QED BY <1>1, <1>2

\* A step that changes no copy, and writes at most frame f, which is in order.
LEMMA RetryWrite ==
  ASSUME TypeOK, RetryInv, UNCHANGED copies, NEW c \in Conns, NEW f \in Frame, FrameOk(f),
         Send(c, f)
  PROVE  RetryInv'
<1>. BrokerTypeOK /\ FramesInv /\ CopiesInv
  BY DEF TypeOK, RetryInv
<1>1. BodiesKept
  BY DEF BodiesKept
<1>2. /\ wire[c] \in Seq(Frame)
      /\ \A d \in Conns : d # c => wire'[d] = wire[d]
      /\ wire'[c] \in {Append(wire[c], f), wire[c]}
  BY SendTyped DEF BrokerTypeOK
<1>3. \A i \in DOMAIN wire'[c] : (\E j \in DOMAIN wire[c] : wire'[c][i] = wire[c][j]) \/ wire'[c][i] = f
  BY <1>2, SeqAppend
<1>4. FrameOk(f)'
  BY <1>1, FrameStaysOk
<1>5. FramesInv'
  BY <1>1, <1>2, <1>3, <1>4, FramesKept DEF FrameOk
<1>. QED BY <1>1, <1>5, CopyStaysOk DEF RetryInv, CopiesInv

LEMMA RetryQuiet ==
  ASSUME TypeOK, RetryInv, UNCHANGED <<copies, wire>>
  PROVE  RetryInv'
<1>1. BodiesKept
  BY DEF BodiesKept
<1>. QED BY <1>1, FramesDropped, CopyStaysOk DEF RetryInv, CopiesInv, TypeOK

LEMMA RetryWorker ==
  ASSUME TypeOK, RetryInv, WorkerStep
  PROVE  RetryInv'
<1>. BrokerTypeOK /\ WorkerTypeOK /\ CopiesInv
  BY DEF TypeOK, RetryInv
<1>1. CASE WorkerStart \/ WorkerExit \/ WorkerCrash \/ BeginProcessing \/ ProcessSucceeds \/ RepublishFails
  <2>1. UNCHANGED <<copies, wire>>
    BY <1>1 DEF WorkerStart, WorkerExit, WorkerCrash, BeginProcessing, Take, ProcessSucceeds,
                RepublishFails, Finished
  <2>. QED BY <2>1, RetryQuiet
<1>2. CASE RejectInvalid \/ AckDuplicate
  <2>1. Take
    BY <1>2 DEF RejectInvalid, AckDuplicate
  <2>2. /\ life \in Conns /\ Incoming \in DOMAIN copies /\ Incoming \in Nat
        /\ UNCHANGED copies
    BY <2>1, TakeTyped DEF Take
  <2>3. CASE RejectInvalid
    <3>1. FrameOk([op |-> "nack", copy |-> Incoming])
      BY <2>2, <2>3 DEF RejectInvalid, FrameOk, Spent, Own
    <3>. QED BY <2>2, <2>3, <3>1, FramesTyped, RetryWrite DEF RejectInvalid, Nack
  <2>4. CASE AckDuplicate
    <3>1. FrameOk([op |-> "ack", copy |-> Incoming])
      BY DEF FrameOk
    <3>. QED BY <2>2, <2>4, <3>1, FramesTyped, RetryWrite DEF AckDuplicate, Ack
  <2>. QED BY <1>2, <2>3, <2>4
<1>3. CASE AckProcessed \/ AckRepublished \/ DeadLetter \/ Republish
  <2>. DEFINE b == copies[cur].body
  <2>1. proc \in {"processing", "processed", "republished"} /\ UNCHANGED copies
    BY <1>3 DEF AckProcessed, AckRepublished, DeadLetter, Republish, Finished
  <2>2. /\ life \in Conns /\ cur \in DOMAIN copies /\ cur \in Nat
        /\ b \in ProcessTaskJob /\ Job \in ProcessTaskJob /\ Job = Normalise(b)
        /\ NextAttempt(Job) \in Body /\ Earned(b)
    BY <2>1, InHandTyped DEF WorkerTypeOK, Body, Job, CopiesInv, CopyOk
  <2>3. Own(b) => Job = b
    <3>1. Own(b) => b.attempt \in 1..MaxAttempts /\ b.attempt > 0
      BY <2>2, JobsAssumption DEF Earned
    <3>. QED BY <2>2, <3>1, JobsAssumption DEF Normalise, ProcessTaskJob
  <2>4. CASE AckProcessed \/ AckRepublished
    <3>1. FrameOk([op |-> "ack", copy |-> cur])
      BY DEF FrameOk
    <3>. QED BY <2>1, <2>2, <2>4, <3>1, FramesTyped, RetryWrite DEF AckProcessed, AckRepublished, Ack
  <2>5. CASE DeadLetter
    <3>1. Own(b) => FailsAt(b.task, b.attempt) /\ b.attempt >= MaxAttempts
      <4>1. ProcessFails(Job) /\ Job.attempt >= MaxAttempts
        BY <2>5 DEF DeadLetter, Exhausted
      <4>2. ProcessFails(b) <=> FailsAt(b.task, b.attempt)
        BY <2>2, FailsIsFailsAt
      <4>. QED BY <2>3, <4>1, <4>2
    <3>2. Own(b) => b.attempt \in 1..MaxAttempts
      BY <2>2 DEF Earned
    <3>3. Spent(b)
      BY <3>1, <3>2, JobsAssumption DEF Spent
    <3>4. FrameOk([op |-> "nack", copy |-> cur])
      BY <2>2, <3>3 DEF FrameOk
    <3>. QED BY <2>1, <2>2, <2>5, <3>4, FramesTyped, RetryWrite DEF DeadLetter, Nack
  <2>6. CASE Republish
    <3>. DEFINE r == NextAttempt(Job)
    <3>1. r.mid = b.mid /\ r.task = b.task /\ r # Malformed
      <4>1. b \in Body /\ b # Malformed
        BY <2>2, JobsAssumption DEF Body
      <4>. HIDE DEF b
      <4>. QED BY <2>2, <4>1, JobTyped
    <3>2. ASSUME Own(r)
          PROVE  /\ r.attempt \in 1..MaxAttempts
                 /\ \A n \in 1..(r.attempt - 1) : Attempted(r.mid, r.task, n) /\ FailsAt(r.task, n)
      <4>1. Own(b)
        BY <2>2, <3>1, <3>2, JobsAssumption DEF Own
      <4>2. /\ b.attempt \in 1..MaxAttempts /\ b.attempt < MaxAttempts
            /\ FailsAt(b.task, b.attempt)
            /\ r.attempt = b.attempt + 1
        BY <2>2, <2>3, <2>6, <4>1, FailsIsFailsAt, JobsAssumption
           DEF Republish, Exhausted, Earned, NextAttempt, ProcessTaskJob
      <4>3. Attempted(b.mid, b.task, b.attempt)
        <5>1. b = [mid |-> b.mid, task |-> b.task, attempt |-> b.attempt]
          BY <2>2 DEF ProcessTaskJob
        <5>. QED BY <2>2, <5>1 DEF Attempted
      <4>4. \A n \in 1..(r.attempt - 1) : n = b.attempt \/ n \in 1..(b.attempt - 1)
        BY <4>2, JobsAssumption
      <4>5. \A n \in 1..(b.attempt - 1) : Attempted(b.mid, b.task, n) /\ FailsAt(b.task, n)
        BY <2>2, <4>1 DEF Earned
      <4>6. r.attempt \in 1..MaxAttempts
        BY <4>2, JobsAssumption
      <4>. HIDE DEF b, r
      <4>. QED BY <3>1, <4>2, <4>3, <4>4, <4>5, <4>6
    <3>3. FrameOk([op |-> "publish", body |-> r])
      <4>. HIDE DEF r
      <4>. QED BY <3>2 DEF FrameOk, Earned
    <3>. QED BY <2>1, <2>2, <2>6, <3>3, FramesTyped, RetryWrite DEF Republish
  <2>. QED BY <1>3, <2>4, <2>5, <2>6
<1>. QED BY <1>1, <1>2, <1>3 DEF WorkerStep, Handle

LEMMA RetryPublishers ==
  ASSUME TypeOK, RetryInv, ProducerStep \/ ForeignStep
  PROVE  RetryInv'
<1>. BrokerTypeOK /\ FramesInv /\ CopiesInv
  BY DEF TypeOK, RetryInv
<1>1. ASSUME NEW p \in Producers, StartService(p)
      PROVE  RetryInv'
  BY <1>1, RetryQuiet DEF StartService
<1>2. ASSUME NEW p \in Producers, NEW m \in MsgIds, NEW t \in Tasks, EnqueueProcessTask(p, m, t)
      PROVE  RetryInv'
  <2>. DEFINE b == [mid |-> m, task |-> t, attempt |-> 1]
              f == [op |-> "publish", body |-> b]
  <2>1. b \in Body
    BY DEF Body, ProcessTaskJob
  <2>2. Earned(b)
    BY JobsAssumption DEF Earned
  <2>3. f \in Frame /\ FrameOk(f)
    BY <2>1, <2>2, FramesTyped DEF FrameOk
  <2>4. Send(p, f) /\ UNCHANGED copies
    BY <1>2 DEF EnqueueProcessTask, NewJob
  <2>. HIDE DEF f
  <2>. QED BY <2>3, <2>4, RetryWrite
<1>3. ASSUME NEW b \in ForeignBodies, ForeignPublish(b)
      PROVE  RetryInv'
  <2>1. b \in Body
    BY PipelineAssumption
  <2>2. \A k \in DOMAIN copies' :
          \/ k \in DOMAIN copies /\ copies'[k] = copies[k]
          \/ k \notin DOMAIN copies /\ copies'[k].st = "ready" /\ copies'[k].body = b
    BY <1>3, <2>1, AppendFacts DEF ForeignPublish
  <2>3. BodiesKept /\ UNCHANGED wire
    BY <1>3, <2>1, AppendCopyTyped DEF ForeignPublish
  <2>4. ~Own(b)
    BY DEF Own, OwnId
  <2>5. \A k \in DOMAIN copies' : CopyOk(k)'
    BY <2>2, <2>3, <2>4, CopyStaysOk DEF CopyOk, Earned, Own
  <2>. QED BY <2>3, <2>5, FramesDropped DEF RetryInv, CopiesInv
<1>. QED BY <1>1, <1>2, <1>3 DEF ProducerStep, ForeignStep

LEMMA RetryStepKept == TypeOK /\ RetryInv /\ [Next]_vars => RetryInv'
<1>1. TypeOK /\ RetryInv /\ UNCHANGED vars => RetryInv'
  BY RetryQuiet DEF vars, brokerVars
<1>. QED BY <1>1, RetryBroker, RetryLinks, RetryWorker, RetryPublishers DEF Next

\* A job of the producers is in the dead-letter queue only with its last attempt,
\* and after every earlier attempt was published and failed, whatever connections
\* break and workers restart in between.
THEOREM DeadLettersExhausted == Spec => []DeadOnlyWhenExhausted
<1>1. BrokerTypeOK /\ RetryInv => DeadOnlyWhenExhausted
  <2>. SUFFICES ASSUME BrokerTypeOK, RetryInv, NEW k \in DOMAIN copies,
                       copies[k].st = "dead", copies[k].body # Malformed,
                       OwnId(copies[k].body.mid)
                PROVE  LET job == copies[k].body
                       IN /\ job.attempt = MaxAttempts
                          /\ \A n \in 1..MaxAttempts :
                               /\ Attempted(job.mid, job.task, n)
                               /\ ProcessFails([job EXCEPT !.attempt = n])
    BY DEF DeadOnlyWhenExhausted
  <2>. DEFINE b == copies[k].body
  <2>1. /\ b \in ProcessTaskJob
        /\ Own(b) /\ Earned(b) /\ Spent(b)
    BY BodyTyped DEF RetryInv, CopiesInv, CopyOk, Own
  <2>2. b.attempt = MaxAttempts /\ FailsAt(b.task, MaxAttempts)
    BY <2>1 DEF Spent
  <2>3. b = [mid |-> b.mid, task |-> b.task, attempt |-> MaxAttempts]
    BY <2>1, <2>2 DEF ProcessTaskJob
  <2>4. Attempted(b.mid, b.task, MaxAttempts)
    BY <2>3 DEF Attempted
  <2>5. \A n \in 1..MaxAttempts : n = MaxAttempts \/ n \in 1..(MaxAttempts - 1)
    BY JobsAssumption
  <2>6. \A n \in 1..MaxAttempts : Attempted(b.mid, b.task, n) /\ FailsAt(b.task, n)
    BY <2>1, <2>2, <2>4, <2>5 DEF Earned
  <2>7. \A n \in 1..MaxAttempts : ProcessFails([b EXCEPT !.attempt = n])
    BY <2>1, <2>6, FailsIsFailsAt
  <2>. QED BY <2>2, <2>6, <2>7
<1>2. TypeOK => BrokerTypeOK
  BY DEF TypeOK
<1>. QED BY <1>1, <1>2, TypeCorrect, RetryInit, RetryStepKept, PTL DEF Spec
=============================================================================
