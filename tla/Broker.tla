------------------------------- MODULE Broker -------------------------------
(***************************************************************************)
(* RabbitMQ as the two services use it, and the AMQP connections to it.    *)
(*                                                                         *)
(* The main queue is the history of every copy it was ever given: a copy   *)
(* is ready, delivered and unacknowledged on one connection, acknowledged, *)
(* or dead-lettered to the DLQ the topology declares for it.  A client     *)
(* writes frames to a connection, and the broker reads them in order and   *)
(* later: what it has not read when the connection breaks is lost.  The    *)
(* two ends of a connection learn of a break separately, in either order.  *)
(***************************************************************************)
EXTENDS Jobs, Sequences, FiniteSets

CONSTANTS
  Producers,  \* incarnations of the tasks service, one connection each
  MaxLives,   \* bound on the incarnations of the worker, one connection each
  Prefetch    \* WORKER_PREFETCH

Lives == 1..MaxLives
Conns == Producers \cup Lives
NoConn == 0

ASSUME BrokerAssumption ==
  /\ MaxLives \in Nat \ {0}
  /\ Prefetch \in Nat \ {0}
  /\ Producers \cap Lives = {}

VARIABLES
  copies,  \* every copy published to the main queue, in order
  wire,    \* wire[c]: frames client c has written and the broker not yet read
  linked,  \* linked[c]: the broker holds connection c open
  open,    \* open[c]: the client library of c holds it open
  inbox    \* inbox[c]: copies delivered to worker life c and not yet taken

brokerVars == <<copies, wire, linked, open, inbox>>

Copy == [body: Body,
         st: {"ready", "unacked", "acked", "dead"},
         by: Lives \cup {NoConn}]

PublishFrame == [op: {"publish"}, body: Body]
SettleFrame  == [op: {"ack", "nack"}, copy: Nat]
Frame        == PublishFrame \cup SettleFrame

BrokerTypeOK ==
  /\ copies \in Seq(Copy)
  /\ wire \in [Conns -> Seq(Frame)]
  /\ linked \in [Conns -> BOOLEAN]
  /\ open \in [Conns -> BOOLEAN]
  /\ inbox \in [Lives -> Seq(DOMAIN copies)]

BrokerInit ==
  /\ copies = <<>>
  /\ wire = [c \in Conns |-> <<>>]
  /\ linked = [c \in Conns |-> FALSE]
  /\ open = [c \in Conns |-> FALSE]
  /\ inbox = [c \in Lives |-> <<>>]

-----------------------------------------------------------------------------
(* What the queue holds. *)

Of(k, m)  == copies[k].body # Malformed /\ copies[k].body.mid = m
Live(k)   == copies[k].st \in {"ready", "unacked"}
HeldBy(c) == {k \in DOMAIN copies : copies[k].st = "unacked" /\ copies[k].by = c}

Known(m)    == \E k \in DOMAIN copies : Of(k, m)
LiveCopy(m) == \E k \in DOMAIN copies : Of(k, m) /\ Live(k)
DeadCopy(m) == \E k \in DOMAIN copies : Of(k, m) /\ copies[k].st = "dead"

-----------------------------------------------------------------------------
(* The client's end of a connection. *)

\* Dial, open the channel and declare the topology: both ends are up.
Connect(c) ==
  /\ linked' = [linked EXCEPT ![c] = TRUE]
  /\ open' = [open EXCEPT ![c] = TRUE]

\* Write frame f on c.  The library refuses on a channel it knows is closed;
\* on one the broker alone has closed, the write succeeds and goes nowhere.
Send(c, f) ==
  wire' = IF open[c] /\ linked[c] THEN [wire EXCEPT ![c] = Append(@, f)] ELSE wire

-----------------------------------------------------------------------------
(* The broker's end. *)

BrokerPublish(c) ==
  /\ wire[c] # <<>>
  /\ Head(wire[c]).op = "publish"
  /\ copies' = Append(copies, [body |-> Head(wire[c]).body, st |-> "ready", by |-> NoConn])
  /\ wire' = [wire EXCEPT ![c] = Tail(@)]
  /\ UNCHANGED <<linked, open, inbox>>

\* Mutant: a rejected message is dropped, as on a queue declared without
\* its dead-letter arguments.
SettledAsDropped(op) == "acked"

\* Where a settled copy ends: Nack(requeue = false) follows the dead-letter
\* exchange and routing key declareTopology gave the queue.
SettledAs(op) == IF op = "ack" THEN "acked" ELSE "dead"

BrokerSettle(c) ==
  /\ wire[c] # <<>>
  /\ Head(wire[c]).op # "publish"
  /\ LET f == Head(wire[c])
     IN copies' = [copies EXCEPT ![f.copy] = [@ EXCEPT !.st = SettledAs(f.op), !.by = NoConn]]
  /\ wire' = [wire EXCEPT ![c] = Tail(@)]
  /\ UNCHANGED <<linked, open, inbox>>

\* basic.deliver: a ready copy goes out while fewer than Prefetch are unacked.
\* Any ready copy may be next.  A client that is gone does not receive it.
Deliver(c, k) ==
  /\ linked[c]
  /\ copies[k].st = "ready"
  /\ Cardinality(HeldBy(c)) < Prefetch
  /\ copies' = [copies EXCEPT ![k] = [@ EXCEPT !.st = "unacked", !.by = c]]
  /\ inbox' = IF open[c] THEN [inbox EXCEPT ![c] = Append(@, k)] ELSE inbox
  /\ UNCHANGED <<wire, linked, open>>

\* Mutant: unacked copies of a lost connection stay with it.
RequeueNone(c) == copies

\* The queue once connection c is gone: what it held unacked is ready again.
Requeue(c) ==
  [k \in DOMAIN copies |->
     IF k \in HeldBy(c) THEN [copies[k] EXCEPT !.st = "ready", !.by = NoConn]
                        ELSE copies[k]]

\* The broker gives up connection c: unread frames are lost.
BrokerClose(c) ==
  /\ linked[c]
  /\ linked' = [linked EXCEPT ![c] = FALSE]
  /\ wire' = [wire EXCEPT ![c] = <<>>]
  /\ copies' = Requeue(c)
  /\ UNCHANGED <<open, inbox>>

\* The client library learns that c is broken and closes it.  Frames already
\* written may still reach the broker.
ClientClose(c) ==
  /\ open[c]
  /\ open' = [open EXCEPT ![c] = FALSE]
  /\ UNCHANGED <<copies, wire, linked, inbox>>
=============================================================================
