------------------------------ MODULE Topology ------------------------------
(***************************************************************************)
(* How the tasks services and the worker make the exchange and the queues  *)
(* of the job pipeline.  Every process runs declareTopology on its own     *)
(* connection before it publishes or consumes; the broker keeps what was   *)
(* declared, and refuses a queue that exists with other arguments.         *)
(***************************************************************************)
EXTENDS Naturals

CONSTANTS
  Clients,     \* processes that declare: instances of the tasks service, workers
  Workers,     \* those that are workers
  Names,       \* names of queues and of exchanges
  NoName,      \* the empty name
  Configs,     \* configurations the processes may be deployed with
  NoQueue,     \* no queue has this name
  MaxFailures  \* bound on the processes killed and connections broken

QueueTopology == [main: Names, dlx: Names \cup {NoName}, dlq: Names \cup {NoName}]
Args == [dlx: Names \cup {NoName}, key: Names \cup {NoName}]

ASSUME TopologyAssumption ==
  /\ Workers \subseteq Clients
  /\ NoName \notin Names
  /\ NoQueue \notin Args
  /\ Configs \subseteq QueueTopology
  /\ MaxFailures \in Nat

VARIABLES
  config,     \* config[c]: what this incarnation of c was configured with
  at,         \* at[c]: the declaration c makes next
  exchanges,  \* exchanges the broker has
  queues,     \* queues[q]: the arguments queue q was declared with
  bindings,   \* <<exchange, queue>>, the key being the name of the queue
  failures    \* history: failures so far

brokerObjects == <<exchanges, queues, bindings>>
vars == <<config, at, brokerObjects, failures>>

Step == {"down", "exchange", "main", "dlq", "bind", "ready"}

TypeOK ==
  /\ config \in [Clients -> Configs]
  /\ at \in [Clients -> Step]
  /\ exchanges \subseteq Names
  /\ queues \in [Names -> Args \cup {NoQueue}]
  /\ bindings \subseteq Names \X Names
  /\ failures \in 0..MaxFailures

Init ==
  /\ config \in [Clients -> Configs]
  /\ at = [c \in Clients |-> "down"]
  /\ exchanges = {}
  /\ queues = [q \in Names |-> NoQueue]
  /\ bindings = {}
  /\ failures = 0

Plain == [dlx |-> NoName, key |-> NoName]

\* The arguments of the main queue: where its rejected messages go.
MainArgs(cfg) ==
  IF cfg.dlx = NoName THEN Plain ELSE [dlx |-> cfg.dlx, key |-> cfg.dlq]

Goto(c, step) == at' = [at EXCEPT ![c] = step]

\* Mutant: a queue that exists is not declared again.
DeclareQueueNew(c, q, args, step) ==
  \/ /\ queues[q] = NoQueue
     /\ queues' = [queues EXCEPT ![q] = args]
     /\ Goto(c, step)
  \/ /\ queues[q] # NoQueue
     /\ Goto(c, "down")
     /\ UNCHANGED queues

\* Mutant: the broker lets the last declaration win.
DeclareQueueAnyway(c, q, args, step) ==
  /\ queues' = [queues EXCEPT ![q] = args]
  /\ Goto(c, step)

\* Declaring a queue is idempotent; with other arguments it is refused and closes
\* the channel: the worker exits, the tasks service goes on without a producer.
DeclareQueue(c, q, args, step) ==
  \/ /\ queues[q] \in {NoQueue, args}
     /\ queues' = [queues EXCEPT ![q] = args]
     /\ Goto(c, step)
  \/ /\ queues[q] \notin {NoQueue, args}
     /\ Goto(c, "down")
     /\ UNCHANGED queues

-----------------------------------------------------------------------------
\* A process starts, perhaps deployed anew, and opens a channel.
Start(c) ==
  /\ at[c] = "down"
  /\ \E cfg \in Configs : config' = [config EXCEPT ![c] = cfg]
  /\ Goto(c, "exchange")
  /\ UNCHANGED <<brokerObjects, failures>>

DeclareExchange(c) ==
  /\ at[c] = "exchange"
  /\ exchanges' = exchanges \cup ({config[c].dlx} \ {NoName})
  /\ Goto(c, "main")
  /\ UNCHANGED <<config, queues, bindings, failures>>

DeclareMain(c) ==
  /\ at[c] = "main"
  /\ DeclareQueue(c, config[c].main, MainArgs(config[c]),
                  IF config[c].dlq = NoName THEN "ready" ELSE "dlq")
  /\ UNCHANGED <<config, exchanges, bindings, failures>>

DeclareDlq(c) ==
  /\ at[c] = "dlq"
  /\ DeclareQueue(c, config[c].dlq, Plain, IF config[c].dlx = NoName THEN "ready" ELSE "bind")
  /\ UNCHANGED <<config, exchanges, bindings, failures>>

\* Mutant: the main queue is bound in place of the dead-letter queue.
BindMain(c) ==
  /\ at[c] = "bind"
  /\ bindings' = bindings \cup {<<config[c].dlx, config[c].main>>}
  /\ Goto(c, "ready")
  /\ UNCHANGED <<config, exchanges, queues, failures>>

Bind(c) ==
  /\ at[c] = "bind"
  /\ bindings' = bindings \cup {<<config[c].dlx, config[c].dlq>>}
  /\ Goto(c, "ready")
  /\ UNCHANGED <<config, exchanges, queues, failures>>

\* c is killed, or its connection breaks.
Fail(c) ==
  /\ at[c] # "down"
  /\ failures < MaxFailures
  /\ failures' = failures + 1
  /\ Goto(c, "down")
  /\ UNCHANGED <<config, brokerObjects>>

Declare(c) == DeclareExchange(c) \/ DeclareMain(c) \/ DeclareDlq(c) \/ Bind(c)

Next == \E c \in Clients : Start(c) \/ Declare(c) \/ Fail(c)

Spec == Init /\ [][Next]_vars

\* Declarations are answered, and a worker that exits is restarted.  A tasks
\* service whose declarations fail stays up without a producer and is not.
Fairness ==
  /\ \A c \in Clients : WF_vars(Declare(c))
  /\ \A w \in Workers : WF_vars(Start(w))

FairSpec == Spec /\ Fairness

-----------------------------------------------------------------------------
\* The queues a message rejected from queue q is routed to.
DeadLetterTargets(q) ==
  {d \in Names : queues[q] # NoQueue /\ queues[q].key = d
                   /\ queues[q].dlx \in exchanges /\ <<queues[q].dlx, d>> \in bindings}

\* Names both ends of the dead-letter route, as the entry points always do.
Complete(cfg) == cfg.dlx # NoName /\ cfg.dlq # NoName

\* As long as a process publishes or consumes, what is rejected from its main
\* queue ends in the dead-letter queue it is configured with, whoever else
\* declared, failed half way or was deployed with another configuration.
RejectsReachDlq ==
  \A c \in Clients :
    at[c] = "ready" /\ Complete(config[c]) =>
      DeadLetterTargets(config[c].main) = {config[c].dlq}

\* No process consumes or retries on the queue where another one parks its
\* rejected messages: whichever was declared first, the other is refused.
DlqIsNobodysMain ==
  \A c, d \in Clients :
    at[c] = "ready" /\ at[d] = "ready" /\ Complete(config[c]) /\ Complete(config[d]) =>
      config[c].main # config[d].dlq

\* A queue that c is configured with exists with other arguments.
Refused(c) ==
  LET cfg == config[c]
  IN \/ queues[cfg.main] \notin {NoQueue, MainArgs(cfg)}
     \/ cfg.dlq # NoName /\ queues[cfg.dlq] \notin {NoQueue, Plain}

\* A worker gets through its declarations in the end, whatever others, or its earlier
\* incarnations, left half declared: only queues that a process with another
\* configuration has declared can keep it down.
WorkersComeUp == \A w \in Workers : <>[](at[w] = "ready") \/ []<>Refused(w)
=============================================================================
