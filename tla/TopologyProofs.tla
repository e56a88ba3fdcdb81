--------------------------- MODULE TopologyProofs ---------------------------
(***************************************************************************)
(* Theorems about the declarations of the job pipeline, for every number   *)
(* of processes, every set of configurations and every number of failures. *)
(***************************************************************************)
EXTENDS Topology, TLAPS

\* What one declaration of a queue does, whether it is refused or not.
LEMMA DeclareQueueFacts ==
  ASSUME TypeOK, NEW c \in Clients, NEW q \in Names, NEW args \in Args, NEW step \in Step,
         DeclareQueue(c, q, args, step)
  PROVE  /\ queues' \in [Names -> Args \cup {NoQueue}]
         /\ \A n \in Names : queues[n] # NoQueue => queues'[n] = queues[n]
         /\ at' \in [Clients -> Step]
         /\ \A d \in Clients \ {c} : at'[d] = at[d]
         /\ at'[c] = "down" \/ (at'[c] = step /\ queues'[q] = args)
<1>1. step \in Step /\ "down" \in Step
  BY DEF Step
<1>2. CASE /\ queues[q] \in {NoQueue, args}
           /\ queues' = [queues EXCEPT ![q] = args]
           /\ Goto(c, step)
  BY <1>1, <1>2 DEF TypeOK, Goto
<1>3. CASE Goto(c, "down") /\ UNCHANGED queues
  BY <1>1, <1>3 DEF TypeOK, Goto
<1>. QED BY <1>2, <1>3 DEF DeclareQueue

LEMMA GotoFacts ==
  ASSUME TypeOK, NEW c \in Clients, NEW step \in Step, Goto(c, step)
  PROVE  /\ at' \in [Clients -> Step]
         /\ at'[c] = step
         /\ \A d \in Clients \ {c} : at'[d] = at[d]
  BY DEF TypeOK, Goto

LEMMA ConfigFacts ==
  ASSUME TypeOK, NEW c \in Clients
  PROVE  /\ config[c] \in Configs /\ config[c] \in QueueTopology
         /\ config[c].main \in Names
         /\ config[c].dlx # NoName => config[c].dlx \in Names
         /\ config[c].dlq # NoName => config[c].dlq \in Names
         /\ MainArgs(config[c]) \in Args /\ Plain \in Args
         /\ \A q \in Names : MainArgs(config[c]) # NoQueue /\ Plain # NoQueue
<1>1. config[c] \in Configs /\ config[c] \in QueueTopology
  BY TopologyAssumption DEF TypeOK
<1>2. /\ config[c].main \in Names
      /\ config[c].dlx \in Names \cup {NoName}
      /\ config[c].dlq \in Names \cup {NoName}
  BY <1>1 DEF QueueTopology
<1>3. MainArgs(config[c]) \in Args /\ Plain \in Args
  BY <1>2 DEF MainArgs, Plain, Args
<1>. QED BY <1>1, <1>2, <1>3, TopologyAssumption

-----------------------------------------------------------------------------
(***************************************************************************)
(* How far a process that is not down has come.  The invariant says that   *)
(* what it declared is there, and as it asked for: a declaration that      *)
(* disagreed would have sent it down, and none takes away or changes what  *)
(* another one has made.                                                   *)
(***************************************************************************)

Declared(c) ==
  /\ at[c] \in {"dlq", "bind", "ready"} =>
       queues[config[c].main] = MainArgs(config[c])
  /\ at[c] \in {"main", "dlq", "bind", "ready"} /\ config[c].dlx # NoName =>
       config[c].dlx \in exchanges
  /\ at[c] \in {"dlq", "bind"} => config[c].dlq # NoName
  /\ at[c] = "bind" => config[c].dlx # NoName
  /\ at[c] \in {"bind", "ready"} /\ config[c].dlq # NoName =>
       queues[config[c].dlq] = Plain
  /\ at[c] = "ready" /\ Complete(config[c]) =>
       <<config[c].dlx, config[c].dlq>> \in bindings

IInv == TypeOK /\ \A c \in Clients : Declared(c)

\* What a step keeps of what every process it does not belong to has declared.
ObjectsGrow ==
  /\ \A q \in Names : queues[q] # NoQueue => queues'[q] = queues[q]
  /\ exchanges \subseteq exchanges'
  /\ bindings \subseteq bindings'

LEMMA DeclaredKept ==
  ASSUME TypeOK, NEW d \in Clients, Declared(d), ObjectsGrow,
         at'[d] = at[d], config'[d] = config[d]
  PROVE  Declared(d)'
<1>1. /\ config[d].main \in Names
      /\ config[d].dlq # NoName => config[d].dlq \in Names
      /\ MainArgs(config[d]) # NoQueue /\ Plain # NoQueue
  BY ConfigFacts
<1>. DEFINE cfg == config[d]
            margs == MainArgs(config[d])
<1>2. config'[d] = cfg /\ MainArgs(config'[d]) = margs /\ (Complete(config'[d]) <=> Complete(cfg))
  OBVIOUS
<1>3. at[d] \in {"dlq", "bind", "ready"} => queues'[cfg.main] = margs
  BY <1>1 DEF Declared, ObjectsGrow
<1>4. at[d] \in {"bind", "ready"} /\ cfg.dlq # NoName => queues'[cfg.dlq] = Plain
  BY <1>1 DEF Declared, ObjectsGrow
<1>. QED BY <1>2, <1>3, <1>4 DEF Declared, ObjectsGrow, Complete, MainArgs, Plain

LEMMA Inductive == IInv /\ [Next]_vars => IInv'
<1>. SUFFICES ASSUME IInv, [Next]_vars
              PROVE  IInv'
  OBVIOUS
<1>. TypeOK
  BY DEF IInv
<1>1. ASSUME NEW c \in Clients, Start(c)
      PROVE  IInv'
  <2>1. /\ at' \in [Clients -> Step] /\ at'[c] = "exchange"
        /\ \A d \in Clients \ {c} : at'[d] = at[d]
    BY <1>1, GotoFacts DEF Start, Step
  <2>2. /\ config' \in [Clients -> Configs]
        /\ \A d \in Clients \ {c} : config'[d] = config[d]
    BY <1>1 DEF Start, TypeOK
  <2>3. UNCHANGED <<exchanges, queues, bindings, failures>>
    BY <1>1 DEF Start, brokerObjects
  <2>4. \A d \in Clients \ {c} : Declared(d)'
    BY <2>1, <2>2, <2>3, DeclaredKept DEF IInv, ObjectsGrow
  <2>5. Declared(c)'
    BY <2>1 DEF Declared
  <2>. QED BY <2>1, <2>2, <2>3, <2>4, <2>5 DEF IInv, TypeOK
<1>2. ASSUME NEW c \in Clients, DeclareExchange(c)
      PROVE  IInv'
  <2>1. /\ at' \in [Clients -> Step] /\ at'[c] = "main"
        /\ \A d \in Clients \ {c} : at'[d] = at[d]
    BY <1>2, GotoFacts DEF DeclareExchange, Step
  <2>2. UNCHANGED <<config, queues, bindings, failures>>
    BY <1>2 DEF DeclareExchange
  <2>3. /\ exchanges' \subseteq Names /\ exchanges \subseteq exchanges'
        /\ config[c].dlx # NoName => config[c].dlx \in exchanges'
    BY <1>2, ConfigFacts DEF DeclareExchange, TypeOK
  <2>4. \A d \in Clients \ {c} : Declared(d)'
    BY <2>1, <2>2, <2>3, DeclaredKept DEF IInv, ObjectsGrow
  <2>5. Declared(c)'
    BY <2>1, <2>2, <2>3 DEF Declared
  <2>. QED BY <2>1, <2>2, <2>3, <2>4, <2>5 DEF IInv, TypeOK
<1>3. ASSUME NEW c \in Clients, DeclareMain(c)
      PROVE  IInv'
  <2>. DEFINE next == IF config[c].dlq = NoName THEN "ready" ELSE "dlq"
  <2>1. next \in Step
    BY DEF Step
  <2>2. DeclareQueue(c, config[c].main, MainArgs(config[c]), next)
    BY <1>3 DEF DeclareMain
  <2>3. /\ queues' \in [Names -> Args \cup {NoQueue}]
        /\ \A n \in Names : queues[n] # NoQueue => queues'[n] = queues[n]
        /\ at' \in [Clients -> Step]
        /\ \A d \in Clients \ {c} : at'[d] = at[d]
        /\ at'[c] = "down" \/ (at'[c] = next /\ queues'[config[c].main] = MainArgs(config[c]))
    <3>. HIDE DEF next
    <3>. QED BY <2>1, <2>2, ConfigFacts, DeclareQueueFacts
  <2>4. UNCHANGED <<config, exchanges, bindings, failures>> /\ at[c] = "main"
    BY <1>3 DEF DeclareMain
  <2>5. \A d \in Clients \ {c} : Declared(d)'
    BY <2>3, <2>4, DeclaredKept DEF IInv, ObjectsGrow
  <2>6. Declared(c)'
    <3>1. MainArgs(config'[c]) = MainArgs(config[c])
      BY <2>4
    <3>2. config[c].dlx # NoName => config[c].dlx \in exchanges
      BY <2>4 DEF IInv, Declared
    <3>. QED BY <2>3, <2>4, <3>1, <3>2 DEF Declared, Complete
  <2>. QED BY <2>3, <2>4, <2>5, <2>6 DEF IInv, TypeOK
<1>4. ASSUME NEW c \in Clients, DeclareDlq(c)
      PROVE  IInv'
  <2>. DEFINE next == IF config[c].dlx = NoName THEN "ready" ELSE "bind"
  <2>1. next \in Step
    BY DEF Step
  <2>2. /\ DeclareQueue(c, config[c].dlq, Plain, next)
        /\ UNCHANGED <<config, exchanges, bindings, failures>> /\ at[c] = "dlq"
    BY <1>4 DEF DeclareDlq
  <2>3. /\ config[c].dlq \in Names /\ config[c].dlq # NoName
        /\ queues[config[c].main] = MainArgs(config[c])
        /\ config[c].dlx # NoName => config[c].dlx \in exchanges
    BY <2>2, ConfigFacts DEF IInv, Declared
  <2>4. /\ queues' \in [Names -> Args \cup {NoQueue}]
        /\ \A n \in Names : queues[n] # NoQueue => queues'[n] = queues[n]
        /\ at' \in [Clients -> Step]
        /\ \A d \in Clients \ {c} : at'[d] = at[d]
        /\ at'[c] = "down" \/ (at'[c] = next /\ queues'[config[c].dlq] = Plain)
    <3>. HIDE DEF next
    <3>. QED BY <2>1, <2>2, <2>3, ConfigFacts, DeclareQueueFacts
  <2>5. \A d \in Clients \ {c} : Declared(d)'
    BY <2>2, <2>4, DeclaredKept DEF IInv, ObjectsGrow
  <2>6. Declared(c)'
    <3>1. MainArgs(config'[c]) = MainArgs(config[c])
      BY <2>2
    <3>2. queues'[config[c].main] = MainArgs(config[c])
      BY <2>3, <2>4, ConfigFacts
    <3>. QED BY <2>2, <2>3, <2>4, <3>1, <3>2 DEF Declared, Complete
  <2>. QED BY <2>2, <2>4, <2>5, <2>6 DEF IInv, TypeOK
<1>5. ASSUME NEW c \in Clients, Bind(c)
      PROVE  IInv'
  <2>1. /\ at' \in [Clients -> Step] /\ at'[c] = "ready"
        /\ \A d \in Clients \ {c} : at'[d] = at[d]
    BY <1>5, GotoFacts DEF Bind, Step
  <2>2. /\ UNCHANGED <<config, exchanges, queues, failures>> /\ at[c] = "bind"
        /\ bindings' = bindings \cup {<<config[c].dlx, config[c].dlq>>}
    BY <1>5 DEF Bind
  <2>3. config[c].dlx \in Names /\ config[c].dlq \in Names
    BY <2>2, ConfigFacts DEF IInv, Declared
  <2>4. \A d \in Clients \ {c} : Declared(d)'
    BY <2>1, <2>2, DeclaredKept DEF IInv, ObjectsGrow
  <2>5. Declared(c)'
    <3>1. MainArgs(config'[c]) = MainArgs(config[c])
      BY <2>2
    <3>. QED BY <2>1, <2>2, <3>1 DEF IInv, Declared
  <2>. QED BY <2>1, <2>2, <2>3, <2>4, <2>5 DEF IInv, TypeOK
<1>6. ASSUME NEW c \in Clients, Fail(c)
      PROVE  IInv'
  <2>1. /\ at' \in [Clients -> Step] /\ at'[c] = "down"
        /\ \A d \in Clients \ {c} : at'[d] = at[d]
    BY <1>6, GotoFacts DEF Fail, Step
  <2>2. UNCHANGED <<config, exchanges, queues, bindings>> /\ failures' \in 0..MaxFailures
    BY <1>6, TopologyAssumption DEF Fail, brokerObjects, TypeOK
  <2>3. \A d \in Clients \ {c} : Declared(d)'
    BY <2>1, <2>2, DeclaredKept DEF IInv, ObjectsGrow
  <2>4. Declared(c)'
    BY <2>1 DEF Declared
  <2>. QED BY <2>1, <2>2, <2>3, <2>4 DEF IInv, TypeOK
<1>7. CASE UNCHANGED vars
  BY <1>7, DeclaredKept DEF IInv, TypeOK, vars, brokerObjects, ObjectsGrow
<1>. QED BY <1>1, <1>2, <1>3, <1>4, <1>5, <1>6, <1>7 DEF Next, Declare

LEMMA Initially == Init => IInv
  BY TopologyAssumption DEF Init, IInv, TypeOK, Declared, Step

\* What is rejected from the main queue of a process that publishes or consumes
\* reaches the dead-letter queue of its configuration, and no other.
THEOREM RejectsRouted == Spec => []RejectsReachDlq
<1>1. IInv => RejectsReachDlq
  <2>. SUFFICES ASSUME IInv, NEW c \in Clients, at[c] = "ready", Complete(config[c])
                PROVE  DeadLetterTargets(config[c].main) = {config[c].dlq}
    BY DEF RejectsReachDlq
  <2>1. /\ queues[config[c].main] = [dlx |-> config[c].dlx, key |-> config[c].dlq]
        /\ config[c].dlx \in exchanges
        /\ <<config[c].dlx, config[c].dlq>> \in bindings
    BY DEF IInv, Declared, Complete, MainArgs
  <2>2. config[c].dlq \in Names /\ queues[config[c].main] # NoQueue
    BY ConfigFacts DEF IInv, Declared, Complete
  <2>. QED BY <2>1, <2>2 DEF DeadLetterTargets
<1>. QED BY <1>1, Initially, Inductive, PTL DEF Spec

\* Whatever processes are deployed with, none works on the queue that another one
\* uses for its rejected messages.
THEOREM DlqApart == Spec => []DlqIsNobodysMain
<1>1. IInv => DlqIsNobodysMain
  <2>. SUFFICES ASSUME IInv, NEW c \in Clients, NEW d \in Clients,
                       at[c] = "ready", at[d] = "ready",
                       Complete(config[c]), Complete(config[d]),
                       config[c].main = config[d].dlq
                PROVE  FALSE
    BY DEF DlqIsNobodysMain
  <2>1. queues[config[c].main] = [dlx |-> config[c].dlx, key |-> config[c].dlq]
    BY DEF IInv, Declared, Complete, MainArgs
  <2>2. queues[config[d].dlq] = [dlx |-> NoName, key |-> NoName]
    BY DEF IInv, Declared, Complete, Plain
  <2>3. config[c].dlx = NoName
    BY <2>1, <2>2
  <2>. QED BY <2>3 DEF Complete
<1>. QED BY <1>1, Initially, Inductive, PTL DEF Spec
=============================================================================
