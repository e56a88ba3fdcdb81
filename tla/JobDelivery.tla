---------------------------- MODULE JobDelivery ----------------------------
(***************************************************************************)
(* What the job pipeline promises its clients, in terms of message ids:    *)
(* an id the queue has taken stays outstanding until it was executed or    *)
(* buried in the dead-letter queue, and it may be executed more than once. *)
(* Attempts, copies, connections and processes do not appear here.         *)
(***************************************************************************)
CONSTANT MsgIds

VARIABLES
  outstanding,  \* ids the pipeline still owes an outcome, or a clean-up
  executed,     \* ids processed successfully at least once
  buried        \* ids with a message in the dead-letter queue

deliveryVars == <<outstanding, executed, buried>>

DeliveryInit ==
  /\ outstanding = {}
  /\ executed = {}
  /\ buried = {}

\* A message with this id reaches the queue, for the first time or again.
Accept(m) ==
  /\ outstanding' = outstanding \cup {m}
  /\ UNCHANGED <<executed, buried>>

\* Only an id that is still owed an outcome is executed.
Execute(m) ==
  /\ m \in outstanding
  /\ executed' = executed \cup {m}
  /\ UNCHANGED <<outstanding, buried>>

\* The last message with this id, or one of several, is dead-lettered.
Bury(m) ==
  /\ m \in outstanding
  /\ buried' = buried \cup {m}
  /\ outstanding' \in {outstanding, outstanding \ {m}}
  /\ UNCHANGED executed

\* The last message with this id leaves the queue: it has had its outcome.
Settle(m) ==
  /\ m \in outstanding
  /\ m \in executed \cup buried
  /\ outstanding' = outstanding \ {m}
  /\ UNCHANGED <<executed, buried>>

DeliveryNext == \E m \in MsgIds : Accept(m) \/ Execute(m) \/ Bury(m) \/ Settle(m)

DeliverySpec == DeliveryInit /\ [][DeliveryNext]_deliveryVars
=============================================================================
