------------------------------- MODULE Store -------------------------------
(***************************************************************************)
(* The in-memory Store of tasks: a map under a readers-writer lock, which  *)
(* each method takes for as long as it runs.  The writes of a method and   *)
(* the map accesses of GetAll are steps of their own, so that only the     *)
(* lock keeps them together.                                               *)
(***************************************************************************)
EXTENDS FiniteSets, Naturals

CONSTANTS Callers, Ids, Task, NoTask

ASSUME StoreAssumption == NoTask \notin Task

VARIABLES
  tasks,    \* tasks[id]: the task under this id
  readers,  \* the callers that hold the lock for reading
  writer,   \* the callers that hold it for writing
  call,     \* call[c]: the method caller c is in
  during    \* history: during[c], what tasks has been since c called GetAll

storeVars == <<tasks, readers, writer, call, during>>

Out == [at |-> "out"]
Writes == {"create", "update", "delete", "overwrite", "remove"}
Writing == [at: Writes, id: Ids, task: Task]
Listing == [at: {"list", "listed"}, left: SUBSET Ids, result: [Ids -> Task \cup {NoTask}]]
Table == [Ids -> Task \cup {NoTask}]

StoreTypeOK ==
  /\ tasks \in Table
  /\ readers = {c \in Callers : call[c].at = "list"}
  /\ writer = {c \in Callers : call[c].at \in Writes} /\ Cardinality(writer) <= 1
  /\ call \in [Callers -> Writing \cup Listing \cup {Out}]
  /\ during \in [Callers -> SUBSET Table]

StoreInit ==
  /\ tasks = [id \in Ids |-> NoTask]
  /\ readers = {} /\ writer = {}
  /\ call = [c \in Callers |-> Out]
  /\ during = [c \in Callers |-> {}]

At(c, at) == call[c].at = at
Goes(c, to) == call' = [call EXCEPT ![c] = to]
Witness(table) ==
  during' = [c \in Callers |-> IF At(c, "list") THEN during[c] \cup {table} ELSE during[c]]

\* Mutant: a reader does not lock.
RLockNot(c) == UNCHANGED <<readers, writer>>

\* sync.RWMutex
Lock(c) == readers = {} /\ writer = {} /\ writer' = {c} /\ UNCHANGED readers
RLock(c) == writer = {} /\ readers' = readers \cup {c} /\ UNCHANGED writer
Unlock(c) == writer' = writer \ {c} /\ UNCHANGED readers
RUnlock(c) == readers' = readers \ {c} /\ UNCHANGED writer

Enter(c, method, id, task) ==
  /\ At(c, "out")
  /\ Goes(c, [at |-> method, id |-> id, task |-> task])
  /\ UNCHANGED <<tasks, during>>

BeginWrite(c) ==
  /\ \E method \in {"create", "update", "delete"}, id \in Ids, task \in Task :
       Enter(c, method, id, task)
  /\ Lock(c)

Put(c, task) ==
  /\ tasks' = [tasks EXCEPT ![call[c].id] = task]
  /\ Witness(tasks')
  /\ Goes(c, Out)
  /\ Unlock(c)

Create(c) == At(c, "create") /\ Put(c, call[c].task)

\* Mutant: the look-up has the lock to itself, and the write takes it again.
LookUpUnlocks(c) ==
  /\ call[c].at \in {"update", "delete"}
  /\ IF tasks[call[c].id] = NoTask
     THEN Goes(c, Out)
     ELSE Goes(c, [call[c] EXCEPT !.at = IF @ = "update" THEN "overwrite" ELSE "remove"])
  /\ Unlock(c)
  /\ UNCHANGED <<tasks, during>>

\* Update and Delete look the id up, and then write.
LookUp(c) ==
  /\ call[c].at \in {"update", "delete"}
  /\ IF tasks[call[c].id] = NoTask
     THEN Goes(c, Out) /\ Unlock(c)
     ELSE /\ Goes(c, [call[c] EXCEPT !.at = IF @ = "update" THEN "overwrite" ELSE "remove"])
          /\ UNCHANGED <<readers, writer>>
  /\ UNCHANGED <<tasks, during>>

Overwrite(c) == At(c, "overwrite") /\ Put(c, call[c].task)
Remove(c) == At(c, "remove") /\ Put(c, NoTask)

\* GetAll visits the map in any order.
BeginList(c) ==
  /\ At(c, "out")
  /\ RLock(c)
  /\ Goes(c, [at |-> "list", left |-> Ids, result |-> [id \in Ids |-> NoTask]])
  /\ during' = [during EXCEPT ![c] = {tasks}]
  /\ UNCHANGED tasks

Visit(c) ==
  /\ At(c, "list")
  /\ \E id \in call[c].left :
       Goes(c, [at |-> "list", left |-> call[c].left \ {id},
                result |-> [call[c].result EXCEPT ![id] = tasks[id]]])
  /\ UNCHANGED <<tasks, readers, writer, during>>

EndList(c) ==
  /\ At(c, "list") /\ call[c].left = {}
  /\ Goes(c, [call[c] EXCEPT !.at = "listed"])
  /\ RUnlock(c)
  /\ UNCHANGED <<tasks, during>>

Return(c) ==
  /\ At(c, "listed")
  /\ Goes(c, Out)
  /\ during' = [during EXCEPT ![c] = {}]
  /\ UNCHANGED <<tasks, readers, writer>>

Runs(c) ==
  Create(c) \/ LookUp(c) \/ Overwrite(c) \/ Remove(c) \/ Visit(c) \/ EndList(c) \/ Return(c)

StoreNext == \E c \in Callers : BeginWrite(c) \/ BeginList(c) \/ Runs(c)

StoreSpec == StoreInit /\ [][StoreNext]_storeVars

-----------------------------------------------------------------------------
\* GetAll returns the tasks of one instant during the call, never a mixture of
\* what the store held before a write and after another.
ListIsSnapshot == \A c \in Callers : At(c, "listed") => call[c].result \in during[c]

\* Between the look-up of an update or a delete and its write no other caller
\* deletes the task: an update does not bring a deleted task back, and of two
\* deletes of a task one returns false.
WritesHit ==
  \A c \in Callers : call[c].at \in {"overwrite", "remove"} => tasks[call[c].id] # NoTask
=============================================================================
