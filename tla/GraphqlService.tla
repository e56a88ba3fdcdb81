--------------------------- MODULE GraphqlService ---------------------------
(***************************************************************************)
(* The GraphQL service: the same table, no cache.  A create and an update  *)
(* end with a read of the row they wrote, which another request may have   *)
(* changed or deleted by then.                                             *)
(***************************************************************************)
EXTENDS TaskTable

CONSTANTS
  GqlHandlers,  \* bound on the mutations in progress at once
  GqlFaults     \* may Postgres fail a statement of this service?

ASSUME GraphqlAssumption == GqlFaults \in BOOLEAN

VARIABLE mutation  \* mutation[g]: the create or update g is in the middle of

NoMutation == [at |-> "idle"]
Mutation == [at: {"insert", "store", "reread"}, id: Ids, row: Row]

GraphqlTypeOK == mutation \in [GqlHandlers -> Mutation \cup {NoMutation}]

GraphqlInit == mutation = [g \in GqlHandlers |-> NoMutation]

BeginMutation(g, at, id, row) ==
  /\ mutation[g] = NoMutation
  /\ mutation' = [mutation EXCEPT ![g] = [at |-> at, id |-> id, row |-> row]]

WillReread(g) == mutation' = [mutation EXCEPT ![g].at = "reread"]

EndMutation(g) == mutation' = [mutation EXCEPT ![g] = NoMutation]

\* Mutant: only the tasks still to be done are counted.
NextGqlIdOpen == Cardinality({id \in Ids : Present(id) /\ ~rows[id].done}) + 1

\* nextID counts the rows.
NextGqlId == Count + 1

\* createTask: the first of its three statements.
GqlCreate(g, title) ==
  /\ BeginWrite
  /\ NextGqlId \in Ids
  /\ BeginMutation(g, "insert", NextGqlId, NewRow(title))
  /\ UNCHANGED <<rows, past>>

\* Mutant: the row is read back whatever became of the INSERT.
GqlInsertUnchecked(g) ==
  /\ mutation[g].at = "insert"
  /\ Insert(mutation[g].id, mutation[g].row) \/ (Present(mutation[g].id) /\ UNCHANGED <<rows, past>>)
  /\ WillReread(g)
  /\ UNCHANGED writes

\* Mutant: an INSERT that is refused is sent again.
GqlInsertRepeats(g) ==
  /\ mutation[g].at = "insert"
  /\ \/ Insert(mutation[g].id, mutation[g].row) /\ WillReread(g)
     \/ UNCHANGED <<rows, past, mutation>>
  /\ UNCHANGED writes

\* The id may be taken: by a concurrent create, or since a row was deleted.  The
\* statement may also fail, or succeed without the service learning it.
GqlInsert(g) ==
  /\ mutation[g].at = "insert"
  /\ \/ Insert(mutation[g].id, mutation[g].row) /\ WillReread(g)
     \/ Present(mutation[g].id) /\ UNCHANGED <<rows, past>> /\ EndMutation(g)
     \/ GqlFaults /\ Insert(mutation[g].id, mutation[g].row) /\ EndMutation(g)
     \/ GqlFaults /\ UNCHANGED <<rows, past>> /\ EndMutation(g)
  /\ UNCHANGED writes

\* updateTask of a row that is there: the first of its three statements.
GqlUpdate(g, id, patch) ==
  /\ BeginWrite
  /\ Present(id)
  /\ BeginMutation(g, "store", id, Patched(rows[id], patch))
  /\ UNCHANGED <<rows, past>>

GqlStore(g) ==
  /\ mutation[g].at = "store"
  /\ \/ Overwrite(mutation[g].id, mutation[g].row) /\ WillReread(g)
     \/ GqlFaults /\ Overwrite(mutation[g].id, mutation[g].row) /\ EndMutation(g)
     \/ GqlFaults /\ UNCHANGED <<rows, past>> /\ EndMutation(g)
  /\ UNCHANGED writes

\* The GetByID that ends Create and Update.
GqlReread(g) ==
  /\ mutation[g].at = "reread"
  /\ EndMutation(g)
  /\ UNCHANGED tableVars

\* deleteTask
GqlDelete(id) ==
  /\ BeginWrite
  /\ Remove(id)
  /\ UNCHANGED mutation

GqlProceed(g) == GqlInsert(g) \/ GqlStore(g) \/ GqlReread(g)
=============================================================================
