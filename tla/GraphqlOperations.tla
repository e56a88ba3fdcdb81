------------------------- MODULE GraphqlOperations -------------------------
(***************************************************************************)
(* What the generated executor makes of an operation: a query or a         *)
(* mutation of several root fields, each resolved by calls of the GraphQL  *)
(* service, and one answer in which a field that failed is null, or makes  *)
(* the whole answer null where the schema has no room for a null.          *)
(*                                                                         *)
(* The fields of a mutation are resolved one after the other, those of a   *)
(* query each on a goroutine of its own.  A task that is answered is only  *)
(* "value" here: its own fields never fail.                                *)
(***************************************************************************)
EXTENDS TaskPlatform, Sequences

CONSTANTS
  Documents,  \* the operations clients send
  MaxFields,  \* bound on the root fields of one operation
  NullArg     \* a field of an input that is null

CreateField == [name: {"createTask"}, title: Titles]
UpdateInput == [title: Titles \cup {Keep, NullArg}, done: BOOLEAN \cup {Keep, NullArg}]
UpdateField == [name: {"updateTask"}, id: Ids, input: UpdateInput]
DeleteField == [name: {"deleteTask"}, id: Ids]
TasksField == [name: {"tasks"}]
TaskField == [name: {"task"}, id: Ids]

MutationField == CreateField \cup UpdateField \cup DeleteField
QueryField == TasksField \cup TaskField

ASSUME OperationAssumption ==
  /\ MaxFields \in Nat
  /\ NullArg \notin Titles \cup BOOLEAN \cup {Keep}
  /\ \A doc \in Documents : /\ doc \in Seq(MutationField) \cup Seq(QueryField)
                            /\ Len(doc) \in 1..MaxFields

VARIABLES
  op,      \* op[g]: operation g, which is sent once at most
  overrun  \* history: the row g has yet to read back was changed after g wrote it

opVars == <<vars, op, overrun>>

Unsent == [at |-> "unsent"]
Operation == [at: {"executing", "answered"}, doc: Documents,
              out: Seq({"pending", "null", "value"}),  \* out[k]: what field k has become
              invalids: Nat,                           \* fields that may not be null and are
              errors: SUBSET (1..MaxFields),           \* fields with an entry in the errors
              made: SUBSET (1..MaxFields)]             \* history: creates that inserted a row

OpTypeOK ==
  /\ TypeOK
  /\ op \in [GqlHandlers -> Operation \cup {Unsent}]
  /\ \A g \in GqlHandlers : op[g] # Unsent => Len(op[g].out) = Len(op[g].doc)
  /\ overrun \in [GqlHandlers -> BOOLEAN]

OpInit ==
  /\ Init
  /\ op = [g \in GqlHandlers |-> Unsent]
  /\ overrun = [g \in GqlHandlers |-> FALSE]

\* Root fields the schema declares non-null, whose nulls the executor counts.
Required == {"createTask", "updateTask", "deleteTask", "tasks"}

\* Mutant: a null in an input is a value like another.
UnmarshalNulls(input) == input

\* A null in an input is a field that is not set.
UnmarshalUpdate(input) == [f \in DOMAIN input |-> IF input[f] = NullArg THEN Keep ELSE input[f]]

-----------------------------------------------------------------------------
(* A field is resolved: o is the operation, k the position of the field. *)

Completed(o, k, v) ==
  [o EXCEPT !.out[k] = v,
            !.invalids = IF v = "null" /\ o.doc[k].name \in Required THEN @ + 1 ELSE @]

\* ResolveField: an error of the resolver, or a panic, which is recovered.
Failed(o, k) == [Completed(o, k, "null") EXCEPT !.errors = @ \cup {k}]

\* Mutant: a nil task is marshalled as null without a word.
MarshalNTaskSilent(o, k, row) == Completed(o, k, IF row = NoRow THEN "null" ELSE "value")

\* marshalNTask: the schema does not allow a nil task.
MarshalNTask(o, k, row) == IF row = NoRow THEN Failed(o, k) ELSE Completed(o, k, "value")

\* marshalOTask
MarshalOTask(o, k, row) == Completed(o, k, IF row = NoRow THEN "null" ELSE "value")

\* The resolver of createTask dereferences the row, which may be gone.
CreateTaskPayload(o, k, row) == IF row = NoRow THEN Failed(o, k) ELSE MarshalNTask(o, k, row)

Pending(g, k) ==
  /\ op[g].at = "executing"
  /\ k \in 1..Len(op[g].doc)
  /\ op[g].out[k] = "pending"

\* The field the loop of _Mutation has come to.
Current(g, k) == Pending(g, k) /\ \A j \in 1..(k - 1) : ~Pending(g, j)

\* _Query resolves its fields concurrently.
Concurrent(g, k) == Pending(g, k)

Becomes(g, o) == op' = [op EXCEPT ![g] = o]

\* The resolver fails before it has changed anything.
FailsEarly(g, k) ==
  /\ GqlFaults
  /\ Becomes(g, Failed(op[g], k))
  /\ UNCHANGED <<tableVars, mutation>>

-----------------------------------------------------------------------------
(* Mutations. *)

ResolveCreate(g, k) ==
  /\ Current(g, k)
  /\ op[g].doc[k].name = "createTask"
  /\ mutation[g] = NoMutation
  /\ \/ GqlCreate(g, op[g].doc[k].title) /\ UNCHANGED op
     \/ FailsEarly(g, k)

\* Mutant: an update of a row that is not there creates it.
ResolveUpdateUpserts(g, k) ==
  /\ Current(g, k)
  /\ op[g].doc[k].name = "updateTask"
  /\ mutation[g] = NoMutation
  /\ LET id == op[g].doc[k].id
         patch == UnmarshalUpdate(op[g].doc[k].input)
     IN \/ GqlUpdate(g, id, patch) /\ UNCHANGED op
        \/ /\ ~Present(id) /\ patch.title # Keep
           /\ BeginWrite
           /\ BeginMutation(g, "insert", id, NewRow(patch.title))
           /\ UNCHANGED <<rows, past, op>>
        \/ FailsEarly(g, k)

ResolveUpdate(g, k) ==
  /\ Current(g, k)
  /\ op[g].doc[k].name = "updateTask"
  /\ mutation[g] = NoMutation
  /\ LET id == op[g].doc[k].id
     IN \/ GqlUpdate(g, id, UnmarshalUpdate(op[g].doc[k].input)) /\ UNCHANGED op
        \/ /\ ~Present(id)
           /\ Becomes(g, MarshalNTask(op[g], k, NoRow))
           /\ UNCHANGED <<tableVars, mutation>>
        \/ FailsEarly(g, k)

\* The INSERT or the UPDATE of the field; the resolver returns an error if it is told of one.
Write(g, k) ==
  /\ Current(g, k)
  /\ GqlInsert(g) \/ GqlStore(g)
  /\ LET id == mutation[g].id
         o == IF rows[id] = NoRow /\ rows'[id] # NoRow
              THEN [op[g] EXCEPT !.made = @ \cup {k}] ELSE op[g]
     IN Becomes(g, IF mutation'[g] = NoMutation THEN Failed(o, k) ELSE o)

\* The row is read back and becomes the payload.
Payload(g, k) ==
  /\ Current(g, k)
  /\ GqlReread(g)
  /\ LET row == rows[mutation[g].id]
     IN \/ op[g].doc[k].name = "createTask" /\ Becomes(g, CreateTaskPayload(op[g], k, row))
        \/ op[g].doc[k].name = "updateTask" /\ Becomes(g, MarshalNTask(op[g], k, row))
        \/ GqlFaults /\ Becomes(g, Failed(op[g], k))

\* true or false, or an error after the row was deleted.
ResolveDelete(g, k) ==
  /\ Current(g, k)
  /\ op[g].doc[k].name = "deleteTask"
  /\ LET id == op[g].doc[k].id
     IN \/ /\ \/ GqlDelete(id)
              \/ ~Present(id) /\ UNCHANGED <<tableVars, mutation>>
           /\ Becomes(g, Completed(op[g], k, "value"))
        \/ GqlDelete(id) /\ GqlFaults /\ Becomes(g, Failed(op[g], k))
        \/ FailsEarly(g, k)

-----------------------------------------------------------------------------
(* Queries. *)

ResolveTasks(g, k) ==
  /\ Concurrent(g, k)
  /\ op[g].doc[k].name = "tasks"
  /\ \/ Becomes(g, Completed(op[g], k, "value")) /\ UNCHANGED <<tableVars, mutation>>
     \/ FailsEarly(g, k)

ResolveTask(g, k) ==
  /\ Concurrent(g, k)
  /\ op[g].doc[k].name = "task"
  /\ \/ /\ Becomes(g, MarshalOTask(op[g], k, rows[op[g].doc[k].id]))
        /\ UNCHANGED <<tableVars, mutation>>
     \/ FailsEarly(g, k)

-----------------------------------------------------------------------------
BeginOperation(g, doc) ==
  /\ op[g] = Unsent
  /\ Becomes(g, [at |-> "executing", doc |-> doc, out |-> [k \in 1..Len(doc) |-> "pending"],
                 invalids |-> 0, errors |-> {}, made |-> {}])
  /\ UNCHANGED <<tableVars, mutation>>

\* Dispatch has waited for every field.
Answer(g) ==
  /\ op[g].at = "executing"
  /\ \A k \in 1..Len(op[g].doc) : ~Pending(g, k)
  /\ op' = [op EXCEPT ![g].at = "answered"]
  /\ UNCHANGED <<tableVars, mutation>>

\* The answer has no data when a field that may not be null is.
DataIsNull(g) == op[g].invalids > 0

Execute(g) ==
  /\ \/ \E k \in 1..MaxFields : \/ ResolveCreate(g, k) \/ ResolveUpdate(g, k)
                                \/ Write(g, k) \/ Payload(g, k) \/ ResolveDelete(g, k)
                                \/ ResolveTasks(g, k) \/ ResolveTask(g, k)
     \/ Answer(g)
  /\ UNCHANGED serviceVars

Send(g) == (\E doc \in Documents : BeginOperation(g, doc)) /\ UNCHANGED serviceVars

NoteOverruns ==
  overrun' = [g \in GqlHandlers |->
                /\ mutation[g].at = "reread"
                /\ overrun[g] \/ rows'[mutation[g].id] # rows[mutation[g].id]]

OpNext ==
  /\ \/ \E g \in GqlHandlers : Send(g) \/ Execute(g)
     \/ (RestStep \/ ExpiryStep) /\ UNCHANGED op
  /\ NoteOverruns

OpSpec == OpInit /\ [][OpNext]_opVars

\* net/http and gqlgen run an operation to its end, whatever its client does.
OpFairness == \A g \in GqlHandlers : WF_opVars(Execute(g) /\ NoteOverruns)

FairOpSpec == OpSpec /\ OpFairness

-----------------------------------------------------------------------------
Answered(g) == op[g].at = "answered"

\* An answer with data tells the truth about its creates, whatever other requests
\* did meanwhile: each of them has inserted the row it names.
AnsweredCreatesMade ==
  \A g \in GqlHandlers : Answered(g) /\ ~DataIsNull(g) =>
    \A k \in 1..Len(op[g].doc) : op[g].doc[k].name = "createTask" => k \in op[g].made

\* A client that gets no data, or a null where the schema has none, finds an error
\* that says which field is to blame, and no data are lost but for such a field.
NullsExplained ==
  \A g \in GqlHandlers : Answered(g) =>
    LET nulls == {k \in 1..Len(op[g].doc) : /\ op[g].out[k] = "null"
                                            /\ op[g].doc[k].name \in Required}
    IN nulls \subseteq op[g].errors /\ (DataIsNull(g) <=> nulls # {})

\* The row a create or an update reads back, which becomes its payload, is the one it
\* wrote, unless it is gone or another request has changed it since: whatever a client
\* is told of a task has been so at some moment after its own write.
PayloadsOwn ==
  \A g \in GqlHandlers : mutation[g].at = "reread" =>
    rows[mutation[g].id] \in {mutation[g].row, NoRow} \/ overrun[g]

\* Every operation is answered, whatever other requests do to its rows between its
\* statements: no resolver waits for a row, and none sends a statement again until it
\* succeeds.
EveryOperationAnswered ==
  \A g \in GqlHandlers : op[g].at = "executing" ~> Answered(g)

\* The executor makes of the service only what TaskPlatform lets its clients do, so
\* that what is shown of the platform holds of the operations too.
PlatformRefined == Spec
=============================================================================
