----------------------------- MODULE TaskTable -----------------------------
(***************************************************************************)
(* The tasks table of Postgres, which the tasks service and the GraphQL    *)
(* service write with the same statements.  Every statement is atomic; a   *)
(* request is several of them, with nothing that ties them together.       *)
(*                                                                         *)
(* A row keeps two fields, a text one (title, for title, description and   *)
(* due_date) and the flag done, so that a patch may touch one of the two.  *)
(***************************************************************************)
EXTENDS Integers, FiniteSets

CONSTANTS
  Titles,     \* values of the text fields
  MaxId,      \* bound on the ids: t_001 to t_<MaxId>
  MaxWrites,  \* bound on the write requests clients send
  Keep,       \* a field the request does not set
  NoRow       \* no row has this id

Ids == 1..MaxId
Row == [title: Titles, done: BOOLEAN]
Patch == [title: Titles \cup {Keep}, done: BOOLEAN \cup {Keep}]

ASSUME TableAssumption ==
  /\ MaxId \in Nat /\ MaxWrites \in Nat
  /\ Keep \notin Titles \cup BOOLEAN
  /\ NoRow \notin Row

VARIABLES
  rows,   \* rows[id]: the row with this primary key
  past,   \* history: past[id], the rows this id ever had
  writes  \* history: write requests received, up to MaxWrites

tableVars == <<rows, past, writes>>

TableTypeOK ==
  /\ rows \in [Ids -> Row \cup {NoRow}]
  /\ past \in [Ids -> SUBSET Row]
  /\ writes \in 0..MaxWrites

TableInit ==
  /\ rows = [id \in Ids |-> NoRow]
  /\ past = [id \in Ids |-> {}]
  /\ writes = 0

Present(id) == rows[id] # NoRow

\* SELECT COUNT(*)
Count == Cardinality({id \in Ids : Present(id)})

\* A new task is not done.
NewRow(title) == [title |-> title, done |-> FALSE]

\* Mutant: a field the request leaves out overwrites the row's.
PatchedEveryField(row, patch) == patch

\* The row with the fields the request sets.
Patched(row, patch) ==
  [title |-> IF patch.title = Keep THEN row.title ELSE patch.title,
   done  |-> IF patch.done = Keep THEN row.done ELSE patch.done]

\* A client sends one more write request.
BeginWrite == writes < MaxWrites /\ writes' = writes + 1

Put(id, row) ==
  /\ rows' = [rows EXCEPT ![id] = row]
  /\ past' = [past EXCEPT ![id] = @ \cup {row}]

\* INSERT: the primary key refuses an id that is taken.
Insert(id, row) == ~Present(id) /\ Put(id, row)

\* Mutant: the row is written back whether or not it is still there.
OverwriteUpsert(id, row) == Put(id, row)

\* UPDATE ... WHERE id = ...: a row that is gone is not updated, and the service,
\* which does not look at the number of rows affected, is not told.
Overwrite(id, row) ==
  IF Present(id) THEN Put(id, row) ELSE UNCHANGED <<rows, past>>

\* DELETE ... WHERE id = ...
Remove(id) ==
  /\ Present(id)
  /\ rows' = [rows EXCEPT ![id] = NoRow]
  /\ UNCHANGED past
=============================================================================
