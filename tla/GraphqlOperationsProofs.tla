---------------------- MODULE GraphqlOperationsProofs ----------------------
(***************************************************************************)
(* Operations, for any set of documents and any number of fields: what     *)
(* their answers say, and that they are clients of the platform like any   *)
(* other.                                                                  *)
(***************************************************************************)
EXTENDS GraphqlOperations, TaskPlatformProofs

\* The positions of an operation o whose null has no room in the schema.
Nulls(o) == {k \in 1..Len(o.doc) : o.out[k] = "null" /\ o.doc[k].name \in Required}

\* An operation whose nulls are in its errors, and are counted.
Sound(o) ==
  /\ o \in Operation
  /\ Len(o.out) = Len(o.doc)
  /\ Nulls(o) \subseteq o.errors
  /\ o.invalids > 0 <=> Nulls(o) # {}
  /\ o.at = "answered" => \A k \in 1..Len(o.doc) : o.out[k] # "pending"

\* A create that was answered has inserted its row.
Made(o) ==
  \A k \in 1..Len(o.doc) : o.doc[k].name = "createTask" /\ o.out[k] = "value" => k \in o.made

LEMMA DocumentTyped ==
  ASSUME NEW o \in Operation
  PROVE  /\ Len(o.doc) \in Nat /\ 1..Len(o.doc) \subseteq 1..MaxFields
         /\ \A k \in 1..Len(o.doc) : o.doc[k] \in MutationField \cup QueryField
         /\ \/ \A k \in 1..Len(o.doc) : o.doc[k] \in MutationField
            \/ \A k \in 1..Len(o.doc) : o.doc[k] \in QueryField
<1>1. /\ o.doc \in Seq(MutationField) \cup Seq(QueryField)
      /\ Len(o.doc) \in 1..MaxFields /\ MaxFields \in Nat
  BY OperationAssumption DEF Operation
<1>2. Len(o.doc) \in Nat /\ 1..Len(o.doc) \subseteq 1..MaxFields
  BY <1>1
<1>3. \/ \A k \in 1..Len(o.doc) : o.doc[k] \in MutationField
      \/ \A k \in 1..Len(o.doc) : o.doc[k] \in QueryField
  BY <1>1
<1>. QED BY <1>2, <1>3

LEMMA FieldTyped ==
  ASSUME NEW f \in MutationField \cup QueryField
  PROVE  /\ f.name = "createTask" => f.title \in Titles
         /\ f.name = "updateTask" => f.id \in Ids /\ f.input \in UpdateInput
         /\ f.name \in {"deleteTask", "task"} => f.id \in Ids
         /\ f \in MutationField <=> f.name \in {"createTask", "updateTask", "deleteTask"}
         /\ f \in QueryField <=> f.name \in {"tasks", "task"}
BY DEF MutationField, QueryField, CreateField, UpdateField, DeleteField, TasksField, TaskField

\* A null of an input never reaches the service.
LEMMA UnmarshalTyped ==
  ASSUME NEW input \in UpdateInput
  PROVE  UnmarshalUpdate(input) \in Patch
<1>1. /\ DOMAIN input = {"title", "done"}
      /\ input.title \in Titles \cup {Keep, NullArg} /\ input.done \in BOOLEAN \cup {Keep, NullArg}
  BY DEF UpdateInput
<1>. DEFINE u == [f \in {"title", "done"} |-> IF input[f] = NullArg THEN Keep ELSE input[f]]
<1>2. u.title \in Titles \cup {Keep} /\ u.done \in BOOLEAN \cup {Keep}
  BY <1>1
<1>3. u = [title |-> u.title, done |-> u.done]
  OBVIOUS
<1>4. u \in Patch
  <2>. HIDE DEF u
  <2>. QED BY <1>2, <1>3 DEF Patch
<1>. QED BY <1>1, <1>4 DEF UnmarshalUpdate

-----------------------------------------------------------------------------
(* One field is resolved. *)

\* r is o with field k resolved.
Resolved(o, k, r) ==
  /\ Sound(r) /\ r.doc = o.doc /\ r.at = o.at /\ r.made = o.made
  /\ r.out[k] \in {"null", "value"}
  /\ \A j \in 1..Len(o.doc) : j # k => r.out[j] = o.out[j]

LEMMA CompletedFields ==
  ASSUME NEW o \in Operation, Len(o.out) = Len(o.doc), NEW k \in 1..Len(o.doc),
         NEW v \in {"null", "value"}
  PROVE  /\ Completed(o, k, v) \in Operation
         /\ Completed(o, k, v).doc = o.doc /\ Completed(o, k, v).at = o.at
         /\ Completed(o, k, v).made = o.made /\ Completed(o, k, v).errors = o.errors
         /\ Completed(o, k, v).invalids =
              IF v = "null" /\ o.doc[k].name \in Required THEN o.invalids + 1 ELSE o.invalids
         /\ Len(Completed(o, k, v).out) = Len(o.doc)
         /\ Completed(o, k, v).out[k] = v
         /\ \A j \in 1..Len(o.doc) : j # k => Completed(o, k, v).out[j] = o.out[j]
<1>. DEFINE out == [o.out EXCEPT ![k] = v]
            n   == IF v = "null" /\ o.doc[k].name \in Required THEN o.invalids + 1 ELSE o.invalids
<1>1. o.out \in Seq({"pending", "null", "value"}) /\ o.invalids \in Nat
  BY DEF Operation
<1>2. /\ out \in Seq({"pending", "null", "value"}) /\ Len(out) = Len(o.doc) /\ out[k] = v
      /\ \A j \in 1..Len(o.doc) : j # k => out[j] = o.out[j]
  BY <1>1
<1>3. n \in Nat
  BY <1>1
<1>4. Completed(o, k, v) = [o EXCEPT !.out = out, !.invalids = n]
  BY DEF Completed, Operation
<1>. HIDE DEF out, n
<1>5. /\ [o EXCEPT !.out = out, !.invalids = n] \in Operation
      /\ [o EXCEPT !.out = out, !.invalids = n].doc = o.doc
      /\ [o EXCEPT !.out = out, !.invalids = n].at = o.at
      /\ [o EXCEPT !.out = out, !.invalids = n].made = o.made
      /\ [o EXCEPT !.out = out, !.invalids = n].errors = o.errors
      /\ [o EXCEPT !.out = out, !.invalids = n].invalids = n
      /\ [o EXCEPT !.out = out, !.invalids = n].out = out
  BY <1>2, <1>3 DEF Operation
<1>. QED BY <1>2, <1>4, <1>5 DEF n

\* A value, or a null where there is room for it.
LEMMA CompletedSound ==
  ASSUME NEW o, Sound(o), o.at = "executing", NEW k \in 1..Len(o.doc), o.out[k] = "pending",
         NEW v \in {"null", "value"}, v = "null" => o.doc[k].name \notin Required
  PROVE  Resolved(o, k, Completed(o, k, v)) /\ Completed(o, k, v).out[k] = v
<1>. DEFINE r == Completed(o, k, v)
<1>1. o \in Operation /\ Len(o.out) = Len(o.doc)
  BY DEF Sound
<1>2. /\ r \in Operation /\ r.doc = o.doc /\ r.at = o.at /\ r.made = o.made /\ r.errors = o.errors
      /\ r.invalids = o.invalids /\ Len(r.out) = Len(o.doc) /\ r.out[k] = v
      /\ \A j \in 1..Len(o.doc) : j # k => r.out[j] = o.out[j]
  BY <1>1, CompletedFields
<1>. HIDE DEF r
<1>3. Nulls(r) = Nulls(o)
  BY <1>2 DEF Nulls
<1>4. Sound(r)
  BY <1>2, <1>3 DEF Sound
<1>. QED BY <1>2, <1>4 DEF Resolved, r

\* A null that is an error.
LEMMA FailedSound ==
  ASSUME NEW o, Sound(o), o.at = "executing", NEW k \in 1..Len(o.doc), o.out[k] = "pending"
  PROVE  Resolved(o, k, Failed(o, k)) /\ Failed(o, k).out[k] = "null"
<1>. DEFINE c == Completed(o, k, "null")
            r == [c EXCEPT !.errors = @ \cup {k}]
<1>1. o \in Operation /\ Len(o.out) = Len(o.doc) /\ k \in 1..MaxFields /\ o.invalids \in Nat
  BY DocumentTyped DEF Sound, Operation
<1>2. /\ c \in Operation /\ c.doc = o.doc /\ c.at = o.at /\ c.made = o.made /\ c.errors = o.errors
      /\ c.invalids = IF o.doc[k].name \in Required THEN o.invalids + 1 ELSE o.invalids
      /\ Len(c.out) = Len(o.doc) /\ c.out[k] = "null"
      /\ \A j \in 1..Len(o.doc) : j # k => c.out[j] = o.out[j]
  BY <1>1, CompletedFields
<1>. HIDE DEF c
<1>3. /\ r \in Operation /\ r.doc = c.doc /\ r.at = c.at /\ r.made = c.made
      /\ r.errors = c.errors \cup {k} /\ r.invalids = c.invalids /\ r.out = c.out
  BY <1>1, <1>2 DEF Operation
<1>4. Failed(o, k) = r
  BY DEF Failed, c
<1>. HIDE DEF r
<1>5. Nulls(r) = IF o.doc[k].name \in Required THEN Nulls(o) \cup {k} ELSE Nulls(o)
  BY <1>2, <1>3 DEF Nulls
<1>6. r.invalids > 0 <=> Nulls(r) # {}
  <2>0. o.invalids > 0 <=> Nulls(o) # {}
    BY DEF Sound
  <2>1. CASE o.doc[k].name \in Required
    <3>1. r.invalids > 0
      BY <1>1, <1>2, <1>3, <2>1
    <3>2. k \in Nulls(r)
      BY <1>5, <2>1
    <3>. QED BY <3>1, <3>2
  <2>2. CASE o.doc[k].name \notin Required
    BY <1>2, <1>3, <1>5, <2>0, <2>2
  <2>. QED BY <2>1, <2>2
<1>7. Sound(r)
  BY <1>2, <1>3, <1>5, <1>6 DEF Sound
<1>. QED BY <1>2, <1>3, <1>4, <1>7 DEF Resolved

\* The create that has inserted its row.
LEMMA MadeSound ==
  ASSUME NEW o, Sound(o), NEW k \in 1..Len(o.doc)
  PROVE  LET r == [o EXCEPT !.made = @ \cup {k}]
         IN /\ Sound(r) /\ r.doc = o.doc /\ r.at = o.at /\ r.out = o.out
            /\ r.made = o.made \cup {k}
<1>. DEFINE r == [o EXCEPT !.made = @ \cup {k}]
<1>1. o \in Operation /\ k \in 1..MaxFields
  BY DocumentTyped DEF Sound
<1>2. /\ r \in Operation /\ r.doc = o.doc /\ r.at = o.at /\ r.out = o.out
      /\ r.made = o.made \cup {k} /\ r.errors = o.errors /\ r.invalids = o.invalids
  BY <1>1 DEF Operation
<1>. HIDE DEF r
<1>3. Nulls(r) = Nulls(o)
  BY <1>2 DEF Nulls
<1>4. Sound(r)
  BY <1>2, <1>3 DEF Sound
<1>. QED BY <1>2, <1>4 DEF r

-----------------------------------------------------------------------------
(***************************************************************************)
(* The state of one operation: the mutation in hand is that of the field   *)
(* the loop has come to, and a create has inserted its row by the time it  *)
(* reads it back.                                                          *)
(***************************************************************************)

InHand(g, k) ==
  /\ Current(g, k)
  /\ mutation[g].at = "insert" => op[g].doc[k].name = "createTask"
  /\ mutation[g].at = "store" => op[g].doc[k].name = "updateTask"
  /\ mutation[g].at = "reread" =>
       \/ op[g].doc[k].name = "createTask" /\ k \in op[g].made
       \/ op[g].doc[k].name = "updateTask"

Progress(g) ==
  \/ op[g] = Unsent /\ mutation[g] = NoMutation
  \/ /\ Sound(op[g]) /\ Made(op[g])
     /\ mutation[g] = NoMutation \/ \E k \in 1..Len(op[g].doc) : InHand(g, k)

\* What g is about to read back is what it wrote, or has been changed since.
Own(g) ==
  mutation[g].at = "reread" => rows[mutation[g].id] \in {mutation[g].row, NoRow} \/ overrun[g]

OpInv ==
  /\ TypeOK
  /\ op \in [GqlHandlers -> Operation \cup {Unsent}]
  /\ overrun \in [GqlHandlers -> BOOLEAN]
  /\ \A g \in GqlHandlers : Progress(g) /\ Own(g)

\* An operation that is under way is sound, and a field that is resolved is one of its own.
LEMMA Executing ==
  ASSUME OpInv, NEW g \in GqlHandlers, op[g].at # "unsent"
  PROVE  op[g] \in Operation /\ Sound(op[g]) /\ Made(op[g])
BY DEF OpInv, Progress, Unsent, Sound

\* The mutation in hand belongs to the current field, which creates or updates.
LEMMA InHandIsCurrent ==
  ASSUME OpInv, NEW g \in GqlHandlers, NEW k, Current(g, k), mutation[g] # NoMutation
  PROVE  InHand(g, k)
<1>1. op[g].at = "executing" /\ k \in 1..Len(op[g].doc)
  BY DEF Current, Pending
<1>2. op[g] \in Operation /\ op[g] # Unsent
  BY <1>1, Executing DEF Unsent
<1>3. Len(op[g].doc) \in Nat
  BY <1>2, DocumentTyped
<1>4. PICK j \in 1..Len(op[g].doc) : InHand(g, j)
  BY <1>2 DEF OpInv, Progress
<1>5. j = k
  <2>1. \A i \in 1..(k - 1) : ~Pending(g, i)
    BY DEF Current
  <2>2. \A i \in 1..(j - 1) : ~Pending(g, i)
    BY <1>4 DEF InHand, Current
  <2>3. Pending(g, k) /\ Pending(g, j)
    BY <1>4 DEF InHand, Current
  <2>4. ~(j < k) /\ ~(k < j)
    BY <1>1, <1>3, <2>1, <2>2, <2>3
  <2>. QED BY <1>1, <1>3, <2>4
<1>. QED BY <1>4, <1>5

\* No other field is resolved while a mutation is in hand.
LEMMA NothingInHand ==
  ASSUME OpInv, NEW g \in GqlHandlers, NEW k, Pending(g, k),
         \/ Current(g, k) /\ op[g].doc[k].name = "deleteTask"
         \/ op[g].doc[k].name \in {"tasks", "task"}
  PROVE  mutation[g] = NoMutation
<1>. SUFFICES ASSUME mutation[g] # NoMutation
              PROVE  FALSE
  OBVIOUS
<1>1. op[g].at = "executing" /\ k \in 1..Len(op[g].doc)
  BY DEF Pending
<1>2. op[g] \in Operation /\ op[g] # Unsent
  BY <1>1, Executing DEF Unsent
<1>3. mutation[g].at \in {"insert", "store", "reread"}
  BY DEF OpInv, TypeOK, GraphqlTypeOK, Mutation, NoMutation
<1>4. CASE op[g].doc[k].name = "deleteTask" /\ Current(g, k)
  <2>1. InHand(g, k)
    BY <1>4, InHandIsCurrent
  <2>. QED BY <1>3, <1>4, <2>1 DEF InHand
<1>5. CASE op[g].doc[k].name \in {"tasks", "task"}
  <2>1. PICK j \in 1..Len(op[g].doc) : InHand(g, j)
    BY <1>2 DEF OpInv, Progress
  <2>2. op[g].doc[j].name \in {"createTask", "updateTask"}
    BY <1>3, <2>1 DEF InHand
  <2>3. op[g].doc[j] \in MutationField \cup QueryField /\ op[g].doc[k] \in MutationField \cup QueryField
    BY <1>1, <1>2, DocumentTyped
  <2>4. op[g].doc[j] \notin QueryField /\ op[g].doc[k] \notin MutationField
    BY <1>5, <2>2, <2>3, FieldTyped
  <2>. QED BY <1>1, <1>2, <2>4, DocumentTyped
<1>. QED BY <1>4, <1>5

-----------------------------------------------------------------------------
(***************************************************************************)
(* What a step does to the operation that takes it: a field is resolved,   *)
(* and no mutation is in hand any more, or the mutation has moved on.      *)
(***************************************************************************)

\* Field k of operation g is resolved, from o, which is op[g] or has also made its create.
Finishes(g, k, o) ==
  /\ Sound(o) /\ Made(o) /\ k \in 1..Len(o.doc)
  /\ Resolved(o, k, op'[g])
  /\ o.doc[k].name = "createTask" /\ op'[g].out[k] = "value" => k \in o.made
  /\ mutation'[g] = NoMutation

LEMMA FinishesKeeps ==
  ASSUME NEW g \in GqlHandlers, NEW k, NEW o, Finishes(g, k, o)
  PROVE  Progress(g)' /\ op'[g] \in Operation
<1>1. Made(op'[g]) /\ Sound(op'[g])
  BY DEF Finishes, Resolved, Made
<1>. QED BY <1>1 DEF Progress, Finishes, Sound

\* A field fails, or is resolved with a value or a null that may be there.
LEMMA FailedFinishes ==
  ASSUME NEW g \in GqlHandlers, NEW o, Sound(o), Made(o), o.at = "executing",
         NEW k \in 1..Len(o.doc), o.out[k] = "pending",
         op'[g] = Failed(o, k), mutation'[g] = NoMutation
  PROVE  Finishes(g, k, o)
<1>1. Resolved(o, k, op'[g]) /\ op'[g].out[k] = "null"
  BY FailedSound
<1>. QED BY <1>1 DEF Finishes

LEMMA CompletedFinishes ==
  ASSUME NEW g \in GqlHandlers, NEW o, Sound(o), Made(o), o.at = "executing",
         NEW k \in 1..Len(o.doc), o.out[k] = "pending",
         NEW v \in {"null", "value"}, v = "null" => o.doc[k].name \notin Required,
         v = "value" => o.doc[k].name # "createTask" \/ k \in o.made,
         op'[g] = Completed(o, k, v), mutation'[g] = NoMutation
  PROVE  Finishes(g, k, o)
<1>1. Resolved(o, k, op'[g]) /\ op'[g].out[k] = v
  BY CompletedSound
<1>. QED BY <1>1 DEF Finishes

LEMMA PendingFacts ==
  ASSUME OpInv, NEW g \in GqlHandlers, NEW k, Pending(g, k)
  PROVE  /\ op[g] \in Operation /\ Sound(op[g]) /\ Made(op[g]) /\ op[g].at = "executing"
         /\ k \in 1..Len(op[g].doc) /\ k \in 1..MaxFields /\ op[g].out[k] = "pending"
         /\ op[g].doc[k] \in MutationField \cup QueryField
<1>1. op[g].at = "executing" /\ k \in 1..Len(op[g].doc) /\ op[g].out[k] = "pending"
  BY DEF Pending
<1>2. op[g] \in Operation /\ Sound(op[g]) /\ Made(op[g])
  BY <1>1, Executing
<1>. QED BY <1>1, <1>2, DocumentTyped

LEMMA BecomesIs ==
  ASSUME OpInv, NEW g \in GqlHandlers, NEW o, Becomes(g, o)
  PROVE  op'[g] = o /\ \A q \in GqlHandlers \ {g} : op'[q] = op[q]
BY DEF OpInv, Becomes

\* What the statements of the service do to the mutation of the one that takes them.
LEMMA MutationIs ==
  ASSUME OpInv, NEW g \in GqlHandlers
  PROVE  /\ \A at, id, row : BeginMutation(g, at, id, row) =>
              /\ mutation'[g].at = at
              /\ \A q \in GqlHandlers \ {g} : mutation'[q] = mutation[q]
         /\ EndMutation(g) => /\ mutation'[g] = NoMutation
                              /\ \A q \in GqlHandlers \ {g} : mutation'[q] = mutation[q]
         /\ WillReread(g) /\ mutation[g].at # "idle" =>
              /\ mutation'[g].at = "reread"
              /\ \A q \in GqlHandlers \ {g} : mutation'[q] = mutation[q]
<1>1. mutation \in [GqlHandlers -> Mutation \cup {NoMutation}]
  BY DEF OpInv, TypeOK, GraphqlTypeOK
<1>. QED BY <1>1 DEF BeginMutation, EndMutation, WillReread, NoMutation, Mutation

-----------------------------------------------------------------------------
(* The steps, one lemma each: the operation that takes it keeps its invariant. *)

Others(g) == \A q \in GqlHandlers \ {g} : op'[q] = op[q] /\ mutation'[q] = mutation[q]

Kept(g) == Progress(g)' /\ op'[g] \in Operation \cup {Unsent} /\ Others(g)

LEMMA EarlyKeeps ==
  ASSUME OpInv, NEW g \in GqlHandlers, NEW k, Pending(g, k), mutation[g] = NoMutation,
         FailsEarly(g, k)
  PROVE  Kept(g)
<1>1. op'[g] = Failed(op[g], k) /\ \A q \in GqlHandlers \ {g} : op'[q] = op[q]
  BY BecomesIs DEF FailsEarly
<1>2. mutation' = mutation
  BY DEF FailsEarly
<1>3. Finishes(g, k, op[g])
  BY <1>1, <1>2, PendingFacts, FailedFinishes
<1>. QED BY <1>1, <1>2, <1>3, FinishesKeeps DEF Kept, Others

LEMMA ResolvedKeeps ==
  ASSUME OpInv, NEW g \in GqlHandlers, NEW k, Pending(g, k), mutation'[g] = NoMutation,
         \A q \in GqlHandlers \ {g} : mutation'[q] = mutation[q],
         NEW v \in {"null", "value"}, v = "null" => op[g].doc[k].name \notin Required,
         v = "value" => op[g].doc[k].name # "createTask" \/ k \in op[g].made,
         Becomes(g, Completed(op[g], k, v))
  PROVE  Kept(g)
<1>1. op'[g] = Completed(op[g], k, v) /\ \A q \in GqlHandlers \ {g} : op'[q] = op[q]
  BY BecomesIs
<1>2. Finishes(g, k, op[g])
  BY <1>1, PendingFacts, CompletedFinishes
<1>. QED BY <1>1, <1>2, FinishesKeeps DEF Kept, Others

LEMMA FailedKeeps ==
  ASSUME OpInv, NEW g \in GqlHandlers, NEW k, Pending(g, k), mutation'[g] = NoMutation,
         \A q \in GqlHandlers \ {g} : mutation'[q] = mutation[q],
         Becomes(g, Failed(op[g], k))
  PROVE  Kept(g)
<1>1. op'[g] = Failed(op[g], k) /\ \A q \in GqlHandlers \ {g} : op'[q] = op[q]
  BY BecomesIs
<1>2. Finishes(g, k, op[g])
  BY <1>1, PendingFacts, FailedFinishes
<1>. QED BY <1>1, <1>2, FinishesKeeps DEF Kept, Others

\* The mutation begins, or goes on, at the current field, which stays it.
LEMMA InHandKeeps ==
  ASSUME OpInv, NEW g \in GqlHandlers, NEW k, Current(g, k),
         Sound(op'[g]), Made(op'[g]), Others(g),
         op'[g].doc = op[g].doc, op'[g].at = op[g].at, op'[g].out = op[g].out,
         /\ mutation'[g].at = "insert" => op[g].doc[k].name = "createTask"
         /\ mutation'[g].at = "store" => op[g].doc[k].name = "updateTask"
         /\ mutation'[g].at = "reread" =>
              \/ op[g].doc[k].name = "createTask" /\ k \in op'[g].made
              \/ op[g].doc[k].name = "updateTask"
  PROVE  Kept(g)
<1>1. Current(g, k)' /\ k \in 1..Len(op'[g].doc)
  BY DEF Current, Pending
<1>2. InHand(g, k)'
  BY <1>1 DEF InHand
<1>. QED BY <1>1, <1>2 DEF Kept, Progress, Sound

LEMMA CreateKeeps ==
  ASSUME OpInv, NEW g \in GqlHandlers, NEW k, ResolveCreate(g, k)
  PROVE  Kept(g)
<1>1. Pending(g, k) /\ Current(g, k) /\ op[g].doc[k].name = "createTask" /\ mutation[g] = NoMutation
  BY DEF ResolveCreate, Current
<1>2. CASE GqlCreate(g, op[g].doc[k].title) /\ UNCHANGED op
  <2>1. mutation'[g].at = "insert" /\ Others(g)
    BY <1>2, MutationIs DEF GqlCreate, Others
  <2>2. Sound(op[g]) /\ Made(op[g]) /\ op' = op
    BY <1>1, <1>2, PendingFacts
  <2>. QED BY <1>1, <2>1, <2>2, InHandKeeps
<1>3. CASE FailsEarly(g, k)
  BY <1>1, <1>3, EarlyKeeps
<1>. QED BY <1>2, <1>3 DEF ResolveCreate

LEMMA UpdateKeeps ==
  ASSUME OpInv, NEW g \in GqlHandlers, NEW k, ResolveUpdate(g, k)
  PROVE  Kept(g)
<1>. DEFINE id    == op[g].doc[k].id
            patch == UnmarshalUpdate(op[g].doc[k].input)
<1>1. Pending(g, k) /\ Current(g, k) /\ op[g].doc[k].name = "updateTask" /\ mutation[g] = NoMutation
  BY DEF ResolveUpdate, Current
<1>2. CASE GqlUpdate(g, id, patch) /\ UNCHANGED op
  <2>1. mutation'[g].at = "store" /\ Others(g)
    BY <1>2, MutationIs DEF GqlUpdate, Others
  <2>2. Sound(op[g]) /\ Made(op[g]) /\ op' = op
    BY <1>1, <1>2, PendingFacts
  <2>. QED BY <1>1, <2>1, <2>2, InHandKeeps
<1>3. CASE Becomes(g, MarshalNTask(op[g], k, NoRow)) /\ UNCHANGED <<tableVars, mutation>>
  <2>1. Becomes(g, Failed(op[g], k)) /\ mutation' = mutation
    BY <1>3 DEF MarshalNTask
  <2>. QED BY <1>1, <2>1, FailedKeeps
<1>4. CASE FailsEarly(g, k)
  BY <1>1, <1>4, EarlyKeeps
<1>. QED BY <1>2, <1>3, <1>4 DEF ResolveUpdate

\* An INSERT of a create of which the service is told is in the history by then.
LEMMA WriteKeeps ==
  ASSUME OpInv, NEW g \in GqlHandlers, NEW k, Write(g, k)
  PROVE  Kept(g)
<1>. DEFINE id == mutation[g].id
            o  == IF rows[id] = NoRow /\ rows'[id] # NoRow
                  THEN [op[g] EXCEPT !.made = @ \cup {k}] ELSE op[g]
<1>1. Pending(g, k) /\ Current(g, k)
  BY DEF Write, Current
<1>2. /\ Sound(op[g]) /\ Made(op[g]) /\ op[g].at = "executing" /\ k \in 1..Len(op[g].doc)
      /\ op[g].out[k] = "pending"
  BY <1>1, PendingFacts
<1>3. /\ Sound(o) /\ Made(o) /\ o.at = op[g].at /\ o.doc = op[g].doc /\ o.out = op[g].out
      /\ rows[id] = NoRow /\ rows'[id] # NoRow => k \in o.made
  <2>1. CASE rows[id] = NoRow /\ rows'[id] # NoRow
    <3>1. o = [op[g] EXCEPT !.made = @ \cup {k}]
      BY <2>1
    <3>. HIDE DEF o
    <3>2. /\ Sound(o) /\ o.at = op[g].at /\ o.doc = op[g].doc /\ o.out = op[g].out
          /\ o.made = op[g].made \cup {k}
      BY <1>2, <3>1, MadeSound
    <3>. QED BY <1>2, <3>2 DEF Made
  <2>2. CASE ~(rows[id] = NoRow /\ rows'[id] # NoRow)
    BY <1>2, <2>2
  <2>. QED BY <2>1, <2>2
<1>4. /\ op'[g] = IF mutation'[g] = NoMutation THEN Failed(o, k) ELSE o
      /\ \A q \in GqlHandlers \ {g} : op'[q] = op[q]
  BY BecomesIs DEF Write
<1>. HIDE DEF o
<1>5. mutation[g].at \in {"insert", "store"} /\ mutation[g] # NoMutation /\ InHand(g, k)
  BY <1>1, InHandIsCurrent DEF Write, GqlInsert, GqlStore, NoMutation
<1>6. CASE EndMutation(g)
  <2>1. mutation'[g] = NoMutation /\ \A q \in GqlHandlers \ {g} : mutation'[q] = mutation[q]
    BY <1>6, MutationIs
  <2>2. Finishes(g, k, o)
    BY <1>2, <1>3, <1>4, <2>1, FailedFinishes
  <2>. QED BY <1>4, <2>1, <2>2, FinishesKeeps DEF Kept, Others
<1>7. CASE WillReread(g)
  <2>1. mutation'[g].at = "reread" /\ \A q \in GqlHandlers \ {g} : mutation'[q] = mutation[q]
    BY <1>5, <1>7, MutationIs
  <2>2. op'[g] = o /\ Others(g)
    BY <1>4, <2>1 DEF NoMutation, Others
  <2>3. CASE mutation[g].at = "store"
    <3>1. op[g].doc[k].name = "updateTask"
      BY <1>5, <2>3 DEF InHand
    <3>. QED BY <1>1, <1>3, <2>1, <2>2, <3>1, InHandKeeps
  <2>4. CASE mutation[g].at = "insert"
    <3>1. op[g].doc[k].name = "createTask"
      BY <1>5, <2>4 DEF InHand
    <3>2. GqlInsert(g) /\ mutation'[g] # NoMutation
      BY <2>1, <2>4 DEF Write, GqlStore, NoMutation
    <3>3. ~EndMutation(g)
      BY <3>2, MutationIs
    <3>4. Insert(id, mutation[g].row)
      BY <3>2, <3>3 DEF GqlInsert
    <3>5. id \in Ids /\ mutation[g].row \in Row /\ rows \in [Ids -> Row \cup {NoRow}]
      BY <1>5 DEF OpInv, TypeOK, GraphqlTypeOK, TableTypeOK, Mutation, NoMutation
    <3>6. rows[id] = NoRow /\ rows'[id] # NoRow
      BY <3>4, <3>5, TableAssumption DEF Insert, Present, Put
    <3>. QED BY <1>1, <1>3, <2>1, <2>2, <3>1, <3>6, InHandKeeps
  <2>. QED BY <1>5, <2>3, <2>4
<1>. QED BY <1>6, <1>7 DEF Write, GqlInsert, GqlStore

LEMMA PayloadKeeps ==
  ASSUME OpInv, NEW g \in GqlHandlers, NEW k, Payload(g, k)
  PROVE  Kept(g)
<1>. DEFINE row == rows[mutation[g].id]
<1>1. Pending(g, k) /\ Current(g, k) /\ mutation[g].at = "reread" /\ mutation[g] # NoMutation
  BY DEF Payload, Current, GqlReread, NoMutation
<1>2. mutation'[g] = NoMutation /\ \A q \in GqlHandlers \ {g} : mutation'[q] = mutation[q]
  BY MutationIs DEF Payload, GqlReread
<1>3. InHand(g, k)
  BY <1>1, InHandIsCurrent
<1>4. \/ Becomes(g, Failed(op[g], k)) \/ Becomes(g, Completed(op[g], k, "value"))
  BY DEF Payload, CreateTaskPayload, MarshalNTask
<1>5. "value" = "value" => op[g].doc[k].name # "createTask" \/ k \in op[g].made
  BY <1>1, <1>3 DEF InHand
<1>. QED BY <1>1, <1>2, <1>4, <1>5, FailedKeeps, ResolvedKeeps

LEMMA DeleteKeeps ==
  ASSUME OpInv, NEW g \in GqlHandlers, NEW k, ResolveDelete(g, k)
  PROVE  Kept(g)
<1>1. Pending(g, k) /\ Current(g, k) /\ op[g].doc[k].name = "deleteTask"
  BY DEF ResolveDelete, Current
<1>2. mutation[g] = NoMutation
  BY <1>1, NothingInHand
<1>3. mutation' = mutation
  BY DEF ResolveDelete, GqlDelete, FailsEarly
<1>4. \/ Becomes(g, Failed(op[g], k)) \/ Becomes(g, Completed(op[g], k, "value"))
  BY DEF ResolveDelete, FailsEarly
<1>. QED BY <1>1, <1>2, <1>3, <1>4, FailedKeeps, ResolvedKeeps

LEMMA QueryKeeps ==
  ASSUME OpInv, NEW g \in GqlHandlers, NEW k, ResolveTasks(g, k) \/ ResolveTask(g, k)
  PROVE  Kept(g)
<1>1. Pending(g, k) /\ op[g].doc[k].name \in {"tasks", "task"}
  BY DEF ResolveTasks, ResolveTask, Concurrent
<1>2. mutation[g] = NoMutation
  BY <1>1, NothingInHand
<1>3. mutation' = mutation
  BY DEF ResolveTasks, ResolveTask, FailsEarly
<1>4. \/ Becomes(g, Failed(op[g], k)) \/ Becomes(g, Completed(op[g], k, "value"))
      \/ op[g].doc[k].name = "task" /\ Becomes(g, Completed(op[g], k, "null"))
  BY DEF ResolveTasks, ResolveTask, FailsEarly, MarshalOTask
<1>5. "task" \notin Required
  BY DEF Required
<1>. QED BY <1>1, <1>2, <1>3, <1>4, <1>5, FailedKeeps, ResolvedKeeps

LEMMA AnswerKeeps ==
  ASSUME OpInv, NEW g \in GqlHandlers, Answer(g)
  PROVE  Kept(g)
<1>. DEFINE o == [op[g] EXCEPT !.at = "answered"]
<1>1. /\ op[g] \in Operation /\ Sound(op[g]) /\ Made(op[g])
      /\ op[g].at = "executing" /\ \A k \in 1..Len(op[g].doc) : ~Pending(g, k)
  BY Executing DEF Answer
<1>2. mutation' = mutation /\ mutation[g] = NoMutation
  BY <1>1 DEF Answer, OpInv, Progress, Unsent, InHand, Current
<1>3. op'[g] = o /\ \A q \in GqlHandlers \ {g} : op'[q] = op[q]
  BY DEF Answer, OpInv
<1>4. /\ o \in Operation /\ o.at = "answered" /\ o.doc = op[g].doc /\ o.out = op[g].out
      /\ o.errors = op[g].errors /\ o.invalids = op[g].invalids /\ o.made = op[g].made
  BY <1>1 DEF Operation
<1>. HIDE DEF o
<1>5. Nulls(o) = Nulls(op[g])
  BY <1>4 DEF Nulls
<1>6. \A k \in 1..Len(o.doc) : o.out[k] # "pending"
  BY <1>1, <1>4 DEF Pending
<1>7. Sound(o) /\ Made(o)
  BY <1>1, <1>4, <1>5, <1>6 DEF Sound, Made
<1>. QED BY <1>2, <1>3, <1>4, <1>7 DEF Kept, Others, Progress

LEMMA BeginKeeps ==
  ASSUME OpInv, NEW g \in GqlHandlers, NEW doc \in Documents, BeginOperation(g, doc)
  PROVE  Kept(g)
<1>. DEFINE out == [k \in 1..Len(doc) |-> "pending"]
            o   == [at |-> "executing", doc |-> doc, out |-> out, invalids |-> 0,
                    errors |-> {}, made |-> {}]
<1>1. Len(doc) \in Nat
  BY OperationAssumption
<1>2. /\ out \in Seq({"pending", "null", "value"}) /\ Len(out) = Len(doc)
      /\ \A k \in 1..Len(doc) : out[k] = "pending"
  BY <1>1
<1>3. op'[g] = o /\ op[g] = Unsent /\ \A q \in GqlHandlers \ {g} : op'[q] = op[q]
  BY BecomesIs DEF BeginOperation
<1>. HIDE DEF out
<1>4. /\ o \in Operation /\ o.at = "executing" /\ o.doc = doc /\ o.out = out
      /\ o.invalids = 0 /\ o.errors = {}
  BY <1>2 DEF Operation
<1>. HIDE DEF o
<1>5. Nulls(o) = {}
  BY <1>2, <1>4 DEF Nulls
<1>6. Sound(o) /\ Made(o)
  BY <1>2, <1>4, <1>5 DEF Sound, Made
<1>7. mutation' = mutation /\ mutation[g] = NoMutation
  BY <1>3 DEF BeginOperation, OpInv, Progress, Sound, Operation, Unsent
<1>. QED BY <1>3, <1>4, <1>6, <1>7 DEF Kept, Others, Progress

-----------------------------------------------------------------------------
(* The executor as a client of the platform. *)

\* A step of an operation is one of the GraphQL service, or changes nothing of it.
LEMMA ExecuteRefines ==
  ASSUME OpInv, NEW g \in GqlHandlers, Execute(g)
  PROVE  GraphqlStep \/ UNCHANGED vars
<1>1. UNCHANGED serviceVars
  BY DEF Execute
<1>s. /\ UNCHANGED <<tableVars, mutation>> => UNCHANGED vars
      /\ GqlProceed(g) => GraphqlStep
      /\ \A title \in Titles : GqlCreate(g, title) => GraphqlStep
      /\ \A id \in Ids : GqlDelete(id) => GraphqlStep
      /\ \A id \in Ids, patch \in Patch : GqlUpdate(g, id, patch) => GraphqlStep
  BY <1>1 DEF GraphqlStep, vars
<1>2. ASSUME NEW k, Pending(g, k)
      PROVE  /\ op[g].doc[k].name = "createTask" => op[g].doc[k].title \in Titles
             /\ op[g].doc[k].name = "updateTask" =>
                  op[g].doc[k].id \in Ids /\ UnmarshalUpdate(op[g].doc[k].input) \in Patch
             /\ op[g].doc[k].name = "deleteTask" => op[g].doc[k].id \in Ids
  BY <1>2, PendingFacts, FieldTyped, UnmarshalTyped
<1>3. ASSUME NEW k, ResolveCreate(g, k)
      PROVE  GraphqlStep \/ UNCHANGED vars
  BY <1>s, <1>2, <1>3 DEF ResolveCreate, Current, FailsEarly
<1>4. ASSUME NEW k, ResolveUpdate(g, k)
      PROVE  GraphqlStep \/ UNCHANGED vars
  <2>1. Pending(g, k) /\ op[g].doc[k].name = "updateTask"
    BY <1>4 DEF ResolveUpdate, Current
  <2>2. op[g].doc[k].id \in Ids /\ UnmarshalUpdate(op[g].doc[k].input) \in Patch
    BY <1>2, <2>1
  <2>3. \/ GqlUpdate(g, op[g].doc[k].id, UnmarshalUpdate(op[g].doc[k].input))
        \/ UNCHANGED <<tableVars, mutation>>
    BY <1>4 DEF ResolveUpdate, FailsEarly
  <2>. QED BY <1>s, <2>2, <2>3
<1>5. ASSUME NEW k, Write(g, k) \/ Payload(g, k)
      PROVE  GraphqlStep \/ UNCHANGED vars
  BY <1>s, <1>5 DEF Write, Payload, GqlProceed
<1>6. ASSUME NEW k, ResolveDelete(g, k)
      PROVE  GraphqlStep \/ UNCHANGED vars
  BY <1>s, <1>2, <1>6 DEF ResolveDelete, Current, FailsEarly
<1>7. ASSUME NEW k, ResolveTasks(g, k) \/ ResolveTask(g, k)
      PROVE  GraphqlStep \/ UNCHANGED vars
  BY <1>s, <1>7 DEF ResolveTasks, ResolveTask, FailsEarly
<1>8. CASE Answer(g)
  BY <1>s, <1>8 DEF Answer
<1>. QED BY <1>3, <1>4, <1>5, <1>6, <1>7, <1>8 DEF Execute

LEMMA OpStepRefines == OpInv /\ [OpNext]_opVars => [Next]_vars
<1>. SUFFICES ASSUME OpInv, [OpNext]_opVars
              PROVE  [Next]_vars
  OBVIOUS
<1>1. ASSUME NEW g \in GqlHandlers, Execute(g)
      PROVE  [Next]_vars
  BY <1>1, ExecuteRefines DEF Next
<1>2. ASSUME NEW g \in GqlHandlers, Send(g)
      PROVE  [Next]_vars
  BY <1>2 DEF Send, BeginOperation, vars
<1>3. CASE RestStep \/ ExpiryStep
  BY <1>3 DEF Next
<1>4. CASE UNCHANGED opVars
  BY <1>4 DEF opVars
<1>. QED BY <1>1, <1>2, <1>3, <1>4 DEF OpNext

\* The history of a row to be read back follows every step.
LEMMA OverrunsNoted ==
  ASSUME OpInv, [OpNext]_opVars
  PROVE  /\ overrun' \in [GqlHandlers -> BOOLEAN]
         /\ \A g \in GqlHandlers : mutation'[g] = mutation[g] /\ Own(g) => Own(g)'
<1>1. CASE NoteOverruns
  <2>1. overrun' \in [GqlHandlers -> BOOLEAN]
    BY <1>1 DEF NoteOverruns, OpInv
  <2>2. ASSUME NEW g \in GqlHandlers, mutation'[g] = mutation[g], mutation[g].at = "reread", Own(g)
        PROVE  rows'[mutation[g].id] \in {mutation[g].row, NoRow} \/ overrun'[g]
    BY <1>1, <2>2 DEF NoteOverruns, Own
  <2>. QED BY <2>1, <2>2 DEF Own
<1>2. CASE UNCHANGED opVars
  BY <1>2 DEF opVars, vars, tableVars, OpInv, Own
<1>. QED BY <1>1, <1>2 DEF OpNext

\* The statement of a mutation leaves what it wrote, or no row, to be read back.
LEMMA WrittenIsOwn ==
  ASSUME OpInv, NEW g \in GqlHandlers, GqlInsert(g) \/ GqlStore(g), mutation'[g].at = "reread"
  PROVE  rows'[mutation'[g].id] \in {mutation'[g].row, NoRow}
<1>1. mutation[g].at \in {"insert", "store"} /\ mutation[g] # NoMutation
  BY DEF GqlInsert, GqlStore, NoMutation
<1>2. /\ mutation \in [GqlHandlers -> Mutation \cup {NoMutation}]
      /\ mutation[g].id \in Ids /\ mutation[g].row \in Row /\ rows \in [Ids -> Row \cup {NoRow}]
  BY <1>1 DEF OpInv, TypeOK, GraphqlTypeOK, TableTypeOK, Mutation, NoMutation
<1>3. ~EndMutation(g)
  BY MutationIs DEF NoMutation
<1>4. /\ WillReread(g)
      /\ \/ Insert(mutation[g].id, mutation[g].row)
         \/ Overwrite(mutation[g].id, mutation[g].row)
  BY <1>3 DEF GqlInsert, GqlStore
<1>5. mutation'[g].id = mutation[g].id /\ mutation'[g].row = mutation[g].row
  <2>1. mutation[g] \in Mutation
    BY <1>1, <1>2
  <2>2. mutation'[g] = [mutation[g] EXCEPT !.at = "reread"]
    BY <1>2, <1>4 DEF WillReread
  <2>. QED BY <2>1, <2>2 DEF Mutation
<1>6. rows'[mutation[g].id] \in {mutation[g].row, NoRow}
  BY <1>2, <1>4 DEF Insert, Overwrite, Present, Put
<1>. QED BY <1>5, <1>6

\* A mutation that a step has brought to its last statement has just written.
LEMMA OwnKept ==
  ASSUME OpInv, [OpNext]_opVars, NEW q \in GqlHandlers
  PROVE  Own(q)'
<1>0. Own(q)
  BY DEF OpInv
<1>1. CASE mutation'[q] = mutation[q]
  BY <1>0, <1>1, OverrunsNoted
<1>2. CASE mutation'[q] # mutation[q]
  <2>1. PICK g \in GqlHandlers : Execute(g)
    BY <1>2 DEF OpNext, Send, BeginOperation, RestStep, ExpiryStep, opVars, vars
  <2>2. CASE \E k \in 1..MaxFields : Write(g, k)
    <3>1. GqlInsert(g) \/ GqlStore(g)
      BY <2>2 DEF Write
    <3>2. q = g
      BY <1>2, <3>1, MutationIs DEF GqlInsert, GqlStore
    <3>. QED BY <3>1, <3>2, WrittenIsOwn DEF Own
  <2>3. CASE ~\E k \in 1..MaxFields : Write(g, k)
    <3>1. \/ mutation' = mutation \/ EndMutation(g)
          \/ \E id, row : \E at \in {"insert", "store"} : BeginMutation(g, at, id, row)
      BY <2>1, <2>3
      DEF Execute, ResolveCreate, ResolveUpdate, Payload, ResolveDelete, ResolveTasks, ResolveTask,
          Answer, FailsEarly, GqlCreate, GqlUpdate, GqlReread, GqlDelete
    <3>2. q = g
      BY <1>2, <3>1, MutationIs
    <3>3. mutation'[q].at # "reread"
      BY <1>2, <3>1, <3>2, MutationIs DEF NoMutation
    <3>. QED BY <3>3 DEF Own
  <2>. QED BY <2>2, <2>3
<1>. QED BY <1>1, <1>2

LEMMA OpInvStep == OpInv /\ [OpNext]_opVars => OpInv'
<1>. SUFFICES ASSUME OpInv, [OpNext]_opVars
              PROVE  OpInv'
  OBVIOUS
<1>1. TypeOK'
  BY OpStepRefines, StepTyped DEF OpInv
<1>o. overrun' \in [GqlHandlers -> BOOLEAN] /\ \A q \in GqlHandlers : Own(q)'
  BY OverrunsNoted, OwnKept
<1>2. ASSUME NEW g \in GqlHandlers, Execute(g) \/ Send(g)
      PROVE  Kept(g)
  <2>1. ASSUME NEW k, \/ ResolveCreate(g, k) \/ ResolveUpdate(g, k)
                      \/ Write(g, k) \/ Payload(g, k) \/ ResolveDelete(g, k)
                      \/ ResolveTasks(g, k) \/ ResolveTask(g, k)
        PROVE  Kept(g)
    BY <2>1, CreateKeeps, UpdateKeeps, WriteKeeps, PayloadKeeps, DeleteKeeps, QueryKeeps
  <2>2. CASE Answer(g)
    BY <2>2, AnswerKeeps
  <2>3. ASSUME NEW doc \in Documents, BeginOperation(g, doc)
        PROVE  Kept(g)
    BY <2>3, BeginKeeps
  <2>. QED BY <1>2, <2>1, <2>2, <2>3 DEF Execute, Send
<1>3. ASSUME NEW g \in GqlHandlers, Execute(g) \/ Send(g)
      PROVE  DOMAIN op' = GqlHandlers /\ op' = [q \in DOMAIN op' |-> op'[q]]
  BY <1>3 DEF Execute, Send, BeginOperation, ResolveCreate, ResolveUpdate, Write, Payload,
              ResolveDelete, ResolveTasks, ResolveTask, Answer, FailsEarly, Becomes, OpInv
<1>4. ASSUME NEW q \in GqlHandlers, op'[q] = op[q], mutation'[q] = mutation[q]
      PROVE  Progress(q)'
  BY <1>4 DEF OpInv, Progress, InHand, Current, Pending
<1>5. ASSUME NEW g \in GqlHandlers, Execute(g) \/ Send(g)
      PROVE  OpInv'
  <2>1. Progress(g)' /\ op'[g] \in Operation \cup {Unsent} /\ Others(g)
    BY <1>2, <1>5 DEF Kept
  <2>2. \A q \in GqlHandlers : Progress(q)'
    BY <1>4, <2>1 DEF Others
  <2>3. \A q \in GqlHandlers : op'[q] \in Operation \cup {Unsent}
    BY <2>1 DEF Others, OpInv
  <2>4. op' \in [GqlHandlers -> Operation \cup {Unsent}]
    BY <1>3, <1>5, <2>3
  <2>. QED BY <1>1, <1>o, <2>2, <2>4 DEF OpInv
<1>6. CASE op' = op /\ mutation' = mutation
  BY <1>1, <1>o, <1>4, <1>6 DEF OpInv
<1>7. \/ \E g \in GqlHandlers : Execute(g) \/ Send(g)
      \/ op' = op /\ mutation' = mutation
  BY DEF OpNext, RestStep, ExpiryStep, opVars, vars
<1>. QED BY <1>5, <1>6, <1>7

LEMMA OpInvInit == OpInit => OpInv
<1>. SUFFICES ASSUME OpInit
              PROVE  OpInv
  OBVIOUS
<1>1. TypeOK
  BY InitTyped DEF OpInit
<1>. QED BY <1>1 DEF OpInit, OpInv, Progress, Own, Init, GraphqlInit, NoMutation

LEMMA OpInvCorrect == OpSpec => []OpInv
BY OpInvInit, OpInvStep, PTL DEF OpSpec

\* Every variable has its type, those of the executor included.
THEOREM OperationsTyped == OpSpec => []OpTypeOK
<1>1. OpInv => OpTypeOK
  BY DEF OpInv, OpTypeOK, Progress, Sound
<1>. QED BY <1>1, OpInvCorrect, PTL

\* The operations of clients are requests the platform allows for.
THEOREM OperationsRefinePlatform == OpSpec => PlatformRefined
<1>1. OpInit => Init
  BY DEF OpInit
<1>. QED BY <1>1, OpStepRefines, OpInvCorrect, PTL DEF OpSpec, PlatformRefined, Spec

\* What clients of the platform may rely on they may rely on with operations under
\* way: a resolver that is between two statements, or that fails there, revives no
\* deleted task and puts nothing in the cache that was never in the table.
THEOREM OperationsKeepStaleTable == OpSpec => StaleTableRefined
BY OperationsRefinePlatform, ServicesRefineStaleTable DEF PlatformRefined

\* No data are missing from an answer without an error that names the field.
THEOREM NullsAreExplained == OpSpec => []NullsExplained
<1>1. OpInv => NullsExplained
  <2>. SUFFICES ASSUME OpInv, NEW g \in GqlHandlers, Answered(g)
                PROVE  Nulls(op[g]) \subseteq op[g].errors /\ (DataIsNull(g) <=> Nulls(op[g]) # {})
    BY DEF NullsExplained, Nulls
  <2>. QED BY Executing DEF Answered, DataIsNull, Sound
<1>. QED BY <1>1, OpInvCorrect, PTL

\* A create that is answered with data has inserted its row.
THEOREM AnsweredCreatesAreMade == OpSpec => []AnsweredCreatesMade
<1>1. OpInv => AnsweredCreatesMade
  <2>. SUFFICES ASSUME OpInv, NEW g \in GqlHandlers, Answered(g), ~DataIsNull(g),
                       NEW k \in 1..Len(op[g].doc), op[g].doc[k].name = "createTask"
                PROVE  k \in op[g].made
    BY DEF AnsweredCreatesMade
  <2>1. op[g] \in Operation /\ Sound(op[g]) /\ Made(op[g])
    BY Executing DEF Answered
  <2>2. k \notin Nulls(op[g])
    BY <2>1 DEF Sound, DataIsNull
  <2>3. op[g].out[k] # "null"
    BY <2>2 DEF Nulls, Required
  <2>4. op[g].out[k] # "pending"
    BY <2>1 DEF Sound, Answered
  <2>5. op[g].out[k] \in {"pending", "null", "value"}
    <3>1. Len(op[g].out) = Len(op[g].doc) /\ op[g].out \in Seq({"pending", "null", "value"})
      BY <2>1 DEF Sound, Operation
    <3>. QED BY <3>1
  <2>. QED BY <2>1, <2>3, <2>4, <2>5 DEF Made
<1>. QED BY <1>1, OpInvCorrect, PTL

\* What is read back at the end of a create or an update is what it wrote, unless the
\* row is gone or another request has changed it since.
THEOREM PayloadsAreOwn == OpSpec => []PayloadsOwn
<1>1. OpInv => PayloadsOwn
  BY DEF OpInv, Own, PayloadsOwn
<1>. QED BY <1>1, OpInvCorrect, PTL
=============================================================================
