------------------------- MODULE TaskHistoryProofs -------------------------
(***************************************************************************)
(* Which updates are lost and which creates are refused, for any number of *)
(* requests, instances, ids and titles, with every failure and restart.    *)
(***************************************************************************)
EXTENDS TaskHistory, TaskPlatformProofs, FiniteSetTheorems

HistoryTypeOK == TypeOK /\ patch \in [Writers -> Patch]

\* A step with the memory is a step of the platform.
LEMMA HistoryStepIsStep ==
  ASSUME [HistoryNext]_<<vars, history>>
  PROVE  [Next]_vars
<1>1. ASSUME NEW w \in Writers, NEW p \in Patch, UpdateBegins(w, p)
      PROVE  Next
  BY <1>1 DEF UpdateBegins, Next, RestStep, Arrive, GraphqlStep
<1>. QED BY <1>1 DEF HistoryNext

LEMMA HistoryInitTyped == HistoryInit => HistoryTypeOK
<1>1. NoPatch \in Patch
  BY DEF NoPatch, Patch
<1>. QED BY <1>1, InitTyped DEF HistoryInit, HistoryTypeOK

LEMMA HistoryStepTyped ==
  HistoryTypeOK /\ [HistoryNext]_<<vars, history>> => HistoryTypeOK'
<1>. SUFFICES ASSUME HistoryTypeOK, [HistoryNext]_<<vars, history>>
              PROVE  HistoryTypeOK'
  OBVIOUS
<1>1. TypeOK'
  BY HistoryStepIsStep, StepTyped DEF HistoryTypeOK
<1>2. UNCHANGED patch \/ \E w \in Writers, p \in Patch : patch' = [patch EXCEPT ![w] = p]
  BY DEF HistoryNext, UpdateBegins, history
<1>. QED BY <1>1, <1>2 DEF HistoryTypeOK

THEOREM HistoryTypeCorrect == HistorySpec => []HistoryTypeOK
BY HistoryInitTyped, HistoryStepTyped, PTL DEF HistorySpec

-----------------------------------------------------------------------------
(***************************************************************************)
(* A GraphQL create is refused only over a hole, or when overtaken.        *)
(*                                                                         *)
(* Between the count and the INSERT of a create that is not overtaken the  *)
(* number of rows only falls, so that it stays below the id.  Were every   *)
(* id up to that one taken, there would be as many rows as the id.         *)
(***************************************************************************)

Taken == {id \in Ids : Present(id)}

DrawnInv ==
  \A g \in GqlHandlers : Drawn(g) => g \in outrun \/ Count < mutation[g].id

LEMMA TakenFinite ==
  ASSUME TableTypeOK
  PROVE  IsFiniteSet(Taken) /\ Cardinality(Taken) \in Nat /\ Count = Cardinality(Taken)
<1>1. IsFiniteSet(Ids)
  BY FS_Interval, TableAssumption DEF Ids
<1>. QED BY <1>1, FS_Subset, FS_CardinalityType DEF Taken, Count

\* An id is drawn from the rows of the moment, and then kept until the INSERT.
LEMMA DrawStep ==
  ASSUME TypeOK, [Next]_vars, NEW k \in GqlHandlers, mutation'[k].at = "insert"
  PROVE  \/ mutation'[k] = mutation[k]
         \/ ~Drawn(k) /\ mutation'[k].id = Count + 1 /\ UNCHANGED rows
<1>. DEFINE Goal == \/ mutation'[k] = mutation[k]
                    \/ ~Drawn(k) /\ mutation'[k].id = Count + 1 /\ UNCHANGED rows
<1>. TableTypeOK /\ GraphqlTypeOK
  BY DEF TypeOK
<1>1. ASSUME NEW g \in GqlHandlers, NEW title \in Titles, GqlCreate(g, title)
      PROVE  Goal
  <2>1. mutation[g] = NoMutation /\ UNCHANGED rows
    BY <1>1 DEF GqlCreate, BeginMutation
  <2>2. g # k => mutation'[k] = mutation[k]
    BY <1>1 DEF GqlCreate, BeginMutation, GraphqlTypeOK
  <2>3. g = k => mutation'[k].id = Count + 1
    BY <1>1 DEF GqlCreate, BeginMutation, GraphqlTypeOK, NextGqlId
  <2>. QED BY <2>1, <2>2, <2>3 DEF Drawn, NoMutation
<1>2. ASSUME NEW g \in GqlHandlers, NEW id, NEW row, BeginMutation(g, "store", id, row)
      PROVE  Goal
  BY <1>2 DEF BeginMutation, GraphqlTypeOK
<1>3. ASSUME NEW g \in GqlHandlers, EndMutation(g)
      PROVE  Goal
  BY <1>3 DEF EndMutation, NoMutation, GraphqlTypeOK
<1>4. ASSUME NEW g \in GqlHandlers, WillReread(g), mutation[g].at # "idle"
      PROVE  Goal
  BY <1>4 DEF WillReread, Mutation, NoMutation, GraphqlTypeOK
<1>5. CASE GraphqlStep
  BY <1>1, <1>2, <1>3, <1>4, <1>5
     DEF GraphqlStep, GqlProceed, GqlInsert, GqlStore, GqlReread, GqlUpdate, GqlDelete
<1>6. CASE RestStep \/ ExpiryStep \/ UNCHANGED vars
  BY <1>6 DEF RestStep, ExpiryStep, vars
<1>. QED BY <1>5, <1>6 DEF Next

LEMMA DrawnStep ==
  HistoryTypeOK /\ DrawnInv /\ [HistoryNext]_<<vars, history>> => DrawnInv'
<1>. SUFFICES ASSUME HistoryTypeOK, DrawnInv, [HistoryNext]_<<vars, history>>,
                     NEW g \in GqlHandlers, Drawn(g)', g \notin outrun'
              PROVE  Count' < mutation'[g].id
  BY DEF DrawnInv
<1>0. TypeOK /\ TypeOK' /\ [Next]_vars
  BY HistoryStepIsStep, StepTyped DEF HistoryTypeOK
<1>. TableTypeOK /\ TableTypeOK' /\ GraphqlTypeOK'
  BY <1>0 DEF TypeOK
<1>1. /\ Count = Cardinality(Taken) /\ IsFiniteSet(Taken) /\ Cardinality(Taken) \in Nat
      /\ Count' = Cardinality(Taken')
  BY TakenFinite DEF Count, Taken
<1>2. mutation'[g].id \in Nat
  BY DEF Drawn, GraphqlTypeOK, Mutation, NoMutation, Ids
<1>3. CASE Drawn(g) /\ mutation'[g] = mutation[g] /\ HistoryNext
  <2>1. g \notin outrun /\ \A id \in Ids : Present(id)' => Present(id)
    BY <1>3 DEF HistoryNext, Remember
  <2>2. Taken' \subseteq Taken
    BY <2>1 DEF Taken
  <2>3. IsFiniteSet(Taken') /\ Cardinality(Taken') \in Nat /\ Cardinality(Taken') <= Cardinality(Taken)
    BY <1>1, <2>2, FS_Subset, FS_CardinalityType
  <2>4. Cardinality(Taken) < mutation[g].id
    BY <1>1, <1>3, <2>1 DEF DrawnInv
  <2>. QED BY <1>1, <1>2, <1>3, <2>3, <2>4
<1>4. CASE mutation'[g].id = Count + 1 /\ UNCHANGED rows
  <2>1. Taken' = Taken
    BY <1>4 DEF Taken, Present
  <2>. QED BY <1>1, <1>4, <2>1
<1>5. CASE UNCHANGED <<vars, history>>
  <2>1. Taken' = Taken /\ mutation' = mutation /\ outrun' = outrun
    BY <1>5 DEF Taken, Present, vars, tableVars, history
  <2>2. Count < mutation[g].id
    BY <2>1 DEF DrawnInv, Drawn
  <2>. QED BY <1>1, <2>1, <2>2
<1>. QED BY <1>0, <1>3, <1>4, <1>5, DrawStep DEF Drawn

LEMMA HoleOrOverrun == HistoryTypeOK /\ DrawnInv => RefusedOnlyByHole
<1>. SUFFICES ASSUME HistoryTypeOK, DrawnInv, NEW g \in GqlHandlers,
                     Drawn(g), Present(mutation[g].id), g \notin outrun,
                     \A id \in 1..(mutation[g].id - 1) : Present(id)
              PROVE  FALSE
  BY DEF RefusedOnlyByHole
<1>. TableTypeOK /\ GraphqlTypeOK
  BY DEF HistoryTypeOK, TypeOK
<1>. DEFINE n == mutation[g].id
<1>1. n \in Ids
  BY DEF Drawn, GraphqlTypeOK, Mutation, NoMutation
<1>. HIDE DEF n
<1>2. n \in Nat /\ n >= 1 /\ n <= MaxId /\ MaxId \in Nat
  BY <1>1, TableAssumption DEF Ids
<1>3. \A id \in 1..n : id = n \/ id \in 1..(n - 1)
  BY <1>2
<1>4. \A id \in 1..n : id \in Ids
  BY <1>2 DEF Ids
<1>5. (1..n) \subseteq Taken
  BY <1>3, <1>4 DEF Taken, n
<1>6. Cardinality(1..n) <= Cardinality(Taken)
  BY <1>5, TakenFinite, FS_Subset
<1>7. Cardinality(1..n) = n
  BY <1>2, FS_Interval
<1>8. Cardinality(Taken) < n
  BY TakenFinite DEF DrawnInv, n
<1>. QED BY <1>2, <1>6, <1>7, <1>8, TakenFinite

\* However many creates, updates and deletes of both services run at once, the
\* GraphQL service draws an id that is taken only when a hole is below it or when
\* another create came between its count and its INSERT.
THEOREM GraphqlRefusals == HistorySpec => []RefusedOnlyByHole
<1>1. HistoryInit => DrawnInv
  BY DEF HistoryInit, Init, GraphqlInit, DrawnInv, Drawn, NoMutation
<1>. QED BY <1>1, HistoryTypeCorrect, DrawnStep, HoleOrOverrun, PTL DEF HistorySpec

-----------------------------------------------------------------------------
(***************************************************************************)
(* A field is lost only to an update that overlapped another write.        *)
(*                                                                         *)
(* An update whose row has not changed since it was read will write that   *)
(* row with the fields it sets, so that it does to the table what a single *)
(* statement would.                                                        *)
(***************************************************************************)

UpdatesFresh ==
  \A w \in Writers :
    Updating(w) /\ w \notin outdated => Update(w).row = Applied(rows[Update(w).id], patch[w])

LEMMA PatchedIsApplied ==
  ASSUME NEW row \in Row, NEW p \in Patch
  PROVE  Patched(row, p) = Applied(row, p)
BY DEF Row, Patch, Patched, Applied

LEMMA UpdateTyped ==
  ASSUME TypeOK, NEW w \in Writers, Updating(w)
  PROVE  Update(w).id \in Ids /\ Update(w).row \in Row
BY HistoryAssumption
   DEF TypeOK, ServiceTypeOK, GraphqlTypeOK, Writers, Updating, Update, Request, Mutation, Idle,
       NoMutation

\* An update that goes on waiting for its store is the same update.
LEMMA UpdateKept ==
  ASSUME TypeOK, [Next]_vars, NEW w \in Writers, Updating(w), Updating(w)'
  PROVE  Update(w)' = Update(w)
<1>. ServiceTypeOK /\ GraphqlTypeOK
  BY DEF TypeOK
<1>1. ASSUME NEW h \in Handlers, req[h].at = "store", req'[h].at = "store"
      PROVE  req'[h] = req[h]
  <2>1. ASSUME NEW k \in Handlers, Proceed(k)
        PROVE  req'[h] = req[h]
    <3>1. req[k].at # "idle"
      BY <2>1 DEF Proceed, GetRow, Fill, InsertTask, StoreTask, Invalidate
    <3>2. \/ End(k)
          \/ Continue(k, "invalidate", NoRow)
          \/ req[k].at = "read" /\ \E row \in Row \cup {NoRow} : Continue(k, "fill", row)
      BY <2>1, BusyTyped DEF Proceed, GetRow, Fill, InsertTask, StoreTask, Invalidate, TypeOK,
                             TableTypeOK
    <3>. QED BY <1>1, <3>1, <3>2, EndTyped, ContinueTyped DEF Continue, ServiceTypeOK
  <2>2. ASSUME NEW k \in Handlers, NEW i \in Instances, Arrive(k, i)
        PROVE  req'[h] = req[h]
    <3>1. ASSUME NEW at, NEW id, NEW row, Begin(k, at, i, id, row)
          PROVE  req'[h] = req[h]
      BY <1>1, <3>1 DEF Begin, Idle, ServiceTypeOK
    <3>. QED BY <2>2, <3>1 DEF Arrive, GetMiss, DeleteTask, BeginCreate, BeginUpdate
  <2>3. ASSUME NEW i \in Instances, Restart(i)
        PROVE  req'[h] = req[h]
    BY <1>1, <2>3 DEF Restart, Idle
  <2>. QED BY <2>1, <2>2, <2>3 DEF Next, RestStep, ExpiryStep, Expire, GraphqlStep, serviceVars, vars
<1>2. ASSUME NEW g \in GqlHandlers, mutation[g].at = "store", mutation'[g].at = "store"
      PROVE  mutation'[g] = mutation[g]
  <2>1. ASSUME NEW k \in GqlHandlers, NEW at, NEW id, NEW row, BeginMutation(k, at, id, row)
        PROVE  mutation'[g] = mutation[g]
    BY <1>2, <2>1 DEF BeginMutation, NoMutation, GraphqlTypeOK
  <2>2. ASSUME NEW k \in GqlHandlers, EndMutation(k)
        PROVE  mutation'[g] = mutation[g]
    BY <1>2, <2>2 DEF EndMutation, NoMutation, GraphqlTypeOK
  <2>3. ASSUME NEW k \in GqlHandlers, WillReread(k)
        PROVE  mutation'[g] = mutation[g]
    <3>1. k = g => mutation'[g] = [mutation[g] EXCEPT !.at = "reread"]
      BY <2>3 DEF WillReread, GraphqlTypeOK
    <3>2. [mutation[g] EXCEPT !.at = "reread"].at = "reread"
      BY <1>2 DEF GraphqlTypeOK, Mutation, NoMutation
    <3>3. k # g => mutation'[g] = mutation[g]
      BY <2>3 DEF WillReread, GraphqlTypeOK
    <3>. QED BY <1>2, <3>1, <3>2, <3>3
  <2>. QED BY <2>1, <2>2, <2>3
           DEF Next, RestStep, ExpiryStep, GraphqlStep, GqlProceed, GqlInsert, GqlStore, GqlReread,
               GqlCreate, GqlUpdate, GqlDelete, vars
<1>. QED BY <1>1, <1>2 DEF Writers, Updating, Update

\* A row changes in place only by the store of an update.
LEMMA ChangedByStore ==
  ASSUME TypeOK, [Next]_vars, NEW id \in Ids, rows[id] # NoRow, rows'[id] # NoRow,
         rows'[id] # rows[id]
  PROVE  \E w \in Writers : Stores(w, id)
<1>. TableTypeOK /\ ServiceTypeOK /\ GraphqlTypeOK
  BY DEF TypeOK
<1>1. ASSUME NEW h \in Handlers, Proceed(h)
      PROVE  Stores(h, id)
  <2>1. req[h].at # "idle" /\ req[h].id \in Ids
    BY <1>1, BusyTyped DEF Proceed, GetRow, Fill, InsertTask, StoreTask, Invalidate
  <2>2. StoreTask(h) /\ Put(req[h].id, req[h].row)
    <3>1. ~GetRow(h) /\ ~Fill(h) /\ ~Invalidate(h)
      BY DEF GetRow, Fill, Invalidate, tableVars
    <3>2. ~InsertTask(h)
      <4>1. Insert(req[h].id, req[h].row) => rows'[id] = rows[id] \/ rows[id] = NoRow
        BY <2>1, PutFacts DEF Insert, Present
      <4>. QED BY <4>1 DEF InsertTask
    <3>3. StoreTask(h)
      BY <1>1, <3>1, <3>2 DEF Proceed
    <3>. QED BY <3>3 DEF StoreTask, Overwrite
  <2>3. id = req[h].id /\ rows'[id] = req[h].row
    BY <2>1, <2>2, PutFacts
  <2>4. req[h].at = "store" /\ req'[h].at # "store"
    BY <2>1, <2>2, EndTyped, ContinueTyped DEF StoreTask
  <2>. QED BY <2>3, <2>4 DEF Stores, Updating, Update
<1>2. ASSUME NEW h \in Handlers, NEW i \in Instances, Arrive(h, i)
      PROVE  FALSE
  BY <1>2 DEF Arrive, GetMiss, DeleteTask, Remove, BeginCreate, BeginUpdate, TableTypeOK, tableVars
<1>3. CASE RestStep
  BY <1>1, <1>2, <1>3 DEF RestStep, Restart, tableVars, Writers
<1>4. CASE ExpiryStep \/ UNCHANGED vars
  BY <1>4 DEF ExpiryStep, Expire, vars, tableVars
<1>5. ASSUME NEW g \in GqlHandlers, GqlProceed(g)
      PROVE  Stores(g, id)
  <2>1. mutation[g].id \in Ids
    BY <1>5 DEF GqlProceed, GqlInsert, GqlStore, GqlReread, GraphqlTypeOK, Mutation, NoMutation
  <2>2. GqlStore(g) /\ Put(mutation[g].id, mutation[g].row)
    <3>1. Insert(mutation[g].id, mutation[g].row) => rows'[id] = rows[id] \/ rows[id] = NoRow
      BY <2>1, PutFacts DEF Insert, Present
    <3>2. ~GqlInsert(g) /\ ~GqlReread(g)
      BY <3>1 DEF GqlInsert, GqlReread, tableVars
    <3>3. GqlStore(g)
      BY <1>5, <3>2 DEF GqlProceed
    <3>. QED BY <3>3 DEF GqlStore, Overwrite
  <2>3. id = mutation[g].id /\ rows'[id] = mutation[g].row
    BY <2>1, <2>2, PutFacts
  <2>4. mutation[g].at = "store" /\ (WillReread(g) \/ EndMutation(g))
    BY <2>2 DEF GqlStore
  <2>5. [mutation[g] EXCEPT !.at = "reread"].at = "reread"
    BY <2>4 DEF GraphqlTypeOK, Mutation, NoMutation
  <2>6. mutation'[g].at # "store"
    <3>1. WillReread(g) => mutation'[g] = [mutation[g] EXCEPT !.at = "reread"]
      BY DEF WillReread, GraphqlTypeOK
    <3>2. EndMutation(g) => mutation'[g] = NoMutation
      BY DEF EndMutation, GraphqlTypeOK
    <3>3. NoMutation.at = "idle"
      BY DEF NoMutation
    <3>4. CASE WillReread(g)
      <4>1. mutation'[g].at = "reread"
        BY <2>5, <3>1, <3>4, Zenon
      <4>. QED BY <4>1
    <3>5. CASE EndMutation(g)
      BY <3>2, <3>3, <3>5
    <3>. QED BY <2>4, <3>4, <3>5
  <2>. QED BY <2>3, <2>4, <2>6, HistoryAssumption DEF Stores, Updating, Update
<1>6. CASE GraphqlStep
  BY <1>5, <1>6 DEF GraphqlStep, GqlCreate, GqlUpdate, GqlDelete, Remove, TableTypeOK, Writers
<1>. QED BY <1>3, <1>4, <1>6 DEF Next

\* An update starts with the row as it is.
LEMMA StartsFresh ==
  ASSUME HistoryTypeOK, HistoryNext, NEW w \in Writers, Starts(w)
  PROVE  Update(w)'.row = Applied(rows'[Update(w)'.id], patch'[w])
<1>. ServiceTypeOK /\ GraphqlTypeOK /\ TableTypeOK
  BY DEF HistoryTypeOK, TypeOK
<1>1. PICK v \in Writers, p \in Patch : UpdateBegins(v, p)
  BY DEF HistoryNext
<1>2. v = w
  BY <1>1, HistoryAssumption
     DEF UpdateBegins, BeginUpdate, GqlUpdate, Begin, BeginMutation, Starts, Updating, Update,
         Writers, serviceVars, ServiceTypeOK, GraphqlTypeOK
<1>3. patch'[w] = p
  BY <1>1, <1>2 DEF UpdateBegins, HistoryTypeOK
<1>4. PICK id \in Ids : /\ Present(id) /\ UNCHANGED rows
                        /\ Update(w)'.id = id /\ Update(w)'.row = Patched(rows[id], p)
  <2>1. CASE w \in Handlers
    BY <1>1, <1>2, <2>1, HistoryAssumption
       DEF UpdateBegins, BeginUpdate, Begin, Update, ServiceTypeOK
  <2>2. CASE w \in GqlHandlers
    BY <1>1, <1>2, <2>2, HistoryAssumption
       DEF UpdateBegins, GqlUpdate, BeginMutation, Update, GraphqlTypeOK
  <2>. QED BY <2>1, <2>2 DEF Writers
<1>5. rows[id] \in Row
  BY <1>4 DEF Present, TableTypeOK
<1>. QED BY <1>3, <1>4, <1>5, PatchedIsApplied

LEMMA FreshUpdatesStep ==
  HistoryTypeOK /\ UpdatesFresh /\ [HistoryNext]_<<vars, history>> => UpdatesFresh'
<1>. SUFFICES ASSUME HistoryTypeOK, UpdatesFresh, [HistoryNext]_<<vars, history>>,
                     NEW w \in Writers, Updating(w)', w \notin outdated'
              PROVE  Update(w)'.row = Applied(rows'[Update(w)'.id], patch'[w])
  BY DEF UpdatesFresh
<1>0. TypeOK /\ [Next]_vars
  BY HistoryStepIsStep DEF HistoryTypeOK
<1>1. CASE HistoryNext /\ Starts(w)
  BY <1>1, StartsFresh
<1>2. CASE HistoryNext /\ ~Starts(w)
  <2>1. Updating(w)
    BY <1>2 DEF Starts
  <2>2. Update(w)' = Update(w)
    BY <1>0, <2>1, UpdateKept
  <2>3. w \notin outdated /\ rows'[Update(w).id] = rows[Update(w).id]
    BY <1>2 DEF HistoryNext, Remember
  <2>4. patch'[w] = patch[w]
    <3>1. ASSUME NEW v \in Writers, NEW p \in Patch, UpdateBegins(v, p)
          PROVE  patch'[w] = patch[w]
      <4>1. ~Updating(v)
        BY <3>1, HistoryAssumption
           DEF UpdateBegins, BeginUpdate, GqlUpdate, Begin, BeginMutation, Updating, Update, Idle,
               NoMutation
      <4>. QED BY <2>1, <3>1, <4>1 DEF UpdateBegins, HistoryTypeOK
    <3>. QED BY <1>2, <3>1 DEF HistoryNext
  <2>. QED BY <2>1, <2>2, <2>3, <2>4 DEF UpdatesFresh
<1>3. CASE UNCHANGED <<vars, history>>
  <2>1. /\ Update(w)' = Update(w) /\ rows' = rows /\ patch' = patch
        /\ Updating(w) /\ w \notin outdated
    BY <1>3 DEF vars, tableVars, serviceVars, history, Update, Updating
  <2>. QED BY <2>1 DEF UpdatesFresh
<1>. QED BY <1>1, <1>2, <1>3

LEMMA LostStep ==
  HistoryTypeOK /\ UpdatesFresh /\ LostOnlyByOverlap /\ [HistoryNext]_<<vars, history>>
    => LostOnlyByOverlap'
<1>. SUFFICES ASSUME HistoryTypeOK, UpdatesFresh, LostOnlyByOverlap,
                     [HistoryNext]_<<vars, history>>, NEW id \in Ids, id \notin overlaps'
              PROVE  rows'[id] = expected'[id]
  BY DEF LostOnlyByOverlap
<1>0. TypeOK /\ [Next]_vars
  BY HistoryStepIsStep DEF HistoryTypeOK
<1>1. CASE UNCHANGED <<vars, history>>
  BY <1>1 DEF vars, tableVars, history, LostOnlyByOverlap
<1>2. CASE HistoryNext /\ (rows'[id] = NoRow \/ rows[id] = NoRow)
  BY <1>2 DEF HistoryNext, Remember
<1>3. CASE HistoryNext /\ rows'[id] # NoRow /\ rows[id] # NoRow
  <2>1. id \notin overlaps /\ \A w \in outdated : ~Stores(w, id)
    BY <1>3 DEF HistoryNext, Remember
  <2>2. expected[id] = rows[id]
    BY <2>1 DEF LostOnlyByOverlap
  <2>3. CASE \E w \in Writers : Stores(w, id)
    <3>1. PICK w \in Writers : /\ Stores(w, id)
                               /\ expected'[id] = Applied(expected[id], patch[w])
      BY <1>3, <2>3 DEF HistoryNext, Remember
    <3>2. w \notin outdated /\ Updating(w)
      BY <2>1, <3>1 DEF Stores
    <3>3. Update(w).row = Applied(rows[id], patch[w]) /\ rows'[id] = Update(w).row
      BY <3>1, <3>2 DEF UpdatesFresh, Stores
    <3>. QED BY <2>2, <3>1, <3>3
  <2>4. CASE ~\E w \in Writers : Stores(w, id)
    <3>1. expected'[id] = expected[id]
      BY <1>3, <2>4 DEF HistoryNext, Remember
    <3>. QED BY <1>0, <1>3, <2>2, <2>4, <3>1, ChangedByStore
  <2>. QED BY <2>3, <2>4
<1>. QED BY <1>1, <1>2, <1>3

\* However many updates, deletes and creates of both services run at once, and
\* whatever fails, a field that was set is lost only to an update whose row changed
\* between its read and its write.
THEOREM LostUpdatesOverlap == HistorySpec => []LostOnlyByOverlap
<1>1. HistoryInit => UpdatesFresh /\ LostOnlyByOverlap
  BY DEF HistoryInit, Init, TableInit, ServiceInit, GraphqlInit, UpdatesFresh, LostOnlyByOverlap,
         Updating, Update, Writers, Idle, NoMutation
<1>. QED BY <1>1, HistoryTypeCorrect, FreshUpdatesStep, LostStep, PTL DEF HistorySpec

-----------------------------------------------------------------------------
(***************************************************************************)
(* An instance is refused each id at most once.                            *)
(*                                                                         *)
(* Its counter only grows until it is restarted, so that the creates it    *)
(* has in progress hold distinct ids that the counter has passed, and each *)
(* refusal adds to the ids it has left behind one that a task has had.     *)
(***************************************************************************)

\* Handler h is about to insert a task of instance i.
Serving(h, i) == Inserting(h) /\ req[h].inst = i

Serial(i) ==
  /\ \A h \in Handlers : Serving(h, i) => req[h].id <= counter[i]
  /\ \A h, k \in Handlers : Serving(h, i) /\ Serving(k, i) /\ req[h].id = req[k].id => h = k

\* The ids instance i has left behind that a task has had.
Behind(i) ==
  {id \in Ids : /\ id <= counter[i] /\ past[id] # {}
                /\ \A h \in Handlers : Serving(h, i) => req[h].id # id}

RefusalInv ==
  \A i \in Instances : Serial(i) /\ refused[i] \in Nat /\ refused[i] <= Cardinality(Behind(i))

\* What one step does to the creates of instance i: it is restarted, it goes on, or it
\* begins one.
Restarts(i) == counter'[i] = 0 /\ \A h \in Handlers : ~Serving(h, i)'

GoesOn(i) ==
  /\ counter'[i] = counter[i]
  /\ \A h \in Handlers : Serving(h, i)' => req'[h] = req[h]
  /\ \A h, k \in Handlers : Refused(i, h) /\ Refused(i, k) => h = k

Draws(h, i) ==
  /\ req[h] = Idle /\ counter'[i] = counter[i] + 1
  /\ req'[h].id = counter[i] + 1
  /\ \A k \in Handlers \ {h} : req'[k] = req[k]

InstanceStep(i) == Restarts(i) \/ GoesOn(i) \/ \E h \in Handlers : Draws(h, i)

LEMMA InstanceStepHolds ==
  ASSUME TypeOK, [Next]_vars, NEW i \in Instances
  PROVE  InstanceStep(i)
<1>. ServiceTypeOK /\ TableTypeOK
  BY DEF TypeOK
<1>1. ASSUME NEW h \in Handlers, counter' = counter,
             \A k \in Handlers \ {h} : req'[k] = req[k],
             req'[h] = req[h] \/ req'[h].at # "insert"
      PROVE  GoesOn(i)
  <2>1. \A k \in Handlers : Serving(k, i)' => req'[k] = req[k]
    BY <1>1 DEF Serving, Inserting
  <2>2. \A k \in Handlers : Refused(i, k) => k = h
    BY <1>1 DEF Refused, Idle
  <2>. QED BY <1>1, <2>1, <2>2 DEF GoesOn
<1>2. ASSUME NEW h \in Handlers, Proceed(h)
      PROVE  GoesOn(i)
  <2>1. req[h].at # "idle" /\ counter' = counter
    BY <1>2 DEF Proceed, GetRow, Fill, InsertTask, StoreTask, Invalidate
  <2>2. \/ End(h)
        \/ \E row \in Row \cup {NoRow} : Continue(h, "invalidate", row)
        \/ \E row \in Row : Continue(h, "fill", row)
    BY <1>2, BusyTyped DEF Proceed, GetRow, Fill, InsertTask, StoreTask, Invalidate,
                           Present, TableTypeOK
  <2>3. req'[h].at # "insert" /\ \A k \in Handlers \ {h} : req'[k] = req[k]
    BY <2>1, <2>2, EndTyped, ContinueTyped
  <2>. QED BY <1>1, <2>1, <2>3
<1>3. ASSUME NEW h \in Handlers, NEW j \in Instances, Arrive(h, j)
      PROVE  InstanceStep(i)
  <2>1. ASSUME NEW at, NEW id, NEW row, Begin(h, at, j, id, row)
        PROVE  /\ req[h] = Idle /\ req'[h].at = at /\ req'[h].inst = j /\ req'[h].id = id
               /\ \A k \in Handlers \ {h} : req'[k] = req[k]
    <3>1. req'[h] = [at |-> at, inst |-> j, id |-> id, row |-> row]
      BY <2>1 DEF Begin, ServiceTypeOK
    <3>. QED BY <2>1, <3>1 DEF Begin, ServiceTypeOK
  <2>2. ASSUME NEW id \in Ids, GetMiss(h, j, id) \/ DeleteTask(h, j, id)
        PROVE  GoesOn(i)
    <3>1. \/ Begin(h, "read", j, id, NoRow) \/ Begin(h, "invalidate", j, id, NoRow)
          \/ UNCHANGED req
      BY <2>2 DEF GetMiss, DeleteTask
    <3>2. /\ \A k \in Handlers \ {h} : req'[k] = req[k]
          /\ req'[h] = req[h] \/ req'[h].at # "insert"
      BY <2>1, <3>1
    <3>. QED BY <1>1, <2>2, <3>2 DEF GetMiss, DeleteTask
  <2>3. ASSUME NEW id \in Ids, NEW p \in Patch, BeginUpdate(h, j, id, p)
        PROVE  GoesOn(i)
    <3>1. req'[h].at # "insert" /\ \A k \in Handlers \ {h} : req'[k] = req[k]
      BY <2>1, <2>3 DEF BeginUpdate
    <3>. QED BY <1>1, <2>3, <3>1 DEF BeginUpdate
  <2>4. ASSUME NEW title \in Titles, BeginCreate(h, j, title)
        PROVE  InstanceStep(i)
    <3>1. /\ Begin(h, "insert", j, counter[j] + 1, NewRow(title))
          /\ counter' = [counter EXCEPT ![j] = counter[j] + 1]
      BY <2>4 DEF BeginCreate, NextId
    <3>2. /\ req[h] = Idle /\ req'[h].at = "insert" /\ req'[h].inst = j
          /\ req'[h].id = counter[j] + 1
          /\ \A k \in Handlers \ {h} : req'[k] = req[k]
      BY <2>1, <3>1
    <3>3. CASE j = i
      BY <3>1, <3>2, <3>3 DEF InstanceStep, Draws, ServiceTypeOK
    <3>4. CASE j # i
      <4>1. counter'[i] = counter[i]
        BY <3>1, <3>4 DEF ServiceTypeOK
      <4>2. \A k \in Handlers : Serving(k, i)' => req'[k] = req[k]
        BY <3>2, <3>4 DEF Serving
      <4>3. \A k \in Handlers : ~Refused(i, k)
        BY <3>2 DEF Refused, Idle
      <4>. QED BY <4>1, <4>2, <4>3 DEF InstanceStep, GoesOn
    <3>. QED BY <3>3, <3>4
  <2>. QED BY <1>3, <2>2, <2>3, <2>4 DEF Arrive, InstanceStep
<1>4. ASSUME NEW j \in Instances, Restart(j)
      PROVE  InstanceStep(i)
  <2>1. /\ counter' = [counter EXCEPT ![j] = 0]
        /\ \A h \in Handlers :
             req'[h] = IF req[h] # Idle /\ req[h].inst = j THEN Idle ELSE req[h]
    BY <1>4 DEF Restart
  <2>2. CASE j = i
    <3>1. counter'[i] = 0
      BY <2>1, <2>2 DEF ServiceTypeOK
    <3>2. \A h \in Handlers : ~Serving(h, i)'
      BY <2>1, <2>2 DEF Serving, Inserting, Idle
    <3>. QED BY <3>1, <3>2 DEF InstanceStep, Restarts
  <2>3. CASE j # i
    <3>1. counter'[i] = counter[i]
      BY <2>1, <2>3 DEF ServiceTypeOK
    <3>2. \A h \in Handlers : Serving(h, i)' => req'[h] = req[h]
      BY <2>1 DEF Serving, Inserting, Idle
    <3>3. \A h \in Handlers : ~Refused(i, h)
      BY <2>1, <2>3 DEF Refused, Idle
    <3>. QED BY <3>1, <3>2, <3>3 DEF InstanceStep, GoesOn
  <2>. QED BY <2>2, <2>3
<1>5. CASE RestStep
  BY <1>2, <1>3, <1>4, <1>5 DEF RestStep, InstanceStep
<1>6. CASE ExpiryStep \/ GraphqlStep \/ UNCHANGED vars
  <2>1. req' = req /\ counter' = counter
    BY <1>6 DEF ExpiryStep, Expire, GraphqlStep, serviceVars, vars
  <2>2. \A h \in Handlers : ~Refused(i, h)
    BY <2>1 DEF Refused, Idle
  <2>. QED BY <2>1, <2>2 DEF InstanceStep, GoesOn
<1>. QED BY <1>5, <1>6 DEF Next

LEMMA SerialStep ==
  ASSUME TypeOK, NEW i \in Instances, Serial(i), InstanceStep(i)
  PROVE  Serial(i)'
<1>. ServiceTypeOK
  BY DEF TypeOK
<1>1. CASE Restarts(i)
  BY <1>1 DEF Restarts, Serial, Serving
<1>2. CASE GoesOn(i)
  <2>1. \A h \in Handlers : Serving(h, i)' => Serving(h, i) /\ req'[h] = req[h]
    BY <1>2 DEF GoesOn, Serving, Inserting
  <2>. QED BY <1>2, <2>1 DEF GoesOn, Serial, Serving
<1>3. ASSUME NEW h \in Handlers, Draws(h, i)
      PROVE  Serial(i)'
  <2>1. /\ counter[i] \in Nat /\ counter'[i] = counter[i] + 1 /\ req'[h].id = counter[i] + 1
        /\ \A k \in Handlers \ {h} : req'[k] = req[k]
    BY <1>3 DEF Draws, ServiceTypeOK
  <2>2. \A k \in Handlers \ {h} :
          Serving(k, i)' => Serving(k, i) /\ req[k].id <= counter[i] /\ req[k].id \in Nat
    <3>1. \A k \in Handlers : Inserting(k) => req[k].id \in Nat
      BY BusyTyped DEF Inserting, Ids
    <3>. QED BY <2>1, <3>1 DEF Serial, Serving, Inserting
  <2>3. \A k \in Handlers : Serving(k, i)' => req'[k].id <= counter'[i]
    BY <2>1, <2>2
  <2>4. \A k, j \in Handlers : Serving(k, i)' /\ Serving(j, i)' /\ req'[k].id = req'[j].id => k = j
    BY <2>1, <2>2 DEF Serial
  <2>. QED BY <2>3, <2>4 DEF Serial, Serving
<1>. QED BY <1>1, <1>2, <1>3 DEF InstanceStep

LEMMA IdsFinite == IsFiniteSet(Ids)
BY FS_Interval, TableAssumption DEF Ids

LEMMA BehindFinite ==
  ASSUME TypeOK, NEW i \in Instances
  PROVE  IsFiniteSet(Behind(i)) /\ Cardinality(Behind(i)) \in Nat
BY IdsFinite, FS_Subset, FS_CardinalityType DEF Behind

\* Each refusal leaves one more id behind.
LEMMA RefusalStep ==
  ASSUME TypeOK, RowsInv, NEW i \in Instances, Serial(i), InstanceStep(i),
         \A id \in Ids : past[id] \subseteq past'[id], Remember,
         refused[i] \in Nat, refused[i] <= Cardinality(Behind(i))
  PROVE  refused'[i] \in Nat /\ refused'[i] <= Cardinality(Behind(i)')
<1>. ServiceTypeOK /\ TableTypeOK
  BY DEF TypeOK
<1>. DEFINE R == {h \in Handlers : Refused(i, h)}
<1>1. refused'[i] = IF counter'[i] = 0 THEN 0 ELSE refused[i] + Cardinality(R)
  BY DEF Remember
<1>2. /\ IsFiniteSet(Behind(i)) /\ Cardinality(Behind(i)) \in Nat
      /\ IsFiniteSet(Behind(i)') /\ Cardinality(Behind(i)') \in Nat
  <2>1. Behind(i)' \subseteq Ids
    BY DEF Behind
  <2>. QED BY <2>1, IdsFinite, BehindFinite, FS_Subset, FS_CardinalityType
<1>3. CASE counter'[i] = 0
  BY <1>1, <1>2, <1>3
<1>4. ASSUME Behind(i) \subseteq Behind(i)', R = {}
      PROVE  refused'[i] \in Nat /\ refused'[i] <= Cardinality(Behind(i)')
  <2>1. Cardinality(R) = 0
    BY <1>4, FS_EmptySet
  <2>2. Cardinality(Behind(i)) <= Cardinality(Behind(i)')
    BY <1>2, <1>4, FS_Subset
  <2>. HIDE DEF R
  <2>. QED BY <1>1, <1>2, <2>1, <2>2
<1>5. CASE GoesOn(i)
  <2>1. \A h \in Handlers : Serving(h, i)' => Serving(h, i) /\ req'[h] = req[h]
    BY <1>5 DEF GoesOn, Serving, Inserting
  <2>2. Behind(i) \subseteq Behind(i)'
    BY <1>5, <2>1 DEF Behind, GoesOn
  <2>3. CASE R = {}
    BY <1>4, <2>2, <2>3
  <2>4. ASSUME NEW h \in Handlers, Refused(i, h)
        PROVE  refused'[i] \in Nat /\ refused'[i] <= Cardinality(Behind(i)')
    <3>. DEFINE id == req[h].id
    <3>1. R = {h}
      BY <1>5, <2>4 DEF GoesOn
    <3>2. Serving(h, i) /\ Present(id) /\ req'[h] = Idle /\ id \in Ids
      BY <2>4, BusyTyped DEF Refused, Serving, Inserting
    <3>3. id \notin Behind(i)
      BY <3>2 DEF Behind
    <3>4. past'[id] # {}
      BY <3>2 DEF RowsInv
    <3>5. id <= counter'[i]
      BY <1>5, <3>2 DEF Serial, GoesOn
    <3>6. \A k \in Handlers : Serving(k, i)' => req'[k].id # id
      BY <2>1, <3>2 DEF Serial, Serving, Inserting, Idle
    <3>7. id \in Behind(i)'
      BY <3>2, <3>4, <3>5, <3>6 DEF Behind
    <3>. HIDE DEF id, R
    <3>8. Cardinality(R) = 1
      BY <3>1, FS_Singleton
    <3>9. Cardinality(Behind(i) \cup {id}) = Cardinality(Behind(i)) + 1
      BY <1>2, <3>3, FS_AddElement
    <3>10. Cardinality(Behind(i) \cup {id}) <= Cardinality(Behind(i)')
      <4>1. Behind(i) \cup {id} \subseteq Behind(i)'
        BY <2>2, <3>7
      <4>. QED BY <1>2, <4>1, FS_Subset
    <3>. QED BY <1>1, <1>2, <3>8, <3>9, <3>10
  <2>. QED BY <2>3, <2>4
<1>6. ASSUME NEW h \in Handlers, Draws(h, i)
      PROVE  refused'[i] \in Nat /\ refused'[i] <= Cardinality(Behind(i)')
  <2>1. /\ counter[i] \in Nat /\ counter'[i] = counter[i] + 1 /\ req'[h].id = counter[i] + 1
        /\ req[h] = Idle /\ \A k \in Handlers \ {h} : req'[k] = req[k]
    BY <1>6 DEF Draws, ServiceTypeOK
  <2>2. R = {}
    BY <2>1 DEF Refused, Idle
  <2>3. \A id \in Ids : id \in Nat
    BY DEF Ids
  <2>4. ASSUME NEW id \in Behind(i)
        PROVE  id \in Behind(i)'
    <3>1. id \in Ids /\ id <= counter[i] /\ past[id] # {} /\ \A k \in Handlers : Serving(k, i) => req[k].id # id
      BY DEF Behind
    <3>2. \A k \in Handlers : Serving(k, i)' => req'[k].id # id
      BY <2>1, <2>3, <3>1 DEF Serving, Inserting
    <3>3. id <= counter'[i] /\ past'[id] # {}
      BY <2>1, <2>3, <3>1
    <3>. QED BY <3>1, <3>2, <3>3 DEF Behind
  <2>5. Behind(i) \subseteq Behind(i)'
    BY <2>4
  <2>. QED BY <1>4, <2>2, <2>5
<1>. QED BY <1>3, <1>5, <1>6 DEF InstanceStep, Restarts

LEMMA RefusalsStep ==
  HistoryTypeOK /\ RowsInv /\ RefusalInv /\ [HistoryNext]_<<vars, history>> => RefusalInv'
<1>. SUFFICES ASSUME HistoryTypeOK, RowsInv, RefusalInv, [HistoryNext]_<<vars, history>>,
                     NEW i \in Instances
              PROVE  Serial(i)' /\ refused'[i] \in Nat /\ refused'[i] <= Cardinality(Behind(i)')
  BY DEF RefusalInv
<1>1. TypeOK /\ [Next]_vars
  BY HistoryStepIsStep DEF HistoryTypeOK
<1>2. InstanceStep(i) /\ Serial(i)
  BY <1>1, InstanceStepHolds DEF RefusalInv
<1>3. Serial(i)'
  BY <1>1, <1>2, SerialStep
<1>4. CASE HistoryNext
  <2>1. Remember
    BY <1>4 DEF HistoryNext
  <2>2. \A id \in Ids : past[id] \subseteq past'[id]
    BY <1>1, PastGrows
  <2>. QED BY <1>1, <1>2, <1>3, <2>1, <2>2, RefusalStep DEF RefusalInv
<1>5. CASE UNCHANGED <<vars, history>>
  <2>1. Behind(i)' = Behind(i) /\ refused' = refused
    BY <1>5 DEF vars, tableVars, serviceVars, history, Behind, Serving, Inserting
  <2>. QED BY <1>3, <2>1 DEF RefusalInv
<1>. QED BY <1>4, <1>5

LEMMA RefusalsInit == HistoryInit => RowsInv /\ RefusalInv
<1>. SUFFICES ASSUME HistoryInit
              PROVE  RowsInv /\ RefusalInv
  OBVIOUS
<1>1. RowsInv
  BY DEF HistoryInit, Init, TableInit, ServiceInit, GraphqlInit, RowsInv, Present, Idle, NoMutation
<1>2. TypeOK
  BY InitTyped DEF HistoryInit
<1>3. \A i \in Instances : Serial(i) /\ refused[i] = 0
  BY DEF HistoryInit, Init, ServiceInit, Serial, Serving, Inserting, Idle
<1>. QED BY <1>1, <1>2, <1>3, BehindFinite DEF RefusalInv

\* However often instances are restarted, and whoever else creates tasks, an instance
\* is refused no more creates than tasks have been created.
THEOREM RestartsRefuseBounded == HistorySpec => []RefusalsBounded
<1>1. HistorySpec => [](RowsInv /\ RefusalInv)
  <2>1. HistoryTypeOK /\ RowsInv /\ [HistoryNext]_<<vars, history>> => RowsInv'
    BY HistoryStepIsStep, RowsInvStep DEF HistoryTypeOK
  <2>. QED BY <2>1, RefusalsInit, RefusalsStep, HistoryTypeCorrect, PTL DEF HistorySpec
<1>2. HistoryTypeOK /\ RefusalInv => RefusalsBounded
  <2>. SUFFICES ASSUME HistoryTypeOK, RefusalInv, NEW i \in Instances
                PROVE  refused[i] <= Cardinality({id \in Ids : past[id] # {}})
    BY DEF RefusalsBounded
  <2>. DEFINE S == {id \in Ids : past[id] # {}}
  <2>1. Behind(i) \subseteq S /\ S \subseteq Ids
    BY DEF Behind
  <2>2. IsFiniteSet(S)
    BY <2>1, IdsFinite, FS_Subset
  <2>. HIDE DEF S
  <2>3. Cardinality(S) \in Nat /\ Cardinality(Behind(i)) \in Nat /\ Cardinality(Behind(i)) <= Cardinality(S)
    BY <2>1, <2>2, FS_Subset, FS_CardinalityType
  <2>4. refused[i] \in Nat /\ refused[i] <= Cardinality(Behind(i))
    BY DEF RefusalInv
  <2>5. refused[i] <= Cardinality(S)
    BY <2>3, <2>4
  <2>. QED BY <2>5 DEF S
<1>. QED BY <1>1, <1>2, HistoryTypeCorrect, PTL
=============================================================================
