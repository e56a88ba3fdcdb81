------------------------- MODULE TaskPlatformProofs -------------------------
(***************************************************************************)
(* Theorems about the tasks and GraphQL services, for every number of      *)
(* instances, concurrent requests, ids, titles and writes.                 *)
(***************************************************************************)
EXTENDS TaskPlatform, TLAPS

-----------------------------------------------------------------------------
(* Type correctness. *)

\* Where a request that writes a row got it from.
LEMMA RowsTyped ==
  /\ \A title \in Titles : NewRow(title) \in Row
  /\ \A row \in Row, patch \in Patch : Patched(row, patch) \in Row
  /\ NoRow \notin Row
  BY TableAssumption DEF Row, Patch, NewRow, Patched

LEMMA PutTyped ==
  ASSUME TableTypeOK, NEW id \in Ids, NEW row \in Row, Put(id, row)
  PROVE  /\ rows' \in [Ids -> Row \cup {NoRow}]
         /\ past' \in [Ids -> SUBSET Row]
         /\ rows' = [rows EXCEPT ![id] = row]
         /\ \A i \in Ids : past'[i] = IF i = id THEN past[i] \cup {row} ELSE past[i]
  BY DEF TableTypeOK, Put

LEMMA BeginWriteTyped ==
  ASSUME TableTypeOK, BeginWrite
  PROVE  writes' \in 0..MaxWrites
  BY TableAssumption DEF TableTypeOK, BeginWrite

LEMMA BeginTyped ==
  ASSUME ServiceTypeOK, NEW h \in Handlers, NEW at \in {"read", "insert", "store", "invalidate"},
         NEW i \in Instances, NEW id \in Ids, NEW row \in Row \cup {NoRow},
         at \in {"insert", "store"} => row \in Row,
         Begin(h, at, i, id, row)
  PROVE  /\ req' \in [Handlers -> Request \cup {Idle}]
         /\ \A k \in Handlers : req'[k].at \in {"fill", "insert", "store"} => req'[k].row \in Row
         /\ \A k \in Handlers \ {h} : req'[k] = req[k]
         /\ req'[h] = [at |-> at, inst |-> i, id |-> id, row |-> row]
  BY DEF ServiceTypeOK, Begin, Request

\* A handler that is not idle is serving a request.
LEMMA BusyTyped ==
  ASSUME ServiceTypeOK, NEW h \in Handlers, req[h].at # "idle"
  PROVE  req[h] \in Request /\ req[h].id \in Ids /\ req[h].inst \in Instances
  BY DEF ServiceTypeOK, Request, Idle

LEMMA ContinueTyped ==
  ASSUME ServiceTypeOK, NEW h \in Handlers, NEW at \in {"fill", "invalidate"},
         NEW row \in Row \cup {NoRow}, at = "fill" => row \in Row,
         req[h].at # "idle", Continue(h, at, row)
  PROVE  /\ req' \in [Handlers -> Request \cup {Idle}]
         /\ \A k \in Handlers : req'[k].at \in {"fill", "insert", "store"} => req'[k].row \in Row
         /\ \A k \in Handlers \ {h} : req'[k] = req[k]
         /\ req'[h].at = at /\ req'[h].row = row
         /\ req'[h].id = req[h].id /\ req'[h].inst = req[h].inst
<1>. DEFINE r == [req[h] EXCEPT !.at = at, !.row = row]
<1>1. /\ r \in Request
      /\ r.at = at /\ r.row = row /\ r.id = req[h].id /\ r.inst = req[h].inst
  BY BusyTyped DEF Request
<1>2. req' = [req EXCEPT ![h] = r]
  BY DEF Continue
<1>. HIDE DEF r
<1>. QED BY <1>1, <1>2 DEF ServiceTypeOK

LEMMA EndTyped ==
  ASSUME ServiceTypeOK, NEW h \in Handlers, End(h)
  PROVE  /\ req' \in [Handlers -> Request \cup {Idle}]
         /\ \A k \in Handlers : req'[k].at \in {"fill", "insert", "store"} => req'[k].row \in Row
         /\ \A k \in Handlers \ {h} : req'[k] = req[k]
         /\ req'[h] = Idle /\ req'[h].at = "idle"
  BY DEF ServiceTypeOK, End, Idle

LEMMA DropTyped ==
  ASSUME ServiceTypeOK, NEW id \in Ids, Drop(id)
  PROVE  /\ cache' \in [Ids -> Entry \cup {NoEntry}]
         /\ raced' \subseteq Ids
         /\ cache' = [cache EXCEPT ![id] = NoEntry]
  BY DEF ServiceTypeOK, Drop

LEMMA ArriveTyped ==
  ASSUME TableTypeOK, ServiceTypeOK, NEW h \in Handlers, NEW i \in Instances, Arrive(h, i)
  PROVE  TableTypeOK' /\ ServiceTypeOK'
<1>1. ASSUME NEW id \in Ids, GetMiss(h, i, id)
      PROVE  TableTypeOK' /\ ServiceTypeOK'
  <2>1. Begin(h, "read", i, id, NoRow)
    BY <1>1 DEF GetMiss
  <2>2. /\ req' \in [Handlers -> Request \cup {Idle}]
        /\ \A k \in Handlers : req'[k].at \in {"fill", "insert", "store"} => req'[k].row \in Row
    BY <2>1, BeginTyped
  <2>. QED BY <1>1, <2>2 DEF GetMiss, TableTypeOK, ServiceTypeOK, tableVars
<1>2. ASSUME NEW id \in Ids, DeleteTask(h, i, id)
      PROVE  TableTypeOK' /\ ServiceTypeOK'
  <2>1. TableTypeOK'
    BY <1>2, BeginWriteTyped DEF DeleteTask, Remove, TableTypeOK
  <2>2. /\ req' \in [Handlers -> Request \cup {Idle}]
        /\ \A k \in Handlers : req'[k].at \in {"fill", "insert", "store"} => req'[k].row \in Row
    <3>1. CASE Begin(h, "invalidate", i, id, NoRow)
      BY <3>1, BeginTyped
    <3>2. CASE UNCHANGED req
      BY <3>2 DEF ServiceTypeOK
    <3>. QED BY <1>2, <3>1, <3>2 DEF DeleteTask
  <2>. QED BY <1>2, <2>1, <2>2 DEF DeleteTask, ServiceTypeOK
<1>3. ASSUME NEW title \in Titles, BeginCreate(h, i, title)
      PROVE  TableTypeOK' /\ ServiceTypeOK'
  <2>1. TableTypeOK'
    BY <1>3, BeginWriteTyped DEF BeginCreate, TableTypeOK
  <2>2. NextId(i) \in Ids /\ NewRow(title) \in Row
    BY <1>3, RowsTyped DEF BeginCreate
  <2>3. Begin(h, "insert", i, NextId(i), NewRow(title))
    BY <1>3 DEF BeginCreate
  <2>4. /\ req' \in [Handlers -> Request \cup {Idle}]
        /\ \A k \in Handlers : req'[k].at \in {"fill", "insert", "store"} => req'[k].row \in Row
    BY <2>2, <2>3, BeginTyped
  <2>5. counter' \in [Instances -> 0..MaxId]
    BY <1>3, <2>2, TableAssumption DEF BeginCreate, ServiceTypeOK, Ids
  <2>. QED BY <1>3, <2>1, <2>4, <2>5 DEF BeginCreate, ServiceTypeOK
<1>4. ASSUME NEW id \in Ids, NEW patch \in Patch, BeginUpdate(h, i, id, patch)
      PROVE  TableTypeOK' /\ ServiceTypeOK'
  <2>1. TableTypeOK'
    BY <1>4, BeginWriteTyped DEF BeginUpdate, TableTypeOK
  <2>2. rows[id] \in Row
    BY <1>4 DEF BeginUpdate, Present, TableTypeOK
  <2>3. Patched(rows[id], patch) \in Row
    BY <2>2, RowsTyped
  <2>4. Begin(h, "store", i, id, Patched(rows[id], patch))
    BY <1>4 DEF BeginUpdate
  <2>5. /\ req' \in [Handlers -> Request \cup {Idle}]
        /\ \A k \in Handlers : req'[k].at \in {"fill", "insert", "store"} => req'[k].row \in Row
    BY <2>3, <2>4, BeginTyped
  <2>. QED BY <1>4, <2>1, <2>5 DEF BeginUpdate, ServiceTypeOK
<1>. QED BY <1>1, <1>2, <1>3, <1>4 DEF Arrive

LEMMA ProceedTyped ==
  ASSUME TableTypeOK, ServiceTypeOK, NEW h \in Handlers, Proceed(h)
  PROVE  TableTypeOK' /\ ServiceTypeOK'
<1>1. req[h].at # "idle" /\ req[h] \in Request /\ req[h].id \in Ids
  BY BusyTyped DEF Proceed, GetRow, Fill, InsertTask, StoreTask, Invalidate
<1>. DEFINE ReqTyped ==
       /\ req' \in [Handlers -> Request \cup {Idle}]
       /\ \A k \in Handlers : req'[k].at \in {"fill", "insert", "store"} => req'[k].row \in Row
<1>2. End(h) => ReqTyped
  BY EndTyped
<1>3. CASE GetRow(h)
  <2>1. CASE Present(req[h].id) /\ Continue(h, "fill", rows[req[h].id])
    <3>1. rows[req[h].id] \in Row
      BY <1>1, <2>1 DEF Present, TableTypeOK
    <3>2. ReqTyped
      BY <1>1, <2>1, <3>1, ContinueTyped
    <3>. QED BY <1>3, <3>2 DEF GetRow, TableTypeOK, ServiceTypeOK, tableVars
  <2>2. CASE End(h)
    BY <1>2, <1>3, <2>2 DEF GetRow, TableTypeOK, ServiceTypeOK, tableVars
  <2>. QED BY <1>3, <2>1, <2>2 DEF GetRow
<1>4. CASE Fill(h)
  <2>1. req[h].row \in Row
    BY <1>4 DEF Fill, ServiceTypeOK
  <2>2. cache' \in [Ids -> Entry \cup {NoEntry}] /\ raced' \subseteq Ids
    <3>1. \A ttl : [row |-> req[h].row, expires |-> ttl > 0] \in Entry
      <4>1. \A ttl : (ttl > 0) \in BOOLEAN
        OBVIOUS
      <4>. QED BY <2>1, <4>1, Zenon DEF Entry
    <3>2. CASE \E ttl \in EffectiveTtls :
                 cache' = [cache EXCEPT ![req[h].id] = [row |-> req[h].row, expires |-> ttl > 0]]
      <4>1. PICK ttl : cache' = [cache EXCEPT ![req[h].id] = [row |-> req[h].row, expires |-> ttl > 0]]
        BY <3>2
      <4>. DEFINE e == [row |-> req[h].row, expires |-> ttl > 0]
      <4>2. e \in Entry /\ cache' = [cache EXCEPT ![req[h].id] = e]
        BY <3>1, <4>1
      <4>. HIDE DEF e
      <4>3. raced' \subseteq Ids
        BY <1>1, <1>4 DEF Fill, ServiceTypeOK
      <4>. QED BY <4>2, <4>3 DEF ServiceTypeOK
    <3>3. CASE UNCHANGED <<cache, raced>>
      BY <3>3 DEF ServiceTypeOK
    <3>. QED BY <1>4, <3>2, <3>3 DEF Fill
  <2>. QED BY <1>2, <1>4, <2>2 DEF Fill, TableTypeOK, ServiceTypeOK, tableVars
<1>5. CASE InsertTask(h)
  <2>1. req[h].row \in Row
    BY <1>5 DEF InsertTask, ServiceTypeOK
  <2>2. TableTypeOK'
    BY <1>1, <1>5, <2>1, PutTyped DEF InsertTask, Insert, TableTypeOK
  <2>. QED BY <1>2, <1>5, <2>2 DEF InsertTask, ServiceTypeOK
<1>6. CASE StoreTask(h)
  <2>1. req[h].row \in Row
    BY <1>6 DEF StoreTask, ServiceTypeOK
  <2>2. TableTypeOK'
    BY <1>1, <1>6, <2>1, PutTyped DEF StoreTask, Overwrite, TableTypeOK
  <2>3. Continue(h, "invalidate", NoRow) => ReqTyped
    BY <1>1, ContinueTyped
  <2>. QED BY <1>2, <1>6, <2>2, <2>3 DEF StoreTask, ServiceTypeOK
<1>7. CASE Invalidate(h)
  <2>1. cache' \in [Ids -> Entry \cup {NoEntry}] /\ raced' \subseteq Ids
    BY <1>1, <1>7, DropTyped DEF Invalidate, ServiceTypeOK
  <2>. QED BY <1>2, <1>7, <2>1 DEF Invalidate, TableTypeOK, ServiceTypeOK, tableVars
<1>. QED BY <1>3, <1>4, <1>5, <1>6, <1>7 DEF Proceed

LEMMA RestartTyped ==
  ASSUME TableTypeOK, ServiceTypeOK, NEW i \in Instances, Restart(i)
  PROVE  TableTypeOK' /\ ServiceTypeOK'
<1>1. counter' \in [Instances -> 0..MaxId]
  BY TableAssumption DEF Restart, ServiceTypeOK
<1>2. /\ req' \in [Handlers -> Request \cup {Idle}]
      /\ \A k \in Handlers : req'[k].at \in {"fill", "insert", "store"} => req'[k].row \in Row
  BY DEF Restart, ServiceTypeOK, Idle
<1>. QED BY <1>1, <1>2 DEF Restart, TableTypeOK, ServiceTypeOK, tableVars

LEMMA ExpireTyped ==
  ASSUME TableTypeOK, ServiceTypeOK, NEW id \in Ids, Expire(id)
  PROVE  TableTypeOK' /\ ServiceTypeOK'
  BY DropTyped DEF Expire, TableTypeOK, ServiceTypeOK, tableVars

-----------------------------------------------------------------------------
(* The GraphQL service. *)

LEMMA GqlCreateTyped ==
  ASSUME TableTypeOK, GraphqlTypeOK, NEW g \in GqlHandlers, NEW title \in Titles,
         GqlCreate(g, title)
  PROVE  TableTypeOK' /\ GraphqlTypeOK' /\ NextGqlId \in Ids
<1>1. NextGqlId \in Ids
  BY DEF GqlCreate
<1>2. NewRow(title) \in Row
  BY RowsTyped
<1>3. GraphqlTypeOK'
  <2>1. BeginMutation(g, "insert", NextGqlId, NewRow(title))
    BY DEF GqlCreate
  <2>. HIDE DEF NextGqlId, NewRow
  <2>. QED BY <1>1, <1>2, <2>1 DEF GraphqlTypeOK, BeginMutation, Mutation
<1>. QED BY <1>1, <1>3, BeginWriteTyped DEF GqlCreate, TableTypeOK

LEMMA GqlUpdateTyped ==
  ASSUME TableTypeOK, GraphqlTypeOK, NEW g \in GqlHandlers, NEW id \in Ids, NEW patch \in Patch,
         GqlUpdate(g, id, patch)
  PROVE  TableTypeOK' /\ GraphqlTypeOK'
<1>1. rows[id] \in Row
  BY DEF GqlUpdate, Present, TableTypeOK
<1>2. Patched(rows[id], patch) \in Row
  BY <1>1, RowsTyped
<1>3. BeginMutation(g, "store", id, Patched(rows[id], patch))
  BY DEF GqlUpdate
<1>4. GraphqlTypeOK'
  BY <1>2, <1>3 DEF GraphqlTypeOK, BeginMutation, Mutation
<1>. QED BY <1>4, BeginWriteTyped DEF GqlUpdate, TableTypeOK

LEMMA GqlProceedTyped ==
  ASSUME TableTypeOK, GraphqlTypeOK, NEW g \in GqlHandlers, GqlProceed(g)
  PROVE  TableTypeOK' /\ GraphqlTypeOK'
<1>1. mutation[g] \in Mutation
  BY DEF GqlProceed, GqlInsert, GqlStore, GqlReread, GraphqlTypeOK, NoMutation
<1>2. mutation[g].id \in Ids /\ mutation[g].row \in Row
  BY <1>1 DEF Mutation
<1>3. GraphqlTypeOK'
  <2>1. ASSUME WillReread(g)
        PROVE  GraphqlTypeOK'
    <3>1. [mutation[g] EXCEPT !.at = "reread"] \in Mutation
      BY <1>1 DEF Mutation
    <3>. QED BY <2>1, <3>1 DEF WillReread, GraphqlTypeOK
  <2>2. ASSUME EndMutation(g)
        PROVE  GraphqlTypeOK'
    BY <2>2 DEF EndMutation, GraphqlTypeOK
  <2>. QED BY <2>1, <2>2 DEF GqlProceed, GqlInsert, GqlStore, GqlReread
<1>4. TableTypeOK'
  BY <1>2, PutTyped DEF GqlProceed, GqlInsert, GqlStore, GqlReread, Insert, Overwrite, TableTypeOK, tableVars
<1>. QED BY <1>3, <1>4

LEMMA GqlDeleteTyped ==
  ASSUME TableTypeOK, GraphqlTypeOK, NEW id \in Ids, GqlDelete(id)
  PROVE  TableTypeOK' /\ GraphqlTypeOK'
  BY BeginWriteTyped DEF GqlDelete, Remove, TableTypeOK, GraphqlTypeOK

-----------------------------------------------------------------------------
LEMMA InitTyped == Init => TypeOK
  BY TableAssumption DEF Init, TypeOK, TableInit, TableTypeOK, ServiceInit, ServiceTypeOK,
                         GraphqlInit, GraphqlTypeOK, Idle

LEMMA StepTyped == TypeOK /\ [Next]_vars => TypeOK'
<1>. SUFFICES ASSUME TypeOK, [Next]_vars
              PROVE  TypeOK'
  OBVIOUS
<1>. TableTypeOK /\ ServiceTypeOK /\ GraphqlTypeOK
  BY DEF TypeOK
<1>1. CASE RestStep
  <2>1. TableTypeOK' /\ ServiceTypeOK'
    BY <1>1, ProceedTyped, ArriveTyped, RestartTyped DEF RestStep
  <2>. QED BY <1>1, <2>1 DEF RestStep, TypeOK, GraphqlTypeOK
<1>2. CASE ExpiryStep
  <2>1. TableTypeOK' /\ ServiceTypeOK'
    BY <1>2, ExpireTyped DEF ExpiryStep
  <2>. QED BY <1>2, <2>1 DEF ExpiryStep, TypeOK, GraphqlTypeOK
<1>3. CASE GraphqlStep
  <2>1. TableTypeOK' /\ GraphqlTypeOK'
    BY <1>3, GqlProceedTyped, GqlCreateTyped, GqlUpdateTyped, GqlDeleteTyped DEF GraphqlStep
  <2>. QED BY <1>3, <2>1 DEF GraphqlStep, TypeOK, ServiceTypeOK, serviceVars
<1>4. CASE UNCHANGED vars
  BY <1>4 DEF TypeOK, TableTypeOK, ServiceTypeOK, GraphqlTypeOK, vars, tableVars, serviceVars
<1>. QED BY <1>1, <1>2, <1>3, <1>4 DEF Next

\* The variables of the services always have their types; above all, what a request
\* is about to write or to cache is a whole row.
THEOREM TypeCorrect == Spec => []TypeOK
  BY InitTyped, StepTyped, PTL DEF Spec

-----------------------------------------------------------------------------
(***************************************************************************)
(* Without failures and GraphQL writes, the overlap of a fill and a write  *)
(* is the only cause of a stale entry.                                     *)
(***************************************************************************)

\* An invalidation stays pending while other handlers, or requests at another
\* point, make their steps.
LEMMA InvalidatingKept ==
  ASSUME NEW h \in Handlers, req[h].at # "invalidate",
         \A k \in Handlers \ {h} : req'[k] = req[k],
         NEW id \in Ids, Invalidating(id)
  PROVE  Invalidating(id)'
  BY DEF Invalidating

LEMMA StaleStep ==
  ASSUME Faults = FALSE, GqlHandlers = {}
  PROVE  TypeOK /\ StaleOnlyByRace /\ [Next]_vars => StaleOnlyByRace'
<1>. SUFFICES ASSUME TypeOK, StaleOnlyByRace, [Next]_vars, NEW id \in Ids
              PROVE  (Coherent(id) \/ Invalidating(id) \/ id \in raced)'
  BY DEF StaleOnlyByRace
<1>. /\ TableTypeOK /\ ServiceTypeOK
     /\ Coherent(id) \/ Invalidating(id) \/ id \in raced
  BY DEF TypeOK, StaleOnlyByRace
<1>1. ASSUME NEW h \in Handlers, NEW i \in Instances, Arrive(h, i)
      PROVE  (Coherent(id) \/ Invalidating(id) \/ id \in raced)'
  <2>. /\ req[h] = Idle
       /\ \A k \in Handlers \ {h} : req'[k] = req[k]
       /\ UNCHANGED <<cache, raced>>
    BY <1>1 DEF Arrive, GetMiss, DeleteTask, BeginCreate, BeginUpdate, Begin, ServiceTypeOK
  <2>1. Invalidating(id) => Invalidating(id)'
    BY InvalidatingKept DEF Idle
  <2>2. CASE UNCHANGED rows
    BY <2>1, <2>2 DEF Coherent
  <2>3. ASSUME NEW d \in Ids, DeleteTask(h, i, d)
        PROVE  (Coherent(id) \/ Invalidating(id) \/ id \in raced)'
    <3>1. Begin(h, "invalidate", i, d, NoRow)
      BY <2>3 DEF DeleteTask
    <3>2. req'[h] = [at |-> "invalidate", inst |-> i, id |-> d, row |-> NoRow]
      BY <3>1, BeginTyped
    <3>3. id = d => Invalidating(id)'
      BY <3>2 DEF Invalidating
    <3>4. id # d => rows'[id] = rows[id]
      BY <2>3 DEF DeleteTask, Remove, TableTypeOK
    <3>. QED BY <2>1, <3>3, <3>4 DEF Coherent
  <2>. QED BY <1>1, <2>2, <2>3 DEF Arrive, GetMiss, BeginCreate, BeginUpdate, tableVars
<1>2. ASSUME NEW h \in Handlers, Proceed(h)
      PROVE  (Coherent(id) \/ Invalidating(id) \/ id \in raced)'
  <2>1. /\ req[h].at # "idle"
        /\ req[h].id \in Ids
    BY <1>2, BusyTyped DEF Proceed, GetRow, Fill, InsertTask, StoreTask, Invalidate
  <2>2. \A k \in Handlers \ {h} : req'[k] = req[k]
    BY <1>2 DEF Proceed, GetRow, Fill, InsertTask, StoreTask, Invalidate, Continue, End,
                ServiceTypeOK
  <2>3. req[h].at # "invalidate" /\ Invalidating(id) => Invalidating(id)'
    BY <2>2, InvalidatingKept
  <2>4. CASE GetRow(h)
    BY <2>3, <2>4 DEF GetRow, Coherent, tableVars
  <2>5. CASE Fill(h)
    <3>1. /\ UNCHANGED rows
          /\ raced' = IF req[h].row = rows[req[h].id]
                      THEN raced \ {req[h].id} ELSE raced \cup {req[h].id}
          /\ req[h].at # "invalidate"
      BY <2>5 DEF Fill, tableVars
    <3>2. PICK ttl \in EffectiveTtls :
            cache' = [cache EXCEPT ![req[h].id] = [row |-> req[h].row, expires |-> ttl > 0]]
      BY <2>5 DEF Fill
    <3>. DEFINE e == [row |-> req[h].row, expires |-> ttl > 0]
    <3>3. e.row = req[h].row /\ cache' = [cache EXCEPT ![req[h].id] = e]
      BY <3>2
    <3>. HIDE DEF e
    <3>4. CASE id = req[h].id
      <4>1. cache'[id].row = req[h].row
        BY <2>1, <3>3, <3>4 DEF ServiceTypeOK
      <4>. QED BY <3>1, <3>4, <4>1 DEF Coherent
    <3>5. CASE id # req[h].id
      <4>1. cache'[id] = cache[id]
        BY <3>3, <3>5 DEF ServiceTypeOK
      <4>. QED BY <2>3, <3>1, <3>5, <4>1 DEF Coherent
    <3>. QED BY <3>4, <3>5
  <2>6. CASE InsertTask(h)
    <3>1. req[h].at # "invalidate" /\ UNCHANGED <<cache, raced>>
      BY <2>6 DEF InsertTask
    <3>2. \/ UNCHANGED rows
          \/ ~Present(req[h].id) /\ rows' = [rows EXCEPT ![req[h].id] = req[h].row]
      BY <2>6 DEF InsertTask, Insert, Put
    <3>3. Coherent(id) => Coherent(id)'
      <4>1. cache[id] # NoEntry => cache[id].row \in Row
        BY DEF ServiceTypeOK, Entry
      <4>. QED BY <3>1, <3>2, <4>1, RowsTyped DEF Coherent, Present, TableTypeOK
    <3>. QED BY <2>3, <3>1, <3>3
  <2>7. CASE StoreTask(h)
    <3>1. req[h].at # "invalidate" /\ UNCHANGED <<cache, raced>>
      BY <2>7 DEF StoreTask
    <3>2. Continue(h, "invalidate", NoRow)
      BY <2>7 DEF StoreTask
    <3>3. id = req[h].id => Invalidating(id)'
      BY <2>1, <3>2, ContinueTyped DEF Invalidating
    <3>4. id # req[h].id => rows'[id] = rows[id]
      BY <2>7 DEF StoreTask, Overwrite, Put, TableTypeOK
    <3>. QED BY <2>3, <3>1, <3>3, <3>4 DEF Coherent
  <2>8. CASE Invalidate(h)
    <3>1. Drop(req[h].id) /\ UNCHANGED rows
      BY <2>8 DEF Invalidate, tableVars
    <3>2. id = req[h].id => cache'[id] = NoEntry
      BY <2>1, <3>1 DEF Drop, ServiceTypeOK
    <3>3. id # req[h].id => cache'[id] = cache[id] /\ (id \in raced => id \in raced')
      BY <3>1 DEF Drop, ServiceTypeOK
    <3>4. id # req[h].id /\ Invalidating(id) => Invalidating(id)'
      BY <2>2 DEF Invalidating
    <3>. QED BY <3>1, <3>2, <3>3, <3>4 DEF Coherent
  <2>. QED BY <1>2, <2>4, <2>5, <2>6, <2>7, <2>8 DEF Proceed
<1>3. CASE RestStep
  BY <1>1, <1>2, <1>3 DEF RestStep, Restart
<1>4. CASE ExpiryStep
  <2>1. PICK d \in Ids : Expire(d)
    BY <1>4 DEF ExpiryStep
  <2>2. UNCHANGED <<rows, req>>
    BY <2>1 DEF Expire, tableVars
  <2>3. id = d => cache'[id] = NoEntry
    BY <2>1 DEF Expire, Drop, ServiceTypeOK
  <2>4. id # d => cache'[id] = cache[id] /\ (id \in raced => id \in raced')
    BY <2>1 DEF Expire, Drop, ServiceTypeOK
  <2>. QED BY <2>2, <2>3, <2>4 DEF Coherent, Invalidating
<1>5. CASE GraphqlStep
  BY <1>5 DEF GraphqlStep
<1>6. CASE UNCHANGED vars
  BY <1>6 DEF vars, tableVars, serviceVars, Coherent, Invalidating
<1>. QED BY <1>3, <1>4, <1>5, <1>6 DEF Next

\* Whatever requests run concurrently on whatever instances: while nothing fails
\* and GraphQL does not write, an entry that is not the row is about to be deleted
\* or was set by a GET that overlapped a write of its row.
THEOREM OnlyRacesLeaveStale ==
  ASSUME Faults = FALSE, GqlHandlers = {}
  PROVE  Spec => []StaleOnlyByRace
<1>1. Init => StaleOnlyByRace
  BY DEF Init, ServiceInit, StaleOnlyByRace, Coherent
<1>. QED BY <1>1, TypeCorrect, StaleStep, PTL DEF Spec

\* With one request at a time no fill can be overtaken: the row it holds is the row.
FillsFresh ==
  /\ raced = {}
  /\ \A h \in Handlers : req[h].at = "fill" => req[h].row = rows[req[h].id]

LEMMA FreshStep ==
  ASSUME Faults = FALSE, GqlHandlers = {}, \A h, k \in Handlers : h = k
  PROVE  TypeOK /\ FillsFresh /\ [Next]_vars => FillsFresh'
<1>. SUFFICES ASSUME TypeOK, FillsFresh, [Next]_vars
              PROVE  FillsFresh'
  OBVIOUS
<1>. TableTypeOK /\ ServiceTypeOK
  BY DEF TypeOK
<1>1. ASSUME NEW h \in Handlers, NEW i \in Instances, Arrive(h, i)
      PROVE  FillsFresh'
  <2>1. UNCHANGED raced
    BY <1>1 DEF Arrive, GetMiss, DeleteTask, BeginCreate, BeginUpdate
  <2>2. \E at \in {"read", "insert", "store", "invalidate"}, id \in Ids :
          \E row : Begin(h, at, i, id, row)
    BY <1>1 DEF Arrive, GetMiss, DeleteTask, BeginCreate, BeginUpdate
  <2>3. req'[h].at # "fill"
    BY <2>2 DEF Begin, ServiceTypeOK
  <2>. QED BY <2>1, <2>3 DEF FillsFresh
<1>2. ASSUME NEW h \in Handlers, Proceed(h)
      PROVE  FillsFresh'
  <2>1. req[h].at # "idle" /\ req[h].id \in Ids
    BY <1>2, BusyTyped DEF Proceed, GetRow, Fill, InsertTask, StoreTask, Invalidate
  <2>2. CASE GetRow(h)
    <3>1. UNCHANGED <<rows, raced>>
      BY <2>2 DEF GetRow, tableVars
    <3>2. CASE End(h)
      BY <3>1, <3>2, EndTyped DEF FillsFresh, Idle
    <3>3. CASE Continue(h, "fill", rows[req[h].id]) /\ Present(req[h].id)
      <4>1. rows[req[h].id] \in Row
        BY <2>1, <3>3 DEF Present, TableTypeOK
      <4>2. req'[h].row = rows[req[h].id] /\ req'[h].id = req[h].id
        BY <2>1, <3>3, <4>1, ContinueTyped
      <4>. QED BY <3>1, <4>2 DEF FillsFresh
    <3>. QED BY <2>2, <3>2, <3>3 DEF GetRow
  <2>3. CASE Fill(h)
    <3>1. raced' = {} /\ End(h)
      BY <2>3 DEF Fill, FillsFresh
    <3>. QED BY <3>1, EndTyped DEF FillsFresh, Idle
  <2>4. CASE InsertTask(h) \/ StoreTask(h) \/ Invalidate(h)
    <3>1. raced' = {}
      BY <2>4 DEF InsertTask, StoreTask, Invalidate, Drop, FillsFresh
    <3>2. End(h) \/ Continue(h, "invalidate", NoRow)
      BY <2>4 DEF InsertTask, StoreTask, Invalidate
    <3>3. req'[h].at # "fill"
      BY <2>1, <3>2, EndTyped, ContinueTyped DEF Idle
    <3>. QED BY <3>1, <3>3 DEF FillsFresh
  <2>. QED BY <1>2, <2>2, <2>3, <2>4 DEF Proceed
<1>3. CASE RestStep
  BY <1>1, <1>2, <1>3 DEF RestStep, Restart
<1>4. CASE ExpiryStep
  BY <1>4 DEF ExpiryStep, Expire, Drop, tableVars, FillsFresh
<1>5. CASE GraphqlStep
  BY <1>5 DEF GraphqlStep
<1>6. CASE UNCHANGED vars
  BY <1>6 DEF vars, tableVars, serviceVars, FillsFresh
<1>. QED BY <1>3, <1>4, <1>5, <1>6 DEF Next

\* Requests that come one at a time, on whatever instances, leave every cached task
\* equal to its row: nothing fails and GraphQL does not write.
THEOREM OneAtATimeCoherent ==
  ASSUME Faults = FALSE, GqlHandlers = {}, \A h, k \in Handlers : h = k
  PROVE  Spec => []QuietCoherent
<1>1. Init => FillsFresh
  BY DEF Init, ServiceInit, FillsFresh, Idle
<1>2. FillsFresh /\ StaleOnlyByRace => QuietCoherent
  BY DEF FillsFresh, StaleOnlyByRace, QuietCoherent, Invalidating, Idle
<1>. QED BY <1>1, <1>2, TypeCorrect, FreshStep, OnlyRacesLeaveStale, PTL DEF Spec

-----------------------------------------------------------------------------
(***************************************************************************)
(* An undisturbed instance draws only free ids.                            *)
(*                                                                         *)
(* The invariant says why: every row, and every request about to insert    *)
(* one, has an id the counter has passed, and no two of them share one.    *)
(***************************************************************************)

Inserting(h) == req[h].at = "insert"

IdsInv(i) ==
  /\ \A h \in Handlers : Inserting(h) => ~Present(req[h].id) /\ req[h].id <= counter[i]
  /\ \A h, k \in Handlers : Inserting(h) /\ Inserting(k) /\ req[h].id = req[k].id => h = k
  /\ \A id \in Ids : Present(id) => id <= counter[i]

\* A step that starts no insert and adds no row keeps the invariant.
LEMMA IdsKept ==
  ASSUME NEW i, IdsInv(i),
         counter' = counter,
         \A id \in Ids : Present(id)' => Present(id),
         \A h \in Handlers : Inserting(h)' => req'[h] = req[h],
         \A h \in Handlers : Inserting(h) => req[h].id \in Ids
  PROVE  IdsInv(i)'
  BY DEF IdsInv, Inserting, Present

LEMMA IdsStep ==
  ASSUME Faults = FALSE, GqlHandlers = {}, NEW i, Instances = {i}
  PROVE  TypeOK /\ IdsInv(i) /\ [Next]_vars => IdsInv(i)'
<1>. SUFFICES ASSUME TypeOK, IdsInv(i), [Next]_vars
              PROVE  IdsInv(i)'
  OBVIOUS
<1>. TableTypeOK /\ ServiceTypeOK
  BY DEF TypeOK
<1>0. /\ \A h \in Handlers : Inserting(h) => req[h].id \in Ids
      /\ \A h \in Handlers : req[h].at = "store" => req[h].id \in Ids
      /\ counter[i] \in 0..MaxId
      /\ i \in Instances
  BY BusyTyped DEF Inserting, ServiceTypeOK
<1>1. ASSUME NEW h \in Handlers, Arrive(h, i)
      PROVE  IdsInv(i)'
  <2>1. ASSUME NEW id \in Ids, GetMiss(h, i, id) \/ DeleteTask(h, i, id)
        PROVE  IdsInv(i)'
    <3>1. \A k \in Handlers : Inserting(k)' => req'[k] = req[k]
      BY <2>1 DEF GetMiss, DeleteTask, Begin, Inserting, ServiceTypeOK
    <3>. QED BY <1>0, <2>1, <3>1, IdsKept
             DEF GetMiss, DeleteTask, Remove, Present, TableTypeOK, tableVars
  <2>2. ASSUME NEW id \in Ids, NEW patch \in Patch, BeginUpdate(h, i, id, patch)
        PROVE  IdsInv(i)'
    <3>1. \A k \in Handlers : Inserting(k)' => req'[k] = req[k]
      BY <2>2 DEF BeginUpdate, Begin, Inserting, ServiceTypeOK
    <3>. QED BY <1>0, <2>2, <3>1, IdsKept DEF BeginUpdate, Present
  <2>3. ASSUME NEW title \in Titles, BeginCreate(h, i, title)
        PROVE  IdsInv(i)'
    <3>1. /\ UNCHANGED rows
          /\ counter' = [counter EXCEPT ![i] = counter[i] + 1]
          /\ counter[i] + 1 \in Ids
          /\ Begin(h, "insert", i, counter[i] + 1, NewRow(title))
      BY <2>3 DEF BeginCreate, NextId
    <3>2. counter'[i] = counter[i] + 1
      BY <1>0, <3>1 DEF ServiceTypeOK
    <3>3. /\ req[h] = Idle
          /\ req'[h].at = "insert" /\ req'[h].id = counter[i] + 1
          /\ \A k \in Handlers \ {h} : req'[k] = req[k]
      <4>1. NewRow(title) \in Row
        BY RowsTyped
      <4>2. req'[h] = [at |-> "insert", inst |-> i, id |-> counter[i] + 1, row |-> NewRow(title)]
        BY <1>0, <3>1, <4>1, BeginTyped
      <4>. QED BY <3>1, <4>2 DEF Begin, ServiceTypeOK
    <3>4. \A id \in Ids : id \in Nat
      BY DEF Ids
    <3>5. \A k \in Handlers \ {h} : Inserting(k) => req[k].id <= counter[i] /\ req[k].id \in Nat
      BY <1>0, <3>4 DEF IdsInv
    <3>6. ~Present(counter[i] + 1)
      BY <1>0, <3>1 DEF IdsInv
    <3>7. \A k \in Handlers : Inserting(k)' => rows'[req'[k].id] = NoRow /\ req'[k].id <= counter'[i]
      BY <1>0, <3>1, <3>2, <3>3, <3>5, <3>6 DEF IdsInv, Inserting, Present
    <3>8. \A k, j \in Handlers :
            Inserting(k)' /\ Inserting(j)' /\ req'[k].id = req'[j].id => k = j
      BY <1>0, <3>3, <3>5 DEF IdsInv, Inserting
    <3>9. \A id \in Ids : Present(id)' => id <= counter'[i]
      BY <1>0, <3>1, <3>2, <3>4 DEF IdsInv, Present
    <3>. QED BY <3>7, <3>8, <3>9 DEF IdsInv, Inserting, Present
  <2>. QED BY <1>1, <2>1, <2>2, <2>3 DEF Arrive
<1>2. ASSUME NEW h \in Handlers, Proceed(h)
      PROVE  IdsInv(i)'
  <2>1. \A k \in Handlers : Inserting(k)' => req'[k] = req[k]
    <3>1. req[h].at # "idle"
      BY <1>2 DEF Proceed, GetRow, Fill, InsertTask, StoreTask, Invalidate
    <3>2. \/ End(h)
          \/ \E row \in Row \cup {NoRow} : Continue(h, "invalidate", row)
          \/ \E row \in Row : Continue(h, "fill", row)
      BY <1>2, BusyTyped DEF Proceed, GetRow, Fill, InsertTask, StoreTask, Invalidate,
                             Present, TableTypeOK
    <3>. QED BY <3>1, <3>2, EndTyped, ContinueTyped DEF Inserting
  <2>2. CASE GetRow(h) \/ Fill(h) \/ Invalidate(h)
    BY <1>0, <2>1, <2>2, IdsKept DEF GetRow, Fill, Invalidate, Present, tableVars
  <2>3. CASE StoreTask(h)
    <3>1. \A id \in Ids : Present(id)' => Present(id)
      BY <1>0, <2>3 DEF StoreTask, Overwrite, Put, Present, TableTypeOK
    <3>. QED BY <1>0, <2>1, <2>3, <3>1, IdsKept DEF StoreTask
  <2>4. CASE InsertTask(h)
    <3>1. /\ Inserting(h) /\ req'[h] = Idle
          /\ counter' = counter
          /\ \A k \in Handlers \ {h} : req'[k] = req[k]
      BY <2>4, EndTyped DEF InsertTask, Inserting
    <3>2. Insert(req[h].id, req[h].row)
      BY <2>4, <3>1 DEF InsertTask, IdsInv
    <3>3. rows' = [rows EXCEPT ![req[h].id] = req[h].row]
      BY <3>2 DEF Insert, Put
    <3>4. ~Inserting(h)'
      BY <3>1 DEF Inserting, Idle
    <3>5. \A k \in Handlers : Inserting(k)' => req[k].id # req[h].id
      BY <2>1, <3>1, <3>4 DEF IdsInv, Inserting
    <3>6. \A id \in Ids : id # req[h].id => rows'[id] = rows[id]
      BY <3>3 DEF TableTypeOK
    <3>7. \A k \in Handlers : Inserting(k)' => rows'[req'[k].id] = NoRow /\ req'[k].id <= counter'[i]
      BY <1>0, <2>1, <3>1, <3>5, <3>6 DEF IdsInv, Inserting, Present
    <3>8. \A id \in Ids : Present(id)' => id <= counter'[i]
      BY <3>1, <3>6 DEF IdsInv, Present
    <3>. QED BY <2>1, <3>7, <3>8 DEF IdsInv, Inserting, Present
  <2>. QED BY <1>2, <2>2, <2>3, <2>4 DEF Proceed
<1>3. CASE RestStep
  BY <1>1, <1>2, <1>3 DEF RestStep, Restart
<1>4. CASE ExpiryStep
  BY <1>0, <1>4, IdsKept DEF ExpiryStep, Expire, tableVars, Present, Inserting
<1>5. CASE GraphqlStep
  BY <1>5 DEF GraphqlStep
<1>6. CASE UNCHANGED vars
  BY <1>0, <1>6, IdsKept DEF vars, tableVars, serviceVars, Present, Inserting
<1>. QED BY <1>3, <1>4, <1>5, <1>6 DEF Next

\* One instance that is never restarted, and nobody else who writes: however many
\* creates run at once, none draws an id that is taken.
THEOREM CreatesNeverRefused ==
  ASSUME Faults = FALSE, GqlHandlers = {}, NEW i, Instances = {i}
  PROVE  Spec => []CreateNeverRefused
<1>1. Init => IdsInv(i)
  BY DEF Init, TableInit, ServiceInit, IdsInv, Inserting, Present, Idle
<1>2. IdsInv(i) => CreateNeverRefused
  BY DEF IdsInv, CreateNeverRefused, Inserting
<1>. QED BY <1>1, <1>2, TypeCorrect, IdsStep, PTL DEF Spec

-----------------------------------------------------------------------------
(***************************************************************************)
(* The services implement StaleTable, whatever fails.                      *)
(*                                                                         *)
(* The mapping needs to know where rows come from: what is cached, or held *)
(* by a GET that is about to cache it, was in the table; what a create is  *)
(* about to insert is not done.                                            *)
(***************************************************************************)

RowsInv ==
  /\ \A id \in Ids : Present(id) => rows[id] \in past[id]
  /\ \A id \in Ids : cache[id] # NoEntry => cache[id].row \in past[id]
  /\ \A h \in Handlers : req[h].at = "fill" => req[h].row \in past[req[h].id]
  /\ \A h \in Handlers : req[h].at = "insert" => ~req[h].row.done
  /\ \A g \in GqlHandlers : mutation[g].at = "insert" => ~mutation[g].row.done

StaleView == [id \in Ids |-> IF cache[id] = NoEntry THEN NoEntry ELSE cache[id].row]

\* A table step adds to what ids have had, and moves no other variable of the mapping.
LEMMA PastGrows ==
  ASSUME TypeOK, [Next]_vars
  PROVE  \A id \in Ids : past[id] \subseteq past'[id]
<1>. TableTypeOK /\ ServiceTypeOK /\ GraphqlTypeOK
  BY DEF TypeOK
<1>1. \A id \in Ids : \A row : Put(id, row) => \A d \in Ids : past[d] \subseteq past'[d]
  BY DEF Put, TableTypeOK
<1>2. ASSUME NEW h \in Handlers, Proceed(h)
      PROVE  \A id \in Ids : past[id] \subseteq past'[id]
  <2>1. req[h].id \in Ids
    BY <1>2, BusyTyped DEF Proceed, GetRow, Fill, InsertTask, StoreTask, Invalidate
  <2>2. UNCHANGED past \/ Put(req[h].id, req[h].row)
    BY <1>2 DEF Proceed, GetRow, Fill, InsertTask, StoreTask, Invalidate, Insert, Overwrite,
                tableVars
  <2>. QED BY <1>1, <2>1, <2>2
<1>3. ASSUME NEW h \in Handlers, NEW i \in Instances, Arrive(h, i)
      PROVE  UNCHANGED past
  BY <1>3 DEF Arrive, GetMiss, DeleteTask, Remove, BeginCreate, BeginUpdate, tableVars
<1>4. CASE RestStep \/ ExpiryStep
  BY <1>2, <1>3, <1>4 DEF RestStep, Restart, ExpiryStep, Expire, tableVars
<1>5. CASE GraphqlStep
  <2>1. ASSUME NEW g \in GqlHandlers, GqlProceed(g)
        PROVE  \A id \in Ids : past[id] \subseteq past'[id]
    <3>1. mutation[g].id \in Ids
      BY <2>1 DEF GqlProceed, GqlInsert, GqlStore, GqlReread, GraphqlTypeOK, Mutation, NoMutation
    <3>2. UNCHANGED past \/ Put(mutation[g].id, mutation[g].row)
      BY <2>1 DEF GqlProceed, GqlInsert, GqlStore, GqlReread, Insert, Overwrite, tableVars
    <3>. QED BY <1>1, <3>1, <3>2
  <2>. QED BY <1>5, <2>1 DEF GraphqlStep, GqlCreate, GqlUpdate, GqlDelete, Remove
<1>6. CASE UNCHANGED vars
  BY <1>6 DEF vars, tableVars
<1>. QED BY <1>4, <1>5, <1>6 DEF Next

LEMMA PutFacts ==
  ASSUME TableTypeOK, NEW id \in Ids, NEW row, Put(id, row)
  PROVE  \A d \in Ids : /\ rows'[d] = IF d = id THEN row ELSE rows[d]
                        /\ past'[d] = IF d = id THEN past[d] \cup {row} ELSE past[d]
  BY DEF Put, TableTypeOK

\* What any one step does to the rows, one disjunct per kind of step.
RowsStep ==
  \/ UNCHANGED <<rows, past>>
  \/ \E id \in Ids : Remove(id)
  \/ \E id \in Ids, row \in Row : Present(id) /\ Put(id, row)
  \/ \E id \in Ids, row \in Row : ~Present(id) /\ ~row.done /\ Put(id, row)

LEMMA RowsStepHolds ==
  ASSUME TypeOK, RowsInv, [Next]_vars
  PROVE  /\ RowsStep
         /\ UNCHANGED <<rows, past>> \/ UNCHANGED cache
<1>. TableTypeOK /\ ServiceTypeOK /\ GraphqlTypeOK
  BY DEF TypeOK
<1>1. ASSUME NEW h \in Handlers, Proceed(h)
      PROVE  RowsStep /\ (UNCHANGED <<rows, past>> \/ UNCHANGED cache)
  <2>1. CASE GetRow(h) \/ Fill(h) \/ Invalidate(h)
    BY <2>1 DEF GetRow, Fill, Invalidate, tableVars, RowsStep
  <2>2. CASE InsertTask(h) \/ StoreTask(h)
    <3>1. req[h].id \in Ids /\ req[h].row \in Row
      BY <2>2, BusyTyped DEF InsertTask, StoreTask, ServiceTypeOK
    <3>2. req[h].at = "insert" => ~req[h].row.done
      BY DEF RowsInv
    <3>. QED BY <2>2, <3>1, <3>2 DEF InsertTask, StoreTask, Insert, Overwrite, RowsStep
  <2>. QED BY <1>1, <2>1, <2>2 DEF Proceed
<1>2. ASSUME NEW h \in Handlers, NEW i \in Instances, Arrive(h, i)
      PROVE  RowsStep /\ UNCHANGED cache
  <2>1. ASSUME NEW id \in Ids, DeleteTask(h, i, id)
        PROVE  RowsStep /\ UNCHANGED cache
    BY <2>1 DEF DeleteTask, RowsStep
  <2>. QED BY <1>2, <2>1 DEF Arrive, GetMiss, BeginCreate, BeginUpdate, tableVars, RowsStep
<1>3. CASE RestStep \/ ExpiryStep
  BY <1>1, <1>2, <1>3 DEF RestStep, Restart, ExpiryStep, Expire, tableVars, RowsStep
<1>4. CASE GraphqlStep
  <2>1. UNCHANGED cache
    BY <1>4 DEF GraphqlStep, serviceVars
  <2>2. ASSUME NEW g \in GqlHandlers, GqlProceed(g)
        PROVE  RowsStep
    <3>1. mutation[g].id \in Ids /\ mutation[g].row \in Row
      BY <2>2 DEF GqlProceed, GqlInsert, GqlStore, GqlReread, GraphqlTypeOK, Mutation, NoMutation
    <3>2. mutation[g].at = "insert" => ~mutation[g].row.done
      BY DEF RowsInv
    <3>. QED BY <2>2, <3>1, <3>2 DEF GqlProceed, GqlInsert, GqlStore, GqlReread, Insert, Overwrite, RowsStep, tableVars
  <2>3. ASSUME NEW id \in Ids, GqlDelete(id)
        PROVE  RowsStep
    BY <2>3 DEF GqlDelete, RowsStep
  <2>. QED BY <1>4, <2>1, <2>2, <2>3 DEF GraphqlStep, GqlCreate, GqlUpdate, RowsStep
<1>5. CASE UNCHANGED vars
  BY <1>5 DEF vars, tableVars, serviceVars, RowsStep
<1>. QED BY <1>3, <1>4, <1>5 DEF Next

\* What any one step does to the cache: an entry is set by a fill, or goes.
LEMMA CacheStepHolds ==
  ASSUME TypeOK, RowsInv, [Next]_vars
  PROVE  \/ UNCHANGED cache
         \/ \E id \in Ids, e \in Entry \cup {NoEntry} :
              /\ cache' = [cache EXCEPT ![id] = e]
              /\ e = NoEntry \/ e.row \in past[id]
<1>. TableTypeOK /\ ServiceTypeOK
  BY DEF TypeOK
<1>. DEFINE Goal == \/ UNCHANGED cache
                    \/ \E id \in Ids, e \in Entry \cup {NoEntry} :
                         /\ cache' = [cache EXCEPT ![id] = e]
                         /\ e = NoEntry \/ e.row \in past[id]
<1>1. ASSUME NEW id \in Ids, Drop(id)
      PROVE  Goal
  BY <1>1 DEF Drop
<1>2. ASSUME NEW h \in Handlers, Proceed(h)
      PROVE  Goal
  <2>1. req[h].id \in Ids
    BY <1>2, BusyTyped DEF Proceed, GetRow, Fill, InsertTask, StoreTask, Invalidate
  <2>2. CASE Fill(h) /\ cache' # cache
    <3>1. PICK ttl \in EffectiveTtls :
            cache' = [cache EXCEPT ![req[h].id] = [row |-> req[h].row, expires |-> ttl > 0]]
      BY <2>2 DEF Fill
    <3>2. req[h].row \in Row /\ req[h].row \in past[req[h].id]
      BY <2>2 DEF Fill, ServiceTypeOK, RowsInv
    <3>. DEFINE e == [row |-> req[h].row, expires |-> ttl > 0]
    <3>3. e \in Entry
      <4>1. (ttl > 0) \in BOOLEAN
        OBVIOUS
      <4>. QED BY <3>2, <4>1, Zenon DEF Entry
    <3>4. e.row \in past[req[h].id] /\ cache' = [cache EXCEPT ![req[h].id] = e]
      BY <3>1, <3>2
    <3>. HIDE DEF e
    <3>. QED BY <2>1, <3>3, <3>4
  <2>3. CASE Invalidate(h)
    BY <1>1, <2>1, <2>3 DEF Invalidate
  <2>. QED BY <1>2, <2>2, <2>3 DEF Proceed, GetRow, InsertTask, StoreTask
<1>3. ASSUME NEW h \in Handlers, NEW i \in Instances, Arrive(h, i)
      PROVE  Goal
  BY <1>3 DEF Arrive, GetMiss, DeleteTask, BeginCreate, BeginUpdate
<1>4. CASE RestStep \/ ExpiryStep
  BY <1>1, <1>2, <1>3, <1>4 DEF RestStep, Restart, ExpiryStep, Expire
<1>5. CASE GraphqlStep \/ UNCHANGED vars
  BY <1>5 DEF GraphqlStep, serviceVars, vars
<1>. QED BY <1>4, <1>5 DEF Next

\* What any one step does to a request: it leaves it alone, or what the request is
\* about to cache is the row, or what it is about to insert is not done.
ReqStep(h) ==
  \/ req'[h] = req[h]
  \/ req'[h].at \notin {"fill", "insert"}
  \/ /\ req'[h].at = "fill"
     /\ req'[h].id \in Ids
     /\ Present(req'[h].id)
     /\ req'[h].row = rows[req'[h].id]
  \/ /\ req'[h].at = "insert"
     /\ ~req'[h].row.done

LEMMA ReqStepHolds ==
  ASSUME TypeOK, [Next]_vars, NEW k \in Handlers
  PROVE  ReqStep(k)
<1>. TableTypeOK /\ ServiceTypeOK
  BY DEF TypeOK
<1>1. ASSUME NEW h \in Handlers, Proceed(h)
      PROVE  ReqStep(k)
  <2>1. req[h].at # "idle" /\ req[h].id \in Ids
    BY <1>1, BusyTyped DEF Proceed, GetRow, Fill, InsertTask, StoreTask, Invalidate
  <2>2. CASE End(h)
    BY <2>2, EndTyped DEF ReqStep
  <2>3. CASE Continue(h, "invalidate", NoRow)
    BY <2>1, <2>3, ContinueTyped DEF ReqStep
  <2>4. CASE Present(req[h].id) /\ Continue(h, "fill", rows[req[h].id])
    <3>1. rows[req[h].id] \in Row
      BY <2>1, <2>4 DEF Present, TableTypeOK
    <3>. QED BY <2>1, <2>4, <3>1, ContinueTyped DEF ReqStep
  <2>. QED BY <1>1, <2>2, <2>3, <2>4 DEF Proceed, GetRow, Fill, InsertTask, StoreTask, Invalidate
<1>2. ASSUME NEW h \in Handlers, NEW i \in Instances, Arrive(h, i)
      PROVE  ReqStep(k)
  <2>1. ASSUME NEW at, NEW id, NEW row, Begin(h, at, i, id, row),
               at \in {"read", "invalidate", "store"} \/ (at = "insert" /\ ~row.done)
        PROVE  ReqStep(k)
    <3>1. k # h => req'[k] = req[k]
      BY <2>1 DEF Begin, ServiceTypeOK
    <3>2. k = h => req'[k].at = at /\ req'[k].row = row
      BY <2>1 DEF Begin, ServiceTypeOK
    <3>. QED BY <2>1, <3>1, <3>2 DEF ReqStep
  <2>2. \A title \in Titles : ~NewRow(title).done
    BY DEF NewRow
  <2>3. ASSUME NEW id \in Ids, GetMiss(h, i, id) \/ DeleteTask(h, i, id)
        PROVE  ReqStep(k)
    BY <2>1, <2>3 DEF GetMiss, DeleteTask, ReqStep
  <2>4. ASSUME NEW id \in Ids, NEW patch \in Patch, BeginUpdate(h, i, id, patch)
        PROVE  ReqStep(k)
    BY <2>1, <2>4 DEF BeginUpdate, ReqStep
  <2>5. ASSUME NEW title \in Titles, BeginCreate(h, i, title)
        PROVE  ReqStep(k)
    BY <2>1, <2>2, <2>5 DEF BeginCreate, ReqStep
  <2>. QED BY <1>2, <2>3, <2>4, <2>5 DEF Arrive
<1>3. ASSUME NEW i \in Instances, Restart(i)
      PROVE  ReqStep(k)
  BY <1>3 DEF Restart, ReqStep, Idle
<1>4. CASE RestStep
  BY <1>1, <1>2, <1>3, <1>4 DEF RestStep
<1>5. CASE ExpiryStep \/ GraphqlStep \/ UNCHANGED vars
  BY <1>5 DEF ExpiryStep, Expire, GraphqlStep, serviceVars, vars, ReqStep
<1>. QED BY <1>4, <1>5 DEF Next

LEMMA MutationStepHolds ==
  ASSUME TypeOK, [Next]_vars, NEW k \in GqlHandlers
  PROVE  mutation'[k] = mutation[k] \/ mutation'[k].at # "insert" \/ ~mutation'[k].row.done
<1>. DEFINE Goal == mutation'[k] = mutation[k] \/ mutation'[k].at # "insert" \/ ~mutation'[k].row.done
<1>. GraphqlTypeOK
  BY DEF TypeOK
<1>1. ASSUME NEW g \in GqlHandlers, NEW at, NEW id, NEW row, BeginMutation(g, at, id, row),
             at # "insert" \/ ~row.done
      PROVE  Goal
  BY <1>1 DEF BeginMutation, GraphqlTypeOK
<1>2. ASSUME NEW g \in GqlHandlers, EndMutation(g)
      PROVE  Goal
  BY <1>2 DEF EndMutation, NoMutation, GraphqlTypeOK
<1>3. \A title \in Titles : ~NewRow(title).done
  BY DEF NewRow
<1>6. ASSUME NEW g \in GqlHandlers, WillReread(g), mutation[g].at # "idle"
      PROVE  Goal
  BY <1>6 DEF WillReread, Mutation, NoMutation, GraphqlTypeOK
<1>4. CASE GraphqlStep
  BY <1>1, <1>2, <1>3, <1>4, <1>6
     DEF GraphqlStep, GqlProceed, GqlInsert, GqlStore, GqlReread, GqlCreate, GqlUpdate, GqlDelete
<1>5. CASE RestStep \/ ExpiryStep \/ UNCHANGED vars
  BY <1>5 DEF RestStep, ExpiryStep, vars
<1>. QED BY <1>4, <1>5 DEF Next

LEMMA RowsInvStep ==
  ASSUME TypeOK, RowsInv, [Next]_vars
  PROVE  RowsInv'
<1>. TableTypeOK /\ ServiceTypeOK
  BY DEF TypeOK
<1>1. \A id \in Ids : past[id] \subseteq past'[id]
  BY PastGrows
<1>2. \A id \in Ids : Present(id)' => rows'[id] \in past'[id]
  <2>1. RowsStep
    BY RowsStepHolds
  <2>2. ASSUME NEW d \in Ids, NEW row, Put(d, row)
        PROVE  \A id \in Ids : Present(id)' => rows'[id] \in past'[id]
    BY <2>2, PutFacts DEF RowsInv, Present
  <2>3. ASSUME NEW d \in Ids, Remove(d)
        PROVE  \A id \in Ids : Present(id)' => rows'[id] \in past'[id]
    BY <2>3 DEF Remove, RowsInv, Present, TableTypeOK
  <2>. QED BY <2>1, <2>2, <2>3 DEF RowsStep, RowsInv, Present
<1>3. \A id \in Ids : cache'[id] # NoEntry => cache'[id].row \in past'[id]
  <2>1. CASE UNCHANGED cache
    BY <1>1, <2>1 DEF RowsInv
  <2>2. ASSUME NEW d \in Ids, NEW e \in Entry \cup {NoEntry},
               cache' = [cache EXCEPT ![d] = e], e = NoEntry \/ e.row \in past[d]
        PROVE  \A id \in Ids : cache'[id] # NoEntry => cache'[id].row \in past'[id]
    BY <1>1, <2>2 DEF RowsInv, ServiceTypeOK
  <2>. QED BY <2>1, <2>2, CacheStepHolds
<1>4. ASSUME NEW h \in Handlers
      PROVE  /\ req'[h].at = "fill" => req'[h].row \in past'[req'[h].id]
             /\ req'[h].at = "insert" => ~req'[h].row.done
  <2>1. ReqStep(h)
    BY ReqStepHolds
  <2>2. req[h].at = "fill" => req[h].id \in Ids
    BY BusyTyped
  <2>. QED BY <1>1, <2>1, <2>2 DEF ReqStep, RowsInv, Present
<1>5. ASSUME NEW g \in GqlHandlers
      PROVE  mutation'[g].at = "insert" => ~mutation'[g].row.done
  BY MutationStepHolds DEF RowsInv
<1>. QED BY <1>2, <1>3, <1>4, <1>5 DEF RowsInv, Present

\* Every step of the services is a step of StaleTable, or leaves its variables alone.
LEMMA StepRefines ==
  ASSUME TypeOK, RowsInv, [Next]_vars
  PROVE  [Stale!StaleNext]_(Stale!staleVars)
<1>. TableTypeOK /\ ServiceTypeOK
  BY DEF TypeOK
<1>1. CASE UNCHANGED <<rows, past>>
  <2>1. CASE UNCHANGED cache
    BY <1>1, <2>1 DEF Stale!staleVars
  <2>2. ASSUME NEW d \in Ids, NEW e \in Entry \cup {NoEntry},
               cache' = [cache EXCEPT ![d] = e], e = NoEntry \/ e.row \in past[d]
        PROVE  Stale!Show(d)
    <3>. DEFINE shown == IF e = NoEntry THEN NoEntry ELSE e.row
    <3>1. shown \in past[d] \cup {NoEntry}
      BY <2>2
    <3>2. StaleView' = [StaleView EXCEPT ![d] = shown]
      BY <2>2 DEF StaleView, ServiceTypeOK
    <3>. HIDE DEF shown
    <3>. QED BY <1>1, <3>1, <3>2 DEF Stale!Show, StaleView
  <2>. QED BY <2>1, <2>2, CacheStepHolds DEF Stale!StaleNext
<1>2. CASE UNCHANGED cache
  <2>1. RowsStep
    BY RowsStepHolds
  <2>2. ASSUME NEW id \in Ids, Remove(id)
        PROVE  Stale!Delete(id)
    BY <1>2, <2>2 DEF Remove, Stale!Delete
  <2>3. ASSUME NEW id \in Ids, NEW row \in Row, Present(id), Put(id, row)
        PROVE  Stale!Change(id, row)
    BY <1>2, <2>3 DEF Put, Present, Stale!Change, Stale!Has
  <2>4. ASSUME NEW id \in Ids, NEW row \in Row, ~Present(id), ~row.done, Put(id, row)
        PROVE  Stale!Add(id, row)
    BY <1>2, <2>4 DEF Put, Present, Stale!Add, Stale!Has
  <2>5. CASE UNCHANGED <<rows, past>>
    BY <1>2, <2>5 DEF Stale!staleVars
  <2>. QED BY <2>1, <2>2, <2>3, <2>4, <2>5 DEF RowsStep, Stale!StaleNext
<1>. QED BY <1>1, <1>2, RowsStepHolds

\* Whatever the interleaving, the failures and the restarts, and with GraphQL
\* writes: only a new task that is not done takes an id, an update never brings a
\* deleted task back, and the cache never holds a row its id has not had.
THEOREM ServicesRefineStaleTable == Spec => StaleTableRefined
<1>1. Init => RowsInv /\ Stale!StaleInit
  BY DEF Init, TableInit, ServiceInit, GraphqlInit, RowsInv, Present, Idle, NoMutation,
         Stale!StaleInit
<1>. QED BY <1>1, TypeCorrect, RowsInvStep, StepRefines, PTL
         DEF Spec, StaleTableRefined, Stale!StaleSpec
=============================================================================
