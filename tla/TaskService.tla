---------------------------- MODULE TaskService ----------------------------
(***************************************************************************)
(* The REST tasks service: instances behind a load balancer, each serving  *)
(* requests concurrently, over the tasks table and one Redis cache-aside   *)
(* cache.  A request is a sequence of statements and cache commands; a     *)
(* handler is between two of them in every state but "idle".               *)
(***************************************************************************)
EXTENDS TaskTable

CONSTANTS
  Instances,  \* processes of the service
  Handlers,   \* bound on the requests in progress at once
  Faults,     \* may Redis, Postgres, the client or the process fail a request?
  Ttl,        \* CACHE_TTL_SECONDS
  Jitter,     \* CACHE_TTL_JITTER_SECONDS
  NoEntry     \* the cache has no entry for this id

ASSUME ServiceAssumption ==
  /\ Faults \in BOOLEAN
  /\ Ttl \in Int /\ Jitter \in Int

VARIABLES
  cache,    \* cache[id]: the entry under key tasks:task:<id>
  counter,  \* counter[i]: the id counter of instance i
  req,      \* req[h]: the request handler h is serving
  raced     \* history: ids whose entry was no longer the row when it was set

serviceVars == <<cache, counter, req, raced>>

Entry == [row: Row, expires: BOOLEAN]

Idle == [at |-> "idle"]
Request == [at: {"read", "fill", "insert", "store", "invalidate"},
            inst: Instances, id: Ids, row: Row \cup {NoRow}]

ServiceTypeOK ==
  /\ cache \in [Ids -> Entry \cup {NoEntry}]
  /\ counter \in [Instances -> 0..MaxId]
  /\ req \in [Handlers -> Request \cup {Idle}]
  /\ raced \subseteq Ids
  /\ \A h \in Handlers : req[h].at \in {"fill", "insert", "store"} => req[h].row \in Row

ServiceInit ==
  /\ cache = [id \in Ids |-> NoEntry]
  /\ counter = [i \in Instances |-> 0]
  /\ req = [h \in Handlers |-> Idle]
  /\ raced = {}

\* Mutant: the jitter may also shorten the time to live, down to nothing.
EffectiveTtlsBothWays == {Ttl + j : j \in (-Jitter)..Jitter}

\* effectiveTTL: the jitter is drawn from 0..Jitter.
EffectiveTtls == IF Jitter <= 0 THEN {Ttl} ELSE {Ttl + j : j \in 0..Jitter}

-----------------------------------------------------------------------------
(* The progress of a request. *)

Begin(h, at, i, id, row) ==
  /\ req[h] = Idle
  /\ req' = [req EXCEPT ![h] = [at |-> at, inst |-> i, id |-> id, row |-> row]]

Continue(h, at, row) == req' = [req EXCEPT ![h].at = at, ![h].row = row]

End(h) == req' = [req EXCEPT ![h] = Idle]

-----------------------------------------------------------------------------
(* GET /v1/tasks/{id}.  A cache hit changes nothing and is not a step. *)

GetMiss(h, i, id) ==
  /\ cache[id] = NoEntry \/ Faults
  /\ Begin(h, "read", i, id, NoRow)
  /\ UNCHANGED <<tableVars, cache, counter, raced>>

GetRow(h) ==
  /\ req[h].at = "read"
  /\ LET id == req[h].id
     IN \/ Present(id) /\ Continue(h, "fill", rows[id])
        \/ ~Present(id) /\ End(h)
        \/ Faults /\ End(h)
  /\ UNCHANGED <<tableVars, cache, counter, raced>>

\* cacheSetTask; go-redis sends a SET without expiry unless the ttl is positive.
Fill(h) ==
  /\ req[h].at = "fill"
  /\ LET id == req[h].id
     IN \/ /\ \E ttl \in EffectiveTtls :
                cache' = [cache EXCEPT ![id] = [row |-> req[h].row, expires |-> ttl > 0]]
           /\ raced' = IF req[h].row = rows[id] THEN raced \ {id} ELSE raced \cup {id}
        \/ Faults /\ UNCHANGED <<cache, raced>>
  /\ End(h)
  /\ UNCHANGED <<tableVars, counter>>

Drop(id) ==
  /\ cache' = [cache EXCEPT ![id] = NoEntry]
  /\ raced' = raced \ {id}

\* Redis expires an entry.
Expire(id) ==
  /\ cache[id] # NoEntry
  /\ cache[id].expires
  /\ Drop(id)
  /\ UNCHANGED <<tableVars, counter, req>>

-----------------------------------------------------------------------------
(* POST /v1/tasks. *)

\* Mutant: the next id is one more than the number of rows.
NextIdByCount(i) == Count + 1

\* atomic.AddUint64(&s.counter, 1)
NextId(i) == counter[i] + 1

BeginCreate(h, i, title) ==
  /\ BeginWrite
  /\ NextId(i) \in Ids
  /\ counter' = [counter EXCEPT ![i] = NextId(i)]
  /\ Begin(h, "insert", i, NextId(i), NewRow(title))
  /\ UNCHANGED <<rows, past, cache, raced>>

\* 201, or 500 when the id is taken or the statement fails.
InsertTask(h) ==
  /\ req[h].at = "insert"
  /\ \/ Insert(req[h].id, req[h].row)
     \/ Present(req[h].id) /\ UNCHANGED <<rows, past>>
     \/ Faults /\ UNCHANGED <<rows, past>>
  /\ End(h)
  /\ UNCHANGED <<writes, cache, counter, raced>>

-----------------------------------------------------------------------------
(* PATCH /v1/tasks/{id}: read the row, write the whole row, invalidate. *)

\* Mutant: the row is taken from the cache when it is there.
BeginUpdateCached(h, i, id, patch) ==
  /\ BeginWrite
  /\ Present(id)
  /\ LET base == IF cache[id] = NoEntry THEN rows[id] ELSE cache[id].row
     IN Begin(h, "store", i, id, Patched(base, patch))
  /\ UNCHANGED <<rows, past, cache, counter, raced>>

BeginUpdate(h, i, id, patch) ==
  /\ BeginWrite
  /\ Present(id)
  /\ Begin(h, "store", i, id, Patched(rows[id], patch))
  /\ UNCHANGED <<rows, past, cache, counter, raced>>

\* Mutant: the cache is written through instead of invalidated.
StoreTaskWriteThrough(h) ==
  /\ req[h].at = "store"
  /\ Overwrite(req[h].id, req[h].row)
  /\ cache' = [cache EXCEPT ![req[h].id] = [row |-> req[h].row, expires |-> TRUE]]
  /\ End(h)
  /\ UNCHANGED <<writes, counter, raced>>

\* The statement may also fail, or succeed without the service learning it:
\* Update then returns before it invalidates.
StoreTask(h) ==
  /\ req[h].at = "store"
  /\ \/ Overwrite(req[h].id, req[h].row) /\ Continue(h, "invalidate", NoRow)
     \/ Faults /\ Overwrite(req[h].id, req[h].row) /\ End(h)
     \/ Faults /\ UNCHANGED <<rows, past>> /\ End(h)
  /\ UNCHANGED <<writes, cache, counter, raced>>

-----------------------------------------------------------------------------
(* DELETE /v1/tasks/{id}.  Deleting a row that is not there invalidates    *)
(* nothing and is not a step.                                              *)

\* Mutant: a deleted task is left to expire.
DeleteTaskOnly(h, i, id) ==
  /\ BeginWrite
  /\ Remove(id)
  /\ UNCHANGED <<req, cache, counter, raced>>

DeleteTask(h, i, id) ==
  /\ BeginWrite
  /\ Remove(id)
  /\ \/ Begin(h, "invalidate", i, id, NoRow)
     \/ Faults /\ req[h] = Idle /\ UNCHANGED req
  /\ UNCHANGED <<cache, counter, raced>>

-----------------------------------------------------------------------------
\* invalidateTaskCache; an error is only logged.
Invalidate(h) ==
  /\ req[h].at = "invalidate"
  /\ \/ Drop(req[h].id)
     \/ Faults /\ UNCHANGED <<cache, raced>>
  /\ End(h)
  /\ UNCHANGED <<tableVars, counter>>

\* Instance i is killed and started again: its requests are abandoned, and its
\* counter starts from 0.
Restart(i) ==
  /\ Faults
  /\ counter' = [counter EXCEPT ![i] = 0]
  /\ req' = [h \in Handlers |->
               IF req[h] # Idle /\ req[h].inst = i THEN Idle ELSE req[h]]
  /\ UNCHANGED <<tableVars, cache, raced>>

Proceed(h) == GetRow(h) \/ Fill(h) \/ InsertTask(h) \/ StoreTask(h) \/ Invalidate(h)

Arrive(h, i) ==
  \/ \E id \in Ids : GetMiss(h, i, id) \/ DeleteTask(h, i, id)
  \/ \E title \in Titles : BeginCreate(h, i, title)
  \/ \E id \in Ids, patch \in Patch : BeginUpdate(h, i, id, patch)
=============================================================================
