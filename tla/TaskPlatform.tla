---------------------------- MODULE TaskPlatform ----------------------------
(***************************************************************************)
(* The tasks service and the GraphQL service over the table they share.    *)
(***************************************************************************)
EXTENDS TaskService, GraphqlService

vars == <<tableVars, serviceVars, mutation>>

TypeOK == TableTypeOK /\ ServiceTypeOK /\ GraphqlTypeOK

Init == TableInit /\ ServiceInit /\ GraphqlInit

RestStep ==
  /\ \/ \E h \in Handlers : Proceed(h) \/ \E i \in Instances : Arrive(h, i)
     \/ \E i \in Instances : Restart(i)
  /\ UNCHANGED mutation

ExpiryStep == (\E id \in Ids : Expire(id)) /\ UNCHANGED mutation

GraphqlStep ==
  /\ \E g \in GqlHandlers :
       \/ GqlProceed(g)
       \/ \E title \in Titles : GqlCreate(g, title)
       \/ \E id \in Ids : GqlDelete(id) \/ \E patch \in Patch : GqlUpdate(g, id, patch)
  /\ UNCHANGED serviceVars

Next == RestStep \/ ExpiryStep \/ GraphqlStep

Spec == Init /\ [][Next]_vars

\* Requests in progress go on, each on a goroutine of its own, and Redis expires
\* what is due.  Nothing makes a client send a request or a process restart.
Fairness ==
  /\ \A h \in Handlers : WF_vars(Proceed(h) /\ UNCHANGED mutation)
  /\ \A g \in GqlHandlers : WF_vars(GqlProceed(g) /\ UNCHANGED serviceVars)
  /\ \A id \in Ids : WF_vars(Expire(id) /\ UNCHANGED mutation)

FairSpec == Spec /\ Fairness

-----------------------------------------------------------------------------
Coherent(id) == cache[id] = NoEntry \/ cache[id].row = rows[id]

Invalidating(id) == \E h \in Handlers : req[h].at = "invalidate" /\ req[h].id = id

\* When the service is between requests, a cached task is the row.  It holds for
\* requests that come one at a time, with no failures and no GraphQL writes.
QuietCoherent ==
  (\A h \in Handlers : req[h] = Idle) => \A id \in Ids : Coherent(id)

\* Without failures and GraphQL writes, an entry that is not the row is about to
\* be deleted, or was set by a GET that read the row before it was written and
\* set the entry after it: no other interleaving leaves the cache stale.
StaleOnlyByRace ==
  \A id \in Ids : Coherent(id) \/ Invalidating(id) \/ id \in raced

\* An instance that is alone and was not restarted never draws an id that is
\* taken, whatever creates run concurrently: no create is refused.
CreateNeverRefused ==
  \A h \in Handlers : req[h].at = "insert" => ~Present(req[h].id)

\* Under every interleaving and failure, with GraphQL writes: ids are taken only
\* by new tasks, an update that races a delete does not bring the task back, and
\* what the cache holds was in the table at some time.
Stale == INSTANCE StaleTable WITH
  NoView <- NoEntry,
  view <- [id \in Ids |-> IF cache[id] = NoEntry THEN NoEntry ELSE cache[id].row]

StaleTableRefined == Stale!StaleSpec

\* Once clients stop writing, the cache agrees with the table for good: the time
\* to live mends what a race, a failure or a GraphQL write left behind.
EventuallyCoherent == <>[](\A id \in Ids : Coherent(id))
=============================================================================
