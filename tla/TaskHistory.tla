---------------------------- MODULE TaskHistory ----------------------------
(***************************************************************************)
(* TaskPlatform with a memory: what the table would hold had every update  *)
(* been one statement, which draws of an id other creates have overtaken,  *)
(* and how many creates an instance was refused.                           *)
(***************************************************************************)
EXTENDS TaskPlatform

\* A request is served by one of the services.
ASSUME HistoryAssumption == Handlers \cap GqlHandlers = {}

VARIABLES
  patch,     \* patch[w]: the fields set by the update writer w is in the middle of
  outdated,  \* writers whose row another request has changed since they read it
  expected,  \* expected[id]: the row, had updates been applied one at a time
  overlaps,  \* ids whose row an outdated writer has overwritten
  outrun,    \* creates of the GraphQL service overtaken between their count and INSERT
  refused    \* refused[i]: creates instance i was refused since it started

history == <<patch, outdated, expected, overlaps, outrun, refused>>

Writers == Handlers \cup GqlHandlers
NoPatch == [f \in {"title", "done"} |-> Keep]

HistoryInit ==
  /\ Init
  /\ patch = [w \in Writers |-> NoPatch]
  /\ outdated = {}
  /\ expected = [id \in Ids |-> NoRow]
  /\ overlaps = {}
  /\ outrun = {}
  /\ refused = [i \in Instances |-> 0]

\* The update that writer w has read the row for.
Update(w) == IF w \in Handlers THEN req[w] ELSE mutation[w]
Updating(w) == Update(w).at = "store"

\* Each field is that of the request, if it has it, and else the row's.
Applied(row, p) == [f \in DOMAIN row |-> IF p[f] = Keep THEN row[f] ELSE p[f]]

Starts(w) == ~Updating(w) /\ Updating(w)'
Stores(w, id) ==
  Updating(w) /\ ~Updating(w)' /\ Update(w).id = id /\ rows'[id] = Update(w).row

UpdateBegins(w, p) ==
  /\ \/ w \in Handlers /\ UNCHANGED mutation
        /\ \E i \in Instances, id \in Ids : BeginUpdate(w, i, id, p)
     \/ w \in GqlHandlers /\ UNCHANGED serviceVars
        /\ \E id \in Ids : GqlUpdate(w, id, p)
  /\ patch' = [patch EXCEPT ![w] = p]

Drawn(g) == mutation[g].at = "insert"

\* Instance i has drawn an id that is taken, and sent the INSERT.
Refused(i, h) ==
  req[h].at = "insert" /\ req[h].inst = i /\ Present(req[h].id) /\ req'[h] = Idle

Remember ==
  /\ outdated' = {w \in Writers : /\ Updating(w)' /\ ~Starts(w)
                                  /\ w \in outdated \/ rows'[Update(w).id] # rows[Update(w).id]}
  /\ expected' = [id \in Ids |->
       IF rows'[id] = NoRow \/ rows[id] = NoRow THEN rows'[id]
       ELSE IF \E w \in Writers : Stores(w, id)
            THEN Applied(expected[id], patch[CHOOSE w \in Writers : Stores(w, id)])
            ELSE expected[id]]
  /\ overlaps' = {id \in Ids : /\ rows'[id] # NoRow
                               /\ \/ id \in overlaps
                                  \/ \E w \in outdated : Stores(w, id)}
  /\ outrun' = {g \in GqlHandlers : /\ Drawn(g) /\ Drawn(g)'
                                     /\ \/ g \in outrun
                                        \/ \E id \in Ids : ~Present(id) /\ Present(id)'}
  /\ refused' = [i \in Instances |->
       IF counter'[i] = 0 THEN 0
       ELSE refused[i] + Cardinality({h \in Handlers : Refused(i, h)})]

HistoryNext ==
  /\ \/ \E w \in Writers, p \in Patch : UpdateBegins(w, p)
     \/ Next /\ UNCHANGED patch /\ \A w \in Writers : ~Starts(w)
  /\ Remember

HistorySpec == HistoryInit /\ [][HistoryNext]_<<vars, history>>

-----------------------------------------------------------------------------
\* Update reads a row and writes it back whole.  No field that a request has set is
\* lost to an update that leaves it out, by either service, unless the row changed
\* between the read and the write of that update.
LostOnlyByOverlap == \A id \in Ids : rows[id] = expected[id] \/ id \in overlaps

\* The GraphQL service draws an id that is taken, and is refused, only when a task was
\* deleted, so that there is a hole below the id and every create is refused until it
\* is filled, or when another request created a task between its count and its INSERT.
RefusedOnlyByHole ==
  \A g \in GqlHandlers :
    Drawn(g) /\ Present(mutation[g].id) =>
      g \in outrun \/ \E id \in 1..(mutation[g].id - 1) : ~Present(id)

\* An instance that was restarted, or started beside another, draws ids that are
\* taken.  It is refused each at most once, so that its creates go through again
\* after as many refusals as there have been tasks.
RefusalsBounded ==
  \A i \in Instances : refused[i] <= Cardinality({id \in Ids : past[id] # {}})
=============================================================================
