---------------------------- MODULE StoreProofs ----------------------------
(***************************************************************************)
(* The lock of the in-memory Store keeps the look-up of a write and the    *)
(* visits of a list together, for any number of callers, ids and tasks.    *)
(***************************************************************************)
EXTENDS Store, FiniteSetTheorems, TLAPS

(***************************************************************************)
(* ListIsSnapshot and WritesHit are not inductive: a list in the middle of *)
(* its visits has copied what the table holds, and that is so only because *)
(* nobody writes while somebody reads, and one caller at a time writes.    *)
(***************************************************************************)

Types ==
  /\ tasks \in Table
  /\ readers = {c \in Callers : call[c].at = "list"}
  /\ writer = {c \in Callers : call[c].at \in Writes}
  /\ call \in [Callers -> Writing \cup Listing \cup {Out}]
  /\ during \in [Callers -> SUBSET Table]

Excluded ==
  /\ \A c, d \in writer : c = d
  /\ readers = {} \/ writer = {}

\* What list c has copied so far.
Copied(c) ==
  /\ tasks \in during[c]
  /\ \A id \in Ids : call[c].result[id] = IF id \in call[c].left THEN NoTask ELSE tasks[id]

ListsInv == \A c \in Callers : At(c, "list") => Copied(c)

StoreInv == Types /\ Excluded /\ ListsInv /\ ListIsSnapshot /\ WritesHit

-----------------------------------------------------------------------------
LEMMA StoreTyped == Types /\ Excluded => StoreTypeOK
<1>. SUFFICES ASSUME Types, Excluded PROVE Cardinality(writer) <= 1
  BY DEF Types, StoreTypeOK
<1>1. writer = {} \/ \E c : writer = {c}
  BY DEF Excluded
<1>2. Cardinality({}) = 0 /\ \A c : Cardinality({c}) = 1
  BY FS_EmptySet, FS_Singleton
<1>3. Cardinality(writer) = 0 \/ Cardinality(writer) = 1
  BY <1>1, <1>2
<1>. QED BY <1>3

\* Which caller is in what kind of method.
LEMMA CallKinds ==
  ASSUME Types, NEW c \in Callers
  PROVE  /\ call[c].at \in Writes =>
              call[c] \in Writing /\ call[c].id \in Ids /\ call[c].task \in Task
         /\ call[c].at \in {"list", "listed"} =>
              /\ call[c] \in Listing /\ call[c].left \subseteq Ids
              /\ call[c].result \in Table
         /\ call[c].at = "out" => call[c] = Out
  BY DEF Types, Writing, Listing, Out, Writes, Table

\* Who writes is alone.
LEMMA WriterAlone ==
  ASSUME Types, Excluded, NEW c \in Callers, call[c].at \in Writes
  PROVE  /\ writer = {c} /\ readers = {}
         /\ \A d \in Callers : d # c => call[d].at \notin Writes
         /\ \A d \in Callers : call[d].at # "list"
  BY DEF Types, Excluded

\* Nobody writes while a list is under way.
LEMMA ReaderShares ==
  ASSUME Types, Excluded, NEW c \in Callers, call[c].at = "list"
  PROVE  writer = {} /\ \A d \in Callers : call[d].at \notin Writes
  BY DEF Types, Excluded

LEMMA StoreStart == StoreInit => StoreInv
<1>. SUFFICES ASSUME StoreInit PROVE StoreInv
  OBVIOUS
<1>1. Types
  BY DEF StoreInit, Types, Table, Out, Writes
<1>. QED BY <1>1 DEF StoreInit, StoreInv, Excluded, ListsInv, ListIsSnapshot, WritesHit, At, Out

-----------------------------------------------------------------------------
(* The writes. *)

LEMMA BeginWriteKeeps ==
  ASSUME StoreInv, NEW c \in Callers, BeginWrite(c)
  PROVE  StoreInv'
<1>. Types /\ Excluded
  BY DEF StoreInv
<1>1. PICK method \in {"create", "update", "delete"}, id \in Ids, task \in Task :
        Enter(c, method, id, task)
  BY DEF BeginWrite
<1>2. readers = {} /\ writer = {} /\ writer' = {c} /\ readers' = {} /\ UNCHANGED <<tasks, during>>
  BY <1>1 DEF BeginWrite, Lock, Enter
<1>. DEFINE r == [at |-> method, id |-> id, task |-> task]
<1>3. r \in Writing /\ r.at = method /\ method \in Writes \ {"overwrite", "remove"}
  BY DEF Writing, Writes
<1>4. call' = [call EXCEPT ![c] = r]
  BY <1>1 DEF Enter, Goes
<1>. HIDE DEF r
<1>5. call'[c] = r /\ \A d \in Callers : d # c => call'[d] = call[d]
  BY <1>4 DEF Types
<1>6. \A d \in Callers : call[d].at # "list" /\ call[d].at \notin Writes
  BY <1>2 DEF Types
<1>7. method \notin {"list", "listed", "overwrite", "remove"}
  OBVIOUS
<1>8. Types'
  <2>1. call' \in [Callers -> Writing \cup Listing \cup {Out}]
    BY <1>3, <1>4 DEF Types
  <2>2. \A d \in Callers : call'[d].at # "list" /\ (call'[d].at \in Writes <=> d = c)
    BY <1>3, <1>5, <1>6, <1>7
  <2>. QED BY <1>2, <2>1, <2>2 DEF Types
<1>9. Excluded'
  BY <1>2 DEF Excluded
<1>10. ListsInv' /\ ListIsSnapshot' /\ WritesHit'
  BY <1>2, <1>3, <1>5, <1>6, <1>7
     DEF StoreInv, ListsInv, ListIsSnapshot, WritesHit, At, Writes
<1>. QED BY <1>8, <1>9, <1>10 DEF StoreInv

\* The last step of a method that writes lets everybody else in again.
LEMMA WriteEnds ==
  ASSUME StoreInv, NEW c \in Callers, call[c].at \in Writes, Goes(c, Out), Unlock(c),
         tasks' \in Table, during' = during
  PROVE  StoreInv'
<1>. Types /\ Excluded
  BY DEF StoreInv
<1>1. /\ writer = {c} /\ readers = {}
      /\ \A d \in Callers : d # c => call[d].at \notin Writes
      /\ \A d \in Callers : call[d].at # "list"
  BY WriterAlone
<1>2. writer' = {} /\ readers' = {}
  BY <1>1 DEF Unlock
<1>3. /\ call' = [call EXCEPT ![c] = Out] /\ call'[c] = Out
      /\ \A d \in Callers : d # c => call'[d] = call[d]
  BY DEF Goes, Types
<1>4. Out.at = "out" /\ "out" \notin Writes
  BY DEF Out, Writes
<1>5. \A d \in Callers : call'[d].at # "list" /\ call'[d].at \notin Writes
  BY <1>1, <1>3, <1>4
<1>6. Types'
  BY <1>2, <1>3, <1>5 DEF Types
<1>7. Excluded'
  BY <1>2 DEF Excluded
<1>8. ListIsSnapshot'
  BY <1>3, <1>4 DEF StoreInv, ListIsSnapshot, At
<1>. QED BY <1>5, <1>6, <1>7, <1>8 DEF StoreInv, ListsInv, WritesHit, At, Writes

LEMMA WritesKeep ==
  ASSUME StoreInv, NEW c \in Callers, Create(c) \/ Overwrite(c) \/ Remove(c)
  PROVE  StoreInv'
<1>. Types /\ Excluded
  BY DEF StoreInv
<1>1. call[c].at \in Writes
  BY DEF Create, Overwrite, Remove, At, Writes
<1>2. call[c].id \in Ids /\ call[c].task \in Task /\ \A d \in Callers : call[d].at # "list"
  BY <1>1, CallKinds, WriterAlone
<1>3. PICK task \in Task \cup {NoTask} : Put(c, task)
  BY <1>2 DEF Create, Overwrite, Remove
<1>4. tasks' \in Table
  BY <1>2, <1>3 DEF Put, Types, Table
<1>5. during' = during
  <2>1. during' = [d \in Callers |-> during[d]]
    BY <1>2, <1>3 DEF Put, Witness, At
  <2>. QED BY <2>1 DEF Types
<1>. QED BY <1>1, <1>3, <1>4, <1>5, WriteEnds DEF Put

LEMMA LookUpKeeps ==
  ASSUME StoreInv, NEW c \in Callers, LookUp(c)
  PROVE  StoreInv'
<1>. Types /\ Excluded
  BY DEF StoreInv
<1>1. call[c].at \in {"update", "delete"} /\ call[c].at \in Writes
  BY DEF LookUp, Writes
<1>2. CASE tasks[call[c].id] = NoTask
  <2>1. UNCHANGED <<tasks, during>> /\ Goes(c, Out) /\ Unlock(c) /\ tasks' \in Table
    BY <1>2 DEF LookUp, Types
  <2>. QED BY <1>1, <2>1, WriteEnds
<1>3. CASE tasks[call[c].id] # NoTask
  <2>. DEFINE r == [call[c] EXCEPT !.at = IF @ = "update" THEN "overwrite" ELSE "remove"]
  <2>1. /\ UNCHANGED <<tasks, readers, writer, during>>
        /\ call' = [call EXCEPT ![c] = r]
    BY <1>3 DEF LookUp, Goes
  <2>2. /\ r \in Writing /\ r.at \in {"overwrite", "remove"} /\ r.id = call[c].id
    BY <1>1, CallKinds DEF Writing, Writes
  <2>. HIDE DEF r
  <2>3. r.at \in Writes /\ r.at # "list" /\ r.at # "listed"
    BY <2>2 DEF Writes
  <2>4. call'[c] = r /\ \A d \in Callers : d # c => call'[d] = call[d]
    BY <2>1 DEF Types
  <2>5. \A d \in Callers : /\ call'[d].at = "list" <=> call[d].at = "list"
                           /\ call'[d].at \in Writes <=> call[d].at \in Writes
    BY <1>1, <2>3, <2>4
  <2>6. Types'
    BY <2>1, <2>2, <2>5 DEF Types
  <2>7. Excluded'
    BY <2>1 DEF Excluded
  <2>8. WritesHit'
    <3>1. \A d \in Callers : d # c => call[d].at \notin Writes
      BY <1>1, WriterAlone
    <3>. QED BY <1>3, <2>1, <2>2, <2>4, <3>1 DEF WritesHit, Writes
  <2>9. ListsInv' /\ ListIsSnapshot'
    BY <2>1, <2>3, <2>4 DEF StoreInv, ListsInv, ListIsSnapshot, At, Copied
  <2>. QED BY <2>6, <2>7, <2>8, <2>9 DEF StoreInv
<1>. QED BY <1>2, <1>3

-----------------------------------------------------------------------------
(* The lists. *)

LEMMA BeginListKeeps ==
  ASSUME StoreInv, NEW c \in Callers, BeginList(c)
  PROVE  StoreInv'
<1>. Types /\ Excluded
  BY DEF StoreInv
<1>. DEFINE r == [at |-> "list", left |-> Ids, result |-> [id \in Ids |-> NoTask]]
<1>1. /\ writer = {} /\ writer' = {} /\ readers' = readers \cup {c} /\ UNCHANGED tasks
      /\ during' = [during EXCEPT ![c] = {tasks}]
      /\ call' = [call EXCEPT ![c] = r]
  BY DEF BeginList, RLock, Goes
<1>2. /\ r \in Listing /\ r.at = "list" /\ r.left = Ids
      /\ \A id \in Ids : r.result[id] = NoTask
  BY DEF Listing
<1>. HIDE DEF r
<1>3. call'[c] = r /\ \A d \in Callers : d # c => call'[d] = call[d]
  BY <1>1 DEF Types
<1>4. during'[c] = {tasks} /\ \A d \in Callers : d # c => during'[d] = during[d]
  BY <1>1 DEF Types
<1>5. \A d \in Callers : call'[d].at \notin Writes /\ call[d].at \notin Writes
  <2>1. "list" \notin Writes
    BY DEF Writes
  <2>. QED BY <1>1, <1>2, <1>3, <2>1 DEF Types
<1>6. Types'
  <2>1. during' \in [Callers -> SUBSET Table]
    BY <1>1 DEF Types
  <2>2. readers' = {d \in Callers : call'[d].at = "list"}
    BY <1>1, <1>2, <1>3 DEF Types
  <2>. QED BY <1>1, <1>2, <1>5, <2>1, <2>2 DEF Types
<1>7. Excluded'
  BY <1>1 DEF Excluded
<1>8. ListsInv'
  <2>1. Copied(c)'
    BY <1>1, <1>2, <1>3, <1>4 DEF Copied
  <2>2. \A d \in Callers : d # c /\ call[d].at = "list" => Copied(d)'
    BY <1>1, <1>3, <1>4 DEF StoreInv, ListsInv, Copied, At
  <2>. QED BY <1>3, <2>1, <2>2 DEF ListsInv, At
<1>9. ListIsSnapshot' /\ WritesHit'
  BY <1>2, <1>3, <1>4, <1>5 DEF StoreInv, ListIsSnapshot, WritesHit, At, Writes
<1>. QED BY <1>6, <1>7, <1>8, <1>9 DEF StoreInv

LEMMA VisitKeeps ==
  ASSUME StoreInv, NEW c \in Callers, Visit(c)
  PROVE  StoreInv'
<1>. Types /\ Excluded
  BY DEF StoreInv
<1>1. call[c].at = "list" /\ UNCHANGED <<tasks, readers, writer, during>>
  BY DEF Visit, At
<1>2. call[c] \in Listing /\ call[c].left \subseteq Ids /\ call[c].result \in Table
  BY <1>1, CallKinds
<1>3. PICK id \in call[c].left :
        Goes(c, [at |-> "list", left |-> call[c].left \ {id},
                 result |-> [call[c].result EXCEPT ![id] = tasks[id]]])
  BY DEF Visit
<1>. DEFINE t == [call[c].result EXCEPT ![id] = tasks[id]]
            r == [at |-> "list", left |-> call[c].left \ {id}, result |-> t]
<1>4. r = [at |-> "list", left |-> call[c].left \ {id}, result |-> t]
  OBVIOUS
<1>5. /\ t \in Table /\ t[id] = tasks[id]
      /\ \A i \in Ids : i # id => t[i] = call[c].result[i]
  BY <1>2 DEF Types, Table
<1>6. call' = [call EXCEPT ![c] = r]
  BY <1>3 DEF Goes
<1>. HIDE DEF t
<1>7. /\ r \in Listing /\ r.at = "list" /\ r.left = call[c].left \ {id} /\ r.result = t
  BY <1>2, <1>4, <1>5 DEF Listing, Table
<1>. HIDE DEF r
<1>8. call'[c] = r /\ \A d \in Callers : d # c => call'[d] = call[d]
  BY <1>6 DEF Types
<1>9. \A d \in Callers : call'[d].at = call[d].at
  BY <1>1, <1>7, <1>8
<1>10. Types'
  BY <1>1, <1>6, <1>7, <1>9 DEF Types
<1>11. Excluded'
  BY <1>1 DEF Excluded
<1>12. ListsInv'
  <2>1. Copied(c)
    BY <1>1 DEF StoreInv, ListsInv, At
  <2>2. Copied(c)'
    BY <1>1, <1>5, <1>7, <1>8, <2>1 DEF Copied
  <2>3. \A d \in Callers : d # c /\ call[d].at = "list" => Copied(d)'
    BY <1>1, <1>8 DEF StoreInv, ListsInv, Copied, At
  <2>. QED BY <1>9, <2>2, <2>3 DEF ListsInv, At
<1>13. ListIsSnapshot' /\ WritesHit'
  BY <1>1, <1>8, <1>9 DEF StoreInv, ListIsSnapshot, WritesHit, At
<1>. QED BY <1>10, <1>11, <1>12, <1>13 DEF StoreInv

\* A list that has visited every entry has copied the table.
LEMMA EndListKeeps ==
  ASSUME StoreInv, NEW c \in Callers, EndList(c)
  PROVE  StoreInv'
<1>. Types /\ Excluded
  BY DEF StoreInv
<1>. DEFINE r == [call[c] EXCEPT !.at = "listed"]
<1>1. /\ call[c].at = "list" /\ call[c].left = {} /\ UNCHANGED <<tasks, during>>
      /\ call' = [call EXCEPT ![c] = r]
      /\ readers' = readers \ {c} /\ UNCHANGED writer
  BY DEF EndList, At, Goes, RUnlock
<1>2. /\ r \in Listing /\ r.at = "listed" /\ r.result = call[c].result
      /\ call[c].result \in Table
  BY <1>1, CallKinds DEF Listing
<1>. HIDE DEF r
<1>3. call'[c] = r /\ \A d \in Callers : d # c => call'[d] = call[d]
  BY <1>1 DEF Types
<1>4. /\ \A d \in Callers : call'[d].at \in Writes <=> call[d].at \in Writes
      /\ \A d \in Callers : call'[d].at = "list" <=> d # c /\ call[d].at = "list"
  <2>1. "list" \notin Writes /\ "listed" \notin Writes
    BY DEF Writes
  <2>. QED BY <1>1, <1>2, <1>3, <2>1
<1>5. Types'
  BY <1>1, <1>2, <1>4 DEF Types
<1>6. Excluded'
  BY <1>1 DEF Excluded
<1>7. call[c].result \in during[c]
  <2>1. tasks \in during[c] /\ \A id \in Ids : call[c].result[id] = tasks[id]
    BY <1>1 DEF StoreInv, ListsInv, Copied, At
  <2>2. call[c].result = tasks
    BY <1>2, <2>1 DEF Types, Table
  <2>. QED BY <2>1, <2>2
<1>8. ListsInv'
  BY <1>1, <1>3, <1>4 DEF StoreInv, ListsInv, Copied, At
<1>9. ListIsSnapshot'
  BY <1>1, <1>2, <1>3, <1>7 DEF StoreInv, ListIsSnapshot, At
<1>10. WritesHit'
  BY <1>1, <1>2, <1>3 DEF StoreInv, WritesHit
<1>. QED BY <1>5, <1>6, <1>8, <1>9, <1>10 DEF StoreInv

LEMMA ReturnKeeps ==
  ASSUME StoreInv, NEW c \in Callers, Return(c)
  PROVE  StoreInv'
<1>. Types /\ Excluded
  BY DEF StoreInv
<1>1. /\ call[c].at = "listed" /\ UNCHANGED <<tasks, readers, writer>>
      /\ call' = [call EXCEPT ![c] = Out]
      /\ during' = [during EXCEPT ![c] = {}]
  BY DEF Return, At, Goes
<1>2. call'[c].at = "out" /\ \A d \in Callers : d # c => call'[d] = call[d]
  BY <1>1 DEF Types, Out
<1>3. \A d \in Callers : d # c => during'[d] = during[d]
  BY <1>1 DEF Types
<1>4. /\ \A d \in Callers : call'[d].at \in Writes <=> call[d].at \in Writes
      /\ \A d \in Callers : call'[d].at = "list" <=> call[d].at = "list"
  <2>1. "out" \notin Writes /\ "listed" \notin Writes
    BY DEF Writes
  <2>. QED BY <1>1, <1>2, <2>1
<1>5. Types'
  BY <1>1, <1>4 DEF Types
<1>6. Excluded'
  BY <1>1 DEF Excluded
<1>. QED BY <1>1, <1>2, <1>3, <1>5, <1>6
         DEF StoreInv, ListsInv, ListIsSnapshot, WritesHit, Copied, At

LEMMA StoreStep == StoreInv /\ [StoreNext]_storeVars => StoreInv'
<1>1. StoreInv /\ UNCHANGED storeVars => StoreInv'
  BY DEF storeVars, StoreInv, Types, Excluded, ListsInv, ListIsSnapshot, WritesHit, Copied, At
<1>. QED BY <1>1, BeginWriteKeeps, WritesKeep, LookUpKeeps, BeginListKeeps, VisitKeeps,
            EndListKeeps, ReturnKeeps DEF StoreNext, Runs

-----------------------------------------------------------------------------
\* The lock is held by exactly the callers inside a method, for writing by one of
\* them at most.
THEOREM LockDiscipline == StoreSpec => []StoreTypeOK
<1>1. StoreInv => StoreTypeOK
  BY StoreTyped DEF StoreInv
<1>. QED BY <1>1, StoreStart, StoreStep, PTL DEF StoreSpec

\* A list is what the store held at one moment of the call.
THEOREM ListsAreSnapshots == StoreSpec => []ListIsSnapshot
<1>1. StoreInv => ListIsSnapshot
  BY DEF StoreInv
<1>. QED BY <1>1, StoreStart, StoreStep, PTL DEF StoreSpec

\* An update or delete that has found its task still finds it when it writes.
THEOREM WritesFindTheirTask == StoreSpec => []WritesHit
<1>1. StoreInv => WritesHit
  BY DEF StoreInv
<1>. QED BY <1>1, StoreStart, StoreStep, PTL DEF StoreSpec
=============================================================================
