----------------------------- MODULE StaleTable -----------------------------
(***************************************************************************)
(* What clients may rely on, however requests, services and failures       *)
(* interleave: a table whose rows are inserted, overwritten in place and   *)
(* removed one at a time, and beside it a view that shows for an id, when  *)
(* it shows anything, a row that id has had.                               *)
(***************************************************************************)
CONSTANTS Ids, Row, NoRow, NoView

VARIABLES
  rows,  \* the table
  past,  \* past[id]: the rows id has had
  view   \* view[id]: what readers are shown instead of the row, if anything

staleVars == <<rows, past, view>>

StaleInit ==
  /\ rows = [id \in Ids |-> NoRow]
  /\ past = [id \in Ids |-> {}]
  /\ view = [id \in Ids |-> NoView]

Has(id, row) == past' = [past EXCEPT ![id] = @ \cup {row}]

\* Only a new task takes an id, and it is not done.
Add(id, row) ==
  /\ rows[id] = NoRow
  /\ ~row.done
  /\ rows' = [rows EXCEPT ![id] = row]
  /\ Has(id, row)
  /\ UNCHANGED view

Change(id, row) ==
  /\ rows[id] # NoRow
  /\ rows' = [rows EXCEPT ![id] = row]
  /\ Has(id, row)
  /\ UNCHANGED view

\* A removed task does not come back.
Delete(id) ==
  /\ rows' = [rows EXCEPT ![id] = NoRow]
  /\ UNCHANGED <<past, view>>

Show(id) ==
  /\ \E row \in past[id] \cup {NoView} : view' = [view EXCEPT ![id] = row]
  /\ UNCHANGED <<rows, past>>

StaleNext ==
  \E id \in Ids :
    \/ \E row \in Row : Add(id, row) \/ Change(id, row)
    \/ Delete(id)
    \/ Show(id)

StaleSpec == StaleInit /\ [][StaleNext]_staleVars
=============================================================================
