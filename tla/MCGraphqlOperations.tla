------------------------ MODULE MCGraphqlOperations ------------------------
(* Model values and documents for checking GraphqlOperations with TLC. *)
EXTENDS GraphqlOperations

CONSTANTS i1, h1, g1, a, b

Create(title) == [name |-> "createTask", title |-> title]
Update(id, title, done) ==
  [name |-> "updateTask", id |-> id, input |-> [title |-> title, done |-> done]]
Delete(id) == [name |-> "deleteTask", id |-> id]
Tasks == [name |-> "tasks"]
Task(id) == [name |-> "task", id |-> id]

\* Creates that race one another and a delete, a null in an input, and a query of
\* two fields.
MCDocuments ==
  {<<Create(a), Create(b)>>, <<Create(b), Delete(1)>>, <<Delete(1), Create(a)>>,
   <<Update(1, NullArg, TRUE), Create(a)>>, <<Update(2, b, Keep)>>, <<Tasks, Task(1)>>}
=============================================================================
