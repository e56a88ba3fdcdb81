-------------------------------- MODULE Jobs --------------------------------
(***************************************************************************)
(* The process_task job as the tasks service publishes it and the worker   *)
(* reads it: its fields, the normalisation of its attempt counter and the  *)
(* outcome of processing it.  Task identifiers are abstracted to what      *)
(* process() tells apart: identifiers that always fail ("t_fail" and the   *)
(* ones ending in 3), the one that fails on its first attempt ("t_flaky")  *)
(* and all the others.                                                     *)
(***************************************************************************)
EXTENDS Integers

CONSTANTS
  MsgIds,       \* message_id values: client-supplied or fresh uuids
  Tasks,        \* task_id values, trimmed and lower-cased
  FlakyTasks,   \* the tasks whose first attempt fails
  FailTasks,    \* the tasks that never succeed
  MaxAttempts,  \* MAX_ATTEMPTS of the worker
  Malformed     \* any body that is not a process_task job

ProcessTaskJob == [mid: MsgIds, task: Tasks, attempt: Int]

Body == ProcessTaskJob \cup {Malformed}

ASSUME JobsAssumption ==
  /\ FlakyTasks \subseteq Tasks
  /\ FailTasks \subseteq Tasks
  /\ MaxAttempts \in Nat \ {0}
  /\ Malformed \notin ProcessTaskJob

\* A job without a positive attempt counter is on its first attempt.
Normalise(job) == IF job.attempt <= 0 THEN [job EXCEPT !.attempt = 1] ELSE job

\* Mutant: the counter is bumped twice, once per branch of a merge.
NextAttemptSkips(job) == [job EXCEPT !.attempt = @ + 2]

\* The job a retry publishes.
NextAttempt(job) == [job EXCEPT !.attempt = @ + 1]

\* Does this attempt fail?  The delay before the answer is a step of Worker.
ProcessFails(job) ==
  \/ job.task \in FailTasks
  \/ job.task \in FlakyTasks /\ job.attempt < 2

\* Mutant: one attempt too few.
ExhaustedEarly(job) == job.attempt >= MaxAttempts - 1

\* The failed attempt was the last one allowed.
Exhausted(job) == job.attempt >= MaxAttempts
=============================================================================
