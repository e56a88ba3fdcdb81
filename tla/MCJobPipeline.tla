--------------------------- MODULE MCJobPipeline ---------------------------
(* Model values for checking JobPipeline with TLC. *)
EXTENDS JobPipeline

CONSTANTS m1, m2, ok, flaky, fail

NoForeign == {}

\* A body that is no job, and a job whose attempt counter is missing.
SomeForeign == {Malformed, [mid |-> m1, task |-> fail, attempt |-> 0]}

JustMalformed == {Malformed}
=============================================================================
