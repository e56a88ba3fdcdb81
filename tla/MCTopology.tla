----------------------------- MODULE MCTopology -----------------------------
(* Model values for checking Topology with TLC. *)
EXTENDS Topology

CONSTANTS jobs, jobs2, dlx, dlx2, dlq, c1, c2, c3

Deployed == [main |-> jobs, dlx |-> dlx, dlq |-> dlq]

\* The deployment's names, and deployments that disagree with it in each name.
\* The last two use its dead-letter queue as a main queue, and its main queue
\* as a dead-letter queue.
SeveralConfigs ==
  {Deployed,
   [Deployed EXCEPT !.main = jobs2],
   [Deployed EXCEPT !.dlx = dlx2],
   [Deployed EXCEPT !.dlq = jobs2],
   [Deployed EXCEPT !.main = dlq, !.dlq = jobs2],
   [Deployed EXCEPT !.main = jobs2, !.dlq = jobs]}
=============================================================================
