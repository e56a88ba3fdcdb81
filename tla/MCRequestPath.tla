--------------------------- MODULE MCRequestPath ---------------------------
(* Model values and endpoints for checking RequestPath with TLC. *)
EXTENDS RequestPath, TLC

CONSTANTS p1, p2, x

At(service, method, route) == [service |-> service, method |-> method, route |-> route]

LoginEndpoint == At("auth", "POST", "/v1/auth/login")

\* A login, and a write of each service that checks sessions.
MCWrites ==
  {LoginEndpoint, At("tasks", "POST", "/v1/tasks"), At("graphql", "POST", "/graphql")}

\* Every route, by the methods its handler serves, and some by one that it refuses.
MCEverything ==
  {At("tasks", m, "/v1/tasks") : m \in {"GET", "POST", "other"}}
    \cup {At("tasks", m, "/v1/tasks/:id") : m \in {"GET", "PATCH", "DELETE", "other"}}
    \cup {At("tasks", "GET", "/v1/tasks/search"), At("tasks", "POST", "/v1/jobs/process-task")}
    \cup {At("tasks", "GET", r) : r \in {"/metrics", "/health", "unclean", "other"}}
    \cup {At("tasks", "POST", "/metrics")}
    \cup {At("graphql", m, "/graphql") : m \in {"GET", "POST"}}
    \cup {At("graphql", "GET", r) : r \in {"/metrics", "unclean", "other"}}
    \cup {LoginEndpoint, At("auth", "GET", "/v1/auth/login"), At("auth", "GET", "other"),
          At("auth", "GET", "unclean"), At("auth", "GET", "/v1/auth/verify")}

\* One page is like another.
PageSymmetry == Permutations({p1, p2})
=============================================================================
