---------------------------- MODULE HttpHandlers ----------------------------
(***************************************************************************)
(* What the HTTP handlers of the three services write for a request: the   *)
(* codes of their WriteHeader calls, in order.  What the services behind   *)
(* them answer, and whether a body decodes, is any of the outcomes the     *)
(* handler tells apart.                                                    *)
(***************************************************************************)
EXTENDS Naturals, Sequences

CONSTANTS
  Tokens,  \* the CSRF tokens the auth service generates
  NoToken  \* the cookie, or the header, is not there

ASSUME TokenAssumption == NoToken \notin Tokens

\* An unclean route is a path that a ServeMux redirects to its clean form.
Endpoint == [service: {"tasks", "graphql", "auth"},
             method: {"GET", "POST", "PATCH", "DELETE", "other"},
             route: {"/v1/tasks", "/v1/tasks/:id", "/v1/tasks/search", "/v1/jobs/process-task",
                     "/metrics", "/health", "/graphql", "/v1/auth/login", "/v1/auth/verify",
                     "unclean", "other"}]

\* What a client adds to an endpoint: its cookies, the header that repeats the
\* CSRF cookie, and an Authorization header, which may carry the demo token.
Credentials == [session: BOOLEAN, csrf: Tokens \cup {NoToken}, header: Tokens \cup {NoToken},
                bearer: {"none", "other", "demo"}]

Unsafe == {"POST", "PATCH", "DELETE"}

Codes(codes) == {<<c>> : c \in codes}

\* CSRFMiddleware: the header repeats the cookie, or there is a bearer token.
Unforged(e, c) ==
  e.method \in Unsafe => c.bearer # "none" \/ (c.csrf # NoToken /\ c.header = c.csrf)

\* Mutant: authorize writes 401, and the handler goes on.
GuardedFallsThrough(c, written) ==
  IF c.bearer = "demo" \/ c.session THEN written ELSE {<<401>> \o w : w \in written}

\* authorize: the handler returns when it is false.
Guarded(c, written) == IF c.bearer = "demo" \/ c.session THEN written ELSE Codes({401})

-----------------------------------------------------------------------------
(* The tasks service. *)

GetAll == Codes({200, 500})
CreateTask == Codes({201, 400, 500})
GetByID == Codes({200, 404, 500})
UpdateTask == Codes({200, 400, 404, 500})
DeleteTask == Codes({204, 404, 500})

TasksHandler(e, c) ==
  Guarded(c, CASE e.method = "GET" -> GetAll
               [] e.method = "POST" -> CreateTask
               [] OTHER -> Codes({405}))

TaskByID(e, c) ==
  Guarded(c, CASE e.method = "GET" -> GetByID
               [] e.method = "PATCH" -> UpdateTask
               [] e.method = "DELETE" -> DeleteTask
               [] OTHER -> Codes({405}))

SearchTasks(e, c) == Guarded(c, Codes(IF e.method = "GET" THEN {200, 500} ELSE {405}))

ProcessTaskJob(e, c) ==
  Guarded(c, Codes(IF e.method = "POST" THEN {202, 400, 500} ELSE {405}))

TasksRouter(e, c) ==
  IF ~Unforged(e, c) THEN Codes({403})
  ELSE CASE e.route = "/v1/tasks" -> TasksHandler(e, c)
         [] e.route = "/v1/tasks/:id" -> TaskByID(e, c)
         [] e.route = "/v1/tasks/search" -> SearchTasks(e, c)
         [] e.route = "/v1/jobs/process-task" -> ProcessTaskJob(e, c)
         [] e.route \in {"/metrics", "/health"} -> Codes({200})
         [] e.route = "unclean" -> Codes({301})
         [] OTHER -> Codes({404})

-----------------------------------------------------------------------------
(* The GraphQL service. *)

\* gqlgen's handler, but for requests to upgrade to a websocket.
Srv == Codes({200, 400, 405, 422})

\* SessionAuthMiddleware, then CSRFMiddleware.
SessionAuth(e, c) ==
  IF ~c.session THEN Codes({401}) ELSE IF Unforged(e, c) THEN Srv ELSE Codes({403})

\* The root mux: "/" is the playground, and takes every path that nothing else does.
RootMux(e, c) ==
  CASE e.route = "/graphql" -> SessionAuth(e, c)
    [] e.route = "unclean" -> Codes({301})
    [] OTHER -> Codes({200})

-----------------------------------------------------------------------------
(* The auth service. *)

\* The credentials may be wrong, and the random source may fail.
Login(e) == Codes(IF e.method = "POST" THEN {200, 400, 401, 500} ELSE {405})

Verify(c) == Codes({IF c.bearer = "demo" THEN 200 ELSE 401})

AuthRouter(e, c) ==
  CASE e.route = "/v1/auth/login" -> Login(e)
    [] e.route = "/v1/auth/verify" -> Verify(c)
    [] e.route = "unclean" -> Codes({301})
    [] OTHER -> Codes({404})

Written(e, c) ==
  CASE e.service = "tasks" -> TasksRouter(e, c)
    [] e.service = "graphql" -> RootMux(e, c)
    [] e.service = "auth" -> AuthRouter(e, c)

\* The endpoints behind the wrappers of their service: of the GraphQL service only
\* "/graphql", the root mux being outside.
Wrapped(e) == e.service = "graphql" => e.route = "/graphql"

\* The request reaches promhttp's handler.
Scrapes(e, c) ==
  /\ e.route = "/metrics"
  /\ e.service = "graphql" \/ (e.service = "tasks" /\ Unforged(e, c))
=============================================================================
