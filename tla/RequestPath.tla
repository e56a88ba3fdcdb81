---------------------------- MODULE RequestPath ----------------------------
(***************************************************************************)
(* Requests on their way through the wrappers of the services, and the     *)
(* cookies by which the tasks and the GraphQL service know a client that   *)
(* has logged in at the auth service.                                      *)
(*                                                                         *)
(* The client is a browser: pages that share one cookie jar, one request   *)
(* of each at a time.  A script of a page reads the CSRF cookie to send it *)
(* as a header; the cookies are attached when the request is sent.         *)
(***************************************************************************)
EXTENDS HttpHandlers, Integers, FiniteSets

CONSTANTS
  Endpoints,    \* where the pages send requests
  Bearers,      \* the Authorization headers they send
  Pages,        \* the pages of the browser
  MaxRequests,  \* bound on the requests sent
  MaxAge,       \* the lifetime of a cookie: 3600 s, as a number of ticks
  ClientIds,    \* X-Request-ID headers clients send
  NoId          \* no X-Request-ID

ASSUME PathAssumption ==
  /\ Endpoints \subseteq Endpoint /\ Bearers \subseteq {"none", "other", "demo"}
  /\ IsFiniteSet(Pages) /\ MaxRequests \in Nat /\ MaxAge \in Nat
  /\ Tokens = 1..MaxRequests

Metered == {"tasks", "graphql"}
Statuses == {200, 201, 202, 204, 301, 400, 401, 403, 404, 405, 422, 500}

\* What a scrape reads: the gauge, and the series of each status.
Gauge == 0
Metric == Statuses \cup {Gauge}

RequestIds == ClientIds \cup (1..MaxRequests)  \* the numbers are the generated ones

VARIABLES
  jar,       \* the cookies, each with the ticks it has left, 0 when it is not there
  script,    \* script[p]: the CSRF token page p has read
  call,      \* call[p]: the request of page p
  sent,      \* requests sent so far, up to MaxRequests
  inflight,  \* http_in_flight_requests
  total,     \* http_requests_total
  log,       \* the lines of the access logs
  scrape,    \* scrape[p]: what the request of page p has gathered of the metrics
  entered,   \* history: requests that service s has begun
  answered   \* history: answers of service s with a status

pathVars == <<jar, script, call, sent, inflight, total, log, scrape, entered,
             answered>>
metricVars == <<inflight, total, log, scrape, entered, answered>>

Idle == [at |-> "idle"]

Call == [at: {"sent", "inside", "served", "logged", "left", "counted"}, to: Endpoint,
         by: Credentials, id: RequestIds, codes: Seq(Statuses),
         number: Tokens,   \* random values of this request: the id and the CSRF token
         steady: BOOLEAN]  \* history: see SteadySessionPasses

Scrape == [unread: SUBSET Metric, collected: BOOLEAN, seen: [Metric -> Nat],
           left: Nat]  \* history: requests counted since the scrape began

NoScrape == [unread |-> {}, collected |-> FALSE, seen |-> [m \in Metric |-> 0], left |-> 0]

PathTypeOK ==
  /\ jar \in [session: 0..MaxAge, csrf: 0..MaxAge, token: Tokens \cup {NoToken}]
  /\ script \in [Pages -> [token: Tokens \cup {NoToken}, steady: BOOLEAN]]
  /\ call \in [Pages -> Call \cup {Idle}]
  /\ sent \in 0..MaxRequests
  /\ inflight \in [Metered -> Nat]
  /\ total \in [Metered -> [Statuses -> Nat]]
  /\ log \subseteq [service: {"tasks", "graphql", "auth"}, id: RequestIds, status: Statuses]
  /\ scrape \in [Pages -> Scrape]
  /\ entered \in [Metered -> Nat]
  /\ answered \in [Metered -> [Statuses -> Nat]]

PathInit ==
  /\ jar = [session |-> 0, csrf |-> 0, token |-> NoToken]
  /\ script = [p \in Pages |-> [token |-> NoToken, steady |-> FALSE]]
  /\ call = [p \in Pages |-> Idle]
  /\ sent = 0
  /\ inflight = [s \in Metered |-> 0]
  /\ total = [s \in Metered |-> [c \in Statuses |-> 0]]
  /\ log = {}
  /\ scrape = [p \in Pages |-> NoScrape]
  /\ entered = [s \in Metered |-> 0]
  /\ answered = [s \in Metered |-> [c \in Statuses |-> 0]]

-----------------------------------------------------------------------------
(* The browser. *)

ReadCsrf(p) ==
  /\ script' = [script EXCEPT ![p] = [token |-> jar.token, steady |-> jar.session > 0]]
  /\ UNCHANGED <<jar, call, sent, metricVars>>

Unsteady == [p \in Pages |-> [script[p] EXCEPT !.steady = FALSE]]

Left(ticks) == IF ticks > 0 THEN ticks - 1 ELSE 0

\* Time passes: a cookie whose age is reached is dropped.
Tick ==
  /\ jar.session > 0 \/ jar.csrf > 0
  /\ jar' = [session |-> Left(jar.session), csrf |-> Left(jar.csrf),
             token |-> IF jar.csrf > 1 THEN jar.token ELSE NoToken]
  /\ script' = IF jar.session = 1 THEN Unsteady ELSE script
  /\ UNCHANGED <<call, sent, metricVars>>

\* The client's id, or a new one.
RequestID(id, number) == IF id = NoId THEN number ELSE id

Send(p, e, bearer, id) ==
  /\ call[p] = Idle /\ sent < MaxRequests
  /\ sent' = sent + 1
  /\ call' = [call EXCEPT ![p] =
       [at |-> "sent", to |-> e, id |-> RequestID(id, sent'), codes |-> <<>>, number |-> sent',
        by |-> [session |-> jar.session > 0, csrf |-> jar.token,
                header |-> script[p].token, bearer |-> bearer],
        steady |-> script[p].steady]]
  /\ UNCHANGED <<jar, script, metricVars>>

SessionMaxAge == MaxAge

\* Mutant: the CSRF cookie is given less time than the session.
CsrfMaxAgeShorter == MaxAge - 1

CsrfMaxAge == MaxAge

LoggedIn(p) == call[p].to.route = "/v1/auth/login" /\ call[p].codes = <<200>>

\* The answer arrives, a successful login with both its cookies.
Arrive(p) ==
  /\ call[p].at = "counted"
  /\ call' = [call EXCEPT ![p] = Idle]
  /\ IF LoggedIn(p)
     THEN /\ jar' = [session |-> SessionMaxAge, csrf |-> CsrfMaxAge, token |-> call[p].number]
          /\ script' = Unsteady
     ELSE UNCHANGED <<jar, script>>
  /\ UNCHANGED <<sent, metricVars>>

-----------------------------------------------------------------------------
(* The wrappers of a service, outermost first on the way in. *)

Service(p) == call[p].to.service
Moves(p, at) == call' = [call EXCEPT ![p].at = at]

\* The wrappers of ResponseWriter keep the last code, net/http sends the first.
Recorded(p) == IF call[p].codes = <<>> THEN 200 ELSE call[p].codes[Len(call[p].codes)]
Status(p) == IF call[p].codes = <<>> THEN 200 ELSE Head(call[p].codes)

\* The auth service has no metrics, and the root mux of GraphQL no wrappers.
Measured(p) == Service(p) \in Metered /\ Wrapped(call[p].to)

\* Mutant: the gauge is not raised.
EnterUnraised(p) ==
  /\ call[p].at = "sent"
  /\ Moves(p, "inside")
  /\ entered' = IF Measured(p) THEN [entered EXCEPT ![Service(p)] = @ + 1] ELSE entered
  /\ UNCHANGED <<jar, script, sent, inflight, total, log, scrape, answered>>

\* Metrics, on the way in.
Enter(p) ==
  /\ call[p].at = "sent"
  /\ Moves(p, "inside")
  /\ IF Measured(p)
     THEN /\ inflight' = [inflight EXCEPT ![Service(p)] = @ + 1]
          /\ entered' = [entered EXCEPT ![Service(p)] = @ + 1]
     ELSE UNCHANGED <<inflight, entered>>
  /\ UNCHANGED <<jar, script, sent, total, log, scrape, answered>>

Scraping(p) == call[p].at = "inside" /\ Scrapes(call[p].to, call[p].by)
Scraped(p) == scrape[p].collected /\ scrape[p].unread = {}

\* The handlers; a scrape is answered when everything has been read.
Serve(p) ==
  /\ call[p].at = "inside"
  /\ Scraping(p) => Scraped(p)
  /\ \E codes \in Written(call[p].to, call[p].by) :
       call' = [call EXCEPT ![p].at = IF Wrapped(call[p].to) THEN "served" ELSE "counted",
                            ![p].codes = codes]
  /\ scrape' = [scrape EXCEPT ![p] = NoScrape]
  /\ UNCHANGED <<jar, script, sent, inflight, total, log, entered, answered>>

\* Mutant: the log is outside the wrapper that gives the request its id.
LogLineOuter(p) == [service |-> Service(p), id |-> NoId, status |-> Recorded(p)]

LogLine(p) == [service |-> Service(p), id |-> call[p].id, status |-> Recorded(p)]

AccessLog(p) ==
  /\ call[p].at = "served"
  /\ Moves(p, IF Service(p) \in Metered THEN "logged" ELSE "counted")
  /\ log' = log \cup {LogLine(p)}
  /\ UNCHANGED <<jar, script, sent, inflight, total, scrape, entered, answered>>

\* Mutant: the counter first.
DeferredSwapped == <<"counter", "gauge">>

\* The statements of the deferred function of Metrics.
Deferred == <<"gauge", "counter">>

\* The gauge is lowered whatever the answer.
GaugeDown(p) ==
  /\ inflight' = [inflight EXCEPT ![Service(p)] = @ - 1]
  /\ UNCHANGED <<total, scrape, answered>>

\* The scrapes of the service that are under way take note.
CountUp(p) ==
  /\ total' = [total EXCEPT ![Service(p)][Recorded(p)] = @ + 1]
  /\ answered' = [answered EXCEPT ![Service(p)][Status(p)] = @ + 1]
  /\ scrape' = [q \in Pages |->
       IF scrape[q].unread # {} /\ Service(q) = Service(p)
       THEN [scrape[q] EXCEPT !.left = @ + 1] ELSE scrape[q]]
  /\ UNCHANGED inflight

Leave(p) ==
  /\ \/ call[p].at = "logged" /\ Moves(p, "left")
     \/ call[p].at = "left" /\ Moves(p, "counted")
  /\ LET statement == Deferred[IF call[p].at = "logged" THEN 1 ELSE 2]
     IN IF statement = "gauge" THEN GaugeDown(p) ELSE CountUp(p)
  /\ UNCHANGED <<jar, script, sent, log, entered>>

-----------------------------------------------------------------------------
(* promhttp's handler gathers the registry of its service: the gauge, and the *)
(* series that exist when they are collected, each read at an instant of its  *)
(* own.                                                                        *)

BeginScrape(p) ==
  /\ Scraping(p) /\ scrape[p] = NoScrape
  /\ scrape' = [scrape EXCEPT ![p].unread = Metric]
  /\ UNCHANGED <<jar, script, call, sent, inflight, total, log, entered, answered>>

\* A status that has not been counted has no series.
Collect(p) ==
  /\ Scraping(p) /\ scrape[p].unread # {} /\ ~scrape[p].collected
  /\ scrape' = [scrape EXCEPT ![p].collected = TRUE,
       ![p].unread = {m \in @ : m = Gauge \/ total[Service(p)][m] > 0}]
  /\ UNCHANGED <<jar, script, call, sent, inflight, total, log, entered, answered>>

Value(s, m) == IF m = Gauge THEN inflight[s] ELSE total[s][m]

Read(p, m) ==
  /\ Scraping(p) /\ m \in scrape[p].unread
  /\ m = Gauge \/ scrape[p].collected
  /\ scrape' = [scrape EXCEPT ![p].seen = [@ EXCEPT ![m] = Value(Service(p), m)],
                              ![p].unread = @ \ {m}]
  /\ UNCHANGED <<jar, script, call, sent, inflight, total, log, entered, answered>>

Gather(p) == BeginScrape(p) \/ Collect(p) \/ (\E m \in Metric : Read(p, m))

Advance(p) == Enter(p) \/ Serve(p) \/ AccessLog(p) \/ Leave(p) \/ Arrive(p) \/ Gather(p)

PathNext ==
  \/ Tick
  \/ \E p \in Pages :
       \/ ReadCsrf(p) \/ Advance(p)
       \/ \E e \in Endpoints, bearer \in Bearers, id \in ClientIds \cup {NoId} :
            Send(p, e, bearer, id)

PathSpec == PathInit /\ [][PathNext]_pathVars

-----------------------------------------------------------------------------
Handled(p) == call[p].at \in {"served", "logged", "left", "counted"}
Within(s) ==
  {p \in Pages : /\ call[p].at \in {"inside", "served", "logged", "left"}
                 /\ Measured(p) /\ Service(p) = s}

\* A page whose script has read the CSRF token of a session that has not been
\* replaced by a login of another page, nor expired, since then is refused by
\* neither service, however logins and their answers are reordered.
SteadySessionPasses ==
  \A p \in Pages : Handled(p) /\ Service(p) \in Metered /\ call[p].steady =>
    Status(p) \notin {401, 403}

\* Every answer of an endpoint behind the wrappers can be found in the log of the
\* service by its id, with the status the client saw.
LoggedAsAnswered ==
  \A p \in Pages : call[p].at = "counted" /\ Wrapped(call[p].to) =>
    [service |-> Service(p), id |-> call[p].id, status |-> Status(p)] \in log

\* When no request of a service is behind its wrappers, the gauge is zero and the
\* counters agree with the answers that clients have seen of what is behind them.
QuietMetrics ==
  \A s \in Metered : Within(s) = {} => inflight[s] = 0 /\ total[s] = answered[s]

\* A sum over the statuses.
SumOf(n) ==
  (n[200] + n[201] + n[202] + n[204]) + (n[301] + n[400] + n[401] + n[403])
    + (n[404] + n[405] + n[422] + n[500])

\* A scrape, although it reads the metrics one after the other while requests come
\* and go, counts no request twice, in flight and completed, but one that leaves
\* while it is being gathered.
ScrapeCountsOnce ==
  \A p \in Pages : Scraped(p) =>
    scrape[p].seen[Gauge] + SumOf(scrape[p].seen) <= entered[Service(p)] + scrape[p].left
=============================================================================
