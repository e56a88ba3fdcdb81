------------------------- MODULE RequestPathProofs -------------------------
(***************************************************************************)
(* Sessions, logs and metrics, for any number of pages, requests and       *)
(* endpoints, and any lifetime of the cookies; and the readers of an       *)
(* Authorization header, for a header of any length.                       *)
(***************************************************************************)
EXTENDS RequestPath, Verifiers, FiniteSetTheorems, SequenceTheorems,
        WellFoundedInduction, TLAPS

\* What a handler writes: one code, which is no refusal for a session whose token
\* is repeated.
Singles(W) == \A codes \in W : \E code \in Statuses : codes = <<code>>

Trusted(c) == c.session /\ c.csrf # NoToken /\ c.header = c.csrf

LEMMA HandlersWriteOnce ==
  ASSUME NEW e \in Endpoint, NEW c \in Credentials
  PROVE  Singles(Written(e, c))
<1>1. \A S \in SUBSET Statuses : Singles(Codes(S))
  BY DEF Codes, Singles
<1>2. /\ {200, 500} \subseteq Statuses /\ {201, 400, 500} \subseteq Statuses
      /\ {200, 404, 500} \subseteq Statuses /\ {200, 400, 404, 500} \subseteq Statuses
      /\ {204, 404, 500} \subseteq Statuses /\ {202, 400, 500} \subseteq Statuses
      /\ {200, 400, 405, 422} \subseteq Statuses /\ {200, 400, 401, 500} \subseteq Statuses
      /\ \A n \in {200, 301, 401, 403, 404, 405} : {n} \subseteq Statuses
  BY DEF Statuses
<1>3. Singles(Codes({401})) /\ Singles(Codes({405})) /\ Singles(Codes({404})) /\ Singles(Codes({403}))
      /\ Singles(Codes({200})) /\ Singles(Codes({301}))
  BY <1>1, <1>2
<1>4. \A W : Singles(W) => Singles(Guarded(c, W))
  BY <1>3 DEF Guarded
<1>5. Singles(TasksHandler(e, c))
  BY <1>1, <1>2, <1>3, <1>4 DEF TasksHandler, GetAll, CreateTask
<1>6. Singles(TaskByID(e, c))
  BY <1>1, <1>2, <1>3, <1>4 DEF TaskByID, GetByID, UpdateTask, DeleteTask
<1>7. Singles(SearchTasks(e, c)) /\ Singles(ProcessTaskJob(e, c))
  BY <1>1, <1>2, <1>3, <1>4 DEF SearchTasks, ProcessTaskJob
<1>8. Singles(TasksRouter(e, c))
  BY <1>3, <1>5, <1>6, <1>7 DEF TasksRouter
<1>9. Singles(RootMux(e, c))
  <2>1. Singles(SessionAuth(e, c))
    BY <1>1, <1>2, <1>3 DEF SessionAuth, Srv
  <2>. QED BY <1>3, <2>1 DEF RootMux
<1>10. Singles(AuthRouter(e, c))
  BY <1>1, <1>2, <1>3 DEF AuthRouter, Login, Verify
<1>. QED BY <1>8, <1>9, <1>10 DEF Endpoint, Written

LEMMA TrustedPass ==
  ASSUME NEW e \in Endpoint, NEW c \in Credentials, Trusted(c), e.service \in Metered
  PROVE  \A codes \in Written(e, c) : codes[1] \notin {401, 403}
<1>1. Unforged(e, c)
  BY DEF Unforged, Trusted
<1>2. \A S : Guarded(c, S) = S
  BY DEF Guarded, Trusted
<1>3. \A S : \A codes \in Codes(S) : codes[1] \in S
  BY DEF Codes
<1>4. CASE e.service = "tasks"
  BY <1>1, <1>2, <1>3, <1>4
     DEF Written, TasksRouter, TasksHandler, TaskByID, SearchTasks, ProcessTaskJob,
         GetAll, CreateTask, GetByID, UpdateTask, DeleteTask
<1>5. CASE e.service = "graphql"
  BY <1>1, <1>3, <1>5 DEF Written, RootMux, SessionAuth, Srv, Trusted
<1>. QED BY <1>4, <1>5 DEF Metered

-----------------------------------------------------------------------------
(***************************************************************************)
(* The types, all but that the gauge is no less than zero and what scrapes *)
(* have read of it, and what one step does to a request.                   *)
(***************************************************************************)

PathTyped ==
  /\ jar \in [session: 0..MaxAge, csrf: 0..MaxAge, token: Tokens \cup {NoToken}]
  /\ script \in [Pages -> [token: Tokens \cup {NoToken}, steady: BOOLEAN]]
  /\ call \in [Pages -> Call \cup {Idle}]
  /\ sent \in 0..MaxRequests
  /\ inflight \in [Metered -> Int]
  /\ total \in [Metered -> [Statuses -> Nat]]
  /\ log \subseteq [service: {"tasks", "graphql", "auth"}, id: RequestIds, status: Statuses]
  /\ entered \in [Metered -> Nat]
  /\ answered \in [Metered -> [Statuses -> Nat]]

\* A request that is under way is of the type.
LEMMA BusyCall ==
  ASSUME call \in [Pages -> Call \cup {Idle}], NEW p \in Pages, call[p].at # "idle"
  PROVE  /\ call[p] \in Call /\ call[p] # Idle
         /\ call[p].to \in Endpoint /\ call[p].by \in Credentials /\ call[p].id \in RequestIds
         /\ call[p].codes \in Seq(Statuses) /\ call[p].number \in Tokens
BY DEF Call, Idle

LEMMA Moved ==
  ASSUME call \in [Pages -> Call \cup {Idle}], NEW p \in Pages, call[p].at # "idle",
         NEW at \in {"inside", "served", "logged", "left", "counted"},
         NEW codes \in Seq(Statuses),
         call' = [call EXCEPT ![p] = [@ EXCEPT !.at = at, !.codes = codes]]
  PROVE  /\ call' \in [Pages -> Call \cup {Idle}]
         /\ \A q \in Pages \ {p} : call'[q] = call[q]
         /\ call'[p].at = at /\ call'[p].codes = codes
         /\ call'[p].to = call[p].to /\ call'[p].by = call[p].by /\ call'[p].id = call[p].id
         /\ call'[p].number = call[p].number /\ call'[p].steady = call[p].steady
<1>. DEFINE r == [call[p] EXCEPT !.at = at, !.codes = codes]
<1>1. /\ r \in Call /\ r.at = at /\ r.codes = codes
      /\ r.to = call[p].to /\ r.by = call[p].by /\ r.id = call[p].id
      /\ r.number = call[p].number /\ r.steady = call[p].steady
  BY BusyCall DEF Call
<1>2. call' = [call EXCEPT ![p] = r]
  OBVIOUS
<1>. HIDE DEF r
<1>. QED BY <1>1, <1>2

\* Moves leaves the codes as they are.
LEMMA MovesIsMoved ==
  ASSUME call \in [Pages -> Call \cup {Idle}], NEW p \in Pages, call[p].at # "idle",
         NEW at \in {"inside", "served", "logged", "left", "counted"}, Moves(p, at)
  PROVE  call' = [call EXCEPT ![p] = [@ EXCEPT !.at = at, !.codes = call[p].codes]]
BY BusyCall DEF Moves, Call

\* What is kept of a request from the moment it is sent.
Same(p) ==
  /\ call[p] \in Call /\ call'[p] \in Call
  /\ call'[p].to = call[p].to /\ call'[p].by = call[p].by /\ call'[p].id = call[p].id
  /\ call'[p].steady = call[p].steady

SentStep(p) ==
  /\ call[p] = Idle /\ call'[p] \in Call
  /\ call'[p].at = "sent" /\ call'[p].codes = <<>>
  /\ call'[p].by.session = (jar.session > 0)
  /\ call'[p].by.csrf = jar.token /\ call'[p].by.header = script[p].token
  /\ call'[p].steady = script[p].steady

MovedStep(p, from, to) == call[p].at = from /\ call'[p].at = to /\ call'[p].codes = call[p].codes

CallStep(p) ==
  \/ call'[p] = call[p]
  \/ SentStep(p)
  \/ /\ Same(p)
     /\ \/ MovedStep(p, "sent", "inside")
        \/ /\ call[p].at = "inside"
           /\ call'[p].at = IF Wrapped(call[p].to) THEN "served" ELSE "counted"
           /\ call'[p].codes \in Written(call[p].to, call[p].by)
        \/ /\ MovedStep(p, "served", IF Service(p) \in Metered THEN "logged" ELSE "counted")
           /\ LogLine(p) \in log'
        \/ MovedStep(p, "logged", "left")
        \/ MovedStep(p, "left", "counted")
  \/ call[p].at = "counted" /\ call'[p] = Idle

LEMMA RecordedStatus ==
  ASSUME NEW p \in Pages, call[p] \in Call
  PROVE  Recorded(p) \in Statuses /\ Status(p) \in Statuses
BY DEF Recorded, Status, Call, Statuses

LEMMA MovedCallStep ==
  ASSUME PathTyped, NEW p \in Pages,
         NEW from \in {"sent", "served", "logged", "left"},
         NEW to \in {"inside", "logged", "left", "counted"},
         call[p].at = from, Moves(p, to)
  PROVE  /\ call' \in [Pages -> Call \cup {Idle}]
         /\ \A q \in Pages \ {p} : call'[q] = call[q]
         /\ Same(p) /\ MovedStep(p, from, to)
<1>0. call \in [Pages -> Call \cup {Idle}]
  BY DEF PathTyped
<1>1. call[p].codes \in Seq(Statuses) /\ call[p] \in Call /\ call[p].at # "idle"
  BY <1>0, BusyCall
<1>2. call' = [call EXCEPT ![p] = [@ EXCEPT !.at = to, !.codes = call[p].codes]]
  BY <1>0, <1>1, MovesIsMoved
<1>3. /\ call' \in [Pages -> Call \cup {Idle}]
      /\ \A q \in Pages \ {p} : call'[q] = call[q]
      /\ call'[p].at = to /\ call'[p].codes = call[p].codes
      /\ call'[p].to = call[p].to /\ call'[p].by = call[p].by /\ call'[p].id = call[p].id
      /\ call'[p].steady = call[p].steady
  BY <1>0, <1>1, <1>2, Moved
<1>4. call'[p] \in Call
  BY <1>3 DEF Idle
<1>. QED BY <1>1, <1>3, <1>4 DEF Same, MovedStep

LEMMA SentCallStep ==
  ASSUME PathTyped, NEW p \in Pages, NEW e \in Endpoints, NEW bearer \in Bearers,
         NEW id \in ClientIds \cup {NoId}, Send(p, e, bearer, id)
  PROVE  /\ call' \in [Pages -> Call \cup {Idle}]
         /\ \A q \in Pages \ {p} : call'[q] = call[q]
         /\ SentStep(p)
         /\ sent' \in 0..MaxRequests
<1>1. sent' \in Tokens /\ sent' \in 0..MaxRequests
  BY PathAssumption DEF Send, PathTyped
<1>2. RequestID(id, sent') \in RequestIds
  BY <1>1, PathAssumption DEF RequestID, RequestIds
<1>. DEFINE by == [session |-> jar.session > 0, csrf |-> jar.token,
                   header |-> script[p].token, bearer |-> bearer]
            r  == [at |-> "sent", to |-> e, id |-> RequestID(id, sent'), codes |-> <<>>,
                   number |-> sent', by |-> by, steady |-> script[p].steady]
<1>3. by \in Credentials
  BY PathAssumption DEF Credentials, PathTyped
<1>4. call' = [call EXCEPT ![p] = r] /\ call[p] = Idle
  BY DEF Send
<1>5. e \in Endpoint /\ <<>> \in Seq(Statuses) /\ script[p].steady \in BOOLEAN
  BY PathAssumption DEF PathTyped
<1>6. /\ by.session = (jar.session > 0) /\ by.csrf = jar.token /\ by.header = script[p].token
  OBVIOUS
<1>. HIDE DEF by
<1>7. r \in Call
  BY <1>1, <1>2, <1>3, <1>5 DEF Call
<1>8. r.at = "sent" /\ r.codes = <<>> /\ r.by = by /\ r.steady = script[p].steady
  OBVIOUS
<1>. HIDE DEF r
<1>9. call'[p] = r /\ call' \in [Pages -> Call \cup {Idle}] /\ \A q \in Pages \ {p} : call'[q] = call[q]
  BY <1>4, <1>7 DEF PathTyped
<1>. QED BY <1>1, <1>4, <1>6, <1>7, <1>8, <1>9 DEF SentStep

\* Reading the metrics changes nothing but what was read.
LEMMA GatherKeeps ==
  ASSUME NEW p \in Pages, Gather(p)
  PROVE  UNCHANGED <<jar, script, call, sent, inflight, total, log, entered, answered>>
BY DEF Gather, BeginScrape, Collect, Read

LEMMA CallStepHolds ==
  ASSUME PathTyped, [PathNext]_pathVars
  PROVE  /\ call' \in [Pages -> Call \cup {Idle}]
         /\ log \subseteq log'
         /\ \A q \in Pages : CallStep(q)
<1>. DEFINE Goal == /\ call' \in [Pages -> Call \cup {Idle}]
                    /\ log \subseteq log'
                    /\ \A q \in Pages : CallStep(q)
<1>1. CASE Tick \/ UNCHANGED pathVars \/ \E p \in Pages : ReadCsrf(p) \/ Gather(p)
  BY <1>1, GatherKeeps DEF Tick, ReadCsrf, pathVars, metricVars, PathTyped, CallStep
<1>2. ASSUME NEW p \in Pages, NEW e \in Endpoints, NEW bearer \in Bearers,
             NEW id \in ClientIds \cup {NoId}, Send(p, e, bearer, id)
      PROVE  Goal
  BY <1>2, SentCallStep DEF CallStep, Send, metricVars
<1>3. ASSUME NEW p \in Pages, Enter(p)
      PROVE  Goal
  BY <1>3, MovedCallStep DEF Enter, CallStep
<1>4. ASSUME NEW p \in Pages, Serve(p)
      PROVE  Goal
  <2>. DEFINE at == IF Wrapped(call[p].to) THEN "served" ELSE "counted"
  <2>1. call[p].at = "inside" /\ log' = log /\ at \in {"served", "counted"}
    BY <1>4 DEF Serve
  <2>2. /\ call[p] \in Call /\ call[p].to \in Endpoint /\ call[p].by \in Credentials
    BY <2>1, BusyCall DEF PathTyped
  <2>3. PICK codes \in Written(call[p].to, call[p].by) :
          call' = [call EXCEPT ![p].at = at, ![p].codes = codes]
    BY <1>4 DEF Serve
  <2>4. \E code \in Statuses : codes = <<code>>
    BY <2>2, <2>3, HandlersWriteOnce DEF Singles
  <2>5. codes \in Seq(Statuses)
    BY <2>4
  <2>. HIDE DEF at
  <2>6. call' = [call EXCEPT ![p] = [@ EXCEPT !.at = at, !.codes = codes]]
    BY <2>2, <2>3 DEF PathTyped, Call
  <2>7. /\ call' \in [Pages -> Call \cup {Idle}]
        /\ \A q \in Pages \ {p} : call'[q] = call[q]
        /\ call'[p].at = at /\ call'[p].codes = codes
        /\ call'[p].to = call[p].to /\ call'[p].by = call[p].by /\ call'[p].id = call[p].id
        /\ call'[p].steady = call[p].steady
    BY <2>1, <2>5, <2>6, Moved DEF PathTyped
  <2>8. call'[p] \in Call
    BY <2>1, <2>7 DEF Idle
  <2>9. Same(p)
    BY <2>2, <2>7, <2>8 DEF Same
  <2>. QED BY <2>1, <2>3, <2>7, <2>9 DEF CallStep, at
<1>5. ASSUME NEW p \in Pages, AccessLog(p)
      PROVE  Goal
  BY <1>5, MovedCallStep DEF AccessLog, CallStep
<1>6. ASSUME NEW p \in Pages, Leave(p)
      PROVE  Goal
  <2>1. log' = log
    BY <1>6 DEF Leave
  <2>. QED BY <1>6, <2>1, MovedCallStep DEF Leave, CallStep
<1>7. ASSUME NEW p \in Pages, Arrive(p)
      PROVE  Goal
  BY <1>7 DEF Arrive, CallStep, PathTyped, metricVars
<1>. QED BY <1>1, <1>2, <1>3, <1>4, <1>5, <1>6, <1>7 DEF PathNext, Advance

\* The codes of a request that has been handled are what its handler may write; only
\* what is behind the wrappers goes out through them.
AnswerInv ==
  \A p \in Pages :
    /\ Handled(p) => call[p].codes \in Written(call[p].to, call[p].by)
    /\ call[p].at \in {"served", "logged", "left"} => Wrapped(call[p].to)
    /\ call[p].at \in {"logged", "left"} => Service(p) \in Metered

LEMMA AnsweredOnce ==
  ASSUME PathTyped, AnswerInv, NEW p \in Pages, Handled(p)
  PROVE  Recorded(p) = Status(p) /\ Status(p) = call[p].codes[1] /\ Status(p) \in Statuses
<1>1. call[p].to \in Endpoint /\ call[p].by \in Credentials
  BY BusyCall DEF PathTyped, Handled
<1>2. \E code \in Statuses : call[p].codes = <<code>>
  BY <1>1, HandlersWriteOnce DEF AnswerInv, Singles
<1>. QED BY <1>2 DEF Recorded, Status

LEMMA AnswerStep ==
  PathTyped /\ AnswerInv /\ [PathNext]_pathVars => AnswerInv'
<1>. SUFFICES ASSUME PathTyped, AnswerInv, [PathNext]_pathVars, NEW p \in Pages
              PROVE  /\ Handled(p)' => call'[p].codes \in Written(call'[p].to, call'[p].by)
                     /\ call'[p].at \in {"served", "logged", "left"} => Wrapped(call'[p].to)
                     /\ call'[p].at \in {"logged", "left"} => call'[p].to.service \in Metered
  BY DEF AnswerInv, Service
<1>1. CallStep(p)
  BY CallStepHolds
<1>. QED BY <1>1 DEF CallStep, SentStep, Same, MovedStep, Handled, AnswerInv, Idle, Service

LEMMA CounterTyped ==
  ASSUME NEW t \in [Metered -> [Statuses -> Nat]], NEW s, NEW code \in Statuses
  PROVE  [t EXCEPT ![s][code] = @ + 1] \in [Metered -> [Statuses -> Nat]]
<1>1. CASE s \notin Metered
  BY <1>1
<1>2. CASE s \in Metered
  <2>1. \A f \in [Statuses -> Nat] : [f EXCEPT ![code] = @ + 1] \in [Statuses -> Nat]
    OBVIOUS
  <2>2. t[s] \in [Statuses -> Nat]
    BY <1>2
  <2>. QED BY <2>1, <2>2
<1>. QED BY <1>1, <1>2

\* The same, one down, for a gauge.
LEMMA GaugeTyped ==
  ASSUME NEW n \in [Metered -> Int], NEW s, NEW d \in Int
  PROVE  [n EXCEPT ![s] = @ + d] \in [Metered -> Int]
<1>1. CASE s \notin Metered
  BY <1>1
<1>2. CASE s \in Metered
  <2>1. n[s] + d \in Int
    BY <1>2
  <2>. QED BY <2>1
<1>. QED BY <1>1, <1>2

LEMMA PathTypedStep ==
  PathTyped /\ AnswerInv /\ [PathNext]_pathVars => PathTyped'
<1>. SUFFICES ASSUME PathTyped, AnswerInv, [PathNext]_pathVars
              PROVE  PathTyped'
  OBVIOUS
<1>. DEFINE Metrics == /\ inflight' \in [Metered -> Int]
                       /\ total' \in [Metered -> [Statuses -> Nat]]
                       /\ entered' \in [Metered -> Nat]
                       /\ answered' \in [Metered -> [Statuses -> Nat]]
            Cookies == /\ jar' \in [session: 0..MaxAge, csrf: 0..MaxAge, token: Tokens \cup {NoToken}]
                       /\ script' \in [Pages -> [token: Tokens \cup {NoToken}, steady: BOOLEAN]]
            Lines   == log' \subseteq [service: {"tasks", "graphql", "auth"}, id: RequestIds,
                                       status: Statuses]
<1>0. call' \in [Pages -> Call \cup {Idle}]
  BY CallStepHolds
<1>1. CASE Tick
  <2>1. Unsteady \in [Pages -> [token: Tokens \cup {NoToken}, steady: BOOLEAN]]
    BY DEF Unsteady, PathTyped
  <2>2. Left(jar.session) \in 0..MaxAge /\ Left(jar.csrf) \in 0..MaxAge
    BY PathAssumption DEF Left, PathTyped
  <2>3. Cookies
    BY <1>1, <2>1, <2>2 DEF Tick, PathTyped
  <2>. QED BY <1>0, <1>1, <2>3 DEF Tick, metricVars, PathTyped
<1>2. ASSUME NEW p \in Pages, ReadCsrf(p)
      PROVE  PathTyped'
  BY <1>0, <1>2 DEF ReadCsrf, metricVars, PathTyped
<1>3. ASSUME NEW p \in Pages, NEW e \in Endpoints, NEW bearer \in Bearers,
             NEW id \in ClientIds \cup {NoId}, Send(p, e, bearer, id)
      PROVE  PathTyped'
  <2>1. sent' \in 0..MaxRequests
    BY <1>3, SentCallStep
  <2>. QED BY <1>0, <1>3, <2>1 DEF Send, metricVars, PathTyped
<1>4. ASSUME NEW p \in Pages, Enter(p)
      PROVE  PathTyped'
  <2>1. CASE Measured(p)
    <3>1. /\ Service(p) \in Metered
          /\ inflight' = [inflight EXCEPT ![Service(p)] = @ + 1]
          /\ entered' = [entered EXCEPT ![Service(p)] = @ + 1]
      BY <1>4, <2>1 DEF Enter, Measured
    <3>2. inflight' \in [Metered -> Int]
      BY <3>1, GaugeTyped DEF PathTyped
    <3>3. entered' \in [Metered -> Nat]
      BY <3>1 DEF PathTyped
    <3>. QED BY <1>0, <1>4, <3>2, <3>3 DEF Enter, PathTyped
  <2>2. CASE ~Measured(p)
    BY <1>0, <1>4, <2>2 DEF Enter, PathTyped
  <2>. QED BY <2>1, <2>2
<1>5. ASSUME NEW p \in Pages, Serve(p)
      PROVE  PathTyped'
  BY <1>0, <1>5 DEF Serve, PathTyped
<1>6. ASSUME NEW p \in Pages, AccessLog(p)
      PROVE  PathTyped'
  <2>1. Recorded(p) \in Statuses
    BY <1>6, AnsweredOnce DEF AccessLog, Handled
  <2>2. call[p].id \in RequestIds /\ Service(p) \in {"tasks", "graphql", "auth"}
    BY <1>6, BusyCall DEF AccessLog, PathTyped, Service, Endpoint
  <2>3. Lines
    BY <1>6, <2>1, <2>2 DEF AccessLog, LogLine, PathTyped
  <2>. QED BY <1>0, <1>6, <2>3 DEF AccessLog, PathTyped
<1>7. ASSUME NEW p \in Pages, Leave(p)
      PROVE  PathTyped'
  <2>1. Metrics
    <3>1. CASE GaugeDown(p)
      <4>1. inflight' = [inflight EXCEPT ![Service(p)] = @ + (-1)]
        BY <3>1 DEF GaugeDown, PathTyped
      <4>2. inflight \in [Metered -> Int]
        BY DEF PathTyped
      <4>3. -1 \in Int
        OBVIOUS
      <4>4. [inflight EXCEPT ![Service(p)] = @ + (-1)] \in [Metered -> Int]
        BY ONLY <4>2, <4>3, GaugeTyped
      <4>5. inflight' \in [Metered -> Int]
        BY <4>1, <4>4
      <4>. QED BY <1>7, <3>1, <4>5 DEF Leave, GaugeDown, PathTyped
    <3>2. CASE CountUp(p)
      <4>1. Recorded(p) \in Statuses /\ Status(p) \in Statuses
        BY <1>7, AnsweredOnce DEF Leave, Handled
      <4>2. total' \in [Metered -> [Statuses -> Nat]] /\ answered' \in [Metered -> [Statuses -> Nat]]
        BY <3>2, <4>1, CounterTyped DEF CountUp, PathTyped
      <4>. QED BY <1>7, <3>2, <4>2 DEF Leave, CountUp, PathTyped
    <3>. QED BY <1>7, <3>1, <3>2 DEF Leave
  <2>. QED BY <1>0, <1>7, <2>1 DEF Leave, PathTyped
<1>8. ASSUME NEW p \in Pages, Arrive(p)
      PROVE  PathTyped'
  <2>1. Unsteady \in [Pages -> [token: Tokens \cup {NoToken}, steady: BOOLEAN]]
    BY DEF Unsteady, PathTyped
  <2>2. call[p].number \in Tokens /\ SessionMaxAge \in 0..MaxAge /\ CsrfMaxAge \in 0..MaxAge
    BY <1>8, BusyCall, PathAssumption DEF Arrive, PathTyped, SessionMaxAge, CsrfMaxAge
  <2>3. Cookies
    BY <1>8, <2>1, <2>2 DEF Arrive, PathTyped
  <2>. QED BY <1>0, <1>8, <2>3 DEF Arrive, metricVars, PathTyped
<1>9. CASE UNCHANGED pathVars \/ \E p \in Pages : Gather(p)
  BY <1>9, GatherKeeps DEF pathVars, metricVars, PathTyped
<1>. QED BY <1>1, <1>2, <1>3, <1>4, <1>5, <1>6, <1>7, <1>8, <1>9 DEF PathNext, Advance

LEMMA PathInitTyped == PathInit => PathTyped /\ AnswerInv
<1>. SUFFICES ASSUME PathInit
              PROVE  PathTyped /\ AnswerInv
  OBVIOUS
<1>1. AnswerInv
  BY DEF PathInit, AnswerInv, Handled, Idle
<1>2. /\ jar \in [session: 0..MaxAge, csrf: 0..MaxAge, token: Tokens \cup {NoToken}]
      /\ 0 \in 0..MaxRequests
  BY PathAssumption DEF PathInit
<1>. QED BY <1>1, <1>2 DEF PathInit, PathTyped

THEOREM PathTypedCorrect == PathSpec => [](PathTyped /\ AnswerInv)
BY PathInitTyped, PathTypedStep, AnswerStep, PTL DEF PathSpec

-----------------------------------------------------------------------------
(***************************************************************************)
(* A steady session.  Both cookies live and die together; what a script    *)
(* has read is what the jar holds for as long as its session is steady; a  *)
(* request of such a script carries credentials that every wrapper trusts. *)
(***************************************************************************)

JarInv == jar.session = jar.csrf /\ (jar.csrf > 0 => jar.token # NoToken)

ScriptInv ==
  \A p \in Pages : script[p].steady => jar.session > 0 /\ script[p].token = jar.token

SteadyInv == \A p \in Pages : call[p] \in Call /\ call[p].steady => Trusted(call[p].by)

SessionInv == JarInv /\ ScriptInv /\ SteadyInv

LEMMA SteadyStep ==
  PathTyped /\ SessionInv /\ [PathNext]_pathVars => SteadyInv'
<1>. SUFFICES ASSUME PathTyped, SessionInv, [PathNext]_pathVars, NEW p \in Pages,
                     call'[p] \in Call, call'[p].steady
              PROVE  Trusted(call'[p].by)
  BY DEF SteadyInv
<1>1. CallStep(p)
  BY CallStepHolds
<1>2. CASE call'[p] = call[p]
  BY <1>2 DEF SessionInv, SteadyInv
<1>3. CASE SentStep(p)
  <2>1. jar.session > 0 /\ script[p].token = jar.token /\ jar.token # NoToken
    BY <1>3 DEF SentStep, SessionInv, ScriptInv, JarInv
  <2>. QED BY <1>3, <2>1 DEF SentStep, Trusted
<1>4. CASE Same(p)
  BY <1>4 DEF Same, SessionInv, SteadyInv
<1>5. CASE call'[p] = Idle
  BY <1>5 DEF Call, Idle
<1>. QED BY <1>1, <1>2, <1>3, <1>4, <1>5 DEF CallStep

\* With both cookies given the same time, a tick drops both or none.
LEMMA CookiesStep ==
  PathTyped /\ SessionInv /\ [PathNext]_pathVars => JarInv' /\ ScriptInv'
<1>. SUFFICES ASSUME PathTyped, SessionInv, [PathNext]_pathVars
              PROVE  JarInv' /\ ScriptInv'
  OBVIOUS
<1>0. /\ jar \in [session: 0..MaxAge, csrf: 0..MaxAge, token: Tokens \cup {NoToken}]
      /\ script \in [Pages -> [token: Tokens \cup {NoToken}, steady: BOOLEAN]]
      /\ MaxAge \in Nat
      /\ JarInv /\ ScriptInv
  BY PathAssumption DEF PathTyped, SessionInv
<1>u. \A p \in Pages : ~Unsteady[p].steady
  BY <1>0 DEF Unsteady
<1>1. CASE Tick
  <2>1. /\ jar'.session = Left(jar.session) /\ jar'.csrf = Left(jar.csrf)
        /\ jar'.token = IF jar.csrf > 1 THEN jar.token ELSE NoToken
        /\ script' = IF jar.session = 1 THEN Unsteady ELSE script
    BY <1>1 DEF Tick
  <2>2. JarInv'
    BY <1>0, <2>1 DEF JarInv, Left
  <2>3. CASE jar.session = 1
    BY <1>u, <2>1, <2>2, <2>3 DEF ScriptInv
  <2>4. CASE jar.session # 1
    BY <1>0, <2>1, <2>4 DEF ScriptInv, JarInv, Left
  <2>. QED BY <2>2, <2>3, <2>4
<1>2. ASSUME NEW p \in Pages, ReadCsrf(p)
      PROVE  JarInv' /\ ScriptInv'
  <2>1. jar' = jar /\ script' = [script EXCEPT ![p] = [token |-> jar.token, steady |-> jar.session > 0]]
    BY <1>2 DEF ReadCsrf
  <2>2. ASSUME NEW q \in Pages, script'[q].steady
        PROVE  jar'.session > 0 /\ script'[q].token = jar'.token
    <3>1. CASE q = p
      BY <1>0, <2>1, <2>2, <3>1
    <3>2. CASE q # p
      BY <1>0, <2>1, <2>2, <3>2 DEF ScriptInv
    <3>. QED BY <3>1, <3>2
  <2>3. JarInv'
    BY <1>0, <2>1 DEF JarInv
  <2>. QED BY <2>2, <2>3 DEF ScriptInv
<1>3. CASE UNCHANGED <<jar, script>>
  BY <1>0, <1>3 DEF JarInv, ScriptInv
<1>4. ASSUME NEW p \in Pages, Arrive(p), LoggedIn(p)
      PROVE  JarInv' /\ ScriptInv'
  <2>1. call[p].number \in Tokens
    BY <1>4, BusyCall DEF Arrive, PathTyped
  <2>2. /\ jar'.session = MaxAge /\ jar'.csrf = MaxAge /\ jar'.token = call[p].number
        /\ script' = Unsteady
    BY <1>4 DEF Arrive, SessionMaxAge, CsrfMaxAge
  <2>. QED BY <1>u, <2>1, <2>2, TokenAssumption DEF JarInv, ScriptInv
<1>5. ASSUME NEW p \in Pages, Advance(p)
      PROVE  UNCHANGED <<jar, script>> \/ (Arrive(p) /\ LoggedIn(p))
  BY <1>5, GatherKeeps DEF Advance, Enter, Serve, AccessLog, Leave, Arrive
<1>6. ASSUME NEW p \in Pages, NEW e \in Endpoints, NEW bearer \in Bearers,
             NEW id \in ClientIds \cup {NoId}, Send(p, e, bearer, id)
      PROVE  UNCHANGED <<jar, script>>
  BY <1>6 DEF Send
<1>7. CASE UNCHANGED pathVars
  BY <1>3, <1>7 DEF pathVars
<1>. QED BY <1>1, <1>2, <1>3, <1>4, <1>5, <1>6, <1>7 DEF PathNext

LEMMA SessionInit == PathInit => SessionInv
<1>. SUFFICES ASSUME PathInit
              PROVE  SessionInv
  OBVIOUS
<1>1. JarInv /\ ScriptInv
  BY DEF PathInit, JarInv, ScriptInv
<1>2. SteadyInv
  BY DEF PathInit, SteadyInv, Call, Idle
<1>. QED BY <1>1, <1>2 DEF SessionInv

LEMMA SessionImpliesPasses ==
  PathTyped /\ AnswerInv /\ SessionInv => SteadySessionPasses
<1>. SUFFICES ASSUME PathTyped, AnswerInv, SessionInv, NEW p \in Pages,
                     Handled(p), Service(p) \in Metered, call[p].steady
              PROVE  Status(p) \notin {401, 403}
  BY DEF SteadySessionPasses
<1>1. call[p] \in Call /\ call[p].to \in Endpoint /\ call[p].by \in Credentials
  BY BusyCall DEF PathTyped, Handled
<1>2. Trusted(call[p].by) /\ call[p].to.service \in Metered
  BY <1>1 DEF SessionInv, SteadyInv, Service
<1>3. call[p].codes \in Written(call[p].to, call[p].by)
  BY DEF AnswerInv
<1>4. call[p].codes[1] \notin {401, 403}
  BY <1>1, <1>2, <1>3, TrustedPass
<1>. QED BY <1>4, AnsweredOnce

\* A page that sends the token of a live session is refused by neither service.
THEOREM SteadySessions == PathSpec => []SteadySessionPasses
<1>1. PathSpec => []SessionInv
  <2>1. PathTyped /\ AnswerInv /\ SessionInv /\ [PathNext]_pathVars => SessionInv'
    BY CookiesStep, SteadyStep DEF SessionInv
  <2>. QED BY <2>1, SessionInit, PathTypedCorrect, PTL DEF PathSpec
<1>. QED BY <1>1, SessionImpliesPasses, PathTypedCorrect, PTL

-----------------------------------------------------------------------------
(***************************************************************************)
(* Every answer of what is behind the wrappers is in the log.              *)
(***************************************************************************)

LogInv ==
  \A p \in Pages : call[p].at \in {"logged", "left", "counted"} /\ Wrapped(call[p].to) =>
    LogLine(p) \in log

LEMMA LogStep ==
  PathTyped /\ LogInv /\ [PathNext]_pathVars => LogInv'
<1>. SUFFICES ASSUME PathTyped, LogInv, [PathNext]_pathVars, NEW p \in Pages,
                     call'[p].at \in {"logged", "left", "counted"}, Wrapped(call'[p].to)
              PROVE  LogLine(p)' \in log'
  BY DEF LogInv
<1>1. CallStep(p) /\ log \subseteq log'
  BY CallStepHolds
<1>2. ASSUME call'[p].to = call[p].to, call'[p].id = call[p].id, call'[p].codes = call[p].codes
      PROVE  LogLine(p)' = LogLine(p)
  BY <1>2 DEF LogLine, Service, Recorded
<1>3. CASE call'[p] = call[p]
  BY <1>1, <1>2, <1>3 DEF LogInv
<1>4. CASE SentStep(p)
  BY <1>4 DEF SentStep
<1>5. CASE Same(p) /\ call[p].at \in {"logged", "left"} /\ call'[p].codes = call[p].codes
  BY <1>1, <1>2, <1>5 DEF Same, LogInv
<1>6. CASE Same(p) /\ LogLine(p) \in log' /\ call'[p].codes = call[p].codes
  BY <1>2, <1>6 DEF Same
<1>7. CASE call'[p] = Idle
  BY <1>7 DEF Idle
<1>8. CASE Same(p) /\ call'[p].at = IF Wrapped(call[p].to) THEN "served" ELSE "counted"
  BY <1>8 DEF Same
<1>. QED BY <1>1, <1>3, <1>4, <1>5, <1>6, <1>7, <1>8 DEF CallStep, MovedStep

\* Every answer of an endpoint behind the wrappers (of the GraphQL service only
\* "/graphql" is) can be found in the log with the status that was sent.
THEOREM AnswersLogged == PathSpec => []LoggedAsAnswered
<1>1. PathInit => LogInv
  BY DEF PathInit, LogInv, Idle
<1>2. PathTyped /\ AnswerInv /\ LogInv => LoggedAsAnswered
  <2>. SUFFICES ASSUME PathTyped, AnswerInv, LogInv, NEW p \in Pages, call[p].at = "counted",
                       Wrapped(call[p].to)
                PROVE  [service |-> Service(p), id |-> call[p].id, status |-> Status(p)] \in log
    BY DEF LoggedAsAnswered
  <2>1. Recorded(p) = Status(p)
    BY AnsweredOnce DEF Handled
  <2>. QED BY <2>1 DEF LogInv, LogLine
<1>. QED BY <1>1, <1>2, LogStep, PathTypedCorrect, PTL DEF PathSpec

-----------------------------------------------------------------------------
(***************************************************************************)
(* The gauge counts the requests between the statement that raises it and  *)
(* the one that lowers it; the counters count the answers.                 *)
(***************************************************************************)

Inside(s) ==
  {p \in Pages : /\ call[p].at \in {"inside", "served", "logged"}
                 /\ Measured(p) /\ Service(p) = s}

GaugeInv == \A s \in Metered : inflight[s] = Cardinality(Inside(s))

MetricInv == GaugeInv /\ total = answered

LEMMA InsideFinite ==
  ASSUME NEW s
  PROVE  IsFiniteSet(Inside(s)) /\ Cardinality(Inside(s)) \in Nat
<1>1. Inside(s) \subseteq Pages
  BY DEF Inside
<1>2. IsFiniteSet(Inside(s))
  BY <1>1, PathAssumption, FS_Subset
<1>. QED BY <1>2, FS_CardinalityType

\* A step that moves a request neither in nor out.
Under(r) ==
  r.at \in {"inside", "served", "logged"} /\ r.to.service \in Metered /\ Wrapped(r.to)
StaysPut(p) ==
  /\ Under(call'[p]) <=> Under(call[p])
  /\ Under(call[p]) => call'[p].to = call[p].to

LEMMA InsideSame ==
  ASSUME NEW s, \A p \in Pages : StaysPut(p) \/ (Service(p) # s /\ call'[p].to.service # s)
  PROVE  Inside(s)' = Inside(s)
BY DEF StaysPut, Under, Inside, Measured, Service

LEMMA GaugeSame ==
  ASSUME GaugeInv, inflight' = inflight, \A p \in Pages : StaysPut(p)
  PROVE  GaugeInv'
<1>1. \A s : Inside(s)' = Inside(s)
  BY InsideSame
<1>. QED BY <1>1 DEF GaugeInv

\* A request that enters is counted, one that leaves no longer.
LEMMA GaugeUp ==
  ASSUME PathTyped, GaugeInv, NEW p \in Pages, Enter(p)
  PROVE  GaugeInv'
<1>1. /\ \A q \in Pages \ {p} : call'[q] = call[q]
      /\ call'[p].to = call[p].to /\ call[p].at = "sent" /\ call'[p].at = "inside"
  BY MovedCallStep DEF Enter, Same, MovedStep
<1>. SUFFICES ASSUME NEW s \in Metered
              PROVE  inflight'[s] = Cardinality(Inside(s)')
  BY DEF GaugeInv
<1>i. inflight \in [Metered -> Int]
  BY DEF PathTyped
<1>2. CASE Service(p) = s /\ Measured(p)
  <2>1. Inside(s)' = Inside(s) \cup {p} /\ p \notin Inside(s)
    BY <1>1, <1>2 DEF Inside, Service, Measured
  <2>2. Cardinality(Inside(s) \cup {p}) = Cardinality(Inside(s)) + 1
    BY <2>1, InsideFinite, FS_AddElement
  <2>3. inflight'[s] = inflight[s] + 1
    BY <1>2, <1>i DEF Enter
  <2>. QED BY <2>1, <2>2, <2>3 DEF GaugeInv
<1>3. CASE Service(p) # s \/ ~Measured(p)
  <2>1. Inside(s)' = Inside(s)
    BY <1>1, <1>3 DEF Inside, Service, Measured
  <2>2. inflight'[s] = inflight[s]
    BY <1>3, <1>i DEF Enter
  <2>. QED BY <2>1, <2>2 DEF GaugeInv
<1>. QED BY <1>2, <1>3

LEMMA GaugeLowered ==
  ASSUME PathTyped, AnswerInv, GaugeInv, NEW p \in Pages, call[p].at = "logged",
         Moves(p, "left"), GaugeDown(p)
  PROVE  GaugeInv'
<1>1. /\ \A q \in Pages \ {p} : call'[q] = call[q]
      /\ call'[p].to = call[p].to /\ call[p].at = "logged" /\ call'[p].at = "left"
  BY MovedCallStep DEF Same, MovedStep
<1>. SUFFICES ASSUME NEW s \in Metered
              PROVE  inflight'[s] = Cardinality(Inside(s)')
  BY DEF GaugeInv
<1>i. inflight \in [Metered -> Int]
  BY DEF PathTyped
<1>2. CASE Service(p) = s
  <2>1. Inside(s)' = Inside(s) \ {p} /\ p \in Inside(s)
    BY <1>1, <1>2 DEF Inside, Service, Measured, AnswerInv
  <2>2. Cardinality(Inside(s) \ {p}) = Cardinality(Inside(s)) - 1
    BY <2>1, InsideFinite, FS_RemoveElement
  <2>3. inflight'[s] = inflight[s] - 1
    BY <1>2, <1>i DEF GaugeDown
  <2>. QED BY <2>1, <2>2, <2>3 DEF GaugeInv
<1>3. CASE Service(p) # s
  <2>1. Inside(s)' = Inside(s)
    BY <1>1, <1>3 DEF Inside, Service, Measured
  <2>2. inflight'[s] = inflight[s]
    BY <1>3, <1>i DEF GaugeDown
  <2>. QED BY <2>1, <2>2 DEF GaugeInv
<1>. QED BY <1>2, <1>3

LEMMA MetricStep ==
  PathTyped /\ AnswerInv /\ MetricInv /\ [PathNext]_pathVars => MetricInv'
<1>. SUFFICES ASSUME PathTyped, AnswerInv, MetricInv, [PathNext]_pathVars
              PROVE  MetricInv'
  OBVIOUS
<1>0. GaugeInv /\ total = answered
  BY DEF MetricInv
<1>c. call' \in [Pages -> Call \cup {Idle}] /\ \A q \in Pages : CallStep(q)
  BY CallStepHolds
<1>1. CASE UNCHANGED <<call, inflight, total, answered>>
  <2>1. \A q \in Pages : StaysPut(q)
    BY <1>1 DEF StaysPut
  <2>. QED BY <1>0, <1>1, <2>1, GaugeSame DEF MetricInv
<1>2. ASSUME NEW p \in Pages, NEW e \in Endpoints, NEW bearer \in Bearers,
             NEW id \in ClientIds \cup {NoId}, Send(p, e, bearer, id)
      PROVE  MetricInv'
  <2>1. SentStep(p) /\ \A q \in Pages \ {p} : call'[q] = call[q]
    BY <1>2, SentCallStep
  <2>2. \A q \in Pages : StaysPut(q)
    BY <2>1 DEF StaysPut, Under, SentStep, Idle
  <2>. QED BY <1>0, <1>2, <2>2, GaugeSame DEF Send, MetricInv, metricVars
<1>3. ASSUME NEW p \in Pages, Enter(p)
      PROVE  MetricInv'
  <2>1. GaugeInv'
    BY <1>0, <1>3, GaugeUp
  <2>. QED BY <1>0, <1>3, <2>1 DEF Enter, MetricInv
<1>4. ASSUME NEW p \in Pages, Serve(p)
      PROVE  MetricInv'
  <2>1. call[p].at = "inside" /\ \A q \in Pages \ {p} : call'[q] = call[q]
    BY <1>4 DEF Serve, PathTyped
  <2>2. \/ Same(p) /\ call'[p].at = IF Wrapped(call[p].to) THEN "served" ELSE "counted"
        \/ call'[p] = call[p]
    BY <1>c, <2>1 DEF CallStep, SentStep, MovedStep, Idle
  <2>3. \A q \in Pages : StaysPut(q)
    BY <2>1, <2>2 DEF StaysPut, Under, Same
  <2>. QED BY <1>0, <1>4, <2>3, GaugeSame DEF Serve, MetricInv
<1>5. ASSUME NEW p \in Pages, AccessLog(p)
      PROVE  MetricInv'
  <2>1. /\ \A q \in Pages \ {p} : call'[q] = call[q]
        /\ call'[p].to = call[p].to /\ call[p].at = "served"
        /\ call'[p].at = IF Service(p) \in Metered THEN "logged" ELSE "counted"
    BY <1>5, MovedCallStep DEF AccessLog, Same, MovedStep
  <2>2. \A s \in Metered : Inside(s)' = Inside(s)
    BY <2>1 DEF Inside, Service, Measured
  <2>3. inflight' = inflight /\ total' = total /\ answered' = answered
    BY <1>5 DEF AccessLog
  <2>. QED BY <1>0, <2>2, <2>3 DEF GaugeInv, MetricInv
<1>6. ASSUME NEW p \in Pages, Leave(p)
      PROVE  MetricInv'
  <2>1. CASE call[p].at = "logged"
    <3>1. Moves(p, "left") /\ GaugeDown(p)
      BY <1>6, <2>1 DEF Leave, Deferred
    <3>. QED BY <1>0, <2>1, <3>1, GaugeLowered DEF GaugeDown, MetricInv
  <2>2. CASE call[p].at = "left"
    <3>1. Moves(p, "counted") /\ CountUp(p)
      BY <1>6, <2>2 DEF Leave, Deferred
    <3>2. \A q \in Pages \ {p} : call'[q] = call[q]
      BY <2>2, <3>1, MovedCallStep
    <3>3. call'[p].at = "counted"
      BY <2>2, <3>1, MovedCallStep DEF MovedStep
    <3>4. \A q \in Pages : StaysPut(q)
      BY <2>2, <3>2, <3>3 DEF StaysPut, Under
    <3>5. GaugeInv'
      BY <1>0, <3>1, <3>4, GaugeSame DEF CountUp
    <3>6. Recorded(p) = Status(p)
      BY <2>2, AnsweredOnce DEF Handled
    <3>7. total' = answered'
      BY <1>0, <3>1, <3>6 DEF CountUp
    <3>. QED BY <3>5, <3>7 DEF MetricInv
  <2>. QED BY <1>6, <2>1, <2>2 DEF Leave
<1>7. ASSUME NEW p \in Pages, Arrive(p)
      PROVE  MetricInv'
  <2>1. call[p].at = "counted" /\ call'[p] = Idle /\ \A q \in Pages \ {p} : call'[q] = call[q]
    BY <1>7 DEF Arrive, PathTyped
  <2>2. \A q \in Pages : StaysPut(q)
    BY <2>1 DEF StaysPut, Under, Idle
  <2>. QED BY <1>0, <1>7, <2>2, GaugeSame DEF Arrive, MetricInv, metricVars
<1>8. Tick \/ (\E p \in Pages : ReadCsrf(p) \/ Gather(p)) \/ UNCHANGED pathVars
        => UNCHANGED <<call, inflight, total, answered>>
  BY GatherKeeps DEF Tick, ReadCsrf, pathVars, metricVars
<1>. QED BY <1>1, <1>2, <1>3, <1>4, <1>5, <1>6, <1>7, <1>8 DEF PathNext, Advance

LEMMA MetricInit == PathInit => MetricInv
<1>. SUFFICES ASSUME PathInit
              PROVE  MetricInv
  OBVIOUS
<1>1. \A s : Inside(s) = {}
  BY DEF PathInit, Inside, Idle
<1>. QED BY <1>1, FS_EmptySet DEF PathInit, MetricInv, GaugeInv

LEMMA MetricCorrect == PathSpec => []MetricInv
BY MetricInit, MetricStep, PathTypedCorrect, PTL DEF PathSpec

\* Between requests nothing is in flight, and of what is behind the wrappers nothing
\* is left uncounted.
THEOREM MetricsQuiet == PathSpec => []QuietMetrics
<1>1. MetricInv => QuietMetrics
  <2>. SUFFICES ASSUME MetricInv, NEW s \in Metered, Within(s) = {}
                PROVE  inflight[s] = 0 /\ total[s] = answered[s]
    BY DEF QuietMetrics
  <2>1. Inside(s) = {}
    BY DEF Inside, Within
  <2>. QED BY <2>1, FS_EmptySet DEF MetricInv, GaugeInv
<1>. QED BY <1>1, MetricCorrect, PTL

-----------------------------------------------------------------------------
(***************************************************************************)
(* A request between the statement that lowers the gauge and the one that  *)
(* raises the counter is in neither.  Every request that has entered is in *)
(* Within or counted.                                                      *)
(***************************************************************************)

Completed(s) == SumOf(total[s])

EnteredInv == \A s \in Metered : Cardinality(Within(s)) + Completed(s) = entered[s]

LEMMA WithinFinite ==
  ASSUME NEW s
  PROVE  IsFiniteSet(Within(s)) /\ Cardinality(Within(s)) \in Nat
<1>1. Within(s) \subseteq Pages
  BY DEF Within
<1>. QED BY <1>1, PathAssumption, FS_Subset, FS_CardinalityType

LEMMA CompletedTyped ==
  ASSUME PathTyped, NEW s \in Metered
  PROVE  Completed(s) \in Nat
<1>1. total[s] \in [Statuses -> Nat]
  BY DEF PathTyped
<1>2. \A code \in Statuses : total[s][code] \in Nat
  BY <1>1
<1>. QED BY <1>2 DEF Completed, SumOf, Statuses

\* One counter of all is raised.
LEMMA SumUp ==
  ASSUME NEW f, \A c \in Statuses : f[c] \in Nat, NEW code \in Statuses,
         NEW g, \A c \in Statuses : g[c] = IF c = code THEN f[c] + 1 ELSE f[c]
  PROVE  SumOf(g) = SumOf(f) + 1
<1>. DEFINE up(c) == IF c = code THEN 1 ELSE 0
<1>1. \A c \in Statuses : g[c] = f[c] + up(c) /\ f[c] \in Nat /\ up(c) \in Nat
  OBVIOUS
<1>2. (up(200) + up(201) + up(202) + up(204)) + (up(301) + up(400) + up(401) + up(403))
        + (up(404) + up(405) + up(422) + up(500)) = 1
  BY DEF Statuses
<1>. DEFINE low(n) == n[200] + n[201] + n[202] + n[204]
            mid(n) == n[301] + n[400] + n[401] + n[403]
            high(n) == n[404] + n[405] + n[422] + n[500]
            ul == up(200) + up(201) + up(202) + up(204)
            um == up(301) + up(400) + up(401) + up(403)
            uh == up(404) + up(405) + up(422) + up(500)
<1>3. low(g) = low(f) + ul /\ low(f) \in Int /\ ul \in Int
  <2>1. /\ g[200] = f[200] + up(200) /\ f[200] \in Int /\ up(200) \in Int
        /\ g[201] = f[201] + up(201) /\ f[201] \in Int /\ up(201) \in Int
        /\ g[202] = f[202] + up(202) /\ f[202] \in Int /\ up(202) \in Int
        /\ g[204] = f[204] + up(204) /\ f[204] \in Int /\ up(204) \in Int
    BY <1>1 DEF Statuses
  <2>. HIDE DEF up
  <2>. QED BY ONLY <2>1
<1>4. mid(g) = mid(f) + um /\ mid(f) \in Int /\ um \in Int
  <2>1. /\ g[301] = f[301] + up(301) /\ f[301] \in Int /\ up(301) \in Int
        /\ g[400] = f[400] + up(400) /\ f[400] \in Int /\ up(400) \in Int
        /\ g[401] = f[401] + up(401) /\ f[401] \in Int /\ up(401) \in Int
        /\ g[403] = f[403] + up(403) /\ f[403] \in Int /\ up(403) \in Int
    BY <1>1 DEF Statuses
  <2>. HIDE DEF up
  <2>. QED BY ONLY <2>1
<1>5. high(g) = high(f) + uh /\ high(f) \in Int /\ uh \in Int
  <2>1. /\ g[404] = f[404] + up(404) /\ f[404] \in Int /\ up(404) \in Int
        /\ g[405] = f[405] + up(405) /\ f[405] \in Int /\ up(405) \in Int
        /\ g[422] = f[422] + up(422) /\ f[422] \in Int /\ up(422) \in Int
        /\ g[500] = f[500] + up(500) /\ f[500] \in Int /\ up(500) \in Int
    BY <1>1 DEF Statuses
  <2>. HIDE DEF up
  <2>. QED BY ONLY <2>1
<1>. HIDE DEF up
<1>6. ul + um + uh = 1
  BY <1>2
<1>7. SumOf(f) = low(f) + mid(f) + high(f) /\ SumOf(g) = low(g) + mid(g) + high(g)
  BY DEF SumOf
<1>. HIDE DEF low, mid, high, ul, um, uh
<1>. QED BY ONLY <1>3, <1>4, <1>5, <1>6, <1>7

LEMMA CompletedUp ==
  ASSUME PathTyped, NEW p \in Pages, Recorded(p) \in Statuses, CountUp(p), NEW s \in Metered
  PROVE  Completed(s)' = IF s = Service(p) THEN Completed(s) + 1 ELSE Completed(s)
<1>1. /\ total \in [Metered -> [Statuses -> Nat]]
      /\ total' = [total EXCEPT ![Service(p)][Recorded(p)] = @ + 1]
  BY DEF PathTyped, CountUp
<1>. DEFINE f == total[s]
            g == total'[s]
<1>2. CASE s = Service(p)
  <2>2. /\ f \in [Statuses -> Nat]
        /\ \A code \in Statuses : g[code] = IF code = Recorded(p) THEN f[code] + 1 ELSE f[code]
    BY <1>1, <1>2
  <2>3. \A code \in Statuses : f[code] \in Nat
    BY <2>2
  <2>4. Completed(s)' = SumOf(g) /\ Completed(s) = SumOf(f)
    BY DEF Completed
  <2>. HIDE DEF f, g
  <2>5. SumOf(g) = SumOf(f) + 1
    BY <2>2, <2>3, SumUp
  <2>. QED BY <1>2, <2>4, <2>5
<1>3. CASE s # Service(p)
  <2>1. total'[s] = total[s]
    BY <1>1, <1>3
  <2>. QED BY <1>3, <2>1 DEF Completed
<1>. QED BY <1>2, <1>3

\* A step that moves a request neither in nor out, nor counts one.
LEMMA EnteredSame ==
  ASSUME EnteredInv, \A s \in Metered : Within(s)' = Within(s), UNCHANGED <<total, entered>>
  PROVE  EnteredInv'
<1>1. \A s \in Metered : Completed(s)' = Completed(s)
  BY DEF Completed
<1>. QED BY <1>1 DEF EnteredInv

LEMMA EnteredUp ==
  ASSUME PathTyped, EnteredInv, NEW p \in Pages, Enter(p)
  PROVE  EnteredInv'
<1>1. /\ \A q \in Pages \ {p} : call'[q] = call[q]
      /\ call'[p].to = call[p].to /\ call[p].at = "sent" /\ call'[p].at = "inside"
  BY MovedCallStep DEF Enter, Same, MovedStep
<1>2. UNCHANGED total /\ entered \in [Metered -> Nat]
  BY DEF Enter, PathTyped
<1>. SUFFICES ASSUME NEW s \in Metered
              PROVE  Cardinality(Within(s)') + Completed(s)' = entered'[s]
  BY DEF EnteredInv
<1>3. Completed(s)' = Completed(s) /\ Completed(s) \in Nat
  BY <1>2, CompletedTyped DEF Completed
<1>4. CASE Service(p) = s /\ Measured(p)
  <2>1. Within(s)' = Within(s) \cup {p} /\ p \notin Within(s)
    BY <1>1, <1>4 DEF Within, Service, Measured
  <2>2. Cardinality(Within(s) \cup {p}) = Cardinality(Within(s)) + 1
    BY <2>1, WithinFinite, FS_AddElement
  <2>3. entered'[s] = entered[s] + 1
    BY <1>2, <1>4 DEF Enter
  <2>. QED BY <1>3, <2>1, <2>2, <2>3, WithinFinite DEF EnteredInv
<1>5. CASE Service(p) # s \/ ~Measured(p)
  <2>1. Within(s)' = Within(s)
    BY <1>1, <1>5 DEF Within, Service, Measured
  <2>2. entered'[s] = entered[s]
    BY <1>2, <1>5 DEF Enter
  <2>. QED BY <1>3, <2>1, <2>2 DEF EnteredInv
<1>. QED BY <1>4, <1>5

LEMMA EnteredCounted ==
  ASSUME PathTyped, AnswerInv, EnteredInv, NEW p \in Pages, call[p].at = "left",
         Moves(p, "counted"), CountUp(p), UNCHANGED entered
  PROVE  EnteredInv'
<1>1. /\ \A q \in Pages \ {p} : call'[q] = call[q]
      /\ call'[p].to = call[p].to /\ call'[p].at = "counted"
  BY MovedCallStep DEF Same, MovedStep
<1>2. Recorded(p) \in Statuses
  BY AnsweredOnce DEF Handled
<1>. SUFFICES ASSUME NEW s \in Metered
              PROVE  Cardinality(Within(s)') + Completed(s)' = entered[s]
  BY DEF EnteredInv
<1>3. /\ Completed(s)' = IF s = Service(p) THEN Completed(s) + 1 ELSE Completed(s)
      /\ Completed(s) \in Nat
  BY <1>2, CompletedUp, CompletedTyped
<1>4. CASE Service(p) = s
  <2>1. Within(s)' = Within(s) \ {p} /\ p \in Within(s)
    BY <1>1, <1>4 DEF Within, Service, Measured, AnswerInv
  <2>2. Cardinality(Within(s) \ {p}) = Cardinality(Within(s)) - 1
    BY <2>1, WithinFinite, FS_RemoveElement
  <2>. QED BY <1>3, <1>4, <2>1, <2>2, WithinFinite DEF EnteredInv
<1>5. CASE Service(p) # s
  <2>1. Within(s)' = Within(s)
    BY <1>1, <1>5 DEF Within, Service, Measured
  <2>. QED BY <1>3, <1>5, <2>1 DEF EnteredInv
<1>. QED BY <1>4, <1>5

LEMMA EnteredStep ==
  PathTyped /\ AnswerInv /\ EnteredInv /\ [PathNext]_pathVars => EnteredInv'
<1>. SUFFICES ASSUME PathTyped, AnswerInv, EnteredInv, [PathNext]_pathVars
              PROVE  EnteredInv'
  OBVIOUS
<1>. DEFINE In(r) == /\ r.at \in {"inside", "served", "logged", "left"}
                     /\ r.to.service \in Metered /\ Wrapped(r.to)
<1>0. ASSUME UNCHANGED <<total, entered>>,
             NEW p \in Pages, \A q \in Pages \ {p} : call'[q] = call[q],
             In(call'[p]) <=> In(call[p]), In(call[p]) => call'[p].to = call[p].to
      PROVE  EnteredInv'
  <2>1. \A s \in Metered : Within(s)' = Within(s)
    BY <1>0 DEF Within, Service, Measured
  <2>. QED BY <1>0, <2>1, EnteredSame
<1>1. CASE UNCHANGED <<call, total, entered>>
  <2>1. \A s \in Metered : Within(s)' = Within(s)
    BY <1>1 DEF Within, Service, Measured
  <2>. QED BY <1>1, <2>1, EnteredSame
<1>2. ASSUME NEW p \in Pages, NEW e \in Endpoints, NEW bearer \in Bearers,
             NEW id \in ClientIds \cup {NoId}, Send(p, e, bearer, id)
      PROVE  EnteredInv'
  <2>1. SentStep(p) /\ \A q \in Pages \ {p} : call'[q] = call[q]
    BY <1>2, SentCallStep
  <2>2. ~In(call[p]) /\ ~In(call'[p])
    BY <2>1 DEF SentStep, Idle
  <2>. QED BY <1>0, <1>2, <2>1, <2>2 DEF Send, metricVars
<1>3. ASSUME NEW p \in Pages, Serve(p)
      PROVE  EnteredInv'
  <2>1. call[p].at = "inside" /\ \A q \in Pages \ {p} : call'[q] = call[q]
    BY <1>3 DEF Serve, PathTyped
  <2>2. CallStep(p)
    BY CallStepHolds
  <2>3. \/ Same(p) /\ call'[p].at = IF Wrapped(call[p].to) THEN "served" ELSE "counted"
        \/ call'[p] = call[p]
    BY <2>1, <2>2 DEF CallStep, SentStep, MovedStep, Idle
  <2>4. (In(call'[p]) <=> In(call[p])) /\ call'[p].to = call[p].to
    BY <2>1, <2>3 DEF Same
  <2>. QED BY <1>0, <1>3, <2>1, <2>4 DEF Serve
<1>4. ASSUME NEW p \in Pages, AccessLog(p)
      PROVE  EnteredInv'
  <2>1. /\ \A q \in Pages \ {p} : call'[q] = call[q]
        /\ call'[p].to = call[p].to /\ call[p].at = "served"
        /\ call'[p].at = IF Service(p) \in Metered THEN "logged" ELSE "counted"
    BY <1>4, MovedCallStep DEF AccessLog, Same, MovedStep
  <2>2. \A s \in Metered : Within(s)' = Within(s)
    BY <2>1 DEF Within, Service, Measured
  <2>. QED BY <1>4, <2>2, EnteredSame DEF AccessLog
<1>5. ASSUME NEW p \in Pages, Leave(p)
      PROVE  EnteredInv'
  <2>1. CASE call[p].at = "logged"
    <3>1. Moves(p, "left") /\ GaugeDown(p) /\ UNCHANGED entered
      BY <1>5, <2>1 DEF Leave, Deferred
    <3>2. /\ \A q \in Pages \ {p} : call'[q] = call[q]
          /\ call'[p].to = call[p].to /\ call'[p].at = "left"
      BY <2>1, <3>1, MovedCallStep DEF Same, MovedStep
    <3>. QED BY <1>0, <2>1, <3>1, <3>2 DEF GaugeDown
  <2>2. CASE call[p].at = "left"
    BY <1>5, <2>2, EnteredCounted DEF Leave, Deferred
  <2>. QED BY <1>5, <2>1, <2>2 DEF Leave
<1>6. ASSUME NEW p \in Pages, Arrive(p)
      PROVE  EnteredInv'
  <2>1. call[p].at = "counted" /\ call'[p] = Idle /\ \A q \in Pages \ {p} : call'[q] = call[q]
    BY <1>6 DEF Arrive, PathTyped
  <2>2. ~In(call[p]) /\ ~In(call'[p])
    BY <2>1 DEF Idle
  <2>. QED BY <1>0, <1>6, <2>1, <2>2 DEF Arrive, metricVars
<1>7. Tick \/ (\E p \in Pages : ReadCsrf(p) \/ Gather(p)) \/ UNCHANGED pathVars
        => UNCHANGED <<call, total, entered>>
  BY GatherKeeps DEF Tick, ReadCsrf, pathVars, metricVars
<1>. QED BY <1>1, <1>2, <1>3, <1>4, <1>5, <1>6, <1>7, EnteredUp DEF PathNext, Advance

LEMMA EnteredInit == PathInit => EnteredInv
<1>. SUFFICES ASSUME PathInit
              PROVE  EnteredInv
  OBVIOUS
<1>1. \A s : Within(s) = {}
  BY DEF PathInit, Within, Idle
<1>2. \A s \in Metered : Completed(s) = 0
  BY DEF PathInit, Completed, SumOf, Statuses
<1>. SUFFICES ASSUME NEW s \in Metered
              PROVE  Cardinality(Within(s)) + Completed(s) = entered[s]
  BY DEF EnteredInv
<1>3. Cardinality(Within(s)) = 0
  BY <1>1, FS_EmptySet
<1>. QED BY <1>2, <1>3 DEF PathInit

LEMMA EnteredCorrect == PathSpec => []EnteredInv
BY EnteredInit, EnteredStep, PathTypedCorrect, PTL DEF PathSpec

\* The gauge is no more than what has entered and is not counted.
LEMMA GaugeAndCounters ==
  ASSUME PathTyped, MetricInv, EnteredInv, NEW s \in Metered
  PROVE  inflight[s] \in Nat /\ inflight[s] + Completed(s) <= entered[s]
<1>1. inflight[s] = Cardinality(Inside(s)) /\ Cardinality(Within(s)) + Completed(s) = entered[s]
  BY DEF MetricInv, GaugeInv, EnteredInv
<1>2. Cardinality(Inside(s)) <= Cardinality(Within(s)) /\ Cardinality(Inside(s)) \in Nat
  <2>1. Inside(s) \in SUBSET Within(s)
    BY DEF Inside, Within
  <2>. QED BY <2>1, InsideFinite, WithinFinite, FS_Subset
<1>. QED BY <1>1, <1>2, CompletedTyped, WithinFinite

-----------------------------------------------------------------------------
(***************************************************************************)
(* Scrapes.  What a scrape will have seen if it reads the rest at once is  *)
(* at no time more than the requests that have entered and those that have *)
(* been counted since it began.                                            *)
(***************************************************************************)
ScrapeTyped == scrape \in [Pages -> Scrape]

LEMMA MetricKeys ==
  /\ Gauge \in Metric /\ Gauge \notin Statuses /\ Statuses \subseteq Metric
  /\ Metric = Statuses \cup {Gauge}
BY DEF Metric, Gauge, Statuses

LEMMA NoScrapeTyped ==
  /\ NoScrape \in Scrape /\ NoScrape.unread = {} /\ ~NoScrape.collected /\ NoScrape.left = 0
  /\ \A m \in Metric : NoScrape.seen[m] = 0
BY DEF NoScrape, Scrape

LEMMA ScrapeFields ==
  ASSUME ScrapeTyped, NEW p \in Pages
  PROVE  /\ scrape[p] \in Scrape
         /\ scrape[p].unread \in SUBSET Metric /\ scrape[p].collected \in BOOLEAN
         /\ scrape[p].seen \in [Metric -> Nat] /\ scrape[p].left \in Nat
BY DEF ScrapeTyped, Scrape

LEMMA ValueTyped ==
  ASSUME PathTyped, MetricInv, NEW s \in Metered, NEW m \in Metric
  PROVE  Value(s, m) \in Nat
<1>1. inflight[s] \in Nat
  BY InsideFinite DEF MetricInv, GaugeInv
<1>2. total[s] \in [Statuses -> Nat]
  BY DEF PathTyped
<1>. QED BY <1>1, <1>2, MetricKeys DEF Value

\* A page that scrapes does so at a service that has metrics.
LEMMA ScrapingMetered ==
  ASSUME NEW p \in Pages, Scraping(p)
  PROVE  Service(p) \in Metered
BY DEF Scraping, Scrapes, Service, Metered

\* What a step makes of a page's own scrape.
ScrapeStep(p) ==
  \/ scrape'[p] = scrape[p]
  \/ BeginScrape(p) \/ Collect(p) \/ (\E m \in Metric : Read(p, m))
  \/ scrape'[p] = NoScrape
  \/ /\ scrape[p].unread # {}
     /\ \E q \in Pages : CountUp(q) /\ Service(q) = Service(p)
     /\ scrape'[p] = [scrape[p] EXCEPT !.left = @ + 1]

LEMMA ScrapeStepHolds ==
  ASSUME ScrapeTyped, [PathNext]_pathVars
  PROVE  \A p \in Pages : ScrapeStep(p)
<1>. SUFFICES ASSUME NEW p \in Pages
              PROVE  ScrapeStep(p)
  OBVIOUS
<1>1. CASE scrape' = scrape
  BY <1>1 DEF ScrapeStep
<1>2. ASSUME NEW q \in Pages, Serve(q)
      PROVE  ScrapeStep(p)
  <2>1. scrape' = [scrape EXCEPT ![q] = NoScrape]
    BY <1>2 DEF Serve
  <2>2. scrape'[p] = NoScrape \/ scrape'[p] = scrape[p]
    BY <2>1 DEF ScrapeTyped
  <2>. QED BY <2>2 DEF ScrapeStep
<1>3. ASSUME NEW q \in Pages, Gather(q)
      PROVE  ScrapeStep(p)
  <2>1. CASE q = p
    BY <1>3, <2>1 DEF Gather, ScrapeStep
  <2>2. CASE q # p
    <3>1. scrape'[p] = scrape[p]
      BY <1>3, <2>2 DEF Gather, BeginScrape, Collect, Read, ScrapeTyped
    <3>. QED BY <3>1 DEF ScrapeStep
  <2>. QED BY <2>1, <2>2
<1>4. ASSUME NEW q \in Pages, CountUp(q)
      PROVE  ScrapeStep(p)
  <2>1. scrape'[p] = IF scrape[p].unread # {} /\ Service(p) = Service(q)
                     THEN [scrape[p] EXCEPT !.left = @ + 1] ELSE scrape[p]
    BY <1>4 DEF CountUp
  <2>. QED BY <1>4, <2>1 DEF ScrapeStep
<1>5. ASSUME NEW q \in Pages, Leave(q)
      PROVE  ScrapeStep(p)
  <2>1. CountUp(q) \/ GaugeDown(q)
    BY <1>5 DEF Leave
  <2>. QED BY <1>1, <1>4, <2>1 DEF GaugeDown
<1>6. ASSUME NEW q \in Pages, Enter(q) \/ AccessLog(q) \/ Arrive(q) \/ ReadCsrf(q)
      PROVE  scrape' = scrape
  BY <1>6 DEF Enter, AccessLog, Arrive, ReadCsrf, metricVars
<1>7. ASSUME NEW q \in Pages, NEW e \in Endpoints, NEW bearer \in Bearers,
             NEW id \in ClientIds \cup {NoId}, Send(q, e, bearer, id)
      PROVE  scrape' = scrape
  BY <1>7 DEF Send, metricVars
<1>8. CASE Tick \/ UNCHANGED pathVars
  BY <1>1, <1>8 DEF Tick, pathVars, metricVars
<1>. QED BY <1>1, <1>2, <1>3, <1>5, <1>6, <1>7, <1>8 DEF PathNext, Advance

\* What the parts of a reading scrape become.
LEMMA ReadParts ==
  ASSUME ScrapeTyped, NEW p \in Pages, NEW m \in Metric, Read(p, m)
  PROVE  /\ scrape'[p].unread = scrape[p].unread \ {m}
         /\ scrape'[p].collected = scrape[p].collected /\ scrape'[p].left = scrape[p].left
         /\ scrape'[p].seen = [scrape[p].seen EXCEPT ![m] = Value(Service(p), m)]
<1>. DEFINE r == [scrape[p] EXCEPT
                    !.seen = [scrape[p].seen EXCEPT ![m] = Value(Service(p), m)],
                    !.unread = scrape[p].unread \ {m}]
<1>1. scrape' = [scrape EXCEPT ![p] = r]
  BY DEF Read, ScrapeTyped, Scrape
<1>2. scrape'[p] = r
  BY <1>1 DEF ScrapeTyped
<1>3. /\ r.unread = scrape[p].unread \ {m}
      /\ r.collected = scrape[p].collected /\ r.left = scrape[p].left
      /\ r.seen = [scrape[p].seen EXCEPT ![m] = Value(Service(p), m)]
  BY ScrapeFields DEF Scrape
<1>. QED BY <1>2, <1>3

LEMMA CollectParts ==
  ASSUME ScrapeTyped, NEW p \in Pages, Collect(p)
  PROVE  /\ scrape'[p].unread
              = {m \in scrape[p].unread : m = Gauge \/ total[Service(p)][m] > 0}
         /\ scrape'[p].collected /\ scrape'[p].left = scrape[p].left
         /\ scrape'[p].seen = scrape[p].seen
<1>. DEFINE r == [scrape[p] EXCEPT !.collected = TRUE,
                    !.unread = {m \in scrape[p].unread : m = Gauge \/ total[Service(p)][m] > 0}]
<1>1. scrape' = [scrape EXCEPT ![p] = r]
  BY DEF Collect, ScrapeTyped, Scrape
<1>2. scrape'[p] = r
  BY <1>1 DEF ScrapeTyped
<1>3. /\ r.unread = {m \in scrape[p].unread : m = Gauge \/ total[Service(p)][m] > 0}
      /\ r.collected /\ r.left = scrape[p].left /\ r.seen = scrape[p].seen
  BY ScrapeFields DEF Scrape
<1>. QED BY <1>2, <1>3

LEMMA BeginParts ==
  ASSUME ScrapeTyped, NEW p \in Pages, BeginScrape(p)
  PROVE  /\ scrape'[p].unread = Metric /\ ~scrape'[p].collected /\ scrape'[p].left = 0
         /\ scrape'[p].seen = NoScrape.seen
<1>1. scrape' = [scrape EXCEPT ![p] = [NoScrape EXCEPT !.unread = Metric]]
  BY DEF BeginScrape, ScrapeTyped
<1>2. scrape'[p] = [NoScrape EXCEPT !.unread = Metric]
  BY <1>1 DEF ScrapeTyped
<1>. QED BY <1>2, NoScrapeTyped DEF NoScrape

\* A record with the four fields.
LEMMA MadeScrape ==
  ASSUME NEW unread \in SUBSET Metric, NEW collected \in BOOLEAN,
         NEW seen \in [Metric -> Nat], NEW left \in Nat
  PROVE  [unread |-> unread, collected |-> collected, seen |-> seen, left |-> left] \in Scrape
BY DEF Scrape

\* A step does not add or remove a field: scrape'[p] is typed when its parts are.
LEMMA ScrapeTypedStep ==
  PathTyped /\ MetricInv /\ ScrapeTyped /\ [PathNext]_pathVars => ScrapeTyped'
<1>. SUFFICES ASSUME PathTyped, MetricInv, ScrapeTyped, [PathNext]_pathVars
              PROVE  ScrapeTyped'
  OBVIOUS
<1>1. ASSUME NEW q \in Pages, Serve(q)
      PROVE  ScrapeTyped'
  BY <1>1, NoScrapeTyped DEF Serve, ScrapeTyped
<1>2. ASSUME NEW q \in Pages, BeginScrape(q)
      PROVE  ScrapeTyped'
  <2>1. [NoScrape EXCEPT !.unread = Metric] \in Scrape
    BY DEF NoScrape, Scrape
  <2>2. scrape' = [scrape EXCEPT ![q] = [NoScrape EXCEPT !.unread = Metric]]
    BY <1>2 DEF BeginScrape, ScrapeTyped
  <2>. QED BY <2>1, <2>2 DEF ScrapeTyped
<1>3. ASSUME NEW q \in Pages, Collect(q)
      PROVE  ScrapeTyped'
  <2>. DEFINE u == {m \in scrape[q].unread : m = Gauge \/ total[Service(q)][m] > 0}
              r == [scrape[q] EXCEPT !.collected = TRUE, !.unread = u]
  <2>1. u \in SUBSET Metric
    BY ScrapeFields
  <2>2. scrape' = [scrape EXCEPT ![q] = r]
    BY <1>3 DEF Collect, ScrapeTyped, Scrape
  <2>. HIDE DEF u
  <2>3. r \in Scrape
    BY <2>1, ScrapeFields DEF Scrape
  <2>. QED BY <2>2, <2>3 DEF ScrapeTyped
<1>4. ASSUME NEW q \in Pages, NEW m \in Metric, Read(q, m)
      PROVE  ScrapeTyped'
  <2>. DEFINE seen == [scrape[q].seen EXCEPT ![m] = Value(Service(q), m)]
              r == [scrape[q] EXCEPT !.seen = seen, !.unread = scrape[q].unread \ {m}]
  <2>1. Value(Service(q), m) \in Nat
    BY <1>4, ScrapingMetered, ValueTyped DEF Read
  <2>2. seen \in [Metric -> Nat]
    BY <2>1, ScrapeFields
  <2>3. scrape' = [scrape EXCEPT ![q] = r]
    BY <1>4 DEF Read, ScrapeTyped, Scrape
  <2>. HIDE DEF seen
  <2>4. r \in Scrape
    BY <2>2, ScrapeFields DEF Scrape
  <2>. QED BY <2>3, <2>4 DEF ScrapeTyped
<1>5. ASSUME NEW q \in Pages, CountUp(q)
      PROVE  ScrapeTyped'
  <2>1. \A p \in Pages : [scrape[p] EXCEPT !.left = @ + 1] \in Scrape
    BY ScrapeFields DEF Scrape
  <2>. QED BY <1>5, <2>1, ScrapeFields DEF CountUp, ScrapeTyped
<1>6. ASSUME NEW q \in Pages, Enter(q) \/ AccessLog(q) \/ Arrive(q) \/ ReadCsrf(q) \/ GaugeDown(q)
      PROVE  scrape' = scrape
  BY <1>6 DEF Enter, AccessLog, Arrive, ReadCsrf, GaugeDown, metricVars
<1>7. ASSUME NEW q \in Pages, NEW e \in Endpoints, NEW bearer \in Bearers,
             NEW id \in ClientIds \cup {NoId}, Send(q, e, bearer, id)
      PROVE  scrape' = scrape
  BY <1>7 DEF Send, metricVars
<1>8. Tick \/ UNCHANGED pathVars => scrape' = scrape
  BY DEF Tick, pathVars, metricVars
<1>9. ASSUME NEW q \in Pages, Leave(q)
      PROVE  CountUp(q) \/ GaugeDown(q)
  BY <1>9 DEF Leave
<1>10. CASE scrape' = scrape
  BY <1>10 DEF ScrapeTyped
<1>. QED BY <1>1, <1>2, <1>3, <1>4, <1>5, <1>6, <1>7, <1>8, <1>9, <1>10
         DEF PathNext, Advance, Gather

LEMMA ScrapeTypedCorrect == PathSpec => []ScrapeTyped
<1>1. PathInit => ScrapeTyped
  BY NoScrapeTyped DEF PathInit, ScrapeTyped
<1>. QED BY <1>1, ScrapeTypedStep, PathTypedCorrect, MetricCorrect, PTL DEF PathSpec

\* Every variable has its type; the gauge is a number of requests.
THEOREM PathTypeCorrect == PathSpec => []PathTypeOK
<1>1. PathTyped /\ MetricInv /\ ScrapeTyped => PathTypeOK
  <2>. SUFFICES ASSUME PathTyped, MetricInv, ScrapeTyped
                PROVE  PathTypeOK
    OBVIOUS
  <2>1. inflight \in [Metered -> Int] /\ \A s \in Metered : inflight[s] \in Nat
    BY InsideFinite DEF PathTyped, MetricInv, GaugeInv
  <2>2. inflight \in [Metered -> Nat]
    BY <2>1
  <2>. QED BY <2>2 DEF PathTyped, PathTypeOK, ScrapeTyped
<1>. QED BY <1>1, MetricCorrect, PathTypedCorrect, ScrapeTypedCorrect, PTL

-----------------------------------------------------------------------------
(***************************************************************************)
(* What scrapes count.                                                     *)
(***************************************************************************)
LEMMA SumSame ==
  ASSUME NEW f, NEW g, \A c \in Statuses : g[c] = f[c]
  PROVE  SumOf(g) = SumOf(f)
BY DEF SumOf, Statuses

LEMMA SumTyped ==
  ASSUME NEW f, \A c \in Statuses : f[c] \in Nat
  PROVE  SumOf(f) \in Nat
BY DEF SumOf, Statuses

LEMMA SumAtMost ==
  ASSUME NEW f, \A c \in Statuses : f[c] \in Nat, NEW code \in Statuses,
         NEW g, \A c \in Statuses \ {code} : g[c] = f[c],
         g[code] = f[code] \/ g[code] = f[code] + 1
  PROVE  SumOf(g) \in Nat /\ SumOf(g) <= SumOf(f) + 1
<1>1. SumOf(f) \in Nat
  BY SumTyped
<1>2. CASE g[code] = f[code]
  <2>1. SumOf(g) = SumOf(f)
    BY <1>2, SumSame
  <2>. QED BY <1>1, <2>1
<1>3. CASE g[code] = f[code] + 1
  <2>1. \A c \in Statuses : g[c] = IF c = code THEN f[c] + 1 ELSE f[c]
    BY <1>3
  <2>2. SumOf(g) = SumOf(f) + 1
    BY <2>1, SumUp
  <2>. QED BY <1>1, <2>2
<1>. QED BY <1>2, <1>3

Started(p) == scrape[p].unread # {} \/ scrape[p].collected
Seen(p, m) == IF m \in scrape[p].unread THEN Value(Service(p), m) ELSE scrape[p].seen[m]
SeenAll(p) == [m \in Metric |-> Seen(p, m)]

ScrapeInv ==
  \A p \in Pages : Started(p) =>
    /\ Scraping(p)
    /\ \A m \in scrape[p].unread : scrape[p].seen[m] = 0
    /\ Seen(p, Gauge) + SumOf(SeenAll(p)) <= entered[Service(p)] + scrape[p].left

LEMMA SeenTyped ==
  ASSUME PathTyped, MetricInv, ScrapeTyped, NEW p \in Pages, Scraping(p)
  PROVE  /\ \A m \in Metric : Seen(p, m) \in Nat
         /\ \A c \in Statuses : SeenAll(p)[c] = Seen(p, c) /\ SeenAll(p)[c] \in Nat
         /\ SumOf(SeenAll(p)) \in Nat
<1>1. \A m \in Metric : Seen(p, m) \in Nat
  BY ScrapingMetered, ValueTyped, ScrapeFields DEF Seen
<1>2. \A c \in Statuses : SeenAll(p)[c] = Seen(p, c) /\ SeenAll(p)[c] \in Nat
  BY <1>1, MetricKeys DEF SeenAll
<1>. QED BY <1>1, <1>2, SumTyped

\* Only the answer takes a request out of its handler.
LEMMA InsideMoves ==
  ASSUME PathTyped, [PathNext]_pathVars, NEW p \in Pages, call[p].at = "inside"
  PROVE  call'[p] = call[p] \/ Serve(p)
<1>1. ASSUME NEW q \in Pages, NEW e \in Endpoints, NEW bearer \in Bearers,
             NEW id \in ClientIds \cup {NoId}, Send(q, e, bearer, id)
      PROVE  call'[p] = call[p]
  BY <1>1, SentCallStep DEF SentStep, Idle
<1>2. ASSUME NEW q \in Pages, Enter(q) \/ AccessLog(q) \/ Leave(q)
      PROVE  call'[p] = call[p]
  BY <1>2 DEF Enter, AccessLog, Leave, Moves, PathTyped
<1>3. ASSUME NEW q \in Pages, Arrive(q)
      PROVE  call'[p] = call[p]
  BY <1>3 DEF Arrive, PathTyped
<1>4. ASSUME NEW q \in Pages, Serve(q)
      PROVE  call'[p] = call[p] \/ Serve(p)
  BY <1>4 DEF Serve, PathTyped
<1>5. Tick \/ (\E q \in Pages : ReadCsrf(q) \/ Gather(q)) \/ UNCHANGED pathVars => call' = call
  BY GatherKeeps DEF Tick, ReadCsrf, pathVars
<1>. QED BY <1>1, <1>2, <1>3, <1>4, <1>5 DEF PathNext, Advance

\* What a step makes of the metrics of a service.
MetricsStill(s) ==
  /\ entered'[s] = entered[s] /\ total'[s] = total[s]
  /\ inflight'[s] = inflight[s] \/ inflight'[s] = inflight[s] - 1
MetricsEntered(s) ==
  /\ entered'[s] = entered[s] + 1 /\ total'[s] = total[s]
  /\ inflight'[s] = inflight[s] + 1
MetricsCounted(s) ==
  /\ entered'[s] = entered[s] /\ inflight'[s] = inflight[s]
  /\ \E q \in Pages : CountUp(q) /\ Service(q) = s
  /\ \E code \in Statuses : total'[s] = [total[s] EXCEPT ![code] = @ + 1]

LEMMA MetricsStep ==
  ASSUME PathTyped, AnswerInv, [PathNext]_pathVars, NEW s \in Metered
  PROVE  MetricsStill(s) \/ MetricsEntered(s) \/ MetricsCounted(s)
<1>. DEFINE Goal == MetricsStill(s) \/ MetricsEntered(s) \/ MetricsCounted(s)
<1>0. /\ inflight \in [Metered -> Int] /\ entered \in [Metered -> Nat]
      /\ total \in [Metered -> [Statuses -> Nat]]
  BY DEF PathTyped
<1>1. CASE UNCHANGED <<inflight, total, entered>>
  BY <1>1 DEF MetricsStill
<1>2. ASSUME NEW q \in Pages, Enter(q)
      PROVE  Goal
  <2>1. CASE Measured(q) /\ Service(q) = s
    <3>1. inflight'[s] = inflight[s] + 1 /\ entered'[s] = entered[s] + 1 /\ total' = total
      BY <1>0, <1>2, <2>1 DEF Enter
    <3>. QED BY <3>1 DEF MetricsEntered
  <2>2. CASE ~(Measured(q) /\ Service(q) = s)
    <3>1. inflight'[s] = inflight[s] /\ entered'[s] = entered[s] /\ total' = total
      BY <1>0, <1>2, <2>2 DEF Enter
    <3>. QED BY <3>1 DEF MetricsStill
  <2>. QED BY <2>1, <2>2
<1>3. ASSUME NEW q \in Pages, Leave(q)
      PROVE  Goal
  <2>1. entered' = entered /\ (GaugeDown(q) \/ CountUp(q))
    BY <1>3 DEF Leave
  <2>2. CASE GaugeDown(q)
    <3>1. total' = total /\ (inflight'[s] = inflight[s] \/ inflight'[s] = inflight[s] - 1)
      BY <1>0, <2>2 DEF GaugeDown
    <3>. QED BY <2>1, <3>1 DEF MetricsStill
  <2>3. CASE CountUp(q) /\ Service(q) = s
    <3>1. Recorded(q) \in Statuses
      BY <1>3, AnsweredOnce DEF Leave, Handled
    <3>2. total'[s] = [total[s] EXCEPT ![Recorded(q)] = @ + 1]
      BY <1>0, <2>3 DEF CountUp
    <3>3. inflight' = inflight
      BY <2>3 DEF CountUp
    <3>. QED BY <2>1, <2>3, <3>1, <3>2, <3>3 DEF MetricsCounted
  <2>4. CASE CountUp(q) /\ Service(q) # s
    <3>1. total'[s] = total[s] /\ inflight' = inflight
      BY <1>0, <2>4 DEF CountUp
    <3>. QED BY <2>1, <3>1 DEF MetricsStill
  <2>. QED BY <2>1, <2>2, <2>3, <2>4
<1>4. ASSUME NEW q \in Pages, Serve(q) \/ AccessLog(q) \/ Arrive(q) \/ ReadCsrf(q) \/ Gather(q)
      PROVE  UNCHANGED <<inflight, total, entered>>
  BY <1>4, GatherKeeps DEF Serve, AccessLog, Arrive, ReadCsrf, metricVars
<1>5. ASSUME NEW q \in Pages, NEW e \in Endpoints, NEW bearer \in Bearers,
             NEW id \in ClientIds \cup {NoId}, Send(q, e, bearer, id)
      PROVE  UNCHANGED <<inflight, total, entered>>
  BY <1>5 DEF Send, metricVars
<1>6. Tick \/ UNCHANGED pathVars => UNCHANGED <<inflight, total, entered>>
  BY DEF Tick, pathVars, metricVars
<1>. QED BY <1>1, <1>2, <1>3, <1>4, <1>5, <1>6 DEF PathNext, Advance

\* A scrape under way while others do something.
LEMMA ScrapeBystander ==
  ASSUME PathTyped, AnswerInv, MetricInv, ScrapeTyped, ScrapeInv, MetricInv', ScrapeTyped',
         PathTyped',
         [PathNext]_pathVars, NEW p \in Pages, Started(p), call'[p] = call[p],
         scrape'[p].unread = scrape[p].unread, scrape'[p].seen = scrape[p].seen,
         scrape'[p].left = scrape[p].left \/ scrape'[p].left = scrape[p].left + 1,
         \A q \in Pages : CountUp(q) /\ Service(q) = Service(p) /\ scrape[p].unread # {}
           => scrape'[p].left = scrape[p].left + 1
  PROVE  /\ Scraping(p)'
         /\ \A m \in scrape'[p].unread : scrape'[p].seen[m] = 0
         /\ Seen(p, Gauge)' + SumOf(SeenAll(p)') <= entered'[Service(p)'] + scrape'[p].left
<1>. DEFINE s == Service(p)
            f == SeenAll(p)
            g == SeenAll(p)'
            a == Seen(p, Gauge)
            b == Seen(p, Gauge)'
            l == scrape[p].left
            k == scrape'[p].left
<1>1. /\ Scraping(p) /\ s \in Metered /\ Service(p)' = s
      /\ \A m \in scrape[p].unread : scrape[p].seen[m] = 0
      /\ a + SumOf(f) <= entered[s] + l
  BY ScrapingMetered DEF ScrapeInv, Service
<1>2. Scraping(p)'
  BY <1>1 DEF Scraping
<1>3. /\ a \in Nat /\ l \in Nat /\ entered[s] \in Nat /\ k \in Nat
      /\ \A c \in Statuses : f[c] = Seen(p, c) /\ f[c] \in Nat
      /\ SumOf(f) \in Nat
  BY <1>1, SeenTyped, ScrapeFields, MetricKeys DEF PathTyped
<1>4. \A c \in Statuses : g[c] = IF c \in scrape[p].unread THEN total'[s][c] ELSE scrape[p].seen[c]
  BY <1>1, MetricKeys DEF SeenAll, Seen, Value
<1>5. \A c \in Statuses : f[c] = IF c \in scrape[p].unread THEN total[s][c] ELSE scrape[p].seen[c]
  BY <1>3, MetricKeys DEF Seen, Value
<1>6. /\ a = IF Gauge \in scrape[p].unread THEN inflight[s] ELSE scrape[p].seen[Gauge]
      /\ b = IF Gauge \in scrape[p].unread THEN inflight'[s] ELSE scrape[p].seen[Gauge]
  BY <1>1 DEF Seen, Value
<1>i. inflight[s] \in Int /\ scrape[p].seen[Gauge] \in Nat /\ total[s] \in [Statuses -> Nat]
  BY <1>1, ScrapeFields, MetricKeys DEF PathTyped
<1>. HIDE DEF f, g, a, b
<1>7. b + SumOf(g) <= entered'[s] + k
  <2>1. CASE MetricsStill(s)
    <3>1. \A c \in Statuses : g[c] = f[c]
      BY <1>4, <1>5, <2>1 DEF MetricsStill
    <3>2. SumOf(g) = SumOf(f)
      BY <3>1, SumSame
    <3>3. b \in Int /\ b <= a /\ entered'[s] = entered[s]
      BY <1>6, <1>i, <2>1 DEF MetricsStill
    <3>4. l <= k
      BY <1>3
    <3>. HIDE DEF l, k, s
    <3>. QED BY <1>1, <1>3, <3>2, <3>3, <3>4
  <2>2. CASE MetricsEntered(s)
    <3>1. \A c \in Statuses : g[c] = f[c]
      BY <1>4, <1>5, <2>2 DEF MetricsEntered
    <3>2. SumOf(g) = SumOf(f)
      BY <3>1, SumSame
    <3>3. b \in Int /\ b <= a + 1 /\ entered'[s] = entered[s] + 1
      BY <1>6, <1>i, <2>2 DEF MetricsEntered
    <3>4. l <= k
      BY <1>3
    <3>. HIDE DEF l, k, s
    <3>. QED BY <1>1, <1>3, <3>2, <3>3, <3>4
  <2>3. CASE MetricsCounted(s)
    <3>1. b = a /\ entered'[s] = entered[s]
      BY <1>6, <2>3 DEF MetricsCounted
    <3>2. CASE scrape[p].unread = {}
      <4>1. \A c \in Statuses : g[c] = f[c]
        BY <1>4, <1>5, <3>2
      <4>2. SumOf(g) = SumOf(f)
        BY <4>1, SumSame
      <4>3. l <= k
        BY <1>3
      <4>. HIDE DEF l, k, s
      <4>. QED BY <1>1, <1>3, <3>1, <4>2, <4>3
    <3>3. CASE scrape[p].unread # {}
      <4>1. k = l + 1
        BY <2>3, <3>3 DEF MetricsCounted
      <4>2. PICK code \in Statuses : total'[s] = [total[s] EXCEPT ![code] = @ + 1]
        BY <2>3 DEF MetricsCounted
      <4>3. /\ \A c \in Statuses \ {code} : total'[s][c] = total[s][c]
            /\ total'[s][code] = total[s][code] + 1
        BY <1>i, <4>2
      <4>4. /\ \A c \in Statuses \ {code} : g[c] = f[c]
            /\ g[code] = f[code] \/ g[code] = f[code] + 1
        BY <1>4, <1>5, <4>3
      <4>5. SumOf(g) \in Nat /\ SumOf(g) <= SumOf(f) + 1
        BY <1>3, <4>4, SumAtMost
      <4>. HIDE DEF l, k, s
      <4>. QED BY <1>1, <1>3, <3>1, <4>1, <4>5
    <3>. QED BY <3>2, <3>3
  <2>. QED BY <1>1, <2>1, <2>2, <2>3, MetricsStep
<1>. QED BY <1>1, <1>2, <1>7 DEF b, g

LEMMA ScrapeInvStep ==
  PathTyped /\ AnswerInv /\ MetricInv /\ EnteredInv /\ ScrapeTyped /\ ScrapeInv
    /\ PathTyped' /\ MetricInv' /\ ScrapeTyped' /\ [PathNext]_pathVars => ScrapeInv'
<1>. SUFFICES ASSUME PathTyped, AnswerInv, MetricInv, EnteredInv, ScrapeTyped, ScrapeInv,
                     PathTyped', MetricInv', ScrapeTyped', [PathNext]_pathVars,
                     NEW p \in Pages, Started(p)'
              PROVE  /\ Scraping(p)'
                     /\ \A m \in scrape'[p].unread : scrape'[p].seen[m] = 0
                     /\ Seen(p, Gauge)' + SumOf(SeenAll(p)') <= entered'[Service(p)'] + scrape'[p].left
  BY DEF ScrapeInv
<1>. DEFINE s == Service(p)
<1>0. ScrapeStep(p) /\ scrape[p].seen \in [Metric -> Nat]
  BY ScrapeStepHolds, ScrapeFields
<1>k. ASSUME Gather(p)
      PROVE  /\ UNCHANGED <<call, inflight, total, entered>>
             /\ Service(p)' = s /\ \A m : Value(s, m)' = Value(s, m)
             /\ Scraping(p) => Scraping(p)'
  BY <1>k, GatherKeeps DEF Service, Value, Scraping
<1>1. CASE BeginScrape(p)
  <2>1. /\ scrape'[p].unread = Metric /\ scrape'[p].left = 0
        /\ \A m \in Metric : scrape'[p].seen[m] = 0
    BY <1>1, BeginParts, NoScrapeTyped
  <2>2. Gather(p) /\ Scraping(p) /\ s \in Metered
    BY <1>1, ScrapingMetered DEF Gather, BeginScrape
  <2>3. /\ Seen(p, Gauge)' = inflight[s]
        /\ \A c \in Statuses : SeenAll(p)'[c] = total[s][c]
    BY <1>k, <2>1, <2>2, MetricKeys DEF SeenAll, Seen, Value
  <2>4. SumOf(SeenAll(p)') = Completed(s)
    BY <2>3, SumSame DEF Completed
  <2>5. inflight[s] \in Nat /\ inflight[s] + Completed(s) <= entered[s] /\ entered[s] \in Nat
    BY <2>2, GaugeAndCounters DEF PathTyped
  <2>6. entered'[Service(p)'] = entered[s]
    BY <1>k, <2>2
  <2>. QED BY <1>k, <2>1, <2>2, <2>3, <2>4, <2>5, <2>6
<1>2. CASE Collect(p)
  <2>1. /\ scrape'[p].unread = {m \in scrape[p].unread : m = Gauge \/ total[s][m] > 0}
        /\ scrape'[p].seen = scrape[p].seen /\ scrape'[p].left = scrape[p].left
    BY <1>2, CollectParts
  <2>2. Gather(p) /\ Scraping(p) /\ s \in Metered /\ Started(p)
    BY <1>2, ScrapingMetered DEF Gather, Collect, Started
  <2>3. /\ \A m \in scrape[p].unread : scrape[p].seen[m] = 0
        /\ Seen(p, Gauge) + SumOf(SeenAll(p)) <= entered[s] + scrape[p].left
    BY <2>2 DEF ScrapeInv
  <2>4. \A c \in Statuses : total[s][c] \in Nat
    BY <2>2 DEF PathTyped
  <2>5. \A m \in Metric : Seen(p, m)' = Seen(p, m)
    <3>. SUFFICES ASSUME NEW m \in Metric
                  PROVE  Seen(p, m)' = Seen(p, m)
      OBVIOUS
    <3>1. CASE m \in scrape'[p].unread \/ m \notin scrape[p].unread
      BY <1>k, <2>1, <2>2, <3>1 DEF Seen
    <3>2. CASE m \in scrape[p].unread /\ m \notin scrape'[p].unread
      <4>1. m \in Statuses /\ m # Gauge /\ total[s][m] = 0
        BY <2>1, <2>4, <3>2, MetricKeys
      <4>. QED BY <2>1, <2>3, <3>2, <4>1 DEF Seen, Value
    <3>. QED BY <3>1, <3>2
  <2>6. \A c \in Statuses : SeenAll(p)'[c] = SeenAll(p)[c]
    BY <2>5, MetricKeys DEF SeenAll
  <2>7. SumOf(SeenAll(p)') = SumOf(SeenAll(p))
    BY <2>6, SumSame
  <2>8. entered'[Service(p)'] = entered[s] /\ Seen(p, Gauge)' = Seen(p, Gauge)
    BY <1>k, <2>2, <2>5, MetricKeys
  <2>. QED BY <1>k, <2>1, <2>2, <2>3, <2>7, <2>8
<1>3. ASSUME NEW n \in Metric, Read(p, n)
      PROVE  /\ Scraping(p)'
             /\ \A m \in scrape'[p].unread : scrape'[p].seen[m] = 0
             /\ Seen(p, Gauge)' + SumOf(SeenAll(p)') <= entered'[Service(p)'] + scrape'[p].left
  <2>1. /\ scrape'[p].unread = scrape[p].unread \ {n}
        /\ scrape'[p].seen = [scrape[p].seen EXCEPT ![n] = Value(s, n)]
        /\ scrape'[p].left = scrape[p].left
    BY <1>3, ReadParts
  <2>2. Gather(p) /\ Scraping(p) /\ s \in Metered /\ Started(p) /\ n \in scrape[p].unread
    BY <1>3, ScrapingMetered DEF Gather, Read, Started
  <2>3. /\ \A m \in scrape[p].unread : scrape[p].seen[m] = 0
        /\ Seen(p, Gauge) + SumOf(SeenAll(p)) <= entered[s] + scrape[p].left
    BY <2>2 DEF ScrapeInv
  <2>4. \A m \in Metric : scrape'[p].seen[m] = IF m = n THEN Value(s, n) ELSE scrape[p].seen[m]
    BY <1>0, <2>1
  <2>5. \A m \in Metric : Seen(p, m)' = Seen(p, m)
    BY <1>k, <2>1, <2>2, <2>4 DEF Seen
  <2>6. \A c \in Statuses : SeenAll(p)'[c] = SeenAll(p)[c]
    BY <2>5, MetricKeys DEF SeenAll
  <2>7. SumOf(SeenAll(p)') = SumOf(SeenAll(p))
    BY <2>6, SumSame
  <2>8. entered'[Service(p)'] = entered[s] /\ Seen(p, Gauge)' = Seen(p, Gauge)
    BY <1>k, <2>2, <2>5, MetricKeys
  <2>9. \A m \in scrape'[p].unread : m \in Metric /\ m # n /\ m \in scrape[p].unread
    BY <2>1, ScrapeFields
  <2>. QED BY <1>k, <2>1, <2>2, <2>3, <2>4, <2>7, <2>8, <2>9
<1>4. CASE scrape'[p] = NoScrape
  BY <1>4, NoScrapeTyped DEF Started
<1>5. CASE \/ scrape'[p] = scrape[p]
           \/ /\ scrape[p].unread # {}
              /\ scrape'[p] = [scrape[p] EXCEPT !.left = @ + 1]
  <2>1. /\ scrape'[p].unread = scrape[p].unread /\ scrape'[p].seen = scrape[p].seen
        /\ scrape'[p].collected = scrape[p].collected
        /\ scrape'[p].left = scrape[p].left \/ scrape'[p].left = scrape[p].left + 1
    BY <1>5, ScrapeFields DEF Scrape
  <2>2. Started(p)
    BY <2>1 DEF Started
  <2>3. call[p].at = "inside"
    BY <2>2 DEF ScrapeInv, Scraping
  <2>4. CASE call'[p] = call[p]
    <3>1. \A q \in Pages : CountUp(q) /\ Service(q) = Service(p) /\ scrape[p].unread # {}
            => scrape'[p].left = scrape[p].left + 1
      BY ScrapeFields DEF CountUp, Scrape
    <3>. QED BY <2>1, <2>2, <2>4, <3>1, ScrapeBystander
  <2>5. CASE Serve(p)
    <3>1. scrape'[p] = NoScrape
      BY <2>5 DEF Serve, ScrapeTyped
    <3>. QED BY <1>4, <3>1
  <2>. QED BY <2>3, <2>4, <2>5, InsideMoves
<1>. QED BY <1>0, <1>1, <1>2, <1>3, <1>4, <1>5 DEF ScrapeStep

\* However the reads of a scrape fall between the statements of the wrappers, it
\* counts no request twice but one that left while it was being gathered.
THEOREM ScrapesCountOnce == PathSpec => []ScrapeCountsOnce
<1>1. PathInit => ScrapeInv
  BY NoScrapeTyped DEF PathInit, ScrapeInv, Started
<1>2. PathSpec => []ScrapeInv
  BY <1>1, ScrapeInvStep, PathTypedCorrect, MetricCorrect, EnteredCorrect, ScrapeTypedCorrect,
     PTL DEF PathSpec
<1>3. ScrapeTyped /\ ScrapeInv => ScrapeCountsOnce
  <2>. SUFFICES ASSUME ScrapeTyped, ScrapeInv, NEW p \in Pages, Scraped(p)
                PROVE  scrape[p].seen[Gauge] + SumOf(scrape[p].seen)
                         <= entered[Service(p)] + scrape[p].left
    BY DEF ScrapeCountsOnce
  <2>1. Started(p) /\ scrape[p].unread = {}
    BY DEF Started, Scraped
  <2>2. Seen(p, Gauge) = scrape[p].seen[Gauge]
    BY <2>1 DEF Seen
  <2>3. \A c \in Statuses : SeenAll(p)[c] = scrape[p].seen[c]
    BY <2>1, MetricKeys DEF SeenAll, Seen
  <2>4. SumOf(SeenAll(p)) = SumOf(scrape[p].seen)
    BY <2>3, SumSame
  <2>. QED BY <2>1, <2>2, <2>4 DEF ScrapeInv
<1>. QED BY <1>2, <1>3, ScrapeTypedCorrect, PTL

-----------------------------------------------------------------------------
(***************************************************************************)
(* The Authorization header, of any length.                                *)
(***************************************************************************)

\* A bounded, nonempty set of numbers has a least and a greatest element.
LEMMA LeastAndGreatest ==
  ASSUME NEW n \in Nat, NEW S \in SUBSET (1..n), S # {}
  PROVE  /\ Min(S) \in S /\ \A x \in S : Min(S) <= x
         /\ Max(S) \in S /\ \A x \in S : x <= Max(S)
<1>1. ASSUME NEW T \in SUBSET Nat, T # {} PROVE \E x \in T : \A y \in T : x <= y
  <2> DEFINE below == OpToRel(<, Nat)
  <2>1. IsWellFoundedOn(below, Nat)
    BY NatLessThanWellFounded
  <2>2. PICK x \in T : \A y \in T : ~ (<<y, x>> \in below)
    <3> HIDE DEF below
    <3> QED  BY <1>1, <2>1, WFMin
  <2>3. \A y \in T : ~ (y < x)
    BY <1>1, <2>2 DEF OpToRel
  <2> QED  BY <1>1, <2>3
<1>2. \E x \in S : \A y \in S : x <= y
  BY <1>1
<1>3. \E x \in S : \A y \in S : x >= y
  <2> DEFINE T == {n - x : x \in S}
  <2>1. T \in SUBSET Nat /\ T # {}
    <3>1. \A x \in S : n - x \in Nat
      OBVIOUS
    <3> QED  BY <3>1
  <2>2. PICK t \in T : \A u \in T : t <= u
    BY <1>1, <2>1
  <2>3. PICK x \in S : t = n - x
    BY <2>2
  <2>4. \A y \in S : n - x <= n - y
    BY <2>2, <2>3
  <2> QED  BY <2>4
<1>4. Min(S) \in S /\ \A x \in S : Min(S) <= x
  BY <1>2 DEF Min
<1>5. Max(S) \in S /\ \A x \in S : x <= Max(S)
  BY <1>3 DEF Max
<1> QED  BY <1>4, <1>5

\* What is cut out of a sequence.
LEMMA Cut ==
  ASSUME NEW S, NEW s \in Seq(S), NEW m \in Int, NEW n \in Int, 1 <= m, n <= Len(s)
  PROVE  /\ SubSeq(s, m, n) \in Seq(S)
         /\ Len(SubSeq(s, m, n)) = IF m <= n THEN n - m + 1 ELSE 0
         /\ \A i \in 1..(n - m + 1) : SubSeq(s, m, n)[i] = s[m + i - 1]
<1>1. Len(s) \in Nat
  BY LenProperties
<1>2. \A i \in m..n : i \in 1..Len(s)
  BY <1>1
<1>3. \A i \in m..n : s[i] \in S
  BY <1>2, ElementOfSeq
<1> QED  BY <1>3, SubSeqProperties

\* Neither end is a space.
Solid(h) == h # <<>> => h[1] # " " /\ h[Len(h)] # " "

\* strings.TrimSpace leaves a header that neither begins nor ends with a space ...
LEMMA TrimSpaceTrims ==
  ASSUME NEW h \in Seq(Words)
  PROVE  TrimSpace(h) \in Seq(Words) /\ Solid(TrimSpace(h))
<1> DEFINE S == {i \in 1..Len(h) : h[i] # " "}
<1>1. Len(h) \in Nat /\ \A i \in 1..Len(h) : h[i] \in Words
  BY ElementOfSeq
<1>2. CASE S = {}
  BY <1>2, EmptySeq DEF TrimSpace, Solid
<1>3. CASE S # {}
  <2> DEFINE a == Min(S)
             b == Max(S)
             t == SubSeq(h, a, b)
  <2>1. a \in S /\ b \in S /\ a <= b
    BY <1>1, <1>3, LeastAndGreatest
  <2>2. TrimSpace(h) = t
    BY <1>3 DEF TrimSpace
  <2>3. a \in 1..Len(h) /\ b \in 1..Len(h) /\ h[a] # " " /\ h[b] # " "
    BY <2>1
  <2> HIDE DEF a, b, S
  <2>4. /\ t \in Seq(Words) /\ Len(t) = b - a + 1
        /\ \A i \in 1..(b - a + 1) : t[i] = h[a + i - 1]
    <3>1. a \in 1..Len(h) /\ b \in 1..Len(h) /\ Len(h) \in Nat
      BY <1>1, <2>3
    <3>2. a \in Int /\ b \in Int /\ 1 <= a /\ b <= Len(h)
      BY ONLY <3>1
    <3> QED  BY <2>1, <3>2, Cut
  <2>5. /\ 1 \in 1..(b - a + 1) /\ b - a + 1 \in 1..(b - a + 1)
        /\ a + 1 - 1 = a /\ a + (b - a + 1) - 1 = b
    <3>1. a \in 1..Len(h) /\ b \in 1..Len(h) /\ Len(h) \in Nat /\ a <= b
      BY <1>1, <2>1, <2>3
    <3>2. a \in Int /\ b \in Int /\ a <= b
      BY ONLY <3>1
    <3> QED  BY ONLY <3>2
  <2>6. t[1] = h[a] /\ t[Len(t)] = h[b]
    <3> HIDE DEF t
    <3> QED  BY <2>4, <2>5
  <2> QED  BY <2>2, <2>3, <2>4, <2>6 DEF Solid
<1> QED  BY <1>2, <1>3

\* ... and does not touch one that is so already.
LEMMA TrimSpaceKeeps ==
  ASSUME NEW h \in Seq(Words), Solid(h)
  PROVE  TrimSpace(h) = h
<1> DEFINE S == {i \in 1..Len(h) : h[i] # " "}
<1>1. Len(h) \in Nat
  BY LenProperties
<1>2. CASE h = <<>>
  BY <1>2 DEF TrimSpace
<1>3. CASE h # <<>>
  <2>1. 1 \in 1..Len(h) /\ Len(h) \in 1..Len(h)
    BY <1>1, <1>3, EmptySeq
  <2>2. 1 \in S /\ Len(h) \in S
    BY <1>3, <2>1 DEF Solid
  <2>3. /\ Min(S) \in S /\ Min(S) <= 1
        /\ Max(S) \in S /\ Len(h) <= Max(S)
    BY <1>1, <2>2, LeastAndGreatest
  <2>4. Min(S) = 1 /\ Max(S) = Len(h)
    <3>1. Min(S) \in 1..Len(h) /\ Max(S) \in 1..Len(h)
      BY <2>3
    <3> HIDE DEF S
    <3> QED  BY <1>1, <2>3, <3>1
  <2> QED  BY <2>2, <2>4, SubSeqFull DEF TrimSpace
<1> QED  BY <1>2, <1>3

LEMMA DemoWords ==
  /\ Demo \in Seq(Words) /\ Len(Demo) = 3 /\ Solid(Demo)
  /\ Demo[1] = "Bearer" /\ Demo[2] = " " /\ Demo[3] = "demo-token"
<1>1. Demo \in Seq(Words) /\ Len(Demo) = 3 /\ Solid(Demo)
  BY DEF Demo, Words, Solid
<1>2. Demo[1] = "Bearer" /\ Demo[2] = " " /\ Demo[3] = "demo-token"
  BY DEF Demo
<1> QED  BY <1>1, <1>2

LEMMA PartWords ==
  /\ <<"Bearer", " ">> \in Seq(Words) /\ Len(<<"Bearer", " ">>) = 2
  /\ <<"demo-token">> \in Seq(Words) /\ Len(<<"demo-token">>) = 1
<1>1. <<"Bearer", " ">> \in Seq(Words) /\ Len(<<"Bearer", " ">>) = 2
  BY DEF Words
<1>2. <<"demo-token">> \in Seq(Words) /\ Len(<<"demo-token">>) = 1
  BY DEF Words
<1> QED  BY <1>1, <1>2

\* A header with the scheme is the scheme, a space and what TrimPrefix leaves.
LEMMA BearerHeader ==
  ASSUME NEW h \in Seq(Words)
  PROVE  /\ HasBearer(h) <=> Len(h) >= 2 /\ h[1] = "Bearer" /\ h[2] = " "
         /\ SubSeq(h, 3, Len(h)) = <<"demo-token">> <=> Len(h) = 3 /\ h[3] = "demo-token"
<1>1. Len(h) \in Nat
  BY LenProperties
<1>2. ASSUME Len(h) >= 2
      PROVE  SubSeq(h, 1, 2) = <<"Bearer", " ">> <=> h[1] = "Bearer" /\ h[2] = " "
  <2> DEFINE t == SubSeq(h, 1, 2)
             u == <<"Bearer", " ">>
  <2>1. t \in Seq(Words) /\ Len(t) = 2 /\ \A i \in 1..2 : t[i] = h[1 + i - 1]
    BY <1>1, <1>2, Cut
  <2>2. u \in Seq(Words) /\ Len(u) = 2 /\ u[1] = "Bearer" /\ u[2] = " "
    <3>1. u \in Seq(Words) /\ Len(u) = 2
      BY PartWords
    <3>2. u[1] = "Bearer" /\ u[2] = " "
      OBVIOUS
    <3> QED  BY <3>1, <3>2
  <2> HIDE DEF t, u
  <2>3. t[1] = h[1] /\ t[2] = h[2]
    BY <2>1
  <2>4. ASSUME h[1] = "Bearer", h[2] = " " PROVE t = u
    <3>1. ASSUME NEW i \in 1..2 PROVE t[i] = u[i]
      <4>1. i = 1 \/ i = 2
        OBVIOUS
      <4>2. t[1] = u[1] /\ t[2] = u[2]
        BY <2>2, <2>3, <2>4
      <4> QED  BY <4>1, <4>2
    <3> QED  BY <2>1, <2>2, <3>1, SeqEqual
  <2>5. t = u <=> h[1] = "Bearer" /\ h[2] = " "
    BY <2>2, <2>3, <2>4
  <2> QED  BY <2>5 DEF t, u
<1>3. SubSeq(h, 3, Len(h)) = <<"demo-token">> <=> Len(h) = 3 /\ h[3] = "demo-token"
  <2> DEFINE t == SubSeq(h, 3, Len(h))
             u == <<"demo-token">>
  <2>1. /\ t \in Seq(Words) /\ Len(t) = IF 3 <= Len(h) THEN Len(h) - 3 + 1 ELSE 0
        /\ \A i \in 1..(Len(h) - 3 + 1) : t[i] = h[3 + i - 1]
    BY <1>1, Cut
  <2>2. u \in Seq(Words) /\ Len(u) = 1 /\ u[1] = "demo-token"
    <3>1. u \in Seq(Words) /\ Len(u) = 1
      BY PartWords
    <3>2. u[1] = "demo-token"
      OBVIOUS
    <3> QED  BY <3>1, <3>2
  <2> HIDE DEF t, u
  <2>3. Len(t) = 1 <=> Len(h) = 3
    <3>1. Len(t) = IF 3 <= Len(h) THEN Len(h) - 3 + 1 ELSE 0
      BY <2>1
    <3>2. Len(h) \in Nat
      BY <1>1
    <3>3. CASE 3 <= Len(h)
      <4>1. Len(t) = Len(h) - 3 + 1
        BY <3>1, <3>3
      <4> QED  BY ONLY <3>2, <4>1
    <3>4. CASE ~ (3 <= Len(h))
      <4>1. Len(t) = 0
        BY <3>1, <3>4
      <4>2. Len(h) # 3
        BY ONLY <3>2, <3>4
      <4> QED  BY ONLY <4>1, <4>2
    <3> QED  BY <3>3, <3>4
  <2>4. Len(h) = 3 => t[1] = h[3]
    BY <2>1
  <2>5. ASSUME Len(h) = 3, h[3] = "demo-token" PROVE t = u
    <3>1. Len(t) = Len(u) /\ \A i \in 1..1 : t[i] = u[i]
      BY <2>2, <2>3, <2>4, <2>5
    <3> QED  BY <2>1, <2>2, <3>1, SeqEqual
  <2>6. t = u <=> Len(h) = 3 /\ h[3] = "demo-token"
    BY <2>2, <2>3, <2>4, <2>5
  <2> QED  BY <2>6 DEF t, u
<1> QED  BY <1>2, <1>3 DEF HasBearer

\* The one header that opens the services, as each reader sees it.
LEMMA DemoHeader ==
  /\ Demo \in Seq(Words) /\ TrimSpace(Demo) = Demo
  /\ HasBearer(Demo) /\ TrimBearer(Demo) = <<"demo-token">>
<1>1. TrimSpace(Demo) = Demo
  BY DemoWords, TrimSpaceKeeps
<1>2. HasBearer(Demo) /\ SubSeq(Demo, 3, Len(Demo)) = <<"demo-token">>
  <2>1. Len(Demo) >= 2
    <3>1. Len(Demo) = 3
      BY DemoWords
    <3> QED  BY ONLY <3>1
  <2>2. Demo \in Seq(Words)
    BY DemoWords
  <2> HIDE DEF Demo
  <2> QED  BY <2>1, <2>2, DemoWords, BearerHeader
<1> QED  BY <1>1, <1>2, DemoWords DEF TrimBearer

\* The strict verifier of the auth service takes that header and nothing else.
LEMMA ServiceVerifiesOne ==
  ASSUME NEW h \in Seq(Words), ServiceVerifies(h)
  PROVE  h = Demo
<1>1. HasBearer(h) /\ SubSeq(h, 3, Len(h)) = <<"demo-token">>
  BY DEF ServiceVerifies, TrimBearer
<1>2. Len(h) = 3 /\ h[1] = "Bearer" /\ h[2] = " " /\ h[3] = "demo-token"
  BY <1>1, BearerHeader
<1>3. ASSUME NEW i \in 1..3 PROVE h[i] = Demo[i]
  <2>1. i = 1 \/ i = 2 \/ i = 3
    OBVIOUS
  <2>2. h[1] = Demo[1] /\ h[2] = Demo[2] /\ h[3] = Demo[3]
    BY <1>2, DemoWords
  <2> QED  BY <2>1, <2>2
<1> QED  BY <1>2, <1>3, DemoWords, SeqEqual

\* A header is one that the wire can carry, trimmed once it has come over HTTP.
HeaderInv == header \in Seq(Words) /\ (arrived => Solid(header))

LEMMA HeadersAreTrimmed == VerifierSpec => []HeaderInv
<1>1. VerifierInit => HeaderInv
  <2>1. \A n \in 0..MaxLen : [1..n -> Words] \subseteq Seq(Words)
    BY SeqDef, VerifierAssumption
  <2> QED  BY <2>1 DEF VerifierInit, HeaderInv
<1>2. HeaderInv /\ [Transport]_<<header, arrived>> => HeaderInv'
  <2> SUFFICES ASSUME HeaderInv, [Transport]_<<header, arrived>> PROVE HeaderInv'
    OBVIOUS
  <2>1. CASE Transport
    <3>1. header' \in Seq(Words) /\ Solid(header')
      BY <2>1, TrimSpaceTrims DEF HeaderInv, Transport
    <3> QED  BY <3>1 DEF HeaderInv, Solid
  <2>2. CASE UNCHANGED <<header, arrived>>
    BY <2>2 DEF HeaderInv, Solid
  <2> QED  BY <2>1, <2>2
<1> QED  BY <1>1, <1>2, PTL DEF VerifierSpec

\* A header of any length: who the strict verifier lets in the laxer ones let in
\* too (src/services/auth/internal/service, src/services/tasks/internal/http).
THEOREM LaxerReadersAgree == VerifierSpec => []StricterAccepted
<1>1. HeaderInv => StricterAccepted
  <2> SUFFICES ASSUME HeaderInv PROVE StricterAccepted
    OBVIOUS
  <2>1. header = Demo => ServiceVerifies(header)
    BY DemoHeader DEF ServiceVerifies
  <2>2. ServiceVerifies(header) => TasksAccepts(header)
    BY ServiceVerifiesOne, DemoHeader DEF HeaderInv, TasksAccepts
  <2>3. TrimSpace(<<"demo-token">>) = <<"demo-token">>
    <3>1. <<"demo-token">> \in Seq(Words) /\ Solid(<<"demo-token">>)
      BY DEF Words, Solid
    <3> QED  BY <3>1, TrimSpaceKeeps
  <2>4. TasksAccepts(header) => GrpcVerifies(header) /\ CsrfExempts(header)
    BY <2>3, DemoHeader DEF TasksAccepts, GrpcVerifies, CsrfExempts
  <2> QED  BY <2>1, <2>2, <2>4 DEF StricterAccepted, HttpVerifies
<1> QED  BY <1>1, HeadersAreTrimmed, PTL

\* A header of any length that has come over HTTP: the auth service and the tasks
\* service let in the same one.
THEOREM SameReadersOverHttp == VerifierSpec => []SameOverHttp
<1>1. HeaderInv => SameOverHttp
  <2> SUFFICES ASSUME HeaderInv, arrived PROVE SameOverHttp
    BY DEF SameOverHttp
  <2>1. TrimSpace(header) = header
    BY TrimSpaceKeeps DEF HeaderInv
  <2>2. HttpVerifies(header) => ServiceVerifies(header)
    BY DemoHeader DEF HttpVerifies, ServiceVerifies
  <2>3. ServiceVerifies(header) => HttpVerifies(header)
    BY ServiceVerifiesOne DEF HeaderInv, HttpVerifies
  <2> QED  BY <2>1, <2>2, <2>3 DEF SameOverHttp, HttpVerifies, TasksAccepts
<1> QED  BY <1>1, HeadersAreTrimmed, PTL
=============================================================================
