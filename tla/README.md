# Verification of the task platform

The repository is a small task platform in Go: a REST tasks service (run as two
instances behind nginx), a GraphQL service on the same database, an
authentication service, a RabbitMQ worker that executes `process_task` jobs, and
the middleware they share. These modules model what the processes do to the
state they share, check it with TLC on small instances, and prove parts of it
with TLAPS for all instances. Source paths below are relative to `services/`
unless they start with `shared/`, `deploy/` or `proto/`.

## Inventory

| Component | State it keeps | Operations | Interacts with |
|---|---|---|---|
| worker (`services/worker/cmd/main.go`) | in-memory `processedStore`, one AMQP connection, the delivery in hand | `main` loop, `handle`, `process`, `publishRetry`, `declareTopology` | RabbitMQ: deliveries, acks, nacks, republished jobs |
| job producer (`tasks/internal/rabbit/producer.go`, `service.go:93-114`, `router.go:62-82`) | one AMQP connection made at start-up | `NewProducer`, `Publish`, `EnqueueProcessTask` | RabbitMQ |
| RabbitMQ (external) | main queue, DLQ, unacked deliveries per connection | publish, deliver, ack, nack, requeue on connection loss | worker, producers |
| task service (`tasks/internal/service/service.go`, `repository`, `cache`) | counter for ids; rows in Postgres; cached tasks in Redis | Create, GetAll, GetByID, Update, Delete, Search | Postgres (shared with GraphQL), Redis (shared by its two instances) |
| GraphQL service (`services/graphql/internal`, resolvers) | none of its own | tasks, task, createTask, updateTask, deleteTask | the same Postgres table; Redis is never told |
| GraphQL executor (`services/graphql/graph/generated.go`) | per operation: fields resolved, nulls counted, errors collected | `Exec`, `_Query`, `_Mutation`, unmarshalling of arguments, marshalling of results | GraphQL service |
| shared middleware and metrics (`shared/middleware`, `shared/metrics`) | in-flight gauge, request counter, access log | request id, access log, metrics, CSRF check, instance id, security headers | every HTTP service; browsers and their cookies |
| HTTP handlers (`tasks`, `graphql`, `auth`, `internal/http`) | none | routes, `authorize`, `SessionAuthMiddleware`, status codes | middleware outside, services inside |
| auth service (`services/auth`) | none (fixed credentials; the session is in the client's cookies) | login, verify (HTTP and gRPC) | browsers; the gRPC client of the tasks service |
| in-memory `Store` (`tasks/internal/service/store.go`) | map under an RWMutex | Create, GetAll, GetByID, Update, Delete | unused by the running service |
| gRPC stubs (`proto/authpb`) | none | encoding | generated |
| deployment (`deploy/`) | restart policies, topology names, primary key of `tasks` | | |

### What is hard in each part, and what makes it correct

**Job pipeline (tasks service, RabbitMQ, worker).** Three kinds of process and
two kinds of connection, each of which may fail between any two steps. `handle`
performs up to three remote effects (process, republish, ack), none of which is
acknowledged to it, and its deduplication store dies with the process. Correct
means: no job is lost, a delivery is settled exactly once, a message id takes
effect at most once per life of the worker, a job is dead-lettered only after
all its attempts, duplicates do not multiply without bound, a 202 answer is not
a lie as long as the connection lives, and in the end every job has an outcome
and the queue drains.

**Declaration of the queues.** Every process declares the exchange, the main
queue, the dead-letter queue and the binding before it works, in four separate
requests; processes start concurrently, die half way, and read their names from
separate environments. Correct means: whoever works on a queue has its rejected
messages routed to the dead-letter queue it was configured with, and nobody
works on somebody else's dead-letter queue.

**Tasks service and GraphQL service.** Requests run concurrently, in two
processes of the tasks service and one of the GraphQL service, over one Postgres
table and one Redis cache. Each statement is atomic, no two of them are tied
together, and GraphQL does not know the cache. Correct means: the cache agrees
with the table between requests, a stale entry can only come from a named race
and does not outlive its time to live, ids are drawn without collisions by an
undisturbed instance, and whatever fails, updates never bring deleted tasks back
and the cache never shows a row that was not there.

**Concurrent updates and id allocation over time.** An update reads a row and
writes all of it back, in both services; ids are drawn from a counter that starts
from 0 in every process of one service and from the number of rows in the other.
Correct means: no field that was set is lost except to an update that overlapped
it, and a refused create always has a nameable cause and does not go on for ever.

**Operations.** An operation is several fields, each several statements that other
requests may come between, and one answer. A resolver may dereference a row that
somebody has deleted since it was inserted. Correct means: every operation is
answered, a create in an answer with data has happened, what is read back was not
there before one's own write, and whatever is missing from an answer has an error
that says why.

**The request path.** Requests go through five wrappers; two pages of one browser
share cookies while their scripts hold tokens they read earlier, and logins race
one another's answers. The gauge, the counter and the log line of a request are
separate updates. Correct means: a page whose session is alive is not refused,
what is answered behind the wrappers is in the log under its id with the status
that was sent, gauge and counter agree with those requests when they are at rest,
and a scrape, which reads them at different instants, counts none twice but one
that leaves meanwhile.

**Verifiers.** Five places cut the same credential out of a header, each with its
own trims. Correct means: they agree on who is let in, and a stricter one never
contradicts a laxer one.

**In-memory `Store`.** Compound operations on a map. Correct means: a list is what
the store held at one moment, and a write that looked its task up still finds it.

`PROJECT.json` lists every hazard at its line with the properties that cover it.

## The modules

```
Jobs <- Broker <- Worker   \
               <- Producer  > JobPipeline <- MCJobPipeline,
                             JobPipelineProofs <- JobDeliveryProofs
        JobDelivery (abstract)

TaskTable <- TaskService    \
          <- GraphqlService  > TaskPlatform <- MCTaskPlatform, TaskPlatformProofs
        StaleTable (abstract)
             TaskPlatform <- TaskHistory       <- MCTaskHistory, TaskHistoryProofs
             TaskPlatform <- GraphqlOperations <- MCGraphqlOperations, GraphqlOperationsProofs

HttpHandlers <- RequestPath \ <- MCRequestPath
                Verifiers   / <- RequestPathProofs

Topology <- MCTopology, TopologyProofs

Store <- MCStore, StoreProofs
```

### Job pipeline

* `Jobs`: the job record, the normalisation of its attempt counter (a missing or
  negative one counts as 1), `process()` and the attempt limit. Task ids are
  abstracted to what `process()` distinguishes: ids that always fail, the one
  that fails on its first attempt, the others. The comparisons (`>=
  maxAttempts`, `< 2`, `<= 0`) are kept as they are in the code.
* `Broker`: RabbitMQ and the AMQP connections. `copies` is the history of every
  message put on the main queue, with its state (ready, unacked by a connection,
  acked, dead). `wire[c]` is what client `c` wrote and the broker has not read;
  `linked[c]` and `open[c]` are the two ends' ideas of whether the connection is
  up. External: modelled from how the services use it.
* `Worker`: `main` (start, range over deliveries, exit when the channel closes,
  kill) and `handle`, split where another process or a failure may come in
  between: taking a delivery, processing and marking the id, publishing the
  retry, acking. `proc` is where the goroutine is, `cur` the delivery in hand,
  `seen` the `processedStore`.
* `Producer`: an incarnation of the tasks service. `StartService` is `NewRouter`
  with `NewProducer`, which may fail without stopping the service and is never
  repeated. `EnqueueProcessTask` is `POST /v1/jobs/process-task` answered 202.
* `JobPipeline`: the composition, failures of connections, messages of other
  publishers, fairness, and all properties.
* `JobDelivery`: the promise to clients, by message id: an id is outstanding
  until it has been executed or buried in the dead-letter queue, and only then
  may it stop being so.

Decisions worth knowing:

* The amqp091 library does not honour the context given to `PublishWithContext`,
  and `Publish`, `Ack` and `Nack` fail only on a channel the library knows to be
  closed. A frame written to a connection the broker has given up is lost
  silently. `Send` is exactly this; there are no publisher confirms.
* The two ends of a connection learn of a break in either order
  (`BreakByBroker`, `BreakByClient`, `FinishClose`). Frames written before the
  client closed may still be read.
* Publishing a retry and acking the original are two steps, as are marking an id
  and acking its message. The process may die in between.
* The broker may deliver any ready copy next. RabbitMQ mostly keeps the order,
  but requeues and several prefetched messages disturb it, and no property
  relies on it.
* `ack` errors are only logged by the caller, so a failed settlement is a step
  that writes nothing, not an error path.

### Declarations

`Topology` is `declareTopology` of `tasks/internal/rabbit/producer.go:58-122`
and of `worker/cmd/main.go:240-273`, which make the same requests in the same
order: exchange, main queue with its dead-letter arguments, dead-letter queue,
binding. One action per request; a process may fail between any two, and every
start may come with another configuration. A queue that exists with other
arguments is refused: the worker exits, the tasks service runs on without a
producer. The entry points never pass an empty name (`getEnv` falls back to a
default), so the runs use none, but the module has the branches. `JobPipeline`
starts where this module's `"ready"` is, and its `SettledAs` relies on
`RejectsReachDlq`.

### Tasks platform

* `TaskTable`: the `tasks` table and its statements. A row is reduced to one text
  field and `done`: two fields are what it takes to have a patch touch one and
  not the other. `past` is the history of rows per id.
* `TaskService`: instances of the REST service with their id counters, the Redis
  cache, and the requests in progress. `req[h]` is where handler `h` is between
  two statements or cache commands: before its read, about to fill the cache,
  about to insert, about to store, about to invalidate. Cache hits, `GetAll` and
  `SearchByTitleSafe` change nothing and are not steps. With `Faults`, Redis or
  Postgres may fail at each command, a statement may commit while the service is
  told it failed, the client's context may be cancelled, and an instance may be
  restarted.
* `GraphqlService`: `createTask` (count, insert, read back), `updateTask` (read,
  store, read back) and `deleteTask`, one statement per step; with `GqlFaults` each
  statement may fail, or commit while the service is told it failed.
* `TaskPlatform`: the composition, fairness and the properties.
* `StaleTable`: what clients may rely on under every interleaving and failure: a
  table whose rows are inserted not done, overwritten in place and removed, and
  a view that shows, if anything, a row the id has had.

* `TaskHistory`: the platform with history variables that no step reads: what the
  table would hold had every update been one statement, which requests have been
  overtaken, how often an instance was refused.

A SET that reaches Redis after the client of the service gave up is a handler
that is still at `"fill"`. A cache that is disabled or down is covered by
`Faults`: every command on it may fail, and a read may miss.

### Operations

`GraphqlOperations` is the executor over `TaskPlatform`: `op[g]` is operation `g`
with its document, what each root field has become, the count of nulls that may
not be (`invalids`), and the fields with an error. The fields of a mutation are
resolved in order (`Current`), those of a query on goroutines (`Concurrent`).
`Failed` is what `ResolveField` and the recover handler make of an error or a
panic; `marshalNTask`, `marshalOTask`, the payload of `createTask` and its
dereference of the row are operators of their own. Every action is a conjunction
of an action of `GraphqlService` and what becomes of the field, so that the
operations run on the same statements as `TaskPlatform`, beside REST requests.
`overrun[g]` is a history: the row that `g` has yet to read back was changed by
somebody after `g` wrote it. That a panic of a resolver is recovered is gqlgen's
part, which `Failed` assumes and no property shows.
A resolver that fails before it has changed anything, the unmarshalling of an
argument included, is `FailsEarly`.

### The request path

* `HttpHandlers`: which status codes the handlers of the three services may write
  for an endpoint and a set of credentials, CSRF check, session check and
  `authorize` included, and the redirects of a `ServeMux` for unclean paths.
  `Wrapped` says which endpoints are behind the wrappers: all of the tasks and the
  auth service, and `/graphql`; the playground and `/metrics` of the GraphQL
  service are on its root mux, outside request id, metrics and log. What lies behind a handler (a decoded body, an outcome of
  a service) is any of the cases it tells apart.
* `RequestPath`: requests on their way. `jar` is the cookie jar with the time each
  cookie has left, `script[p]` the token page `p` has read, `call[p]` its request
  between two wrappers: `Enter` (metrics, in), `Serve`, `AccessLog`, `Leave`
  twice (the two statements of the deferred function of `Metrics`), `Arrive` (the
  answer sets cookies). A request to `/metrics` is a scrape: `promhttp` reads the
  gauge and, once it has collected the series that exist, each of these, in a step
  of its own (`BeginScrape`, `Collect`, `Read`, external),
  with other requests coming and leaving in between; `scrape[p]` is what it has
  read. A wrapper keeps the last code written, `net/http` sends
  the first: `Recorded` and `Status`.

### Smaller parts

* `Store`: the methods under the RWMutex, with the look-up, the write and the
  visit of each entry as steps of their own. `Get` is one read and left out.
* `Verifiers`: the five readers of an Authorization header as functions on words
  and spaces, evaluated on every header up to five words.

## What the runs check

| Run | Question | Bounds |
|---|---|---|
| `pipeline_safety` | Is a job ever lost, settled twice, dead-lettered early, multiplied, or forgotten after a 202, prefetched deliveries included? Does the pipeline implement `JobDelivery`? | 2 message ids, 3 kinds of task, 2 attempts, 2 lives, 1 producer, 2 messages from outside (malformed and counterless ones included), prefetch 2 |
| `pipeline_restarts` | The same bounds on attempts and duplicates over more restarts | 1 message, 3 attempts, 3 lives |
| `pipeline_liveness` | Do jobs get their outcome and the queue drain, once failures stop? | 2 messages of one id, 2 attempts, 2 lives |
| `topology` | Are rejected messages routed, whatever half-made declarations and disagreeing configurations? Does a worker come up unless another configuration was there first? | 3 processes, 6 configurations, 1 failure besides the refusals |
| `tasks_concurrent` | Which interleavings of two requests leave the cache stale? Do ids collide? | 1 instance, 2 requests at once, 2 ids, 4 writes |
| `tasks_faults` | What survives failures, restarts and GraphQL writes? | 2 REST requests and 1 mutation at once, 2 ids, 3 writes |
| `tasks_history` | Which updates are lost, which creates are refused, and for how long? | 1 REST request beside 1 mutation, 2 ids, 5 writes, with failures and restarts |
| `operations` | What do answers say of mutations of two fields that race REST writes and failures of Postgres? Is every one answered? Does the executor implement `TaskPlatform`? | 6 documents, 2 fields, 1 operation beside 1 REST request, 2 ids, 3 writes |
| `path_sessions` | Can a page whose session is alive be refused? | 2 pages, 3 requests, cookies of 2 ticks, login and a write of each service |
| `path_metrics` | Do log, gauge and counter agree with the answers of what is behind the wrappers? Does a scrape count a request twice? | 2 pages, 2 requests of which either may scrape, 24 endpoints: each route by the methods its handler serves and some it refuses, `/health`, the playground and redirects included; no bearer token or the demo token |
| `store_locking` | Are the methods of `Store` atomic? (TLC also looks for deadlocks: there is no state in which nobody can go on.) | 3 callers, 2 ids |
| `verifiers` | Do the readers of a header agree? | all headers up to 5 words |

All runs pass. What they show:

* **Nothing is lost.** `NoJobLost` holds because the retry is written before the
  ack of the original, on the same channel, which the broker reads in order;
  swapping the two, or dropping the dead-letter arguments of the queue, breaks
  it. `SettlementsValid` shows that every path of `handle` settles its delivery
  at most once, and only on the connection that holds it.
* **Duplication is bounded and visible.** A break between the retry's publish and
  the ack makes two messages of one. `DuplicationBounded` says each life of the
  worker adds at most one, and `EffectsBounded` that a message id takes effect at
  most once per life: deduplication is per process, not per system.
* **Every attempt counts.** `DeadOnlyWhenExhausted`: a job in the dead-letter
  queue had all its attempts published and all of them fail.
* **202 means "written".** `AcceptedTracked` holds only while the broker holds the
  connection: without confirms, nothing stronger does.
* **One race leaves the cache stale.** `StaleOnlyByRace` names the only
  interleaving that does so without failures: a GET that read the row before a
  write and fills the cache after the write's invalidation. Requests one at a time
  never do (`QuietCoherent`, which is proved and needs no run).
* **Staleness ends.** `EventuallyCoherent` holds under every failure as long as
  entries expire. It needs `CACHE_TTL_SECONDS` to be positive; the code accepts
  zero or less, and go-redis then stores entries that never expire.
* **Ids collide only after a restart, with a second instance, or with GraphQL.**
  `CreateNeverRefused` holds for one instance that was not restarted. Otherwise an
  instance is refused each id at most once (`RefusalsBounded`), whereas the GraphQL
  service, which counts rows, is refused as long as there is a hole below the id it
  counts (`RefusedOnlyByHole`): after one delete that is every create.
* **Updates are lost only to overlap.** `LostOnlyByOverlap` compares the table with
  the one that atomic updates would have made.
* **Operations are answered, and answers are honest.** `EveryOperationAnswered`:
  no resolver waits for a row another request may take away, and none sends a
  refused statement again, which over a hole of ids could go on for ever. (That a
  panic does not cost the answer is assumed of gqlgen, see above.)
  `AnsweredCreatesMade` and `NullsExplained` relate the answer to what was done.
  `PayloadsOwn`: the row that is read back may be another request's work, but then
  it is later than one's own write. `PlatformRefined` makes what is known of the
  platform hold under operations; an update that created the row it misses, under
  an id of the client's, would be none of the platform's steps.
* **A live session is not refused.** `SteadySessionPasses` needs the two cookies to
  be set together and to live equally long. A page that read its token before
  another page logged in is not steady: the double-submit check refuses it.
* **Log and metrics tell of every wrapped request once.** No handler writes two
  codes, which is why the recorded status is the one that was sent
  (`LoggedAsAnswered`, `QuietMetrics`). Both speak of what is behind the wrappers:
  the playground and `/metrics` of the GraphQL service are neither logged nor
  counted. A scrape may see a request in the gauge and again in a counter it reads
  later, when the request has left in between; `ScrapeCountsOnce` says that it
  counts no other request twice. This depends on the order of the two deferred
  statements, the gauge lowered before the counter is raised: swapped, requests
  that left before the scrape's readings began to differ would be counted twice.
* **The lock suffices, the verifiers agree.** Spaces around the token are the only
  thing they differ in, and `net/http` has trimmed those before any of them looks.

### Bounds

`MaxLives` (starts of the worker; the last life has no failures, so that a
behaviour has finitely many), `MaxEnqueues` (messages from outside the worker),
`Prefetch`, `MaxAttempts`, `MaxFailures`, `MaxId`, `MaxWrites`, `MaxFields`,
`MaxRequests`, `MaxAge`, `MaxLen` and the sizes of `Handlers`, `GqlHandlers`,
`Instances`, `Pages`, `Callers` are the only bounds, all of them in guards. Two lives are enough for a break or a kill between any two steps of a
life and for everything the next life makes of it; the third, in
`pipeline_restarts`, is for failures that build on failures. Two messages are
enough for a duplicate id, two different ids, or a foreign message beside a
client's. Two attempts are the smallest number for which a retry exists, three
the smallest for which one is between two others. Two ids are needed for one
request to disturb another's, two handlers for a race, three or four writes for
create, update and delete of one task with an id taken again; the fifth of
`tasks_history` is for a second update or create after that. Each operation is
sent once, and two fields are what it takes for one to fail beside another. Two
pages and two ticks are what it takes for a login to come between another page's
reading of its token and its use, and for cookies to expire under a script. In
`path_metrics` the two pages are symmetric: the module tells pages apart by
nothing, and the run has no liveness property. The theorems below have no such
bounds.

### Fairness

* The broker keeps reading the connections it holds and delivering ready
  messages; the second end of a broken connection notices in the end (TCP reset
  or AMQP heartbeat, which amqp091 enables by default).
* The worker's goroutine keeps running, and a stopped worker is started again:
  `restart: unless-stopped` in `deploy/docker-compose.prod.yml`.
* A request in progress goes on, on a goroutine of its own; Redis expires what is
  due. An operation goes on likewise (`OpFairness`): gqlgen resolves every field
  and `net/http` writes the answer whatever the client does, and each statement
  of Postgres ends, with an error if need be.
* In `Topology`, only workers are restarted when a declaration fails: a tasks
  service stays up without a producer. `WorkersComeUp` excuses a worker that is
  refused again and again by a queue another configuration has declared; nothing
  in the code would ever change that queue.
* Nothing makes a client send a request, a failure happen, or a tasks service
  restart. All fairness is weak.

## What is proved

TLAPS checks the following for every value of the constants, from the named
assumptions of the modules (which TLC evaluates in every run) and nothing else.

* `JobPipelineProofs`:
  * `TypeCorrect` and `EffectsOncePerLife`. `EffectsBounded` is not inductive: the
    invariant (`EffectsInv`) adds that an id this life has not yet recorded in
    `seen` took effect at most `life - 1` times, and that the id of the job being
    processed is not in `seen`. The latter holds because one goroutine looks the
    id up, processes and marks it.
  * `SettledOnce`. `LinkInv` says what the two ends of a connection and the
    processes agree on: only the current life's connection can be open or have
    deliveries buffered, producers write nothing but publishes, and a connection
    the broker has given up has no frames and no unacked copies.
    `SettlementsValid` is not inductive on it: `Carried` adds that, while the
    broker holds the worker's connection, what the worker has buffered or in hand
    is unacked on it, each copy once, and no frame on the wire settles it already.
  * `RetriesDoNotMultiply`. `DuplicationBounded` counts copies; what goes on is in
    the frames. `PairInv`: on a connection the broker still reads, every publish of
    the worker is followed by its ack, except the last one while the worker is
    between the two writes or can write no more. `CountInv`: the copies not acked
    and the frames of producers are at most what was enqueued, plus one for each
    life that owes an ack (`Owes`) or has lost its connection. Reading a publish
    makes the life owe, reading the ack after it pays, and a break keeps at most
    the one debt. Which life owes is found in its frames; `SettledOnce` is needed
    for the ack to name a copy that is still there to be taken away.
* `JobDeliveryProofs`:
  * `NothingLost`. `NoJobLost` is not inductive: after an ack is read the id must
    live in another copy, which may itself be about to be acked. `LossInv` says that
    every copy that is acked, or that a frame acks, either has had its effect or has
    a copy of its next attempt, published or ahead of the ack on the same wire; and
    that of each id one copy has the highest attempt. That one cannot be acked
    without an effect. The wire's order, publish before ack, is what keeps it.
  * `PipelineRefinesDelivery`, from `NothingLost`, `SettledOnce`'s invariant and
    `HandLive`: what the worker has in hand is live and unnamed on every wire, even
    after the broker has taken it back from a connection the worker still believes
    in, so that only an outstanding id is executed.
  * `AcceptedStayTracked`: `AcceptInv` adds that producers write jobs only, and that
    an incarnation has accepted nothing before it connects, its only time.
  * `DeadLettersExhausted`. `DeadOnlyWhenExhausted` speaks of what is dead; that a
    retry was earned is known only where it is published. `RetryInv` says of every
    copy, and of every publish still on a wire, that all attempts before its own
    were published and fail (`Earned`), and of every nack that its copy has had the
    last attempt, which fails (`Spent`). It holds across lives because what was
    once published stays in the history of copies.
* `TopologyProofs`: `RejectsRouted` and `DlqApart`. The invariant `IInv` says that
  what a process has got past is there as it asked for; it is kept because no
  declaration takes away or changes what another one made.
* `TaskPlatformProofs`:
  * `TypeCorrect`;
  * `OnlyRacesLeaveStale`, without failures and GraphQL writes:
    `StaleOnlyByRace` is inductive together with the types, for any number of
    instances and requests;
  * `OneAtATimeCoherent`: `QuietCoherent` for requests that come one at a time
    (the assumption is that there is one handler), from `StaleOnlyByRace` and
    `FillsFresh`: what the one request is about to cache is the row, because
    nobody else can write it, so that no entry is ever raced;
  * `CreatesNeverRefused`, for one instance without restarts: `IdsInv` adds that
    no row and no pending insert is beyond the counter, and that pending inserts
    have ids of their own that no row has;
  * `ServicesRefineStaleTable`, with every failure, restart and GraphQL write:
    `RowsInv` says where rows come from (what is cached, or held by a GET about
    to cache it, was in the table; what is about to be inserted is not done),
    and every step maps to a step of `StaleTable` or to a stutter.
* `TaskHistoryProofs`, with every failure and restart:
  * `LostUpdatesOverlap`. `UpdatesFresh` adds that an update which is not outdated
    is about to store the current row with its patch applied, so that its store
    does to the table what an atomic update does to `expected`;
  * `GraphqlRefusals`. `DrawnInv` adds that there are fewer rows than the id of a
    create that was not overtaken: were all ids up to it taken, there would be as
    many rows as the id;
  * `RestartsRefuseBounded`. `RefusalInv` adds that the pending inserts of an
    instance have distinct ids its counter has passed, and that it was refused at
    most as often as it has left ids behind that a task has had.
* `GraphqlOperationsProofs`. `OpInv` says that a mutation in hand is that of the
  field the loop has come to, of the right kind, and that a create which is about
  to read its row back has inserted it (`InHand`); that the nulls of an operation
  that may not be are in its errors and counted (`Sound`); that a create with a
  value has inserted its row (`Made`); and that the row to be read back is what was
  written, none, or overrun (`Own`). From it:
  * `OperationsRefinePlatform`: a step of an operation is a step of the platform or
    changes nothing of it. With the safety theorems above this carries over to
    operations whatever holds of `TaskPlatform`;
  * `OperationsKeepStaleTable`: with `ServicesRefineStaleTable`, the services
    implement `StaleTable` with operations of any documents under way;
  * `NullsAreExplained`, `AnsweredCreatesAreMade`, `PayloadsAreOwn`, `OperationsTyped`.
* `RequestPathProofs`:
  * `SteadySessions`. `SessionInv`: both cookies have the same time left, a steady
    script holds the token that is in the jar of a live session, and a steady
    request carries credentials that `TrustedPass` shows every wrapper to accept;
  * `AnswersLogged` and `MetricsQuiet`, of the endpoints behind the wrappers. Both rest on `HandlersWriteOnce`, that no
    handler writes two codes. `MetricInv` says that the gauge is the number of
    requests between the statement that raises it and the one that lowers it;
  * `PathTypeCorrect`, which needs the same to keep the gauge from going below zero;
  * `ScrapesCountOnce`. `ScrapeInv` speaks of a scrape half way: were all it has yet
    to read read now, gauge and series together would be at most the requests that
    have entered and those that left since it began. A step that counts a request
    raises one series and the requests that left; one that lets a request enter
    raises the gauge and what has entered. At the start it is `EnteredInv`, an
    equation: the requests that have entered are those that are not yet counted and
    those that are; the gauge is at most the former because it is lowered first;
  * `LaxerReadersAgree` and `SameReadersOverHttp`, for headers of any length. Both
    come down to two facts: `TrimSpace` leaves no space at either end and changes
    nothing that has none, and the strict verifier accepts one header only
    (`ServiceVerifiesOne`). `HeaderInv` says that what has come over HTTP is trimmed.
* `StoreProofs`: `LockDiscipline`, `ListsAreSnapshots` and `WritesFindTheirTask`. A
  list under way has copied, of every id it has visited, what the map holds now
  (`ListsInv`): no one writes while it reads (`Excluded`). None of the three
  properties is inductive without the exclusion, which is why they share
  `StoreInv`.

Every safety property of the runs, invariants and refinements alike, is a theorem.
Only model-checked is liveness (`TransientJobsSucceed`, `JobsHaveOutcome`,
`QueueDrains`, `WorkersComeUp`, `EventuallyCoherent`, `EveryOperationAnswered`),
which needs ENABLED and is out of the installed provers' reach. Some theorems have
the hypotheses of the run that checks their property: `OnlyRacesLeaveStale`
without failures and GraphQL writes, `CreatesNeverRefused` for one such instance.

## Not modelled

* In `generated.go`: the scalar fields of a task, introspection and the complexity
  table, which read values that are always there and change nothing; deferred
  groups, which the schema never has; the field contexts, which are only wording.
* What answers contain beyond `PayloadsOwn`: two fields of one query may read the
  table at different times. No document promises otherwise.
* Requests to `/graphql` that ask for an upgrade to a websocket; what gqlgen makes of
  them is left out with its transports.
* The gRPC stubs (`proto/authpb`), generated; the gRPC client `authgrpc` and
  `AuthService`, constructed by no service, appear in `Verifiers` only.
* Fixed security headers, the instance id, the duration histogram and the labels
  of method and route of the metrics, so that a series is a status here; the wording
  of logs.
* A restart of the GraphQL service or of a browser; retries of nginx.
* Wiring, configuration and deployment, except where they justify a guard or
  fairness. Wording, timestamps, delays; the order of `GetAll`.

## Plan

The safety of what is modelled is proved. What may be added: a statement of what
leaves the cache stale when there are failures and GraphQL writes as well, as
precise as `StaleOnlyByRace` is without them; and the two hazards that no property
covers, root fields of one query that read the table at different times and series
of metrics for unknown paths, should the project come to promise anything of them.
