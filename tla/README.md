# A TLA+ model of vector-router

vector-router is a stateless gRPC service in front of a vector database (Qdrant,
or PostgreSQL with pgvector). Clients send raw `f32` vectors for a named model;
the router checks them against the model's specification, aligns and normalises
them, forwards them as an upsert or a search, retries on timeouts, and counts
everything in Prometheus metrics. This directory models its core in TLA+,
checks it with TLC on small instances and proves the main results with TLAPS.

## The system

| Component | State it keeps | Operations | What makes it correct |
|---|---|---|---|
| Configuration (`src/src/config.rs`) | the layers, the models still to be visited, the dimension seen per namespace | merge file and environment, fill in defaults, validate | the verdict depends on the configuration and not on the order of a hash map; what it accepts, the others may assume |
| Service lifecycle (`src/src/service.rs`, `src/src/main.rs`) | the runtime, three tasks, a shutdown broadcast | load, build the runtime, select the backend, spawn, signal, broadcast, bounded drain | a clean exit cuts nobody, the signal reaches every task, the process ends |
| Schema provisioning (`connect`, `ensure_schema` in `src/src/client/pgvector.rs`) | relations of the database; what a start has still to create | create the extension, a table and an index per namespace | a served namespace has its table, dimension and index through restarts and concurrent starts |
| Buffer pool (`src/src/pool.rs`) | a bounded queue of aligned buffers, guards that hold one, a counter | `take` (pop, or a counted fallback allocation), `copy_from_slice`, `as_f32`, drop of the guard | no buffer is lost, none shows an earlier request's bytes, a pool with a buffer per worker never allocates |
| Request path (`src/src/server/grpc.rs`, `src/src/math.rs`) | where each request is, permits of the concurrency limit, the in-flight counter, metrics | admission, `validate_and_prepare`, `call_vdb_with_retry`, cancellation | only intact vectors of valid requests are stored; every request ends, is answered for what it is and counted once; permits, buffers and counter survive every way out |
| Database clients (`src/src/client/*.rs`) | in-flight counter; for pgvector a pool of connections with statements, answers and transactions on them | `upsert`, `search`, `health_check` under a timeout | an answer is to its own question, a dropped call leaves nothing behind, connections come back |
| Model registry (`src/src/registry.rs`) | a map behind an `ArcSwap` | `get` (one load), `upsert` and `remove` (`rcu`) | updates are atomic, none is lost, `remove` answers for the instant it took effect |
| Supervision HTTP, telemetry (`src/src/server/http.rs`, `src/src/telemetry.rs`) | none of their own | `/ready` probes the database; `/health`, `/metrics`, `/dashboard` | a 200 of `/ready` is the database's |

Interaction: `main` loads the configuration, builds the runtime and connects; with
pgvector it provisions the schema before anything is served. A request's task
(one future on the tokio runtime) reads the registry once, borrows a buffer of the
pool and gives it back within one poll, then awaits the database client with no
buffer held. The client of pgvector waits for a pooled connection and sends its
statements over it. Permits are tower's `ConcurrencyLimitLayer`; a future that is
dropped (the client left, the timeout fired) runs the guards of everything it held.
The lifecycle owns all of it; its servers finish the requests they have before
they end.

What is hard: requests run in parallel on worker threads and share the pool; a
timed-out call keeps running in the database, and its statement stays on the
connection; a request can be dropped at each await, in the middle of a
transaction too; registry updates race; routers start, die and start again over
one database; a signal can come at any time. `PROJECT.json` lists the hazards one by
one, each with its line and the properties aimed at it.

## The modules

| Module | Models | Runs |
|---|---|---|
| `ConfigSpec` | a configuration and which ones are valid, in no order | used by `Config` and `Startup` |
| `Config` | load and validate, loop by loop | through `Process` |
| `Service` | start, signals, shutdown and drain | `claim_sigterm`, and through `Process` |
| `Process` | the whole life of the process: `EXTENDS Service, Config` | `service` |
| `Startup` | routers that provision one database, and restart | `startup` |
| `BufferPool` | the pool, for any set of takers | `pool` |
| `VectorDb` | the database as the router sees it (external) | through `Router` |
| `RequestSpec` | what the request path promises | implemented by `Router` |
| `Router` | the request path; `Pool == INSTANCE BufferPool` and `Db == INSTANCE VectorDb` are its parts | `router_*` |
| `MCRouterClaims` | what a comment says of the request path and the code does not do | `claim_unknown_label` |
| `PgClient` | calls of the pgvector client over sqlx's pool; implements `VectorDb` | `pgclient`, `pgsearch` |
| `RegistrySpec` | what the registry promises: atomic updates | implemented by `Registry` |
| `Registry` | `rcu` step by step | `registry` |
| `*_proofs` | theorems and proofs | |

Three refinements tie the layers together: `PgClient` implements the `VectorDb` that
`Router` is written against, `Router` implements `RequestSpec`, and its use of the pool
implements `BufferPool`.

### ConfigSpec, Config

`ValidConfig` says what an accepted configuration is, with quantifiers and in no
order. `Config` is the code: `Load` merges the environment over the file, option by
option and, in the table of models, field by field (`Merged`, as figment does), applies
the defaults and makes the checks before the loops; `CheckModel` and
`CheckNamespace` visit *any* model that is left, as the iteration order of a
`HashMap` is not fixed, and reject at the first fault; `ModelsChecked` and
`NamespacesChecked` are the code between and after the loops. `dims` is
`dim_by_namespace`. A layer is a function on a subset of the options, with some fields of some models; a text is `""`
or stands for a non-empty one; a namespace is a sequence of characters. Options
that are not validated (addresses, timeouts, the API key, telemetry) are left out.

### Service, Process

`main` goes from `starting` over `installing` and `waiting` to `draining` and
`exited`. A task is spawned after its receiver was subscribed, in the order gauge,
gRPC, HTTP; drain joins gRPC, HTTP, gauge. A server whose bind fails ends at once and
nobody looks before drain (`BindFails`). `tokio::time::timeout` polls its future
first, so `DrainTimesOut` needs an unfinished task. Before its handlers are
installed a signal kills; `InstallFails` is the panic of the installation. The servers' graceful shutdown is tonic's and axum's:
no new connections, idle ones closed, the end when none is open. `Router` is what
happens between a client's `Request` and its `Answer`.

`Process` puts the configuration in front: `LoadStep` is a step of `Config`,
`NeverRuns` the end on a rejected configuration or on the panic of tokio's builder
without a worker thread, `Running(step)` a step of `Service` once the runtime is built.

### Startup

One state machine per router process: `Start` with any valid configuration,
`BuildRuntime`, `SelectBackend` among the backends its binary was compiled with,
`Connect`, then `CreateTable` and `CreateIndex` for one namespace after the other, in
any order, and `Provisioned`. The database is new, or an operator has run some of
`sql/pgvector_schema.sql` for one of the configurations (`ByHand`). `Stop` is an error, a panic or a signal between any two
statements: the process state is lost, `rels` stays. `IF NOT EXISTS` asks for a name,
whatever relation has it, and PostgreSQL cuts a name to `IdentMax`, so that an index
can meet a table of its name or the index of another namespace.
`deployed` and `served` are history variables: the configurations that began to
provision, by a router or by hand, and those that were provisioned to the end.

### BufferPool

`queue`, `held`, `falling` and `exhausted` are the `ArrayQueue`, the buffers inside
`PooledBuffer` guards, the takers between a failed pop and their allocation, and
`exhausted_count`. A buffer is its bytes and its `len`; a byte is the taker that
wrote it, so "another request's bytes" can be told apart. `pop` and `push` are
single steps because the queue is lock-free and linearisable; the miss and the
allocation are two, because others run in between. `Drop` is the whole drop: clear,
compare the capacity, push, free if the queue is full.

### Router, RequestSpec

`pc[r]` is where the future of request `r` is. The limit's permit is taken at the
headers (`Admit`); the decoder then awaits the client's body under it (`reading`), as
long as the client likes, for the server has no timeout there. `Deliver` is the
client's: the body has come, or the length of one that is too long. One action per step of the handler
that others can observe: the lookup (`LookupRejects`, `LookupFinds`), `take`
(`TakeBuffer`, `AllocateBuffer`), the alignment (`AlignRejects`, `AlignZeroCopy`,
`AlignCopies`), the norm (`ComputeNorm`), the buffer back (`DropRejects`,
`DropPrepares`), then the call (`SendCall`) and the four ways it ends for the caller
(`CallOk`, `CallFails`, `TimeoutGivesUp`, `TimeoutRetries`), and the backoff
(`WakeUp`). `Finish` is what every completed handler does: metrics, answer, permit.
`Cancel` drops the future at any of its awaits. Upsert and search share all of it,
as in the code.

A task that runs occupies one of `Workers` threads (`WorkerFree`), and only between
two awaits; that is why buffers are bounded by threads and not by requests. The pool
is sized as `start_service_with_vdb` sizes it (`MaxDim`, `PoolSize`), by a worker
count of its own that need not be tokio's.

A payload is the bytes of its request, a length and a class of squared norm (`unit`,
`scaled`, `zero`, `nonfinite`): the classes `l2_norm_squared` and
`normalize_in_place` branch on. The database applies or loses a sent call at any
time, whether or not the caller still waits: `tokio::time::timeout` ends the wait,
not the call. `CallFails` covers every error that is not the timeout.

`RequestSpec` has neither pool nor permits, workers or calls: a well-formed request
takes effect at most `MaxRetries` times, at any moment after it was made; ok means
at least once; a malformed one is refused without effect. `Promise` is the refinement
mapping: the answer is what a client was told (`Told`), the effects are the applied
calls.

Left out: metadata, filters, scores, hits, durations, producer ids, the rejection
log. `inflight` stands for the calls of requests; the probes of `/ready`, which also
pass through the counter, are in `PgClient`.

### PgClient

A call (an attempt of a request, or the probe of `/ready`) waits for a connection,
sends the statements of its `Script` one after the other, and gives the connection
back. With `ef_search` set a search is `BEGIN`, `SET LOCAL`, `SELECT`, `COMMIT`. `Drop` and
`TimeOut` end it wherever it is; the connection then goes back with its unanswered
statement and, if a transaction was open, a `ROLLBACK` queued behind it
(`GiveBack`), and sqlx takes it back once everything is answered (`TakeBack`). A
connection that breaks takes its session along; an insert sent over it may
still arrive (`LateInsert`). Connections carry statements and answers as sequences,
sessions a transaction with its setting and its writes, so that an answer read by
the wrong call, or a setting or transaction left behind, would show. `SlotOf` and `Bound`
are the two places that number and bind the placeholders of the query. sqlx and
PostgreSQL are external, modelled from how the client uses them.

### Registry and RegistrySpec

`rcu` compares addresses. The loaded `Arc` is kept alive until the swap, so an equal
address means that nobody swapped since the load: `latest[t]`. A failed swap hands the
stored map to the next try. `remove` is written as the update to `NoModel`.
Readers load one `Arc` and change nothing; they are not actions.

## What the runs show

| Run | Instance | Shows |
|---|---|---|
| `pool` | 3 takers, 2 buffers of 4 bytes, payloads of 2, 4 and 5 bytes | the pool's type and capacity, conservation, privacy of the view, no fallback while a buffer is idle |
| `router_pipeline` | 3 requests, 8 kinds of message, 2 models, 2 workers, 3 permits, 1 attempt | what is stored, answered and counted; permits, in-flight calls and buffers over every way out; `RequestSpec` |
| `router_database` | 2 requests, 2 points, 3 attempts, a pool of 1 buffer for 2 workers | retries, late and double application; `BufferPool` and `RequestSpec` |
| `router_liveness` | 3 requests, 1 permit, 2 attempts, fair scheduling, bodies that may never come | the server waits for its clients only; a request whose message has come ends; all end if bodies come |
| `registry` | 2 threads, 2 models | `rcu` implements atomic updates and is lock-free |
| `startup` | 2 routers, one compiled without Qdrant, 6 configurations, a new database or one of 21 prepared by hand in part | tables, dimensions and indexes of a served namespace; a second boot changes nothing |
| `pgclient` | 3 calls, 1 connection, 3 kinds of job, `ef_search` set or not | what an answer means, the gauge, `VectorDb`; calls end |
| `pgsearch` | 3 calls, 1 connection, upserts and searches with a filter, a threshold, both or neither | settings and operands of a search |
| `service` | 23 kinds of start, faulty and sound, with overrides of single fields; 2 gRPC clients, 1 HTTP client | the verdict on the configuration; clean exits, delivery of the broadcast, the end of the process |

The bounds. In `router_pipeline` there are more permits than buffers, so that a
buffer held across an await would be missed by another request. Three requests on two
workers suffice for a buffer to be recycled
between two requests while a third competes for it, and for a queue to form
behind a permit (in `router_liveness`); a third attempt makes two abandoned calls outstanding at once. Two
models of different dimension give short and full payloads in one buffer size.
Requests are one-shot, so the state space is finite without a bound in the guards;
counters wrap at `CounterMod`, the stand-in for 2^64. One connection and three calls
let a call inherit the connection of one that was dropped while a third waits. Names
of at most three characters (`IdentMax`) and a suffix of one stand for PostgreSQL's 63
and `_embedding_hnsw`: a name can fit, be cut and clash. Two routers with changing
configurations include a router that dies and comes back while the other is at
work. The configurations of `service` meet each check of `validate` at least once,
with three models, so that the two in conflict can come in any order and not
side by side.

Fairness. Clients and the database are never fair by themselves.

- `FairSpec` (router): weak fairness of each request's own server steps; workers
  run ready tasks, and the timers of timeout and backoff fire. Weak fairness suffices
  for a worker to be free because each poll is finite and requests are finitely many.
  A client's body is not among them: `ReadRequestsEnd` and `OnlyClientsHoldUp` hold
  although bodies are withheld for ever, and `EveryRequestEnds` has their arrival as
  its premise (`BodiesArrive`). Without it the claim is false: as many clients as there
  are permits, each with a body that never comes, keep all others in the queue.
- `FairRcuSpec` schedules a thread inside `rcu`; nobody has to call it.
- `ProcessSpec` schedules main, the tasks and the closing of idle connections once the
  runtime is built, without the drain timer: `DrainNeedsNoTimeout` holds without it,
  `SignalEndsTheProcess` has its fairness as a premise.
- `ClientSpec` polls a call that can proceed, and sqlx's task that takes connections
  back. `AnswersEndCalls` assumes a database that answers and no timer;
  `TimersEndCalls` assumes the timers and no database.

Deadlock is checked in every run: a finished instance stutters by an action of its
own (`Finished`, `Over`, `AllDone`); a router of `Startup` can always be started or stopped.

### Claims the code does not keep

Each is a run that TLC ends with a counterexample; `PROJECT.json` quotes the lines.

- `claim_unknown_label`: `grpc.rs:242` says a failed lookup is labelled `unknown`; it
  is labelled with whatever id the client sent.
- `claim_sigterm`: SIGTERM is said to drain in-flight requests; the servers already
  serve when the handler is installed.

Some properties name a limit of the code instead of hiding it. `SingleWriterIsDurable`
is about points with one writer: a timed-out attempt may be applied after a newer
upsert of another request and put the old value back. `OnlyClientsHoldUp` says what a
withheld body holds up. `DimsFitUnlessReconfigured`:
after a restart with another dimension the old table stays and the database refuses
the model's upserts. `IndexedUnlessNamesClash`: a namespace goes without its index when
the index's name, cut to 63 bytes, is already taken.

## What is proved

For every value of the constants under the named assumptions (`PoolAssumption`,
`RouterAssumption`, `RegistryAssumption`, `ServiceAssumption`, `IdentAssumption`,
`LayerAssumption`, `StartupAssumption`, `ClientAssumption`, `NotRunAssumption`); TLC
evaluates each of them on the instances. Every safety property that a
passing run checks is the statement of a theorem.

- `BufferPool_proofs`. `PoolTypeCorrect`: the type is inductive, since a new buffer
  has exactly the pool's capacity when that is a multiple of four.
  `PoolViewsAreOwn`: inductive with "a buffer in the queue has length 0", which
  `Clear` establishes. `PoolConservation`: queue and guards together hold at least
  `Size` buffers, because a drop either returns its buffer or finds the queue full.
  `PoolMisses` follows from it for an empty queue. `PoolSized`: with takers at most
  `Size` nobody ever finds the queue empty, by cardinality.
- `Router_proofs`. `RouterTypeCorrect`: the types of service, pool and database. The
  invariant `TypeInv` adds that an arrived request carries a message (`Arrived`), that a
  request in its database phase owns a vector (`VectorsReady`), and that attempts count
  the calls sent (`AttemptsInRange`). `RouterImplementsPool`: each step of the
  router is a step of the pool or leaves it alone, so the pool's theorems hold of the
  composed system; `RouterPool` states them there. `RouterPermits` and `RouterGauge`
  count: a step moves one request (`Moves`), a count of places changes by what that request does (`CountChanges`), and `permits` and `inflight`
  change by the same. `Phase` says what each place of the handler implies of the request
  there: which checks it has passed, that it holds a buffer or none, that its view
  is its own payload, what its vector is. It is inductive with the type, and gives
  `RouterAnswers`. `StoreInv` (what is stored is the vector of a request that wrote there, what is searched for the search's own)
  gives `RouterStore` and, with `OkInv` (ok is about an applied last call),
  `RouterSingleWriter`. `RouterMetric` counts ended requests by label
  (`MetricInv`). `RouterBuffers` adds that tasks in a poll are at most the workers to
  the pool's conservation: with a buffer per worker nobody finds the queue empty,
  however many requests there are. `RouterKeepsPromise`: an applied call is an effect
  (`ApplyIsAnEffect`), every other step tells one client at most (`StepTells`), and what
  it tells fits (`ToldInv`). Liveness is out of reach, but two safety facts under it are
  not. `RouterDoesNotLockUp`: by `RouterQueue` (the queue holds exactly those who wait,
  once) and the count of permits, when nobody runs, could on a free worker, or heads the
  queue with a permit free, then those in progress await a body, or a permit while a
  body is awaited under each. It holds of a limit of 0 too, which `validate` accepts and
  under which all wait for a permit. `RouterDescends`: each
  move of a request lowers `StepsLeft`, which nothing raises, so it makes at most
  `3 * MaxRetries + 11` of them.
- `Registry_proofs`. `RegistryIsAtomic`: by `TriesAreSound` (the map a try has loaded is
  the stored one as long as nobody swapped; copy and flag are about the loaded map)
  a successful swap is the atomic update, every other step stutters.
- `Process_proofs`. `VerdictIsRight`: `validate` accepts exactly the valid configurations,
  for every file, environment, number of models and order. `LoadInv` says of each loop
  what it has established of the models behind it, and that `dims` holds exactly
  their dimensions. `CleanExitIsClean`: by `ShutdownInv` (a server that is over has no
  open connection, what drain has joined is over, nobody is cut in a living process).
  `DrainIsNotStuck`: by `MailInv` (a task is spawned with its receiver, and the broadcast
  goes out when all are) the task that the drain awaits is over, has a step to take, or
  serves a client that waits: the safety under `DrainNeedsNoTimeout`.
  `ProcessIsAService`: the process implements `Service`, since nothing
  is spawned before the runtime stands (`NotYet`). With it `ProcessEndsCleanly`,
  `ProcessDrains` and `ProcessLoadsConfig` carry the components' theorems over, and
  `ServesOnlyValid` says that what serves has a valid configuration.
- `PgClient_proofs`. For any number of calls and connections. The invariant `ClientInv`
  (`ConnectionsAreOwned`) says what is on a connection. One that a call holds has one
  statement out or one answer in, both the call's own, and the session's transaction is
  the one its statements so far have made (`Attends`, `TxAfter`). One that is being taken
  back has nothing, or what its last call left: a last statement, a `ROLLBACK`, or both,
  and an open transaction only with a `ROLLBACK` to come (`Leftover`). One in the pool
  has nothing. `OkMeansExecuted` and `SearchesRunAsAsked` are not inductive without it: an
  answer or a `SET LOCAL` left behind would be the next call's. Every step is about one
  call and one connection (`Between`), which settles all the others at once
  (`Elsewhere`); a lemma per action then has that call and that connection to look at.
  `OkIsExecuted`, `SearchesAsAsked` and `ClientTypeCorrect` follow; `ClientGauge` counts.
  `ClientDoesNotLockUp`: while a call is in progress, and the pool has a connection, the
  database owes an answer or the runtime has a step that is no timer's.
- `PgDatabase_proofs`. `ImplementsDatabase`: each step of the client is a step of
  `VectorDb`, the database that `Router` is written against, or a stutter. By
  `ClientInv` a step changes the fate of one call at most (`FatesElsewhere`), and for that
  one each action is one of `Moves`: made, executed, lost, or nothing. A call that
  was given up stays on its way as long as its statement is on a connection or late.
  `FatesAreFinal`: what was applied or lost remains so.
- `QueueTheorems`. Lemmas on queues without repetition, joined at the end and left from
  the head or the middle, which the router's and the client's invariants share.
- `Startup_proofs`. `StartupTypeCorrect`, `ServedAreTables`, `DimsFit`, `IndexedOrClash` and
  `SecondBoot`, for any number of routers and configurations. `StartupInv` says that each
  relation was created by a deployed configuration for a namespace of its (`Genuine`),
  that what a router has taken off its list is `Done`, and that a configuration once
  served stays `Done`, since nothing is ever dropped or altered.

Only model-checked: liveness (`EveryRequestEnds`, `SomeUpdateCompletes`,
`DrainNeedsNoTimeout`, `SignalEndsTheProcess`, `AnswersEndCalls`, `TimersEndCalls`), which
is out of the prover's reach.

## Not modelled

- f32 arithmetic: the router branches on the class of a squared norm, not on its value.
  A vector whose squares underflow is in the class `zero`, as the code computes it.
- The Qdrant client beyond the common contract (`VectorDb`): its conversions of payloads,
  filters and point ids are data of the client library.
- Registry updates while requests run: nothing in the binary calls `upsert` or `remove`
  yet, so `Router` has the registry of the configuration.
- The sections `server` and `telemetry` of the configuration, which are not validated, and
  the text of environment variables: a layer is what figment has parsed.
- Statements of `ensure_schema` that reach the database after their router has died:
  `Startup` ends with the process. `quote_ident`'s error cannot happen to a namespace
  that validation accepted.
- `/health`, `/metrics`, `/dashboard` and telemetry: constant, or a rendering of counters;
  the values of the gauges.
- The no-op and mock clients, the benches and the samples: doubles for tests and
  benchmarks.

## Plan

Done: the pool, the request path and its abstract specification, the registry, the
lifecycle with the configuration, provisioning, the pgvector client, and proofs of the
safety of all of them. What is left:

1. Lock-freedom of `rcu` without fairness: with a history of the swaps, that a try fails
   only when another update has completed since it loaded.
2. The registry inside the router: models registered while requests run, and what a
   larger dimension does to the buffers sized at the start.
3. Late statements of a dead router in `Startup`.
