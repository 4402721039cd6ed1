# A verification of Camber in TLA+

Camber (`src/crates/camber`) is a Rust library for services: a runtime that owns
tasks, resources and integrations, and HTTP, messaging and certificate services
on top of it. This directory holds TLA+ models of it, the TLC runs that check
them, and theorems about them checked by TLAPS. Every definition that models code
is listed in `PROJECT.json` under `map` with the lines it stands for. Paths below
are relative to `src/crates/camber/src`.

## 1. The system and how its parts interact

The runtime's driver thread starts the resources, runs the user's closure, and
then closes the root task scope, drains it, stops what is left, shuts the
resources down and names what is outstanding (`runtime.rs`). Every task of the
library is a child of the root scope (`runtime_state.rs`). Closing the scope fires
two latches that servers, schedules, health checks and signal watchers listen to,
and stops the registry of integrations (`integration_lifecycle/`), through which
NATS connections, SQS clients and certificate owners run their operations.

A server (`http/server.rs`) is one supervisor task; connections are its children,
and a WebSocket bridge is a child of its connection that may outlive it and then
keeps its permit. A connection gives each request to an exchange: it is routed,
its class and its body's admission are decided, middleware and handler answer it,
or an upstream does, and one completion record is written when Hyper drops it.
The outbound client (`http/client/`) runs one operation, with its retries and
redirects, under one lifetime.

What is hard to test in all of this is the meeting of two actors: a close between
the claim and the registration of a child, a deadline beside an answer, a late
answer for somebody who has left, a wake-up consumed by the wrong reader. The
hazards are listed in `PROJECT.json`, each at its line.

## 2. Modules

One module models one part. Definitions whose comment begins with "Mutant" are
altered forms of the definition after them; no specification uses them, and each
shows that a property notices the bug it describes.

| Module | Code | What its state and actions are |
|---|---|---|
| `TaskScope` | `runtime_state.rs`: `TaskScope`, `ScopeSlot`, `gated_child`, `drain_root_scope`; `close_and_drain` and `stop_executor` | `ScopeState`'s fields, the live slots, the place of every admitting call, child, closing thread and of the driver; one action per critical section or step between two of them |
| `Integration` | `integration_lifecycle/{registry,entry,accounts,access}.rs` | the live registry, entry phases, the report ledger, and per operation its guard, account, waiter and terminal. `settle()` runs outside every lock, so its four effects are four actions |
| `RuntimeLifecycle` | `runtime.rs`, `resource.rs`, `resource/`, `resource_lifecycle/` | the driver, the periodic coordinator, callback claims, worker threads, recorded failures. The scope's drain is the two outcomes it can have |
| `ServerStop` | `http/server_stop.rs` | what its lock protects: five events on a phase, a provisional fault and an outcome |
| `ServerContract` | `http/server.rs` as a handle's holder sees it | what a handle's holder may rely on: `Server` is shown to implement it |
| `Server` | `http/server.rs`, `http/server_lifecycle/`, `http/conn.rs` | extends `ServerStop` by the published watch, commands between commit and publication, the supervisor's biased selection, permits, connections and bridges |
| `Exchange` | `http/{handle,operation,inbound_read,transfer,body,streaming,async_proxy,grpc_handoff,multipart_route,disconnect,response_commitment}.rs`, `http/completion/` | one request: its class and budgets, the commitment cell and account, the upload, the response body. A poll collects what is ready and `FirstReady` chooses by the code's order; Hyper may drop the exchange wherever its connection can end |
| `Routing` | `http/{trie,router,host_router}.rs` | registrations and lookups, against a reference definition of which route a path has |
| `Answering` | `http/{dispatch,middleware,head_projection,rejection}.rs` | one routed request through frames, gates, handlers, mappers and the conversion |
| `Policies` | `http/policy_*.rs` | the bounds of five layers, their resolution and the report |
| `Admission` | `http/{body_admission,admitted_body,checked_collect}.rs` | a body under its ceiling, its permit, checked totals at word width |
| `MultipartParser` | `http/multipart/{parser,buffered,grammar}.rs` | the incremental parser fed frame by frame, beside the buffered one |
| `MultipartSession` | `http/multipart/session.rs` | handler, driver and the one-command slot between them |
| `WebSocket`, `WsProxy`, `WsHandshake` | `http/websocket/`, `http/ws_proxy/` | a direct bridge, a proxied one, and the judging of handshakes |
| `ClientSend`, `ClientBody` | `http/client/` | a buffered operation with attempts, redirects and retries; a streamed body between its owner and its handle |
| `Nats`, `NatsSubscription`, `Sqs` | `mq/` | publishing, receiving and SQS calls, with what the caller is told of each |
| `Dns01` | `dns01/` | the certificate owner: cache, orders, cleanup register, publication, process deaths and power losses |
| `Turn` | `turn.rs`, `turn/` | a semaphore's queue (external) and the counter of registered acquisitions |
| `TaskHandle` | `task.rs`, `task/result.rs`, `channel/sync.rs` | the one result and the three kinds of cancellation |
| `Loops` | `schedule.rs`, `signals.rs`, `http/health.rs`, the latches | perpetual loops against the signals that stop them |
| `Breaker`, `RateLimit` | `circuit_breaker.rs`, `http/rate_limit.rs` | atomics, one load, store or exchange per step |
| `Transport`, `CancelWatch` | `net/`, `on_cancel` in `runtime_state.rs` | accept and datagram loops, the Unix socket file; watchers replaced, stopped by the driver, dropped with the executor |

The proofs are in modules of their own: `TaskScopeProofs`, `RuntimeProofs`,
`PrimitiveProofs` (turns and the breaker), `ServerSteps` and then `ServerProofs`,
and `IntegrationSteps`, `IntegrationInvariant` and `IntegrationProofs`, each of
which extends the one before.

`MCServer`, `MCIntegration`, `MCExchange` and `MCRuntimeLifecycle` give constants
to one module. `MCTaskScope`, `MCRuntimeServices`, `MCOperations` and
`MCServerRequests` host several components that share no state: a variable `part`,
fixed in the initial state, says which one a behaviour exercises, and the
variables of the others hold 0, so that their state spaces add up and do not
multiply.

Abstractions to know of. The models have no clocks where a deadline may simply
pass at any time once it is armed; that covers every choice of durations.
Exceptions are `Exchange` (two clocks of `body_idle` are compared), `Loops`,
`Breaker`, `RateLimit` and `ClientSend`, which count ticks. Bytes are counted in
frames except in `MultipartParser`, where a delimiter may be cut by a frame's
edge, and in `Admission`, where lengths are numbers at word width. In `Exchange`
a guard that saw `Graceful` and then `Abort` names the cancellation where the code
may name the shutdown deadline, which is answered and recorded alike. Libraries
and services (Tokio's semaphore and executor, Hyper, the NATS client, the AWS
SDK, the ACME directory and DNS providers) are modelled from how the code uses
them and marked external in the map.

## 3. Runs

Each run asks one question. The properties whose names end in `Sound`, `Steps` or
`Live` say, for the component a behaviour exercises, what its module states.

| Run | Instance | Checks |
|---|---|---|
| `task_scope` | two async children (one internal), a blocking one, one requester and the driver; the hosted primitives | `ScopeConsistent`, `RefusedNeverRuns`, `DrainIsFinal`, `PanicSurvives`, `NoBodyAfterDrain`, `TeardownEnds`; `PrimitivesSound`, `PrimitiveSteps`, `PrimitivesLive` |
| `integration_close` | one instance with a close owner, an event consumer and an operation | `SettlementHonest`, `StopReachesAll`, `ResultAndHistoryKept`, `TeardownSettles` |
| `integration_operations` | two interchangeable operations of one instance, limit one, budget two; client operations, multipart bodies and a certificate order with three authorizations | `AccountsExact`, `FailureKept`, `TerminalBeforeResult`; `OperationsSound` |
| `runtime` | two resources; the hosted services | `ClaimsExact`, `OkMeansStopped`, `TeardownAccounts`, `TeardownUndisturbed`, `TeardownEnds`; `ServicesSound`, `ServiceSteps`, `ServicesLive` |
| `server` | one connection with an upgrade, a limit of one, every command, inside a runtime | `StopConsistent`, `OkMeansDrained`, `UpgradeSpared`, `PromiseKept`, `StopEnds` |
| `server_limit` | two interchangeable sockets for one permit; requests | `AdmissionCloses`, `LimitHeld`, `JoinProvesEnd`; `RequestsSound` |
| `exchange` | one request of each route class, one frame per body, two choices of budgets | `RecordHonest`, `SilenceKept`, `FramingKept`, `TerminalAnswers` |
| `integration_cause`, `runtime_dependencies`, `server_cancel`, `exchange_truncated`, `exchange_idle` | as the runs above, one property each | violated: see the findings |

What the passing runs show:

- `task_scope`: the count, the admission and the registry agree under every
  interleaving; a refused child never runs; a drain reported complete stays
  complete; a panic is kept; the driver comes down although children hang.
- `integration_close`: settlement is single, last and truthful; an instance
  admitted during the stop is stopped too; a close result is never replaced.
- `integration_operations`: the ledger and the counters are exact, a failure
  nobody reads reaches the teardown history, no result is readable before its
  terminal record.
- `runtime`: one callback per resource at a time, `Ok` only after every shutdown
  callback returned `Ok`, every resource accounted for, teardown ends although
  callbacks hang.
- `server`: the result follows the first committed cause, the first forced stage
  spares upgrades, and a committed stop, or the runtime's shutdown alone, ends in a
  joined server. `Server` is built from the events of `ServerStop`, and it
  implements `ServerContract` (`INSTANCE` with the connections' states). Admission
  is asked in one step and the connection spawned in a later one, so a shutdown
  that falls between the two finds one connection more, and ends it too.
- `server_limit`: connections and the bridges that outlive them never exceed the
  limit, and `join` waits for both.
- `exchange`: the one record names who answered and what was delivered; a peer
  that has gone is given no refusal; an HTTP/1 connection is kept only behind a
  drained upload; an expired total or a forced stop ends the stage it finds.

What the shared properties stand for:

| Property | By component |
|---|---|
| `PrimitivesSound` | scope `TypeOK`; `TurnExact`; `HandleHonest`, `CancelObserved`; `LoopsDisciplined`; `BreakerSound`; `RateHeld`; `ServeJoins`; `WatchConsistent`; `WebSocketSafe`; `HandshakeSound`; `WsProxySafe` |
| `PrimitiveSteps` | `TurnCloseFinal`, `TurnFifo`; `OnlyCurrentStops`; `WebSocketSteps` |
| `PrimitivesLive` | infinitely often at rest: `TurnRests`, `HandleRests`, `LoopsRest`, `BreakerRests`, `ServeRests`, `WsReleased`, `ProxyReleased` |
| `ServicesSound` | runtime `TypeOK`; `Dns01Safe`; `NatsSafe`; `SubscriptionSafe`; `SqsHonest`; `ClientSendSafe`; `ClientBodySafe`; `MultipartSessionSafe` |
| `ServiceSteps` | `ServedAdvances`; `FactKept`; `MultipartSessionSteps` |
| `ServicesLive` | `RenewalRests`, `PublishersBack`, `ReceiversBack`, `SqsCallsBack`, `OperationOver`, `BodyRests`, `SessionRests` |
| `OperationsSound` | integration `TypeOK`; `ClientSendSafe`; `MultipartParsed`; `Dns01Safe` |
| `RequestsSound` | server `TypeOK`; `RoutingSound`; `AnsweringSound`; `PoliciesSound`; `AdmissionSound` |

`MultipartParsed` compares the two parsers on every body of a small grammar cut
into frames in every way; `RoutingSound` compares the walk through the trie with
the definition of the best matching route; `PoliciesSound` and `AdmissionSound`
compare resolution and checked sums with their arithmetic meaning.

The `exchange` run checks for deadlock: an exchange stops only in `Over`, with
its record written and no upload left. The other systems are meant to stop, and a
state after the last step is the normal end of a behaviour.

### Bounds

Bounds are numbers of actors and of things; no counter is cut short inside a
behaviour except where a clock or a queue says so. Two children of one kind are
what a race between them needs, and the blocking child has no race of its own with
the registry. With a limit of one and a budget of two the second operation is
refused, for lack of a place and for lack of a report slot. Two sockets for one
permit make the supervisor park the second. Without a limit a socket is served
where it would have been parked, which `server_cancel` explores and the theorems
include, since they hold for every `Limit`. HTTP/1 upgrades consume the
connection, so there is one bridge for each. Three acquisitions of a turn with one
permit give a holder, a reserved waiter and one in line. Two health checks at a
threshold of two meet on the last failure, and the resource they probe may heal,
fail or panic at any time. The token bucket runs for one refill interval, longer
than a second and no multiple of it, with three requests, so that the rounding of
`Retry-After` shows. Two watchers are enough for one to displace the other, before
and after the driver's stop. A direct WebSocket carries two messages one way or
the other over a queue of one, so that one can be queued and one in hand when it
ends. The certificate owner is explored in two instances, because the number of
authorizations and the length of a history multiply. In `runtime` an order has one
authorization, and there are two orders and two restarts over all processes, each
of the process alone or with a loss of power: enough for a bundle whose sync
failed to be inherited and lost. A renewal beyond the second order is held back at
its decision, so what follows a long series of failed orders is not explored. In
`integration_operations` there is one order and no restart, with three
authorizations for a register of two items, so that several records are raised,
deleted and expire together and the register is full. An SQS receive asks for no
message, for the one a batch may hold or for more, and a message sent is empty, up
to its limit of two or above it. One retry, one hop and two hosts are enough
to carry a credential across an origin and a body into a second attempt. In
`exchange` one frame tells a body not begun, cut short and complete apart, and
the two choices of budgets hold the request's own deadlines and an idle and a
total one of the transfers. Handshake heads are a good one and all heads that
differ from it in one or two fields.

### Fairness

All of it is weak fairness: what the operating system's scheduler or the executor
gives a runnable thread or task.

- `TaskScope`: closing and driving threads and admitting calls in progress run
  on, and the executor drops an aborted child that is not being polled. Bodies owe
  nothing: they may hang for ever.
- `Integration`: a thread inside `settle()`, `close_scope` or the teardown runs
  on. Operations and close owners owe nothing.
- `RuntimeLifecycle`: the driver's thread alone, whose waits are all bounded.
- `Server`: the supervisor is polled and its deadlines expire; a committed command
  goes on to publish; a connection task that is running reaches its next await;
  Tokio drops an aborted task that is suspended. Serving connections and bridges
  owe nothing.
- `Exchange`: a turn in which a deadline or the control watch ends the request is
  taken, because both wake its task, and `quiesce` has a timeout of its own.
  Handlers, upstreams, peers and Hyper owe nothing.
- Hosted components: the task that owns the component is polled when it is
  runnable, and so is the caller where it is the library's own future; timers
  that are armed expire. Application callbacks, peers and services owe nothing,
  and a property that needs them to answer says so.

## 4. Proofs

TLAPS checks what follows for every value of the constants. Each inductive
invariant was also checked with TLC on a small instance. The temporal
part of every theorem is the same: the invariant holds initially, every step and
every stutter keeps it, and the property follows from it.

**Task scope** (`TaskScopeProofs`; `KidsAssumption`: the children are finitely
many, and a child is async or blocking and not both; `DriverAssumption`). `BooksAgree`,
`RefusalIsFinal`, `DrainFinality` and `PanicIsReported` state `ScopeConsistent`,
`RefusedNeverRuns`, `DrainIsFinal` and `PanicSurvives`; `BodiesStayStopped` is
the action property `NoBodyAfterDrain`. `ScopeConsistent` is not inductive:
nothing in it says which admitting call or child owns a slot. `IInv` adds
`SlotPhase` (a child has a slot exactly while its call or its task can still drop
it), `AdmitPhase` and `RegistryPhase` (how far an admitting call is, given the
task and the registry), `ClosersOrdered` (a closing thread leaves each step's
effect behind), `SweepPhase` (what the registry holds after the sweep) and
`PanicPhase`. Children leave the latches and the drain alone, and closing threads
and the driver leave the children alone; that is stated once for each kind, and
then every step is shown to keep what it can disturb. The two places where the
count changes rest on the library's cardinality theorems.

**Integrations** (`IntegrationSteps`, `IntegrationInvariant`,
`IntegrationProofs`; `IntegrationAssumption`: instances and operations are finite
and every operation has its instance). `StopMissesNobody`,
`FailuresAreKept`, `TerminalIsFirst`, `AccountsAreExact` and `SettlementIsHonest`
state `StopReachesAll`, `FailureKept`, `TerminalBeforeResult`, `AccountsExact` and
`SettlementHonest`; `ResultIsFinal` is the action property
`ResultAndHistoryKept`, and `SettledComesLast` says that an entry that reads
`Settled` has left the registry with its result fixed. `IntegrationInductive` has
three parts besides the types: `Stops` (an open entry that a closing thread has
not visited yet is in its snapshot, and admission ended before the snapshot was
taken), `Courses` (how an operation's account, terminal, waiter and place in the
limit go together along its course) and `Entries` (how the four effects of
`settle()` follow one another for the one account it took). The first module
classifies the steps by what they touch, so that the others argue by shape and
not by action. `AccountsExact` is proved last and apart: that the counters are
cardinalities is kept because every step puts at most one element into, or takes
one out of, the sets they count.

**Runtime** (`RuntimeProofs`; `NAssumption`). `ClaimsAreExact`, `OkIsStopped` and
`TeardownIsAccounted` state `ClaimsExact`, `OkMeansStopped` and
`TeardownAccounts`; `TeardownIsUndisturbed` is the action property
`TeardownUndisturbed`. None is inductive alone. `RuntimeInductive` adds what ties
a worker to the coordinator that waits for it (`Worked`, `Mine`), where a
coordinator can be while it waits (`Waits`), what the shutdown pass has accounted
for so far (`Accounted`) and what a result was made of (`Resulted`).

**Server** (`ServerSteps`, `ServerProofs`; `LimitAssumption`,
`InRuntimeAssumption`, `HandleAssumption`). The stop state alone: `StopSafety`
(`StopConsistent` is inductive with the types), `PhasesAdvance`,
`ResultImmutable`. A server moves it by its own events (the lemma
`ServerImplementsStop`, which the construction of `Server` makes short), and
`ServerNeverReopens` carries the two action properties over to the server.
`ServerInductive` says that the supervisor acts on nothing that was not committed
(`Acted`), that admission ends with the transition, with no socket past its check,
and the drain before the return (`Closed`), that an abort needs a forced stop and
a connection that owns a bridge is held (`Tasks`), that a bridge somebody joins lives only while that one does
(`Bridges`), and that a loss leaves its mark and an `Ok` was earned (`Faulted`,
`Answered`). `JoinIsProof`, `OkIsDrained`, `UpgradesAreSpared` and
`AdmissionIsClosed` follow. `LimitIsHeld` counts, with the permits in use, the one
a socket was given and has not taken, since the supervisor asks for a permit in
one step and serves two steps later.
`ServerKeepsPromise` is the refinement of `ServerContract`, step by step.

**Primitives** (`PrimitiveProofs`; `TurnAssumption`, `BreakerAssumption`).
`TurnBooksAgree` states `TurnExact` and `TurnServesInOrder` the step properties
`TurnFifo` and `TurnCloseFinal`, for any finite set of acquisitions and any
capacity; the order needs that tickets are drawn in sequence, which `TurnExact`
does not say. `BreakerStaysSound` states `BreakerSound` for any number of checks:
it needs that a check about to exchange the failure count read a value below the
threshold. A half-open circuit has a check that will decide it, unless the probe
of one panicked (`unwound`, which the model records and the code does not).

Only model-checked, and why:

- the liveness properties (`TeardownEnds` twice, `TeardownSettles`, `StopEnds`,
  `TerminalAnswers`, `PrimitivesLive`, `ServicesLive`): TLAPS does not reason
  about fairness and `ENABLED`;
- what the recursive definitions compute (`MultipartParsed`, `RoutingSound`,
  parts of `PoliciesSound`): that needs induction over data;
- `RecordHonest`, `SilenceKept` and `FramingKept` of `Exchange`, and the safety
  properties of the hosted components other than turns and the breaker: there is
  no proof of them here. `PrimitivesSound`, `ServicesSound`, `OperationsSound`
  and `RequestsSound` range over the component a behaviour exercises, so a
  theorem states the part of one component, as `TurnBooksAgree` does.

## 5. Findings

- **A cancel may be heard only at the graceful deadline** (`server_cancel`,
  `CancelHeard`). The supervisor reads the phase and then marks the watch as seen;
  a cancel that commits and publishes in between loses its only wake-up
  (`http/server_lifecycle/supervisor.rs:811`, against `http/server.rs:156`).
- **A close committed after the scope closed may be recorded as requested**
  (`integration_cause`, `StopOwnsClose`). The cause is read before the entry's
  lock is taken (`integration_lifecycle/entry.rs:380`, against the comment above
  it).
- **Shutdown callbacks may overlap** (`runtime_dependencies`, `DependenciesUp`).
  A callback that outlives its limit is left behind while the resource registered
  before it is shut down (`resource_lifecycle/worker.rs:91`, against
  `runtime.rs:219`).
- **A truncated upload may be answered by its upstream** (`exchange_truncated`,
  `IdleEndsRequest`). A proxied upload that `body_idle` ends is closed without an
  error and without a refusal, and no other stage watches that deadline, so an
  upstream that takes the part it received for the whole has its answer forwarded
  (`http/async_proxy.rs:1320`, against `http/request_budget.rs:16`).
- **`body_idle` is not restarted by transferred frames** (`exchange_idle`,
  `IdleIsQuiet`). Only the buffered read calls `frame_delivered`
  (`http/operation.rs:624`); a transferred upload is ended one interval after its
  guard was made, however recently a frame arrived (against
  `docs/reference/http.md:627`).

Met while modelling, without a run of their own; each is a comment or an assertion
that says more than the code does:

- a multipart request that ends without a mapped answer, and a gRPC head whose
  authority a host router cannot parse, publish the origin `protocol`, which
  `http/completion/facts.rs:541` calls unreachable;
- an aborted bridge may still hold its permit when `join` returns `Ok`
  (`http/server_lifecycle/connections.rs:481`, against `http/server.rs:108`);
- a generation whose directory sync fails is reported as a failed cache write
  after its rename, so the generation on disk is the new one
  (`dns01/publication.rs:111`, against `dns01/order.rs:537`). The old certificate
  stays served until a later pass. A process started after such a failure serves
  the bundle it finds, unsynced, and a power loss may then bring back the
  generation before, which `dns01/order.rs:539` excludes ("a restart never finds a
  generation older than the one being served"); `CacheSound` therefore states that
  only of a generation an order of the running process put into service;
- the circuit breaker allows more than "one probe" (`circuit_breaker.rs:5`): every
  check that reads `HALF_OPEN` probes, and a check that read an expired cooldown
  may exchange a circuit that was reopened meanwhile. `BreakerSound` says what
  holds under that. A probe that panics leaves the circuit half open with nobody
  to decide it, until the next check, which probes again;
- a cancel watcher may be installed after the driver stopped the one before it, and
  a panic that `stop_cancel_watcher` records (`runtime_state.rs:1427`) comes after
  the driver has read the scope's panic for the last time (`runtime.rs:802`), so
  nobody reports it;
- the streaming multipart parser bounds a field's headers and the buffered one
  does not, so a body the latter accepts the former may refuse
  (`http/multipart/parser.rs:252`, against `http/multipart/mod.rs:6`).

## 6. Not modelled

`PROJECT.json` lists every part with its status and the reason. Left out as a
whole: the channel and select wrappers (they rename the channels of Tokio and
crossbeam; the cancellation of a blocking receive is in `TaskHandle`),
configuration, TLS and secrets (read once by one thread at start-up), the HTTP
health route (a rendering of health that `RuntimeLifecycle` keeps), response
encoding helpers, error types and observability, the repository's test support,
and the command-line tool, code generation, macros and benchmarks. Inside the
modelled parts, tracing, metrics labels and error texts are left out, and so are
building the executor and the panic hook: a failure there returns before any of
the state exists.
