# BrowserX in TLA+

Specifications of the concurrent core of BrowserX, the configurations that
model-check them with TLC, and proofs that TLAPS checks. Paths of sources are
relative to the repository; `proxy-engine/` is left out of a path where it is
obvious.

## 1. The system

BrowserX is three TypeScript programs on Deno and two Rust crates:

* **proxy-engine**: a gateway (listener, middleware, router) that hands requests
  to proxies, which forward them to upstream servers with load balancing,
  retries, circuit breakers and connection pools;
* **browser**: a browser engine (network stack, HTML/CSS/layout/paint, a
  JavaScript engine, storage, WebGPU);
* **query-engine**: an SQL-like language (lexer to planner) whose executor drives
  the other two;
* **crates/pixpane**, **crates/webgpu_x**: windowing and GPU bindings.

JavaScript is single-threaded: a handler runs undisturbed up to its next `await`,
and between two awaits anything else may run: another request, a timer, a
shutdown. That is where the hard behaviour of this code is, and every
specification here splits a handler exactly at its awaits.

### Inventory

| Component (source) | State | Operations | Interacts with | Hard behaviour | What makes it correct |
|---|---|---|---|---|---|
| **Upstream pool** (`core/connection/connection_manager.ts`) and **registry** (`core/network/internal/connection_registry.ts`) | map host -> pool; per pool: array, id counter, interval; per connection: state, times; registry entries | `getConnection`, `releaseConnection`, `remove`, `cleanup`, `closeAll` | offered to callers by `mod.ts`; every proxy owns a manager | dial awaited between the limit test and the push; release after close; new pool object for an old connection | one holder per connection, only open ones handed out, registry agrees, nothing leaks |
| **Circuit breaker** (`core/network/external/circuit_breaker.ts`) | state, failure times, successes, next attempt time | `execute`, `reset`, `forceOpen`, `forceClose`, getters that clean | one per host in `UpstreamClient` | outcomes of overlapping calls arrive in a later state | thresholds, cool-down, recovery |
| **Reverse proxy** (`core/proxy_types/reverse_proxy.ts`), **client** (`core/network/external/upstream_client.ts`), **retry/timeout** (`core/network/utils/`), **least-connections** | loop counters, statistics, balancer counts | `handleRequest`, `request`, `executeRequest`, `retry`, `withTimeout`, `recordSuccess/Failure` | gateway calls it; it calls breaker and balancer | two retry loops around a breaker, time-outs, concurrent requests | every request answered and counted once, load on the upstream bounded |
| **Gateway server** (`gateway/server/gateway_server.ts`) | running flag, activeConnections, timers and intervals, statistics | `start`, accept loop, `handleConnection`, `handleRequest`, `shutdown` | runtime above, middleware, router, proxies below | timers and shutdown against running handlers | limit, no socket survives shutdown, counts, silent clients dropped |
| **Runtime** (`core/runtime/runtime.ts`) | state, gateways, metrics server, shutdown promise | `start`, `shutdown`, signals | gateway | gateways started in the background, start and shutdown overlapping, a timeout against slow gateways | a stopped runtime serves nobody, a shutdown ends |
| **Health monitor** (`core/connection/health_check.ts`) | per server: health, consecutive counts | rounds of checks, `stop` | balancers | overlapping rounds | thresholds, newest verdict wins |
| **Router, balancers** (`gateway/router/`) | cursor, weights, sessions | `match`, `select` | gateway, proxies | concurrent selects | fairness of selection |
| **Middleware** (`gateway/middleware/`) | rate-limit windows | chains | gateway | window boundaries | never more than the limit per window |
| **Other proxies** (`core/proxy_types/`) | sessions, tunnels, subscriptions | `handleRequest`, tunnels | gateway, client | bidirectional streams | both halves end |
| **Network coordination** (`core/network/internal/`) | counters, hooks, windows, waiters | open/close, consume/wait, sync | registry | test, await, allocate; waiters | counters match connections, no lost wake-up |
| **HTTP/2** (`core/network/transport/http/`) | streams, windows, statistics | frames | sockets | stream states and counts | counts match open streams |
| **TCP, TLS, sockets, DNS** (`core/network/transport`, `resolution`) | connection states, cache | Deno calls | all of the above | mostly I/O | legal transitions |
| **Caches** (`core/cache/`) | entries, size | get/set/evict/expire | proxies | eviction against expiry | size within capacity |
| **Event, worker, thread, process, port** (`core/event`, `core/worker`, `core/thread`, `core/process`, `core/port`) | queues, pools | submit, acquire, release | proxies | a task that throws, a full queue | every task settles |
| **Memory, metrics** (`core/memory`, `core/metrics`) | counters | record | all | none | - |
| **Browser connection pool** (`browser/src/engine/network/connection/`) | array per key, totals | acquire, release, closeIdle | request pipeline | indices kept across awaits | totals match arrays (but no dial ever succeeds, section 6) |
| **Browser network stack** | codecs, protocol states | parse, encode, stream | sockets | QUIC and HTTP/2 states | legal frames |
| **Event loop** (`browser/src/engine/javascript/EventLoop.ts`) | four arrays of tasks, running flag, frame id | `setTimeout`, `setInterval`, `queueMicrotask`, `requestAnimationFrame`, `requestIdleCallback`, their `clear`s, `start`, `stop`, `processPendingTasks`, `drainMicrotaskQueue` | scripts, DOM | callbacks that call all of these while a batch is worked through; the loop hangs on its own frames | order, no task twice, no cleared task, a running loop runs on |
| **JavaScript engine** (the rest of the directory) | compiler, interpreter, heap generations | compile, run, collect | DOM | promotion | no lost object |
| **Rendering, WebGPU, OS, API** | trees, GPU resources | transformations | engine | sequential | - |
| **Storage** (`browser/src/engine/storage/`) | quotas, databases, cookies | put, delete, transactions | engine | accounting per type and in total | usage is the sum |
| **Query engine, calls and plans** (`query-engine/core/engine.ts`, `planner/`, `executor/executor.ts`) | status map, abort controllers, metrics; plans | `initialize`, `execute`, `executeAsync`, `cancelQuery`, `shutdown` | compiler phases, browser and proxy controllers | cancellation and shutdown against running plans; callbacks that come late; dependencies that change after they were stored | every query counted once, controllers tidy, a cancelled query stops, every statement gets a plan |
| **Query engine, the rest** | trees, contexts, caches | compile, evaluate | browser, proxy | sequential | - |
| **Crates** | native handles | FFI | browser | outside | - |

`PROJECT.json` lists the same components with their files and status, and the
hazards of the code, each at its line, with the properties that cover it.

## 2. Modules

| Module | Models | EXTENDS / INSTANCE |
|---|---|---|
| `ConnectionLease` | what a pool promises: an exclusive lease (abstract) | - |
| `UpstreamPool` | pool manager, pool objects and registry of one host | instance of `ConnectionLease` as the refinement target |
| `CircuitBreaker` | one breaker with overlapping calls | - |
| `ReverseProxy` | proxy loop, client, `retry`, time-out, balancer count | composes `CircuitBreaker` (instance, each attempt a call) |
| `GatewayServer` | listener, connection handlers, shutdown | - |
| `Runtime` | the runtime around a gateway: start, shutdown, metrics server | extends `GatewayServer` and composes with it: its steps are the runtime's own or the gateway's |
| `TaskLifecycle` | what an event loop promises those who post tasks (abstract) | - |
| `EventLoop` | the browser's event loop and the scripts that use it | instance of `TaskLifecycle` as the refinement target |
| `QueryPlanner` | the plan of every form of statement: steps, their dependencies, their bodies (operators) | - |
| `QueryEngine` | the engine's calls, the executor's loop over a plan | extends `QueryPlanner` |
| `MC*` | small instances for TLC | extend the module |
| `*Proofs` | theorems and proofs | extend the module; `ReverseProxyProofs` cites `CircuitBreakerProofs` through an instance, `RuntimeProofs` extends `GatewayServerProofs` |

Every action has a comment that names the code it is; `PROJECT.json` "map" has
the lines. Definitions marked "Mutant" are faulty variants of the definition
that follows them and are used by no specification: replacing that definition by
the variant must make TLC report the property the variant is listed with.

### UpstreamPool

`created`/`current` are the `HostConnectionPool` objects made so far and the one
in the manager's map; a connection is `[pool, id]`, because `nextId` restarts in
every pool object while the string id does not say which object it came from
(`remove` searches by it). `members`, `status`, `open` and `registry` are the
array, `PooledConnection.state`, the socket and the registry entry. Of the clocks
only their verdict is kept (`aged`: past `maxLifetime`; `idled`: past
`idleTimeout` since last use). A caller is `ready`, `dialling` (inside
`Deno.connect`), `holding` or `refused`.

`getConnection` is three actions (`AcquireIdle`, `AcquireDial` up to the await,
`AcquireRefused`) and two for the end of the dial; `closeAll` is `CloseAll`
(synchronous part of every `close()`) and `ClearPools` (after `Promise.all`).
`Release` and `Remove` go through `getPool`, which may make a new pool object.
Closing a closed socket throws, and what the code skips then is skipped. A connection is
`Tended` when it is in an array whose interval runs: being in the array of a pool object
that `closeAll` has stopped and dropped helps nobody. `MaxIssued` bounds the connections
that all pool objects create together.

Assumed of callers: they return a connection once, and do not use it after.
Assumed of the configuration: `healthCheckInterval` is set (it is by default).
In the repository only the proxies' `shutdown` uses the manager; `mod.ts` exports
it, and the callers here are its users.

### CircuitBreaker

`execute` is `Reject`, or `Admit` and later `Succeed` or `Fail`, in whatever state
the circuit is by then. `failures` is a set of `[call, at]` records (the code's
array of times; two equal times stay two records). `openedAt`, `overridden`,
`recovered` and `endedAt` are history that only properties read. `Spec` lets the
operator's controls come at any time; `UnattendedSpec` is the breaker as
`UpstreamClient` uses it. Listeners and `lastFailureTime` are left out: nothing
in the breaker reads them.

### ReverseProxy

A request goes through `stage`: `new`, `connecting` and `reading` (the awaits of
`executeRequest`), `rejected` (by the breaker), `backoff` (the sleep of `retry`),
`delay` (the sleep of `handleRequest`), and its answer. `outer` and `inner` are the
two loops' counters. Each `execute` is a call of the instance `Breaker`, so the
steps of a request ARE steps of the breaker (`Breaker!Admit`, `Breaker!Fail`...), and
`BreakerContract` says that a behaviour of the whole is one of `CircuitBreaker`'s
`UnattendedSpec`: the proxy, the client and `retry` never use it otherwise.
`stats` and `active` are the client's statistics and the balancer's
`activeConnections`.

One server per route: servers have breakers and balancer statistics of their own,
and the loop keeps the server it first selected. A health monitor may declare the
server unhealthy at any time (`Unavailable`). Delays end at any later time, so
back-off lengths do not matter. A response of any status is a success, as in the
code. `retry` decides by words in the error's message: `NetworkError` and `OtherError` are
the errors it takes for one of the network and the others, and `misread` says whether it
takes the breaker's own rejection for one, as it does when the server's name, which is
in that message, has such a word (`retry.ts:283`). A request's URI may make a URL that is
none (`BeginBadUrl`, `DelayOverBadUrl`): the client throws before it gets to the breaker,
in every attempt. Left out: `resetStats` (no caller), averages and totals, header rewriting,
the proxy's own `shutdown`.

### GatewayServer

`server` is `off`, `loading` (awaiting the TLS files), `up`, `broken` (the accept
loop has died, `running` stays true), `down` or `failed`. `pending` is a connection
`accept()` has produced and the loop has not seen: shutdown may run in between.
`tracked` is `activeConnections`. `stage` follows `handleConnection` and
`handleRequest` through their awaits: `reading`, `filtering` (request middleware and
routing), `proxying`, `responding`/`answering` (response middleware, for a request
that will be counted / for one that was or never is), `sending`. `timer` is the
request timer, `idleChecks[k]` the keep-alive intervals of `k`, one for every
request answered: the code clears none of them.

`shouldKeepAlive` is derived: an interval clears it exactly when it closes the
socket. Whether headers ask for a close is a free choice, and so are the answers
of middleware, router and proxies, which may take for ever. Assumed:
`keepAliveTimeout` is set (as by the runtime's default), start and shutdown are
called once each. Left out: byte and duration statistics.

### Runtime

Composes the runtime with one of its gateways. `state`, `metricsServer` and
`shutdownPromise` are the fields of those names; `starting` is the time `start`
spends in its awaits, `awaits` says what the shutdown is awaiting, and `found`
(history) the state the gateway was in when the shutdown came to it. `start` calls
`GatewayServer`'s `Start`, or fails; `Started` is the rest of `start`, which sets
`RUNNING` or `ERROR` whatever has happened since. `Reach` is the call of
`gateway.shutdown()`: `GatewayServer`'s `Shutdown` if it runs, else nothing.

The awaits of `start` are all of settled promises: what follows them comes in the
turn of the call, so nothing of the gateway and nothing that a shutdown does after
its own awaits comes between (`~starting` in their guards); a call of `shutdown`
does. A shutdown of the graceful kind calls all gateways at once, one of the forced
kind one after the other: the other gateways are the time it takes until this one's
turn comes (`others`) or until all are done. Left out: listeners of the runtime's
events that call it back, and a second `start` (it makes new gateways). A gateway makes
proxies of two kinds (`gateway_server.ts:192-199`), and the `shutdown` of neither can
throw: it stops a monitor and calls `closeAll`, which catches what closing throws. So the
`catch` of a gateway's shutdown (`runtime.ts:357`, `:408`) has no action. That the metrics
server's own `shutdown` is rejected (`runtime.ts:385`) is assumed not to happen.

### EventLoop

A task is its id, and ids grow, so an array in order of arrival is a set and its head
the least (`First`); `taskQueue` is sorted stably before it is used, by priority, due
time and order of the last push (`Before`). `depth` counts the iterations
nested in each other, since an iteration of a started loop is a render task and may
render in turn; `at` is where the innermost one is, `batch[d]` the copy of
`renderTasks` that level `d` works through, and `task` the one whose callback is
running. While a callback runs, and outside of any processing, a script makes any
calls (`Script`); a callback that throws is one that returns. `cleared` is history:
the tasks a script has asked to cancel while they waited or ran, found or not.

`processPendingTasks` and `drainMicrotaskQueue` start the processing;
`executeNextMacrotask` takes the first task that is due, `TaskEnds` queues an
interval again. `IterationEnds` is the end of `runIteration` with the
`scheduleNextIteration` after it. Whether a nested iteration renders, and when it is
out of time for idle tasks, are free choices. Assumed of scripts: they do not
process tasks from a callback and do not guess the id of the loop's own frame. All
microtasks have the default priority of `queueMicrotask`, so that the sort at
`EventLoop.ts:261` leaves them in order.

`TaskContract` says that the loop implements `TaskLifecycle`. There a task is posted
once, waits in one queue or among those `taken` for the present rendering, and leaves
to run, when nothing else does; it comes back only if its kind is `Repeating` and it
was not withdrawn; otherwise it leaves only because it was withdrawn, everything
queued was cleared, or, for a frame of the loop's `Own`, as its next iteration. The
mapping: the queue is the union of the four arrays, `taken` that of the batches of all
levels, `withdrawn` is `cancelled`, `Repeating` are the intervals.

### QueryPlanner and QueryEngine

`QueryPlanner` has an operator for each generator of the planner: the sequence of
steps and, for each, the steps in its dependencies array and those it keeps inside.
`StatementForms` is every statement the parser makes, as far as a plan depends on it:
any statement may be a subquery (`parser.ts:192-195`) or the body of a FOR or an IF, here
two deep (the analyzer allows ten). Two generators, SELECT's and UPDATE's, store an array
in a step and push onto it afterwards, so that `SelectArray` is what the array holds in
the end; SELECT hands it to the subquery, whose generator copies or keeps it
(`GivenArray`). `Overflows` says when `estimateParallelExecutionTime` does not return:
its recursion marks a step only after its dependencies, and so overflows the stack
exactly on a cycle. **The plan of every SELECT and of every UPDATE is such a plan**, so
that the README's first example (`query-engine/README.md:69`) is rejected by the planner.
The steps of a body are taken out of the plan (`planner.ts:335`, `:360`) and are no nodes of
the graph: a SELECT or an UPDATE overflows nothing there, and `executeBranch` runs its steps
in the order of their array, whatever their dependencies say.

In `QueryEngine` the synchronous part of a call is one step: `execute` rejects
(`NotInitialized`), fails in the front end (`FrontEndThrows`) or in planning
(`PlannerOverflows`), or gets to the executor (`Run`). The statement is the one the
optimizer hands to the planner. `todo` holds the step the executor is at and those that
follow it if it succeeds; `NextStep` is the end of a step that succeeds and the beginning
of the next, in the body of a BRANCH first, and `pages` says whose browser has a page,
without which no DOM step succeeds (`CanSucceed`: a LOOP never does, since nothing
sets its collection). `ExecutionEnds` is the end after the last or a failed step;
`Settle` is the callbacks `executeAsync` has put on the promise. `shutdown` is one step
for each query it cancels, because it awaits each, and `Close`; calls of it overlap.
`executeAsync` and `execute` generate an id each (`AsyncId`, `ExecuteId`).
A failed step makes the executor report `success: false`, at which `execute` does not
look: such a call is resolved and counted as successful.

## 3. Runs

| Run | Instance | Checks | States |
|---|---|---|---|
| `MCUpstreamPool` | 2 callers, limit 1, 2 pool objects, 2 dials each and 2 in all, 2 closers | `ExclusiveLease`, `HandsOutOpenOnly`, `RegistryAgrees`, `ClosedOnlyByShutdown`, `BoundedOvershoot`, `LostInTwoWays`, `LeaseContract` (refinement), `IdleIsReaped` (liveness) | 117 k |
| `MCUpstreamPoolShutdown` | as above, 1 closer | `ShutdownComplete`, **violated** | - |
| `MCCircuitBreaker` | 4 calls, thresholds 2, timeout 2, window 1, clock to 4 | `ClosedBelowThreshold`, `NoMissedClose`, `BarFromOpening`, `CoolDown`, `TripIsEarned` | 220 k |
| `MCCircuitBreakerRecovery` | 5 calls, no operator | `RecoveryIsEarned`, **violated** | - |
| `MCReverseProxy` | 2 requests, 2 retries, 7 calls each, threshold 4, clock to 1, rejections misread or not | `StatsBalance`, `EveryAttemptReports`, `NeverOvercounted`, `AmplificationBound`, `RestWhileOpen`, `BreakerContract` (refinement), `EveryRequestAnswered` (liveness) | 140 k |
| `MCRuntime` | 2 connections, TLS, limit 1, 1 request each, both kinds of shutdown, with and without metrics | of the gateway: `WithinLimit`, `DownMeansClosed`, `CountedOnce`, `TimerSparesRequests`, `ReadsEnd`, `ShutdownDrains` (liveness); of the runtime: `StoppedServesNobody`, `MetricsGoDown`, `StopsOnceAsked` (liveness) | 127 k |
| `MCGatewayServerIdle` | the gateway alone, 2 requests each | `IdleCheckSparesBusy`, **violated** | - |
| `MCEventLoop` | 3 tasks, 3 nested iterations, clock to 2, delays 0 and 1, 1 microtask per cycle | `NoTaskTwice`, `FirstSetFirstRun`, `MicrotasksFirst`, `ClearedStaysOut`, `LoopKeepsFrame`, `TaskContract` (refinement) | 2.6 M |
| `MCEventLoopClear` | 1 task | `ClearIntervalCancels`, **violated** | - |
| `MCQueryEngine` | 2 calls, 2 shutdowns, 10 statements: every kind, with SELECTs as body and subquery, two deep | `OutcomesAddUp`, `ControllersFollowExecutions`, `CancelledOnce`, `PendingOnlyWhileExecuting` (liveness) | 851 k |
| `MCQueryEngineSelect` | 1 call, the README's first example | `SelectsArePlanned`, **violated** | - |
| `MCQueryEngineCancel` | 1 call, plans of no, one and two steps and of a body | `CancelStopsExecution`, **violated** | - |

Every module has a type invariant, `TypeOK` or `RuntimeTypeOK`; it is proved
(section 4) and no run spends time on it.

**Bounds, and why they are enough.** Two callers of a pool of one suffice for
every conflict between two holders, for dials in flight past the limit and for a
caller that outlives a `closeAll`; two pool objects for a connection that returns
to a pool that did not make it; two connections in all for two beside each other in one
array, by dials in flight together, or one in each pool object with equal ids; two
closers for a `closeAll` that clears the map under the other. Four calls with thresholds
of two give a trip, a half-open success, a failed recovery and a call left over from
before. Two retries are the smallest
number with which the two loops multiply to more than either; seven calls are one
more than the six a request can make, so that the bound is never what stops it. The
breaker's threshold of four lets one request trip it alone or two together, and with a
window of no length only failures of one instant count. Limit 1 with two connections makes the limit bite and lets the second one in after the
first; two requests (in `MCGatewayServerIdle`) give a keep-alive interval that
outlives its request, while what a runtime does to a connection needs one. Three
tasks are two timers and an interval, microtask, frame or loop task between them,
or a loop's frame, its successor and a callback that stops and starts it;
as many levels let every task be an iteration in another's. Two calls are two
queries that a shutdown cancels with its await between them, and one of them may end
there; two shutdowns close the maps under each other. The ten statements have plans of
no, one and several steps, plans that overflow, and bodies that would. The theorems of section 4 do not depend on any of these values.

`CHECK_DEADLOCK` is off everywhere: an instance ends when its bounded connections,
dials, calls or requests are used up.

**Fairness.** Only of what the JavaScript runtime owes: timers and intervals fire
(`Cleanup`, `IdleOut`, `TimedOut`, `BackoffOver`, `DelayOver`, `RequestTimeout`),
promises that have settled resume (`Rejected`, `Resume`, `Started`, `Settle`), the
graceful shutdown gets past its race (`GracefulEnds`: its timer fires), and reads and writes of a
socket closed by the server fail (`ReadFails`, `SendFails` on a closed socket).
Nothing is assumed of callers, clients, the network, middleware, proxies or the steps
of a plan.
Hence `EveryRequestAnswered` excepts a request stuck in its dial, and
`ShutdownDrains` a handler that waits for middleware or a proxy.

### What the violated runs show

1. `ShutdownComplete`: a dial that ends after `closeAll` emptied its pool's array
   pushes an open connection where nobody will find it
   (`connection_manager.ts:220`, against `:403` "Close all connections in all pools").
2. `RecoveryIsEarned`: successes of a failed recovery are kept, so a half-open
   circuit may close after a single success (`circuit_breaker.ts:146-149`, against `:26`).
3. `IdleCheckSparesBusy`: keep-alive intervals are never cleared and close
   connections in use (`gateway_server.ts:342-349`, against `:341`).
4. `ClearIntervalCancels`: an interval cleared in its own callback is in none of the
   arrays `cancelTask` searches, and is queued again (`EventLoop.ts:243`, against `:467`).
5. `CancelStopsExecution`: a cancelled query goes on with its plan, because its
   controller has another id and the executor looks at none (`engine.ts:463`, against
   `:462`).
6. `SelectsArePlanned`: a SELECT of a URL depends on itself and overflows the planner's
   stack (`planner.ts:156`, against the example at `query-engine/README.md:69`).

The models show, without a run of their own: requests that are sent upstream more
than `maxRetries` times after the first (`AmplificationBound` has the true number,
`reverse_proxy.ts:54` says "Max retries on failure"); a dial no timeout covers
(excepted in `EveryRequestAnswered`; `reverse_proxy.ts:49` says "Connection timeout");
a gateway found loading its TLS files that listens after its shutdown (excepted in
`StoppedServesNobody`); a forced shutdown that leaves the metrics server
(`MetricsGoDown` is about the graceful one); `clearAllQueues` taking the frame of a
running loop (excepted in `LoopKeepsFrame`); a `remove` that splices out another
connection (excepted in `LostInTwoWays`); and bodies of IF that run in another order than
that of their dependencies (`NextStep`; nothing reads a dependency by then).

## 4. Proofs

Each proof module proves `Spec => []IInv` for an inductive invariant `IInv`
(`Inductive`), one lemma per action or group of alike actions, and derives the
properties from it. They hold for all values of the constants that satisfy the
module's named assumption (`PoolAssumption`, `BreakerAssumption`,
`ProxyAssumption`, `GatewayAssumption`, `LoopAssumption`, `QueryAssumption`: counts are
natural numbers, thresholds and limits positive, sets of actors finite, statements of
the forms the parser makes).

| Module | Theorems | What the invariant adds, and why it is needed |
|---|---|---|
| `UpstreamPoolProofs` | `TypeCorrect`, `LeasesAreExclusive`, `OnlyOpenConnectionsAreHandedOut`, `RegistryFollowsSockets`, `LeasesSurviveReaping`, `OvershootIsBounded`, `LeaksInTwoWays`, `ImplementsLease` | `Fresh` (pool objects to come are empty), `Leases` (a leased connection is never idle: without it `AcquireIdle` could hand it out again), `Arrays` (a connection is numbered below its pool's counter: without it a dial could reuse one), `Sockets` (`RegistryAgrees`, connection by connection) |
| `CircuitBreakerProofs` | `TypeCorrect`, `ClosedHasRoom`, `NoLostClose`, `BarIsFresh`, `UpstreamRests`, `TripsAreEarned` | `Records` (records are those of distinct failed calls at the time they failed: `TripIsEarned` counts calls, the code counts records), `Ripe` (a circuit that admits had its last opening timed out) |
| `ReverseProxyProofs` | `TypeCorrect`, `StatsAddUp`, `BalancerNeverOvercounts`, `AttemptsReport`, `AmplificationIsBounded`, `LoopsEndByThemselves`, `UpstreamRests`, `ImplementsBreaker`, and through it `ProxyClosedHasRoom`, `ProxyNoLostClose`, `ProxyCoolsDown`, `ProxyTripsAreEarned` | `Ledger` (a running call is the current call of a request upstream), `Budget` (what a request may have sent, and called, by how far it is in both loops: the product bound itself is not inductive) |
| `RuntimeProofs` | `RuntimeImplementsGateway`, `RuntimeTypeCorrect`, `RuntimeKeepsLimit`, `RuntimeClosesConnections`, `RuntimeSparesRequests`, `RuntimeCountsOnce`, `StoppedMeansDown`, `MetricsAreStopped`, `ShutdownIsUnderway` | `Quiet` (once the shutdown was at the gateway, it is down or was loading, whatever start sets later), `Underway`, `Unmetered` (a shutdown gets to the metrics server only when `start` is done with it) |
| `EventLoopProofs` | `TypeCorrect`, `TasksRunInOnePlace`, `TimersKeepOrder`, `MicrotasksGoFirst`, `ClearedTasksStayOut`, `LoopStaysAlive`, `ImplementsLifecycle`, `OneShotsRunOnce` | `Sorted` (arrays hold tasks of their kind), `Located` (where a callback runs says what task it is), `Dated` (due times and pushes follow the order of the calls, which `FirstSetFirstRun` needs across any distance), `Out` and `Marked` (what is cleared is flagged or gone), `Calm`, `Emptied` (a batch is overwritten only when it is empty, without which the copy of `renderTasks` could lose tasks) |
| `QueryEngineProofs` | `TypeCorrect`, `EveryOutcomeIsCounted`, `ControllersAreTidy`, `CancellationsAreCountedOnce`, `WhatOverflows`, `NoSelectIsExecuted`, `PendingIsNotForgotten` | `Planned` (what is executed has been planned without overflowing), `Asked` (only calls of `executeAsync` are pending, without which a cancellation could be counted for a call nobody made) |
| `GatewayServerProofs` | `TypeCorrect`, `SocketsAreTracked`, `LimitHolds`, `ShutdownCloses`, `TimersSpareRequests`, `EveryRequestCountedOnce`, `ReadersAreTimed` | `HandlersRun`, `TimersWait` (a timer of an open connection has a reader waiting), `LimitKept` (a stopped server's map is empty), `PendingIsNew` |

Four theorems are refinements: initial states map to initial states, and every step to
a step of the abstract specification or to a stutter.

* `ImplementsLease`: the pool implements `ConnectionLease`.
* `ImplementsLifecycle`: the event loop implements `TaskLifecycle`. `OneShotsRunOnce` is
  read off the abstract steps alone: what is no interval never comes back.
* `ImplementsBreaker`: inside the reverse proxy the breaker is `CircuitBreaker` (the
  mapping is the identity on the breaker's variables). What `CircuitBreakerProofs` proves
  of the breaker is cited through an instance, not proved again.
* `RuntimeImplementsGateway`: inside the runtime the gateway is `GatewayServer`, again by
  the identity, and what is proved of the gateway alone carries over.

Three arguments are of another kind than one lemma per action. `OvershootIsBounded`
counts arrays and dials in flight against callers. `EveryRequestCountedOnce` compares a
sum with the cardinality of the set of requests read, and each step moves one element in
or out of a finite set (`OneMoreRead`, `WaitingMoves`). `WhatOverflows` is
by cases on the form of statement: a SELECT's plan, of any source and subquery, and an
UPDATE's hold a step that depends on itself, which is a cycle (`SelectOverflows`,
`UpdateOverflows`); the others depend on earlier steps only, or on none
(`InOrderPlanned`). `NoSelectIsExecuted` follows for every call: what
`MCQueryEngineSelect` shows of one SELECT befalls all that are a call's statement.

**Only model-checked:** the liveness properties, since fairness and ENABLED are out of
the prover's reach. For most of them the safety fact that the argument rests on is
proved: for `ReadsEnd`, that every handler reading an open socket has its timer
(`ReadersAreTimed`); for `StopsOnceAsked`, that a pending shutdown awaits something, and
a graceful one nothing without a timer (`ShutdownIsUnderway`); for
`PendingOnlyWhileExecuting`, that a pending query has callbacks to come
(`PendingIsNotForgotten`); for `EveryRequestAnswered`, that both loops end without the
model's bound (`LoopsEndByThemselves`); for `ShutdownDrains`, that a server that is down
holds no open socket, on which a read or a write could wait (`ShutdownCloses`).
`IdleIsReaped` rests on no invariant: the two timers it needs stay enabled by their
guards. Every other property of a passing run is proved.

`LeaksInTwoWays` is the pool's account of what it loses, for any number of callers and
pool objects. An open connection that no running interval tends was untended before, or
was dialled on a pool object closed meanwhile (`connection_manager.ts:220`, the way of
`ShutdownComplete`), or was spliced out by the `remove` of another connection with its
number (`:154`). Both ways are real: TLC finds each when its exception is dropped. It
needs no invariant of its own: `Leases` says that a `remove` is given a connection that
exists, and `Fresh` that `getPool` starts no interval twice.

## 5. Plan

Done: the upstream path (pool, breaker, reverse proxy), the gateway in front of it and
the runtime above; the browser's event loop; the query engine's calls and plans.

What is left to prove: under which conditions on its callers a pool meets
`ShutdownComplete` (no dial in flight when `closeAll` begins, none before its map is
cleared), and with what change of the code the violated properties would hold; that the
gateway's counters, like the client's, are those of an abstract account of requests.

Candidates for further modules, should the repository come to use them: the worker and
thread pools, the network coordinator, the quota manager, the V8 heap.

## 6. Not modelled

* **Browser connection pool**: `createConnection` (`ConnectionPool.ts:210-214`) hands a new
  `SocketImpl` to `TCPConnection.connect`, which writes its SYN on it
  (`TCPConnection.ts:85`); nobody has opened the socket and `write` throws
  (`Socket.ts:170`). No connection is ever pooled, and a model of what happens to
  pooled ones would be of states the program cannot be in.
* **Health monitor**: what it may say of a server is left open in `ReverseProxy`.
* **Router, balancers, middleware, other proxies**: the gateway's model lets each of them
  answer in every way the code provides for, after any time or never.
* **Network coordination, HTTP/2 and HTTP/3, worker, thread and process pools**: exported, and
  used by no server of the repository, so that what their callers overlap is not known.
* **Transports, TLS, name resolution, OS bindings, WebGPU, the crates**: I/O of libraries
  outside the repository.
* **Rendering, parsing, compiling, optimising, interpreting, expression evaluation**:
  sequential transformations of data, better served by tests. They are most of the
  repository's lines.
* **Caches, storage, state managers, metrics**: maps and counters that are changed in one step.
