# Formal models of OriJS

TLA+ modules, TLC configurations and TLAPS proofs for the parts of this repository whose
correctness depends on order, concurrency, failure and time: workflows and events in
process and over BullMQ, the cache, WebSockets from the browser's client to Redis, the
application's life from construction to exit, the requests it serves and the log it keeps.

All paths are relative to the repository (`src/` is its root here).  `PROJECT.json` is the
index: components, runs, mutants, the map from definitions to source lines, hazards and
theorems.

```
tlc -workers 2 -config MCRedisWs.cfg MCRedisWs     # model-check one run
tlapm RedisProofs.tla                              # check one module's proofs
```

## 1. Inventory

OriJS is a TypeScript framework for Bun, made of packages that an application wires
together.  One JavaScript thread per process; concurrency is what happens between two
`await`s, in timers and in callbacks, and between processes that share Redis.

| Component | State it keeps | Operations | What is hard |
|---|---|---|---|
| In-process workflow provider (`workflows`) | flow states by id, cleanup and flow timers, per execution the completed steps | `execute`, `registerDefinitionConsumer`, `start`, `stop`, the asynchronous run of the steps | a parallel group fails in the middle; the timer fires during a step or the completion handler; cleanup meets a new execution of the id; stop and restart with runs in flight; exceptions that escape |
| In-process event provider (`events`) | handlers, timers, keys and their ages, delayed emissions by key, subscriptions | `emit` (delay, key), `cancel`, `start`, `stop`, `subscribe`, `toPromise` | cancel or stop against the timer; expiry of keys against delayed emissions; callbacks that throw |
| Test event provider (`events`) | timers, delayed emissions by key | `emit`, `cancel`, `stop` | two pending emissions of one key |
| Event system, registry, idempotency tracker (`events`), event coordinator (`core`) | definitions, pending registrations, processed marks in the order of a map | `start`, `onEvent`, `processOnce`, the wrapped handlers | registrations during `start`; marks set before the handler, evicted or expired; a handler that waits for an event of its own worker |
| Singleflight (`cache`) | flights and cached errors by key | `do`, `forget`, `forgetError`, `clear` | a forgotten flight ends after its successor started; synchronous throws |
| Cache builder and registries (`cache`) | entities, scopes, configs | `scope`, `entity`, `for`, `dependsOn`, `build` | which parameters two keys share |
| Cache service and providers (`cache`, `cache-redis`) | tracked configs; in Redis entries, meta sets and TTLs | `getOrSet`, `set`, `delete`, `invalidate` | invalidation between the factory's read and the store; meta keys with shared TTLs; what a process has tracked; commands that fail silently |
| BullMQ event provider (`bullmq/events`) | enqueue tasks, completion tracker, workers, receipts and retirements; jobs in Redis | `emit`, `subscribe`, `cancel`, `start`, `stop`, worker callbacks | a job finishes before its emitter listens; duplicates of a job id; scripts that interleave; replaced workers; stop with tasks in flight; crashes |
| BullMQ scheduled events | schedules by id | `schedule`, `unschedule`, `stop` | two places that say what is scheduled |
| BullMQ workflow provider (`bullmq/workflows`) | pending results, idempotent handles, local flow states; job chains in Redis | `execute`, `getResult`, durable handles, workers' `processStep` and workflow job, `QueueEvents` callbacks, `start`, `stop` | duplicates, retries after rollbacks, stalled workers, timeouts against announcements, readers in other processes |
| WebSocket Redis provider (`websocket-redis`) | sockets by topic, subscribed and pending channels, retry timers | `subscribe`, `unsubscribe`, `disconnect`, `publish`, `start`, `stop`, Redis events | join while the channel is being given up; leave while it is being asked for; late and lost answers; reconnection |
| WebSocket server (`websocket`, sockets of `core`) | connections, topics, connection states | upgrade, guards, message, close | a socket that closes, or sends, while guards are awaited |
| WebSocket client (`websocket-client`) | connection state, rooms, send buffer, timers | `connect`, `disconnect`, `destroy`, `send`, `joinRoom`, socket and browser events | events of an old socket after a reconnect; heartbeats and timers across reconnections |
| Application and lifecycle (`core`) | phases, hooks, shutdown flag, running systems | extensions, `listen`, `stop`, signals | a second signal, a hook that hangs or fails, a stop during the start |
| Container and validator (`core`) | providers, instances, services being resolved | `register`, `resolve`, `resolveAsync`, `validate` | cycles, overlapping asynchronous resolutions |
| Workflow coordinator (`core`), request-bound workflows | consumers, executions without a provider | direct execution, `ctx.workflows` | a second and a third implementation of workflows |
| Routing and request pipeline (`core`) | the builders' lists, the table of routes; one request | `guards`, `replaceGuards`, `route`, ..., dispatch | hidden state of the builders, shared arrays, the exits of a request |
| Logging (`logging`) | pending lines, buffer, write buffer, files, breaker | `configure`, `log`, `flush`, `shutdown`, rotation | a full buffer, transports that log or fail, rotation while writes are queued |
| Configuration, validation, mapper, SQL, responses, test utilities, tooling | none that outlives a call | | |

**Interactions.** An application registers consumers with coordinators, which hand them to
a provider (in-process or BullMQ) behind one interface, or run workflows themselves when
there is none; handlers call back into emitters and workflow handles.  The BullMQ providers
of several processes meet only in Redis: jobs and the announcements of `QueueEvents`.  The
cache service calls Singleflight for each key and a cache provider for storage; the
processes meet in Redis' entries and meta sets.  The client and the server meet in a socket
and in the messages on it; the server calls the WebSocket provider for each join, leave and
close, and the provider calls the server's `publish` for what Redis sends.  `listen()`
validates the container, starts the systems, opens the server and hands requests to the
pipeline; a stop, a signal or a timeout takes the same things down.

**What makes each modelled component correct.**

- *Workflows*: an execution that failed has undone everything that can be undone, later
  groups first, whatever the pool, the timer and stop() do; the caller is told once, and
  what it is told agrees with the status.
- *Events*: an emission is handled at most once, answered at most once and never handled
  after it was withdrawn; who waits is told; a started system listens; work is done once
  per mark; waiting handlers do not block their worker for good.
- *Singleflight*: one function runs at a time per key but for what forget() lets go.
- *Cache*: what invalidate() was meant for is gone, but for overlapping operations and for
  what the invalidating process does not know; stale data does not stay; the keys that a write and an invalidation compute meet.
- *BullMQ events*: the tracker's books agree with the callers; no finished job leaves its
  caller without an answer on the way; stop() is orderly and ends; a receipt stops what it
  should and leaves nothing behind; no worker is lost; the book of schedules is true.
- *BullMQ workflows*: a failed flow is compensated, the completion handler runs once, a
  caller that waits is in the books, callers with a timeout and readers are answered.
- *WebSockets*: a client that says it is connected can send; one that is to be connected
  comes back and is in its rooms; one that left stays away; guards come first; no topic
  that has sockets is left deaf, no channel is kept for nobody.
- *Application*: an open server is complete, an exit is orderly, a graph is accepted exactly
  when it can be built, and a service is built once.
- *Requests*: no declared guard or validation is skipped, and every answer is complete.
- *Log*: recent lines survive rotation, shutdown leaves no line behind, nothing is held back.

## 2. Modules

`Saga` and `EventRequest` are abstract: they say what a workflow execution and an emission
promise whichever provider runs them.  Every other module models one component or composes
some; each `MC` module extends one of them with values for TLC, and each `Proofs` module
extends one to four of them with proofs.

| Module | Models | State of the code → variables | Handlers → actions |
|---|---|---|---|
| `InProcessWorkflow` | `in-process-workflow-provider.ts` | `flowStates`, `cleanupTimeouts` → `flowStates`, `cleanups`; `FlowState` with its promise and timer → `flow`; the local variables of the asynchronous function → `run` | one action from each await of the function to the next; `Timeout`, `Cleanup`, `Stop`, `Start` |
| `InProcessEvents` | `in-process-orchestrator.ts`, `event-delivery.ts`, `event-subscription.ts` | maps of keys and timers → `keyAge`, `delayedByKey`, `timers`; subscriptions → `subscription`, `waiter`; handler calls → `tasks` | `emit`, `cancel`, delivery, settlement, `toPromise`, clock, clean-up, start, stop |
| `TestEvents` | `test-event-provider.ts` | timers and subscriptions → `emission`; the provider's maps → `pendingTimeouts`, `pendingDelayedByKey` | `EmitDelayed`, `Fire`, `HandlerSettles`, `CancelKey`, `StopTests` |
| `EventSystem` | `events.ts`, `event-idempotency.ts`, `event-handler-builder.ts`, the core's `event-coordinator.ts` and emitters, over a provider with workers | the closure of `createEventSystem` → `system`, `handler`; the tracker's map → `processed`, `old`; jobs and attempts → `message`, `run` | registration before, during and after `start()`, its two drains, subscription ends, the stages of a wrapped handler with hooks, `emit` and `wait`, eviction, stalls, `stop` |
| `Singleflight` | `singleflight.ts`, one key | `flights` → `entry`, `flights`; `errors` → `errorAge` | `DoJoins`, `DoStarts`, `FlightEnds`, `Forget`, ... |
| `CacheKeys` | `entity-registry.ts`, `cache-builder.ts`, `key-generator.ts`, `generateMetaKeys` and `addTrackedMetaKeys` of `cache.ts` | the registry → CONSTANTs; configs and keys → records | operators: what a builder accepts and builds, and which keys a config writes and an invalidation looks for |
| `CacheService` | `cache.ts` over `redis-cache.ts` or the in-memory provider | entries, meta sets and their expiry → `entries`, `members`, `metaTtl`; `tracked`; the operation of each process → `op` | stages of `getOrSet`, `Set`, `Delete`, `Invalidate`, the pipeline's steps of one meta key each, failing commands |
| `BullEvents` | `bullmq-event-provider.ts`, `completion-tracker.ts`, `queue-manager.ts`: request-response | jobs in Redis → `job`; tracker maps and enqueue task → `request`; workers and streams → `worker`, `listener`, `stream` | stages of `emit`'s task, worker, `Hear`, `Timeout`, `cancel`, stages of `stop`, `Start`, `Crash` |
| `BullQueues` | the rest of the same files and `scheduled-event-manager.ts` | Redis: `job`, `receipt`, `retired`, `scheduler`; per process: `worker`, `current`, `queue`, `book`; calls under way → `calls` | fire-and-forget `emit`, retirement and sweep, `cancel`, worker stages, `registerWorker`, `schedule`, `unschedule`, `stop`, `Start`, `Crash`, `CallFails` |
| `BullWorkflow` | `bullmq-workflow-provider.ts`, `flow-builder.ts`, `step-registry.ts`, `workflow-result-utils.ts` | a chain of jobs → `job`; `pendingResults` → `pending`; `idempotentHandles` → `handle`; local flow state and timer → `request`; a reader in some process → `reader` | stages of `execute`, of `getResult` and durable handles, the step and workflow jobs, rollbacks, listeners, timeouts, stalls, clean-up, start, stop, crash |
| `RedisWs` | `redis-websocket-provider.ts` | per topic one record: `localSubscriptions`, `redisSubscriptions`, the three pending maps, `retryTimeouts`; `wire`: commands without an answer; `heard`: Redis' view | `Join`, `Leave`, `Disconnect`, `Execute` (an answer), `TimeLimit`, `Drop` (rejections), `Ready`, `Retry`, the stages of `stop`, `Start` |
| `WsLink` | sockets between a browser and Bun, as both packages use them | `link`: state at both ends, messages each way | external: open, close, loss, delivery in order |
| `WsClient` | `websocket-client/src/client.ts` | the fields of `SocketClient` → `client` | one action per callback, timer, browser event and public call |
| `WsServer` | socket callbacks of `application.ts`, `socket-routing-coordinator.ts`, `socket-pipeline.ts`, `socket-coordinator.ts`, the in-process provider | per socket guards, state, topics → `server`; the coordinator's and the provider's tables → `topicSubscriptions`, `provider` | `Open`, guards, `Receive`, `HandlerEnds`, `ServerClose`, faults |
| `WsSession` | composes the three | | a client's or a server's step over one link |
| `Container` | `container.ts`, `dependency-validator.ts`, `provider-coordinator.ts` | `instances`, `resolving`, frames of `resolveAsync` → `di`; callers → `asked` | `Resolve` (synchronous), stages of `resolveAsync`, `Validates`; the recursions of the code are recursive functions of the set of services under way (`Visit`, `Resolution`, `Entrance`) |
| `Application` | `application.ts`, `app-context.ts`, `lifecycle-manager.ts`, start and stop in the coordinators; extends `Container` | phase, server, systems, shutdown → `app` | extensions, stages of `listen()`, hooks, `stop`, signals, `Timeout` |
| `DirectWorkflow` | the executor of `workflow-coordinator.ts`, and that of `ctx.workflows` | executions → `flow`, `handle` | steps, rollbacks, handlers of both |
| `Http` | `route-builder.ts`, `routing-coordinator.ts`, `request-pipeline.ts`, `request-context.ts`; extends `DirectWorkflow` | builders and routes → `site`; one request → `req` | the builder's calls; dispatch, guards, validation, interceptors, handler, exits |
| `Logging` | `logger.ts`, `log-buffer.ts`, `transports/file.ts` | `logger`, `file`, `disk`, `shutdown` | `Log`, `LogToFile`, `Configure`, `FlushLogger`, timer, microtask, appends, rotation, the stages of `shutdown()` |

`MCShared` puts `Singleflight`, `Logging` and `TestEvents` side by side in one run: they
share nothing, and a behaviour is one of one of them.

Redis, BullMQ, ioredis, Bun and the browser are external: they are modelled as the code uses
them, and `PROJECT.json` marks their definitions.  Definitions named in a "Mutant:" comment
are plausible bugs; no run uses them, they show that each property can fail.

## 3. Runs

All runs are exhaustive.  `CHECK_DEADLOCK FALSE` is set everywhere because every model
really may stop: requests, stops and faults are bounded and a system that has answered all
of them has nothing left to do.

| Run | Bounds | Shows |
|---|---|---|
| `inproc_workflow` | 2 executions of 2 workflows; 5 steps: one, a group of 3 through a pool of 2, one; a missing handler, a synchronous throw; timers or not; 1 stop and restart | `CompensationComplete`: a failure has undone everything undoable; `OneLiveExecution`; `OutcomeAgrees`; `Settles`: answered, and forgotten afterwards; `ImplementsSaga`, which includes the order of rollbacks |
| `inproc_events` | 2 emissions, 2 keys, 2 handlers, a delay equal to the TTL, callbacks that throw, 1 stop | `DelayedIsCancellable`; `Answered`: keyed and handled emissions settle, and who awaits is told; `ImplementsRequest` |
| `event_system` | 2 handlers, 2 messages of which one may be emitted by the other's handler, 2 slots, 2 attempts (of which the second may begin while the first still runs), a tracker of 1 mark, 2 calls of start(), 1 mark that gets too old or is cleared | `StartedMeansSubscribed`, `OncePerMark`, `EverythingEnds` |
| `cache_service` | 2 processes (one uses only the entity, one both), an entity and a dependent with different lifetimes and parameters, the meta keys that `CacheKeys` computes and some invalidate() of an order asks for, 1 update, failing commands, Redis or memory | `OldOnlyByOverlap` (entries and answers), `EventuallyCurrent` |
| `bullmq_events` | 2 processes, 2 requests for one job id, one timed, 2 attempts, 1 stop or crash | `CallersAreKnown` (the tracker's books, no lost answer, an orderly stop), `Answered` (with the end of stop()) |
| `bullmq_queues` | 2 processes, 1 key, 1 schedule id, and one of five budgets: two emissions with two retirements and a failure, or with two retirements, a crash and a second worker, or with cancel() and the sweep; three registrations with a job, a stop and a failure; two schedules and unschedules with a failure, a stop and a crash | `ReceiptsAreSound`, `WorkersAreOwned`, `BookIsTrue` |
| `bullmq_workflow` | 2 processes, 2 executions of 1 job id, keyed (a step) or not (a step and a parallel pair, of which one can outlast its timeout; or a pair of which one has no handler), or one execution with a reader and a restart; 2 attempts, step and flow timeouts, 1 stop or crash | `FailedIsCompensated`, `CompletionRuns`, `CallersAreTracked`, `Answered` |
| `websocket_redis` | 2 topics, 2 sockets, 2 attempts, 3 faults, 1 stop and start | `NeverDeaf`, `NoOrphans`, `Hears` |
| `websocket_session` | 2 sockets of one client, 1 room and the broadcast topic, 2 reconnection attempts, 4 calls, browser events or faults; routers that have the room messages, routers that do not, or none | `ConnectedIsUsable`, `ServerIsSound` (the tables agree, guards come first), `DisconnectIsFinal`, `RoomsJoined` |
| `application` | 3 providers in every graph of dependency lists of at most 2 entries (without events); and a chain, a fork, a shared dependency and one that is named twice, synchronous and not, with 3 failures, stops, signals or resolutions | `ContainerIsSound` (validation is exact, services are built once), `Orderly`, `EveryCallEnds` |
| `http` | every sequence of 4 builder calls over controllers that share one array, 4 kinds of routes; then one request whose handler may run one workflow of two steps and a parallel pair, with a handler for each step or none for the second | `GuardsHold`, `AnswersAreComplete`, `DirectImplementsSaga` |
| `shared_objects` | one of: 4 callers, 4 flights, 2 forgets, error TTL 2; the log under four budgets of at most 5 lines, files of 3, 1 rotated file, 2 failures, 2 configurations, a shutdown, a transport that logs; 3 test emissions, 2 keys | `HerdBound`, `JoinsRunning`; `LinesAreKept` (rotation and shutdown); `PendingIsKnown`; `EverythingMovesOn` (errors, flights and buffered lines) |

*Why these bounds are enough for the cases that matter.*  The pool of two over three steps
lets one step start only after another settled, so that a failure can come before, with and
after its siblings.  Two slots let a message be handled again while an attempt that was
given up still runs, and let two waiting attempts take all the slots there are.  Two executions, requests or callers are what races of one id, key or
entry take; two processes are what a shared job, entry or announcement takes; one stop or
crash can fall between any two of their steps.  Two attempts distinguish the first from the
last one.  Three faults let a subscription fail for good and a connection break besides.
Two ticks separate fresh, stale and gone.  Two sockets are an old one
and its successor; four events are a call of disconnect(), of connect() and two events
around them.  Three providers contain every cycle, fork and diamond that two dependencies
per class can make; three events of an application are a failure, a stop and a second
signal.  Four builder calls are enough for a declaration before a controller's route, one
after it and one of another controller through a shared array.  Five lines rotate the
file twice, and the second time a file is deleted.  Where a bound is not a limit of the code it is a CONSTANT whose
comment begins with "bound", or a member of a budget.

### Excuses

Several properties except a case that the code does not handle; each is one of the notes
below.  They are history variables or conditions of the model, never of the environment:
`missed` (an operation overlapped an invalidation, or the tracking of its entry failed) and
`overlooked` (the invalidating process knew neither the config of an entry nor a meta key of
it), `overtaken` and `mishandled` (sockets), `Raced`, `stalls` and `Lapsed` (BullMQ
workflows), `escaped` (workflows without a provider), `wasted` (constructors that ran for
nothing), the `late` of an extension (use() after listen() went through its list), `Stuck`
(a flight that threw synchronously), `rerun` and `late` (receipts), `astray` (schedules), `alone` (test emissions), `botched` and `tripped`
(the log), `forced` (a second signal), `stopFailed`, `Throws` and `gaveUp`.  Nothing else is
excepted: every other order of the same events satisfies the property.

### Fairness

Weak fairness only, only for what runs without the environment's consent, and as little of
it as the liveness properties need: where one of several steps has to happen, the condition
is about their disjunction and says nothing of each.

- timers fire (`Timeout`, `Cleanup`, `Tick`, `Retry`, `TimeoutFires`, the client's
  heartbeat and other timers, the log's interval and microtasks): the event loop runs what
  is due;
- calls of Redis and file operations end (`JobSettles`, `EnqueueStep`, `ExecuteStep`,
  `Execute`, `Starts`, `StopStep`, `EventLoop`): they have a retry, a time limit or an error;
- handlers settle where a property needs it (`HandlerSettles`, `Handles`, `FlightEnds`): a
  job with a handler that hangs is nobody's answer.  `InProcessWorkflow` assumes nothing of
  steps: `Settles` states that assumption for the executions that have no timer.  The cache
  assumes nothing but the passing of time, and the application nothing of hooks and systems:
  the shutdown timeout is what ends it;
- ioredis reconnects (`Ready`), and a browser opens or closes what was asked for; a server
  that is up takes its messages.  Announcements of jobs arrive for the readers of
  workflows (`Hear`); callers of events have their timeout instead.

No fairness is assumed of callers, of stop() being called, of crashes or of faults.
`bullmq_queues` and `http` check safety (and a refinement) only.

### What the code does otherwise than it, or its documentation, promises

Met while modelling.  Where a property speaks of the case, it excepts exactly this.

*Workflows in process.*  A sequential step handler that throws before it returns a promise
escapes the compensation: no rollback, no onError, status `running` for ever
(`in-process-workflow-provider.ts:895`); one without a handler fails the flow with onError
but no rollback.  A clean-up timer armed after stop() deletes the
entry of a newer execution of the id.

*Events in process.*  stop() clears the timers of all delayed emissions and rejects only the
keyed ones (`in-process-orchestrator.ts:254`, although the comment above says that pending
events are rejected).  A subscribe callback that throws keeps `toPromise(timeoutMs)` pending
for ever, its timeout included (`event-subscription.ts:145`, 201).  start() does not make the
clean-up interval again, so after a restart keys never expire.  In the test provider the
timer of an earlier emission takes the name of a later one of its key, stop() leaves pending
subscriptions unsettled, and an emission after stop() is delivered.

*Event system.*  After stop() `started` stays true, so start() does not start the provider
again.  A handler registered in the microtask between the second drain and the flag is
neither awaited nor reported.  processOnce() marks before the handler runs, so a retry of a
failed handler answers success.  A hook `onSuccess` that throws fails an event that was
handled.  Handlers that wait for events of their own queue hold its slots until their
timeout.  Chained emissions are not validated and lose their metadata.

*Cache.*  A failing command of the pipeline leaves an entry that no invalidate() finds, and a
failing script answers 0; only the time to live removes the entry.  A ttl of 0 with grace 0
stores without expiry.  A parameter named "entity" replaces the entity's name in a meta key.
An invalidation is said to delete all dependents found "via meta keys" (`cache.ts:67`, 379),
without registerConfig() (566); but a dependent whose meta keys have fewer parameters than
the call is found only by a process that has written or registered its config
(`addTrackedMetaKeys`), and is otherwise served until its TTL.  A function that throws
before its first await leaves a dead flight in the map (`singleflight.ts:108`), whose error
every later call of the key is given until forget(), although the error is documented to be
cached for `errorTtlMs` (`singleflight.ts:33`) and the flight to be deleted
(`docs/cache.md:367`).

*BullMQ events.* stop() rejects the requests that are still pending, although another
process may yet finish their jobs. A new request of a job id that ran before is answered
with the earlier outcome (`bullmq-event-provider.ts:339`). A retired key whose event never
completes keeps its state and refuses the event for ever; a job that BullMQ keeps under the
key refuses it as well; a worker that runs again after its receipt records one again after
the retirement. A registration that overlaps stop(), or whose worker never becomes ready,
leaves the worker running. A fire-and-forget emission in flight at stop() opens a queue
that is never closed. unschedule() believes the process's own book.

*BullMQ workflows.*  Two executions of one key that start together in one process: the loser
takes the entry of the other out of `pendingResults` (`bullmq-workflow-provider.ts:838`),
whose caller is never told.  Rollbacks run at the first failed attempt (2168), and BullMQ's
retry may complete the flow on steps that were rolled back.  A step that timed out but
succeeds is not rolled back (2099).  A step without a handler (2127, 2263), or results that
Redis does not give (2130, 2219, 2371), fail the job outside the compensation: no rollback
of the steps before, no onError, no report; in a group the steps that were started go on.
A failure is announced to its caller only once a Redis read has ended (2695); until then the
caller is in no table.  Results are read from a job fetched before it completed,
so getResult() may resolve with undefined (1331, "@returns The workflow result" at 1017).
result() and getResult() that wait at stop() never settle.  A status may be overwritten with
"running" after the settlement.  Eviction of a live flow's state disables its timeout.  A
keyed workflow with a parallel group gets a job id with a colon, which `flow-builder.ts:26`
rules out; `WorkflowAssumption` excludes it.

*WebSocket topics.*  The provider gives a topic up after the last attempt and nothing asks
again while its sockets stay, although `guide/13-websockets.md:688` says that channels with
local subscribers are restored at a reconnection.  Answers and timers that come after stop()
cleared its entries survive into the next start() (`redis-websocket-provider.ts:284`), and a
start() during stop() leaves a started provider without connections.

*WebSocket sessions.*  A connect() that overtakes the close event of the old socket leaves
the state "connected" with no socket (`client.ts:289`, against "auto-rejoined" at 597); one
while a reconnection is scheduled leaves `reconnecting` set (827).  Room messages that have a
route and arrive while guards run are refused and never sent again; the handlers of a join
and a leave of one socket overlap and may end in the other order.  Messages without a route
reach the application's handler before the guards pass.  A socket that closes while guards
run leaves its connection state behind, and its open handler runs afterwards
(`application.ts:1466`).  Client envelopes and server envelopes differ, and replies carry
`type` where the client dispatches on `name`; send() publishes to a topic nobody subscribes.

*Application and container.*  resolveAsync() refuses a shared dependency, and overlapping
calls, as circular.  A synchronous resolve() of a class whose constructor returns a promise
has run the constructor when it throws (`container.ts:187`), and a later resolveAsync() runs
it again.  An extension given to use() after listen() has run the deferred ones is kept and
never run where a factory makes the config.  Controllers and consumers are registered after the validation.  A
system whose stop fails leaves the later ones running; a listen() that fails half-way leaves
systems up, and stop() then does nothing; a failing ready hook leaves an open server without
signal handlers; a stop() during ready hooks ends in the phase "ready"; a second signal exits
in the middle of the shutdown; signals before the handlers are installed skip the hooks.

*Requests.*  An array given to guards() is kept by reference, and replacing guards globally
after a route changes a later guard().  Static responses run no guard.  Pipes are recorded
and never run.  ctx.workflows runs only onComplete, no steps and no rollbacks
(`request-bound-emitters.ts:371`, against `guide/12-workflows.md:241` and 319).  A list of
CORS origins never yields the header on a matched route (`docs/core.md:143`).  Headers set in
the context are not on rejections and errors.  The direct executor never calls onError, does
not roll back when onComplete fails, nor a step whose output fails its schema, nor anything
when a later sequential step has no handler (`workflow-coordinator.ts:539`): registration
looks only at whether there are any handlers (219).

*Log.*  An onError that logs through its own transport while the breaker trips leaves
`flushScheduled` set, and nothing is written until an explicit flush
(`transports/file.ts:155`).  A rename that fails after older files were shifted deletes
history line by line.  shutdown() does not await appends under way, and batches may land out
of order.  configure({async: false}) stops the timer with lines in the buffer.  Nothing in
the framework calls Logger.shutdown(), although its comment says that the Application does
(`logger.ts:194`).

## 4. Proofs

TLAPS proves the following for every value of the constants that satisfies the modules'
named assumptions: any number of steps, groups, executions, callers, emissions, messages,
processes, jobs, topics, sockets, attempts, faults, stops and crashes; any registry, config
and parameters, any controllers, any graph of services, and any sizes of the log.

| Module | Theorems (the property each states) | Assumptions |
|---|---|---|
| `InProcessProofs`: workflows | `CompensationIsComplete` (`CompensationComplete`), `OutcomesAgree` (`OutcomeAgrees`), `OneExecutionPerId` (`OneLiveExecution`), `RefinesSaga` (`ImplementsSaga`), `TypeCorrect` | `DefinitionAssumption`, `ParameterAssumption` |
| `InProcessProofs`: one per process | `HerdIsBounded` (`HerdBound`), `JoinedFlightsRun` (`JoinsRunning`), `FlightTypes`; `TestsKnowPending` (`PendingIsKnown`); `LogKeepsLines` (`LinesAreKept`) | `SingleflightAssumption`; `EmissionAssumption`; `LoggingAssumption` |
| `RequestProofs`: in-process events | `DelayedIsFound` (`DelayedIsCancellable`), `RefinesRequest` (`ImplementsRequest`), `TypeCorrect` | `EventAssumption` |
| `RequestProofs`: direct workflows, requests | `DirectIsSaga` (`DirectImplementsSaga`), `GuardsAreNeverSkipped` (`GuardsHold`), `AnswersAreWhole` (`AnswersAreComplete`) | `GroupsAssumption`, `HttpAssumption` |
| `CoreProofs`: event system | `StartIsComplete` (`StartedMeansSubscribed`), `WorkOncePerMark` (`OncePerMark`) | `EventSystemAssumption` |
| `CoreProofs`: WebSocket client and server | `ClientIsUsable` (`ConnectedIsUsable`), `DisconnectLasts` (`DisconnectIsFinal`), `ServerStaysSound` (`ServerIsSound`) | `ClientAssumption`, `TopicsAssumption` |
| `ApplicationProofs` | `ValidatorIsExact`, `ContainerStaysSound` (`ContainerIsSound`), `StaysOrderly` (`Orderly`), `ApplicationTypes` | `ContainerAssumption`, `ApplicationAssumption` |
| `RedisProofs`: cache | `FreshButForOverlap` (`OldOnlyByOverlap`), `TypeCorrect`; `DependenciesAreShared`, `CascadeKeysMeet`, `OwnKeysMeet`, `CacheKeysAreApart` | `ConfigAssumption`, `KeysMeet`; `RegistryAssumption` |
| `RedisProofs`: topics | `TopicsStayHeard` (`NeverDeaf`), `NothingIsOrphaned` (`NoOrphans`), `TopicTypeCorrect` | `RedisWsAssumption` |
| `BullEventsProofs` | `CallersKnown` (`CallersAreKnown`), `TypeCorrect` | `RequestAssumption` |
| `BullQueuesProofs` | `ReceiptsSound` (`ReceiptsAreSound`), `WorkersOwned` (`WorkersAreOwned`), `BookTrue` (`BookIsTrue`), `TypeCorrect` | `QueueAssumption` |
| `BullWorkflowProofs` | `FailedAreCompensated` (`FailedIsCompensated`), `CompletionRunsOnce` (`CompletionRuns`), `CallersTracked` (`CallersAreTracked`), `TypeCorrect` | `WorkflowAssumption` |

For each part an inductive invariant is proved action by action (`IInvHolds`, and
`FlightInvHolds`, `TestInvHolds`, `HttpInvHolds`, `SessionIsInvariant`, `TopicInvHolds`,
`ApplicationInvariant` where a module has several parts), and the theorems follow from it.  What it adds to the properties, and why:

*Workflow in process.*  That an ended execution has undone everything is not inductive: it
needs to be known what each stage of the asynchronous function has already established.
While steps run, `completed` holds the undoable steps that succeeded in the groups before,
nothing is undone, and what runs or failed is of the current group; during the rollbacks
`completed` holds every undoable step that succeeded.  `IInv` says this for each value of
`pc` and adds that the promise that was told and the status agree.  `OneLiveExecution` holds
up to the first stop(), and rests on `LiveInv`: while the promise of an execution is open or
its timer armed, its id stands for it in `flowStates` and has no clean-up timer.  The
refinement of `Saga` maps each execution step by step, in forward or backward direction or
done; that a step which starts is of the first group with something left to do needs
`ReachedInv`, which speaks of all groups before the current one.

*Direct workflows.*  An execution without a provider refines the same `Saga`, whose `Faulty`
steps are here the sequential ones that its consumer has no handler for.  Its steps and
rollbacks happen inside folds over the groups, so `FlowOK` says what is completed as a
sequence: in the order of the definition (`Places`), all the undoable steps of the groups
behind, and of the current one the steps that were looked at.  That the
rollbacks come in reverse follows from that order; what the fold over a parallel group and
the recursion over sequential steps leave in the sequence is shown by taking the least
number of steps for which it would be something else.

*Events in process.*  The subscription, the timer and the handlers' tasks of one emission
agree (`RequestInv`): an emission is withdrawn by whoever still finds its timer, so nothing
that is settled by cancel() or stop() is ever handled, which is the refinement of
`EventRequest`.  That cancel() finds a delayed emission is a race of two clocks that start
together (`KeyInv`): the age of the key and what is left of the delay add up to no more than
the TTL, so with delays within it the timer fires before the key can expire.

*Requests.*  A route copies the lists of its builder, so `GuardsHold` is about the builder's
history: `BuilderOK` says that whatever the calls so far asked for is in the builder's list
of that kind, in order (`Holds`), although the list may be an array of the program that
another builder lengthens (`given`).  `SiteOK` says the same of the table of routes, and
`RequestOK` follows one request through the pipeline: how far it has counted in the list of
its route, what has let it pass, and which answer it is to get.

*Event system.*  `StartedMeansSubscribed` speaks of a flag that is set after two drains of a
list with an await in each, while handlers are still being registered.  `StartInv` says
where each early handler is meanwhile: on the list, in the round that is awaited, or settled.
`MarkInv` ties the runs of a message's work to its marks: a mark goes only by being counted
(evicted, expired or cleared), so begun runs never exceed the marks that went and the one
that stands.

*WebSocket sessions.*  The client is usable because it has one socket at a time that is its
own, unless connect() overtook the close event of the old one (`OneSocket`, with the
messages that are on the link).  On the server each of the three tables (the coordinator's,
the provider's, Bun's) says the same of a socket (`Agree`), whatever a handler or a close
does to it; lemmas show that each operation leaves the books of the other sockets alone,
among them `removeConnection()`, which folds over the socket's topics.

*Dependency container.*  The validator searches the graph with one set of visited services
and a stack; resolve() walks it again while it builds.  Both are recursions over the
services that are left, which have a solution because each call has fewer of them
(`RecursionExists`, by the largest set for which there would be none).  They agree because
of what neither computes: a service is `Grounded` when whatever it needs can be had without
it.  A search that reports no cycle has left only such services behind it (`FromExplores`),
it reports none where there are only such (`FromAcquits`), and resolve() builds them
(`WithinSucceeds`) and nothing else (`WithinSound`).  That overlapping calls of
resolveAsync() build a service once needs `Alive`: which services are marked, which frame
awaits which, and that none of them has an instance.  That a caller whom nothing overlaps
is never refused needs that, as long as it waits, nothing below it has met a service under
way (`Pure`): in a tree of dependencies what lies below one branch is not below another
(`Branches`), however deep the calls of one turn go (`BeneathStays`).

*Application.*  `Orderly` says little before the server is open.  `Course` says which stages
of listen(), of a shutdown and of a call of stop() can be met together and which systems are
up by then; `Filled` says what is in the container at each stage: nothing before
bootstrap(), then the registrations of the program with the classes a server needs, which
no resolution takes away (`Grown`).

*Singleflight.*  `HerdBound` is not inductive: with one more function running than forgets
and no entry in the map, the next caller would break it.  `HerdInv` says why that state is
not reached: the entry pays for the last function, and only forget() takes the entry from
a function that runs.  The lemmas are about cardinalities as flights start and end.

*Test events.*  A timer that fires takes the name from its key, whichever emission has it:
that this is nobody else's needs `SharedKeysAreKnown`, that of two emissions which wait
under one key neither counts as alone.

*Log.*  That a deleted file held only lines older than all that is kept needs to be known of
what is still on its way: `FileOK` says how old, at least or at most, what is in each file
and in each pending append must be, which a rotation shifts by one file
(`OldEnough`).  Lines are handed over one by one, and a transport may log into the buffer
that is being emptied; `Moved` says that what comes back is never older than what left,
however many rounds it takes.

*Cache keys.*  What `dependsOn()` accepts, and what the builder adds for the hierarchy of
scopes, is a set of parameters that the dependent and its source both have
(`DependenciesAreShared`).  So the key a dependent is written under, and the key that the
invalidation of its source computes from its own, longer list of parameters, are the same
(`CascadeKeysMeet`); the same holds of an entity's own entries (`OwnKeysMeet`); and entries
that differ in anything that the entity is identified by do not share a cache key
(`CacheKeysAreApart`).

*Cache service.*  `CacheService` knows keys only as sets, of which it assumes `KeysMeet`:
what an entry is written under meets what an invalidation that knows the config looks for,
which is what the theorems about the keys say; the run takes its keys from the same
operators, so TLC evaluates the assumption on them.  That nothing old is left but by
overlap is not inductive, since an entry goes because it is found: `EntryOK` keeps, for
every entry that is not excused, that all of its meta keys hold its name and live as long as
the entry (`FoundAt`; `RaisedExpiry` never shortens them, and they age together), or that
some process is still adding it, and holds it in those it has come past (`Tracking`: also
one that stores the entry again while another is at it); and that no entry outlives the
lifetime of its config, so that the next pipeline covers it.  `OpOK` says what an operation
holds is as new as the last invalidate() meant for its config, but for what is excused.

*Events over BullMQ.*  That an answer is never lost needs that the process of whoever waits
listens from before its job is added until its tracker has stopped, and that the job's id is
mapped to its request by then.  `RequestSound` says both for each stage of the enqueue task.

*Queues.*  The receipts: that no work is done behind a receipt and that a retired key is
free depend on each other through the two keys in Redis, so `CycleOK` says for each
combination of recorded and retired which of them is there, and `LateOK` what got past the
receipt before it was there.  The workers: a replacement closes the worker that its process
kept, so `CurrentOK` says that this is its own and not still registering.  The schedules:
`ScheduleOK` says what a call knows of Redis between its command and its answer, while the
schedule has one call at a time.

*Workflows over BullMQ.*  `ListsEffects` keeps, for every state of a job, where an effect
that stands may come from, and that it goes with the list of what to undo; what a step may
still do that nobody waits for any more belongs to a place that lapses at every attempt
(`LapseShape`).  That the
completion handler ran once needs, for every phase of the chain, whether its run is behind
it; and a flow completes without its handler only because of a status "failed" in the tables
of one process, so `Sincere` says where such a status comes from: the caller has been told, or there is the
`Trace` of a handler that threw.  This needs `Tracked`, `PendingOK` and `StreamTrue`: the books of callers and the announcements agree with Redis.

*WebSocket topics.*  Until the first stop each topic is in one of four phases (idle, asked
for, kept, being given up), and the only command whose answer the provider waits for is the
last one sent.  `NeverDeaf` and `NoOrphans` follow phase by phase.  The lemmas follow one
topic's record through each function of the provider, and say what Append, Tail and a time
limit do to a queue with that shape.

*Folds and recursion.*  Several handlers loop over a list, and the models say so with folds
or recursive functions.  The library's induction theorems are not usable here (they take an
operator as parameter), so the modules prove `LeastNumber` from the well-foundedness of the
numbers and argue by the least length, round or count for which a claim would be false; that
a recursive function exists, and what FoldLeft and FoldSet return, is shown the same way.

*What the proofs corrected.*  The invariant of the receipts failed on a key that had a third
cycle, which the first bounds of `bullmq_queues` did not reach: the history variable `cycle`
began a new cycle when a job was added to a key that was complete, although a receipt that
a late worker recorded again was still there.  A cycle now ends only when neither key is in
Redis (`CycleEnds`), and the run has two retirements in its second budget as well.  The
proofs also needed what the models had left to their configurations: that a builder's and a
definition's lists are sequences and a definition names a step once (`GroupsAssumption`,
`HttpAssumption`), and that the broadcast topic is not a room (`TopicsAssumption`).

The validator and the container were first written with RECURSIVE operators, with which the
prover cannot work; they are recursive functions now, and the run has a graph in which a
dependency is named twice, because the proof that a lone caller is never refused asked what
becomes of it.

*Only model-checked*: liveness (`Settles`, `Answered`, `EverythingEnds`, `EventuallyCurrent`,
`Hears`, `RoomsJoined`, `EveryCallEnds`, `EverythingMovesOn`), which depends on fairness and
is out of the prover's reach.  Every invariant and every refinement that a run checks is
proved.

## 5. What the models leave out

- Payloads, results and errors are only distinguished as far as a property needs it.
  Tracing, metrics, progress reports and most `getStatus`-like readers are left out.
- `InProcessWorkflow`: two workflows share one step structure; data passed between steps is
  not modelled.
- `InProcessEvents`: one event; idempotency keys are global, so two events relate only by
  their keys.
- `EventSystem`: the registry's names, payload schemas and the metadata of chained events.
- `CacheService`: one operation at a time per process (concurrent callers of one key are in
  `Singleflight`), a cache key per config, invalidateMany (one call for several entities),
  no TTL of 0.  The SADD and the EXPIRE commands of one meta key are one step: what the
  script, an invalidation or another pipeline can do between them is the same as before or
  after both, but for the set's expiry, which `TrackFails` includes.  `CacheKeys`: names given twice, durations.
- `BullEvents`, `BullQueues`: one event, so one queue.
- `BullWorkflow`: eviction of local flow states, removal of retained jobs and expiry of the
  registry, look-up by flow id; a rollback that throws counts as done, as the code goes on
  after it; the chain is one record because only one of its jobs can run.
- `RedisWs`: messages (`publish`, `send`, `broadcast` and the forwarding to the server keep
  no state), batches of `resubscribeAll`, and a start() during stop().  Each topic has a
  queue of its own since commands of two channels commute.
- `WsClient`, `WsServer`: handlers of messages and of states, which run synchronously inside
  transitions, the text of messages, an invalid url; one client and the in-process provider
  (several sockets on topics of Redis are `RedisWs`); heartbeats of Bun.
- `Application`: registration calls that only fill lists are the initial choice of a wiring;
  the end of the race between shutdown and timeout and the stop of the server are one step;
  `Container`: clear(), clearInstances() and the warning about slow resolutions.
- `Http`: texts of paths, parameters and queries; the request-bound logger.
- `Logging`: the synchronous mode, formatting, filters, the console and multi transports and
  the tracing context; a line has size 1.

Not modelled as components, with the reason, are listed in `PROJECT.json`: those without
state beyond a call (responses, mapper, SQL, validation, configuration), process I/O
(tooling, test utilities), re-exports and samples.

## 6. Plan

Done: workflows, events and cache; the BullMQ providers; WebSockets from client to Redis;
the application, the container, requests, the log; the proofs of every safety property.
Next, in this order:

1. `WsServer` over `RedisWs`, with the application that starts and stops both.
2. `BullEvents` as a second implementation of `EventRequest`, `BullWorkflow` of a Saga with
   retries.
3. The eviction and expiry of local and registered flows in `BullWorkflow`;
   invalidateMany in `CacheService`; `Configuration` as an algorithm.

Parameters are CONSTANTS with named assumptions, state is records per execution, request or
topic so that a step touches one of them, and recursion is by recursive functions or folds:
this is what keeps a module within the prover's reach.
