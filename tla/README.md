# ToolHive: TLA+ models of its concurrent parts

ToolHive runs MCP servers ("workloads") behind proxies and can put a *virtual
MCP server* (vMCP) in front of several of them. This directory keeps TLA+
models of the concurrent core of vMCP (the health of its backends, the life of
its sessions on several pods, the propagation of backend changes to clients and
the execution of workflows) and of the streamable HTTP proxy, through which
many clients share one stdio server. The modules are translated from the Go
code in `src/`; every definition has its lines in `PROJECT.json` ("map"). TLC
checks them on small instances, and TLAPS proves the main safety properties for
every value of the constants.

Contents: [inventory](#inventory) · [modules](#modules) · [runs](#runs) ·
[bounds](#bounds) · [fairness](#fairness) · [findings](#findings) ·
[proofs](#proofs) · [not modelled](#not-modelled)

## Inventory

How the modelled parts hang together:

```
 Kubernetes events -> dynamicRegistry --version--> status reporter --UpdateBackends--> health monitor
                                                        |                                | one goroutine per backend
                                                     reports                       status tracker + circuit breakers

 client --> vMCP pod 1..n: session manager --> validating cache (live sessions) --> admission queue --> backends
                                |
                          session storage (Redis or local, shared by the pods)

 backend --list_changed--> resync worker (per session and kind) --> capability cache --> per-session lists <-- registration

 composite tool call --> workflow engine --levels--> one goroutine per step --> backends
                                |
                     state store (checkpoints, final state) <-- CancelWorkflow, cleanup

 clients --HTTP--> streamable proxy handlers --messageCh--> stdio server
                     |  waiters, handshake, subscriptions       |
                     +<--------- dispatcher <--responseCh-------+      reaper, session expiry, Stop
```

| Part | State | Operations | What makes it hard |
|---|---|---|---|
| Circuit breaker (`pkg/vmcp/health/circuit_breaker.go`) | state, failure count, half-open test flag | CanAttempt, RecordSuccess, RecordFailure, timeout | results of checks admitted in an earlier state |
| Status tracker (`health/status.go`) | state per backend, removed set | RecordSuccess, RecordFailure, RecordRevision, RemoveBackend, ClearRemovedFlag, ShouldAttemptHealthCheck | results that arrive after the removal |
| Monitor (`health/monitor.go`) | backends, active checks, goroutines | Start, Stop, UpdateBackends, the check loop | cancelled goroutines are not waited for and overlap their successors |
| Status reporter (`server/status_reporting.go`), registry (`registry.go`) | last version seen, list being pushed | the two tickers, List, UpdateBackends, BuildStatus | the registry changes between any two calls |
| Session manager (`server/sessionmanager/session_manager.go`) | metadata in the storage, live sessions | Generate, CreateSession, Get with restore, Terminate, NotifyBackendExpired | several pods, one storage without transactions, failing calls, restarts |
| Validating cache (`pkg/cache/validating_cache.go`) | LRU of live sessions, singleflight | Get, Set, eviction | checks and loads run outside the lock |
| Session storage (`pkg/transport/session/session_data_storage*.go`) | one record per session | Create, Load, Update, Delete, expiry | conditional writes replace the whole record |
| Live session (`pkg/vmcp/session/admission.go`, `default_session.go`) | closed flag, wait group, connections | TryAdmit, done, CloseAndDrain, Close | requests race with Close |
| List-changed resync (`server/serve_list_changed.go`), capability cache (`aggregator/caching_aggregator.go`), registration (`serve_handlers.go`, `server.go`) | running and dirty flags, memoized view, per-session lists | trigger, loop, resync, purge, aggregate, merge | sweeps race with purges, registration races with resyncs |
| Workflow engine (`pkg/vmcp/composer/workflow_engine.go`, `dag_executor.go`, `workflow_context.go`, `state_store.go`) | step results, semaphore, group context, stored status | validation, levels, execution and retry of steps, checkpoints, final state, CancelWorkflow, cleanup | parallel steps share a context that any of them may cancel; snapshots are saved late |
| Streamable proxy (`pkg/transport/proxy/streamable`) with the transport session manager (`pkg/transport/session/manager.go`) | sessions, waiters, two bounded channels, subscriptions, lock per resource, shared handshake, GET streams | POST, GET, DELETE, Stop, dispatch, expiry, reap | late, lost and reordered responses; sessions that go away under a request; one backend for all clients |

The other parts of the repository (workload manager and its status files, the
other proxies, runner, operator, authorization server and so on) are listed in
`PROJECT.json` under "components", each with the main files of its packages and
the reason it is not modelled. "hazards" lists what can go wrong in this code
that a test would hardly reach, at the line where it bites.

## Modules

`A -> B` below means that B extends A.

**Health**: `CircuitBreaker -> StatusTracker -> HealthMonitor ->
StatusReporting`

* `CircuitBreaker`: operators on one breaker, a record like the Go struct. The
  time since it opened is the flag that the timeout has elapsed; the failure
  count is capped (`CountUp`), because nothing distinguishes counts above both
  thresholds.
* `StatusTracker`: the map of tracked states and the set of removed backends. A
  backend has its lock for the whole of each operation, so each operation is
  one step. `Store` is the shared tail of the operations, with the check of the
  removed flag.
* `HealthMonitor`: the goroutine of a backend lives in a *slot*. Its steps are
  the points where other goroutines may run: the question to the breaker, the
  probe's return and the recording of its result, the revision, the `select`.
  The probe is its set of outcomes. `UpdateBackends` is one step, the cancelled
  goroutines go on.
* `StatusReporting`: the reporter, with one step per call it makes, composed
  with the registry and the monitor. `configured` and `routable` in the report
  are history fields that the properties use.

**Sessions**: `SessionStorage -> ValidatingCache -> SessionManager`

* `SessionStorage`: what is stored under a session ID is reduced to its kind
  (absent, placeholder, terminated, bound), its backend IDs and the pod that
  wrote it, which stands for the per-backend connection IDs. Each call is
  atomic and ends in ok, missing or error. With `StorageFails` any call may end
  in error, and a write that does may have been applied: the reply was lost.
* `ValidatingCache`: the cache of live sessions of every pod, with its LRU
  order (`Without` is the removal of keys from it). Live sessions are objects
  of a finite pool; a closed object is used again only when nothing refers to
  it.
* `SessionManager`: the registration of a session (`creator`), the singleflight
  of Get per pod and session (`flight`), the callers of Terminate and the
  backend expiry (`notifier`), each advancing by one storage call or one
  critical section at a time. `Restart` loses everything a pod has in memory.
  `late` and `unsure` in a flight are history: the key was gone when the Get
  began; the liveness check met a storage error and kept the entry.
* `MultiSession`: the connections of one live session. The read lock of
  TryAdmit, the Add on the wait group and the unlock are separate steps, and a
  waiting writer keeps new readers out as in Go.

**Lists**: `ListChanged`: what a backend offers of a kind is a version number
(1 when the session connects, 0 before), a view has the versions of the
backends that were asked and answered, and the store of a list has a set of
versions per backend. So a merged list differs from a replaced one, and an item
that should be gone is a version that stays in the set. A sweep sees each kind
of a backend at some moment between its start and its end. It succeeds if one
backend answers and leaves out the ones that fail (`Answered`); only a sweep
without any answer is an error. The cache has an entry for each set of backends
that the health filter may let through, and may hold, like a request that is
sweeping already, older or partial views of the caller's other sessions when
the session begins. `owed`, `begun` and `spoilt` are history: a notification no
run has begun for yet; the versions when the last run of a kind began; the
backends that run has missed, for one of the reasons listed at `Missed`.

**Workflows**: `ExecutionPlan -> WorkflowStore -> Workflow`

* `ExecutionPlan`: a definition is its steps with type, dependencies, error
  handling and retries. `ValidateWorkflow` is what start-up lets through;
  `buildLevel` is one round of the topological sort.
* `WorkflowStore`: the entry of one workflow in the state store, CancelWorkflow
  as the two calls it makes, and the cleanup.
* `Workflow`: one execution. Each step of the definition is a goroutine with
  the program points where others may run: waiting for a slot, looking at the
  context, evaluating the condition, preparing, calling, waiting between
  retries, building a checkpoint, saving it, returning. The deadline and the
  client's departure are one variable that may change at any moment. Where the
  code branches on data (templates, answers of tools and users) either branch
  may be taken.

**Streamable proxy**: `ServerStreams -> Correlation -> StreamableProxy`, and
`Rendezvous`, which `StreamableProxy` implements

* `Rendezvous`: the promise of the correlation. A handler asks with a number
  nobody used before, gets the reply to that number at most once, and leaves.
* `ServerStreams`: the registry of GET streams. A stream has the name of its
  handler; `panicked` is set by closing a closed channel.
* `Correlation`: composite keys, waiters, the two channels with their
  capacities, and the backend (external): it grants or refuses, answers calls
  in any order, and requests or responses may be lost. Every client counts its
  JSON-RPC ids from 1, so that the ids of two clients are often equal.
* `StreamableProxy`: the handlers. A handler serves one request at a time, with
  a step for each point where others may run: the session lookup, Load and
  Store of AddWithID, the lock of a resource, the decision, the send, the wait,
  the record. Expiry may remove a session at any moment. The reaper asks about
  each session and sweeps in separate steps. `handshakes`, `excused` and
  `bypassed` are history.

`MC*` modules and `*.cfg` give the constants their values. `*Proofs` modules
hold the theorems.

## Runs

| Run | Checks | Shows |
|---|---|---|
| `health_monitor` (15,833 states) | `NoGhostBackend`, `LiveCheckIsCurrent`, `CountersAgree`; `InitialChecksComplete`, `StopTerminates`, `HalfOpenResolves`, `OpenCircuitIsTested` | Overlapping goroutines of a backend that changes, goes and comes back leave tracker and breaker consistent; nobody waits for ever. |
| `status_reporting` (372,746) | `FirstReportHasData`, `ReadyFromTheStart`; `RegistryReachesMonitor` | No mutation of the registry is lost in a report in progress; the first report has data, and Ready is earned. |
| `session_pods` (about 780,000, with symmetry) | `CachedIsOpen`, `ServedWasAlive`, `ServedIsOpen`, `GoneStaysGone` | Two pods, storage failures, restarts, expiry and termination in every order. |
| `session_lru` (1,437,003) | `TypeOK`, `LeakIsBounded` | Two sessions compete for one entry: evictions during restores and creations. |
| `session_live` (63,743) | `FailedSessionEnds`, `EvictionsEnd` | A failed registration ends in a terminated session; pods do not evict each other's sessions for ever. |
| `session_close` (1,037) | `NoCallOnClosed`, `CloseEnds` | No call uses a closed connection; Close returns. |
| `list_workers` (266,919) | `TypeOK`, `NoLostNotification`, `QuietMeansCurrent`; `CacheCatchesUp`, `UnmissedChangesArrive` | The coalescing loop loses no run, with backends that fail to answer, health that comes and goes, an older cache, requests, an early notification and the end of the session around it; of a connected backend the stores are stale only if the last run missed it, for a reason `Missed` names, and one backend's failure costs no other's items; requests do not see a stale answer for ever. |
| `composer` (203,378) | `TypeOK`, `DependenciesFirst`, `AtMostMaxParallel`, `CompletedIsEarned`, `RecordedIsTrue`, `ReturnedIsRecorded`; `WorkflowEnds` | Executions of every acyclic graph on three steps and of four richer definitions, with errors, retries, deadline, departure, CancelWorkflow and cleanup at any moment. |
| `proxy` (110,996) | `ProxyTypeOK`, `RecordedMeansSubscribed`, `HandshakeOnce`, `NoDoubleClose`, `RegistryIsLive`; `AnswersItsOwn` (refinement), `PostEnds`, `GoneSessionForgotten` | Handlers, dispatcher, reaper, expiry and Stop in every order, with losses, late responses and full channels. |
| `session_resurrect` | `TerminatedIsFinal` | violated, see [findings](#findings) |
| `session_expired_backend` | `ExpiredBackendStaysOut` | violated |
| `list_stale` | `ChangesReachTheClient` | violated when a request of the same caller shares the cache |

The type invariants of the other modules, and seven more invariants
(`HalfOpenHasCheckInFlight`, `FailingExactlyFromThreshold`, `StoppedIsQuiet`,
`SeenVersionIsApplied`, `DiscoveredAreConfigured`, `AtMostOneRun`,
`PlanSucceeds`), are proved for every value of the constants and not repeated
in a run; see [proofs](#proofs). Every property of a passing run has a mutant
in `PROJECT.json`: a small change of a mapped definition, the kind of slip that
could be made in the code, under which TLC finds the property violated.

Deadlock is not checked where the system may stop: a monitor that has been
stopped, a session that has ended and a backend that has no more changes to
make (a bound), a workflow that has returned and a proxy that is down leave
nothing to do. It is checked in `session_close`: requests keep arriving at a
closed session and are turned away.

## Bounds

* Health: backends do not share state except for the wait group of the initial
  checks, so one backend shows every race within a backend. It has two URLs (a
  change of URL restarts its goroutine), two slots (the old goroutine overlaps
  the new one), and thresholds of two with counts up to three, so that closed,
  open and half-open are all reached with failures below, at and above the
  threshold. The theorems cover several backends, URLs and slots.
* Reporting: three mutations of the registry let one arrive in each of the gaps
  of a report (before List, before UpdateBackends, before BuildStatus). The
  breaker is off there: the first run covers it.
* Sessions: two pods, because a third adds no new pair of racing writers; three
  objects: one being created, one restored and one cached at once; a cache of
  one entry, so that two sessions in `session_lru` are under pressure at every
  step. IDs are never used again (uuid).
* Close: three requests and two connections: one request in each stage of
  admission while the third calls.
* Lists: two goroutine names are enough because a second one exists only if
  `AtMostOneRun` fails; two changes reach the dirty flag and the loop's second
  round. The kind has two lists (resources and templates), and there are two
  backends, so that one can fail, be left out by the health filter or change
  without a connection while the other is well. `MCBounds` is chosen in `Init`:
  two changes of one backend; a change of both; one change with failing
  backends, with a live request, with both; with views and sweeps from before
  the session; with an unconnected backend and changing health.
* Workflows: every dependency graph on three steps goes through the validation
  and the acyclic ones are executed. Four richer definitions, with up to four
  steps for two slots, have each type of step, each way to handle errors, a
  condition and more retries than the cap. The definition is chosen in `Init`,
  so the cases add up and do not multiply.
* Proxy: `Mixes` is chosen in `Init` likewise, with two handlers and at most
  three forwarded requests: two clients that shake hands while requests without
  a session pass; calls that fill `messageCh`; two sessions, and requests
  without one, that share a resource; the same two sessions with three
  requests, which is what the last unsubscribe of one during the first
  subscribe of the other takes; a session that is deleted or expires while it
  subscribes; streams that are opened twice, deleted, reaped and stopped. The
  channels hold two and one message, so that both are full at times. The
  theorems cover every number of sessions, handlers, resources and requests.

Symmetry is used in `session_pods` only, which checks no liveness.

## Fairness

Weak fairness for the steps of goroutines the Go scheduler runs, of calls that
are bounded by a timeout (health probes, backend sweeps, storage calls), of
tickers and of time. Strong fairness for one step: a cancelled health goroutine
leaves its `select`, which picks at random among ready cases and is reached
again and again. Nothing obliges an operator, a client, a backend or Kubernetes
to do anything: starting, stopping, updating, terminating, requesting and
changing are not fair, nor is it assumed that checks succeed or fail. In
`session_live` a Get begins when it wants and ends once it has begun. It has no
clients that terminate and no expiring backends, since each Terminate or expiry
may cause an eviction of its own.

In a workflow, weak fairness of the engine and of each step: calls, delays and
questions to the user have deadlines. In the proxy, weak fairness of the steps
of a handler (a wait ends by the request timeout at the latest), of a stream's
handler once it is told to stop, and of the reaper's passes; strong fairness of
taking a resource's lock, since Go's mutex hands itself to a waiter that has
waited for a millisecond. The backend is not fair: `PostEnds` holds if it never
answers.

## Findings

Three runs expect a violation. `PROJECT.json` quotes the lines they contradict.

1. `session_resurrect`: Terminate of a placeholder marks its key and does not
   delete it; CreateSession's conditional Update, meant to close that window,
   succeeds because the key exists. The terminated session comes back bound.
2. `session_expired_backend`: NotifyBackendExpired and the write-back of a
   restore both write the whole record from a snapshot, so the expired backend
   can return to the stored list.
3. `list_stale`: a request whose sweep began before the change puts its view in
   the cache after the worker's purge; the resync reads that view and no later
   event corrects the session's lists.

Smaller divergences seen while reading, with no run of their own:

* `RecordSuccess` closes an open circuit directly, when the check was admitted
  before it opened; the comment at `circuit_breaker.go:44` describes the cycle
  open, half-open, closed only. `CountersAgree` shows that state and counts
  still agree.
* A resync between the derivation and the installation of the first lists is
  undone by the merge of the registration (`server.go:1136`), so a removed tool
  stays advertised, although "additions AND removals propagate for tools"
  (`serve_list_changed.go:28`). `Missed` names it as one of the ways a run can
  miss a backend.
* A backend that fails to answer a resync's sweep is left out of a sweep that
  succeeds (`default_aggregator.go:183`), so its items leave the session's
  stores, and with a cache those of other sessions of the caller, until the
  next notification of the kind. `QuietMeansCurrent` shows that the other
  backends' items are not affected.
* `HTTPProxy.Stop` stops the session manager with the comment "active sessions
  expire via TTL" (`streamable_proxy.go:339`), but `Manager.Stop` closes the
  storage, and the local one deletes every session at once (`StopSessions`).
* A workflow whose deadline passes while only tolerated steps fail is reported
  "completed", although "State is saved with `timed_out` status"
  (`docs/operator/advanced-workflow-patterns.md`): the deadline is looked at
  only when executeDAG returns an error. `CompletedIsEarned` states what
  "completed" does mean.
* An elicitation's "skip_remaining" ends the step well and skips nothing;
  `docs/operator/crd-api.md:501` says "Skip remaining steps in the workflow".
* The store is "append-only for completed steps" (`state_store.go:79`), but a
  checkpoint that was built earlier may be saved later and drop a step until
  the next save. The final state repairs it (`ReturnedIsRecorded`).
* CancelWorkflow marks the entry and stops nothing; its mark is overwritten by
  the next checkpoint or by the final state.
* A proxied initialize whose session was deleted before the intercept is
  forwarded as it is, so the stdio server can receive a second one, which the
  comment at `streamable_proxy.go:1186` excludes. `HandshakeOnce` counts these
  (`excused`).
* An unsubscribe of a session that has just gone is forwarded past the
  reference count and can silence a resource other sessions are recorded for
  (`bypassed`).
* The reaper's question is a Get, which refreshes the TTL: the comment at
  `streamable_proxy.go:1487` calls the delay one tick, but as every tick is
  shorter than the TTL a session with a recorded subscription does not expire
  by itself while the proxy runs. The model lets any session expire at any
  time.
* After `UpdateBackends`, and before a new backend's first check, the phase
  counts only tracked backends (`monitor.go:679`) and can be Ready.
  `ReadyFromTheStart` is therefore about the initial registry.
* `Terminate` closes nothing: it deletes the key, and each pod closes its
  session at its next Get (`ServedWasAlive`).
* A second concurrent Close returns before the first has drained the queue.
  Each session has one owner that closes it, so the run and the theorem have
  one closer.
* `Set` over an entry that a Get has restored meanwhile does not call `onEvict`
  (`validating_cache.go:183`): the replaced session stays open without an
  owner. `LeakIsBounded` shows that this is the only leak, and at most one
  object per session.

## Proofs

All theorems are checked by TLAPS, from the ASSUMEs of the modules only, which
TLC evaluates in the runs. Each is proved from an inductive invariant; the
properties were model-checked on small instances first.

* `HealthMonitorProofs`. `HInv`: `TypeOK`; each tracked state is well formed
  (`GoodStates`: breaker half-open iff its test is in progress, closed iff
  below the threshold, both failure counts equal); a half-open circuit has a
  check in flight; while the monitor runs, the goroutine in `activeChecks` is
  exactly that of the listed URL (`ActiveIsListed`), all others are cancelled
  (`OthersCancelled`); a goroutine that outlives its backend finds the backend
  flagged (`RemovedFlagIsExact`). `NoGhostBackend` is not inductive without the
  last one, and that one not without the two before. Theorems: `TypeCorrect`,
  `HalfOpenNeverStuck`, `NoGhosts`, `LiveChecksAreCurrent`,
  `CountersAlwaysAgree`, `FailingStatusIsExact`, `StopIsFinal`.
* `StatusReportingProofs`. `ReportingImplementsMonitor`: the composition
  implements the monitor's specification, so `HInv` holds in it. `RInv` says
  that what the reporter carries is as new as the version it remembers; `FInv`,
  that a goroutine in its `select` owes no initial check, and that in the first
  round every listed backend without debt is tracked. `ReadyIsEarned` adds that
  with equal counts of listed and routable backends, over a finite set, the two
  are equal. Theorems: `ReportingTypes`, `NoMutationIsAbsorbed`,
  `FirstReportIsInformed`, `ReportsAreListed`, `ReadyIsEarned`.
* `SessionManagerProofs`. `SInv` is about ownership: an open object belongs to
  a creator until Set, to a restoring flight until ContainsOrAdd, or to a cache
  entry, and never to two of them; so whoever closes an object closes one no
  cache serves. A late flight (begun after the key was gone) never gets past
  its load, because no write makes a missing key present. Theorems:
  `CachedSessionsAreOpen`, `TerminationReachesEveryPod`, and the action
  property `GoneForGood`. Three more invariants rest on `SInv`. `LruInv`: the
  LRU list of a pod has no repetition, names exactly the sessions in its cache
  and fits the capacity; with it the type invariant is proved
  (`CachesAreBounded`). `LeakInv`: an open object without an owner is on the
  creating pod, exists only once the Set of its registration is over, and there
  is one at most; that a second one cannot follow is because a registration
  comes to Set once (`LeaksAreBounded`). `FlightsOpen`: the object a flight has
  is open, whether restored or read from the cache; it is inductive only while
  no insertion evicts another session, so `ServedSessionsAreOpen` has the
  hypothesis `Roomy`, that the capacity is at least the number of sessions
  (`LruInv` then shows that there is never a victim). This is how the run has
  it, and without it the statement is false: LRU pressure closes sessions in
  use.
* `LiveSessionProofs`: the two machines of one live session, which share no
  state. `QInv`, of `MultiSession`: the queue is closed iff the one Close is
  past its critical section; then nobody is between the check of the flag and
  the Add, and after the drain nobody is between Add and Done. Theorem:
  `CallsUseOpenConnections`, for one closer. `WaitGroupCounts` needs no such
  restriction. `WInv`, of `ListChanged`: `running` is set iff a goroutine works
  for the kind. Theorems: `OneRunAtATime`, `NotificationsAreKept`. `LInv` adds
  what calls, views and partly filled lists hold (`ListsComeFromTheBackend`).
  `FInv` adds freshness, per backend, in five parts. Nothing, wherever it is,
  is newer than the backend (`Older`). A connected backend has not changed
  since the last run of the kind began, unless a notification is on its way or
  has been taken (`Told`). A goroutine has a call only while it replaces lists
  (`RunsCall`). A run under way finds no view that predates it, in the cache or
  from its own sweeps, except of backends it has missed (`RunViews`); this is
  where the purge is used. A list that neither the registration nor a run has
  still to write holds one version of each backend, no older than the run,
  except of the missed ones (`RunLists`). Once the kind is quiet, `Told` makes
  "no older than the run" the present version, and `Older` excludes a newer
  one. Theorem: `QuietSessionsAreCurrent`. The cache and the sweeps that a
  session finds at its start are any that are not newer than its connections.
  The assumption on the lists (`ListsAssumption`) is what the code has in its
  tables: each list is derived and installed, and belongs to one kind.
* `WorkflowProofs`. `PlanInv`: a step's level is above those of its
  dependencies, and its unmet dependencies are the ones without a level, so
  steps that never become ready would contain a cycle, which `ValidateWorkflow`
  excludes. `RunInv` and `PcInv`: steps of later levels are idle, those of
  earlier levels have ended well, and so has every returned step of the current
  level while the group has not failed. `SlotInv`: `slots` is the number of
  `Running` steps (this needs the finiteness of `Steps`). `TryInv` bounds the
  calls; `StoreInv`: every copy of the completed steps is a subset of them.
  Theorems: `TypesHold`, `PlanAlwaysSucceeds`, `DependenciesAlwaysFirst`,
  `ParallelismIsBounded`, `CompletedIsAlwaysEarned`, `RecordedIsAlwaysTrue`,
  `ReturnedIsAlwaysRecorded`.
* `ProxyHandlerProofs`, `CorrelationProofs`, `StreamableProxyProofs`. The first
  module has what concerns a handler by itself: which fields its program point
  determines (`Shape`), the one leader of a flight, streams, routes and the
  count of handshakes. The second adds the pipe: a message or response on its
  way carries a key that was given out, and a handler that waits under that key
  is the one that sent it (`Carried`, `Waiting`), so a response finds its own
  waiter or none. The third has the subscriptions: the lock of a resource is
  held exactly by the handler between its decision and its record (`LockInv`);
  while a resource counts, because a subscriber is recorded or is about to be,
  the backend has it and no unsubscribe of it is in `messageCh` (`Counted`);
  one that is forwarded finds the resource empty (`Emptied`). The abandoned
  messages make this the hardest part: an unsubscribe that timed out may still
  be in `messageCh`, and what saves the next subscriber is that its own
  subscribe is queued behind it and is answered later. Theorems:
  `NothingIsClosedTwice`, `RegistryIsAlwaysLive`, `HandshakeIsShared`,
  `RecordedIsAlwaysSubscribed` and the refinement `ResponsesReachTheirOwn`.

  `RequestsAreBounded` is the type invariant. The bound on requests is on
  arrivals, which count the requests sent and the handlers that may still send
  one (`Forwarding`); that sending stays within it is `Room`, a statement about
  a cardinality: a handler leaves `Forwarding` by its own send, and no step,
  retry of the handshake or failure puts it back. `NumberInv` (a number is
  given only by the send, and keys and channel contents are made of numbers
  given) and the last conjunct of `HandshakeInv` (an excuse is for a request
  that was sent) do the rest. The handlers need not be finitely many.

  Two assumptions about the outside enter here: the backend handles initialize,
  subscribe and unsubscribe in the order it reads them, and a client does not
  use a JSON-RPC id twice in a session.

Every invariant, every action property and the refinement of the passing runs
are proved. Model-checked only: the liveness properties
(`InitialChecksComplete`, `StopTerminates`, `HalfOpenResolves`,
`OpenCircuitIsTested`, `RegistryReachesMonitor`, `FailedSessionEnds`,
`EvictionsEnd`, `CloseEnds`, `CacheCatchesUp`, `UnmissedChangesArrive`,
`PostEnds`, `GoneSessionForgotten`, `WorkflowEnds`), since the prover has
neither fairness nor ENABLED; and the violations of the three findings, each a
counterexample. `ServedIsOpen` is proved under `Roomy` and `NoCallOnClosed` for
one closer, as explained above.

## Not modelled

* Health: the probe's protocol, wording of conditions, latencies; a slow
  success is the outcome `degraded`.
* Sessions: `DecorateSession` (no caller outside tests), identity binding,
  `Upsert` of the storage, the ID-generation retry beyond one attempt per ID. A
  joiner of a singleflight gets the result of a check that began earlier,
  possibly before a Terminate; `ServedWasAlive` is about the flight, not the
  joiner. The cache lock is held during the Close of an evicted session; Close
  is one step of `SessionManager` and is refined in `MultiSession`, whose
  `CloseEnds` is what makes that step end.
* Lists: notifications that arrive before CreateSession has returned (the
  liveness guard skips them). The stores are those that SetSessionTools and its
  siblings write; what the SDK makes of them is outside `src/`, and of
  resources, templates and prompts it goes on listing the removed ones
  (`serve_list_changed.go:28`), so the properties say nothing about removals
  there. A notification of a live connection arrives; the loss of a connection
  is not modelled. Items of different backends do not clash: the resolution of
  name conflicts and the admission filter are left out, as is the tolerance for
  a backend that answers with an error for one kind only, which counts as an
  empty list. LRU eviction of cached views is the same step as expiry.
* Workflows: templates, conditions' values, outputs and their construction (two
  outcomes), the elicitation protocol, and the iterations of a forEach step,
  which all end before the step does and touch nothing other steps see. A
  failing save is not modelled: the store in the repository is in memory and
  does not fail.
* Proxy: notifications from the server and progress routing, log levels, the
  initialized notification, client responses, the body limits, the encoding of
  responses and events, and storages other than the local one. The keyed
  mutex's table of entries is left out: its reference counts are kept under one
  lock. `StopSessions` clears the storage in one step; the code deletes the
  sessions one by one.
* The workload manager, its status files and lock files: the states they keep
  in step are those of the container runtime and of processes of the operating
  system, and what an advisory lock on a removed file guarantees is the
  operating system's business. A model would be of those, not of this code. The
  hazard at `pkg/lockfile/cleanup.go:76` stays without a property for that
  reason.
* The operator's reconcilers would need a model of the Kubernetes API server,
  the rate limits one of Redis scripts. Configuration, authentication,
  registries, user interfaces and exporters parse, convert, decorate or
  display, with no protocol between concurrent parties.
