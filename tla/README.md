# A TLA+ model of the distributed job platform

The platform accepts jobs over HTTP, keeps them in PostgreSQL and in Redis, lets
worker processes lease and run them, and has a scheduler that activates delayed
jobs, recovers the jobs of dead workers and dispatches cron schedules. A browser
console follows it over websockets, server-sent events or polling and sends the
operator's commands. This directory models the back end (`src/libs/backend`) and
the console (`src/src`) in TLA+: what TLC checks on small instances, and what
TLAPS proves for every size.

Go paths below are relative to `src/libs/backend`, TypeScript paths to `src/src`.
The console is in the repository twice, as `src/src` and as `src/dashboard/src`;
the files modelled here are equal in both, but for the default base URL in
`OpsConsole.tsx`. The map in `PROJECT.json` points some definitions to one copy
and some to the other, so that a change to either shows up.

## 1. The system

### Components, state, operations

| Component | State it keeps | Operations that change it | Modelled in |
|---|---|---|---|
| Broker, `queue/redis.go` | per job a hash (`state`, `attempts`, `lease_token`, `cancel_requested`, `queue`, `priority`); ready lists per queue and priority; the sorted sets of delayed jobs and of active leases; dead-letter lists | `Enqueue`, `Dequeue`, `Heartbeat`, `Complete`, `Fail`, `RequeueThrottled`, `ActivateDue`, `RecoverExpired`, `Retry`, `Cancel` | `JobBroker` |
| Worker, `worker/runtime.go`, `worker/dependencies.go` | one goroutine per slot, with a *copy* of the job; a heartbeat goroutine beside it | `Run`, `process`, `handleFailure`, `throttle`, `heartbeatLoop`, `resolveDependents` | `JobBroker`, `Workflow` |
| Scheduler, `scheduler/service.go` | leadership flag and token; the ids a script returned | `activateDue`, `recoverExpired`, `runDueSchedules`, `ensureLeadership` | `Workflow`, `CronDispatch` |
| Leader key and dispatch keys, `leadership/redis.go` | a hash with the leader's token; one key per schedule and slot | `TryAcquire`, `Release`, `ClaimScheduleDispatch` | `CronDispatch` |
| Manager, `service/service.go`, `service/platform.go` | nothing of its own | `EnqueueJob`, `CancelJob`, `RetryJob`, `ReplayDeadLetters`, `UpsertSchedule` | `JobBroker`, `Workflow`, `CronDispatch` (partly) |
| Repository, `store/*.go` | job rows, dependency edges, schedules, dead letters, idempotency records, attempts, events | `CreateJobBundle`, `MarkJob...`, `UpdateScheduleRun`, `CreateJobWithIdempotency` | `Workflow`, `CronDispatch` (partly) |
| Realtime transport, `lib/live-transport.ts` | mode, state, attempt, two timers, a socket or an event source | `start`, `stop`, `retryNow`, the connections' events, retry and probe timers | `TransportLadder`, `LiveTransport` |
| HTTP calls, `lib/request-client.ts`, `lib/api-parsers.ts` | none: how one call ends | `requestJson` | `RequestClient` |
| Data refresh, `hooks/useDashboardLiveData.ts` | the console's data; calls in flight by key; promise and abort controller of the refresh; polling loop; pending events; the persisted settings | `refreshConsole`, the effects on settings, visibility and mode, `flushPendingEvents`, `manualReconnect` | `LiveData` |
| Job details, same file | cache, signature, status and call per job; debounce timers | `refreshInspection`, the effects on selection and rows | `Inspection` |
| Commands, `components/OpsConsole.tsx`, `lib/console-data.ts`, `hooks/useToastQueue.ts` | selection, busy keys, toasts; in the demo the jobs themselves | every button of the console | `ConsoleData`, `ToastQueue`, `Console` |
| Limiter, `limits/redis.go` | token buckets; sorted sets of concurrency slots | `Acquire`, `Renew`, `Release` | no; `JobBroker` sees that it may deny |
| Retry backoff, `domain/job.go` | none (a function) | `ComputeBackoff` | no |
| Event hub, `httpapi/websocket.go` | connected clients and their buffers | subscribe, broadcast, drop | no; the console sees streams that open, deliver and break |

The job's truth is split. Redis decides who may run a job; PostgreSQL is what
the API and the dependency resolver read. Nothing makes the two atomic: every
row UPDATE is by id alone, after the Redis call, so the last writer wins.

### How they interact

* API -> PostgreSQL (commit), then Redis (`Enqueue`): two steps.
* Worker -> Redis (`dequeueLua`, then a second round trip for the hash), the
  limiter, PostgreSQL (`MarkJobActive`), the handler, Redis (acknowledge by
  token), PostgreSQL (`MarkJob...`), and then `resolveDependents`: read the
  dependents' rows, decide, Redis (`Enqueue`), PostgreSQL (`MarkJobQueued`).
* Scheduler -> Redis (`activateDueLua`, `recoverExpiredLua`), and for each id
  returned Redis (`LoadJob`), then PostgreSQL.
* Scheduler -> Redis (leader hash), PostgreSQL (`ListDueSchedules`), then per
  schedule Redis (claim), the Manager (`EnqueueJob`), PostgreSQL
  (`UpdateScheduleRun`).
* Console -> API: four GETs per refresh, one per job in the drawer, one POST per
  command, each with a timeout of ten seconds, joined when one with the same key
  is in flight and aborted by whoever holds its controller. Hub -> console:
  events, which cause refreshes. Within the page: React effects, timers and
  microtasks over shared refs.

### What is hard

Workers that stall past their lease and come back; acknowledgements that race
recovery, retry or cancellation; copies of a job used after the job has moved
on; crashes between the two stores; two workers that finish two dependencies of
one job; two schedulers that both believe they lead. In the console: refreshes
that overlap, are aborted, are joined or fail and leave calls behind; answers
that arrive after the operator has moved on to another mode, job or server; late
events of replaced connections. `PROJECT.json` lists these under `hazards`, at
the line where each bites, with the properties aimed at it.

## 2. Modules

### `JobBroker`

Every Lua script and every `TxPipeline` is one action. `Dequeue` and `Cancel`
make two round trips and are two actions each (`DequeueGrant`/`LoadLeased`,
`CancelLoad`/`CancelApply`), with what was read in between kept as state.

| Variable | In Redis or in a process |
|---|---|
| `state`, `attempts`, `token`, `cancelReq`, `lane` | fields of the job hash (`lane` is queue and priority) |
| `grants` | how many leases the job was given; the n-th has token n (in the code a hash of worker, job and millisecond, taken as unique: only equality is used) |
| `ready` | how often each id is in each ready list. `LPush` may put an id there twice; the order within a list is left open, so every order is covered |
| `delayed`, `due` | the delayed set, and its members whose score has passed |
| `leases`, `expired` | the active-leases set, and its members whose score has passed |
| `dlq` | the dead-letter lists |
| `rows` | the jobs submitted with dependencies, with the queue and priority in their row, which a resolver copies |
| `run` | the stage of each worker slot and its copy of the job |
| `cancelCall` | a `Cancel` call between its two round trips |
| `spent` | how often each kind of environment step has happened |

Time is in the model only as the scripts see it: `ComesDue` and `LeaseLapses`
move an id over its score, at any moment. A lease may lapse under a live worker
(a stall, or the heartbeat loop having ended at an error), which is where
fencing matters. `Scanned`/`AfterPops` keep what `dequeueLua` does to the lists
it scans: one id popped from each, and those it cannot lease dropped.

`Unblock` is what a dependency resolver does to the broker, at its most liberal:
any number of late resolvers, whatever has become of the job in Redis. The row
they copy is one no worker had marked active yet, so its attempts are 0 and its
lease token is empty. `Workflow` replaces `Unblock` by the actual resolver, which
copies whatever the row says.

### `Workflow`

Extends `JobBroker` with the rows (`db`, `reason`, and in `col` the attempts and
lease_token columns), the API calls (`submitting`, `cancelJob`), the resolver at
each slot (`task`) and the scheduler's loop over the ids a script returned
(`sched`). Each of its actions is one call to one store: where that is a broker
call, the action conjoins the broker's action. `Persist` is
`MarkJobCompleted`/`Retrying`/`Throttled`/`Failed` after the broker accepted;
`ListDependents` ... `ResolveDone` is `resolveDependents`, with one `GetJob` per
step (`ReadDependency`), so two dependencies are never read at the same moment;
`Tick`, `SchedLoad`, `SchedMark` are `activateDue` and `recoverExpired` of one
scheduler. A row update may fail (`WriteRow`), and so may every other call
(`SubmitFails`, `CancelBrokerFails`, `ResolveFails`, `SchedLoad`): the callers
mostly log it and go on, and so does the model. `faults` counts these against
the same bound as crashes. Three history variables (`succeeded`, `ended`,
`timely`) record what has really happened, so that properties do not have to
trust a row. `LeasesLapse` says whether leases may run out under live workers;
when FALSE only those of dead workers do.

### `CronDispatch`

The scheduler's loop: the leader hash, the per-slot dispatch keys,
`next_run_at`. Cron fires at every tick of a bounded clock, so the run after t
is t + 1. Leadership may expire at any moment, so a deposed leader can be
anywhere in `runDueSchedules`, with copies of schedules read long ago. Every
call to a store is a step and may fail; `ClaimFails` covers both a call that
never reached Redis and one whose reply was lost, `AcquireReplyLost` the same
for the election.

### The console: how JavaScript is modelled

One task (a timer, an event, a handler up to its `await`) is one step, as
JavaScript runs it. The rejections of aborted calls are microtasks: separate
steps, but no task begins while one is due (`Calm`). Effects run with the change
of state that causes them; only the polling effect after a change of transport
mode is a step of its own, because React may render it later. Delays are left
out: an armed timer fires at some time, a cleared one never. A payload is
reduced to the version of the server's content it was read from, which is what
"newer" and "up to date" mean in the properties.

### `TransportLadder` and `LiveTransport`

`TransportLadder` is what the transport promises: a rung (websocket, SSE,
polling), attempts counted on it, and the moves between them. `LiveTransport` is
`LiveTransportManager` with its fields, its two timers and the browser's
connections, including those that were abandoned while connecting
(`closeCurrent` lets them open and then closes them). `ImplementsLadder` is
the refinement: `Rung` and `Tries` compute the ladder's variables from the
timers and connections, and `INSTANCE TransportLadder` gives the property. The
attempt limits are constants, so a mapping that confused them would show.

### `RequestClient`, `LiveData`

`RequestClient` has operators only: which error a call ends with. `LiveData`
uses it and, through `INSTANCE`, the ladder, so it is composed with the
transport's promise and not with its mechanism. `fetch` holds the hook's refs:
`refresh` (async calls of `refreshConsole` under way, each waiting for its
requests), `req` and `map` (`requestMapRef`), `promise` and `controller`.
`RefreshConsole` is the function up to its `await`, `RequestSucceeds` and
`Reject` what follows, with `Finally`. `ChangeSettings`,
`ResetConnectionSettings` (three settings in one render), `VisibilityChanges`
and `Reload` run the effects in the order of the file: mode, transport, polling.
`Reload` restores what `usePersistentState` stored. `Restored` leaves open
whether the browser keeps a store. When a refresh fails, its other calls stay in
the map and nobody can abort them any more (`Orphaned`); the next refresh joins
them. A refresh is forced in a hidden tab too, when a command is answered there.

A refresh whose answer equals the last one (by signature) does not replace the
data. The server stamps each snapshot with its time (`lastUpdatedAt`), so no two
are equal and the models leave the comparison out; for job details, which carry
no such stamp, `Inspection` has it.

### `Inspection`

The drawer: `detail` holds per job the cache, the signature of what was last
received, the status line and the call in flight. Rows come from outside: newer
ones arrive, a row may leave, and an older one may be put back (`LateRow`), by a
late command's answer or by a refresh that joined a call left behind. The page
may be loaded with the address of a job (`Linked`). The server reads the job
first and its attempts, events and graph later, and `CallSucceeds` lets the job
change between; parts it fails to read come back empty (`service/platform.go`,
`GetJobInspection`). One base URL is modelled.

### `ConsoleData`, `ToastQueue`, `Console`

`ConsoleData` and `ToastQueue` have the pure operations of `lib/console-data.ts`,
`lib/safe.ts` and `hooks/useToastQueue.ts`. `Console` has one action per handler
of `OpsConsole`: in live mode it marks a key busy and posts, in the demo it
changes the data at once. `Serve` is the API's side of a command (`Outcomes`),
`Answered` and `CallFails` the rest of the handler after its `await`. `JobRow`,
`Drawer`, `DeadLetters` and the others say which page offers what and which
buttons are disabled. Since the API has no controls for priorities, queues and
workers, those act in the demo only.

The refresh is the one of `LiveData`, reduced to what a command's answer can
meet. `gets` has the GETs that may be in flight, by key, with everything the
server has held since each was made, and `refresh.made` the ones the refresh in
flight made itself. When a refresh begins, some of the calls left behind are
still out and are joined, though they read the server before it began; which
are, and what each one read, is chosen only when it matters. A failed refresh
leaves its other calls behind. A forced one aborts only those of the refresh in
flight, so it may join left-over ones, and it fails when it joins an aborted
one. The call for the workers is left out with the workers.

### MC modules

The MC modules only turn a few numbers of a `.cfg` into constants such as
`Budget`, `Deps`, `Limit` or `Drafts` and define symmetry sets. No definition is
overridden.

## 3. Properties and runs

### Passing runs

| Run | Instance | Checks |
|---|---|---|
| `broker_operator` | 1 job, 2 slots, 2 queues, 2 attempts; 1 manual retry (possibly into the other queue), 1 cancellation, 1 late resolver | `TypeOK`; `ActiveIsLeased`: an active job is always where lease recovery can see it; `NoJobLost`: a queued job has an entry in its list, a waiting job is in the delayed set; `FailedIsDeadLettered`; `OnlyLatestGrantSettles`: fencing, and the copy that decides between retry and dead letter is current |
| `broker_alone` | 2 jobs, 2 slots, 1 queue, 2 attempts, 1 crash or heartbeat error, 1 denial | `OneHome`: a live job is in exactly one place, a finished one in none; `AttemptsBounded`; `FinishedIsFinal`; `EveryJobFinishes` (liveness) |
| `workflow_races` | an upstream and a dependent with policy block, 2 slots, 1 crash or error, 1 cancellation, leases lapse under live workers | `BlockedUntilSuccess`: the dependent is leased only after the broker accepted a result of its dependency, whatever stale rows said; `CompletedRowIsTrue`: a rejected result never reaches the row |
| `workflow_lenient` | 2 upstreams and a dependent with policy `allow_failed`, 2 slots, 1 denial | `AllowFailedWaits`: it starts only after both have ended |
| `workflow_join` | 2 upstreams, 1 dependent with policy block, 2 slots, no faults | `TimelyDependentSettles` (liveness): the dependent is released, or its row names the failed dependency |
| `cron_faults` | 2 schedulers, 1 schedule, clock to 3, keys live 2 ticks; 1 crash or shutdown, 1 failed call, 1 edit | `TypeOK`, `DispatchedOnce` |
| `transport` | 3 connections, 3 and 2 attempts, 4 calls of `start`, `stop` or `retryNow` | `TransportTypeOK`; `NeverStranded`: a running manager always has a timer or a connection to go on with; `NoLeakedConnection`: at most the one in use stays open; `StatusIsTrue`: what `emitStatus` reported is what the manager does; `ImplementsLadder` (refinement); `AttemptsSettle` (liveness) |
| `live_data` | 2 servers, 2 requests per refresh, 3 refreshes at once, 2 moves | `DemoStaysDemo`; `BusyFlagsMeanWork`; `DataNeverGoesBack`; `CatchesUp` and `HiddenComesToRest` (liveness) |
| `inspection` | 2 live jobs, 1 demo job, each changes once, 4 moves | `DrawerIsTrue`; `DetailsNeverGoBack`: fetched details are never replaced by older ones, though calls overlap and the rows beside them do go back; `DetailsCatchUp` (liveness) |
| `console` | 1 job and 1 schedule on each side, 3 more identifiers, 2 queues, 2 moves, 4 changes at the server | `ConsoleTypeOK`; `CountsAgree`; `LiveIsTheServers`; `BusyMeansInFlight`; `ToastsEnd`; `RefreshKeepsAnswers`: a refresh that asked for the jobs itself never takes back what an answer has shown; `SettlesToServer` (liveness): whatever answers, refreshes and calls left behind put on the screen, in the end it is what the server has |
| `cron_handoff` | 2 schedulers, clock to 3, keys outlive the model, no faults but leadership expiring at any time | `NextRunAdvances`; `EverySlotDispatched` (liveness); `SkippedIsDispatched` |

Some limits of these are results too. `OneHome`, `AttemptsBounded` and
`FinishedIsFinal` do **not** hold once an operator retries jobs that are not
finished: `Retry` accepts any state and removes neither the delayed entry nor
the lease. `AttemptsBounded` allows for denials: `dequeueLua` counts an attempt
that the limiter then denies. `AllowFailedWaits` does not hold once `CancelJob`
is used: it can write `canceled` to the row of a job that the broker has not
canceled, and a resolver takes that row for an end.

### Behaviour that contradicts the documentation

`workflow_recovered` is a run of `PROJECT.json` that expects a violation: a
dependency that fails through lease recovery never releases its dependents,
because only `process()` resolves them, so `TimelyAllowFailedContinues` fails.
`docs/failure-scenarios.md:40` says that jobs with `allow_failed` can continue
once all dependencies are terminal.

The other configurations of this kind are kept to be run by hand (`tlc -config
<cfg> <module>`); each ends with a short counterexample:

| Configuration | Property | What the counterexample shows |
|---|---|---|
| `MCJobBrokerReopen.cfg`, `MCJobBroker` | `CompletedLeavesByRetry` | a retried job keeps its delayed entry; it completes, the entry comes due, and `activateDueLua` queues the completed job again |
| `MCWorkflowLate.cfg`, `MCWorkflow` | `AllowFailedContinues` | `EnqueueJob` writes the blocked hash after its dependencies have ended; nobody ever looks at it again |
| `MCWorkflowStores.cfg`, `MCWorkflow` | `StoresAgreeAtRest` | with no fault at all, the resolver's `MarkJobQueued` overtakes the run it started and leaves a completed job's row as queued |
| `MCCronLeaderLoss.cfg`, `MCCronDispatch` | `SkippedIsDispatched` | the leader dies between the claim and the enqueue; the next leader skips the slot for the life of the claim |
| `MCLiveForced.cfg`, `MCLiveData` | `CancellationIsSilent` | a forced refresh (the refresh button, a manual reconnect, the end of every live command) aborts the refresh in flight and then joins its aborted calls by key: it fails with "Request was cancelled." and counts as a failure. The repository's `README.md` says of the manual reconnect that it "is safe and does not remount the app; it retries the transport ladder and keeps the current console state visible"; the state does stay visible, but as degraded. `CatchesUp` holds all the same: the next poll corrects it |
| `MCConsoleDemo.cfg`, `MCConsole` | `DemoDataOnly` | a live command is answered after the switch to the demo, and its job is put among the demo's, under the heading "Demo data only" (`components/OpsConsole.tsx:930`) |
| `MCConsoleLeftover.cfg`, `MCConsole` | `AnswersStay` | a refresh fails while its call for the jobs is out; a command is answered and forces a refresh, which joins that call; it had read the server before the command, so the job just made disappears until the next refresh |

### Bounds

* Two slots are enough for a stale and a current holder of the same lease, two
  resolvers, or one resolver racing the run it released. A third slot adds a
  second stale holder, which the token comparison treats like the first.
* One job in `broker_operator`: the scripts touch one hash each, except for the
  batches and the scan; `broker_alone` has two jobs for those. The operator run
  has two queues so that a replay changes the list a job belongs to.
* One operation of each kind: every one of them is offered in every state, so
  each pair of kinds occurs in every order. The proofs remove this bound.
* `AttemptLimit = 2` has a retry before the dead letter; the workflow runs use 1
  because a second attempt repeats what `JobBroker` covers.
* Two upstream jobs are the smallest join. The clock's three slots allow one to
  be dispatched, one to be in progress and one to be waiting.
* Transport: three connections allow one in use and two abandoned ones. Four
  calls allow start, reconnect, stop and start again in every order.
* `LiveData`: a move is a change of settings, of visibility, a reload, a forced
  refresh, a failure, an event or a step of the transport. Two of them between
  refreshes that overlap by themselves give every pair of hazards. Two requests
  per refresh are enough for one to be joined or to fail while the other is not;
  the version changes once.
* `Inspection`: four moves hold a selection, the switch to and fro and another
  selection. `Console`: two moves hold two commands answered out of order, a
  command and a failed refresh, or a command and a switch; five versions are more
  than these need. With three moves the safety properties pass as well (868,000
  states), but the liveness property takes too long; the proofs have no such bound.
* `ClaimTTL = 2` lets keys expire within the run; 9 keeps them alive throughout.

Budgets bound the steps in the guards, not by a state constraint, so liveness is
checked on complete behaviours. `CHECK_DEADLOCK FALSE` everywhere: a finished set
of jobs, or the end of the clock, is a legitimate end. Symmetry is used in safety
runs only, over slots, schedulers and the interchangeable upstream jobs.

### Fairness

* Workers poll in a loop and their handlers end (a job with a timeout is cut off
  by its context, the built-in ones end by themselves): weak fairness of the
  dequeue by *some* slot, and of each slot's steps once it has a job.
* The scheduler's tickers fire for ever and batches are taken in score order, so
  an id that stays due or expired is in some batch: weak fairness per job.
* The clock moves on: weak fairness of `ComesDue` and `LeaseLapses`. Heartbeats
  are *not* fair: a lease may lapse as often as it likes.
* In the console timers fire, effects and microtasks run, and every call ends,
  because `requestJson` has a timeout. That calls *succeed* follows from the bound
  on failures: the liveness properties are about a server that answers again.
  `Inspection` and `Console` assume that newer rows arrive, or that the console
  polls, which is `LiveData`'s `CatchesUp`. Nothing is assumed of the operator.
* Nothing is assumed of crashes, denials, operators or clients.
* `CronDispatch` needs strong fairness for a scheduler's cron tick while it can
  acquire the key: leadership could otherwise change hands for ever so that a
  scheduler's cron ticker fires only while the other one holds the key. In the
  code the leader renews three times per TTL and keeps the key while it lives.

## 4. Proofs

TLAPS proves the following for any number of jobs, slots, queues, priorities,
dependencies, schedulers, schedules, connections, servers' changes, toasts and
calls in flight, and any attempt limits, batch sizes and budgets, from the
`ASSUME`s of the modules alone. Each module of proofs extends the module it is
about; TLC checked every inductive invariant on the run's instance first.

| Theorem | Statement |
|---|---|
| `JobBrokerProofs!TypeCorrect` | `Spec => []TypeOK` |
| `JobBrokerProofs!RunningJobsRecoverable` | `Spec => []ActiveIsLeased` |
| `JobBrokerProofs!JobsStayReachable` | `Spec => []NoJobLost` |
| `JobBrokerProofs!DeadLettersComplete` | `Spec => []FailedIsDeadLettered` |
| `JobBrokerProofs!Fencing` | `Spec => []OnlyLatestGrantSettles` |
| `JobBrokerProofs!EveryJobHasOneHome` | `NoOperator` implies `Spec => []OneHome` |
| `JobBrokerProofs!AttemptsStayBounded` | `NoOperator` implies `Spec => []AttemptsBounded` |
| `JobBrokerProofs!FinishedStaysFinished` | `NoOperator` implies `Spec => FinishedIsFinal` (action property) |
| `WorkflowProofs!WorkflowTypeCorrect` | `WorkflowSpec => []WorkflowTypeOK` |
| `WorkflowProofs!CompletedRowsAreTrue` | `WorkflowSpec => []CompletedRowIsTrue` |
| `WorkflowProofs!DependentsWaitForSuccess` | `WorkflowSpec => []BlockedUntilSuccess` |
| `WorkflowProofs!AllowFailedWaitsForEnds` | `NoCancels` implies `WorkflowSpec => []AllowFailedWaits` |
| `CronDispatchProofs!CronTypeCorrect` | `Spec => []TypeOK` |
| `CronDispatchProofs!SlotDispatchedOnce` | `Spec => []DispatchedOnce` |
| `CronDispatchProofs!NextRunNeverGoesBack` | `NoEdits` and `KeysOutlive` imply `Spec => NextRunAdvances` (action property) |
| `CronDispatchProofs!PassedOverIsDispatched` | `NoFaults` implies `Spec => SkippedIsDispatched` (action property) |
| `LiveTransportProofs!TransportTypeCorrect`, `ManagerNeverStranded`, `NoConnectionLeaks`, `StatusTellsTheTruth` | `Spec => []TransportTypeOK`, `[]NeverStranded`, `[]NoLeakedConnection`, `[]StatusIsTrue` |
| `LiveTransportProofs!TransportRefinesLadder` | `Spec => ImplementsLadder` (refinement) |
| `InspectionProofs!DrawerTellsTheTruth` | `Spec => []DrawerIsTrue` |
| `InspectionProofs!DrawerNeverGoesBack` | `Spec => DetailsNeverGoBack` (action property) |
| `ConsoleProofs!ConsoleTypeCorrect`, `CountsAlwaysAgree`, `LiveShowsTheServer`, `NoKeyOutlivesItsCall`, `EveryToastEnds` | `Spec => []ConsoleTypeOK`, `[]CountsAgree`, `[]LiveIsTheServers`, `[]BusyMeansInFlight`, `[]ToastsEnd` |
| `ConsoleProofs!RefreshTakesNothingBack` | `Spec => RefreshKeepsAnswers` (action property) |
| `LiveDataProofs!DemoIsNeverDisturbed`, `SpinnersMeanWork` | `Spec => []DemoStaysDemo`, `[]BusyFlagsMeanWork` |
| `LiveDataProofs!DataOnlyMovesForward` | `Spec => DataNeverGoesBack` (action property) |

The hypotheses of five of them are those under which the runs check the
property, for the reasons of section 3: without them the property is false.
`NoOperator` sets the budgets of manual retries, cancellations and late
resolvers to zero, `NoCancels` that of `CancelJob`, `NoEdits` that of schedule
edits, `NoFaults` those of a scheduler's crashes and failing calls; `KeysOutlive`
says that dispatch keys (24 hours) live longer than the clock runs. Everything
else (crashes, lapsing leases, stalls, denials, lost replies) stays possible.

**Broker.** The inductive invariant `BrokerInv` is

    TypeOK /\ TokenIsLease /\ RunsWereGranted /\ CopiesAreCurrent
      /\ ActiveIsLeased /\ NoJobLost /\ FailedIsDeadLettered

Fencing is not inductive by itself. `TokenIsLease` ties a non-empty token to the
latest grant and to an entry in the leases; `RunsWereGranted` says that no slot
holds a token that has not been given out, so a new grant's token differs from
every one still held; `CopiesAreCurrent` says that while a slot's token is the
stored one, nothing has rewritten the fields it copied, because everything that
rewrites them (`Enqueue`, `Retry`, activation, recovery) also clears the token.
`FailedIsDeadLettered` needs the last: the worker files the dead letter under
the queue in its copy. `Fencing` is about resolvers whose copy of the row was
never active: otherwise `EnqueueDependent` in `Workflow` shows the row's old
lease token going back into the hash. There is one lemma per group of actions
and, under it, one step per conjunct the action can disturb.

**Broker without operators.** `AloneInv` makes `OneHome` an equation: how often
an id is in each list, and whether it is in each set, is a function of the job's
state and lane. `AttemptLeft` (a job that is to run again has an attempt left) is
what makes `AttemptsBounded` inductive, since `dequeueLua` increments without
looking.

**Workflow.** It does not rest on `BrokerInv`: `EnqueueDependent` writes stale
lease tokens into hashes, so fencing does not carry over, and the properties have
to hold without it. `WorkflowInv` adds to the types of both modules: a resolver
at work on a dependent has a copy of its row (`CopyHeld`); each place a state of a
job is kept (hash, row, `CancelJob`'s and the scheduler's copies, the slots) says
`completed` only of a job in `succeeded` (`CompletedIsTrue`) and a terminal state
only of one in `ended` (`EndedIsTrue`; rows count only while nobody cancels); and
a job that is in the broker in any other way than blocked, or that a resolver
found ready, has its dependencies met, as has the part of them a resolver has
read so far (`ReleasedInv`). Both history variables only grow, which is why what
was read one dependency at a time still holds at the end.

**Cron.** `CronInv` adds to the types that the slots a pass works on are due,
that claims are made when the slot is due or later, that whatever was enqueued or
is about to be has a claim that still exists or has lived its time, and that at
most one scheduler is about to enqueue a slot, in which case nobody has yet. It
does not mention leadership: mutual exclusion is the claim's doing alone, and the
theorem shows it needs no help from the election. `NextInv` is why a deposed
leader does no harm: a copy of a schedule that is out of date is of a slot that
is claimed (`StaleIsClaimed`), and who claimed a slot owns `next_run_at` until
it has been written (`OwnerIsAlone`). `ClaimIsStarted` says that without faults
a key stands for a job that is enqueued or about to be.

**Transport.** `TransportInv` lists the five situations a running manager can be
in (timer of `start`, retry timer, socket, event source, polling with a probe),
with every field in each, and says that a connection not in use is closed or will
close itself when it opens. The invariants and the refinement follow from it
situation by situation: `Rung` and `Tries` are functions of the situation, and
each task leads from one situation to another by a step of the ladder.

**Inspection.** `InspectionInv` says of the details of every job that "updating"
is shown exactly while a call is in flight, that a signature of the server's
details is kept only beside such details (an answer that is skipped for having
the last one's signature finds them in the cache), and that what is cached is no
newer than the server was when the call in flight was made, which is why a late
answer cannot take anything back. Nothing is said of the rows, which may go back;
details built from a row are not fetched ones and are replaced by any answer.

**Toasts.** `ToastQueueProofs` has the lemmas that every operation keeps
`ToastInv`, which `EveryToastEnds` rests on: the maps from keys to toasts and
back are inverse to each other, a toast has a timer as long as it has a key, and
those on the screen are different ones with timers. That `EnqueueToast` finds a
free identifier is a pigeonhole argument: as many keys as identifiers are in
use, and the new key is not one of them.

**Console.** `ConsoleInv` has the server as a parameter of its parts, since the
commands change it in the middle of everything: versions only grow
(`ServerGrows`, `OutcomesOK`), so whatever was true of rows the server "had"
stays true. Beside the types it says that commands in flight name jobs of the
server, that the row an answer carries, the rows live mode shows and those any
call in flight may bring, left-over ones included (`GetsOK`), are rows the server
had and no newer than its own, and (`RefreshOK`) that a refresh in flight which
asked for the jobs itself brings nothing older than what is shown. The last holds
because the answer to a command ends the refresh in flight. Of a refresh that
joined a call left behind it is false (`AnswersStay`, section 3).
`Counted` makes `CountsAgree` inductive: the overview is `SummarizeJobs` of the
jobs, as an equation, and every operation of `ConsoleData` keeps it.

**Live data.** `LiveDataInv` is about the refs of the hook, which overlapping
refreshes share. The map holds exactly the calls in flight, one per key, though
`ModeEffect` and `Finally` leave it alone; only the controller's refresh is not
aborted, and what it still waits for is the map (`MapIsCalls`). A refresh that
completes is therefore the last one in flight with nothing left to arrive, and
`RowsAreOlder` makes its rows fit to replace those shown: neither a call in
flight, joined ones included, nor a row already received is older than the row
of its key on the screen. The same facts give the demo its peace: the switch
aborts the one refresh that could complete. The flags are safe because a finally
block clears `loading` whoever set it, and `refreshing` unless the refresh that
ends is quiet. `CancellationIsSilent` is not among them: it is false (section
3), because a joined call may have been aborted.

**Only model-checked:** all liveness properties (`EveryJobFinishes`,
`TimelyDependentSettles`, `EverySlotDispatched`, `AttemptsSettle`, `CatchesUp`,
`HiddenComesToRest`, `DetailsCatchUp`, `SettlesToServer`): liveness under
fairness is out of the prover's reach. Every invariant, every action property
and the refinement that a passing run checks is also a theorem.

## 5. Not modelled

* The limiter: token buckets and slots that expire by Redis time. Its two
  hazards, slots named after the job and slots that expire while the lease is
  renewed, are listed without a property; they need a clock that the broker's
  model does without.
* Idempotency records: one SQL transaction per submission, whose races depend on
  PostgreSQL's isolation and on the window's clock. `Console` has only that the
  server answers a known key with the first job.
* `ComputeBackoff` and all other delays: the models leave delays open, so no
  property depends on them.
* The event hub's buffers: a slow client loses events, and for the console that
  is the same as a stream that delivers late or breaks.
* Dashboard queries, formatting, logging, metrics: no effect on the state the
  properties are about. In the console: markup, charts, text fields, search,
  filters and sorting, the tab in the URL, and toasts' wording.
* The console fetches a limited number of jobs; the model has no such limit, so
  `CountsAgree` is about the jobs listed and not about the platform's.
* `job_attempts` and event rows, the workers' registry: written, and only read
  for display.
* `EnqueueBatch` has no caller. Job processors, payload schemas, configuration
  and start-up code have no protocol state; a run may succeed or fail freely.
* Payload and result data; the time values themselves (backoff, TTLs).
* Redis losing acknowledged writes, and PostgreSQL failing in the middle of a
  transaction: both stores are taken as durable.
* In `Workflow`: manual retries, run times in the future.
* `Retry` of a job between its row and its hash: `Broker.Retry` does not look
  whether the hash exists, and would make one with the few fields it writes.
  `JobBroker`'s jobs have all fields or none.
* Submissions whose dependency ids are all empty: the service tests the length of
  the list before it is cleaned, so such a job is blocked for ever. `Workflow`'s
  requests name their dependencies.

## 6. Plan

Done: the back end (`JobBroker`, `Workflow`, `CronDispatch`) and the console
(`TransportLadder` to `Console`) with their runs, and the proofs of section 4.
No safety property of a passing run is without a theorem. What could come next
needs new models: the limiter's slots and the idempotency records of section 5,
whose hazards are listed without a property.

## 7. Running

    tlc -workers 2 -config MCJobBrokerOperator.cfg MCJobBroker
    tlapm JobBrokerProofs.tla

Each run of `PROJECT.json` names its module and its `.cfg`; each passes, or finds
its violation, within about three minutes on two cores.
