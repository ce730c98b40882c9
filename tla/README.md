# TLA+ models of nexus-forge

nexus-forge is three cooperating programs for running language models on one's
own machine:

* **MERCURY** (Python, FastAPI on one asyncio loop): the gateway. It puts every
  inference request for a local model into one serial priority queue, and its
  slot scheduler reserves the machine for chosen users at chosen times.
* **BRAIN-DAEMON** (Python, asyncio): starts and stops the model servers on the
  machine, watches memory and temperature.
* **MASTERMIND** (TypeScript on Node, PostgreSQL): the agent backend. Agents run
  in chats, start shell jobs, sub-agents and sandboxes in the background, and
  report to the user over the web and Telegram. Its calls to models go to
  MERCURY, whose calls go to BRAIN-DAEMON.

All three are single-threaded event loops. Hardly anything in them is a data
race in the usual sense; what goes wrong goes wrong **between two awaits**: a
value read before a suspension and used after it, a cancellation delivered at
the one await where it means something else, a process that dies between two
writes. The unit tests of the repository call one coroutine at a time and
cannot produce these orders. The models here do nothing but produce them: a step
of a specification is the code between two suspension points, and the steps of
all coroutines interleave freely.

## 1. Inventory

### MERCURY

| Part | State | Operations | Modelled |
|---|---|---|---|
| request queue (`app_queue/request_queue.py`, `core/routes_chat_completions.py`, `core/lifespan.py`) | heap `_pending`, `_queue_stats`, `_current_request`, `_current_task`, last served priority, a future and a stream queue per request | `enqueue`, `_run_worker`, `_process_one`, `cancel_request_if_current`, `cancel_current_request`, the chat route, shutdown | `RequestQueue` |
| slot scheduler (`scheduler/*.py`, `admin/routes/schedules.py`, parts of `data/db.py`) | `_active_slot`, `_transition`, `_op_lock`, the persisted slot, the file on disk, the heartbeat | `tick`, activate, deactivate, trigger, create, delete, restore at startup, `is_consumer_allowed` | `SlotScheduler` |
| router (`routing/router.py`) | none (configuration) | name of a model → backend | no: a pure table look-up |
| models cache (`routing/models_cache.py`) | entries, single-flight task, generation | get, refresh, flush | not yet |
| usage log and statistics | log files, aggregates | append, aggregate | only the number of entries of a request, in `RequestQueue` |
| providers, proxies, other routes, auth, credits, admin pages | connections, forms | HTTP calls and conversions | no: I/O and data layout |

The parts meet in two places. `wait_for_idle` of the scheduler reads the two
counters of the queue and swaps models when both are zero, so the counters must
not lie. And the chat route asks the scheduler whether its user may send
requests, then awaits, then enqueues.

*Correct* means, for the queue: priority with first-come order among equals,
also across the grace period; one result for every accepted request and a
handler that always returns; a client can cancel its own work and nobody
else's; idle counters mean that nothing is owed. For the scheduler: one
transition at a time; whoever loads models for a slot later restores what was
there before, also after a restart, whose file may lag behind; nobody is locked
out for ever by a transition that failed.

### BRAIN-DAEMON

| Part | State | Operations | Modelled |
|---|---|---|---|
| model manager (`manager.py`, `daemon.py`) | `instances`, `_used_ports`, child processes, load configurations | lazy load, `/mgmt/load`, spawn, wait for readiness, unload, kill by port | `ModelManager` |
| memory controller (`memory/controller.py`) | `_running`, the list of candidates of an eviction | pressure loop, evict, `preload_check`, start, stop, protect | `ModelManager`, as further actors; the swap flush and the statistics are left out |
| thermal controller (`thermal/`) | `_running`, `_emergency`, hold and cooldown timers, frequency, power limits, stopped servers | start, stop, tick, emergency, resume; the power limits and their ramp are left out | `Thermal` |
| audio, downloader, quantize, atlas, updater, stats | job queues around external tools | – | no |

*Correct* means, for the manager: no two servers share a port, every reserved
port is held by somebody who will give it back, and every live server is in the
registry or in the hands of a task that will stop it. For the governor: servers
are stopped with `SIGSTOP`, so whoever ends an emergency, in whatever way, must
reach all of them; and while one lasts nobody may be sent to a stopped server.

### MASTERMIND

| Part | State | Operations | Modelled |
|---|---|---|---|
| async jobs (`modules/async-jobs/index.ts`, `agent/subagent-job-delivery.ts`, `agent/tools/submit_subagent_report.ts`, the finalizers in `agent/run.ts`) | table `async_jobs`, `queueSpecs`, `runningChildren`, `subAgentDeliveryState` | `enqueue`, `cancel`, `workerTick`, `runJob`, `runSubAgentJob`, report, sandbox start and end, `destroy`, recovery | `AsyncJobs` |
| agent runs (`agent/index.ts`) | `runPromises`, `abortControllers`, `states`, the messages of a session | `run`, warm-up, `/compact`, `compactSession`, `abort`, `abortAndWait` | `AgentRuns` |
| tool loop (`agent/run.ts`, `session/store.ts`) | the rows of a session, the prompt in memory, the cache of the local provider | store, build the prompt, stream, execute tools, guard against loops, auto-compaction | `ToolLoop` |
| task scheduler (`scheduler/index.ts`, `agent/tools/escalate.ts`), alerts of proactive sources | `scheduled_tasks`, `task_runs`, advisory locks, `runningAgents`, `pendingEscalations`, `liveRunIds` | tick, sweep, `executeTask`, `escalate`, alert, the user's edits, restart | `TaskScheduler` |
| delivery, war room | channels, rounds | – | not yet |
| Telegram, memory, consolidation, codebase search, provider, push, board, skills, configuration | mostly rows and HTTP calls | – | no |

*Correct* means, for the jobs: every job ends, whatever its child or sub-agent
does; a row that says `running` is being worked on; the user hears one thing
about a job, and it is what the row says. For the runs of an agent:
one at a time, in the order of arrival; who waits is let in, who runs can be
stopped, and nothing of a run is left when it is over. For the tool loop: the
history is one a strict provider accepts, whatever was interrupted, and the
next prompt extends the one the local provider has in its cache. For the
scheduler: an agent is claimed by at most one dispatch that has a right to it,
an escalation that was promised is handed over, a row that runs is alive, and a
task that is due is run.

`PROJECT.json` lists every part with its sources and every hazard at its line.

## 2. Modules and how they correspond to the code

Each component has a specification, an `MC` module that gives TLC its constants,
and where theorems exist a `_proofs` module that extends the specification. In
the specifications an operator `X_F` is `X` with a plausible mistake (a dropped
guard, a missing reset); nothing uses them except the mutation tests listed in
`PROJECT.json`, each of which shows that a property fails when `X` is replaced
by `X_F`.

### RequestQueue

The actors are one HTTP handler per request (`route`), the worker
(`worker`: `"waiting"` on the condition, in the `"grace"` wait, or `"serving"`),
the sub-task `_process_one` (`task`), an administrator and the lifespan handler.

| Action | Code |
|---|---|
| `Enqueue`, `EnqueueFull` | `enqueue()` with its size test under the lock, and the route around it |
| `WorkerWake`, `GraceWake`, `GraceTimeout`, with `LoopTop` and `Pop` | the top of `_run_worker`: wait on the condition, grace period for users with a threshold, `heappop` |
| `GraceExpires` | time |
| `TaskChunk`, `TaskOk`, `TaskError`, `TaskUnwind` | `_process_one`: forwarding, success, failure, the arrival of `CancelledError` |
| `WorkerFinish`, with `NotifyClient` | `await _current_task`, its two `except` branches and `finally` |
| `RouteChunk`, `RouteEnd`, `RouteReturn`, `RouteLeave` | the event generator, the plain handler, the client that disconnects |
| `AdminCancel`, `CancelRequestIfCurrent`, `Shutdown` | the two cancellations, and `worker_task.cancel()` |

The heap is a set plus the relation `Before` (priority, then `put_time`); time is
a counter of enqueues, so no two requests have the same `put_time`. A payload
is the item `"chunk"`; the sentinel `None` is `"end"`. Shutdown is where asyncio
matters: `Task.cancel()` on a worker that awaits its sub-task cancels the
sub-task if that still runs, and otherwise (`mustCancel`) raises at the worker's
await itself.

### SlotScheduler

The actors are `run_loop` (`Ticker`), one coroutine per concurrent admin call,
a request per consumer, the disk-writing thread and the process manager. `pc`
says where a coroutine is suspended: in the queue of `_op_lock`, in
`wait_for_idle` (`act_wait`, `deact_wait`) or in the HTTP calls of
`execute_actions` (`act_run`, `deact_run`). The lock is modelled as asyncio
implements it, with a FIFO of waiters and the moment after `release()` in which
`locked()` is already false and the woken waiter has not run.

| Action | Code |
|---|---|
| `TickSkip`, `TickRun`, `TickQueue`, with `TickBody` | `tick()`: skip when locked, clean up an expired slot, activate a due schedule |
| `CallTrigger`, `CallDeactivate`, `LockGranted` | the admin endpoints and `async with _op_lock` |
| `StartActions`, `SlotActive`, `ActivationFails` | `_activate_slot_locked` after each of its awaits, and its error path |
| `EndActions`, `SlotCleared` | `_deactivate_slot_locked` after each of its awaits, with the `finally` |
| `CreateSchedule`, `DeleteSchedule` | the other two endpoints that write schedules |
| `RequestAdmitted`, `RequestEnqueued`, `RequestDone` | the guard of the chat route, then the queue |
| `SlotEnds`, `TimePasses`, `DiskWrite` | the clock, and the delayed write of the whole database, slot and schedules, to `db.json` |
| `Crash`, `Shutdown`, `Boot` | kill (the next process finds what the file had), `scheduler_task.cancel()` with the `finally` it runs, `restore_active_slot` |

A snapshot of the models that were loaded before a slot is represented by the id
of the activation that took it, and the history variable `owed` holds the ids of
the activations that have changed the models and not yet restored them; `lost`
holds those whose snapshot the code has given up, each at the statement that gives
it up. Which
schedule is due is a choice, because the cron arithmetic decides only that.

### AsyncJobs

An awaited query takes effect in one step and the code behind the await runs in
a later one; that is exactly the gap into which `cancel()`, a report or a crash
may fall. `worker` names the place of the sequential `workerTick`, `cur` its
job, `run` the child process, sub-agent run or sandbox host of every job.

| Action | Code |
|---|---|
| `EnqueueCall`, `EnqueueInsert`, `EnqueueReturn` | `enqueue()`: test of `MAX_QUEUE_SPECS`, INSERT, `queueSpecs.set` |
| `CancelRead`, `CancelUpdate`, `CancelStop` | `cancel()`: SELECT and test of the status, unconditional UPDATE, signal or abort |
| `TickSelect`, `Picked`, `MarkRunning` | the pick of the oldest queued row, the lost-spec branch |
| `Spawn`, `SpawnRefused`, `RunEnds`, `ShellOver`, `CheckCancelled`, `Deliver`, `FinishJob`, `FailJob`, `Alert` | `runJob`, `completeJob`, `failJob` |
| `SubAgentReturns`, `SubAgentTimeout`, `Settle`, `Report`, `RerunFails`, `Recheck` | `runSubAgent`: the race with the timer, the late report, the parent that is missing, disabled or fails, the fallback |
| `SubmitRead`, `SubmitPersist`, `SubmitDone` | `submit_subagent_report`, with the UPDATE that fails and the one that marks the row then |
| `SandboxStart`, `SandboxEnds`, `SandboxWrite`, `UserAborts` | the row of a sandbox run, the ends of its host (the early return of an aborted one included), its finalizer, whose errors are swallowed |
| `WorkerThrows`, `Destroy`, `Crash`, `Recover` | a query or `mkdir` of the worker that throws, `destroy()`, death, the recovery at startup |

The backend mounts its routes after the modules are initialised, so
`Recover` precedes every call and tick of a new process; the model has it as the
only step that brings `up` back.

Two history variables speak of what rows do not show: `told`, what the user heard
of a job (`"nothing"` when a message was due and failed), and `dropped`, the jobs
the code let go of, each at the statement that does: a query or `mkdir` of the
worker threw, a query of a sandbox finalizer was swallowed, an aborted host
returned without text, the backend died between `failJob`'s UPDATE and its alert.

### PriorityServer, the abstract queue

What callers of the queue rely on, without worker, sub-task, futures and streams: a
waiting room of bounded size, tickets in the order of arrival, one server that
takes the first of the room and leaves it only when it has its outcome.
`RequestQueue` implements it under the refinement mapping `Server`:

| PriorityServer | RequestQueue |
|---|---|
| `waiting` | `pending`, the heap |
| `arrived`, `tickets` | `putTime`, `clock` |
| `refused` | the routes that were rejected with 503 |
| `serving` | `current` |
| `ended` | the requests whose future is resolved |

`Take` picks the minimum of `Precedes` at the moment of the pop, so the
refinement says that the grace period, the cancellations and the failures never
lead to any other order than priority and arrival.

### ModelManager

The actors are the tasks of HTTP requests (`Client`) and the loop of the memory
controller (`Memory`); `pc` names the await a task is suspended in. There is no
lock in the code: `load_model` looks into the registry, then awaits, and
registers its instance several awaits later. Servers are separate processes
that bind their port or die when they like. RAM readings are choices.

| Action | Code |
|---|---|
| `GetOrLoad`, `MgmtLoad`, with `LoadModel`, `NextPort` | `get_or_load`, `POST /mgmt/load`: from the registry to the first await, with the reserved port |
| `Spawn`, `SpawnFails` | `create_subprocess_exec` and the registration behind it |
| `WaitReady`, `WaitFails`, `CleanUp` | `_wait_ready` with its deadline, and the unload in its error path |
| `MgmtUnload`, `UnloadModel`, `Unregister`, `KillByPort`, `WaitExit` | `unload_model` of the three backends |
| `PromptStarts`, `PromptEnds`, `ForwardEnds` | a request being forwarded to a server |
| `MemoryTick`, `Evict`, `EvictAgain`, `EvictEnds` | `_run`, `_evict_until_below`, `preload_check` |
| `MemoryStart`, `MemoryStop`, `SetProtected` | the administrator |
| `Bind`, `Die`, `WrapperDies` | the server processes; in a toolbox the wrapper may die alone |

Two history variables make the accepted losses explicit: `leaked`, ports that
nobody will give back (a failed spawn; an instance that another load has
overwritten), and `orphans`, live servers the registry has lost (to a second load,
a failed `pkill`, the death of a wrapper, a stop of the controller during an
eviction). The 503 and 404 that refuse a request before `load_model` is called
change nothing and are no step.

### Thermal

| Action | Code |
|---|---|
| `Start`, `First`, `Stop` | `start()`, the top of `_run`, `stop()` with its cancellation |
| `Tick`, `ApplyFreq`, `Weather` | a pass of the loop over an arbitrary temperature |
| `BeginEmergency`, `EndEmergency`, `StayStopped` | `_do_emergency` with `_signal_llama`, server by server; a server that was loaded meanwhile |
| `BeginResume`, `PowerReduced`, `EndResume`, `CooldownEnds` | `_do_resume`, with the await in which the power is reduced |
| `Leave`, `Finally`, `Restore` | how `_run` ends and what its `finally` does, beside a loop that may have been started since |
| `Load`, `Unload`, `Die` | the manager, as far as the governor sees it |

`flag` is what a request sees (`thermal_stopped`), `stopped` what the signals
did to the process; the properties relate the two. `abandoned` names the servers
that stay stopped because of a `stop()` at one of two awaits: while the loop sends
SIGSTOP (`_emergency` is set behind that await, so the `finally` block sends no
SIGCONT), and while the `finally` block of a crashed loop sends SIGCONT (a second
cancellation skips the rest). `overtaken` says that a loop was started while
another had not ended; of what the two overwrite of each other nothing is claimed.

### AgentRuns

All operations on one agent. JavaScript runs the continuations of settled
promises before any new event, so `Ready` gives those steps priority over
arrivals. A promise is identified by the call that resolves it.

| Action | Code |
|---|---|
| `Arrive`, `Enter`, `Resume` | `run()`: the gate, the slot it writes, the wait for the predecessor |
| `ArriveWarmup` | `run()` with `warmup: true` |
| `StoreMessage`, `SaveReply` | what `runAgent` writes to the session |
| `Finish` | the `finally` of `run()`: slot, controller, state |
| `CompactArrive`, `CompactEnter`, `CompactRead`, `CompactArchive`, `CompactPurge`, `CompactFails` | `/compact` and `compactSession` |
| `CloseArrive`, `CloseReturn`, `Abort` | `abortAndWait()`, `abort()` |

### ToolLoop

One run after another on one session. A row is a record of role, identity,
declared calls, origin of its text and the prefix a user message was sent with;
that is what the two contracts (tool calls and results in pairs; the next
prompt extends the last) tell apart. What is filtered is selected by its indices
(`Keep`), as the code deletes compacted messages by their ids: two rows may be
equal as records.

| Action | Code |
|---|---|
| `StoreUser`, `AutoCompact`, `Build`, `PersistPrefix` | up to the first request to the provider, with `buildLlmPayload` and its strips |
| `StreamText`, `StreamAborted`, `StreamMalformed`, `StreamCalls`, `Interrupt` | the outcomes of one streamed turn |
| `ExecuteTool`, `GuardAborts`, `SkipTool`, `NextTurn` | the calls of a turn and the limits on turns and repetitions |
| `LoopEnds`, `StoreFinal`, `RunFails`, `Abort` | the end of a run, by itself or by a failure at any await |

### TaskScheduler

A `Run` is one call of `executeTask`, of the dispatch of an escalation or of an
alert, with its row. A step is one statement on the database with the code up
to the next await; every statement may throw (`Fault`), and the UPDATE in the
`catch` of an alert, which nobody awaits, then ends the process.

| Action | Code |
|---|---|
| `TickRead`, `TickDispatch`, `RunNow`, `DateComes` | `tick()`: the SELECT, then the loop over its rows; `runNow` |
| `Sweep`, `HalfHour` | the sweep of stale rows |
| `Connect`, `Start`, `RunEnds`, `Complete`, `Update`, `AutoDelete`, `Fail`, `FailTask`, `Unlock` | `executeTask` with advisory lock, row, agent run, `finally` |
| `Escalate`, `EscalateEnds`, `Alert`, `Dispatch`, `Acquire`, with `Flush`, `FinallyDispatch` | `escalate_to_agent`, the pending escalations, the wait of up to two minutes, the dispatch |
| `CreateTask`, `DeleteTask`, `RestoreRead`, `RestoreWrite`, `PurgeTask`, `EditRead`, `EditWrite` | the user |
| `Restart` | death, and `init()` |

## 3. Runs

Every run ends within four minutes with two workers. Distinct states are in
parentheses.

| Run | Shows |
|---|---|
| `queue` (82 k) | the queue implements `PriorityServer`; counters, stream protocol, targeted cancellation, one result and one log entry per request, the grace period, and every handler returns |
| `slots_steady` (1.6 M) | ticks and two admin calls on two schedules, three activations, no deadlock: exclusive transitions, no snapshot lost |
| `slots_restarts` (402 k) | with crash, shutdown, deletion, failing activation and late disk writes: a snapshot is lost in the six named ways only, expired slots and lock-outs end |
| `jobs` (371 k) | a shell job and a sub-agent job with a fault: one verdict, every job ends |
| `jobs_faults` (215 k) | a shell job and a sandbox with a fault and a crash: a running row has an owner, the row of a shell job says what the user heard, every job ends |
| `models` (1.6 M) | two models, two ports, two requests, dying wrappers and the memory controller: ports and servers are accounted for |
| `thermal` (119 k) | two loops one after the other, two servers: none is left stopped but the abandoned ones, and the machine recovers |
| `agent_runs` (158 k) | a message, a second, a `/compact`, a warm-up and an `abortAndWait` in any order |
| `agents_overlap` (violation) | four messages; see section 6 |
| `tool_loop` (854 k) | two runs on a session with a failure at every await, auto-compaction and repeated calls: the next prompt honours both contracts, and runs end |
| `tasks` (2.8 M) | a watcher, a task that runs once, a handler and three runs, no alerts: reservations, escalations, maps and the sweep |
| `tasks_liveness` (283 k) | a watcher and a webhook with an edit and a fault (a failed query or a restart): every call ends and a due task is run |

**Bounds.** *Queue*: three requests, of which two are urgent and one is not,
and a heap of two places; that is one served while two wait, a refusal when a
third would wait, and an urgent arrival that may end the grace period while an
ordinary request waits. A buffer of one chunk per stream separates "chunks and
no sentinel", "sentinel behind a chunk" and "empty". *Slots*: three activations
let a second slot replace a first and a third be asked for while the second is
set up; two admin calls beside the ticker give a lock with a holder and two
waiters, which is what a wrong hand-over needs. One restart reaches every
combination of a suspended coroutine with a file that is or is not up to date
(the slot in it, the schedules, or both).
*Jobs*: two jobs make the sequential worker a shared resource; the shell job is
in both runs, once beside a sub-agent and once beside a sandbox. One fault is
one job let go of while the other must still end. *Models*: two
requests for one model are what it takes to overwrite a registration, the second
model and the memory controller what it takes to reuse its port meanwhile; a
process identifier may be used again when nobody refers to it. *Thermal*: the
second loop runs beside the `finally` block of the first; two servers separate
"one is stopped" from "all are". *Agents*: two messages and a command meet in one
gate; four messages are the least that show the overlap. *Tool loop*: one tool
turn, two calls per turn, one repetition, a prompt of six rows of at most
eight: enough for a pair to be cut by the limit of the prompt. *Tasks*: three runs
are an escalation inside an escalation, or two calls of a task and an escalation.
In `tasks` nobody sends alerts, so that `SweepSparesLive` is checked there for
tasks; the theorem `LiveRunsAreSpared` covers alerts as well. In `tasks_liveness`
the number of runs is finite, so that a due task cannot lose its agent to new
alerts for ever: `DueRuns` says that no reservation is kept, not that the code is
fair to a task under an endless stream of alerts, which it is not.

**Types.** `TypeOK` of `ToolLoop`, `AsyncJobs`, `Thermal`, `TaskScheduler` and
`ModelManager` is proved and not in the configurations, which are left to the
properties that say more.
`ModelManager_liveness.cfg` checks `CallsReturn` (271 k states) and passes.

**Deadlock** is checked everywhere but for queue and jobs: those are finite
workloads that end when all requests are answered or all jobs terminal, and that
nobody hangs is what `HandlersReturn` and `EveryJobEnds` say. The others are
services that never stop, or have a step (`Over`) that stutters only when all
calls are done.

**Symmetry** is used in runs with invariants only: the admin calls of
`slots_steady`, the requests of `models`, the messages of `agents_overlap`.

**Fairness.** Weak fairness, and only on what the runtime guarantees:

* queue: the event loop runs ready coroutines (`WorkerStep`, `RouteStep`), the
  grace period runs out, and a backend call ends in success or error because
  httpx has timeouts (`TaskEnd`). Nothing is assumed of clients and
  administrators: they may leave or cancel, or not.
* slots: the loop and the clock go on, a wait or an HTTP call of a
  transition ends (both have timeouts), a slot reaches its `ends_at`, the
  service manager starts a dead process again. `DiskWrite` is not fair: the
  thread may lose the race against a crash.
* jobs: the interval timer fires, queries and host runs return, a stopped
  backend is started again. Sub-agents are not assumed to report, nor children
  to obey a first signal; the code's own timeouts must and do take care of that.
  Liveness is claimed for every job but those the code let go of (`dropped`),
  whose rows keep their status until the next restart.
* thermal: the loop runs (a sleep ends, signals and `ryzenadj` have deadlines);
  the weather is not fair, and `Recovers` speaks of executions in which it stays
  cool.
* agents and tool loop: a call that is under way goes on, because the provider
  and the database answer or fail; nothing makes a call arrive or abort, and no
  failure is counted on.
* tasks: every call goes on, the tick, the dispatch and the sweep happen.
  Strong fairness is asked of two things: that the timer of the sweep fires, and
  that half an hour passes; both are interrupted by other steps infinitely often
  in the model and never for ever in the world.

## 4. What is proved

`tlapm` checks every proof to its leaves. The theorems hold for every value of
the constants that satisfies the named assumptions of the modules
(`ConstantsAssumption`, `NoSlotAssumption`, `CallsAssumption`,
`ModelManagerAssumption`, `ThermalAssumption`, `TasksAssumption`,
`BoundsAssumption`): finitely many requests, jobs, tasks, ports and processes,
subsets where subsets are meant, null values outside the sets they are added to,
kinds of calls that do not overlap, frequencies and a hold of at least one step.
Bounds such as `MaxRuns`, `MaxCrashes` or `MaxActivations` are arbitrary
numbers, so no theorem depends on the bounds of a run. In short: every invariant
and action property of the passing runs is proved; what is left to TLC is
liveness.

**RequestQueue_proofs.** `Spec => []IInv`, where `IInv` adds to the stated
invariants what makes them inductive:

* `ServingInv`: the worker serves exactly when there is a current request and a
  sub-task, `in_progress` is then 1, `size` is the cardinality of the heap.
  Without it `IdleMeansDrained` cannot be derived: the counters are
  written in other places than the futures they speak of.
* `HeapInv`: where a request that was put is, and that no `put_time` lies in
  the future. This is what a new request must satisfy so that it cannot overtake
  (`NoOvertaking`, theorem `OrderIsKept`).
* `ResultInv`: a future is pending until the request is taken and resolved when
  the worker lets go of it; in between it is resolved exactly if the sub-task
  ended well. From it follow `StreamProtocol`, `LoggedOnce` and `FutureIsFinal`.

Consequences: `TypeCorrect`, `IdleIsDrained`, `StreamIsOrderly`,
`CancelsAreTargeted`, `OrderIsKept`, `LogIsExact`, the action properties
`ResultsAreFinal` and `GraceIsRespected`, and `QueueImplementsServer`, the
refinement: the lemma `RefinementStep` shows action by action that a step of
the queue is a step of `PriorityServer` or leaves its variables alone. The
interesting cases are the three that pop, where `HeapInv` gives the abstract
server its minimum, and the end of a request, where `ResultInv` says that
whoever the server turns away from has its outcome.

**SlotScheduler_proofs.** The first invariant is `Exclusion` (a coroutine in a
transition holds the lock, and is alone), `Agreement` (the flag is up exactly
during a deactivation, which has a slot to deactivate; while the process runs,
the slot in memory is the one in the database)
and `DownIsClean`, with as much of the types (`Shape`) as the steps use. The
lemma `MoveKeeps` states once what any step of a transition must satisfy, and
each action is shown to be such a move. It yields `TransitionsAreExclusive`,
for any number of admin calls, activations, crashes and restarts.

`SnapshotsAreKept` needs a second invariant on top, `SInv`: `Vacant` (while
somebody activates there is no slot that could be overwritten), `Kept`, the heart
of it, which says where the snapshots are that are not restored and not given up,
and `NotTwice`, that before the first restart no other is held. It is proved for
every value of `Events`: with crashes that bring an old file back, shutdowns,
deletions, re-created schedules and failing actions, which add to `lost` exactly
what they destroy (`GoneGivesUp`, `BootFinds`). Section 6 shows two of these
losses in the code's own words.

`TypeCorrect` is less obvious than the word suggests: that what a transition
writes into the slot *is* a slot depends on `Armed`, which says that a coroutine
that activates, or has asked for the lock in order to trigger, carries a schedule
and an activation through every suspension, the queue of the lock and the
cleaning up of an expired slot included. `Serves` is to it what `MoveKeeps` is to
the exclusion: what the part of any step that serves one coroutine may leave.

**AgentRuns_proofs.** Many calls write four shared fields, and each cleans up
behind itself by comparing: "if the slot is still mine". What makes that right
is, for any set of calls: `Places` (which call can be where), `SlotServes` (the
promise in the slot belongs to a call under way, or is settled and about to be
replaced), `PredServes` (what a call awaits is settled or will be),
`ControllersRun` (the controllers are those of runs under way), `StateOwned` (a
state other than idle has an owner) and `Stoppable`. They yield `TypeCorrect`,
`RunsAreStoppable`, `NothingIsLeft` and `PromisesAreServed`. `OneRunAtATime` is
not among them, because it is false.

**ModelManager_proofs.** The ports. `PortsReserved` and `PortAccounting` are
inductive only together, and with `PortsHeld` (a load that is spawning holds a
port that was not lost) and `Targets` (what each task under way works on): when
an instance leaves the registry its port is removed from the reserved ones, and
that nobody else is robbed of it follows from the ports being different; that
it is not lost twice, from the accounting. The lemmas `QuietKeeps`,
`UnregisterKeeps` and `LoadKeeps` are the three things that can happen to the
ports; every action but `Spawn` and `SpawnFails`, which hand a port over, is one
of them. Theorems `TypeCorrect`, `PortsAreReserved` and `PortsAreAccounted`, for
any number of models, ports, processes and concurrent requests.

The servers come on top. `ServersAreTracked` needs that the instance registered
for a model runs that model (`RegisteredByName`: the pop of one model then touches
no other's server) and that a server which survived its wrapper, killed or dead by itself, is an orphan
already (`LostAreOrphans`: it looks dead to the registry, which drops it without a
signal). Every action is shown to keep each server registered, hunted by a task
or accounted for as lost.

**AsyncJobs_proofs.** The worker is sequential and everything around it is not:
`cancel()`, reports, sandbox finalizers, `destroy()` and crashes fall into each
of its gaps. `IInv` says for each place of the worker what is then true of the
job it holds. `Fresh` is the core: a job is spawned at most once, so that
as long as its row is queued, or the worker has not passed `spawn`, nothing of it
runs or reports, in spite of the UPDATEs that other actors make to the row. From
this follow `Reported` (who has an accepted report has a terminal row, hence the
late report and the worker cannot both speak) and `Told`, which is `OneVerdict`
and `EndIsTold` with what they need: nobody is told before the one delivery
(`Untold`), and while the worker holds a shell job its row has no end but the
one just told or just about to be (`Verdict`). Theorems `TypeCorrect`,
`RunningHasAnOwner`, `EndsAreTold` and `VerdictIsUnique`, for any set of jobs,
crashes and faults. `RunningHasAnOwner` has `dropped` in its statement, and would
be false without it: what it says is that nothing but the four named accidents
leaves a running row alone.

**TaskScheduler_proofs.** The maps of this module (`runningAgents`, `liveRunIds`,
`activeRunContexts`, `pendingEscalations`) are written by whoever comes by, and
no place in the code says who owns an entry. The invariant does: `Locked` ties
the advisory lock to the one call that holds it and to where that call can be;
`Tidy` says for each place which entries the call has; `Queues`, `OnePlace` and
`Placed` that every escalation that waits does so in exactly one list, under its
parent or in one batch, and that the head of a batch is under way; `Parents` that
a run that escalates stands still meanwhile; `Rows` what a sweep may find.
`ReservationsOwned` is part of the invariant, not a consequence: a release is
right because nobody else holds the agent, and nobody else does because every
release so far was right. `Flushed` is the lemma on the step where the parts
meet: a run ends and its escalations become a batch. The new parts were checked
by TLC as invariants before they were proved. Theorems `TypeCorrect`,
`ReservationsHaveOwners`, `NothingIsStranded`, `NothingRemains` and
`LiveRunsAreSpared` (runs of tasks and of alerts; the rows of live escalations
the sweep does fail, item 27). That there are finitely many tasks is assumed because
`SetToSeq` gives the order of the rows of a query only of a finite set
(`Enumerates`); a table has finitely many rows.

**Thermal_proofs.** A governor is right if it never forgets whom it has stopped.
`Debts` states at each suspension of the loop what it owes: nothing beyond the
abandoned servers before the first pass and while it watches a machine that is not
in an emergency, and in a resume, or in the `finally`, at most the targets it is
about to continue. `Alone` says that one loop at a time owes anything. Both are
claimed until a loop is started beside another (`overtaken`), as the properties
are. What `StopStep` adds to `abandoned` is proved to be all that any end of a loop
leaves behind. Theorems `TypeCorrect`, `NoneIsLeftStopped` and `EmergencyIsHeld`,
for any number of servers and loops, with servers that load, unload and die at any
moment.

**ToolLoop_proofs.** Two contracts, each between the rows of the database and a
prompt built from them by filtering. What a filter does is proved once: `Keep` is
a recursive function, `KeepIs` finds its closed form (the elements of rank 1, 2,
... among the indices kept), `KeepEnumerated` says that it is the sequence composed
with an increasing enumeration, `KeepAppend` what happens when the sequence grows.
`StripsAreValid` then is the pure part of the first contract: if the results of
every turn follow it directly, the two passes of `stripOrphanedToolCalls` leave no
call without a result and no result without its call. That the rows are such
(`PairedRows`, with copies of delivered messages in between) is the invariant; it
survives a compaction because a cut is made in front of a row of the user
(`Compacted`), and a new result because only the turn that is open declares calls
of this run and turn (`Dates`, `OpenTurn`). The second contract is the more
fragile one: `SlotMirrors` and `PromptMirrors` say at each place of a run that the
cache holds a first part of what the rows show and the prompt in memory all of it,
where a call counts as answered while it is still awaited. The prefix that is
written to a row after the prompt was built (`PersistPrefix`), the raw stream that
is stored beside the merged text (`StoreFinal`) and the copies that the payload
leaves out are the three places where the code restores what it would break. The
parts were checked by TLC as invariants (372 k states) before they were proved.
Theorems `TypeCorrect`, `RebuiltValid` and `CacheHits`.

## 5. What is only model-checked

* Liveness (`HandlersReturn`, `NobodyBlockedForever`, `ExpiredSlotEnds`,
  `EveryJobEnds`, `Recovers`, `CallsReturn`, `RunsEnd`, `CallsEnd`, `DueRuns`):
  TLAPS has no support for fairness and ENABLED here.
* The counterexamples of section 6, by their nature.

## 6. Where the code and its own words differ

Each item is a configuration that TLC ends with a counterexample, under a
property that is a sentence of the repository as a formula. One is a listed run:

1. `agents_overlap` (`AgentRuns_overlap.cfg`): `agent/index.ts:1029-1031` says
   that a later arrival "chains behind us, preserving one run at a time per
   agent". A run that resumes from the gate writes its own promise into the slot
   (line 1223), over the gate of a message that arrived meanwhile. The next
   arrival awaits the resumed run and not the message queued behind it, and when
   that run ends both enter `runAgent`.

The others are kept so that whoever changes the code in question can try them
again (`tlc -config SlotScheduler_guard.cfg MCSlotScheduler`); the sentences
they contradict are in the notes of the corresponding hazards or here:

2. `RequestQueue_shutdown.cfg`: a shutdown that arrives while a request is being
   served is swallowed by the worker's `except CancelledError`; the lifespan
   waits on.
3. `RequestQueue_gone.cfg`: a client that leaves while its request is still in
   the heap is not "current", so nothing is cancelled and the request is
   generated later.
4. `SlotScheduler_recovery.cfg`: a slot that ended while the process was down is
   erased at startup with its snapshot, the outcome `tick()` was changed to avoid.
5. `SlotScheduler_shutdown.cfg`: cancelling `run_loop` during a deactivation runs
   its `finally`, which clears and persists the slot before any end action.
6. `SlotScheduler_deletion.cfg`: the 409 of `DELETE /schedules` looks at the masked
   slot and misses one being activated, or expired and not yet cleaned up. The
   property is that of item 4, the way to its violation another.
7. `SlotScheduler_guard.cfg`: the guard is evaluated before an await and the
   request enqueued after it, when the slot may belong to others.
8. `TickNeverWaits` as the invariant of `SlotScheduler_guard.cfg`: the comment that
   nothing can come between `locked()` and `async with` forgets the waiter that
   `release()` has woken.
9. `HeartbeatHonest` as the invariant of the same file with `MaxAge = 4`: a transition
   run by the tick itself outlasts the three ticks after which `/healthz` calls the
   scheduler dead.
10. `AsyncJobs_cancel.cfg`: unconditional UPDATEs of the worker overwrite `cancelled`.
11. `AsyncJobs_report.cfg`: a report that arrives while the worker gives up on its
    author is acknowledged, and no run of the parent follows.
12. `AsyncJobs_abort.cfg`: `abort(preset)` stops the run of another job of that
    preset.
13. `AbortedSandboxIsCancelled` as the invariant of `AsyncJobs_cancel.cfg` with
    `Job = {box}`: `markSandboxCancelled` is "Called when the host agent run is
    aborted" (`async-jobs/index.ts:1200`), but an aborted run without text returns
    in front of the finalizer (`agent/run.ts:2472-2484`), and neither its `catch`
    nor its `finally` marks the row, which runs on until the next start.
14. `SpecsUntilPickup` as the invariant of `AsyncJobs_cancel.cfg`: the worker can
    pick a row before `enqueue()` has stored its spec; the job is failed as lost
    and the spec stays in the map.
15. `ModelManager_protected.cfg`: "Protected models are NEVER evicted, no
    exceptions" (`memory/controller.py:186`); the flag of an instance is set from
    its load configuration only when the server is ready, and an eviction while it
    loads takes it for unprotected.
16. `ModelManager_inference.cfg`: "skips protected models and those
    mid-inference" (`BRAIN-DAEMON/README.md:115`); a request whose prompt is
    processed already, or not yet, is not seen.
17. `Thermal_sustained.cfg`: an emergency takes heat "sustained 2 s", but the
    start of the hold (`_emergency_since`) is not reset when one ends, so the
    first hot reading after the resume starts the next.
18. `Thermal_reload.cfg`: the end of an emergency unmarks running servers only; one
    that was dead when all were marked stays marked, and requests for it are
    refused instead of loading it (`BRAIN-DAEMON/README.md:82`).
19. `SigcontFollows` as the property of `Thermal_governor.cfg`, in the place of
    `Recovers`: "Emergency SIGSTOP fires at 98 °C sustained for 2 s; SIGCONT + 40 s
    ramp-up follows when the die cools below 55 °C" (`README.md:120-122`;
    `BRAIN-DAEMON/README.md:99`). A `POST /thermal/stop` while the SIGSTOPs go out
    cancels the loop before it has set `_emergency` (`thermal/controller.py:367-372`);
    the `finally` block (515-516) then sends no SIGCONT, and the servers stay
    stopped until a later emergency ends.
20. `AgentRuns_lost.cfg`: the daily compaction does not pass the gate; what a run
    stores between its reading and its deletion is deleted unread.
21. `AgentRuns_abort.cfg`: `abortAndWait` (`agent/index.ts:1480-1485`) misses a
    message that waits in the gate and has no controller yet.
22. `AnswerIsKept` as the invariant of `ToolLoop_midrun.cfg`: a turn whose tool
    calls have no name leaves the loop without its text, and an empty answer is
    stored in place of what the model had said.
23. `ToolLoop_summary.cfg`: "the oldest conversation turns are summarised"
    (`MASTERMIND/README.md:55`) of the rows the prompt was built from; rows older
    than those stay in front of the summary.
24. `ToolLoop_midrun.cfg`: orphaned results are stripped from a rebuilt prompt
    only; a turn pushed without its structured calls is followed by their results
    in the prompt sent next (`agent/run.ts`, near line 222).
25. `TaskScheduler_restored.cfg`: a run that ends after its task was deleted
    writes its copy of the row back, and `restoreTask` brings the task back
    enabled (`scheduler/index.ts:718` promises it disabled).
26. `TaskScheduler_stale.cfg`: a tick that has read a task while it ran starts it
    a second time when that run is over, although it is not due any more; `running`
    "prevents double-trigger" (`scheduler/index.ts:71`) only while it runs.
27. `TaskScheduler_rows.cfg`: the row of an escalation is committed when it is
    made and its run enters `liveRunIds` when it is dispatched; one that has waited
    for half an hour is failed by a sweep as it starts, and completed by its run
    afterwards, the flip `scheduler/index.ts:98-102` speaks of.

## 7. What is left out of the modelled components

* Queue: contents of logs and statistics, the registry of direct API requests
  and the path that bypasses the queue for cloud models. Two requests with the
  same `put_time`: the resolution of the monotonic clock makes them rare, and
  the heap then treats them as equal and keeps no order.
* Slots: `PUT /schedules` and the cron arithmetic; the contents of a schedule
  are constants, and a tick may find any existing schedule due.
* Jobs: the branch of the worker for `sandbox_run` rows in the queue; no caller
  enqueues that kind.
* Model manager: command lines and model files; KV dumps, which are dead code
  (`kv_cache_auto_dump` is never set); the swap flush. Modelled, and perhaps
  surprising: a lazy load makes no preload check, a failed spawn loses its port,
  and the `pkill` of a vLLM unload reaches every vLLM server. The daemon's own
  shutdown is not modelled.
* Thermal: the power limits and the task that ramps them up: they are written and
  read by nothing else. The start of a loop while the `finally` of the previous one
  runs is modelled, and what the two then overwrite of each other is excused by
  `overtaken`.
* Agents: steering, the delivery and its safety nets, sandboxes; the limit of 500
  messages that `compactSession` reads. The timestamp `replaceWithCompact` gives
  to a summary is its position in the session.
* Tool loop: the texts; the setting `stripThink` has its default.
* Tasks: cron arithmetic is a choice of dates; a new date in `updateTask` and the
  sources, rate limits and retention of proactive sources are left out. A call
  of `runNow` for a `once` task before its date disables it, and a dispatch that
  has waited two minutes runs beside the run it waited for: the model has both.
* Everywhere: prompts, alerts, exit codes beyond success and failure.

**Not modelled, and why.** Most of the repository's lines are user interfaces,
HTTP clients, format conversions, prompts and queries: a model of them would
restate assignments. They are listed in `PROJECT.json` as `not_modelled`. The
parts that do have interacting state and are not modelled yet are in the plan.

## 8. Plan

1. An abstract specification of a job (queued, running, ended, told once) that
   `AsyncJobs` implements, as `PriorityServer` is one of the queue.
2. A composition of `RequestQueue` and `SlotScheduler` through `wait_for_idle`
   and the guard, on the side of the queue replaced by `PriorityServer`.
3. `ModelsCache` (single-flight refresh against flushes), delivery, the war room.
