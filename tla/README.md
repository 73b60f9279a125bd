# TLA+ models of the OpenClaw gateway

OpenClaw is a personal-assistant gateway: one Node.js process that receives messages from chat
services, runs an agent on them, and sends the answers back. Its logic is that of an event loop:
no data races inside a function, but every `await` is a point where other callbacks change the
state a function has read, timers and signals arrive at any time, and the process restarts itself
in place while work is running. The modules here model the parts whose correctness depends on
that: queues, drains, restarts and write-ahead files. Paths below are relative to `src/`; the
TypeScript sources are in `src/src/`.

    tlc -workers 2 -config CommandQueue.cfg MCCommandQueue     a run (see the table below)
    tlapm CommandQueueProofs.tla                               proofs (every module ...Proofs)

## 1. The system

| Part | State | Operations | Talks to |
| --- | --- | --- | --- |
| Command queue, `src/process/command-queue.ts` | per lane a FIFO queue, active task ids, a cap, a generation; the flag `gatewayDraining` | enqueue, task end, clear, set cap, mark draining, reset, wait for active tasks | every agent run; the gateway loop |
| Gateway loop, `src/cli/gateway-cli/run-loop.ts` | the server, the gateway lock, `shuttingDown`, the resolver of the loop's promise | start, drain, close, release and reacquire the lock, respawn or go round again, stop | command queue (drain, reset), restart coordination |
| Agent runs, `src/agents/pi-embedded-runner` | active runs per session | a run enters its session lane, then the global lane | command queue; followup queue when it ends |
| Followup queue, `src/auto-reply/reply/queue` | per session key a queue object with items and an overflow summary; a drain callback; recent message ids | enqueue, drain, clear, kick, finalize | agent runs |
| Delivery queue, `src/infra/outbound` | files `<id>.json`, `<id>.delivered`, `failed/<id>.json` with a retry count | persist, send, acknowledge, fail, move to failed, recovery scan at start | channels |
| Heartbeat wake layer, `src/infra/heartbeat-wake.ts` | pending wakes by target, one timer, `running`, `scheduled`, the handler | request, timer, batch, answer, register, dispose | heartbeat runner, command queue (busy or not) |
| Heartbeat runner, `src/infra/heartbeat-runner.ts` | schedule per agent, `stopped` | run, schedule, update configuration, stop | wake layer |
| Cron service, `src/cron/service` | a file of jobs with next, running and last times; a copy in memory, `running`, a timer and a lock chain per service | start with catch-up, tick, add, update, remove, list, manual run, hot reload | command queue, heartbeat |
| Channel manager, `src/gateway/server-channels.ts` | tasks, abort controllers, restart counts, `manuallyStopped` per account | start, stop, automatic restart with backoff, logout | channel plugins; config reload; health monitor |
| Subagent registry and announce queue, `src/agents/subagent-*.ts` | runs of subagents (persisted), announcements per session | register, complete, announce, resume | agent runs |
| Node registry, `src/gateway/node-registry.ts`, `server-methods/nodes.ts` | sessions by node and by connection, outstanding invokes with timers, wake state, queued actions per node | register, unregister, invoke, result, wake and wait, queue, pull, acknowledge | sockets, the app on the phone, callers of `node.invoke` |
| Exec approvals, `src/gateway` | pending requests with timers | register, resolve, expire | operators |
| Reply dispatcher, `src/auto-reply/reply/reply-dispatcher.ts` | a send chain, a pending count with a reservation, an entry in a registry | enqueue, deliver, mark complete, wait for idle | channels; restart coordination asks the registry |
| Restart coordination, `src/infra/restart.ts`, `src/gateway/server-reload-handlers.ts` | one timer, deferral polls, `restartPending` | schedule, defer until idle, emit, take the signal | gateway loop; queues, dispatchers and runs are asked how busy they are |
| Inbound debounce, `src/auto-reply/inbound-debounce.ts` | buffers with timers | buffer, flush | channels, followup queue |
| File locks, `src/infra/gateway-lock.ts`, `src/agents/session-write-lock.ts` | lock files with pid and time | acquire, judge stale, remove, release | other processes |
| Others | | ACP actor queue, auth profiles and failover, process supervisor, pairing, RPC servers, agent runtime, Aillium boundary, channels and apps | |

What is hard in it, by kind (each with its line in `PROJECT.json`, "hazards"):

* **Await gaps.** A channel start awaits `isConfigured` between its check and its registration; a
  manual cron run looks and reserves under two lock sections; a drain awaits an agent turn and then
  edits a queue that has changed; a batch of wakes awaits its handler while the runner is replaced;
  a recovery scan works on what it has read.
* **Restart in place.** Promises of the old lifecycle go on living: completions, `finally` blocks
  and recovery scans arrive after the state they belong to has been reset.
* **Overlapping lifecycles.** A hot reload replaces the cron service while jobs of the old one run,
  and requests go on reaching the service of the boot (`server.impl.ts:825`); restart requests come
  from three sides, each with a timer or a poll of its own.
* **Wakeups.** Nothing polls the queues. Whoever frees a slot, ends a drain or registers a handler
  has to start what waits, on every path, error paths included.
* **Crashes and file errors** between the steps of a send and of its record.
* **Connections that overlap.** A phone connects again before the gateway has seen its old socket
  close; a handshake ends after its socket has closed; an answer comes in after its timeout.
* **Limits**: caps lowered below the load, overflowing queues, retry counts.

What makes each part correct:

* Command queue: slots are exact, no lane has waiting work beside a free slot, lanes are FIFO, the
  cap holds when work starts, a command has one outcome, a drain wait does not lie.
* Gateway loop and runs: the above through two nested lanes and through restarts; one run per
  session; a gateway that serves accepts work; nobody waits for ever.
* Followup queue: no message vanishes or is answered twice, turns follow arrival, no queue is idle
  with work in it, one drain per queue.
* Delivery queue: kept until all of it is sent, sent once unless a success could not be recorded,
  retries bounded.
* Wake layer: no wake is stranded or forgotten, a waiting wake is handed over.
* Cron service: a job runs once at a time; a due slot is served, not skipped; the timer stays set;
  no marker outlives its run.
* Channel manager: every task can be reached by the next stop; a stop is final; no dead entry
  blocks a start; every call returns.
* Reply dispatcher: replies in order; idle said once all of them have settled; the count that
  restarts rely on is true.
* Restart coordination: no request is lost; no restart for a request already served.
* Node registry: it follows the sockets; every invoke is answered; an action that was queued for the
  app is kept until it is run, and run once.
* Locks: one holder.

## 2. The modules

| Module | Models |
| --- | --- |
| `LaneOps` | a lane as a data type: `Push`, `Pump`, `Release`, `ResetLane`, ... |
| `CommandLifecycle` | abstract: what a caller of the command queue is promised |
| `CommandQueue` | the command queue; implements `CommandLifecycle` |
| `GatewayRuns` | agent runs in two nested lanes (of `LaneOps`), with the gateway loop |
| `FollowupQueue` | the followup queue of one session key and its drain |
| `DeliveryQueue` | the write-ahead delivery queue and its recovery |
| `HeartbeatWake` | the wake layer, with runners that start and stop |
| `CronService` | the job store, its services, ticks, starts, edits and manual runs |
| `ChannelManager` | one channel account: its task, restarts, and the calls that start and stop it |
| `ReplyOutbox` | abstract: what the users of a reply dispatcher are promised |
| `ReplyDispatcher` | the dispatcher of a turn, its registry entry, the turn; implements `ReplyOutbox` |
| `RestartCoordination` | restart requests with their timer and polls, and the loop that restarts |
| `NodeRegistry` | the connections of one iOS node, the registry, `node.invoke`, the queued actions and the app |
| `LaneOpsProofs` | lemmas about one lane, which the next two modules cite |
| `CommandQueueProofs`, `GatewayRunsProofs`, `DeliveryQueueProofs`, `HeartbeatWakeProofs`, `CronServiceProofs` | theorems about the component of that name |
| `AutoReplyProofs` | theorems about `ReplyDispatcher` and `FollowupQueue` |
| `GatewayServerProofs` | theorems about `ChannelManager`, `RestartCoordination` and `NodeRegistry` |
| `MC...` | constants for TLC |

The components that share a module of proofs have prefixes in their `Init`, `Spec`, `TypeOK` and so on
(`FollowupInit`, `ChannelInit`, `ReplyInit`, `RestartInit`, `NodeInit`).

A definition whose comment begins with "Faulty variant" is not part of a specification. It is what
its neighbour would be with a plausible bug; with it in the neighbour's place, the property named
in `PROJECT.json` ("mutants") is violated. This shows that the property depends on the code.

### CommandQueue

Every exported function is synchronous, so it is one action with the `drainLane` it ends in. The
end of a task (the continuation after `await entry.task()`) is the only asynchronous step:
`Finish` compares generations, releases the slot and pumps. The `draining` flag of a lane is
raised and lowered within one call and so is not a variable; the header of `LaneOps` says why it
cannot be seen. A task id is the command itself, since an entry is pumped at most once.
`enqueuedAt` is an arrival number instead of a time. `Enqueue`/`Refuse`, `Clear`,
`SetConcurrency`, `MarkDraining`, `ResetAll`, `WaitForActiveTasks` and `Poll` are the other
functions. `CommandLifecycle` has no lanes: it says that a command is refused or numbered, waits,
runs or is cleared, settles once, and overtakes nobody.

### GatewayRuns

A run is `runEmbeddedPiAgent`: a task in its session lane (cap 1) that enqueues a task in the
global lane. `Drain` is `drainLane` for session lanes and the global lane in one step, because a
session task that starts reaches its inner `enqueueCommandInLane` without an await. The gateway's
refusal of the inner enqueue (`rejecting`) and the microtask between the ends of the two tasks
(`unwinding`) are steps of their own. The loop is `loop`, `server`, `shutdown`, `lock`:
`RequestRestart`, `DrainCompletes` or `DrainTimesOut`, `CloseServer`, `ReleaseLock`, `Reacquire`
and `ResumeLoop`, which is `restartResolver?.()` and, only if the loop waits on its promise, the
next iteration with `ResetAllLanes`. `Exit` stands for stop, the force-exit timer, a respawned
process and a lost lock. `timedOut` and `missed` (a restart came while the gateway was starting)
are history.

### FollowupQueue

`FOLLOWUP_QUEUES` maps the key to an object, and a drain holds on to its object, not to the key:
objects have an identity, `registry` is what the map holds. The drain of an object is at `debounce`
or at `turn`, its two awaits; everything between two awaits is one action (`Debounced`,
`TurnCompletes`, `TurnThrows`), with the loop's test, the `break`s and the `finally` block.
`EnqueueRun` is `enqueueFollowupRun` with the settings it applies, the drop policy and the kick;
`Redeliver` is the same call for a known message id. `fates` and `raced` are history. Modes other
than `collect` behave alike here. Dropped messages are kept as a set instead of a count and lines.

### DeliveryQueue

A live delivery is `deliverOutboundPayloads`, a scan is `recoverPendingDeliveries` of one gateway
start; both are workers that perform the sends and file operations one by one. `disk` says which
files of an entry exist. A rename is atomic; a crash can come between any two operations; scans of
an earlier start in the same process go on. A scan acts on the retry counts it has read
(`snapshot`). The payloads of a delivery are sent in order (`PayloadDone` is the loop); each send
succeeds, fails, or fails permanently, as the channel likes, and `partial` is `hadPartialFailure`.
The chunks and media of a payload are one send. After the last payload a `Mirrored` delivery with
`results` is appended to a transcript, which may throw, and then the entry of what has all been sent
is marked failed and replayed (`Throws`); `HandlerFails` is an adapter that cannot be loaded.
`MAX_RETRIES` is 2 here instead of 5, and elapsed backoff is a choice. `sent`, `accepted`,
`unacked`, `aborted` and `shared` are history; `unacked` marks entries of which an attempt sent
something that it did not record, and `shared` those that a scan read while another worker had them.

### HeartbeatWake

`timer` is the one timer with its kind; delays are not modelled, so `Arm` returns the timers that
may remain. A callback of the timer that has a batch is in flight until its `finally`; as
`StartRunner` (`setHeartbeatWakeHandler`) resets `running`, there can be several. `StopRunner` is
the runner's cleanup with its disposer. `owed` and `dropped` are history.

### CronService

The jobs are records in `disk` and in the memory of each service; every section under the lock of
`locked.ts` is one action, because sections of all services of one file are chained, and the runs of
jobs are outside it (`BeginRun`, `EndRun`, `EndManual`). `start()` is `ClearMarkers`, `PlanCatchup`,
the runs it claims, `ApplyCatchup` and `Arm`; a tick is `OnTimer`, its runs and `ApplyTick` with the
`finally` block; a manual run is `Inspect` (a `Look` if it goes no further), `Reserve` and
`FinishManual`; what the preflight repairs stays in memory (`Preflight`). Requests reach the service
built at boot (`Serving`), also after a reload, because the request context holds it by value
(`server.impl.ts:825`, `977`): it works on its own memory, writes it over the file and sets its own
timer. `Recomputed`, `Maintained` and `Result` are `recomputeNextRuns`,
`recomputeNextRunsForMaintenance` and `applyJobResult`. `fresh` says whether the tick's job objects
are still the ones in memory, because `runDueJob` writes a marker into them without the lock.
Abstractions: a recurring job is a cron expression, due at the multiples of `Period`; a run is dated
with the time its result is applied; a timer fires whenever it is set, which a floor of two seconds
and a ceiling of a minute allow. `excused` and `overlaps` are history; `Overlap` counts the reloads
of a service that has work to do and the requests that reach a replaced one.

### ChannelManager

One account. A task is `up` until `startAccount` settles, then its promise chain is `down`, and
gives up, or is `sleeping` (backoff) and then `configuring` (the restart awaits `isConfigured`).
`registered` is its entry in `store.tasks` and `store.aborts`. A call is a start, a stop, or one of
the callers that combine them (reload, health monitor, logout); a stop awaits the plugin's hook,
then the task it found. Whether the account is enabled and configured, and whether the monitor finds
it unhealthy, is a choice at each look. `Launch` has no step for a `startAccount` that throws at
once: those of all channels are `async` functions, whose errors arrive with the task. `overlapped`
and `halted` are history.

### ReplyDispatcher

`sendChain` is the rule that reply `r` is delivered when all before it have settled; `pending` and
the microtask of `markComplete` are as in the code. The turn is `withReplyDispatcher`. `Enqueue` is
enabled for ever: a block reply can reach the dispatcher after the run has ended, because the block
pipeline gives up on a slow reply (`block-reply-pipeline.ts:131`) without recalling it. The `onError`
of every caller only logs, so that it does not throw into the chain. `ReplyOutbox`
has replies that are accepted, settle in order, a close, and an idle signal; the refinement mapping
counts what was accepted up to that signal.

### RestartCoordination

`timer` is `pendingRestartTimer`, `polls` the intervals of `deferGatewayRestartUntilIdle` by whose
path they are (the timer's, the watcher's, a former server's watcher's), `loop` and `shuttingDown`
the run loop. `process.emit` is synchronous, so the authorization and the cycle token of a signal
are consumed in the action that sets them (`Emit`) and are not part of the state. Delays and the
cooldown only move the time at which the timer fires. `work` is what the deferral counts. `outstanding`,
`leftover` and `swallowed` are history.

### NodeRegistry

A connection is numbered in the order in which the app opens them; it opens one when it has none or
has given up the last (`Connect`), whatever the gateway knows of that (`link` is "lost" from the
moment nothing gets through until the gateway handles the close). `Register` is the end of the
handshake and may come after the close; `SocketClose` is the close handler with `unregister`.
`step` is where an invocation of `node.invoke` awaits: the push it shares with every other caller
(`WakeSteps`), the two waits, the nudge, the node's answer (`pending`), or what it was answered.
`Dispatch` is the policy check with `registry.invoke`, which the code does in one turn after looking
at the registry. `queue` is `pendingNodeActionsById`; its lazy pruning by age is `Expire`, since all
readers prune first. The app refuses restricted commands in the background (`NodeHandles`), pulls
the queue when it is in the foreground, and runs and acknowledges action by action (`Pull`,
`Replay`, `Ack`). `ran`, `dropped`, `ackFailed`, `displaced` and `late` are history. The text of
pushes, the registration for them and other node methods are left out; nodes share no state, so
there is one.

## 3. The runs

| Run | Bounds | States | Result |
| --- | --- | --- | --- |
| `CommandQueue` | 2 lanes, 4 commands (3 in one lane), caps 0 and 2, 1 reset, 1 wait | 0.69 M | holds |
| `GatewayRuns` | 2 sessions, 3 runs, global cap 1, 2 signals, fairness | 0.13 M | holds |
| `FollowupQueue` | 4 messages, cap 2, 2 modes, 2 policies, 2 objects, 1 clear, 1 failure, fairness | 0.14 M | holds |
| `DeliveryQueue` | 2 messages (of 1 payload, bestEffort and observed, and of 2, for a transcript), 2 retries, 2 starts, 1 crash, 1 file error | 3.82 M | holds |
| `HeartbeatWake` | 2 targets, 2 priorities, 3 requests, 2 runners, 1 throw, fairness | 0.10 M | holds |
| `CronService` | 1 recurring job, 1 one-shot that can be added, 2 times, 2 services, 1 reload of an idle one, 1 manual run, 1 edit, 1 error | 0.72 M | holds |
| `CronServiceOverlap` | the same with one overlap of services, no edit, no stuck markers | | violated |
| `ChannelManager` | with and without a hook, 1 restart attempt, 3 calls, 3 exits, fairness | 0.32 M | holds |
| `ChannelManagerStop` | the same without fairness | | violated |
| `ReplyDispatcher` | 4 replies, fairness | 1015 | holds |
| `NodeRegistry` | 2 connections (the second declares less), 2 invokes with one key or two, both restricted, queue of 1, 1 failed acknowledgement of each action, fairness | 0.28 M | holds |
| `RestartCoordination` | 4 requests, 2 operations, external signals allowed, fairness | 1854 | holds |

Why the bounds are enough to make the cases happen: three commands of one lane are one that runs,
one that starts and one that still waits while the cap changes between 1 (0 is clamped) and 2 and a
reset lies between; the fourth command makes the reset two-pass and the clear local. Two sessions
with three runs and a global cap of 1 leave one session inside its own lane and outside the global
one, with a successor behind it; two signals are a restart after a restart, or a signal after a
failed start. Four messages on a queue of two overflow during a turn and afterwards; two objects are
what a clear in mid-drain needs. Two deliveries make a scan handle one entry while the other
changes, two payloads fail half-way; two starts are a crash with recovery, or two scans of one
process. Three wakes for two targets coalesce and leave one for the requeue; two runners are a
replacement. Two jobs and two times are a job that becomes due while another runs, a missed job at a
start, and a tick against a manual run; two services are a crash or a reload. `Stuck` is 0 in
`CronService`, so that a marker of a run that lasts until the second time is taken for stale (the
code allows two hours). `MaxOverlaps` is 0 in `CronService`: all its properties but `TypeOK` and
`TimerIsSet` hold trivially once services have overlapped, and for these two the theorems cover any
number of overlaps. So after a reload that run has no requests; the next run has one overlap. Three
calls are a stop and a start around a third call that overlaps them; three exits are a crash, a
restart that crashes, and giving up. Four replies are one before and one after the end of the turn,
and two after the idle signal. Four requests are one for each path and one more for the server that
follows. Two connections of a node are one whose close or handshake is late and the one it
displaces; two invokes with one key are a caller and its retry, with two keys they are two callers,
whose second action pushes the first out of a queue of one. Symmetry is used in `CommandQueue` only,
on interchangeable commands. Deadlock is looked for in `NodeRegistry` only, whose app can always
change its phase: with all bounds used up and all work done the other systems stop.

Five runs have no type invariant among their properties (`CommandQueue`, `DeliveryQueue`,
`HeartbeatWake`, `ReplyDispatcher`, `RestartCoordination`): section 4 proves the types of these modules
for all constants, and the run could only repeat it for some.

### What the violated properties show

* `NeverConcurrent` (`ops.ts:440`): a hot reload stops the timer of the old service and nothing else.
  In the trace the old service, still in its `start()`, sets its timer once more and reserves a
  manual run; then the `start()` of the new service clears the marker of that run, and the next tick,
  which reads the file, claims the job beside it. `OneRunAtATime` says what remains true: a
  job runs once at a time, unless its marker was cleared under it (an update that disables it, or two
  hours) or services overlapped. They do so when a reload finds the old service busy, and whenever a
  request comes after a reload, as it reaches the service that was replaced.
* `NoRestartAfterStop` (`server-channels.ts:133`): a stop that falls into the configuration of a
  restart after a crash finds nothing to stop, marks nothing and returns; the account comes up
  afterwards. `StopIsFinal` says what remains true.

### What else the models show

These states are reached in the passing runs, where the properties name them as exceptions:

* A collect turn removes by count what it has answered (`drain.ts:130`); an overflow during the turn
  has already removed some of that, so newer messages go unanswered and unreported, although
  `docs/concepts/queue.md:31` speaks of all queued messages and line 69 of a list of the dropped
  ones. Two more ways to the same end: the summary state is cleared after a turn together with drops
  made during it, and a summary turn in mode followup uses up an entry. `OneFateUnlessRaced` excuses
  them by `raced` and the fate "consumed".
* `unregister` deletes the session by node id (`node-registry.ts:87`). When the app has connected
  again before the gateway sees the old socket close, the late close removes the new connection's
  session and rejects the invokes that wait on it; a late handshake of the old connection replaces
  it. The node is then connected and not found (`docs/cli/nodes.md:37` promises a list of what is
  connected). `RegistryFollowsNode` excuses it by `displaced`.
* A socket that closes during the awaits of its handshake is registered afterwards
  (`message-handler.ts:999`) and stays listed, with nothing left to remove it; `RegistryFollowsNode`
  excuses it by `late`.
* A restart signal during `params.start()` sets `gatewayDraining` and then finds no promise to
  resolve (`run-loop.ts:91`): the gateway serves and refuses every command until the next restart.
  `ServingGatewayAccepts` excuses it by `missed`, `RequestIsServed` by `swallowed`.
* After a drain timeout `resetAllLanes` forgets a run that was only asked to abort and starts the
  next run of its session beside it, although `docs/concepts/queue.md:83` promises one run per
  session. `OneRunPerSessionIfDrained` excuses it.
* With drops outstanding and no items the followup drain reschedules itself for ever without a turn,
  and the summary is never injected (`drain.ts:155`).
* A bestEffort message whose error nobody observes is acknowledged unsent (`deliver.ts:785`), as in
  every replay; `StrictDeliveryIsKept` is about the others.
* Recovery replays an entry that a live delivery is still sending (`delivery-queue.ts:327`); a
  delivery that fails half-way sends its first payloads again. `SentOnceUnlessUnacked` names both.
* After a failed in-process start the next start runs without the gateway lock (`run-loop.ts:87`).
* A wake in the rest of a batch whose runner was stopped is dropped although a new runner is
  registered (`EveryWakeAccounted` names it); the `finally` of a callback of an earlier lifecycle
  resets `running` for the new one (`heartbeat-wake.ts:187`).
* The comment in `applyStartupCatchupOutcomes` (`timer.ts:986`) wants slots that became due during
  the catch-up to be executed by a tick; the last section of `start()` (`ops.ts:119`) recomputes all
  times and advances them. `add` does the same. `DueSlotsAreKept` names both.
* The request context holds the cron service of the boot by value (`server.impl.ts:825`), and a hot
  reload assigns the variable only (`server.impl.ts:977`). After a reload every request goes to the
  replaced service: it decides on stale memory, writes that over the file, and arms its own timer
  again. So a job can run twice, a due slot can be lost and a marker outlive its run; the three
  properties excuse it by `overlaps`. The timer of the current service stays set (`TimerIsSet`).
* The append to the transcript comes after the last send (`deliver.ts:797`); when it throws, the
  delivery is taken for failed and all of it is sent again. `SentOnceUnlessUnacked` excuses it by
  `unacked`.
* Overlapping starts of one account leave an unregistered task (`server-channels.ts:243`);
  `EveryTaskIsRegistered` excuses it by `overlapped`.
* A reply taken after the idle signal makes `pending` lack its reservation; it can become negative
  or say idle again. `CountsEveryReply` and the refinement speak of replies up to the signal.
* A caller that retries an action it was told is queued (the answer says retryable) can have it run
  twice, once directly and once from the queue (`nodes.ts:1075`); no property speaks of it.
* Two deferral polls, one of the RPC path and one of the config watcher, end in two restarts in a
  row (`NoNeedlessRestart` names what an emission leaves armed).

### Fairness

* `GatewayRuns`: a run that holds a slot ends (agent runs have a timeout), and microtasks are
  executed. No fairness for a run that a reset has abandoned, for starts, signals or exits.
* `FollowupQueue`: turns end, debounce timers fire, and the agent turn during which a message was
  queued ends with `finalizeWithFollowup` (`agent-runner.ts`). Turns may also throw.
* `HeartbeatWake`: timers fire and handlers answer; nothing says that they are ever not busy, so
  the property is that a wake is handed over, not that it is served.
* `ChannelManager`: timers fire, `isConfigured` and hooks settle, and `startAccount` settles once
  its signal has fired. A task that is not aborted may stay up for ever.
* `ReplyDispatcher`: promise callbacks run and a channel's `deliver()` settles; the run of the turn
  need not end.
* `NodeRegistry`: a push is answered or fails, waits end at their deadline, the nudge is sent or fails,
  and the timer of an invoke fires. None for the node, its connections and the app.
* `RestartCoordination`: timers fire, polls end (after 90 seconds at the latest), drains and closes
  end (or the force-exit timer does), and `params.start()` settles. Work need not end.

`CronService` has no fairness: its liveness is the state property `TimerIsSet`, since the timer is
the only thing that has to happen.

## 4. The proofs

`CommandQueueProofs` proves every property of the run `CommandQueue` for all sets of lanes and
commands, finite or not, all caps and any number of resets. The only assumptions are
`LaneOfAssumption` (each command has a lane) and `BoundsAssumption` (caps are integers, the bound
on resets is a natural number).

`NoLostWakeup` and `FifoStart` are not inductive. The invariant `IInv` adds:

* `Sound`: a lane's queue holds exactly its waiting commands, in the order of their arrival
  numbers, its slots are finitely many and exactly its running commands of the current generation,
  no command is of a later generation than its lane, and `FifoStart` holds. Without the first part
  a pump could start a command twice, or one of another lane. `Sound` takes the lanes and phases as
  arguments: an action makes its intermediate lanes sound and `DrainLanes` carries that over.
* `NoSlotWasted` is `NoLostWakeup` for one lane; `Cardinality` in it needs the finiteness above.
* `Numbered`: arrival numbers are at most `now`, so that the newest command goes to the end.
* `SnapshotStarted`: what a waiter waits for had been started, so it is not in a queue.

`LaneOpsProofs` has the facts about one lane: how many entries a pump takes (`PumpCountBounds`),
which, and what is left (`PumpQueue`, `PumpSplits`, `PumpFields`), the number of slots afterwards
(`PumpCardinality`), and that it leaves no slot free beside an entry (`PumpUsesSlots`).
`DrainLanesKeeps` lifts them to all lanes, and each action has a lemma on top of it.
`StepIsAlwaysProper` collects them: a step preserves `IInv`, starts work only within the cap, and
follows the edges of `CommandLifecycle`; `Invariance`, `StartsWithinCapHolds` and
`LifecycleRefinement` follow by temporal reasoning.

`GatewayRunsProofs` proves `TypeOK`, `SessionOrder`, `OneRunPerSessionIfDrained` and
`ServingGatewayAccepts` for any sessions, any number of runs and signals and any cap of the global
lane, from `ConstantsAssumption`: the global lane is no session's, the bounds are natural numbers,
the cap is positive.

* `Drain` pumps session lanes and then the global lane in one step. The proof takes it apart
  (`DrainInTwoSteps`): `SessionsKeep` carries `Sound`, which takes lanes, phases and sessions as
  arguments, past the session lanes with their heads at the end of the global queue, and
  `GlobalKeeps` past the global lane; `DrainKeeps` is the two together, for every set of session
  lanes and every order of their heads. An action owes only that what it hands to `Drain` is sound
  (`PushKeeps`, `EndKeeps`, `ReleaseLightens`, `ResetLightens`).
* `Sound` says that the queue of a session lane has the queued runs of the session in their order,
  that the global queue has the pending runs, those of one session in order, and `InOrder`: a run
  that has left its session's queue has no older run of the session left in it, and the same for
  the global queue. `SessionOrder` alone is not inductive: it says nothing of a pending run behind
  which an older one is still queued.
* `DrainsAreComplete` is about restarts: while no drain has timed out, a run that works holds the
  slot of its session, so that it is among the tasks the drain waits for, and nothing works any more
  when the lanes are reset. So the reset forgets slots that are free by then, and what it starts
  holds them again. After a timeout the code gives up this property, and so does the theorem.
* `FlagFollowsRestart` ties the drain flag to the restart that has set it.

It ends with `NoDeadlockOfLanes`, the safety half of `WaitingRunMoves`: as long as a run waits in a
lane, some run is in a step whose end frees a slot, so that the lanes never wait for each other,
although a run holds a slot of its session while it waits for a global one. Its invariant `SlotIInv`,
next to `IInv`, says that every slot is held by a run whose end is counted: it has not ended, and its
task has the generation of the lane, so that the completion is not taken for one of before a reset
(`SlotsAreHeld`); and that no lane has an entry beside free slots only (`Busy`). `DrainHolds` carries
both past a drain, again through the session lanes and then the global lane.

`AutoReplyProofs` has two parts. The first proves `ReplyTypeOK`, `CountsEveryReply` and the safety
part of the refinement for any number of replies, from `RepliesAssumption` alone (`NumReplies` is a
natural number). Its invariant `ReplyIInv` adds to them that deliveries begin and settle in the
order of the chain (`ChainInOrder`); that until the idle signal the reservation is counted in
(`ReservationHeld`), which is what the comparisons of `pending` with 1 and 2 rely on; that the
signal comes only after `markComplete` and when all accepted before it has settled
(`SettledWhenIdle`); and that the microtask belongs to a completed turn (`EndsOnce`). `DoneCounts`
and `DoneGrows` say what `Cardinality(done)` is worth. Every action has a lemma that preserves
`ReplyIInv`; `EnqueueRefines`, `SettleRefines` and `ClearRefines` map the steps to those of
`ReplyOutbox`.

The second part proves `FollowupTypeOK`, `IdleQueueHasNoRunner`, `OneFateUnlessRaced` and the action
property `TurnsFollowArrival` for any cap, any policies and modes and any number of messages, objects,
clears and failing turns, from `FollowupConstants`: the bounds are natural numbers, the cap is positive
(neither the configuration nor `/queue` takes another, `zod-schema.core.ts:582`, `directive.ts:30`) and
there is a mode and a policy to be in.

* The invariant is `FollowupInv`. Its `Sound` takes the registered object, the objects, the drains and
  the histories as arguments, because an action of the drain changes them in two stages: its own
  change (`AcceptKeeps`, `TakenKeeps`, `StartTurnKeeps`, `EmptyKeeps`, `SettingsKeeps`), and then
  `Schedule`, `Finally` or `NextRound`, which move who drains but touch no entry (`Moved`,
  `MovedKeeps`). Each stage has its lemma.
* `ObjectSound` says that entries are in arrival order, and that those a turn will not take off are
  younger than those it answers. `Apart` and `NotAgain` say that no message is in two places, and
  nothing answered is queued; they hold whatever happens.
* `TurnsInOrder` needs that no clear has met a turn: then the registered object is the only one
  that drains. After such a clear two objects drain side by side, and messages that came first may
  be answered last.
* `TurnSound` is what `OneFateUnlessRaced` lacks to be inductive: the entries that a turn will take
  off by their count are those it answers or is carried by, and its summary is all that was dropped.
  This is what an overflow during the turn breaks, and with it the property.

`GatewayServerProofs` has four parts. The first proves `ChannelTypeOK`, `EveryTaskIsRegistered`,
`RegistrationIsLive` and `StopIsFinal` for any number of calls, exits and restart attempts, from
`ChannelConstants`.

* `OneAtATime` is what calls that do not overlap rely on: whoever configures a start is alone, with
  no task and no stop beside it, a stop that is under way has found the only task, and nothing is
  left of an account that was halted or whose attempts are used up. The properties are parts of it.
* `RoomForTasks` is about the model: the numbers of tasks suffice, because every task, every call
  that is not over and every chain that may restart is paid for by a call or an exit. Without it
  `Fresh` could be no task, and nothing would be known of the step that starts one.
* `AttemptsAreEnds` bounds the attempts by the tasks that have ended.

`RestartsOnlyThroughOverlap` goes with the run `ChannelManagerStop`, which shows that a chain may
restart an account that was stopped: it says that this takes calls which have overlapped.
`StopsAreAnswered` is the safety half of `CallsReturn`: the task that a stop waits for has been told
to stop, and its chain ends with no start before that, whatever else overlaps.

The second part proves `RestartTypeOK` and `NoNeedlessRestart` for any number of requests and
any amount of work. The invariant adds `ArmedForARequest`: a timer or poll that is there when no
request waits, or while a restart is under way, is one that no emission clears; and
`PollsAreRequested`: each stands for a request of its own, which bounds their number.
`RequestsAreCarried` is the safety half of `RequestIsServed`: a request that waits has a timer, a poll
or a restart under way, unless a restart was swallowed or the process has exited. It needs
`FlagHasPoll`: the watcher's flag, because of which a change of the configuration arms nothing, is set
only while a poll of the watcher's goes on.

The third part proves `RegistryFollowsNode` and `OutstandingInvokeHasConnection` for any number of
connections and any invokes, from `NodeConstants`. Its invariant has only the part of the state
that the registry sees. `InOrder` says that a connection is opened when no other is open, so that a
live one is the newest; `ByConnFollowsSockets`, that a connection is in `nodesByConn` from its
handshake to its close, or for ever if the handshake came last; `SessionHasConnection`, that the
session is of a connection in there. Without the last an invoke could be sent over a connection
whose close ends nothing. `InvokesInv` covers all steps of invokes at once.

The fourth part proves `NodeTypeOK` and `QueuedMeansRunOnce` for any invokes, shared keys and cap,
from `NodeConstants` too. The invariant `QueueIInv` adds three statements: `OnePerKey`, no key is
twice in the queue, nor in what the app pulled of it; `AckedHasRun`, what the app acknowledges has
been run; and `RanIsOut`, an action that was run, and whose acknowledgement has not failed, is in
neither, or is being acknowledged. The last is why a second pull does not run an action twice, and
it needs the first: an acknowledgement takes away one entry of the replay, so there must not be
another. The queue is filtered when it is pulled and acknowledged. `Filtered` is defined by
counting, not by recursion as `SelectSeq` is, since the provers have no induction over data;
`FilteredPicks` proves that it is the filter: it takes entries in their order, all that it should
and no others. `QueueAlone` is for the steps that leave the queue alone, `EnqueueQueue` for what is
queued, `QueueShrinks` for what leaves it.

`DeliveryQueueProofs` proves `TypeOK` and `StrictDeliveryIsKept`, and in its second part
`SentOnceUnlessUnacked` and `RetriesAreBounded`, for any number of deliveries, payloads, starts,
crashes and file errors, from `ConstantsAssumption`: the bounds are natural numbers, each delivery
has a payload, and `MaxRetries` (5 in the code) is positive; with 0 the count written after the
first failure would pass it.

* The only step that takes an entry away for good is the first phase of the acknowledgement, and
  scans may take it for a delivery that another worker is sending. So `SoundAt` says of each worker
  on its own what it has sent: a worker that is sending has sent the payloads before the current
  one, one that acknowledges has sent them all or was aborted, except under bestEffort.
* The other two rest on `Exclusive`, one statement per entry (`EntrySound`). An entry whose live
  delivery has not begun is on no disk and with no worker (`Unborn`). One that no scan has read
  while another worker had it has a single holder (`OneHolder`), and then the holder's step tells
  what is known of the entry's count (`CountKnown`) and of its sends (`SendsKnown`): before a replay,
  and whenever nobody has the entry, nothing of it has been sent. `Elsewhere` and `HolderSteps`
  divide each step into the entry it concerns and the others; `CrashExclusive` is where `unacked`
  is needed: a crash lets go of an entry of which something had been sent and not marked. An attempt
  that ends in an error after a send does the same (`Unmarked`), also when the error is that of the
  transcript and all payloads have been sent.

`HeartbeatWakeProofs` proves `TypeOK`, `NoStrandedWake` and `EveryWakeAccounted` for any targets,
runners and requests. The invariant adds `BatchesSound`: a callback in flight has a wake in hand
and a priority for each wake it has yet to hand over, so that whatever it puts back on a throw or
a busy answer is a wake again; a callback that is over has none. Without it an answer could put
back nothing and lose what it held.

`CronServiceProofs` proves `TypeOK`, `OneRunAtATime`, `TimerIsSet`, `MarkerHasARun` and
`DueSlotsAreKept` for any numbers of jobs, services, edits, reloads, manual runs and errors, and for
any schedule, from `ConstantsAssumption`: the bounds are natural numbers, the period, the
concurrency and the end of time (the clock starts at 1) are positive. Its invariant `IInv` has three
parts.

* `Owners`, `ServicesInOrder` and `CurIsAlive` say whose the work is: a claimed run belongs to the
  catch-up or the tick that claimed it, a manual run to a service that is alive, and services follow
  one another. Until services overlap an old one is quiet (`OldOnesAreQuiet`), and requests
  reach the current one (`ServingIsCur`).
* `ClaimIsMarked` and `MarkIsClaimed` are the two directions between claims and markers: a claimed
  run is alone and its marker is set in the file and in the memory of the service, and a marker in
  either is of a claimed run. The first gives `OneRunAtATime`: whoever claims has seen no marker in
  the memory it then writes. It fails for a job whose marker was cleared under its run (`excused`).
  The second gives `MarkerHasARun`. Neither direction holds after an overlap, so they are stated
  for `overlaps = 0`, as the other side of what the properties excuse.
* `AllTimed`: an enabled job without a time is a one-shot that is done. So maintenance, which gives
  times to jobs that have none, never makes a store wait for something that had nothing to wait for
  before (`MaintainedArmed`), and a step that does not arm the timer keeps `TimerIsSet`.

`Types` is `TypeOK` with any number of failures of a job. The bound, and `DueSlotsAreKept`, need a
second invariant, `Ledger`, again of three parts.

* `Books` holds of every copy of the store, in the file and in the memory of any service: what a
  job counts as failed, and the runs of it that have failed and are not settled (`Unsettled`), are
  together no more than the runs that ever failed (`errors`). A result moves one from the second
  number to the first (`ResultIsGood`); a copy that another service wrote, or that a manual run
  merged, is covered because the bound is the same for all copies. With it `Types` gives `TypeOK`.
* `Dated`: no claimed run started ahead of the clock, so the last run of a job is never later than
  now. With the delays after errors (`Backoff`) and between missed jobs (`Stagger`) positive, the
  time a job waits for is then later than its last run, unless it is the time of the one-shot
  itself (`TimeIsNew`): what `recomputeNextRunsForMaintenance` takes for executed, has been.
* `Agree`: without overlaps the current service waits for the times that the file has. So a
  request, which works on the memory and writes it over the file, keeps a job that is due.

`DueSlotsAreKept` is proved step by step (`SlotKept`): each action keeps a job that is due and that
nobody has claimed, or claims it, or is one of the steps the property names. `TypeOK` and
`TimerIsSet` are proved without any excuse, through overlaps too: a request to a replaced service
touches the memory and the timer of that service alone. The theorem of the slots assumes
`PositiveDelays`. The code lets both delays be 0 (`cron.retry.backoffMs`, for one-shots, is any list
of non-negative numbers, `config/zod-schema.ts:502`; the stagger is only kept from being negative,
`cron/service/timer.ts:962`). Then a job can be due at the very time of its last run, and the
maintenance after a manual run of another job (`ops.ts`, `recomputeExpired`) takes it as executed
and moves it. The default delays are positive, and so are those of the run.

Every safety property of the passing runs is proved. What stays with TLC, for good, are the liveness
properties (`WaitingRunMoves`, `QueuedMessageLeaves`, `WaitingWakeIsHandedOver`, `CallsReturn`,
`RequestIsServed`, `EveryInvokeIsAnswered`, and the fairness in `ImplementsOutbox`): the prover does
not treat fairness and `ENABLED`. Of most of them the part that is no matter of fairness is proved,
that somebody is there to make the next step: `NoDeadlockOfLanes`, `NoIdleQueue`,
`NoWakeIsStranded`, `StopsAreAnswered`, `RequestsAreCarried` and `OutstandingHasConnection`. With
TLC stays also what a recursive function computes for all inputs, as there is no induction over
data.

## 5. The plan

Done, in this order: lanes and command queue with their proofs; runs and gateway loop; followup
queue; delivery queue, later with payloads; wake layer; cron service; channel manager; reply
dispatcher with its refinement and proofs; restart coordination; node registry. None of these modules has a
RECURSIVE operator. Left, in this order:

1. **Announce queue**: move the operators of `utils/queue-helpers.ts` out of `FollowupQueue` into
   a module both use, as `LaneOps` serves two modules now.
2. **Gateway lock**: two processes and their file operations; then `GatewayRuns` with it.
3. **Inbound debounce**: order across the flush of a timer and of a message that may not wait.
4. **Failing writes of the cron store**, which leave memory and file apart.

## 6. Not modelled

Input and output (RPC, HTTP and WebSocket servers, channel plugins, native apps, the web UI, the
command line), the content of prompts and answers, third-party and vendored code, and stateless
translation (the Aillium boundary). Delays and clock values: a timer can fire whenever it is set.
Most of the repository's lines are of these kinds, so that the models stand for a small part of its
text and for much of its state that is shared between callbacks. Two event loops: all models but the
file operations of `DeliveryQueue` are of one process. What each modelled component leaves out is in
its note in `PROJECT.json`.
