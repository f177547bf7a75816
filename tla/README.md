# A TLA+ development of Codex Auto Retry

Codex Auto Retry is a watchdog for the Codex desktop application. It tails the
session ("rollout") files that Codex writes, notices a turn that ended in a
provider failure, and asks Codex to continue the thread: it resumes the goal, or
starts a turn, through a shared local app-server or through the official desktop
IPC. Retries are bounded per outage and per stretch without visible progress, are
delayed by a configurable backoff, and survive restarts in `state.json`.

The program is the Go package `src/scripts/source` (about 18 000 lines with its
tests); PowerShell scripts deploy it. All paths below are relative to that
directory unless they start with `src/`.

## 1. Inventory

| component | state | operations | talks to |
|---|---|---|---|
| Retry chain of a thread (`retry_state.go`, `goal_recovery.go`, `transport_recovery.go`, `subagent_recovery.go`, `model.go`) | `ThreadState`: `Pending`, `Awaiting`, `Stopped`, `GoalStop`, the two counters, the chain's clock, goal hold, current turn | one handler per lifecycle event, goal update, panel command, dispatch result, deadline, probe | called by the daemon under `d.mu` |
| Retry policy (`runner.go`, `classifier.go`, `config.go`) | none | limits per failure class, delays, stop reasons, tables of controller failures, goal windows | pure functions |
| Daemon tick (`daemon.go`) | `state`, `cfg`, `controllerState`, `paused`, memory-guard latch, `active`, `activeCtx` | controller probe, config reload, scan, events, reopening, commands, start deadlines, memory guard, lifecycle probes, dispatch, persistence | scanner, chain, jobs, files |
| Dispatch jobs (`daemon.go`, `goal_recovery.go`, `runner.go`) | one goroutine per thread, with a context | check, request, apply the result | controller, `d.mu` |
| State file and restart (`state.go`, `jsonio.go`) | `state.json` with scan offsets and threads | load and repair, prune, atomic write | daemon, panel |
| Panel files (`control.go`, `management.go`) | `config.json`, `control.json`, `commands/` | pause, save settings, queue a command | daemon |
| Scanner and parser (`scanner.go`, `events.go`, `roots.go`) | byte offsets per file | tail files, parse records, tell subagents, mirrors and archives | daemon |
| Shared app-server controller (`shared_controller.go`, `app_server_rpc.go`, `thread_parent.go`, `resume_settings.go`) | a JSON-RPC connection | `Dispatch`, `BlockGoal`, `ThreadLifecycle`, preflight | Codex app-server |
| Official IPC (`codex_ipc*.go`, `desktop_transport_windows.go`) | a named pipe | discover the owner of a thread, hand over a turn | Codex desktop |
| Shared server, mode and recovery (`shared_server_windows.go`, `shared_mode_windows.go`, `shared_recovery_windows.go`) | server process, port, owned environment variable, launch request | start, attach, fail open, prepare a launch | config, Codex |
| Supervisor (`supervisor*.go`) | worker process, stop marker, failure count | restart with backoff | worker |
| Configuration lock (`config_lock*.go`) | file lock | read-modify-write | panel, worker, launcher |
| Migration and pruning (`state_migration.go`, `state.go`) | `state.json` of earlier versions | merge turn-keyed entries into threads, trim | load, save |
| Memory guard of the worker (`memory_guard.go`, `memory_*.go`) | sampling window | alert | tray |
| MCP server, panel UI (`mcp_server.go`, `codex_app_mcp_windows.go`, `ui/`) | none | tools, snapshot | panel files |
| Tray, startup approval, process and file helpers, logger | Windows handles | input and output | - |
| Installer, launcher, release scripts (`src/scripts/*.ps1`, `src/release`) | - | deploy | - |

How they interact. One goroutine runs the tick (every two seconds by default). It takes `d.mu`,
reads the rollout files, feeds each record to the chain of its thread, applies the
panel's commands, expires dispatches nobody acknowledged, releases the lock, probes
the running retries, and finally promotes due retries (`Pending` to `Awaiting`) and
starts a job goroutine for each. A job checks under the lock that it is still wanted,
works without the lock for up to thirty seconds, and takes the lock again to apply
its result to a thread that has possibly moved on. Meanwhile the user talks to
Codex, pauses the goal, aborts, uses the panel; Codex continues goals on its own;
and the process may die.

The shared app-server is maintained beside this by actors that share no lock: the
worker, a settings panel in another process, a migration goroutine and the launcher
of the desktop application. A supervisor keeps the worker alive.

What is hard here, and the property that each part needs:

* **Results out of date.** A job returns after the thread got a user turn, an abort,
  a restart, or a *newer dispatch of the same failure*. Needed: a result is applied
  only to the dispatch that produced it (`ResultMatchesDispatch`).
* **The gap between promotion and start.** The lock is free, no cancel function is
  registered. Needed: an abort or a goal hold stops the request all the same
  (`AbortStopsJobs`, `HeldGoalStopsJobs`).
* **Lost answers and deadlines.** An unacknowledged dispatch is queued again
  (`NoForgottenDispatch`), one whose turn runs is not (`TickKeepsRunningTurn`,
  `RunningTurnNotRequeued`).
* **One chain in one place**, with counters that agree wherever it is
  (`OneRetryPhase`, `CountersAgree`, `OnlyRunTurnsCount`, `ChainKeepsClock`).
* **Goal limit.** After repeated empty replies the chain stops and the goal is
  blocked through Codex; native continuations still arrive (`GoalLimitSticky`,
  `GoalStopBacked`).
* **Slots** shared by two kinds of jobs (`OneJobPerThread`, `WorkConserving`,
  `DispatchWithinLimits`).
* **Automatic reopening** of chains that stopped for want of a transport
  (`DisabledReopensUnsent`).
* **Crash and failed writes** (`NoFailureForgotten`).
* **A dozen RPCs per request** to an app-server that others use at the same time: a
  goal or a turn that changes between the look and the request (`RequestsFollowLook`),
  answers that are lost after the request was taken (`KeepsPromise`), a parent told
  twice (`ParentToldOnce`).
* **Files that grow, shrink, move and are copied** while cursors into them are saved in
  one file with the effects of what was read (`NoRecordSkipped`, `AppliedOnceInOrder`,
  `CopiesApplyNoOldHistory`).
* **A memory with limits.** Cursors, event keys and threads are forgotten at different
  ages and above different numbers, each without a look at the others (`HandledOnce`,
  `BaselineKept`, `RetryNotForgotten`, `OldestForgottenFirst`); the state of an older
  release is merged in the order of a Go map (`StrongestEntryKept`, `EventsStayHandled`).
* **A crash told from an intended stop** by two marker files (`SupervisionEndsByIntent`,
  `StopHonored`), and a worker that reads on after every crash (`RecordsApplied`).
* **A server, a port and an environment variable that may be someone else's**, and a
  switch that the user turns while a server starts (`EnabledOnlyIfRequested`,
  `UserRouteKept`, `SeenStrangersSpared`, `RouteInUseKept`), with repairs that must
  end (`DisabledBackendRemoved`, `EnabledBackendServes`).

The full list, line by line, is under "hazards" in `PROJECT.json`.

## 2. Modules

```
RetryPolicy            pure functions: limits, reasons, delays, goal windows
  RetryThread          ThreadState and the lifecycle-event handlers
    RetryControl       the handlers of the tick, of the panel and of the job results
    Codex              the environment: turns, rollout records, goals
      Daemon           the process: tick, jobs, lock, files, crash   (RetryControl + Codex)
        DaemonProperties   what it promises
          DaemonHistory    two history variables for what needs memory of the past

DispatchPromise        abstract: what the daemon relies on when it hands over a job
  Controller           one job, call by call, against a Codex that moves; implements it

Supervision            the supervisor, the worker process, the two marker files
Rollouts               the rollout files of a thread, the scanner, state.json
  WorkerLife           both together: the worker that dies takes its scan with it

Retention              what state.json remembers of many files over months
Migration              the repair of a state.json of an older release

SharedBackend          the shared server and everyone who touches it

MCAlgorithms, MCDaemon, MCHistory, MCBackend, MCWorkerLife      instances for TLC
DaemonProofs (DaemonProperties) -> ChainProofs
ControllerProofs (Controller), LifeProofs (WorkerLife), BackendProofs (SharedBackend)
Lemmas: induction, recursion and ranks over the naturals
  AlgorithmProofs (MCAlgorithms: RetryPolicy and Migration), RetentionProofs (Retention)
```

**RetryPolicy** translates the tables and arithmetic: `recoveryLimit`,
`consecutiveLimit`, `retryStopReasonForClass`, `retryDelay`, which controller
failures are permanent or make the shared mode fail open, and the two goal windows.
`retryDelay` is the closed form; `retryDelayLoop` is the loop of `runner.go`.
MCAlgorithms states that they are equal.

**RetryThread / RetryControl**. A handler of the code is an operator from the thread
before to the thread after, so a handler that calls another is a composition and no
intermediate state exists: the code runs each of them under `d.mu`. Names are the
code's (`queueFailure`, `handleTaskComplete`, `exhaustRetry`, `reloadLimits`,
`reopenRestartRequired`, `expireUnacknowledged`, `rescheduleAwaitingWithPolicy`,
`reconcileStartupState`, ...).

**Codex** is external. A thread has at most one running turn; turns are started by
the user, by Codex's own goal continuation ("native") or on request of the watchdog;
each writes `task_started` and at its end `task_complete` with a class, or
`turn_aborted`, or nothing at all when it is lost. Goal updates are records too.

**Daemon**. `phase` is the place of the tick goroutine:

| phase | code | actions that leave it |
|---|---|---|
| idle | between ticks | `TickBegin` (with a controller probe), `TickScan` |
| latched, controller | `refreshController` without lock | `LatchedFailure`, `ControllerProbe` |
| scan | the lock is taken | `TickScan`: reload configuration and limits, read the files |
| events | `handleEventLocked` per record | `HandleEvent`, `Reopen` |
| controls | pause switch and command files | `ControlCommand`, `EndControls` (with the start deadlines) |
| checks | the lock is free; memory guard | `MemoryLimitExceeded`, `CollectProbes` |
| lifecycle | `ThreadLifecycle` RPCs | `ProbeLifecycle`, `Dispatch` (with the save and the start of the jobs) |

A job is a record in `jobs`: launched (the goroutine exists, nothing checked yet),
then running, then its request may leave (`sent`), then its result is applied and it
is gone. `StartJob`, `SendRequest`, and one action per kind of result. `cancelled` is
the state of its context; a cancelled job may still have sent its request before.
`active` is the map `d.active`.

*Grain of atomicity.* One action is what happens between two places where another
goroutine can observe a difference. The locked part of the tick is several actions,
but while `LockHeld` nobody else moves: files are read already, and what the user
writes meanwhile could as well have been written before. The phase "checks" is left
by the tick alone, and Codex moves within a tick only while a job or a probe could
see it. These reductions are stated in the header of `Daemon.tla`. `Daemon` takes the
controller's work as one step, `SendRequest`, and its answer as another; the calls in
between are the subject of `Controller`.

*Simplifications.* A failure's event key is the id of the failed turn, because a turn
has one completion record. Subagent threads have no goal. The goal of a thread
changes at most once per unit of time, as its revisions are told apart by their time
stamps. `state.json` is followed only in runs where something reads it (a crash or
the panel).

Time is a natural number; zero is the code's zero `time.Time`. Durations are
constants; the runs choose values of 0 to 3 units that keep their order (a job's
timeout is not shorter than the start deadline, the circuit breaker is longer than
both).

*Features.* The constant `Features` switches optional behaviours of the environment
on: `user` (turns of the user's own), `native`, `progress`, `input`, `abort`, `lost`
(turns that end without a record), `notice` (subagent parents), `probe`, `official`,
`failopen` (the cleanup of the shared mode may fail), `flaky` (a wrong lifecycle
answer), `memory`, `pause`, `crash`, `diskfull`, `slow` (ticks longer than a unit of
time). Each run turns on those its question needs; together they turn on all. The
theorems hold for every choice. `SharedBackend` (`Features`), `Rollouts` (`Habits`) and
`Supervision` (`Accidents`) have the same kind of switch.

**DispatchPromise and Controller.** `DispatchPromise` is the contract that `runJob` and
`runGoalBlockJob` rely on: a job takes effect at most once, "dispatched" means that it
did, "user_active" and "not_applicable" mean that it did not, "retry_later" leaves it
open, and an answer reports a parent notice only if the parent has it. `Controller`
has one action per call of `Dispatch` and `BlockGoal`: transport check, `Ensure`,
`thread/loaded/list`, `thread/resume`, `thread/read`, the two reads of the goal, the
notice to the parent, `thread/goal/set`, the empty input and the prompt. `job.pc` is the call that
comes next. Between any two of them `TurnStarts`, `TurnEnds`, `ThreadUnloaded`,
`GoalMoves` and `TransportMoves` may happen, and every call may be refused or be
carried out and its answer lost. `late` records what changed after the job's last look
at it: that window the code cannot close. The daemon hands a failed job over again
(`HandOver`). The refinement mapping is the identity on effects and answers;
`open` is "a job is not idle" and `told` "the parent has taken a notice".

**Rollouts.** Records are numbered in the order in which they are written, which is
also their time stamp. A record takes two units of space, so a line that is begun and
not ended has an odd position: a cursor placed at the size of a file may lie within a
line, and what is left of that line does not parse. `ScanPath` visits one file of the
walk (`scanSessions`, `readAppendedEvents`, `migrateFileCursor`), Codex may write,
archive or copy between two files, and `TickEnds` applies the batch in the order of
its time stamps and saves cursors and effects in one write, which may fail.

`TurnFiles` are further
files of the thread in its first home, named `<thread>_<turn>.jsonl`; the set is empty in
`life` and matter in `MCTurnFiles.cfg`.

**Retention** looks at the same scanner from a distance: the unit of time is a day, a
tick is one step (`Tick`: scan, handlers, `prune`, save), and there are many files, each
of a thread of its own and numbered in the order of the names, which breaks ties of
time. A thread is idle, live (`Pending` or `Awaiting`) or stopped; the lines that
matter are a failure, a success of the chain's turn, and a goal update. `handled` counts how
often each line reached its handler. Homes may be out of reach for any time (`Hide`,
`Show`). A file out of reach for longer than the age of a cursor is `estranged`: it is
read again when it comes back, which the code accepts. `trimInactiveThreads` keeps
its early return: if live and shown threads fill the limit alone, nothing is removed and the
map stays above the limit. `LastAbortedAt`, the time of a goal block and the goal limit
are left out: they are further times of the same maximum.

**Migration** takes one entry after another, and then one event after another, in any
order. An entry is what `migratedThreadStateRank` reads of it and whether a path
tells its thread. A loser of the merge is dropped whole, its goal hold too; the
controller's own look at the goal is what guards the request then. An entry without a
path stays under the id of its turn, as in the code.

**Supervision.** `supervisor` is the place of `runSupervisor`: start, wait for the exit,
look at the marker, at `status.json`, at the marker again, back off. `worker` is the
place of the worker's `main` and `daemon.run`. A stop order of `startup-manager.ps1` is
two steps, as it writes two files.

**WorkerLife** joins the two: the worker scans only while it runs; a crash forgets what
the scan has not saved (`ForgetMemory`), and the next worker continues from
`state.json`.

**SharedBackend.** The code is a set of nested calls that several actors run at the same
time (worker, enabling panel, disabling panel, migration goroutine). Each actor has a
frame `op[a]`: the label it is at, the labels it returns to, the answer of the last call
and what it has seen (`seen`) when it acts later. A step ends where the code waits for
something slow (a PowerShell query, a process that starts, a handshake) or writes a file
that another actor reads. Correspondence of the labels:

| labels | code |
|---|---|
| ensure, linger, restarted, start, record, undo, await, unstarted, ensured | `Ensure` and `start` of `shared_server_windows.go` |
| cleanup, stop, verify, kill, forget | `CleanupIfUnused`, `StopOwned` |
| failOpen, disable, withdraw, failedOpen | `failOpenSharedAppServer` |
| prepare, prepared, prepareDone, reopen, unmark | enabling in `management.go` and `prepareSharedBackend` |
| down, marked, gate, unprepared, started, readiness, readied, tick, recovered, probe, probed, reload, memory, tripped, reconcile | the worker: `main.go`, `daemon.go`, `shared_recovery_windows.go` |
| migrate, verifyOld, replace | `waitForDesktopExitAndMigrate`, `migrateLegacyLaunch` |

Around them are the launcher (`launch-codex.ps1`), the desktop application, servers that
start, hang and die, pids that are reused and ports that are taken by others. Hash
comparisons and handshakes are taken as verdicts: an actor learns whether a live
process is the recorded one, or the query fails.

Ending a process is `Terminate`, a `taskkill` by the bare pid. It is a step of its own wherever
the code calls `terminateProcessTree`: after the ownership query of `StopOwned`
(`StopVerify`, then `StopKill`) and of the migration (`MigrateVerify`, then
`MigrateReplace`), and without any query when the record of a new server cannot be written
(`EnsureUndo`). It may fail, and then whatever runs under the pid goes on. Between the two steps
a server may die and another program take its pid (`PidReused`). A foreign process
carries a history, `missedBy`: the actors that had made sure of the pid when the process took it.
`PidReused` is limited to pids that the record or an actor's frame names, as no step looks at
any other. `DesktopOpens` is limited to a user's environment that still holds
an old route of the plugin; any other direct start of Codex is the same step as a launcher that verified
the official route some time ago. `RestoreRoute` reads, compares and writes the user's
environment in one step; the code does so within one short function.

Definitions marked *Wrong on purpose* are plausible mistakes in the code next to the
definition they would replace; `PROJECT.json` ("mutants") says which property finds
each. The specification never uses them.

## 3. Runs

| run | instance | shows |
|---|---|---|
| `algorithms` | three strategies, delays up to 7, six retries; a task with an entry of its own and of two turns, in every state, one event under each id | the loop of the delay computes the closed form; the strongest entry wins in every order of the map; handled events stay handled |
| `turns` | one thread, two turns, four units of time, success, failure, abort, lost end, parent notices, slow ticks, job errors before and after the request | types, one phase, deadlines are met, cancellation reaches every job, results match their dispatch, only turns that ran count, the chain's clock and the parent's notice survive, a tick keeps a running retry |
| `goals` | repeated empty replies with an active or paused goal, native continuation, user input, a goal block that fails early or late | the goal limit stops the chain for good, a goal block belongs to a live stop, a hold stops the jobs |
| `parallel` | two threads, one slot, the pause switch, a crash at any moment | no slot leaks, no due retry waits beside a free slot, longest due first, counters agree through a restart |
| `transport` | probes with two answers, fail-open that may fail, memory guard, official IPC, wrong lifecycle answers, a restart by the user, limits that are lowered | a chain stopped because shared mode is off is reopened only if nothing was sent; no dispatch beyond the limits in force at that moment |
| `crash` | a crash at any step, failed writes, a retry cancelled or restarted from the panel, a dispatch that is skipped | no failure is forgotten, in memory or through a restart, unless it was dismissed |
| `controller` | a recovery or a goal stop of every kind (task or subagent, empty reply or not, goal in each state, idle thread loaded or not), two moves of the outside, one failure, two dispatches | the controller implements `DispatchPromise`; requests follow the last look; the parent is told once |
| `worker` | one port, two pids, one click (switch off, launch request, a route set by hand), one fault (crash, hang, death, failed query, write or kill, reused pid, foreign listener), the memory guard, a route of an older release | a disabled backend is removed with its route, and an enabled one serves, in the end |
| `panels` | two ports, two pids, an enabling and a disabling panel beside worker and migration, an older release's route and server, two faults (dead server, reused pid, failed write) | shared mode is on only for users who asked; the user's route is kept; no foreign process is ended that was there when an actor made sure of the pid |
| `life` | three paths in two homes, two records, one accident (crash, failed start, reboot, failed save), one order (start, stop, leave), one copy or one rewrite | no record skipped or applied twice, supervision ends by intent, a stop is honoured, what is written is applied |
| `retention` | two files, one that may be out of reach, four days, three lines, two cursors, room for one event key and one thread | no line is handled twice; a live retry or a shown stop is not forgotten; who is forgotten was oldest |
| `late` | expected violation, below |

*Bounds of the daemon runs.* One retry slot. Time bounds are 4 to 7 units: enough for a
failure, a wait, a dispatch, a start deadline and a second dispatch. Turn bounds are 1
to 3: enough for the failed turn, its retry and one turn of the user's own or a second
retry. Requests are bounded by one per thread: a second request for the same failure is
the same element of `requests`. Smaller bounds would lose cases (a second dispatch needs
the fourth unit, a reopening the fifth); larger ones repeat the same cases with higher
counters, as the handlers compare counters only with each other and with the limits.

*Bounds of the others.* One fault is enough for every pair of a fault and a place where
it strikes; two dispatches are enough for a lost answer and its retry; two moves put one
move between each look and the next, and one after the last look. Two records are enough
for one that is applied and one that follows it, or is half written, when a file moves or
the worker dies. One order meets one accident at every step of supervisor and worker.
In `retention` an event key is forgotten on the next day, a cursor and a thread after
two, so that each limit is reached with the others at rest; two threads compete for one place, and
two files share two cursors, the most for which the promise holds (`MCRetentionTrim.cfg` has one cursor
less). In `panels`, two ports let `Ensure` move away from a listener it cannot call its own (the
server of another actor that is not recorded yet, or never was), and two faults
are a server that dies and its pid that is used again, or a pid in other hands and a write that
fails. In `worker` another program may take the only port: the worker then fails open, the premise of
`EnabledBackendServes` is false, and `DisabledBackendRemoved` says what is owed.

No deadlock check in `algorithms`, `controller`, `worker`, `panels`, `life` and
`retention`: the chain of retries, the job, the user's clicks and the accidents end at their bounds, where
the modelled program has nothing left to do. The clock of the daemon runs
ends too, but the user may save the settings again (`EditConfig`), so the deadlock
check says little there; that the tick makes progress is stated per tick, as safety, in
`WorkConserving` and `NoForgottenDispatch`.

### Fairness

The daemon and controller runs assume none. `worker` and `life` state liveness:

* `SharedBackend!FairSpec`: weak fairness of the calls and steps of the worker, the panels and
  the migration (their loops have timeouts on every wait), of a started server that
  answers, and of the worker's start, which its supervisor owes. Strong fairness of
  two steps that are enabled again and again only: the readiness probe, which is
  throttled to one in ten seconds, and `Ensure` of the worker, which waits for the mutex
  that the migration releases every two seconds. Nothing is assumed of the user, of
  the desktop application, or of faults. The two promises are of the form "if the
  switch stays and the desktop application stays closed, then in the end": the code defers every cleanup while
  Desktop runs. `DisabledBackendRemoved` has one exception, the record whose pid another program has
  taken (below).
* `WorkerLife!FairSpec`: processes go on, the backoff timer fires, and the script that
  wrote the first file of a stop writes the second. Codex owes nothing: what must
  be applied in the end are completed lines.

### Disagreements with the documents

With a run:

* **late**: `src/docs/architecture.md:136-138` says that only the completion of the
  retry turn schedules the next retry. `runJob` compares the event key and the attempt
  but not `RetryTurnID`, so a timeout that arrives after the start was acknowledged
  queues the retry again while its turn runs.

With a configuration of its own that shows the counterexample in a few seconds, outside the
list of runs:

* `MCBackendCut.cfg` (MCBackend, `RouteInUseKept`): `shared_mode_windows.go:430` says that a live server is not terminated while
  Desktop may still be using it. `StopOwned` looks at Desktop, then asks PowerShell for
  the ownership of the process, then ends it; the launcher may start Desktop on
  that server in between.
* `MCBackendReuse.cfg` (MCBackend, `StrangersSpared`): `shared_mode_windows.go:434` says that a live pid must prove
  ownership before it can be terminated. `ownsProcess` is a query of up to eight seconds, and
  `taskkill` gets the bare pid afterwards; a server that dies in between may leave its pid to
  another program, which is ended. The migration has the same window
  (`shared_server_windows.go:426-430`), and so has `start`, which released the handle
  before it ends a server whose record cannot be written (`:587-601`). What the code does keep, and
  `SeenStrangersSpared` says, is that a foreign process which has the pid when the
  actor makes sure of it is left alone.
* `MCRetentionTrim.cfg` (Retention, `BaselineKept`): `src/docs/architecture.md:427` says that the first installation baselines
  existing files at their end. With more files than `maxFileCursorEntries` (2000), the
  prune of that tick drops cursors it has just set; the next tick reads such a file from
  its start, and an old failure queues a retry.
* `MCTurnFiles.cfg` (MCWorkerLife, `NoRecordSkipped`): `scanner.go:112-114` says that the cursor follows a file which keeps its
  name when it is archived. `migrateFileCursor` compares thread and home only, so a second file of
  the thread (`scanner.go:15-17`) takes the cursor of the first. What lies before it
  is not read.

Met while modelling, in the model, without a run of their own:

* `src/README.md:100` says that the setting bounds all automatic attempts of an outage.
  An answer lost after the request left is treated as a request that never left
  (`daemon.go:930`), so one attempt number can start two turns.
* `transport_recovery.go:11-12` says that only a pre-dispatch stop may rejoin a chain.
  The test for this is made for one of the two reasons only; after
  `codex_restart_required` a chain is reopened although an earlier request waits.
* `daemon.go:144-146` says that failures written while the worker was down survive a
  restart. If the home of a copy is walked first, the original counts as the mirrored
  file and such a record is dropped.
* `src/docs/architecture.md:244` says that the goal is checked before hydration; both
  reads come after `thread/resume`, and `thread/resume` may let an active goal go on.
* `src/docs/architecture.md:112-118` says that a parent's turn is not started; over
  official IPC the notice to the parent is a turn request, and neither status nor goal is
  read there.
* `runJob` (`daemon.go:917`) takes a result for that of the dispatch that waits if event key and attempt
  agree. If a probe fails while a job is under way, and the panel then restarts the retry with attempt 1 and the same
  key, the result of the old job is applied to the new chain. `ResultMatchesDispatch`
  therefore speaks of the chain in which the job was launched.
* `handleTurnAborted` returns before it cancels the job while the goal limit has stopped the
  chain (and keeps it so if the stop is lifted later). `AbortStopsJobs` names these cases.
* `src/docs/shared-backend-safety.md:189-192` says that dead owned state is removed immediately and
  that a disabled backend is eventually removed. If another program has taken the pid of
  the dead server, `StopOwned` finds a live process that it cannot prove to be the plugin's, answers that
  the ownership is unknown (`shared_mode_windows.go:443`), and leaves the record for as long as
  that program runs. `DisabledBackendRemoved` excepts this case (`RecordUsurped`) and no other.
* `daemon.go:99`: a stop order given while a worker starts loses its `stop.signal`. No
  document promises otherwise; `StopHonored` is about orders that found the worker
  running.

## 4. Proofs

TLAPS checks the theorems below for any set of threads, any settings, any durations
and any bounds. The runs check the same properties on small instances.

| module | theorems | of |
|---|---|---|
| `DaemonProofs` | `ClassLimits`, `StopReasonNamesLimit`, `DelayBounded`, `EventSound`, `RestartKeepsSound` | the handlers |
| `DaemonProofs` | `TypesHold`, `OneRetryPhaseHolds`, `CountersAgreeHolds`, `GoalStopBackedHolds` | the retry chains, in memory and on disk |
| `DaemonProofs` | `OneJobPerThreadHolds`, `DispatchWithinLimitsHolds`, `WorkConservingHolds` | the dispatch of the tick |
| `DaemonProofs` | `OnlyRunTurnsCountHolds`, `ChainKeepsClockHolds`, `ParentStaysNotifiedHolds`, `GoalLimitStickyHolds` | what every step keeps of a chain, a restart included |
| `DaemonProofs` | `NothingHeldHolds`, `JobsOwnHolds`, `NoForgottenDispatchHolds` | a chain and its job |
| `ChainProofs` | `ResultMatchesDispatchHolds`, `AbortStopsJobsHolds`, `HeldGoalStopsJobsHolds` | a late job against the history of its thread |
| `ChainProofs` | `TickKeepsRunningTurnHolds`, `RisingHolds`, `NoFailureForgottenHolds` | a thread against its turns: those that run, and the one that failed last |
| `ControllerProofs` | `TypesHold`, `ParentToldOnceHolds`, `RequestsFollowLookHolds`, `PromiseKept` | a job against a Codex that moves |
| `LifeProofs` | `SupervisionEndsByIntentHolds` | supervisor and worker |
| `LifeProofs` | `NoRecordSkippedHolds`, `AppliedOnceInOrderHolds`, `CopiesApplyNoOldHistoryHolds` | the scan of rollout files through moves, copies and crashes |
| `RetentionProofs` | `HandledOnceHolds`, `BaselineKeptHolds`, `RetryNotForgottenHolds`, `OldestForgottenFirstHolds` | cursors and threads over months of pruning |
| `AlgorithmProofs` | `DelayMatchesLoopHolds`, `StrongestEntryKeptHolds`, `EventsStayHandledHolds` | the delay and the migration |
| `BackendProofs` | `EnabledOnlyIfRequestedHolds`, `UserRouteKeptHolds`, `SeenStrangersSparedHolds` | the shared server |

The theorems about a specification have the same outline: an inductive invariant, one
lemma per action or group of actions that shows what the action keeps, and the temporal
step.

**The retry chains.** `Inv` in `DaemonProofs` says that all variables have their types, that
every thread in memory **and in `state.json`** is `Sound`, and that time zero is
never the time of a tick or of an event. `Sound` is one phase, counters that agree and
are at least one, a started clock, and a goal block that belongs to a goal-limit
stop. The parts are needed together: the
counters of a retry that is queued again agree only because they agreed while it was
dispatched, a goal block is known to belong to the stop only together with one phase,
and a crash restores the threads from `disk`, so what was saved must be sound as well.
Types alone are not inductive either: the handlers read the fields of `Pending`,
`Awaiting` or `Stopped` where the code dereferences the pointer, and the types of the
results follow only when it is known which of them is set. One lemma per handler shows that
every lifecycle event takes a sound thread to a sound thread (`EventSound`), and the same
of commands, deadlines, probes, reopenings, job results and start-up repair.

**Dispatch.** `OneJobPerThread` is inductive once `active` is known to be exactly the
threads of the jobs (`Slots`). The other two need to know what the tick has already
gone through when it dispatches (`Fresh`). In the phases "events" and "controls" every queued retry is
within the limits: `reloadLimits` has just removed the others, and an event or a command queues
none beyond them. From "checks" on the lock is free, and a job that fails may queue a
retry beyond the limits in force: then only a retry *due at the tick* is within them.
What a job queues meanwhile is due after the tick, as every delay is at least one (the
lower bound of `DelayBounded`; with a delay of zero the argument would fail, and
`normalizeConfig` does not let it be). `retryBefore` orders the due retries, and the slots are
counted with the theorems on finite sets.

**What a step keeps of a chain.** Two relations between a thread before and after are proved
of each handler, and then of each action, a restart from `state.json` included. `Continues`: a
retry that is live before and after keeps the start of its chain, keeps that its parent was told, and its
attempt grows by one at most and only if a turn was acknowledged. `KeepsStop`: a
goal-limit stop goes only by a goal update or by the panel. The four action properties read them
off. They are relations between two sound threads: `exhaustRetry` or `queueFailure` on
a thread with two phases would break both.

**A chain and its job.** From the check of the deadlines to the next tick's, a dispatch that
no job works on has its deadline ahead of the tick (`OnTime`; `NoForgottenDispatch` is its case between ticks).
The deadlines are easy: `expireUnacknowledged` looks at every thread outside `active`. What
has to be excluded is that a thread leaves `active` with its dispatch still waiting and past its
deadline, which happens if a job removes itself without a result (`StaleResult`, or on
start). So two more invariants are needed. `JobsOwn`: a dispatch that waits while
its thread has a job was made by this job, with the same key, attempt and restart flag,
so that `jobMatches` holds. `NothingHeld`: a goal hold and a retry that it does not allow are never there together, in
memory or in `state.json`, so that a job which finds a hold on start has no dispatch to leave
behind.

**A late job.** A job may stay under way while turns end, limits stop the chain and new failures
start another. `runJob` then compares a failure key and an attempt, so the argument is about
what can still come up again. `HistoryInv` says of a thread in memory with the records of the running
tick, and of the thread in `state.json` with those not saved as scanned, that the
records to come are in the order of their times, that a turn completes once in them
(`Ordered`), and that the failure keys and the abort the thread remembers lie before all of
them (`Past`, `NotBefore`). `KeysPast` says the same of the key of a job. So a failure that is
new to the thread never has the key of a job that is under way (`JobRight` follows this through each handler).
`Behind` is what the thread and a job have in common: if the thread's retry has the job's key, its
attempt is at least the job's, and at the same attempt its dispatch is no later than the launch, unless
the chain is younger than the job. From `Behind` follows `ResultMatchesDispatch`. `Minds` is the same
for an abort: it is no later than the launch, or the job is cancelled, or one of the cases
is there that `AbortStopsJobs` names, or the job has not started yet and will find that its chain is gone (`Clean`). `Timely` puts the launches before the tick
that handles events; with `"slow"` they may share its time. A crash forgets the jobs and puts the saved
half of `HistoryInv` in the place of the other. `JobHistory` is the conjunction, and it is
inductive together with `Inv`.

**A goal hold.** A job is launched for a conversation, the user's last own turn
(`OriginTurnStartedAt`), and a hold may leave that conversation alone. `Unheld` is what a job
that is under way and its thread have in common. `Traces`: the retry of the thread has the job's
conversation or none, and was restarted after a goal limit only if the job was, unless the chain is younger than the
job. `Heeds`: a job that may still send has a conversation that the hold leaves alone, with the
same exception. All handlers but that of a goal update keep both by `Follows`: they lift a
hold or leave it as it is, and the retry keeps its conversation or begins a new chain. A goal update cancels the
job that runs or finds that its conversation is not held (`GoalUpdatedUnheld`), and a job that starts is
checked by `runJob` (`Admitted`). What has to be excluded is that the failure of another turn continues the chain with another
conversation. That turn would be the user's last own one, and `OuterInv` says that this one has
completed already, unless nothing is left of a chain; this rests on the order of the turns (`RisingInv`).

**A running turn.** `probeIdle`, `expireUnacknowledged`, the reopening and the commands are the
places where a tick puts a retry back into the queue. All of them but the first leave a dispatch alone that
was acknowledged, and the first needs an answer that says "idle": `TickKeepsRunningTurn` follows
from the truth of the probes (no `"flaky"`) and from turn ids that start at one (`TurnIds`), as zero stands for no turn. An *event* of
the tick may queue a retry; that is shown apart (`EventQueuesNothing`).

**The failure that ended the last turn.** `DaemonHistory` remembers the record that ended the last turn
of a thread (`lastEnd`) and whether its failure was let go (`letGo`): by a goal that holds it,
by the user who cancels, or by a controller that finds that it does not apply. `NoFailureForgotten` says that a failure is let go or
accounted for. The argument needs to know that the handler of the record does queue the
retry. `handleTaskComplete` ignores the completion of a turn that it knows as aborted, so the
order of the turns comes first. `Shape` says what a step adds to a rollout file (the start or
the end of a turn, or a record beside it), and `RisingInv` that when the end of a turn is still
to be read, no later turn has been heard of and no later end has been taken, in memory and,
for a restart, in `state.json` with the records not saved as scanned. One lemma per record (`Hears`)
says what its handler remembers of the turns and that a failure which is not aborted leaves a retry, a
visible stop or a goal hold; one lemma per other step (`Leaves`) that it drops no retry but those that were dismissed, and adds none to a thread
without one. `Ended` is then inductive: only records that belong to no turn come after that of
the failure (`LastIs`), what memory accounts for is accounted for in `state.json` with the
unsaved records as well, so a crash at any point and a failed write lose nothing.

**The controller.** `Inv` of `ControllerProofs` says, label by label, in which case of
the job the label is reached (`Branch`) and what its last look has seen (`LookedAt`,
`FirstLook`); that nothing was done for this job while it is under way
(`Unacted`); and that the notices the parent took are covered by those whose answer was
lost and the one the daemon knows of (`Counted`, `Truthful`). From the former follow
`RequestsFollowLook` and the refinement of `DispatchPromise`, which is shown step by
step (`PromiseStep`); from the latter `ParentToldOnce`.

**Supervisor.** Whatever can end the supervision, a marker, a stop signal, a worker that
leaves, was put there by someone who meant it (`MarkerIntended`, `LeavingIntended`); a crash leaves
none of them behind.

**Scan.** `ScanInv` speaks of one file with one cursor: as long as no other home has a copy of it,
the file may be renamed, and its cursor goes with it. The cursor divides the records into those that are
newer than everything taken so far (`Ahead`: nothing is read twice) and those that were taken or belong to the
baseline (`Covered`: nothing is skipped; a file that was rewritten shorter may lose records, and
both the property and the invariant except it). This holds of the cursor in memory together
with the batch of the running scan, and of the cursor in `state.json` with the effects
saved beside it. A crash may therefore put the one in the place of the other. Both theorems assume `TurnFiles = {}`, one
file per thread and home; `MCTurnFiles.cfg` shows that with a second one
`NoRecordSkipped` is false.

`CopiesApplyNoOldHistory` is about what that invariant excepts, a copy under another home, and has
one of its own (`CopyInv`, `MirrorsMarked`), without that assumption. A copy is one file that Codex leaves as it is, and its cursor stands at its
end in memory and in `state.json`; so only a scan that has no cursor for it reads it, and
marks what it reads as mirrored. The exception is a worker without any cursor, which has applied nothing
that could be repeated. As a copy repeats record numbers, the order of a batch needs a tie-breaker (`SortedFacts`).

**Retention.** A line that was handled, or was there at the baseline, lies before the cursor of
its file, unless the file is estranged; and a cursor is as young as the last look at its
file (`scannedAt`). So it goes only with a file that has become estranged, provided that
the number alone never removes one: `YoungestOfFew` shows that of no more than `limit`
keys all are kept. `HandledOnce`, `BaselineKept` and `RetryNotForgotten` assume that there are no more files than cursors;
`MCRetentionTrim.cfg` shows that without it the second is false. `RetryNotForgotten` needs
that the lines of a tick turn a live or shown thread idle by a success only (`afterLines`,
by induction over the lines), and that prune and `trimInactiveThreads` take idle threads
alone. `OldestForgottenFirst` has no such hypothesis: the threads kept are the youngest
by rank, and the ranks of a finite set are its first numbers (`RankCount`), so a thread that falls out leaves a
full map of threads at least as young.

**The delay and the migration.** `Lemmas` proves induction and recursion over the naturals for *sets*
(a set that holds zero and every successor holds all naturals, by its least element that
is missing), which needs no operator parameter. The loop of `retryDelay` is a recursive
function there, and its value after `n` rounds is the grown delay or the maximum (`LoopFacts`): once the maximum is
reached the loop leaves early and the closed form stays at it. For the migration, `MergedOK`
says that the entry a task has so far is exceeded by none of the entries already merged, and `EventsOK` that each event is where it was or
where it belongs, with a time no earlier than before; both hold in any order of Go's maps.

**The shared server.** The switch is on only if it was requested, and no endpoint in a
configuration, a backup or the frame of an actor is the user's own route, so that what an actor withdraws
or restores later is never his (`Endpoints`). An actor that acts on what it saw some steps ago carries
it in its frame, so the frames are part of the invariant. `Watched` is the part about pids: an actor
that is about to end a pid (`Ending`) made sure of it before the foreign process that has the pid now,
if one has, took it. `Verified` shows it of the queries, `WatchedKept` of the steps that end nothing,
and `PidReused` writes the actors that are `Ending` the pid into the history of the
new process. `Single` (a frame and the record name one server each) makes the verified pid the one that is
ended.

*Assumptions.* `GoalWindowAssumption`, `ThreadConstantsAssumption`, `NilAssumption`,
`NilTurnAssumption`, `CodexAssumption`, `DaemonAssumption`, `ControllerAssumption`, `RolloutsAssumption`,
`SupervisionAssumption`, `RetentionAssumption`, `PortsNamed`: durations and bounds are naturals, there are
finitely many threads, `Nil` is none of the records, no port is called "user", settings and
reasons come from the sets the code defines. TLC evaluates them in the runs.

`DisplayWindow` is not longer than `ThreadAge` (`stoppedDisplayWindow` against the thirty
days of `prune`).

*Only model-checked*, and why:

* `DisabledReopensUnsent`: the marker compares two time stamps (`LastAutoRetryAt <= FailedAt`), so it tells
  a retry that was sent from one that was not only if none is sent at the very instant of the failure, or
  with the start time of a tick that began before it. In units of the model's clock a `retry_now` can do
  that, and TLC then finds the statement false; in the code the stamps are finer. The run leaves
  `retry_now` out, and its delays are not zero;
* `RunningTurnNotRequeued` is the violation of `late`;
* liveness (`StopHonored`, `RecordsApplied`, `DisabledBackendRemoved`,
  `EnabledBackendServes`): fairness and ENABLED are out of the prover's reach.

Inductions are over naturals and finite sets only, as in `Lemmas`; no module that
is proved about declares a RECURSIVE operator.

## 5. Not modelled

* **Memory guard of the worker**: a sampling loop that touches no retry. The guard of the
  shared backend is modelled where it acts (`MemoryLimitExceeded`, `TickMemory`).
* **Classifier**: precedence of text patterns. The models start from the class.
* **Resume settings, event parser's JSON shapes, RPC framing, MCP server, panel UI**: parsing
  and formatting. A failure to read them is a failed call or an ignored record.
* **Official IPC's pipe**: discovery and framing. Its notice, its turn request and their
  lost answers are in `Controller`.
* **Configuration lock**: taken to exclude. Each locked read-modify-write of `config.json`
  is one step of the actor that makes it.
* **Tray, startup approval, process and file helpers, logger, installer, release scripts**:
  Windows primitives around the worker.

Limits of what is modelled:

* `Rollouts` follows one thread, with one file per Codex home except in `MCTurnFiles.cfg`.
  Renames in the middle of the very first walk are left out: a file that moves
  from a directory not yet visited to one already visited has no cursor when
  the baseline ends.
* `Controller` does not track whether the parent's thread is loaded before it is told; loading
  it is part of the notice's step and of its failure.
* `Daemon` and `Controller` are joined by the contract `DispatchPromise`, not by a
  composed run: together they exceed what TLC can enumerate.
* `SharedBackend` and `Daemon` share the fail-open of the shared mode by its result only.
