------------------------------- MODULE Daemon -------------------------------
(***************************************************************************)
(* The watchdog process and what it shares with its environment: the       *)
(* polling tick, the dispatch jobs it starts, the mutex between them, the  *)
(* state file, the control files that the panel writes, and a crash and    *)
(* restart of the process at any point.                                    *)
(*                                                                         *)
(* The tick runs in one goroutine and the jobs in others; d.mu is held in  *)
(* the phases of LockHeld and inside every other action of the tick and of *)
(* the jobs.  Interleavings that only reorder independent steps are left   *)
(* out: while the lock is held only the tick moves (it has read the        *)
(* rollout files already, and a command or a pause that is written later   *)
(* could as well have been written before the lock was taken); the phase   *)
(* "checks", where the lock is free for a moment, is left by the tick      *)
(* alone; and Codex moves during a tick only when a job or a lifecycle     *)
(* probe could see it.                                                     *)
(***************************************************************************)
EXTENDS RetryControl, Codex

CONSTANTS
    Configs,          \* the settings that a user may save
    Commands,         \* the panel commands a user may issue
    MaxCommands,      \* bound of the command files waiting at once
    JobTimeout,       \* the runner's timeout of a job (30 s)
    ProbeInterval,    \* awaitingLifecycleProbeInterval (5 s)
    ProbeStates,      \* what the controller probe may report
    ErrorReasons,     \* how a dispatch or a lifecycle probe may fail
    LateReasons,      \* how a dispatch may fail after its request left
    SkipReasons       \* why a dispatch may be not applicable

ASSUME DaemonAssumption ==
    /\ Configs # {} /\ Configs \subseteq Config
    /\ Commands \subseteq {"retry_now", "cancel_retry", "restart_retry"}
    /\ MaxCommands \in Nat /\ JobTimeout \in Nat /\ ProbeInterval \in Nat
    /\ ProbeStates \subseteq ControllerStates
    /\ ErrorReasons \subseteq ControllerReasons /\ LateReasons \subseteq ControllerReasons
    /\ SkipReasons \subseteq SkipReasonCodes

VARIABLES
    threads,         \* state.Threads
    config,          \* the configuration in memory
    controllerState, \* the last known state of the recovery transport
    paused,          \* the pause switch in memory
    memGuard,        \* sharedAppServerMemoryGuardTriggered
    active,          \* the threads with a job (keys of d.active)
    jobs,            \* the job goroutines
    phase,           \* where the tick goroutine is
    tickNow,         \* the time the current tick was started with
    ready,           \* controllerReady of the current tick
    batch,           \* scanned records that the tick has not handled yet
    probes,          \* lifecycle candidates that are not probed yet
    disk,            \* state.json
    unsaved,         \* records scanned since state.json was written
    configFile, pausedFile, commands   \* config.json, control.json, commands/

memoryVars == <<threads, config, controllerState, paused, memGuard, active, jobs>>
tickVars == <<phase, tickNow, ready, batch, probes>>
fileVars == <<disk, unsaved, configFile, pausedFile, commands>>
daemonVars == <<memoryVars, tickVars, fileVars>>
vars == <<now, codexVars, daemonVars>>

\* sent is "" until the job sends its request to Codex; then "turn", "goal" or
\* "ipc" (a turn over official IPC) for a recovery, the resulting goal status for
\* a goal block.
Job == [thread : Threads, kind : {"recovery", "goal_block"}, key : Nat, attempt : Nat,
        failedAt : Nat, origin : Nat, restart : BOOLEAN, notified : BOOLEAN, at : Nat,
        pc : {"launched", "running"}, sent : {"turn", "goal", "ipc"} \cup GoalStates,
        cancelled : BOOLEAN]

Probe == [thread : Threads, key : Nat, turn : Nat]

Phases == {"idle", "controller", "latched", "scan", "events", "controls", "checks",
           "lifecycle"}

LockHeld == phase \in {"events", "controls", "checks"}
Unlocked == ~LockHeld

Command == [thread : Threads, action : {"retry_now", "cancel_retry", "restart_retry"}]

TypeOK ==
    /\ CodexTypeOK
    /\ threads \in [Threads -> ThreadState]
    /\ config \in Config /\ configFile \in Config
    /\ controllerState \in ControllerStates
    /\ paused \in BOOLEAN /\ pausedFile \in BOOLEAN /\ memGuard \in BOOLEAN
    /\ active \subseteq Threads
    /\ jobs \subseteq Job
    /\ phase \in Phases
    /\ tickNow \in Nat
    /\ ready \in BOOLEAN
    /\ batch \in [Threads -> Seq(Event)]
    /\ probes \subseteq Probe
    /\ disk \in [Threads -> ThreadState]
    /\ unsaved \in [Threads -> Seq(Event)]
    /\ commands \in Seq(Command)

emptyQueues == [t \in Threads |-> <<>>]

Init ==
    /\ CodexInit
    /\ threads = [t \in Threads |-> NewThread]
    /\ configFile \in Configs /\ config = configFile
    /\ controllerState = "starting"
    /\ paused = FALSE /\ pausedFile = FALSE /\ memGuard = FALSE
    /\ active = {} /\ jobs = {}
    /\ phase = "idle" /\ tickNow = 0 /\ ready = FALSE
    /\ batch = emptyQueues /\ probes = {}
    /\ disk = threads /\ unsaved = emptyQueues
    /\ commands = <<>>

----------------------------------------------------------------------------
(* Helpers.                                                                *)

\* Wrong on purpose: the cancellation does not reach the job.
cancelNothing(js, t) == js

\* cancel() of a running job's context (activeCtx).
cancelJobs(js, t) ==
    {IF j.thread = t /\ j.pc = "running" THEN [j EXCEPT !.cancelled = TRUE] ELSE j : j \in js}

\* state.json is followed only where something reads it: a restart or the panel.
diskRead == "crash" \in Features \/ MaxCommands > 0

\* Wrong on purpose: the scan offsets advance although the write failed.
persistOffsetsOnly(ths) == UNCHANGED disk /\ unsaved' = emptyQueues

\* persistStateLocked: on a write error the memory stays authoritative.
persist(ths) ==
    \/ diskRead /\ disk' = ths /\ unsaved' = emptyQueues
    \/ /\ diskRead => "diskfull" \in Features
       /\ UNCHANGED <<disk, unsaved>>

recordControllerSuccess(cfg, state) ==
    IF cfg.SharedAppServerEnabled /\ state # "official_ipc_ready" THEN "ready" ELSE state

sharedOff(cfg) == [cfg EXCEPT !.SharedAppServerEnabled = FALSE]

\* failOpenSharedBackend: shared mode is switched off in config.json, or the
\* cleanup fails and the reason stays.
failOpenSharedBackend(reason) ==
    \/ /\ controllerState' = "shared_app_server_disabled"
       /\ config' = sharedOff(config)
       /\ configFile' = sharedOff(configFile)
    \/ /\ "failopen" \in Features
       /\ controllerState' = reason
       /\ UNCHANGED <<config, configFile>>

\* The threads that are due first: n of them, or all that have a due time.
firstDue(due, n) ==
    {E \in SUBSET DOMAIN due :
        /\ Cardinality(E) = MinOf(n, Cardinality(DOMAIN due))
        /\ \A e \in E, s \in DOMAIN due \ E : due[e] <= due[s]}

----------------------------------------------------------------------------
(* The tick: controller probe.                                             *)

\* A tick probes the controller at most every ten seconds; which ticks do is
\* left open, and the others start with TickScan.
TickBegin ==
    /\ phase = "idle"
    /\ tickNow < now
    /\ tickNow' = now
    /\ "probe" \in Features
    /\ phase' = IF /\ config.SharedAppServerEnabled
                   /\ controllerState = "shared_app_server_config_invalid"
                THEN "latched" ELSE "controller"
    /\ UNCHANGED <<now, codexVars, memoryVars, ready, batch, probes, fileVars>>

\* A latched configuration failure is not probed again.
LatchedFailure ==
    /\ phase = "latched"
    /\ failOpenSharedBackend("shared_app_server_config_invalid")
    /\ phase' = "scan"
    /\ UNCHANGED <<now, codexVars, threads, paused, memGuard, active, jobs,
                   tickNow, ready, batch, probes, disk, unsaved, pausedFile, commands>>

ControllerProbe ==
    /\ phase = "controller"
    /\ \E reported \in ProbeStates :
          LET shared == config.SharedAppServerEnabled
              state == IF ~shared /\ reported = "ready" THEN "shared_app_server_disabled"
                       ELSE reported
          IN  /\ IF shared /\ controllerFailureNeedsFailOpen(state)
                 THEN failOpenSharedBackend(state)
                 ELSE /\ controllerState' = state
                      /\ config' = IF state = "shared_app_server_disabled"
                                   THEN sharedOff(config) ELSE config
                      /\ UNCHANGED configFile
              /\ ready' = (controllerState' \in {"ready", "official_ipc_ready"})
    /\ phase' = "scan"
    /\ UNCHANGED <<now, codexVars, threads, paused, memGuard, active, jobs,
                   tickNow, batch, probes, disk, unsaved, pausedFile, commands>>

----------------------------------------------------------------------------
(* The tick: the locked part.                                              *)

\* reloadConfigLocked and scanSessions.
TickScan ==
    /\ \/ phase = "scan" /\ tickNow' = tickNow
       \/ phase = "idle" /\ tickNow < now /\ tickNow' = now
    /\ config' = configFile
    /\ memGuard' = (memGuard /\ ~(configFile.SharedAppServerEnabled
                                  /\ ~config.SharedAppServerEnabled))
    /\ controllerState' =
          IF ~configFile.SharedAppServerEnabled
          THEN IF controllerState \in {"ready", "starting"}
               THEN "shared_app_server_disabled" ELSE controllerState
          ELSE IF controllerState = "shared_app_server_disabled"
               THEN "starting" ELSE controllerState
    /\ threads' = [t \in Threads |-> reloadLimits(threads[t], configFile, now)]
    /\ batch' = rollout
    /\ unsaved' = IF diskRead THEN [t \in Threads |-> unsaved[t] \o rollout[t]]
                  ELSE unsaved
    /\ rollout' = emptyQueues
    /\ phase' = "events"
    /\ UNCHANGED <<now, turn, nextTurn, goal, requests, paused, active, jobs,
                   ready, probes, disk, configFile, pausedFile, commands>>

\* handleEventLocked for the next record of a thread.
HandleEvent(t) ==
    /\ phase = "events"
    /\ batch[t] # <<>>
    /\ LET ev == Head(batch[t])
       IN  /\ threads' = [threads EXCEPT ![t] = handleEvent(@, ev, tickNow, config)]
           /\ jobs' = IF cancelsJob(threads[t], ev) THEN cancelJobs(jobs, t) ELSE jobs
    /\ batch' = [batch EXCEPT ![t] = Tail(@)]
    /\ UNCHANGED <<now, codexVars, config, controllerState, paused, memGuard, active,
                   phase, tickNow, ready, probes, fileVars>>

\* reopenRestartRequiredLocked, then the pause switch is read again.
Reopen ==
    /\ phase = "events"
    /\ batch = emptyQueues
    /\ threads' = IF ready /\ ~paused
                  THEN [t \in Threads |->
                          IF t \in active THEN threads[t]
                          ELSE reopenRestartRequired(threads[t], tickNow, config)]
                  ELSE threads
    /\ ready' = FALSE
    /\ paused' = pausedFile
    /\ phase' = "controls"
    /\ UNCHANGED <<now, codexVars, config, controllerState, memGuard, active, jobs,
                   tickNow, batch, probes, fileVars>>

\* applyControlCommandLocked for the oldest command file; a restart cancels the
\* thread's running job.
ControlCommand ==
    /\ phase = "controls"
    /\ commands # <<>>
    /\ LET c == Head(commands)
       IN  /\ threads' = [threads EXCEPT ![c.thread] =
                            applyControlCommand(@, c.action, tickNow, config)]
           /\ jobs' = IF c.action = "restart_retry" /\ threads[c.thread].Stopped # Nil
                      THEN cancelJobs(jobs, c.thread) ELSE jobs
    /\ commands' = Tail(commands)
    /\ UNCHANGED <<now, codexVars, config, controllerState, paused, memGuard, active,
                   tickVars, disk, unsaved, configFile, pausedFile>>

\* expireUnacknowledgedLocked; the lock is released.
EndControls ==
    /\ phase = "controls"
    /\ commands = <<>>
    /\ threads' = [t \in Threads |->
                     IF t \in active THEN threads[t]
                     ELSE expireUnacknowledged(threads[t], tickNow, config)]
    /\ phase' = "checks"
    /\ UNCHANGED <<now, codexVars, config, controllerState, paused, memGuard, active, jobs,
                   tickNow, ready, batch, probes, fileVars>>

----------------------------------------------------------------------------
(* The tick: memory guard, lifecycle probes and dispatch.                  *)

\* checkSharedAppServerMemory finds the shared backend over its limit.
MemoryLimitExceeded ==
    /\ "memory" \in Features
    /\ phase = "checks"
    /\ config.SharedAppServerEnabled
    /\ ~memGuard
    /\ memGuard' = TRUE
    /\ failOpenSharedBackend("shared_app_server_memory_limit_exceeded")
    /\ UNCHANGED <<now, codexVars, threads, paused, active, jobs, tickVars,
                   disk, unsaved, pausedFile, commands>>

lifecycleDue(th) ==
    LET a == th.Awaiting
    IN  /\ a # Nil
        /\ a.RetryTurnID # 0
        /\ awaitingSince(a) # 0
        /\ tickNow >= awaitingSince(a) + config.StartAckTimeout
        /\ \/ a.LastLifecycleCheckAt = 0
           \/ tickNow >= a.LastLifecycleCheckAt + ProbeInterval

\* reconcileAwaitingLifecycle selects the acknowledged retries to probe.
CollectProbes ==
    /\ phase = "checks"
    /\ threads' = [t \in Threads |->
                     IF lifecycleDue(threads[t])
                     THEN [threads[t] EXCEPT !.Awaiting =
                             [@ EXCEPT !.LastLifecycleCheckAt = tickNow]]
                     ELSE threads[t]]
    /\ probes' = {[thread |-> t, key |-> threads[t].Awaiting.fault.EventKey,
                   turn |-> threads[t].Awaiting.RetryTurnID] :
                    t \in {u \in Threads : lifecycleDue(threads[u])}}
    /\ phase' = "lifecycle"
    /\ UNCHANGED <<now, codexVars, config, controllerState, paused, memGuard, active, jobs,
                   tickNow, ready, batch, fileVars>>

\* What the app-server may say of a thread: its turn is active or not.  Official
\* IPC always says active, and a flaky server may be wrong.
lifecycleStatuses(t) ==
    IF "flaky" \in Features THEN {"active", "idle"}
    ELSE (IF turn[t] # Nil THEN {"active"} ELSE {"idle"})
         \cup (IF "official" \in Features THEN {"active"} ELSE {})

probeMatches(p) ==
    LET a == threads[p.thread].Awaiting
    IN  a # Nil /\ a.fault.EventKey = p.key /\ a.RetryTurnID = p.turn

ProbeLifecycle(p) ==
    /\ phase = "lifecycle"
    /\ p \in probes
    /\ probes' = probes \ {p}
    /\ LET t == p.thread
       IN  \/ /\ ~probeMatches(p)
              /\ UNCHANGED <<threads, controllerState>>
           \/ /\ probeMatches(p)
              /\ \E reason \in ErrorReasons :
                    /\ controllerState' = reason
                    /\ threads' = [threads EXCEPT ![t] = probeFailed(@, reason, config)]
           \/ /\ probeMatches(p)
              /\ controllerState' = recordControllerSuccess(config, controllerState)
              /\ \E status \in lifecycleStatuses(t) :
                    threads' = [threads EXCEPT ![t] =
                                  IF status = "active" THEN probeFoundActive(@)
                                  ELSE probeFoundIdle(@, tickNow, config)]
    /\ UNCHANGED <<now, codexVars, config, paused, memGuard, active, jobs,
                   phase, tickNow, ready, batch, fileVars>>

\* No recovery transport is verified: nothing is promoted to Awaiting.
noTransport ==
    /\ controllerState # "official_ipc_ready"
    /\ \/ ~config.SharedAppServerEnabled
       \/ controllerState \in {"shared_app_server_disabled",
                               "shared_app_server_config_invalid"}

noTransportReason ==
    IF \/ controllerFailureNeedsFailOpen(controllerState)
       \/ controllerState = "codex_not_running"
    THEN controllerState ELSE "shared_app_server_disabled"

goalStopsDue ==
    {t \in Threads \ active : threads[t].GoalStop # Nil /\ threads[t].GoalStop.DueAt <= tickNow}

stoppedForTransport ==
    [t \in Threads |-> IF pendingDue(threads[t], tickNow)
                       THEN stopPendingForController(threads[t], noTransportReason)
                       ELSE threads[t]]

\* A pending retry that is due on an idle thread, without a goal hold; busy are
\* the threads with a job, those just launched included.
dispatchable(t, busy) ==
    /\ ~heldFromDispatch(threads[t])
    /\ pendingDue(threads[t], tickNow)
    /\ t \notin busy

\* The threads once held retries are dropped, chains past the time limit are
\* stopped and the chosen candidates are promoted.
promoted(chosen, busy) ==
    [t \in Threads |->
        IF heldFromDispatch(threads[t]) THEN clearHeldRetry(threads[t])
        ELSE IF dispatchable(t, busy) /\ recoveryTimeExceeded(threads[t], tickNow)
        THEN stopPendingForController(threads[t], "recovery_time_limit")
        ELSE IF t \in chosen THEN startDispatch(threads[t], tickNow, config)
        ELSE threads[t]]

candidates(busy) ==
    {t \in Threads : dispatchable(t, busy) /\ ~recoveryTimeExceeded(threads[t], tickNow)}

goalBlockJob(t) ==
    [thread |-> t, kind |-> "goal_block", key |-> threads[t].GoalStop.EventKey,
     attempt |-> threads[t].Stopped.budget.Attempt, failedAt |-> 0, origin |-> 0,
     restart |-> FALSE, notified |-> FALSE, at |-> now, pc |-> "launched", sent |-> "",
     cancelled |-> FALSE]

recoveryJob(t) ==
    LET p == threads[t].Pending
    IN  [thread |-> t, kind |-> "recovery", key |-> p.fault.EventKey,
         attempt |-> p.budget.Attempt, failedAt |-> p.fault.FailedAt,
         origin |-> p.fault.OriginTurnStartedAt, restart |-> p.GoalLimitRestart,
         notified |-> p.ParentNotified, at |-> now, pc |-> "launched", sent |-> "",
         cancelled |-> FALSE]

\* Wrong on purpose: a recovery job is not entered in active.
launchUnmarked(blocks, recoveries) ==
    /\ active' = active \cup blocks
    /\ jobs' = jobs \cup {goalBlockJob(t) : t \in blocks}
                    \cup {recoveryJob(t) : t \in recoveries}

launch(blocks, recoveries) ==
    /\ active' = active \cup blocks \cup recoveries
    /\ jobs' = jobs \cup {goalBlockJob(t) : t \in blocks}
                    \cup {recoveryJob(t) : t \in recoveries}

\* Wrong on purpose: one slot too few.
slotsKeptFree == config.MaxParallelRetries - Cardinality(active) - 1

slots == config.MaxParallelRetries - Cardinality(active)

stopDue == [t \in goalStopsDue |-> threads[t].GoalStop.DueAt]
pendingDueAt(busy) == [t \in candidates(busy) |-> threads[t].Pending.DueAt]

\* dispatchDueLocked, persistStateLocked and the start of the jobs.
Dispatch ==
    /\ phase = "lifecycle"
    /\ probes = {}
    /\ IF Cardinality(active) >= config.MaxParallelRetries
       THEN UNCHANGED <<threads, active, jobs>>
       ELSE \E blocks \in firstDue(stopDue, slots) :
              LET left == slots - Cardinality(blocks)
                  busy == active \cup blocks
              IN  IF left = 0 \/ paused
                  THEN launch(blocks, {}) /\ UNCHANGED threads
                  ELSE IF noTransport
                  THEN launch(blocks, {}) /\ threads' = stoppedForTransport
                  ELSE \E chosen \in firstDue(pendingDueAt(busy), left) :
                          /\ threads' = promoted(chosen, busy)
                          /\ launch(blocks, chosen)
    /\ persist(threads')
    /\ phase' = "idle"
    /\ UNCHANGED <<now, codexVars, config, controllerState, paused, memGuard,
                   tickNow, ready, batch, probes, configFile, pausedFile, commands>>

----------------------------------------------------------------------------
(* Jobs.                                                                   *)

\* The job is still about what the thread waits for.
jobMatches(j) ==
    LET th == threads[j.thread]
    IN  IF j.kind = "recovery"
        THEN /\ th.Awaiting # Nil
             /\ th.Awaiting.fault.EventKey = j.key
             /\ th.Awaiting.budget.Attempt = j.attempt
        ELSE /\ th.GoalStop # Nil
             /\ th.GoalStop.EventKey = j.key
             /\ automaticGoalLimitStopped(th)

\* Wrong on purpose: the slot of a finished job is not released.
removeJobLeaksSlot(j) ==
    /\ jobs' = jobs \ {j}
    /\ UNCHANGED active

removeJob(j) ==
    /\ jobs' = jobs \ {j}
    /\ active' = active \ {j.thread}

\* runJob and runGoalBlockJob before the request: a job that comes too late
\* removes itself.
StartJob(j) ==
    /\ Unlocked /\ j \in jobs /\ j.pc = "launched"
    /\ LET th == threads[j.thread]
           held == /\ j.kind = "recovery" /\ th.GoalHeld /\ ~j.restart
                   /\ ~heldConversationStillAllowed(th)
       IN  IF jobMatches(j) /\ ~held
           THEN /\ jobs' = (jobs \ {j}) \cup {[j EXCEPT !.pc = "running"]}
                /\ UNCHANGED active
           ELSE removeJob(j)
    /\ UNCHANGED <<now, codexVars, threads, config, controllerState, paused, memGuard,
                   tickVars, fileVars>>

\* BlockGoal reports both spellings of a completed goal as goal_already_completed.
goalAlready(status) == IF status = "complete" THEN "completed" ELSE status

\* What Dispatch reads of the goal: blocked by the very failure (a restart from
\* the panel overrides any block), or held while the user's own conversation may
\* go on.
appBlockedByFailure(j, g) ==
    g.status = "blocked" /\ (j.restart \/ goalBlockedByFailure(g.updatedAt, j.failedAt))

appHeldConversationAllowed(j, g) ==
    /\ g.updatedAt # 0
    /\ heldConversationAllowed(g.status, g.updatedAt, j.origin)
    /\ ~appBlockedByFailure(j, g)

\* Codex is asked for a turn.  It begins later, after a turn of the user's own if
\* that comes first.
requestTurn(j) ==
    /\ Cardinality(requests[j.thread]) < MaxRequests
    /\ requests' = [requests EXCEPT ![j.thread] = @ \cup {j.key}]
    /\ UNCHANGED <<goal, rollout>>

\* The request leaves the watchdog (the runner is modelled by its effect on
\* Codex): a recovery reactivates a goal that the failure blocked, relies on an
\* active goal, asks an idle thread for a turn, or hands a turn to the owner of
\* the thread over official IPC, which reads neither goal nor status; a goal
\* block sets the goal blocked or finds it inactive already.
SendRequest(j) ==
    /\ Unlocked /\ j \in jobs /\ j.pc = "running" /\ ~j.cancelled /\ j.sent = ""
    /\ LET t == j.thread
           sent(what) == jobs' = (jobs \ {j}) \cup {[j EXCEPT !.sent = what]}
       IN  IF j.kind = "goal_block"
           THEN IF goal[t].status = "active"
                THEN /\ goal[t].updatedAt < now /\ setGoal(t, "blocked")
                     /\ sent("blocked") /\ UNCHANGED requests
                ELSE /\ goal[t].status \in limitGoalStatuses
                     /\ sent(goalAlready(goal[t].status)) /\ UNCHANGED <<goal, rollout, requests>>
           ELSE \/ /\ appBlockedByFailure(j, goal[t])
                   /\ goal[t].updatedAt < now /\ setGoal(t, "active")
                   /\ sent("goal") /\ UNCHANGED requests
                \/ /\ goal[t].status = "active"
                   /\ sent("goal") /\ UNCHANGED <<goal, rollout, requests>>
                \/ /\ goal[t].status = "" \/ appHeldConversationAllowed(j, goal[t])
                   /\ turn[t] = Nil
                   /\ requestTurn(j) /\ sent("turn")
                \/ /\ "official" \in Features
                   /\ requestTurn(j) /\ sent("ipc")
    /\ UNCHANGED <<now, turn, nextTurn, threads, config, controllerState, paused, memGuard,
                   active, tickVars, fileVars>>

\* The frame of the actions that take a job's result.
finishing(j, kind) ==
    /\ Unlocked /\ j \in jobs /\ j.pc = "running" /\ j.kind = kind
    /\ jobMatches(j)
    /\ removeJob(j)
    /\ UNCHANGED <<now, codexVars, config, paused, memGuard, tickVars,
                   configFile, pausedFile, commands>>

setThread(t, th) ==
    /\ threads' = [threads EXCEPT ![t] = th]
    /\ persist(threads')

\* The thread has moved on: the result is dropped, whatever it is.
StaleResult(j) ==
    /\ Unlocked /\ j \in jobs /\ j.pc = "running"
    /\ ~jobMatches(j)
    /\ removeJob(j)
    /\ UNCHANGED <<now, codexVars, threads, config, controllerState, paused, memGuard,
                   tickVars, fileVars>>

\* ParentNotified of the result: the subagent's parent was told.
notices(j) == {j.notified} \cup (IF "notice" \in Features THEN {TRUE} ELSE {})

\* An error or a retry_later outcome; after the request was sent, a lost answer.
failures(j) == IF j.sent = "" THEN ErrorReasons ELSE LateReasons

RecoveryFailed(j) ==
    /\ finishing(j, "recovery")
    /\ \E reason \in failures(j), notified \in notices(j) :
          /\ controllerState' = reason
          /\ setThread(j.thread,
                       rescheduleAwaitingWithPolicy(notifyParent(threads[j.thread], notified),
                                                    now, reason, TRUE, config))

\* The controller found a turn running on the thread; it may be over by now.
RecoveryUserActive(j) ==
    /\ finishing(j, "recovery")
    /\ j.sent = ""
    /\ controllerState' = recordControllerSuccess(config, controllerState)
    /\ \E notified \in notices(j) :
          setThread(j.thread, dispatchUserActive(notifyParent(threads[j.thread], notified),
                                                 "thread_active", now, config))

RecoveryNotApplicable(j) ==
    /\ finishing(j, "recovery")
    /\ j.sent = ""
    /\ controllerState' = recordControllerSuccess(config, controllerState)
    /\ \E reason \in SkipReasons :
          setThread(j.thread, dispatchNotApplicable(threads[j.thread], reason))

\* The request was accepted, over the shared app-server or over official IPC.
acceptedAction(j, notified) ==
    IF j.sent = "goal" \/ (j.sent = "ipc" /\ j.restart) THEN "goal_resume"
    ELSE IF j.sent = "turn" /\ notified THEN "subagent_continue"
    ELSE "conversation_continue"

RecoveryAccepted(j) ==
    /\ finishing(j, "recovery")
    /\ j.sent # ""
    /\ controllerState' = recordControllerSuccess(config, IF j.sent = "ipc"
                                                          THEN "official_ipc_ready"
                                                          ELSE controllerState)
    /\ \E notified \in notices(j) :
          setThread(j.thread, dispatchAccepted(notifyParent(threads[j.thread], notified),
                                               acceptedAction(j, notified), now, config))

\* An error, or "retry_later".  BlockGoal gives no other answer but that of GoalBlockDone, and
\* validateDispatchResultForJob makes an error of any other, so the last branch of
\* runGoalBlockJob is not taken.
GoalBlockFailed(j) ==
    /\ finishing(j, "goal_block")
    /\ \E reason \in failures(j) :
          /\ controllerState' = reason
          /\ setThread(j.thread, rescheduleGoalBlock(threads[j.thread], now, reason, config))

GoalBlockDone(j) ==
    /\ finishing(j, "goal_block")
    /\ j.sent # ""
    /\ controllerState' = "ready"
    /\ setThread(j.thread, goalBlocked(threads[j.thread], j.sent, now))

JobStep(j) ==
    \/ StartJob(j) \/ SendRequest(j) \/ StaleResult(j)
    \/ RecoveryFailed(j) \/ RecoveryUserActive(j) \/ RecoveryNotApplicable(j)
    \/ RecoveryAccepted(j) \/ GoalBlockFailed(j) \/ GoalBlockDone(j)

----------------------------------------------------------------------------
(* Crash and restart, the user, and the clock.                             *)

\* The process dies and starts again: newDaemon loads state.json, queues the
\* unacknowledged dispatches again and reads the control files.  Records that
\* were scanned but not saved are scanned again.
Crash ==
    /\ "crash" \in Features
    /\ threads' = [t \in Threads |-> reconcileStartupState(loadThread(disk[t]), now)]
    /\ config' = configFile
    /\ paused' = pausedFile
    /\ controllerState' = "starting"
    /\ memGuard' = FALSE
    /\ active' = {} /\ jobs' = {}
    /\ phase' = "idle" /\ tickNow' = 0 /\ ready' = FALSE
    /\ batch' = emptyQueues /\ probes' = {}
    /\ rollout' = [t \in Threads |-> unsaved[t] \o rollout[t]]
    /\ unsaved' = emptyQueues
    /\ UNCHANGED <<now, turn, nextTurn, goal, requests, disk, configFile, pausedFile, commands>>

\* queueThreadCommand checks the command against state.json.
QueueCommand(t) ==
    /\ Unlocked
    /\ Len(commands) < MaxCommands
    /\ \E action \in Commands :
          /\ IF action = "restart_retry" THEN disk[t].Stopped # Nil ELSE disk[t].Pending # Nil
          /\ commands' = Append(commands, [thread |-> t, action |-> action])
    /\ UNCHANGED <<now, codexVars, memoryVars, tickVars, disk, unsaved, configFile, pausedFile>>

TogglePause ==
    /\ "pause" \in Features
    /\ Unlocked
    /\ pausedFile' = ~pausedFile
    /\ UNCHANGED <<now, codexVars, memoryVars, tickVars, disk, unsaved, configFile, commands>>

EditConfig ==
    /\ Unlocked
    /\ configFile' \in Configs
    /\ UNCHANGED <<now, codexVars, memoryVars, tickVars, disk, unsaved, pausedFile, commands>>

\* A unit of time is long enough for a tick, unless the run has "slow" ticks.
\* No job outlives the runner's timeout.
Advance ==
    /\ now < MaxNow
    /\ \/ phase = "idle" /\ tickNow \in {0, now}
       \/ "slow" \in Features /\ Unlocked
    /\ \A j \in jobs : now < j.at + JobTimeout
    /\ now' = now + 1
    /\ UNCHANGED <<codexVars, daemonVars>>

CodexMoves ==
    /\ phase # "idle" => Unlocked /\ (jobs # {} \/ probes # {})
    /\ \E t \in Threads : CodexStep(t)
    /\ UNCHANGED <<now, daemonVars>>

Tick ==
    \/ TickBegin \/ LatchedFailure \/ ControllerProbe \/ TickScan
    \/ \E t \in Threads : HandleEvent(t)
    \/ Reopen \/ ControlCommand \/ EndControls
    \/ MemoryLimitExceeded \/ CollectProbes
    \/ \E p \in probes : ProbeLifecycle(p)
    \/ Dispatch

Next ==
    \/ Tick
    \/ \E j \in jobs : JobStep(j)
    \/ Crash
    \/ \E t \in Threads : QueueCommand(t)
    \/ TogglePause \/ EditConfig \/ Advance
    \/ CodexMoves

Spec == Init /\ [][Next]_vars
=============================================================================
