-------------------------- MODULE DaemonProperties --------------------------
(***************************************************************************)
(* What the watchdog promises.  Properties of one thread come first and    *)
(* are required of the threads in memory and of those in state.json; then  *)
(* the ones that relate threads, jobs, the goal and the running turns.     *)
(***************************************************************************)
EXTENDS Daemon

\* The queued or dispatched retry of a thread; Nil when there is none.
liveRetry(th) == IF th.Pending # Nil THEN th.Pending ELSE th.Awaiting

----------------------------------------------------------------------------
(* Invariants of one thread.                                               *)

onePhase(th) ==
    /\ th.Pending # Nil => th.Awaiting = Nil /\ th.Stopped = Nil
    /\ th.Awaiting # Nil => th.Stopped = Nil

goalStopBacked(th) ==
    th.GoalStop # Nil =>
        automaticGoalLimitStopped(th) /\ th.Stopped.fault.EventKey = th.GoalStop.EventKey

countersAgree(th) ==
    liveRetry(th) # Nil =>
        /\ liveRetry(th).budget.Attempt = th.RecoveryAttempts
        /\ liveRetry(th).budget.ConsecutiveRetry = th.ConsecutiveRetries
        /\ th.RecoveryAttempts >= 1 /\ th.ConsecutiveRetries >= 1
        /\ th.RecoveryStartedAt # 0

everyThread(inv(_)) == \A t \in Threads : inv(threads[t]) /\ inv(disk[t])

\* A thread's retry is queued, dispatched or given up, never two at once, in
\* memory and in state.json (retry_state.go, daemon.go: every handler that
\* moves a retry clears the place it came from).
OneRetryPhase == everyThread(onePhase)

\* A request to block a goal always belongs to the goal-limit stop that raised
\* it, so runGoalBlockJob never blocks a goal for a chain that was restarted,
\* reopened or cleared.
GoalStopBacked == everyThread(goalStopBacked)

\* The counters of the thread and of its live retry never drift apart although
\* a dozen handlers write both, and a live chain has a start for the circuit
\* breaker to measure from.
CountersAgree == everyThread(countersAgree)

----------------------------------------------------------------------------
(* Invariants of the daemon.                                               *)

\* d.active has a thread exactly while one job goroutine works on it: no second
\* dispatch runs beside it, and no slot of MaxParallelRetries leaks.
OneJobPerThread ==
    \A t \in Threads : Cardinality({j \in jobs : j.thread = t}) = (IF t \in active THEN 1 ELSE 0)

\* The thread has begun another chain since the job was launched.  (A tick that is
\* longer than a unit of time can be followed by the next one within that unit.)
newChainSince(j) ==
    LET start == threads[j.thread].RecoveryStartedAt
    IN  start > j.at \/ (start = j.at /\ "slow" \in Features)

\* A goal hold (a pause by the user or the model) that is observed after a job was
\* launched leaves no job that could still send its request: it is cancelled, or
\* removes itself on start - unless its conversation began while the goal was held
\* already, or the job is a late one of a chain that the thread has replaced.
HeldGoalStopsJobs ==
    \A j \in jobs :
        LET th == threads[j.thread]
        IN  /\ j.kind = "recovery" /\ j.pc = "running" /\ ~j.cancelled /\ j.sent = ""
            /\ th.GoalHeld /\ th.GoalObservedAt > j.at /\ ~j.restart
            => \/ heldConversationAllowed(th.GoalStatus, th.GoalUpdatedAt, j.origin)
               \/ newChainSince(j)

\* An abort by the user leaves no dispatch job that could still send.  While the
\* goal limit has stopped the chain handleTurnAborted returns before it cancels:
\* a job that outlived its chain is then left alone, also when a goal update
\* lifts the stop later, or the panel begins the chain again.
AbortStopsJobs ==
    \A j \in jobs :
        LET th == threads[j.thread]
        IN  /\ j.kind = "recovery" /\ j.pc = "running" /\ ~j.cancelled /\ j.sent = ""
            /\ th.LastAbortedAt > j.at
            => \/ automaticGoalLimitStopped(th)
               \/ th.GoalObservedAt >= th.LastAbortedAt
               \/ newChainSince(j)

\* As long as the chain goes on in which a job was launched, its result is only ever
\* applied to the dispatch that produced it: the event key and the attempt that
\* runJob compares identify the dispatch.  (A restart from the panel begins a new
\* chain with the same key and with attempt 1, so a job that is still under way can
\* match a turn that the new chain adopts.)
ResultMatchesDispatch ==
    \A j \in jobs :
        j.kind = "recovery" /\ jobMatches(j) /\ ~newChainSince(j)
        => threads[j.thread].Awaiting.DispatchStartedAt <= j.at

\* Between ticks no unacknowledged dispatch outlives its deadline without a job
\* that still works on it.
NoForgottenDispatch ==
    phase = "idle" =>
        \A t \in Threads \ active :
            LET a == threads[t].Awaiting
            IN  a # Nil /\ a.RetryTurnID = 0 => a.StartDeadline > tickNow

----------------------------------------------------------------------------
(* Action properties.                                                      *)

\* The thread that a step starts from: a restart starts from state.json.
threadBefore(t) == IF Crash THEN disk[t] ELSE threads[t]

\* The queued retry is handed to a job: it awaits a turn that is not there yet.
dispatched(t) == threads[t].Pending # Nil /\ threads[t].Awaiting = Nil
                 /\ threads'[t].Awaiting # Nil /\ threads'[t].Awaiting.RetryTurnID = 0

\* A dispatch respects the limits in force now, not those of the time the retry
\* was queued, and never exceeds the parallel limit.
DispatchWithinLimits ==
    [][\A t \in Threads :
          dispatched(t) =>
              LET b == threads'[t].Awaiting.budget
                  class == threads'[t].Awaiting.fault.Class
              IN  /\ b.Attempt <= recoveryLimit(class, config)
                  /\ b.ConsecutiveRetry <= consecutiveLimit(class, config)
                  /\ Cardinality(active') <= config.MaxParallelRetries]_vars

\* The attempt counter advances by one, and only because a retry turn really
\* ran (it completed, or was found idle); controller failures, expired starts
\* and configuration changes leave it alone.
OnlyRunTurnsCount ==
    [][\A t \in Threads :
          LET awaiting == threadBefore(t).Awaiting
              before == liveRetry(threadBefore(t))
              after == liveRetry(threads'[t])
          IN  before # Nil /\ after # Nil /\ before.budget.Attempt # after.budget.Attempt
              => /\ after.budget.Attempt = before.budget.Attempt + 1
                 /\ awaiting # Nil /\ awaiting.RetryTurnID # 0]_vars

\* A chain that goes on keeps the start that the circuit breaker measures from,
\* across a restart too.
ChainKeepsClock ==
    [][\A t \in Threads :
          liveRetry(threadBefore(t)) # Nil /\ liveRetry(threads'[t]) # Nil
          => threads'[t].RecoveryStartedAt = threadBefore(t).RecoveryStartedAt]_vars

\* The parent of a subagent is told once in a chain: no failed dispatch, expired
\* start, probe, restart or next failure forgets that it was.
ParentStaysNotified ==
    [][\A t \in Threads :
          LET before == liveRetry(threadBefore(t))
              after == liveRetry(threads'[t])
          IN  before # Nil /\ after # Nil /\ before.ParentNotified
              => after.ParentNotified]_vars

\* Once the goal limit has stopped a chain, only a restart from the panel or a
\* goal update removes the stop: one that activates the goal again, or one to a
\* status that the switch of handleGoalUpdatedLocked does not name.  Later turns,
\* completions, aborts, the other goal updates and restarts of the watchdog do not.
GoalLimitSticky ==
    [][\A t \in Threads :
          automaticGoalLimitStopped(threadBefore(t)) /\ threads'[t].Stopped = Nil
          => \/ /\ phase = "events"
                /\ Head(batch[t]).kind = "thread_goal_updated"
                /\ Head(batch[t]).status \notin limitGoalStatuses \ {"active"}
             \/ /\ phase = "controls"
                /\ Head(commands).action = "restart_retry"]_vars

runsAcknowledged(t) ==
    /\ threads[t].Awaiting # Nil
    /\ turn[t] # Nil
    /\ threads[t].Awaiting.RetryTurnID = turn[t].id

\* The tick never queues a retry again while its acknowledged turn still runs, if
\* the lifecycle probes tell the truth.
TickKeepsRunningTurn ==
    [][Tick /\ "flaky" \notin Features
       => \A t \in Threads : runsAcknowledged(t) => threads'[t].Pending = Nil]_vars

\* Nobody does: only the completion of the retry turn schedules the next retry.
RunningTurnNotRequeued ==
    [][\A t \in Threads :
          runsAcknowledged(t) /\ turn[t].origin = "watchdog" => threads'[t].Pending = Nil]_vars

\* A tick leaves no due retry waiting while a slot is free, unless retries are
\* paused, and serves the longest due first.
WorkConserving ==
    [][phase = "lifecycle" /\ phase' = "idle" /\ tickNow' = tickNow =>
          LET waiting == {t \in Threads \ active' : pendingDue(threads'[t], tickNow)}
          IN  /\ waiting # {} /\ ~paused => Cardinality(active') >= config.MaxParallelRetries
              /\ \A t \in waiting, u \in Threads :
                    dispatched(u) => threads[u].Pending.DueAt <= threads[t].Pending.DueAt]_vars

reopened(t) == threads[t].Stopped # Nil /\ threads'[t].Pending # Nil /\ phase = "events"
               /\ phase' = "controls"

nothingSent(t) == threads[t].Stopped.fault.EventKey \notin requests[t]

\* A chain stopped for want of a transport is reopened only when nothing was
\* ever sent for it.
DisabledReopensUnsent ==
    [][\A t \in Threads :
          reopened(t) /\ threads[t].Stopped.Reason = "shared_app_server_disabled"
          => nothingSent(t)]_vars
=============================================================================
