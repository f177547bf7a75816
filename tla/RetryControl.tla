---------------------------- MODULE RetryControl ----------------------------
(***************************************************************************)
(* The handlers of a thread's retry that are not driven by rollout events: *)
(* configuration reload, panel commands, reopening after a transport stop, *)
(* start deadlines, lifecycle probes of an acknowledged turn, dispatch,    *)
(* the results of dispatch and goal-block jobs, and loading saved state.   *)
(***************************************************************************)
EXTENDS RetryThread

----------------------------------------------------------------------------
(* Moves between Pending, Awaiting and Stopped.                            *)

\* The queued form of an awaiting retry.
queuedRetry(a, budget, due, failures, notified) ==
    [fault |-> a.fault, budget |-> budget, DueAt |-> due, DispatchFailures |-> failures,
     ParentNotified |-> notified, GoalLimitRestart |-> a.GoalLimitRestart]

\* Wrong on purpose: the dispatched retry stays beside the queued one; a failed
\* dispatch counts as an attempt; the parent's notification is forgotten.
requeueKeepsAwaiting(th, budget, due, failures) ==
    [th EXCEPT !.Pending = queuedRetry(th.Awaiting, budget, due, failures,
                                       th.Awaiting.ParentNotified)]

requeueCountsDispatch(th, budget, due, failures) ==
    [th EXCEPT !.Awaiting = Nil,
               !.Pending = queuedRetry(th.Awaiting, [budget EXCEPT !.Attempt = @ + 1],
                                       due, failures, th.Awaiting.ParentNotified)]

requeueForgetsNotice(th, budget, due, failures) ==
    [th EXCEPT !.Awaiting = Nil,
               !.Pending = queuedRetry(th.Awaiting, budget, due, failures, FALSE)]

\* An awaiting retry goes back to the queue with the given budget.
requeue(th, budget, due, failures) ==
    [th EXCEPT !.Awaiting = Nil,
               !.Pending = queuedRetry(th.Awaiting, budget, due, failures,
                                       th.Awaiting.ParentNotified)]

stopAwaitingForController(th, reason) ==
    [stopRetry(th, th.Awaiting.fault, th.Awaiting.budget, reason, FALSE, "unset")
        EXCEPT !.GoalStop = Nil]

rescheduleAwaitingWithPolicy(th, now, reason, countFailure, cfg) ==
    LET failures == th.Awaiting.DispatchFailures + (IF countFailure THEN 1 ELSE 0)
    IN  IF \/ controllerFailureNeedsAction(reason)
           \/ countFailure /\ failures >= cfg.ControllerFailureLimit
        THEN stopAwaitingForController(th, reason)
        ELSE requeue(th, th.Awaiting.budget,
                     now + retryDelay(IF failures = 0 THEN 1 ELSE failures, cfg), failures)

\* Wrong on purpose: a failed dispatch is marked as never sent.
transportBlockedAlways(th, reason) ==
    IF reason = "shared_app_server_disabled" THEN "yes" ELSE "no"

\* The marker that lets the stop be reopened: nothing was ever sent for it.
transportBlocked(th, reason) ==
    LET p == th.Pending
    IN  IF /\ reason = "shared_app_server_disabled"
           /\ p.DispatchFailures = 0
           /\ ~p.ParentNotified
           /\ ~p.GoalLimitRestart
           /\ p.fault.FailedAt # 0
           /\ th.LastAutoRetryAt <= p.fault.FailedAt
        THEN "yes" ELSE "no"

stopPendingForController(th, reason) ==
    [stopRetry(th, th.Pending.fault, th.Pending.budget, reason, FALSE,
               transportBlocked(th, reason))
        EXCEPT !.GoalStop = Nil, !.CurrentTurnProgress = FALSE]

----------------------------------------------------------------------------
(* Configuration reload and panel commands.                                *)

withLimits(budget, class, cfg) ==
    [budget EXCEPT !.MaxAttempts = recoveryLimit(class, cfg),
                   !.MaxConsecutive = consecutiveLimit(class, cfg)]

\* Wrong on purpose: lower limits do not stop a queued retry.
relimitOnly(th, cfg, now) ==
    IF th.Pending = Nil THEN th
    ELSE [th EXCEPT !.Pending.budget = withLimits(@, th.Pending.fault.Class, cfg)]

\* reloadConfigLocked for one thread, with stopPendingRetryLocked.
reloadLimits(th, cfg, now) ==
    LET relimit(retry) ==
          IF retry = Nil THEN Nil
          ELSE [retry EXCEPT !.budget = withLimits(retry.budget, retry.fault.Class, cfg)]
        t == [th EXCEPT !.Awaiting = relimit(th.Awaiting), !.Pending = relimit(th.Pending)]
    IN  IF t.Pending # Nil /\ overBudget(t.Pending.budget)
        THEN exhaustRetry(t, t.Pending.fault, t.Pending.budget,
                          budgetStopReason(t.Pending.fault, t.Pending.budget, cfg),
                          FALSE, now)
        ELSE t

commandRetryNow(th, now) ==
    IF th.Pending = Nil THEN th
    ELSE [th EXCEPT !.Pending = [@ EXCEPT !.DueAt = now]]

commandCancelRetry(th) ==
    IF th.Pending = Nil THEN th
    ELSE [th EXCEPT !.Pending = Nil, !.RecoveryAttempts = 0, !.ConsecutiveRetries = 0,
                    !.CurrentTurnProgress = FALSE, !.GoalStop = Nil]

commandRestartRetry(th, now, cfg) ==
    LET s == th.Stopped
    IN  IF s = Nil THEN th
        ELSE [th EXCEPT
                !.Stopped = Nil, !.GoalStop = Nil, !.GoalHeld = FALSE,
                !.RecoveryAttempts = 1, !.ConsecutiveRetries = 1,
                !.RecoveryStartedAt = now,
                !.Pending = [fault |-> s.fault,
                             budget |-> withLimits([s.budget EXCEPT !.Attempt = 1,
                                                      !.ConsecutiveRetry = 1],
                                                   s.fault.Class, cfg),
                             DueAt |-> now, DispatchFailures |-> 0, ParentNotified |-> FALSE,
                             GoalLimitRestart |-> isGoalEmptyResponseStopReason(s.Reason)]]

applyControlCommand(th, action, now, cfg) ==
    CASE action = "retry_now" -> commandRetryNow(th, now)
      [] action = "cancel_retry" -> commandCancelRetry(th)
      [] action = "restart_retry" -> commandRestartRetry(th, now, cfg)
      [] OTHER -> th

----------------------------------------------------------------------------
(* Reopening a chain that stopped before anything was sent.                *)

recentTo(start, now) ==
    /\ start # 0
    /\ start <= now
    /\ now <= start + MaxAutomaticRecoveryDuration

\* A stop for lack of a transport is known to have sent nothing, and the failed
\* turn is still the last one of the thread.
neverSent(th) ==
    LET s == th.Stopped
    IN  /\ \/ s.TransportBlocked = "yes"
           \/ /\ s.TransportBlocked = "unset"
              /\ s.budget.Attempt = 0 /\ s.budget.ConsecutiveRetry = 0
              /\ th.LastAutoRetryAt <= s.fault.FailedAt
        /\ s.fault.EventKey # 0
        /\ th.LastStartedTurnID = s.fault.EventKey
        /\ th.LastStartedAt <= s.fault.FailedAt

canReopenTransportRetry(th, now) ==
    LET s == th.Stopped
    IN  /\ s # Nil
        /\ ~s.Historical
        /\ th.Pending = Nil /\ th.Awaiting = Nil /\ th.GoalStop = Nil
        /\ ~th.GoalHeld
        /\ s.Reason \in {"codex_restart_required", "shared_app_server_disabled"}
        /\ th.GoalStatus \in {"", "active"}
        /\ recentTo(IF th.RecoveryStartedAt = 0 THEN s.fault.FailedAt
                    ELSE th.RecoveryStartedAt, now)
        /\ recentTo(s.fault.FailedAt, now)
        /\ s.Reason = "shared_app_server_disabled" => neverSent(th)
        /\ th.LastStartedAt <= s.fault.FailedAt
        /\ th.LastExternalTurnAt <= s.fault.FailedAt
        /\ th.LastAbortedAt = 0 \/ th.LastAbortedAt < s.fault.FailedAt
        /\ s.fault.EventKey = 0 \/ th.LastAbortedTurnID # s.fault.EventKey

\* reopenRestartRequiredLocked for one thread.
reopenRestartRequired(th, now, cfg) ==
    LET s == th.Stopped
        b == [Attempt |-> s.budget.Attempt + 1,
              MaxAttempts |-> MinOf(recoveryLimit(s.fault.Class, cfg), s.budget.MaxAttempts),
              ConsecutiveRetry |-> s.budget.ConsecutiveRetry + 1,
              MaxConsecutive |-> MinOf(consecutiveLimit(s.fault.Class, cfg),
                                       s.budget.MaxConsecutive)]
    IN  IF ~canReopenTransportRetry(th, now) THEN th
        ELSE IF overBudget(b) THEN th
        ELSE [th EXCEPT
                !.Stopped = Nil,
                !.RecoveryStartedAt = IF @ = 0 THEN s.fault.FailedAt ELSE @,
                !.RecoveryAttempts = b.Attempt, !.ConsecutiveRetries = b.ConsecutiveRetry,
                !.Pending = [fault |-> s.fault, budget |-> b, DueAt |-> now,
                             DispatchFailures |-> 0, ParentNotified |-> FALSE,
                             GoalLimitRestart |-> FALSE]]

----------------------------------------------------------------------------
(* Deadlines and lifecycle probes.                                         *)

\* Wrong on purpose: the deadline itself is not overdue; a running retry turn
\* expires like one that never started.
overdueAfterDeadline(th, now) ==
    /\ th.Awaiting # Nil
    /\ th.Awaiting.RetryTurnID = 0
    /\ th.Awaiting.StartDeadline < now

overdueWhileRunning(th, now) ==
    th.Awaiting # Nil /\ th.Awaiting.StartDeadline <= now

startOverdue(th, now) ==
    /\ th.Awaiting # Nil
    /\ th.Awaiting.RetryTurnID = 0
    /\ th.Awaiting.StartDeadline <= now

expireUnacknowledged(th, now, cfg) ==
    IF startOverdue(th, now)
    THEN rescheduleAwaitingWithPolicy(th, now, "start_not_acknowledged", TRUE, cfg)
    ELSE th

awaitingSince(a) == IF a.StartedAt = 0 THEN a.DispatchStartedAt ELSE a.StartedAt

\* The turn of an acknowledged retry was found idle for the last needed time.
advanceInactiveAwaiting(th, now, cfg) ==
    LET a == th.Awaiting
        next == [a.budget EXCEPT !.Attempt = @ + 1,
                                 !.ConsecutiveRetry = IF th.CurrentTurnProgress THEN 1
                                                      ELSE @ + 1]
        t == [th EXCEPT !.CurrentTurnProgress = FALSE]
        since == awaitingSince(a)
    IN  IF overBudget(next)
        THEN exhaustRetry(t, a.fault, next, budgetStopReason(a.fault, next, cfg),
                          since # 0 /\ now > since + StoppedRetryDisplayWindow, now)
        ELSE [requeue(t, next, now + retryDelay(next.ConsecutiveRetry, cfg),
                      a.DispatchFailures)
                EXCEPT !.RecoveryAttempts = next.Attempt,
                       !.ConsecutiveRetries = next.ConsecutiveRetry,
                       !.Stopped = Nil, !.GoalStop = Nil]

probeFailed(th, reason, cfg) ==
    LET failures == th.Awaiting.DispatchFailures + 1
    IN  IF controllerFailureNeedsAction(reason) \/ failures >= cfg.ControllerFailureLimit
        THEN stopAwaitingForController(th, reason)
        ELSE [th EXCEPT !.Awaiting = [@ EXCEPT !.DispatchFailures = failures]]

probeFoundActive(th) ==
    [th EXCEPT !.Awaiting = [@ EXCEPT !.DispatchFailures = 0, !.LifecycleChecks = 0]]

foundIdleOnce(a) == [a EXCEPT !.DispatchFailures = 0, !.LifecycleChecks = @ + 1]

probeFoundIdle(th, now, cfg) ==
    LET t == [th EXCEPT !.Awaiting = foundIdleOnce(@)]
    IN  IF t.Awaiting.LifecycleChecks < AwaitingLifecycleConfirmations THEN t
        ELSE advanceInactiveAwaiting(t, now, cfg)

----------------------------------------------------------------------------
(* Dispatch and its results.                                               *)

\* The held-goal branch of dispatchDueLocked.
heldFromDispatch(th) ==
    th.GoalHeld /\ ~goalLimitRestartPending(th) /\ ~heldConversationStillAllowed(th)

clearHeldRetry(th) ==
    IF th.Pending # Nil \/ th.Awaiting # Nil
    THEN [dropHeldRetry(th) EXCEPT !.Stopped = Nil] ELSE th

pendingDue(th, now) == th.Pending # Nil /\ th.Pending.DueAt <= now /\ th.Awaiting = Nil

recoveryTimeExceeded(th, now) ==
    /\ th.RecoveryStartedAt # 0
    /\ now > th.RecoveryStartedAt + MaxAutomaticRecoveryDuration

\* Wrong on purpose: the dispatched retry has no action yet.
dispatchWithoutAction(th, now, cfg) ==
    [th EXCEPT !.Pending = Nil, !.LastAutoRetryAt = now,
               !.Awaiting = [fault |-> th.Pending.fault, budget |-> th.Pending.budget,
                             DispatchStartedAt |-> now, RetryTurnID |-> 0,
                             DispatchFailures |-> th.Pending.DispatchFailures]]

startDispatch(th, now, cfg) ==
    LET p == th.Pending
    IN  [th EXCEPT !.Pending = Nil, !.LastAutoRetryAt = now,
                   !.Awaiting = [fault |-> p.fault, budget |-> p.budget,
                                 RetryTurnID |-> 0, Action |-> "dispatching",
                                 DispatchFailures |-> p.DispatchFailures,
                                 ParentNotified |-> p.ParentNotified,
                                 GoalLimitRestart |-> p.GoalLimitRestart,
                                 DispatchStartedAt |-> now,
                                 StartDeadline |-> now + cfg.StartAckTimeout,
                                 StartedAt |-> 0, LifecycleChecks |-> 0,
                                 LastLifecycleCheckAt |-> 0]]

notifyParent(th, notified) ==
    IF notified THEN [th EXCEPT !.Awaiting = [@ EXCEPT !.ParentNotified = TRUE]] ELSE th

dispatchAccepted(th, action, at, cfg) ==
    [th EXCEPT !.Awaiting = [@ EXCEPT !.Action = action, !.DispatchFailures = 0,
                                      !.StartDeadline = at + cfg.StartAckTimeout]]

\* The user's own turn is running: try again later without counting a failure.
dispatchUserActive(th, reason, at, cfg) ==
    rescheduleAwaitingWithPolicy(
        [th EXCEPT !.Awaiting = [@ EXCEPT !.DispatchFailures = 0]], at, reason, FALSE, cfg)

dispatchNotApplicable(th, reason) ==
    LET t == resetRetryState(th)
        hold == goalHoldStatusForReason(reason)
    IN  IF hold = {} THEN t
        ELSE [t EXCEPT !.GoalHeld = TRUE,
                       !.GoalStatus = IF hold = {""} THEN @ ELSE CHOOSE s \in hold : TRUE]

rescheduleGoalBlock(th, now, reason, cfg) ==
    LET failures == th.GoalStop.DispatchFailures + 1
    IN  IF controllerFailureNeedsAction(reason) \/ failures >= cfg.ControllerFailureLimit
        THEN [th EXCEPT !.GoalStop = Nil, !.GoalHeld = TRUE,
                        !.Stopped = IF @ = Nil THEN Nil
                                    ELSE [@ EXCEPT !.Reason =
                                            IF controllerFailureNeedsAction(reason) THEN reason
                                            ELSE "goal_empty_response_limit_block_failed"]]
        ELSE [th EXCEPT !.GoalStop = [@ EXCEPT !.DispatchFailures = failures,
                                               !.DueAt = now + retryDelay(failures, cfg)]]

\* Wrong on purpose: the stop is cleared together with the request.
goalBlockedClearsStop(th, status, at) ==
    [th EXCEPT !.GoalStop = Nil, !.GoalStatus = status, !.GoalHeld = TRUE, !.Stopped = Nil]

\* The goal was blocked, or was found in another inactive state.
goalBlocked(th, status, at) ==
    [th EXCEPT !.GoalStop = Nil, !.GoalStatus = status, !.GoalObservedAt = at,
               !.GoalHeld = TRUE,
               !.Stopped = [@ EXCEPT !.Reason = "goal_empty_response_limit"]]

----------------------------------------------------------------------------
(* Restart.                                                                *)

\* What loadState repairs in a saved thread of the current version.
loadThread(th) ==
    LET s == th.Stopped
    IN  [th EXCEPT
            !.Stopped = IF s = Nil THEN Nil
                        ELSE IF s.budget.ConsecutiveRetry < 1
                        THEN [s EXCEPT !.budget = [@ EXCEPT !.ConsecutiveRetry = s.budget.Attempt]]
                        ELSE s,
            !.GoalStop = IF @ = Nil \/ s = Nil THEN Nil
                         ELSE IF @.EventKey # s.fault.EventKey THEN Nil ELSE @]

\* Wrong on purpose: a restart gives the interrupted attempt back.
restartRefundsAttempt(th, now) ==
    IF th.Awaiting = Nil \/ th.Awaiting.RetryTurnID # 0 THEN th
    ELSE requeue(th, completedBudget(th.Awaiting.budget), now, th.Awaiting.DispatchFailures)

\* A dispatch that the previous process never saw start is queued again.
reconcileStartupState(th, now) ==
    IF th.Awaiting = Nil THEN th
    ELSE IF th.Awaiting.RetryTurnID # 0 THEN th
    ELSE requeue(th, th.Awaiting.budget, now, th.Awaiting.DispatchFailures)
=============================================================================
