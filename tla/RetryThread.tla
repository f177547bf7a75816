---------------------------- MODULE RetryThread ----------------------------
(***************************************************************************)
(* The retry state of one Codex thread (ThreadState) and every handler     *)
(* that changes it, as an operator from the thread before to the thread    *)
(* after.  At most one retry chain lives on a thread: queued (Pending),    *)
(* handed to a dispatch job or running as a turn (Awaiting), or given up   *)
(* (Stopped).                                                              *)
(*                                                                         *)
(* A completed turn has one completion event, so the key of the failure    *)
(* event and the failed turn's id are one field, EventKey.  The paths      *)
(* (CodexHome, RolloutPath), StoppedAt and RequestedAt are left out: no    *)
(* retry decision reads them.                                              *)
(***************************************************************************)
EXTENDS RetryPolicy

CONSTANTS
    Nil,                          \* the nil pointer
    DispatchSlack,                \* slack of the dispatch window (2 s)
    NativeGoalContinuationWindow, \* canAdoptNativeGoalTurn (5 s)
    MaxAutomaticRecoveryDuration, \* the circuit breaker (30 min)
    StoppedRetryDisplayWindow,    \* a stop older than this is Historical (1 h)
    AwaitingLifecycleConfirmations

ASSUME ThreadConstantsAssumption ==
    /\ DispatchSlack \in Nat
    /\ NativeGoalContinuationWindow \in Nat
    /\ MaxAutomaticRecoveryDuration \in Nat
    /\ StoppedRetryDisplayWindow \in Nat
    /\ AwaitingLifecycleConfirmations \in Nat

----------------------------------------------------------------------------
(* The state of a thread.                                                  *)

Fault == [EventKey : Nat, FailedAt : Nat, OriginTurnStartedAt : Nat,
          Class : FailureClasses]

\* Attempt numbers the retry that is queued or running; in a stopped retry it
\* is the number of completed attempts.
Budget == [Attempt : Nat, MaxAttempts : Nat, ConsecutiveRetry : Nat,
           MaxConsecutive : Nat]

PendingRetry ==
    [fault : Fault, budget : Budget, DueAt : Nat, DispatchFailures : Nat,
     ParentNotified : BOOLEAN, GoalLimitRestart : BOOLEAN]

RetryActions == {"dispatching", "goal_resume", "goal_active",
                 "conversation_continue", "subagent_continue"}

AwaitingRetry ==
    [fault : Fault, budget : Budget, RetryTurnID : Nat, Action : RetryActions,
     DispatchFailures : Nat, ParentNotified : BOOLEAN, GoalLimitRestart : BOOLEAN,
     DispatchStartedAt : Nat, StartDeadline : Nat, StartedAt : Nat,
     LifecycleChecks : Nat, LastLifecycleCheckAt : Nat]

StoppedRetry ==
    [fault : Fault, budget : Budget, Reason : StopReasons, Historical : BOOLEAN,
     TransportBlocked : {"unset", "yes", "no"}]

GoalStopRequest == [EventKey : Nat, DueAt : Nat, DispatchFailures : Nat]

\* Nil is none of the records it stands in for.
ASSUME NilAssumption ==
    Nil \notin PendingRetry \cup AwaitingRetry \cup StoppedRetry \cup GoalStopRequest

ThreadState ==
    [RecoveryAttempts : Nat, ConsecutiveRetries : Nat, RecoveryStartedAt : Nat,
     LastFailureAt : Nat, LastAutoRetryAt : Nat,
     GoalStatus : GoalStates, GoalUpdatedAt : Nat, GoalObservedAt : Nat, GoalHeld : BOOLEAN,
     LastStartedTurnID : Nat, LastStartedAt : Nat,
     LastExternalTurnID : Nat, LastExternalTurnAt : Nat,
     CurrentTurnProgress : BOOLEAN, LastAbortedTurnID : Nat, LastAbortedAt : Nat,
     Pending : PendingRetry \cup {Nil}, Awaiting : AwaitingRetry \cup {Nil},
     Stopped : StoppedRetry \cup {Nil}, GoalStop : GoalStopRequest \cup {Nil}]

NewThread ==
    [RecoveryAttempts |-> 0, ConsecutiveRetries |-> 0, RecoveryStartedAt |-> 0,
     LastFailureAt |-> 0, LastAutoRetryAt |-> 0,
     GoalStatus |-> "", GoalUpdatedAt |-> 0, GoalObservedAt |-> 0, GoalHeld |-> FALSE,
     LastStartedTurnID |-> 0, LastStartedAt |-> 0,
     LastExternalTurnID |-> 0, LastExternalTurnAt |-> 0,
     CurrentTurnProgress |-> FALSE, LastAbortedTurnID |-> 0, LastAbortedAt |-> 0,
     Pending |-> Nil, Awaiting |-> Nil, Stopped |-> Nil, GoalStop |-> Nil]

\* A lifecycle record of a rollout file.  class is "success", "none" (a failure
\* that is not retried) or a failure class; key names the failure a parent
\* recovery notice is about.
EventKinds ==
    {"task_started", "task_user_input", "task_progress", "task_complete", "turn_aborted",
     "thread_goal_updated", "subagent_recovery_notice"}

Event == [kind : EventKinds, turn : Nat, at : Nat,
          class : FailureClasses \cup {"success", "none"},
          status : GoalStates, updatedAt : Nat, key : Nat]

----------------------------------------------------------------------------
(* Questions about a thread.                                               *)

automaticGoalLimitStopped(th) ==
    th.Stopped # Nil /\ isGoalEmptyResponseStopReason(th.Stopped.Reason)

goalLimitRestartPending(th) ==
    \/ th.Pending # Nil /\ th.Pending.GoalLimitRestart
    \/ th.Awaiting # Nil /\ th.Awaiting.GoalLimitRestart

retryOrigin(th) ==
    IF th.Pending # Nil THEN th.Pending.fault.OriginTurnStartedAt
    ELSE IF th.Awaiting # Nil THEN th.Awaiting.fault.OriginTurnStartedAt
    ELSE 0

heldConversationStillAllowed(th) ==
    heldConversationAllowed(th.GoalStatus, th.GoalUpdatedAt, retryOrigin(th))

withinDispatchWindow(awaiting, at) ==
    /\ at + DispatchSlack >= awaiting.DispatchStartedAt
    /\ awaiting.StartDeadline # 0 => at <= awaiting.StartDeadline + DispatchSlack

\* Does a task_started event become the retry turn of the dispatched retry?
acknowledges(th, ev) ==
    /\ th.Awaiting # Nil
    /\ th.Awaiting.RetryTurnID = 0
    /\ ev.turn # 0
    /\ withinDispatchWindow(th.Awaiting, ev.at)

isRetryTurn(th, turn) == th.Awaiting # Nil /\ th.Awaiting.RetryTurnID = turn

canAdoptNativeGoalTurn(th, ev) ==
    /\ th.Pending # Nil
    /\ th.Pending.fault.Class = "empty_response"
    /\ th.GoalStatus = "active"
    /\ ~th.GoalHeld
    /\ ev.turn # 0
    /\ th.Pending.fault.FailedAt # 0
    /\ ev.at \in th.Pending.fault.FailedAt ..
                 th.Pending.fault.FailedAt + NativeGoalContinuationWindow

canAdoptSubagentTurn(th, ev) ==
    /\ th.Pending # Nil
    /\ th.Pending.ParentNotified
    /\ th.Pending.fault.Class = "empty_response"
    /\ ev.turn # 0
    /\ th.Pending.fault.FailedAt # 0
    /\ ev.at >= th.Pending.fault.FailedAt

externalTurnOrigin(th, ev) ==
    IF /\ ev.turn # 0
       /\ ev.turn = th.LastExternalTurnID
       /\ ev.at >= th.LastExternalTurnAt
    THEN th.LastExternalTurnAt
    ELSE 0

----------------------------------------------------------------------------
(* Ends of a chain.                                                        *)

\* resetRetryStateLocked; cancelRetryLocked also cancels the running job.
resetRetryState(th) ==
    [th EXCEPT !.Pending = Nil, !.Awaiting = Nil, !.Stopped = Nil, !.GoalStop = Nil,
               !.RecoveryAttempts = 0, !.ConsecutiveRetries = 0,
               !.CurrentTurnProgress = FALSE]

\* The goal hold forgets a chain but keeps what was already stopped.
dropHeldRetry(th) ==
    [th EXCEPT !.Pending = Nil, !.Awaiting = Nil, !.RecoveryAttempts = 0,
               !.ConsecutiveRetries = 0, !.CurrentTurnProgress = FALSE]

completedBudget(budget) ==
    [budget EXCEPT !.Attempt = completedRetryCount(@),
                   !.ConsecutiveRetry = completedRetryCount(@)]

\* Gives the chain up: budget is the one the next retry would have had.
stopRetry(th, fault, budget, reason, historical, blocked) ==
    LET done == completedBudget(budget)
    IN  [th EXCEPT !.Pending = Nil, !.Awaiting = Nil,
                   !.RecoveryAttempts = done.Attempt,
                   !.ConsecutiveRetries = done.ConsecutiveRetry,
                   !.Stopped = [fault |-> fault, budget |-> done, Reason |-> reason,
                                Historical |-> historical, TransportBlocked |-> blocked]]

\* Wrong on purpose: a goal block is requested, but the stop is not marked
\* as a goal limit.
exhaustWithoutGoalReason(th, fault, budget, reason, historical, now) ==
    [stopRetry(th, fault, budget, reason, historical, "unset")
        EXCEPT !.GoalStop = IF fault.Class = "empty_response" /\ th.GoalStatus = "active"
                            THEN [EventKey |-> fault.EventKey, DueAt |-> now,
                                  DispatchFailures |-> 0]
                            ELSE Nil]

\* The chain has used its budget.  Repeated empty replies to an active goal also
\* request that the goal be blocked.
exhaustRetry(th, fault, budget, reason, historical, now) ==
    IF fault.Class = "empty_response" /\ th.GoalStatus = "active"
    THEN [stopRetry(th, fault, budget, "goal_empty_response_limit", historical, "unset")
            EXCEPT !.GoalStop = [EventKey |-> fault.EventKey, DueAt |-> now,
                                 DispatchFailures |-> 0]]
    ELSE stopRetry(th, fault, budget, reason, historical, "unset")

budgetStopReason(fault, budget, cfg) ==
    retryStopReasonForClass(fault.Class, cfg, budget.Attempt, budget.MaxAttempts,
                            budget.ConsecutiveRetry, budget.MaxConsecutive)

overBudget(budget) ==
    \/ budget.Attempt > budget.MaxAttempts
    \/ budget.ConsecutiveRetry > budget.MaxConsecutive

----------------------------------------------------------------------------
(* Rollout events.                                                         *)

\* A turn that Codex or its goal engine started becomes the queued retry.
adoptTurn(th, ev, action) ==
    LET p == th.Pending
    IN  [th EXCEPT !.Pending = Nil, !.LastAutoRetryAt = ev.at,
                   !.Awaiting = [fault |-> p.fault, budget |-> p.budget,
                                 RetryTurnID |-> ev.turn, Action |-> action,
                                 DispatchFailures |-> p.DispatchFailures,
                                 ParentNotified |-> p.ParentNotified,
                                 GoalLimitRestart |-> p.GoalLimitRestart,
                                 DispatchStartedAt |-> ev.at, StartDeadline |-> 0,
                                 StartedAt |-> ev.at, LifecycleChecks |-> 0,
                                 LastLifecycleCheckAt |-> 0]]

handleTaskStarted(th, ev) ==
    LET s == [th EXCEPT !.LastStartedTurnID = ev.turn, !.LastStartedAt = ev.at,
                        !.CurrentTurnProgress = FALSE]
    IN  IF automaticGoalLimitStopped(th) THEN s
        ELSE IF acknowledges(th, ev)
        THEN [s EXCEPT !.Awaiting = [@ EXCEPT !.RetryTurnID = ev.turn, !.StartedAt = ev.at]]
        ELSE IF isRetryTurn(th, ev.turn) THEN th
        ELSE IF th.Awaiting = Nil /\ canAdoptNativeGoalTurn(th, ev)
        THEN adoptTurn(s, ev, "goal_active")
        ELSE IF th.Awaiting = Nil /\ canAdoptSubagentTurn(th, ev)
        THEN adoptTurn(s, ev, "subagent_continue")
        ELSE resetRetryState([s EXCEPT !.LastExternalTurnID = ev.turn,
                                       !.LastExternalTurnAt = ev.at])

handleTaskUserInput(th, ev) ==
    LET turn == IF ev.turn = 0 THEN th.LastStartedTurnID ELSE ev.turn
    IN  IF automaticGoalLimitStopped(th) THEN th
        ELSE IF isRetryTurn(th, turn)
        THEN IF th.Awaiting.Action \in {"goal_active", "goal_resume"}
             THEN resetRetryState(th) ELSE th
        ELSE IF th.Pending # Nil /\ turn # 0 /\ turn = th.LastStartedTurnID
        THEN resetRetryState(th)
        ELSE th

handleTaskProgress(th, ev) ==
    IF /\ th.Awaiting # Nil
       /\ th.Awaiting.RetryTurnID # 0
       /\ th.Awaiting.RetryTurnID = th.LastStartedTurnID
       /\ ev.at >= th.Awaiting.StartedAt
    THEN [th EXCEPT !.CurrentTurnProgress = TRUE]
    ELSE th

handleTurnAborted(th, ev) ==
    LET turn == IF ev.turn = 0 THEN th.LastStartedTurnID ELSE ev.turn
        s == [th EXCEPT !.LastAbortedTurnID = turn, !.LastAbortedAt = ev.at]
    IN  IF automaticGoalLimitStopped(th) THEN s ELSE resetRetryState(s)

\* Wrong on purpose: every failure restarts the circuit breaker's clock.
alwaysStartClock(th, now) == [th EXCEPT !.RecoveryStartedAt = now]

\* The first failure of a chain starts the circuit breaker's clock.
startClock(th, now) ==
    IF \/ th.RecoveryAttempts = 0 /\ th.ConsecutiveRetries = 0
       \/ th.RecoveryStartedAt = 0
    THEN [th EXCEPT !.RecoveryStartedAt = now] ELSE th

\* scheduleFailureLocked: queue retry number attempt of the failure ev, give the
\* chain up, or do nothing because the goal is held or the failure is final.
scheduleFailure(th, ev, now, cfg, attempt, consecutive, origin, notified) ==
    LET clocked == startClock(th, now)
        blockedNow == /\ th.GoalStatus = "blocked"
                      /\ goalBlockedByFailure(th.GoalUpdatedAt, ev.at)
        t == [clocked EXCEPT !.GoalHeld = @ /\ ~blockedNow]
        fault == [EventKey |-> ev.turn, FailedAt |-> ev.at,
                  OriginTurnStartedAt |-> origin, Class |-> ev.class]
        budget == [Attempt |-> attempt, MaxAttempts |-> recoveryLimit(ev.class, cfg),
                   ConsecutiveRetry |-> consecutive,
                   MaxConsecutive |-> consecutiveLimit(ev.class, cfg)]
        failed == [t EXCEPT !.CurrentTurnProgress = FALSE, !.LastFailureAt = ev.at]
        tooLong == now > t.RecoveryStartedAt + MaxAutomaticRecoveryDuration
    IN  IF t.GoalHeld /\ ~heldConversationAllowed(t.GoalStatus, t.GoalUpdatedAt, origin)
        THEN dropHeldRetry(failed)
        ELSE IF ev.class = "none" THEN resetRetryState(t)
        ELSE IF tooLong \/ overBudget(budget)
        THEN exhaustRetry(failed, fault, budget,
                          IF tooLong THEN "recovery_time_limit"
                          ELSE budgetStopReason(fault, budget, cfg), FALSE, now)
        ELSE [failed EXCEPT
                !.RecoveryAttempts = attempt, !.ConsecutiveRetries = consecutive,
                !.Awaiting = Nil, !.Stopped = Nil, !.GoalStop = Nil,
                !.Pending = [fault |-> fault, budget |-> budget,
                             DueAt |-> now + retryDelay(consecutive, cfg),
                             DispatchFailures |-> 0, ParentNotified |-> notified,
                             GoalLimitRestart |-> FALSE]]

handleTaskComplete(th, ev, now, cfg) ==
    LET a == th.Awaiting
    IN  IF automaticGoalLimitStopped(th) THEN th
        ELSE IF ev.turn # 0 /\ ev.turn = th.LastAbortedTurnID THEN resetRetryState(th)
        ELSE IF a # Nil
        THEN IF a.RetryTurnID = 0 \/ a.RetryTurnID # ev.turn THEN th
             ELSE IF ev.class = "success" THEN resetRetryState(th)
             ELSE scheduleFailure([th EXCEPT !.CurrentTurnProgress = FALSE, !.Awaiting = Nil],
                                  ev, now, cfg, a.budget.Attempt + 1,
                                  IF th.CurrentTurnProgress THEN 1
                                  ELSE a.budget.ConsecutiveRetry + 1,
                                  a.fault.OriginTurnStartedAt, a.ParentNotified)
        ELSE IF th.Pending # Nil
        THEN IF th.Pending.fault.EventKey = ev.turn /\ ev.class = "success"
             THEN resetRetryState(th) ELSE th
        ELSE IF ev.class = "success" THEN resetRetryState(th)
        ELSE scheduleFailure([th EXCEPT !.CurrentTurnProgress = FALSE],
                             ev, now, cfg, 1, 1, externalTurnOrigin(th, ev), FALSE)

\* A goal update that was already observed, or that an older file replays.
staleGoalUpdate(th, ev) ==
    \/ ev.updatedAt < th.GoalUpdatedAt
    \/ th.GoalObservedAt # 0 /\ ev.at <= th.GoalObservedAt

\* The goal changed after the goal limit stopped the chain.
goalUpdatedAfterLimit(th, t) ==
    IF t.GoalStatus = "active"
    THEN IF th.Stopped.Reason = "goal_empty_response_limit_block_failed"
         THEN [t EXCEPT !.GoalHeld = TRUE]
         ELSE IF th.GoalStatus # "active" /\ th.GoalStop = Nil
         THEN [t EXCEPT !.Stopped = Nil, !.RecoveryAttempts = 0, !.ConsecutiveRetries = 0,
                        !.CurrentTurnProgress = FALSE, !.GoalHeld = FALSE]
         ELSE [t EXCEPT !.GoalHeld = FALSE]
    ELSE [t EXCEPT !.GoalStop = Nil, !.GoalHeld = TRUE,
                   !.Stopped = [@ EXCEPT !.Reason = "goal_empty_response_limit"]]

handleGoalUpdated(th, ev) ==
    LET t == [th EXCEPT !.GoalStatus = ev.status, !.GoalUpdatedAt = ev.updatedAt,
                        !.GoalObservedAt = ev.at]
        held == goalRequiresHold(ev.status, ev.updatedAt, th.LastFailureAt)
    IN  IF staleGoalUpdate(th, ev) THEN th
        ELSE IF goalLimitRestartPending(th) /\ ev.status = "blocked"
        THEN [t EXCEPT !.GoalHeld = TRUE]
        ELSE IF automaticGoalLimitStopped(th) /\ ev.status \in limitGoalStatuses
        THEN goalUpdatedAfterLimit(th, t)
        ELSE IF ~held \/ heldConversationStillAllowed(t)
        THEN [t EXCEPT !.GoalHeld = held]
        ELSE resetRetryState([t EXCEPT !.GoalHeld = TRUE])

\* The parent task confirmed that it knows about this recovery.
handleSubagentRecoveryNotice(th, ev) ==
    LET mark(retry) == IF retry # Nil /\ retry.fault.EventKey = ev.key
                       THEN [retry EXCEPT !.ParentNotified = TRUE] ELSE retry
    IN  [th EXCEPT !.Pending = mark(th.Pending), !.Awaiting = mark(th.Awaiting)]

handleEvent(th, ev, now, cfg) ==
    CASE ev.kind = "task_started" -> handleTaskStarted(th, ev)
      [] ev.kind = "task_user_input" -> handleTaskUserInput(th, ev)
      [] ev.kind = "task_progress" -> handleTaskProgress(th, ev)
      [] ev.kind = "task_complete" -> handleTaskComplete(th, ev, now, cfg)
      [] ev.kind = "turn_aborted" -> handleTurnAborted(th, ev)
      [] ev.kind = "thread_goal_updated" -> handleGoalUpdated(th, ev)
      [] ev.kind = "subagent_recovery_notice" -> handleSubagentRecoveryNotice(th, ev)
      [] OTHER -> th

\* Does handling ev also cancel the thread's running job (activeCtx)?
cancelsJob(th, ev) ==
    CASE ev.kind = "task_started" ->
            /\ ~automaticGoalLimitStopped(th)
            /\ th.Awaiting # Nil \/ th.Pending # Nil
            /\ ~acknowledges(th, ev) /\ ~isRetryTurn(th, ev.turn)
            /\ th.Awaiting = Nil => ~canAdoptNativeGoalTurn(th, ev)
                                    /\ ~canAdoptSubagentTurn(th, ev)
      [] ev.kind = "task_user_input" ->
            handleTaskUserInput(th, ev) # th
      [] ev.kind = "turn_aborted" -> ~automaticGoalLimitStopped(th)
      [] ev.kind = "thread_goal_updated" ->
            /\ ~staleGoalUpdate(th, ev)
            /\ ~(goalLimitRestartPending(th) /\ ev.status = "blocked")
            /\ IF automaticGoalLimitStopped(th) /\ ev.status \in limitGoalStatuses
               THEN ev.status # "active"
               ELSE /\ goalRequiresHold(ev.status, ev.updatedAt, th.LastFailureAt)
                    /\ ~heldConversationAllowed(ev.status, ev.updatedAt, retryOrigin(th))
      [] OTHER -> FALSE
=============================================================================
