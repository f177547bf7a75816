---------------------------- MODULE DaemonProofs ----------------------------
(***************************************************************************)
(* The invariants of the daemon, for any number of threads, any settings,  *)
(* any bound and any interleaving of ticks, jobs, Codex, panel, crashes    *)
(* and failed writes.                                                      *)
(*                                                                         *)
(* Every handler of a thread's retry keeps the thread sound: typed, with   *)
(* its retry in one place, its counters equal to those of the retry, and   *)
(* no request to block a goal without the stop that raised it.  The        *)
(* handlers of rollout events (RetryThread) come first, then those of      *)
(* RetryControl: configuration reload, panel commands, reopening,          *)
(* deadlines, lifecycle probes, dispatch and its results, and a restart.   *)
(*                                                                         *)
(* The type invariant of the daemon is not inductive alone: a handler that *)
(* moves a dispatched retry back to the queue copies its record, so the    *)
(* types depend on where the retry is.  The inductive invariant therefore  *)
(* joins the types with the soundness of every thread, in memory and on    *)
(* disk.                                                                   *)
(*                                                                         *)
(* The dispatcher comes next: slots, jobs and limits (OneJobPerThread,     *)
(* DispatchWithinLimits, WorkConserving).  At last what one step may do to *)
(* a retry chain, restarts included: a chain that goes on keeps its clock, *)
(* its count and the notice to its parent, the stop of a goal limit stays, *)
(* and no dispatch is forgotten by its job and by the check of the         *)
(* deadlines.                                                              *)
(***************************************************************************)
EXTENDS DaemonProperties, SequenceTheorems, FiniteSetTheorems, TLAPS

Sound(th) ==
    /\ th \in ThreadState
    /\ onePhase(th)
    /\ goalStopBacked(th)
    /\ countersAgree(th)

----------------------------------------------------------------------------
(* The policy functions.                                                   *)

\* completedRetryCount (retry_state.go) never goes below zero.
LEMMA CompletedRetryCountType ==
    ASSUME NEW n \in Nat
    PROVE  completedRetryCount(n) \in Nat /\ completedRetryCount(n) <= n
BY DEF completedRetryCount

\* The limits of a failure class lie between one and the configured limits
\* (retryLimits, retryLimitsForDecision).
THEOREM ClassLimits ==
    ASSUME NEW class \in FailureClasses, NEW cfg \in Config
    PROVE  /\ recoveryLimit(class, cfg) \in 1..cfg.MaxRecoveryAttempts
           /\ consecutiveLimit(class, cfg) \in 1..cfg.MaxConsecutiveRetries
<1>1. cfg.MaxRecoveryAttempts \in Nat \ {0} /\ cfg.MaxConsecutiveRetries \in Nat \ {0}
      /\ cfg.AuthMaxAttempts \in Nat \ {0} /\ cfg.UnknownMaxAttempts \in Nat \ {0}
    BY DEF Config, Positive
<1> QED
    BY <1>1 DEF recoveryLimit, consecutiveLimit, classCeiling, MinOf

\* The reason shown for a chain over its budget names the limit that it hit: the
\* authentication ceiling where that is the limit, else the configured one; never
\* the generic retry_limit (retryStopReasonForClass).
THEOREM StopReasonNamesLimit ==
    ASSUME NEW class \in FailureClasses, NEW cfg \in Config,
           NEW attempt \in Nat, NEW consecutive \in Nat,
           attempt > recoveryLimit(class, cfg) \/ consecutive > consecutiveLimit(class, cfg),
           NEW reason,
           reason = retryStopReasonForClass(class, cfg, attempt, recoveryLimit(class, cfg),
                                            consecutive, consecutiveLimit(class, cfg))
    PROVE  /\ reason = "recovery_attempt_limit" =>
                  attempt > cfg.MaxRecoveryAttempts \/ class = "unknown"
           /\ reason = "consecutive_retry_limit" => consecutive > cfg.MaxConsecutiveRetries
           /\ reason = "auth_attempt_limit" =>
                  /\ class = "auth_limited"
                  /\ attempt > cfg.AuthMaxAttempts \/ consecutive > cfg.AuthMaxAttempts
           /\ reason # "retry_limit"
<1>1. cfg.MaxRecoveryAttempts \in Nat /\ cfg.MaxConsecutiveRetries \in Nat
      /\ cfg.AuthMaxAttempts \in Nat \ {0} /\ cfg.UnknownMaxAttempts \in Nat \ {0}
  BY DEF Config, Positive
<1> QED
  BY <1>1 DEF retryStopReasonForClass, retryStopReason, recoveryLimit, consecutiveLimit,
              classCeiling, MinOf

\* The wait before a retry (retryDelay) is a time, never shorter than the
\* configured first delay and, outside the fixed strategy, never longer than
\* the configured maximum.
THEOREM DelayBounded ==
    ASSUME NEW n \in Nat, NEW cfg \in Config
    PROVE  /\ retryDelay(n, cfg) \in Nat
           /\ retryDelay(n, cfg) >= cfg.InitialDelay
           /\ cfg.DelayStrategy # "fixed" => retryDelay(n, cfg) <= cfg.MaxDelay
<1>1. /\ cfg.InitialDelay \in Nat /\ cfg.MaxDelay \in Nat
      /\ cfg.DelayStrategy # "fixed" => cfg.MaxDelay >= cfg.InitialDelay
    BY DEF Config, Positive
<1> DEFINE grown == {d \in cfg.InitialDelay..cfg.MaxDelay :
                    d = IF cfg.DelayStrategy = "linear"
                        THEN cfg.InitialDelay + completedRetryCount(n) * cfg.DelayIncrement
                        ELSE cfg.InitialDelay * PowerOfTwo[completedRetryCount(n)]}
<1>2. grown # {} => (CHOOSE d \in grown : TRUE) \in cfg.InitialDelay..cfg.MaxDelay
    <2>1. \A d \in grown : d \in cfg.InitialDelay..cfg.MaxDelay
        OBVIOUS
    <2> HIDE DEF grown
    <2> QED BY <2>1
<1>3. retryDelay(n, cfg) = IF cfg.DelayStrategy = "fixed" THEN cfg.InitialDelay
                           ELSE IF grown = {} THEN cfg.MaxDelay
                           ELSE CHOOSE d \in grown : TRUE
    BY DEF retryDelay
<1> HIDE DEF grown
<1> QED BY <1>1, <1>2, <1>3

----------------------------------------------------------------------------
(* Ends of a chain.                                                        *)

\* cancelRetryLocked and resetRetryStateLocked leave no retry.
LEMMA ResetSound ==
    ASSUME NEW th \in ThreadState
    PROVE  Sound(resetRetryState(th))
BY DEF Sound, resetRetryState, ThreadState, onePhase, goalStopBacked, countersAgree, liveRetry

\* The goal hold forgets a queued or dispatched retry.
LEMMA DropSound ==
    ASSUME NEW th, Sound(th)
    PROVE  Sound(dropHeldRetry(th))
BY DEF Sound, dropHeldRetry, ThreadState, onePhase, goalStopBacked, countersAgree, liveRetry,
       automaticGoalLimitStopped

LEMMA StopRetryType ==
    ASSUME NEW th \in ThreadState, NEW fault \in Fault, NEW budget \in Budget,
           NEW reason \in StopReasons, NEW historical \in BOOLEAN,
           NEW blocked \in {"unset", "yes", "no"}
    PROVE  /\ stopRetry(th, fault, budget, reason, historical, blocked) \in ThreadState
           /\ stopRetry(th, fault, budget, reason, historical, blocked).Pending = Nil
           /\ stopRetry(th, fault, budget, reason, historical, blocked).Awaiting = Nil
           /\ stopRetry(th, fault, budget, reason, historical, blocked).GoalStop = th.GoalStop
           /\ stopRetry(th, fault, budget, reason, historical, blocked).Stopped # Nil
           /\ stopRetry(th, fault, budget, reason, historical, blocked).Stopped.Reason = reason
           /\ stopRetry(th, fault, budget, reason, historical, blocked).Stopped.fault = fault
<1> DEFINE done == completedBudget(budget)
           stop == [fault |-> fault, budget |-> done, Reason |-> reason,
                    Historical |-> historical, TransportBlocked |-> blocked]
<1>1. done \in Budget /\ done.Attempt \in Nat /\ done.ConsecutiveRetry \in Nat
    BY CompletedRetryCountType DEF completedBudget, Budget
<1>2. stop \in StoppedRetry
    BY <1>1 DEF StoppedRetry
<1>3. stop # Nil
    BY <1>2, NilAssumption
<1> DEFINE s == stopRetry(th, fault, budget, reason, historical, blocked)
<1>4. s = [th EXCEPT !.Pending = Nil, !.Awaiting = Nil, !.RecoveryAttempts = done.Attempt,
                     !.ConsecutiveRetries = done.ConsecutiveRetry, !.Stopped = stop]
    BY DEF stopRetry
<1>5. stop.Reason = reason /\ stop.fault = fault
    OBVIOUS
<1> HIDE DEF done, stop, s
<1>6. s \in ThreadState
    BY <1>1, <1>2, <1>4 DEF ThreadState
<1>7. /\ s.Pending = Nil /\ s.Awaiting = Nil /\ s.GoalStop = th.GoalStop
      /\ s.Stopped = stop
    BY <1>4 DEF ThreadState
<1> QED
    BY <1>3, <1>5, <1>6, <1>7 DEF s

\* Giving a chain up, with or without a request to block its goal.
LEMMA ExhaustSound ==
    ASSUME NEW th \in ThreadState, th.GoalStop = Nil,
           NEW fault \in Fault, NEW budget \in Budget,
           NEW reason \in StopReasons, NEW historical \in BOOLEAN, NEW time \in Nat
    PROVE  Sound(exhaustRetry(th, fault, budget, reason, historical, time))
<1> DEFINE stopped(r) == stopRetry(th, fault, budget, r, historical, "unset")
           req == [EventKey |-> fault.EventKey, DueAt |-> time, DispatchFailures |-> 0]
<1>1. \A r \in StopReasons : /\ stopped(r) \in ThreadState
                        /\ stopped(r).Pending = Nil /\ stopped(r).Awaiting = Nil
                        /\ stopped(r).GoalStop = Nil
                        /\ stopped(r).Stopped # Nil
                        /\ stopped(r).Stopped.Reason = r
                        /\ stopped(r).Stopped.fault = fault
    BY StopRetryType
<1>2. req \in GoalStopRequest /\ req # Nil /\ req.EventKey = fault.EventKey
    BY NilAssumption DEF GoalStopRequest, Fault
<1>3. exhaustRetry(th, fault, budget, reason, historical, time)
      = IF fault.Class = "empty_response" /\ th.GoalStatus = "active"
        THEN [stopped("goal_empty_response_limit") EXCEPT !.GoalStop = req]
        ELSE stopped(reason)
    BY DEF exhaustRetry
<1> HIDE DEF stopped, req
<1>4. Sound(stopped(reason))
    BY <1>1 DEF Sound, onePhase, goalStopBacked, countersAgree, liveRetry
<1>5. ASSUME NEW r \in ThreadState, r.Pending = Nil, r.Awaiting = Nil, r.Stopped # Nil,
             r.Stopped.Reason = "goal_empty_response_limit", r.Stopped.fault = fault
      PROVE  Sound([r EXCEPT !.GoalStop = req])
    <2> DEFINE s == [r EXCEPT !.GoalStop = req]
    <2>1. s \in ThreadState
        BY <1>2 DEF ThreadState
    <2>2. s.Pending = Nil /\ s.Awaiting = Nil /\ s.Stopped = r.Stopped /\ s.GoalStop = req
        BY <1>5 DEF ThreadState
    <2> HIDE DEF s
    <2>3. Sound(s)
        BY <1>2, <1>5, <2>1, <2>2 DEF Sound, onePhase, goalStopBacked, countersAgree, liveRetry,
            automaticGoalLimitStopped, isGoalEmptyResponseStopReason
    <2> QED BY <2>3 DEF s
<1>6. Sound([stopped("goal_empty_response_limit") EXCEPT !.GoalStop = req])
    <2> DEFINE r == stopped("goal_empty_response_limit")
    <2>1. /\ r \in ThreadState /\ r.Pending = Nil /\ r.Awaiting = Nil /\ r.Stopped # Nil
          /\ r.Stopped.Reason = "goal_empty_response_limit" /\ r.Stopped.fault = fault
        <3>1. "goal_empty_response_limit" \in StopReasons
            BY DEF StopReasons
        <3> QED BY <3>1, <1>1
    <2> QED BY <2>1, <1>5
<1> QED BY <1>3, <1>4, <1>6

\* Fields that are no part of a retry may change freely.
LEMMA FrameSound ==
    ASSUME NEW th, Sound(th), NEW s \in ThreadState,
           s.Pending = th.Pending, s.Awaiting = th.Awaiting, s.Stopped = th.Stopped,
           s.GoalStop = th.GoalStop, s.RecoveryAttempts = th.RecoveryAttempts,
           s.ConsecutiveRetries = th.ConsecutiveRetries,
           s.RecoveryStartedAt = th.RecoveryStartedAt
    PROVE  Sound(s)
BY DEF Sound, onePhase, goalStopBacked, countersAgree, liveRetry, automaticGoalLimitStopped

\* A thread whose retry is queued.
LEMMA QueuedSound ==
    ASSUME NEW s \in ThreadState, s.Pending # Nil, s.Awaiting = Nil, s.Stopped = Nil,
           s.GoalStop = Nil, s.Pending.budget.Attempt = s.RecoveryAttempts,
           s.Pending.budget.ConsecutiveRetry = s.ConsecutiveRetries,
           s.RecoveryAttempts >= 1, s.ConsecutiveRetries >= 1, s.RecoveryStartedAt # 0
    PROVE  Sound(s)
BY DEF Sound, onePhase, goalStopBacked, countersAgree, liveRetry

\* A thread whose retry is dispatched or runs.
LEMMA AwaitingSound ==
    ASSUME NEW s \in ThreadState, s.Pending = Nil, s.Awaiting # Nil, s.Stopped = Nil,
           s.GoalStop = Nil, s.Awaiting.budget.Attempt = s.RecoveryAttempts,
           s.Awaiting.budget.ConsecutiveRetry = s.ConsecutiveRetries,
           s.RecoveryAttempts >= 1, s.ConsecutiveRetries >= 1, s.RecoveryStartedAt # 0
    PROVE  Sound(s)
BY DEF Sound, onePhase, goalStopBacked, countersAgree, liveRetry

\* A thread without a live retry.
LEMMA NoRetrySound ==
    ASSUME NEW s \in ThreadState, s.Pending = Nil, s.Awaiting = Nil, s.GoalStop = Nil
    PROVE  Sound(s)
BY DEF Sound, onePhase, goalStopBacked, countersAgree, liveRetry

\* What soundness says of a queued and of a dispatched retry.
LEMMA PendingFacts ==
    ASSUME NEW th, Sound(th), th.Pending # Nil
    PROVE  /\ th.Pending \in PendingRetry
           /\ th.Awaiting = Nil /\ th.Stopped = Nil /\ th.GoalStop = Nil
           /\ th.Pending.budget.Attempt = th.RecoveryAttempts
           /\ th.Pending.budget.ConsecutiveRetry = th.ConsecutiveRetries
           /\ th.RecoveryAttempts >= 1 /\ th.ConsecutiveRetries >= 1
           /\ th.RecoveryStartedAt # 0
BY DEF Sound, ThreadState, onePhase, goalStopBacked, countersAgree, liveRetry,
       automaticGoalLimitStopped

LEMMA AwaitingFacts ==
    ASSUME NEW th, Sound(th), th.Awaiting # Nil
    PROVE  /\ th.Awaiting \in AwaitingRetry
           /\ th.Pending = Nil /\ th.Stopped = Nil /\ th.GoalStop = Nil
           /\ th.Awaiting.budget.Attempt = th.RecoveryAttempts
           /\ th.Awaiting.budget.ConsecutiveRetry = th.ConsecutiveRetries
           /\ th.RecoveryAttempts >= 1 /\ th.ConsecutiveRetries >= 1
           /\ th.RecoveryStartedAt # 0
BY DEF Sound, ThreadState, onePhase, goalStopBacked, countersAgree, liveRetry,
       automaticGoalLimitStopped

----------------------------------------------------------------------------
(* Rollout events.                                                         *)

LEMMA AdoptSound ==
    ASSUME NEW th, Sound(th), th.Pending # Nil, NEW ev \in Event, NEW action \in RetryActions
    PROVE  Sound(adoptTurn(th, ev, action))
<1> DEFINE p == th.Pending
           a == [fault |-> p.fault, budget |-> p.budget, RetryTurnID |-> ev.turn,
                 Action |-> action, DispatchFailures |-> p.DispatchFailures,
                 ParentNotified |-> p.ParentNotified,
                 GoalLimitRestart |-> p.GoalLimitRestart,
                 DispatchStartedAt |-> ev.at, StartDeadline |-> 0,
                 StartedAt |-> ev.at, LifecycleChecks |-> 0, LastLifecycleCheckAt |-> 0]
           s == adoptTurn(th, ev, action)
<1>1. a \in AwaitingRetry /\ a # Nil /\ a.budget = p.budget
    BY PendingFacts, NilAssumption DEF AwaitingRetry, PendingRetry, Event
<1>2. s = [th EXCEPT !.Pending = Nil, !.LastAutoRetryAt = ev.at, !.Awaiting = a]
    BY DEF adoptTurn
<1>3. th \in ThreadState
    BY DEF Sound
<1> HIDE DEF a, s
<1>4. s \in ThreadState
    BY <1>1, <1>2, <1>3 DEF ThreadState, Event
<1>5. /\ s.Pending = Nil /\ s.Awaiting = a /\ s.Stopped = th.Stopped
      /\ s.GoalStop = th.GoalStop /\ s.RecoveryAttempts = th.RecoveryAttempts
      /\ s.ConsecutiveRetries = th.ConsecutiveRetries
      /\ s.RecoveryStartedAt = th.RecoveryStartedAt
    BY <1>2, <1>3 DEF ThreadState
<1>6. Sound(s)
    BY <1>1, <1>4, <1>5, PendingFacts, AwaitingSound
<1> QED
    BY <1>6 DEF s

\* handleTaskStartedLocked: the retry turn is acknowledged, a turn of Codex is
\* adopted, or the chain ends.
LEMMA TaskStartedSound ==
    ASSUME NEW th, Sound(th), NEW ev \in Event
    PROVE  Sound(handleTaskStarted(th, ev))
<1> DEFINE s == [th EXCEPT !.LastStartedTurnID = ev.turn, !.LastStartedAt = ev.at,
                           !.CurrentTurnProgress = FALSE]
           ack == [s EXCEPT !.Awaiting = [@ EXCEPT !.RetryTurnID = ev.turn,
                                                   !.StartedAt = ev.at]]
           ext == [s EXCEPT !.LastExternalTurnID = ev.turn, !.LastExternalTurnAt = ev.at]
<1>1. th \in ThreadState
    BY DEF Sound
<1>2. s \in ThreadState
    BY <1>1 DEF ThreadState, Event
<1>3. /\ s.Pending = th.Pending /\ s.Awaiting = th.Awaiting /\ s.Stopped = th.Stopped
      /\ s.GoalStop = th.GoalStop /\ s.RecoveryAttempts = th.RecoveryAttempts
      /\ s.ConsecutiveRetries = th.ConsecutiveRetries
      /\ s.RecoveryStartedAt = th.RecoveryStartedAt
    BY <1>1 DEF ThreadState
<1>4. handleTaskStarted(th, ev) =
        IF automaticGoalLimitStopped(th) THEN s
        ELSE IF acknowledges(th, ev) THEN ack
        ELSE IF isRetryTurn(th, ev.turn) THEN th
        ELSE IF th.Awaiting = Nil /\ canAdoptNativeGoalTurn(th, ev)
        THEN adoptTurn(s, ev, "goal_active")
        ELSE IF th.Awaiting = Nil /\ canAdoptSubagentTurn(th, ev)
        THEN adoptTurn(s, ev, "subagent_continue")
        ELSE resetRetryState(ext)
    BY DEF handleTaskStarted
<1>5. ext \in ThreadState
    BY <1>1 DEF ThreadState, Event
<1> HIDE DEF s, ext
<1>6. Sound(s)
    BY <1>2, <1>3, FrameSound
<1>7. CASE automaticGoalLimitStopped(th)
    BY <1>4, <1>6, <1>7
<1>8. CASE ~automaticGoalLimitStopped(th) /\ acknowledges(th, ev)
    <2> DEFINE a == [s.Awaiting EXCEPT !.RetryTurnID = ev.turn, !.StartedAt = ev.at]
    <2>1. s.Awaiting # Nil
        BY <1>3, <1>8 DEF acknowledges
    <2>2. a \in AwaitingRetry /\ a # Nil /\ a.budget = s.Awaiting.budget
        <3>1. s.Awaiting \in AwaitingRetry
            BY <1>6, <2>1, AwaitingFacts
        <3>2. a \in AwaitingRetry /\ a.budget = s.Awaiting.budget
            BY <3>1 DEF AwaitingRetry, Event
        <3> QED BY <3>2, NilAssumption
    <2>3. ack = [s EXCEPT !.Awaiting = a]
        BY <1>2 DEF ThreadState
    <2> HIDE DEF a, ack
    <2>4. ack \in ThreadState
        BY <1>2, <2>2, <2>3 DEF ThreadState
    <2>5. /\ ack.Pending = s.Pending /\ ack.Awaiting = a /\ ack.Stopped = s.Stopped
          /\ ack.GoalStop = s.GoalStop /\ ack.RecoveryAttempts = s.RecoveryAttempts
          /\ ack.ConsecutiveRetries = s.ConsecutiveRetries
          /\ ack.RecoveryStartedAt = s.RecoveryStartedAt
        BY <1>2, <2>3 DEF ThreadState
    <2>6. Sound(ack)
        BY <1>6, <2>1, <2>2, <2>4, <2>5, AwaitingFacts, AwaitingSound
    <2> QED BY <1>4, <1>8, <2>6
<1>9. CASE /\ ~automaticGoalLimitStopped(th) /\ ~acknowledges(th, ev)
           /\ ~isRetryTurn(th, ev.turn) /\ th.Awaiting = Nil
           /\ canAdoptNativeGoalTurn(th, ev) \/ canAdoptSubagentTurn(th, ev)
    <2>1. s.Pending # Nil
        BY <1>3, <1>9 DEF canAdoptNativeGoalTurn, canAdoptSubagentTurn
    <2>2. Sound(adoptTurn(s, ev, "goal_active")) /\ Sound(adoptTurn(s, ev, "subagent_continue"))
        BY <1>6, <2>1, AdoptSound DEF RetryActions
    <2> QED BY <1>4, <1>9, <2>2
<1>10. Sound(resetRetryState(ext))
    BY <1>5, ResetSound
<1> QED
    BY <1>4, <1>7, <1>8, <1>9, <1>10

\* User input, progress and an abort end a chain or leave its retry alone.
LEMMA UserInputSound ==
    ASSUME NEW th, Sound(th), NEW ev \in Event
    PROVE  Sound(handleTaskUserInput(th, ev))
<1>1. Sound(resetRetryState(th))
    BY ResetSound DEF Sound
<1> QED BY <1>1 DEF handleTaskUserInput

LEMMA ProgressSound ==
    ASSUME NEW th, Sound(th), NEW ev \in Event
    PROVE  Sound(handleTaskProgress(th, ev))
<1>1. [th EXCEPT !.CurrentTurnProgress = TRUE] \in ThreadState
    BY DEF Sound, ThreadState
<1>2. Sound([th EXCEPT !.CurrentTurnProgress = TRUE])
    <2> DEFINE s == [th EXCEPT !.CurrentTurnProgress = TRUE]
    <2>1. /\ s.Pending = th.Pending /\ s.Awaiting = th.Awaiting /\ s.Stopped = th.Stopped
          /\ s.GoalStop = th.GoalStop /\ s.RecoveryAttempts = th.RecoveryAttempts
          /\ s.ConsecutiveRetries = th.ConsecutiveRetries
          /\ s.RecoveryStartedAt = th.RecoveryStartedAt
        BY DEF Sound, ThreadState
    <2> HIDE DEF s
    <2> QED BY <1>1, <2>1, FrameSound DEF s
<1> QED BY <1>2 DEF handleTaskProgress

LEMMA AbortSound ==
    ASSUME NEW th, Sound(th), NEW ev \in Event
    PROVE  Sound(handleTurnAborted(th, ev))
<1> DEFINE id == IF ev.turn = 0 THEN th.LastStartedTurnID ELSE ev.turn
           s == [th EXCEPT !.LastAbortedTurnID = id, !.LastAbortedAt = ev.at]
<1>1. th \in ThreadState
    BY DEF Sound
<1>2. id \in Nat
    BY <1>1 DEF ThreadState, Event
<1>3. handleTurnAborted(th, ev) = IF automaticGoalLimitStopped(th) THEN s ELSE resetRetryState(s)
    BY DEF handleTurnAborted
<1> HIDE DEF id
<1>4. /\ s \in ThreadState
      /\ s.Pending = th.Pending /\ s.Awaiting = th.Awaiting /\ s.Stopped = th.Stopped
      /\ s.GoalStop = th.GoalStop /\ s.RecoveryAttempts = th.RecoveryAttempts
      /\ s.ConsecutiveRetries = th.ConsecutiveRetries
      /\ s.RecoveryStartedAt = th.RecoveryStartedAt
    BY <1>1, <1>2 DEF ThreadState, Event
<1> HIDE DEF s
<1>5. Sound(s) /\ Sound(resetRetryState(s))
    BY <1>4, FrameSound, ResetSound
<1> QED BY <1>3, <1>5

\* scheduleFailureLocked keeps the thread sound: it queues the next retry with
\* the counters of the thread, gives the chain up or clears it.
LEMMA ScheduleSound ==
    ASSUME NEW th \in ThreadState, th.GoalStop = Nil,
           NEW ev \in Event, ev.class # "success",
           NEW time \in Nat, time # 0, NEW cfg \in Config,
           NEW attempt \in Nat, attempt >= 1, NEW consecutive \in Nat, consecutive >= 1,
           NEW origin \in Nat, NEW notified \in BOOLEAN
    PROVE  Sound(scheduleFailure(th, ev, time, cfg, attempt, consecutive, origin, notified))
<1> DEFINE clocked == startClock(th, time)
           blockedNow == /\ th.GoalStatus = "blocked"
                         /\ goalBlockedByFailure(th.GoalUpdatedAt, ev.at)
           t == [clocked EXCEPT !.GoalHeld = @ /\ ~blockedNow]
           fault == [EventKey |-> ev.turn, FailedAt |-> ev.at,
                     OriginTurnStartedAt |-> origin, Class |-> ev.class]
           budget == [Attempt |-> attempt, MaxAttempts |-> recoveryLimit(ev.class, cfg),
                      ConsecutiveRetry |-> consecutive,
                      MaxConsecutive |-> consecutiveLimit(ev.class, cfg)]
           failed == [t EXCEPT !.CurrentTurnProgress = FALSE, !.LastFailureAt = ev.at]
           tooLong == time > t.RecoveryStartedAt + MaxAutomaticRecoveryDuration
           reason == IF tooLong THEN "recovery_time_limit"
                     ELSE budgetStopReason(fault, budget, cfg)
           p == [fault |-> fault, budget |-> budget,
                 DueAt |-> time + retryDelay(consecutive, cfg),
                 DispatchFailures |-> 0, ParentNotified |-> notified,
                 GoalLimitRestart |-> FALSE]
           queued == [failed EXCEPT
                !.RecoveryAttempts = attempt, !.ConsecutiveRetries = consecutive,
                !.Awaiting = Nil, !.Stopped = Nil, !.GoalStop = Nil, !.Pending = p]
<1>1. scheduleFailure(th, ev, time, cfg, attempt, consecutive, origin, notified) =
        IF t.GoalHeld /\ ~heldConversationAllowed(t.GoalStatus, t.GoalUpdatedAt, origin)
        THEN dropHeldRetry(failed)
        ELSE IF ev.class = "none" THEN resetRetryState(t)
        ELSE IF tooLong \/ overBudget(budget)
        THEN exhaustRetry(failed, fault, budget, reason, FALSE, time)
        ELSE queued
    BY DEF scheduleFailure
<1>2. clocked \in ThreadState /\ clocked.GoalStop = Nil /\ clocked.RecoveryStartedAt # 0
    BY DEF startClock, ThreadState
<1> HIDE DEF clocked, blockedNow
<1>3. t \in ThreadState /\ t.GoalStop = Nil /\ t.RecoveryStartedAt # 0
    <2> DEFINE held == clocked.GoalHeld /\ ~blockedNow
    <2>1. t = [clocked EXCEPT !.GoalHeld = held]
        BY <1>2 DEF ThreadState
    <2>2. held \in BOOLEAN
        OBVIOUS
    <2> HIDE DEF held, t
    <2> QED BY <1>2, <2>1, <2>2 DEF ThreadState
<1> HIDE DEF t
<1>4. failed \in ThreadState /\ failed.GoalStop = Nil /\ failed.RecoveryStartedAt # 0
    BY <1>3 DEF ThreadState, Event
<1>5. dropHeldRetry(failed) \in ThreadState
    BY <1>4 DEF dropHeldRetry, ThreadState
<1>6. Sound(dropHeldRetry(failed))
    <2>1. /\ dropHeldRetry(failed).Pending = Nil /\ dropHeldRetry(failed).Awaiting = Nil
          /\ dropHeldRetry(failed).GoalStop = Nil
        BY <1>4 DEF dropHeldRetry, ThreadState
    <2> QED BY <1>5, <2>1, NoRetrySound
<1>7. Sound(resetRetryState(t))
    BY <1>3, ResetSound
<1>8. ASSUME ev.class # "none"
      PROVE  /\ Sound(exhaustRetry(failed, fault, budget, reason, FALSE, time))
             /\ Sound(queued)
    <2>1. ev.class \in FailureClasses
        BY <1>8 DEF Event
    <2>2. fault \in Fault
        BY <2>1 DEF Fault, Event
    <2>3. budget \in Budget
        <3>1. recoveryLimit(ev.class, cfg) \in Nat /\ consecutiveLimit(ev.class, cfg) \in Nat
            <4>1. cfg.MaxRecoveryAttempts \in Nat /\ cfg.MaxConsecutiveRetries \in Nat
                BY DEF Config, Positive
            <4> QED BY <2>1, <4>1, ClassLimits
        <3> QED BY <3>1 DEF Budget
    <2>4. reason \in StopReasons
        BY DEF StopReasons, budgetStopReason, retryStopReasonForClass, retryStopReason
    <2>5. p \in PendingRetry
        <3>1. time + retryDelay(consecutive, cfg) \in Nat
            BY DelayBounded
        <3> QED BY <2>2, <2>3, <3>1 DEF PendingRetry
    <2>6. p # Nil /\ p.budget.Attempt = attempt /\ p.budget.ConsecutiveRetry = consecutive
        BY <2>5, NilAssumption
    <2> HIDE DEF fault, budget, reason, p, failed
    <2>7. Sound(exhaustRetry(failed, fault, budget, reason, FALSE, time))
        BY <1>4, <2>2, <2>3, <2>4, ExhaustSound
    <2>8. queued \in ThreadState
        BY <1>4, <2>5 DEF ThreadState
    <2>9. /\ queued.Pending = p /\ queued.Awaiting = Nil /\ queued.Stopped = Nil
          /\ queued.GoalStop = Nil /\ queued.RecoveryAttempts = attempt
          /\ queued.ConsecutiveRetries = consecutive
          /\ queued.RecoveryStartedAt = failed.RecoveryStartedAt
        BY <1>4 DEF ThreadState
    <2> HIDE DEF queued
    <2>10. Sound(queued)
        BY <1>4, <2>6, <2>8, <2>9, QueuedSound
    <2> QED BY <2>7, <2>10
<1> HIDE DEF failed, fault, budget, tooLong, reason, queued
<1> QED
    BY <1>1, <1>6, <1>7, <1>8

\* handleTaskCompleteLocked: a completion ends the chain, schedules the next
\* retry or is none of the thread's business.
LEMMA CompleteSound ==
    ASSUME NEW th, Sound(th), NEW ev \in Event, NEW time \in Nat, time # 0, NEW cfg \in Config
    PROVE  Sound(handleTaskComplete(th, ev, time, cfg))
<1> DEFINE a == th.Awaiting
           running == [th EXCEPT !.CurrentTurnProgress = FALSE, !.Awaiting = Nil]
           idle == [th EXCEPT !.CurrentTurnProgress = FALSE]
           again == scheduleFailure(running, ev, time, cfg, a.budget.Attempt + 1,
                                    IF th.CurrentTurnProgress THEN 1
                                    ELSE a.budget.ConsecutiveRetry + 1,
                                    a.fault.OriginTurnStartedAt, a.ParentNotified)
           first == scheduleFailure(idle, ev, time, cfg, 1, 1, externalTurnOrigin(th, ev), FALSE)
<1>1. th \in ThreadState
    BY DEF Sound
<1>2. Sound(resetRetryState(th))
    BY <1>1, ResetSound
<1>3. ASSUME a # Nil, ev.class # "success" PROVE Sound(again)
    <2>1. running \in ThreadState /\ running.GoalStop = Nil
        BY <1>1, <1>3, AwaitingFacts DEF ThreadState
    <2>2. a \in AwaitingRetry
        BY <1>3, AwaitingFacts
    <2>3. /\ a.budget.Attempt + 1 \in Nat /\ a.budget.Attempt + 1 >= 1
          /\ a.budget.ConsecutiveRetry + 1 \in Nat /\ a.budget.ConsecutiveRetry + 1 >= 1
          /\ a.fault.OriginTurnStartedAt \in Nat /\ a.ParentNotified \in BOOLEAN
        BY <2>2 DEF AwaitingRetry, Budget, Fault
    <2> HIDE DEF a, running
    <2> DEFINE c == IF th.CurrentTurnProgress THEN 1 ELSE a.budget.ConsecutiveRetry + 1
    <2>4. c \in Nat /\ c >= 1
        BY <2>3
    <2> HIDE DEF c
    <2>5. Sound(scheduleFailure(running, ev, time, cfg, a.budget.Attempt + 1, c,
                                a.fault.OriginTurnStartedAt, a.ParentNotified))
        BY <1>3, <2>1, <2>3, <2>4, ScheduleSound
    <2> QED BY <2>5 DEF c
<1>4. ASSUME th.Awaiting = Nil, ~automaticGoalLimitStopped(th), ev.class # "success"
      PROVE  Sound(first)
    <2>1. idle \in ThreadState /\ idle.GoalStop = Nil
        BY <1>1, <1>4 DEF ThreadState, Sound, goalStopBacked
    <2>2. externalTurnOrigin(th, ev) \in Nat
        BY <1>1 DEF externalTurnOrigin, ThreadState
    <2> DEFINE no == FALSE
    <2>3. no \in BOOLEAN
        OBVIOUS
    <2> HIDE DEF idle, no
    <2>4. Sound(scheduleFailure(idle, ev, time, cfg, 1, 1, externalTurnOrigin(th, ev), no))
        BY <1>4, <2>1, <2>2, <2>3, ScheduleSound
    <2> QED BY <2>4 DEF no
<1>6. handleTaskComplete(th, ev, time, cfg) =
        IF automaticGoalLimitStopped(th) THEN th
        ELSE IF ev.turn # 0 /\ ev.turn = th.LastAbortedTurnID THEN resetRetryState(th)
        ELSE IF a # Nil
        THEN IF a.RetryTurnID = 0 \/ a.RetryTurnID # ev.turn THEN th
             ELSE IF ev.class = "success" THEN resetRetryState(th) ELSE again
        ELSE IF th.Pending # Nil
        THEN IF th.Pending.fault.EventKey = ev.turn /\ ev.class = "success"
             THEN resetRetryState(th) ELSE th
        ELSE IF ev.class = "success" THEN resetRetryState(th) ELSE first
    BY DEF handleTaskComplete
<1> HIDE DEF again, first
<1> QED BY <1>2, <1>3, <1>4, <1>6

\* The goal changed after the goal limit stopped the chain: the stop, the request
\* to block the goal, or both are withdrawn together.
LEMMA GoalAfterLimitSound ==
    ASSUME NEW th, Sound(th), automaticGoalLimitStopped(th),
           NEW t \in ThreadState,
           t.Pending = th.Pending, t.Awaiting = th.Awaiting, t.Stopped = th.Stopped,
           t.GoalStop = th.GoalStop, t.RecoveryAttempts = th.RecoveryAttempts,
           t.ConsecutiveRetries = th.ConsecutiveRetries,
           t.RecoveryStartedAt = th.RecoveryStartedAt
    PROVE  Sound(goalUpdatedAfterLimit(th, t))
<1> DEFINE held == [t EXCEPT !.GoalHeld = TRUE]
           free == [t EXCEPT !.GoalHeld = FALSE]
           over == [t EXCEPT !.Stopped = Nil, !.RecoveryAttempts = 0,
                             !.ConsecutiveRetries = 0, !.CurrentTurnProgress = FALSE,
                             !.GoalHeld = FALSE]
           reason == [t.Stopped EXCEPT !.Reason = "goal_empty_response_limit"]
           kept == [t EXCEPT !.GoalStop = Nil, !.GoalHeld = TRUE, !.Stopped = reason]
<1>1. goalUpdatedAfterLimit(th, t) =
        IF t.GoalStatus = "active"
        THEN IF th.Stopped.Reason = "goal_empty_response_limit_block_failed" THEN held
             ELSE IF th.GoalStatus # "active" /\ th.GoalStop = Nil THEN over ELSE free
        ELSE [t EXCEPT !.GoalStop = Nil, !.GoalHeld = TRUE,
                       !.Stopped = [@ EXCEPT !.Reason = "goal_empty_response_limit"]]
    BY DEF goalUpdatedAfterLimit
<1>2. th.Stopped # Nil /\ th.Pending = Nil /\ th.Awaiting = Nil
    BY DEF Sound, onePhase, automaticGoalLimitStopped
<1>3. Sound(held)
    <2>1. /\ held \in ThreadState
          /\ held.Pending = th.Pending /\ held.Awaiting = th.Awaiting
          /\ held.Stopped = th.Stopped /\ held.GoalStop = th.GoalStop
          /\ held.RecoveryAttempts = th.RecoveryAttempts
          /\ held.ConsecutiveRetries = th.ConsecutiveRetries
          /\ held.RecoveryStartedAt = th.RecoveryStartedAt
        BY DEF ThreadState
    <2> HIDE DEF held
    <2> QED BY <2>1, FrameSound
<1>4. Sound(free)
    <2>1. /\ free \in ThreadState
          /\ free.Pending = th.Pending /\ free.Awaiting = th.Awaiting
          /\ free.Stopped = th.Stopped /\ free.GoalStop = th.GoalStop
          /\ free.RecoveryAttempts = th.RecoveryAttempts
          /\ free.ConsecutiveRetries = th.ConsecutiveRetries
          /\ free.RecoveryStartedAt = th.RecoveryStartedAt
        BY DEF ThreadState
    <2> HIDE DEF free
    <2> QED BY <2>1, FrameSound
<1>5. ASSUME th.GoalStop = Nil PROVE Sound(over)
    <2>1. /\ over \in ThreadState
          /\ over.Pending = Nil /\ over.Awaiting = Nil /\ over.GoalStop = Nil
        BY <1>2, <1>5 DEF ThreadState
    <2> HIDE DEF over
    <2> QED BY <2>1, NoRetrySound
<1>6. Sound(kept)
    <2>1. reason \in StoppedRetry
        BY <1>2 DEF ThreadState, StoppedRetry, StopReasons
    <2> HIDE DEF reason
    <2>2. /\ kept \in ThreadState
          /\ kept.Pending = Nil /\ kept.Awaiting = Nil /\ kept.GoalStop = Nil
        BY <1>2, <2>1 DEF ThreadState
    <2> HIDE DEF kept
    <2> QED BY <2>2, NoRetrySound
<1>7. kept = [t EXCEPT !.GoalStop = Nil, !.GoalHeld = TRUE,
                       !.Stopped = [@ EXCEPT !.Reason = "goal_empty_response_limit"]]
    BY DEF ThreadState
<1> HIDE DEF held, free, over, kept
<1> QED BY <1>1, <1>3, <1>4, <1>5, <1>6, <1>7

\* handleGoalUpdatedLocked: a goal update holds the retry back, lets it go on or
\* clears it.
LEMMA GoalUpdatedSound ==
    ASSUME NEW th, Sound(th), NEW ev \in Event
    PROVE  Sound(handleGoalUpdated(th, ev))
<1> DEFINE t == [th EXCEPT !.GoalStatus = ev.status, !.GoalUpdatedAt = ev.updatedAt,
                           !.GoalObservedAt = ev.at]
           held == goalRequiresHold(ev.status, ev.updatedAt, th.LastFailureAt)
           hold(h) == [t EXCEPT !.GoalHeld = h]
<1>1. th \in ThreadState
    BY DEF Sound
<1>2. /\ t \in ThreadState
      /\ t.Pending = th.Pending /\ t.Awaiting = th.Awaiting /\ t.Stopped = th.Stopped
      /\ t.GoalStop = th.GoalStop /\ t.RecoveryAttempts = th.RecoveryAttempts
      /\ t.ConsecutiveRetries = th.ConsecutiveRetries
      /\ t.RecoveryStartedAt = th.RecoveryStartedAt
    BY <1>1 DEF ThreadState, Event
<1>3. handleGoalUpdated(th, ev) =
        IF staleGoalUpdate(th, ev) THEN th
        ELSE IF goalLimitRestartPending(th) /\ ev.status = "blocked" THEN hold(TRUE)
        ELSE IF automaticGoalLimitStopped(th) /\ ev.status \in limitGoalStatuses
        THEN goalUpdatedAfterLimit(th, t)
        ELSE IF ~held \/ heldConversationStillAllowed(t) THEN hold(held)
        ELSE resetRetryState(hold(TRUE))
    BY DEF handleGoalUpdated
<1>4. held \in BOOLEAN
    BY DEF goalRequiresHold
<1> HIDE DEF t, held
<1>5. ASSUME NEW h \in BOOLEAN PROVE hold(h) \in ThreadState /\ Sound(hold(h))
    <2> DEFINE s == [t EXCEPT !.GoalHeld = h]
    <2>1. /\ s \in ThreadState
          /\ s.Pending = th.Pending /\ s.Awaiting = th.Awaiting /\ s.Stopped = th.Stopped
          /\ s.GoalStop = th.GoalStop /\ s.RecoveryAttempts = th.RecoveryAttempts
          /\ s.ConsecutiveRetries = th.ConsecutiveRetries
          /\ s.RecoveryStartedAt = th.RecoveryStartedAt
        BY <1>2, <1>5 DEF ThreadState
    <2> HIDE DEF s
    <2>2. Sound(s)
        BY <2>1, FrameSound
    <2> QED BY <2>1, <2>2 DEF s
<1>6. automaticGoalLimitStopped(th) => Sound(goalUpdatedAfterLimit(th, t))
    BY <1>2, GoalAfterLimitSound
<1> HIDE DEF hold
<1>7. TRUE \in BOOLEAN
    OBVIOUS
<1>8. Sound(hold(TRUE)) /\ Sound(hold(held)) /\ Sound(resetRetryState(hold(TRUE)))
    BY <1>4, <1>5, <1>7, ResetSound
<1> QED BY <1>3, <1>6, <1>8

\* The parent's notice only marks the retry.
LEMMA NoticeSound ==
    ASSUME NEW th, Sound(th), NEW ev \in Event
    PROVE  Sound(handleSubagentRecoveryNotice(th, ev))
<1> DEFINE mark(retry) == IF retry # Nil /\ retry.fault.EventKey = ev.key
                          THEN [retry EXCEPT !.ParentNotified = TRUE] ELSE retry
           p == mark(th.Pending)
           a == mark(th.Awaiting)
           s == [th EXCEPT !.Pending = p, !.Awaiting = a]
<1>1. th \in ThreadState
    BY DEF Sound
<1>2. /\ p \in PendingRetry \cup {Nil} /\ (p = Nil <=> th.Pending = Nil)
      /\ th.Pending # Nil => p.budget = th.Pending.budget
    <2>1. ASSUME th.Pending # Nil
          PROVE  [th.Pending EXCEPT !.ParentNotified = TRUE] \in PendingRetry
        BY <1>1, <2>1 DEF ThreadState, PendingRetry
    <2>2. ASSUME th.Pending # Nil
          PROVE  [th.Pending EXCEPT !.ParentNotified = TRUE].budget = th.Pending.budget
        BY <1>1, <2>2 DEF ThreadState, PendingRetry
    <2> QED BY <1>1, <2>1, <2>2, NilAssumption DEF ThreadState
<1>3. /\ a \in AwaitingRetry \cup {Nil} /\ (a = Nil <=> th.Awaiting = Nil)
      /\ th.Awaiting # Nil => a.budget = th.Awaiting.budget
    <2>1. ASSUME th.Awaiting # Nil
          PROVE  [th.Awaiting EXCEPT !.ParentNotified = TRUE] \in AwaitingRetry
        BY <1>1, <2>1 DEF ThreadState, AwaitingRetry
    <2>2. ASSUME th.Awaiting # Nil
          PROVE  [th.Awaiting EXCEPT !.ParentNotified = TRUE].budget = th.Awaiting.budget
        BY <1>1, <2>2 DEF ThreadState, AwaitingRetry
    <2> QED BY <1>1, <2>1, <2>2, NilAssumption DEF ThreadState
<1>4. handleSubagentRecoveryNotice(th, ev) = s
    BY DEF handleSubagentRecoveryNotice
<1> HIDE DEF p, a
<1>5. /\ s \in ThreadState
      /\ s.Pending = p /\ s.Awaiting = a /\ s.Stopped = th.Stopped
      /\ s.GoalStop = th.GoalStop /\ s.RecoveryAttempts = th.RecoveryAttempts
      /\ s.ConsecutiveRetries = th.ConsecutiveRetries
      /\ s.RecoveryStartedAt = th.RecoveryStartedAt
    BY <1>1, <1>2, <1>3 DEF ThreadState
<1> HIDE DEF s
<1>6. Sound(s)
    BY <1>2, <1>3, <1>5 DEF Sound, onePhase, goalStopBacked, countersAgree, liveRetry,
        automaticGoalLimitStopped
<1> QED BY <1>4, <1>6

\* handleEventLocked: every record of a rollout file keeps the thread sound.
THEOREM EventSound ==
    ASSUME NEW th, Sound(th), NEW ev \in Event, NEW time \in Nat, time # 0, NEW cfg \in Config
    PROVE  Sound(handleEvent(th, ev, time, cfg))
<1>1. /\ Sound(handleTaskStarted(th, ev)) /\ Sound(handleTaskUserInput(th, ev))
      /\ Sound(handleTaskProgress(th, ev)) /\ Sound(handleTaskComplete(th, ev, time, cfg))
      /\ Sound(handleTurnAborted(th, ev)) /\ Sound(handleGoalUpdated(th, ev))
      /\ Sound(handleSubagentRecoveryNotice(th, ev))
    BY TaskStartedSound, UserInputSound, ProgressSound, CompleteSound, AbortSound,
       GoalUpdatedSound, NoticeSound
<1> QED BY <1>1 DEF handleEvent, Event, EventKinds


----------------------------------------------------------------------------
(* Moves between Pending, Awaiting and Stopped.                            *)

\* An awaiting retry that is queued again is a queued retry.
LEMMA QueuedRetryType ==
    ASSUME NEW a \in AwaitingRetry, NEW budget \in Budget, NEW due \in Nat,
           NEW fails \in Nat, NEW notified \in BOOLEAN
    PROVE  /\ queuedRetry(a, budget, due, fails, notified) \in PendingRetry
           /\ queuedRetry(a, budget, due, fails, notified) # Nil
           /\ queuedRetry(a, budget, due, fails, notified).budget = budget
<1>1. queuedRetry(a, budget, due, fails, notified) \in PendingRetry
    BY DEF queuedRetry, AwaitingRetry, PendingRetry
<1>2. queuedRetry(a, budget, due, fails, notified).budget = budget
    BY DEF queuedRetry
<1> QED BY <1>1, <1>2, NilAssumption

\* requeue with the counters of the thread.
LEMMA RequeueSound ==
    ASSUME NEW th, Sound(th), th.Awaiting # Nil, NEW budget \in Budget,
           budget.Attempt = th.RecoveryAttempts,
           budget.ConsecutiveRetry = th.ConsecutiveRetries,
           NEW due \in Nat, NEW fails \in Nat
    PROVE  Sound(requeue(th, budget, due, fails))
<1> DEFINE p == queuedRetry(th.Awaiting, budget, due, fails, th.Awaiting.ParentNotified)
           s == [th EXCEPT !.Awaiting = Nil, !.Pending = p]
<1>1. th \in ThreadState
    BY DEF Sound
<1>2. p \in PendingRetry /\ p # Nil /\ p.budget = budget
    <2>1. th.Awaiting \in AwaitingRetry
        BY AwaitingFacts
    <2>2. th.Awaiting.ParentNotified \in BOOLEAN
        BY <2>1 DEF AwaitingRetry
    <2> QED BY <2>1, <2>2, QueuedRetryType
<1>3. requeue(th, budget, due, fails) = s
    BY DEF requeue
<1> HIDE DEF p
<1>4. /\ s \in ThreadState
      /\ s.Pending = p /\ s.Awaiting = Nil /\ s.Stopped = th.Stopped
      /\ s.GoalStop = th.GoalStop /\ s.RecoveryAttempts = th.RecoveryAttempts
      /\ s.ConsecutiveRetries = th.ConsecutiveRetries
      /\ s.RecoveryStartedAt = th.RecoveryStartedAt
    BY <1>1, <1>2 DEF ThreadState
<1> HIDE DEF s
<1>5. Sound(s)
    BY <1>2, <1>4, AwaitingFacts, QueuedSound
<1> QED BY <1>3, <1>5

\* The chain is given up for the controller: nothing is left to block a goal.
LEMMA ControllerStopSound ==
    ASSUME NEW th \in ThreadState, NEW fault \in Fault, NEW budget \in Budget,
           NEW reason \in StopReasons, NEW blocked \in {"unset", "yes", "no"}
    PROVE  /\ Sound([stopRetry(th, fault, budget, reason, FALSE, blocked)
                        EXCEPT !.GoalStop = Nil])
           /\ Sound([stopRetry(th, fault, budget, reason, FALSE, blocked)
                        EXCEPT !.GoalStop = Nil, !.CurrentTurnProgress = FALSE])
<1> DEFINE r == stopRetry(th, fault, budget, reason, FALSE, blocked)
           s == [r EXCEPT !.GoalStop = Nil]
           u == [r EXCEPT !.GoalStop = Nil, !.CurrentTurnProgress = FALSE]
<1>1. r \in ThreadState /\ r.Pending = Nil /\ r.Awaiting = Nil
    <2> DEFINE no == FALSE
    <2>1. no \in BOOLEAN
        OBVIOUS
    <2> HIDE DEF no
    <2>2. /\ stopRetry(th, fault, budget, reason, no, blocked) \in ThreadState
          /\ stopRetry(th, fault, budget, reason, no, blocked).Pending = Nil
          /\ stopRetry(th, fault, budget, reason, no, blocked).Awaiting = Nil
        BY <2>1, StopRetryType
    <2> QED BY <2>2 DEF no
<1> HIDE DEF r
<1>2. /\ s \in ThreadState /\ s.Pending = Nil /\ s.Awaiting = Nil /\ s.GoalStop = Nil
      /\ u \in ThreadState /\ u.Pending = Nil /\ u.Awaiting = Nil /\ u.GoalStop = Nil
    BY <1>1 DEF ThreadState
<1> HIDE DEF s, u
<1>3. Sound(s) /\ Sound(u)
    BY <1>2, NoRetrySound
<1> QED BY <1>3 DEF s, u, r

LEMMA StopAwaitingSound ==
    ASSUME NEW th, Sound(th), th.Awaiting # Nil, NEW reason \in ControllerReasons
    PROVE  Sound(stopAwaitingForController(th, reason))
<1>1. th \in ThreadState /\ th.Awaiting.fault \in Fault /\ th.Awaiting.budget \in Budget
    BY AwaitingFacts DEF Sound, AwaitingRetry
<1>2. reason \in StopReasons
    BY DEF StopReasons
<1> QED BY <1>1, <1>2, ControllerStopSound DEF stopAwaitingForController

\* rescheduleAwaitingLocked and its policy: queued again, or stopped.
LEMMA RescheduleSound ==
    ASSUME NEW th, Sound(th), th.Awaiting # Nil, NEW time \in Nat,
           NEW reason \in ControllerReasons, NEW countFailure \in BOOLEAN, NEW cfg \in Config
    PROVE  Sound(rescheduleAwaitingWithPolicy(th, time, reason, countFailure, cfg))
<1> DEFINE fails == th.Awaiting.DispatchFailures + (IF countFailure THEN 1 ELSE 0)
           due == time + retryDelay(IF fails = 0 THEN 1 ELSE fails, cfg)
<1>1. th.Awaiting \in AwaitingRetry
    BY AwaitingFacts
<1>2. fails \in Nat
    BY <1>1 DEF AwaitingRetry
<1>3. due \in Nat
    <2> DEFINE n == IF fails = 0 THEN 1 ELSE fails
    <2>1. n \in Nat
        BY <1>2
    <2> HIDE DEF n
    <2>2. time + retryDelay(n, cfg) \in Nat
        BY <2>1, DelayBounded
    <2> QED BY <2>2 DEF n
<1>4. rescheduleAwaitingWithPolicy(th, time, reason, countFailure, cfg)
        \in {stopAwaitingForController(th, reason),
             requeue(th, th.Awaiting.budget, due, fails)}
    BY DEF rescheduleAwaitingWithPolicy
<1>5. th.Awaiting.budget \in Budget
    BY <1>1 DEF AwaitingRetry
<1> HIDE DEF fails, due
<1>6. Sound(requeue(th, th.Awaiting.budget, due, fails))
    BY <1>2, <1>3, <1>5, AwaitingFacts, RequeueSound
<1> QED BY <1>4, <1>6, StopAwaitingSound

LEMMA StopPendingSound ==
    ASSUME NEW th, Sound(th), th.Pending # Nil, NEW reason \in StopReasons
    PROVE  Sound(stopPendingForController(th, reason))
<1>1. th \in ThreadState /\ th.Pending.fault \in Fault /\ th.Pending.budget \in Budget
    BY PendingFacts DEF Sound, PendingRetry
<1>2. transportBlocked(th, reason) \in {"unset", "yes", "no"}
    BY DEF transportBlocked
<1> QED BY <1>1, <1>2, ControllerStopSound DEF stopPendingForController

----------------------------------------------------------------------------
(* Configuration reload and panel commands.                                *)

LEMMA WithLimitsType ==
    ASSUME NEW budget \in Budget, NEW class \in FailureClasses, NEW cfg \in Config
    PROVE  /\ withLimits(budget, class, cfg) \in Budget
           /\ withLimits(budget, class, cfg).Attempt = budget.Attempt
           /\ withLimits(budget, class, cfg).ConsecutiveRetry = budget.ConsecutiveRetry
<1>1. recoveryLimit(class, cfg) \in Nat /\ consecutiveLimit(class, cfg) \in Nat
    <2>1. cfg.MaxRecoveryAttempts \in Nat /\ cfg.MaxConsecutiveRetries \in Nat
        BY DEF Config, Positive
    <2> QED BY <2>1, ClassLimits
<1> QED BY <1>1 DEF withLimits, Budget

LEMMA StopReasonType ==
    ASSUME NEW fault, NEW budget, NEW cfg
    PROVE  budgetStopReason(fault, budget, cfg) \in StopReasons
BY DEF budgetStopReason, retryStopReasonForClass, retryStopReason, StopReasons

\* reloadConfigLocked: new limits reach the retry; a queued retry over them stops.
LEMMA ReloadSound ==
    ASSUME NEW th, Sound(th), NEW cfg \in Config, NEW time \in Nat
    PROVE  Sound(reloadLimits(th, cfg, time))
<1> DEFINE relimit(retry) ==
             IF retry = Nil THEN Nil
             ELSE [retry EXCEPT !.budget = withLimits(retry.budget, retry.fault.Class, cfg)]
           a == relimit(th.Awaiting)
           p == relimit(th.Pending)
           t == [th EXCEPT !.Awaiting = a, !.Pending = p]
<1>1. th \in ThreadState
    BY DEF Sound
<1>2. /\ a \in AwaitingRetry \cup {Nil} /\ (a = Nil <=> th.Awaiting = Nil)
      /\ a # Nil => /\ a.budget.Attempt = th.Awaiting.budget.Attempt
                    /\ a.budget.ConsecutiveRetry = th.Awaiting.budget.ConsecutiveRetry
    <2>1. CASE th.Awaiting # Nil
        <3> DEFINE b == withLimits(th.Awaiting.budget, th.Awaiting.fault.Class, cfg)
                   r == [th.Awaiting EXCEPT !.budget = b]
        <3>1. th.Awaiting \in AwaitingRetry
            BY <2>1, AwaitingFacts
        <3>2. /\ b \in Budget /\ b.Attempt = th.Awaiting.budget.Attempt
              /\ b.ConsecutiveRetry = th.Awaiting.budget.ConsecutiveRetry
            BY <3>1, WithLimitsType DEF AwaitingRetry, Fault
        <3> HIDE DEF b
        <3>3. r \in AwaitingRetry /\ r.budget = b
            BY <3>1, <3>2 DEF AwaitingRetry
        <3>4. a = r
            BY <2>1 DEF b
        <3> HIDE DEF r, a
        <3> QED BY <2>1, <3>2, <3>3, <3>4, NilAssumption
    <2> QED BY <2>1
<1>3. /\ p \in PendingRetry \cup {Nil} /\ (p = Nil <=> th.Pending = Nil)
      /\ p # Nil => /\ p.budget.Attempt = th.Pending.budget.Attempt
                    /\ p.budget.ConsecutiveRetry = th.Pending.budget.ConsecutiveRetry
    <2>1. CASE th.Pending # Nil
        <3> DEFINE b == withLimits(th.Pending.budget, th.Pending.fault.Class, cfg)
                   r == [th.Pending EXCEPT !.budget = b]
        <3>1. th.Pending \in PendingRetry
            BY <2>1, PendingFacts
        <3>2. /\ b \in Budget /\ b.Attempt = th.Pending.budget.Attempt
              /\ b.ConsecutiveRetry = th.Pending.budget.ConsecutiveRetry
            BY <3>1, WithLimitsType DEF PendingRetry, Fault
        <3> HIDE DEF b
        <3>3. r \in PendingRetry /\ r.budget = b
            BY <3>1, <3>2 DEF PendingRetry
        <3>4. p = r
            BY <2>1 DEF b
        <3> HIDE DEF r, p
        <3> QED BY <2>1, <3>2, <3>3, <3>4, NilAssumption
    <2> QED BY <2>1
<1>4. reloadLimits(th, cfg, time) =
        IF t.Pending # Nil /\ overBudget(t.Pending.budget)
        THEN exhaustRetry(t, t.Pending.fault, t.Pending.budget,
                          budgetStopReason(t.Pending.fault, t.Pending.budget, cfg),
                          FALSE, time)
        ELSE t
    BY DEF reloadLimits
<1> HIDE DEF a, p
<1>5. /\ t \in ThreadState
      /\ t.Pending = p /\ t.Awaiting = a /\ t.Stopped = th.Stopped
      /\ t.GoalStop = th.GoalStop /\ t.RecoveryAttempts = th.RecoveryAttempts
      /\ t.ConsecutiveRetries = th.ConsecutiveRetries
      /\ t.RecoveryStartedAt = th.RecoveryStartedAt
    BY <1>1, <1>2, <1>3 DEF ThreadState
<1> HIDE DEF t
<1>6. Sound(t)
    BY <1>2, <1>3, <1>5 DEF Sound, onePhase, goalStopBacked, countersAgree, liveRetry,
        automaticGoalLimitStopped
<1>7. ASSUME t.Pending # Nil
      PROVE  Sound(exhaustRetry(t, t.Pending.fault, t.Pending.budget,
                                budgetStopReason(t.Pending.fault, t.Pending.budget, cfg),
                                FALSE, time))
    <2> DEFINE no == FALSE
    <2>1. t.Pending.fault \in Fault /\ t.Pending.budget \in Budget /\ t.GoalStop = Nil
        BY <1>6, <1>7, PendingFacts DEF PendingRetry
    <2>2. no \in BOOLEAN
        OBVIOUS
    <2> HIDE DEF no
    <2>3. Sound(exhaustRetry(t, t.Pending.fault, t.Pending.budget,
                             budgetStopReason(t.Pending.fault, t.Pending.budget, cfg), no, time))
        BY <1>5, <2>1, <2>2, StopReasonType, ExhaustSound
    <2> QED BY <2>3 DEF no
<1> QED BY <1>4, <1>6, <1>7

\* applyControlCommandLocked: retry_now, cancel_retry and restart_retry.
LEMMA RetryNowSound ==
    ASSUME NEW th, Sound(th), NEW time \in Nat
    PROVE  Sound(commandRetryNow(th, time))
<1> SUFFICES ASSUME th.Pending # Nil
             PROVE  Sound([th EXCEPT !.Pending = [@ EXCEPT !.DueAt = time]])
    BY DEF commandRetryNow
<1> DEFINE p == [th.Pending EXCEPT !.DueAt = time]
           s == [th EXCEPT !.Pending = p]
<1>1. th \in ThreadState /\ th.Pending \in PendingRetry
    BY PendingFacts DEF Sound
<1>2. p \in PendingRetry /\ p.budget = th.Pending.budget
    BY <1>1 DEF PendingRetry
<1>3. s = [th EXCEPT !.Pending = [@ EXCEPT !.DueAt = time]]
    BY <1>1 DEF ThreadState
<1> HIDE DEF p
<1>4. /\ s \in ThreadState
      /\ s.Pending = p /\ s.Awaiting = th.Awaiting /\ s.Stopped = th.Stopped
      /\ s.GoalStop = th.GoalStop /\ s.RecoveryAttempts = th.RecoveryAttempts
      /\ s.ConsecutiveRetries = th.ConsecutiveRetries
      /\ s.RecoveryStartedAt = th.RecoveryStartedAt
    BY <1>1, <1>2 DEF ThreadState
<1> HIDE DEF s
<1>5. p # Nil
    BY <1>2, NilAssumption
<1>6. Sound(s)
    BY <1>2, <1>4, <1>5, PendingFacts, QueuedSound
<1> QED BY <1>3, <1>6

LEMMA CancelSound ==
    ASSUME NEW th, Sound(th)
    PROVE  Sound(commandCancelRetry(th))
<1> SUFFICES ASSUME th.Pending # Nil
             PROVE  Sound([th EXCEPT !.Pending = Nil, !.RecoveryAttempts = 0,
                                     !.ConsecutiveRetries = 0,
                                     !.CurrentTurnProgress = FALSE, !.GoalStop = Nil])
    BY DEF commandCancelRetry
<1> DEFINE s == [th EXCEPT !.Pending = Nil, !.RecoveryAttempts = 0, !.ConsecutiveRetries = 0,
                           !.CurrentTurnProgress = FALSE, !.GoalStop = Nil]
<1>1. s \in ThreadState /\ s.Pending = Nil /\ s.Awaiting = th.Awaiting /\ s.GoalStop = Nil
    BY DEF Sound, ThreadState
<1> HIDE DEF s
<1>2. Sound(s)
    BY <1>1, PendingFacts, NoRetrySound
<1> QED BY <1>2 DEF s

LEMMA RestartSound ==
    ASSUME NEW th, Sound(th), NEW time \in Nat, time # 0, NEW cfg \in Config
    PROVE  Sound(commandRestartRetry(th, time, cfg))
<1> DEFINE st == th.Stopped
           one == [st.budget EXCEPT !.Attempt = 1, !.ConsecutiveRetry = 1]
           p == [fault |-> st.fault, budget |-> withLimits(one, st.fault.Class, cfg),
                 DueAt |-> time, DispatchFailures |-> 0, ParentNotified |-> FALSE,
                 GoalLimitRestart |-> isGoalEmptyResponseStopReason(st.Reason)]
           s == [th EXCEPT !.Stopped = Nil, !.GoalStop = Nil, !.GoalHeld = FALSE,
                           !.RecoveryAttempts = 1, !.ConsecutiveRetries = 1,
                           !.RecoveryStartedAt = time, !.Pending = p]
<1>1. commandRestartRetry(th, time, cfg) = IF st = Nil THEN th ELSE s
    BY DEF commandRestartRetry
<1>2. ASSUME st # Nil PROVE Sound(s)
    <2>1. th \in ThreadState /\ st \in StoppedRetry /\ th.Awaiting = Nil
        BY <1>2 DEF Sound, ThreadState, onePhase
    <2>2. st.fault \in Fault /\ st.budget \in Budget /\ st.fault.Class \in FailureClasses
        BY <2>1 DEF StoppedRetry, Fault
    <2>3. one \in Budget /\ one.Attempt = 1 /\ one.ConsecutiveRetry = 1
        BY <2>2 DEF Budget
    <2> HIDE DEF one
    <2>4. p \in PendingRetry
        <3>1. withLimits(one, st.fault.Class, cfg) \in Budget
            BY <2>2, <2>3, WithLimitsType
        <3>2. isGoalEmptyResponseStopReason(st.Reason) \in BOOLEAN
            BY DEF isGoalEmptyResponseStopReason
        <3> DEFINE limited == isGoalEmptyResponseStopReason(st.Reason)
        <3> HIDE DEF limited, st
        <3> QED BY <2>2, <3>1, <3>2 DEF PendingRetry, limited
    <2>5. p # Nil /\ p.budget.Attempt = 1 /\ p.budget.ConsecutiveRetry = 1
        BY <2>2, <2>3, <2>4, WithLimitsType, NilAssumption
    <2> HIDE DEF p
    <2> HIDE DEF st
    <2>6. s \in ThreadState
        <3> DEFINE r == [th EXCEPT !.Stopped = Nil, !.GoalStop = Nil, !.GoalHeld = FALSE]
        <3>1. r \in ThreadState
            BY <2>1 DEF ThreadState
        <3>2. s = [r EXCEPT !.RecoveryAttempts = 1, !.ConsecutiveRetries = 1,
                            !.RecoveryStartedAt = time, !.Pending = p]
            BY <2>1 DEF ThreadState
        <3> HIDE DEF r, s
        <3> QED BY <2>4, <3>1, <3>2 DEF ThreadState
    <2>7. /\ s.Pending = p /\ s.Awaiting = th.Awaiting /\ s.Stopped = Nil /\ s.GoalStop = Nil
          /\ s.RecoveryAttempts = 1 /\ s.ConsecutiveRetries = 1 /\ s.RecoveryStartedAt = time
        BY <2>1 DEF ThreadState
    <2> HIDE DEF s
    <2> QED BY <2>1, <2>5, <2>6, <2>7, QueuedSound
<1> HIDE DEF s
<1> QED BY <1>1, <1>2

LEMMA CommandSound ==
    ASSUME NEW th, Sound(th), NEW action, NEW time \in Nat, time # 0, NEW cfg \in Config
    PROVE  Sound(applyControlCommand(th, action, time, cfg))
BY RetryNowSound, CancelSound, RestartSound DEF applyControlCommand

----------------------------------------------------------------------------
(* Reopening, deadlines and lifecycle probes.                              *)

\* reopenRestartRequiredLocked: a reopened chain goes on with its own counters.
LEMMA ReopenSound ==
    ASSUME NEW th, Sound(th), NEW time \in Nat, NEW cfg \in Config
    PROVE  Sound(reopenRestartRequired(th, time, cfg))
<1> DEFINE st == th.Stopped
           b == [Attempt |-> st.budget.Attempt + 1,
                 MaxAttempts |-> MinOf(recoveryLimit(st.fault.Class, cfg),
                                       st.budget.MaxAttempts),
                 ConsecutiveRetry |-> st.budget.ConsecutiveRetry + 1,
                 MaxConsecutive |-> MinOf(consecutiveLimit(st.fault.Class, cfg),
                                          st.budget.MaxConsecutive)]
           p == [fault |-> st.fault, budget |-> b, DueAt |-> time, DispatchFailures |-> 0,
                 ParentNotified |-> FALSE, GoalLimitRestart |-> FALSE]
           since == IF th.RecoveryStartedAt = 0 THEN st.fault.FailedAt
                    ELSE th.RecoveryStartedAt
           s == [th EXCEPT !.Stopped = Nil, !.RecoveryStartedAt = since,
                           !.RecoveryAttempts = b.Attempt,
                           !.ConsecutiveRetries = b.ConsecutiveRetry, !.Pending = p]
           s2 == [th EXCEPT !.Stopped = Nil,
                            !.RecoveryStartedAt = IF @ = 0 THEN st.fault.FailedAt ELSE @,
                            !.RecoveryAttempts = b.Attempt,
                            !.ConsecutiveRetries = b.ConsecutiveRetry, !.Pending = p]
<1>1. reopenRestartRequired(th, time, cfg) =
        IF ~canReopenTransportRetry(th, time) THEN th ELSE IF overBudget(b) THEN th ELSE s2
    BY DEF reopenRestartRequired
<1>2. ASSUME canReopenTransportRetry(th, time) PROVE Sound(s)
    <2>1. /\ th \in ThreadState /\ st \in StoppedRetry /\ st.fault.FailedAt # 0
          /\ th.Awaiting = Nil /\ th.GoalStop = Nil
        BY <1>2 DEF Sound, ThreadState, canReopenTransportRetry, recentTo
    <2>2. /\ st.fault \in Fault /\ st.budget \in Budget /\ st.fault.Class \in FailureClasses
          /\ st.fault.FailedAt \in Nat
        BY <2>1 DEF StoppedRetry, Fault
    <2> HIDE DEF st
    <2>3. /\ b \in Budget /\ b.Attempt >= 1 /\ b.ConsecutiveRetry >= 1
        <3>1. recoveryLimit(st.fault.Class, cfg) \in Nat
              /\ consecutiveLimit(st.fault.Class, cfg) \in Nat
            <4>1. cfg.MaxRecoveryAttempts \in Nat /\ cfg.MaxConsecutiveRetries \in Nat
                BY DEF Config, Positive
            <4> QED BY <2>2, <4>1, ClassLimits
        <3> QED BY <2>2, <3>1 DEF Budget, MinOf
    <2>4. since \in Nat /\ since # 0
        BY <2>1, <2>2 DEF ThreadState
    <2> HIDE DEF b, since
    <2>5. p \in PendingRetry /\ p.budget = b
        BY <2>2, <2>3 DEF PendingRetry
    <2>6. p # Nil
        BY <2>5, NilAssumption
    <2>7. b.Attempt \in Nat /\ b.ConsecutiveRetry \in Nat
        BY <2>3 DEF Budget
    <2> HIDE DEF p
    <2>8. /\ s \in ThreadState
          /\ s.Pending = p /\ s.Awaiting = th.Awaiting /\ s.Stopped = Nil
          /\ s.GoalStop = th.GoalStop /\ s.RecoveryAttempts = b.Attempt
          /\ s.ConsecutiveRetries = b.ConsecutiveRetry /\ s.RecoveryStartedAt = since
        BY <2>1, <2>4, <2>5, <2>7 DEF ThreadState
    <2> HIDE DEF s
    <2> QED BY <2>1, <2>3, <2>4, <2>5, <2>6, <2>8, QueuedSound
<1>3. th \in ThreadState
    BY DEF Sound
<1>4. s2 = s
    <2> HIDE DEF st, b, p
    <2> QED BY <1>3 DEF ThreadState
<1> HIDE DEF s, s2, b
<1> QED BY <1>1, <1>2, <1>4

\* expireUnacknowledgedLocked.
LEMMA ExpireSound ==
    ASSUME NEW th, Sound(th), NEW time \in Nat, NEW cfg \in Config
    PROVE  Sound(expireUnacknowledged(th, time, cfg))
<1> DEFINE counted == TRUE
           reason == "start_not_acknowledged"
<1>1. counted \in BOOLEAN /\ reason \in ControllerReasons
    BY DEF ControllerReasons
<1> HIDE DEF counted, reason
<1>2. th.Awaiting # Nil =>
        Sound(rescheduleAwaitingWithPolicy(th, time, reason, counted, cfg))
    BY <1>1, RescheduleSound
<1> QED BY <1>2 DEF expireUnacknowledged, startOverdue, counted, reason

\* advanceInactiveAwaitingLocked: the retry turn ended without a completion.
LEMMA AdvanceSound ==
    ASSUME NEW th, Sound(th), th.Awaiting # Nil, NEW time \in Nat, NEW cfg \in Config
    PROVE  Sound(advanceInactiveAwaiting(th, time, cfg))
<1> DEFINE a == th.Awaiting
           c == IF th.CurrentTurnProgress THEN 1 ELSE a.budget.ConsecutiveRetry + 1
           next == [a.budget EXCEPT !.Attempt = @ + 1,
                                    !.ConsecutiveRetry = IF th.CurrentTurnProgress THEN 1
                                                         ELSE @ + 1]
           t == [th EXCEPT !.CurrentTurnProgress = FALSE]
           since == awaitingSince(a)
           old == since # 0 /\ time > since + StoppedRetryDisplayWindow
           due == time + retryDelay(next.ConsecutiveRetry, cfg)
           p == queuedRetry(t.Awaiting, next, due, a.DispatchFailures,
                            t.Awaiting.ParentNotified)
           s == [requeue(t, next, due, a.DispatchFailures)
                   EXCEPT !.RecoveryAttempts = next.Attempt,
                          !.ConsecutiveRetries = next.ConsecutiveRetry,
                          !.Stopped = Nil, !.GoalStop = Nil]
<1>1. advanceInactiveAwaiting(th, time, cfg) =
        IF overBudget(next)
        THEN exhaustRetry(t, a.fault, next, budgetStopReason(a.fault, next, cfg), old, time)
        ELSE s
    BY DEF advanceInactiveAwaiting
<1>2. /\ th \in ThreadState /\ a \in AwaitingRetry /\ a # Nil
      /\ th.GoalStop = Nil /\ th.RecoveryStartedAt # 0
    BY AwaitingFacts DEF Sound
<1>3. /\ a.budget \in Budget /\ a.budget.Attempt \in Nat /\ a.budget.ConsecutiveRetry \in Nat
      /\ a.fault \in Fault /\ a.DispatchFailures \in Nat /\ a.ParentNotified \in BOOLEAN
    BY <1>2 DEF AwaitingRetry, Budget
<1>4. /\ next \in Budget /\ next.Attempt \in Nat /\ next.Attempt >= 1
      /\ next.ConsecutiveRetry \in Nat /\ next.ConsecutiveRetry >= 1
    <2>1. c \in Nat /\ c >= 1
        BY <1>3
    <2>2. next = [a.budget EXCEPT !.Attempt = a.budget.Attempt + 1, !.ConsecutiveRetry = c]
        BY <1>3 DEF Budget
    <2>3. a.budget.Attempt + 1 \in Nat /\ a.budget.Attempt + 1 >= 1
        BY <1>3
    <2> DEFINE n == a.budget.Attempt + 1
    <2> HIDE DEF a, c, next, n
    <2>4. [a.budget EXCEPT !.Attempt = n, !.ConsecutiveRetry = c] \in Budget
        BY <1>3, <2>1, <2>3 DEF Budget, n
    <2>5. /\ [a.budget EXCEPT !.Attempt = n, !.ConsecutiveRetry = c].Attempt = n
          /\ [a.budget EXCEPT !.Attempt = n, !.ConsecutiveRetry = c].ConsecutiveRetry = c
        BY <1>3 DEF Budget
    <2> QED BY <2>1, <2>2, <2>3, <2>4, <2>5 DEF n
<1>5. /\ t \in ThreadState /\ t.Pending = th.Pending /\ t.Awaiting = a /\ t.GoalStop = Nil
      /\ t.RecoveryStartedAt # 0
    BY <1>2 DEF ThreadState
<1>6. old \in BOOLEAN
    OBVIOUS
<1> HIDE DEF next, a, t, old
<1>7. due \in Nat
    BY <1>4, DelayBounded
<1> HIDE DEF due
<1>8. Sound(exhaustRetry(t, a.fault, next, budgetStopReason(a.fault, next, cfg), old, time))
    BY <1>3, <1>4, <1>5, <1>6, StopReasonType, ExhaustSound
<1>9. p \in PendingRetry /\ p # Nil /\ p.budget = next
    BY <1>2, <1>3, <1>4, <1>5, <1>7, QueuedRetryType
<1>10. requeue(t, next, due, a.DispatchFailures) = [t EXCEPT !.Awaiting = Nil, !.Pending = p]
    BY DEF requeue
<1> HIDE DEF p
<1>11. /\ s \in ThreadState
       /\ s.Pending = p /\ s.Awaiting = Nil /\ s.Stopped = Nil /\ s.GoalStop = Nil
       /\ s.RecoveryAttempts = next.Attempt /\ s.ConsecutiveRetries = next.ConsecutiveRetry
       /\ s.RecoveryStartedAt = t.RecoveryStartedAt
    <2> DEFINE r == [t EXCEPT !.Awaiting = Nil, !.Pending = p]
    <2>1. r \in ThreadState /\ r.Pending = p /\ r.Awaiting = Nil
          /\ r.RecoveryStartedAt = t.RecoveryStartedAt
        BY <1>5, <1>9 DEF ThreadState
    <2>2. s = [r EXCEPT !.RecoveryAttempts = next.Attempt,
                        !.ConsecutiveRetries = next.ConsecutiveRetry,
                        !.Stopped = Nil, !.GoalStop = Nil]
        BY <1>10
    <2> HIDE DEF r, s
    <2>3. s \in ThreadState
        BY <1>4, <2>1, <2>2 DEF ThreadState
    <2>4. /\ s.Pending = r.Pending /\ s.Awaiting = r.Awaiting /\ s.Stopped = Nil
          /\ s.GoalStop = Nil /\ s.RecoveryAttempts = next.Attempt
          /\ s.ConsecutiveRetries = next.ConsecutiveRetry
          /\ s.RecoveryStartedAt = r.RecoveryStartedAt
        BY <2>1, <2>2 DEF ThreadState
    <2> QED BY <2>1, <2>3, <2>4
<1> HIDE DEF s
<1>12. Sound(s)
    BY <1>4, <1>5, <1>9, <1>11, QueuedSound
<1> QED BY <1>1, <1>8, <1>12

\* The probe of an acknowledged turn failed, found it active, or found it idle.
LEMMA MarkedSound ==
    ASSUME NEW th, Sound(th), th.Awaiting # Nil,
           NEW a \in AwaitingRetry, a.budget = th.Awaiting.budget
    PROVE  /\ Sound([th EXCEPT !.Awaiting = a])
           /\ [th EXCEPT !.Awaiting = a].Awaiting = a /\ a # Nil
<1> DEFINE s == [th EXCEPT !.Awaiting = a]
<1>1. th \in ThreadState
    BY DEF Sound
<1>2. /\ s \in ThreadState
      /\ s.Pending = th.Pending /\ s.Awaiting = a /\ s.Stopped = th.Stopped
      /\ s.GoalStop = th.GoalStop /\ s.RecoveryAttempts = th.RecoveryAttempts
      /\ s.ConsecutiveRetries = th.ConsecutiveRetries
      /\ s.RecoveryStartedAt = th.RecoveryStartedAt
    BY <1>1 DEF ThreadState
<1>3. a # Nil
    BY NilAssumption
<1> HIDE DEF s
<1>4. Sound(s)
    BY <1>2, <1>3, AwaitingFacts, AwaitingSound
<1> QED BY <1>2, <1>3, <1>4 DEF s

LEMMA ProbeFailedSound ==
    ASSUME NEW th, Sound(th), th.Awaiting # Nil,
           NEW reason \in ControllerReasons, NEW cfg \in Config
    PROVE  Sound(probeFailed(th, reason, cfg))
<1> DEFINE fails == th.Awaiting.DispatchFailures + 1
           a == [th.Awaiting EXCEPT !.DispatchFailures = fails]
<1>1. th \in ThreadState /\ th.Awaiting \in AwaitingRetry
    BY AwaitingFacts DEF Sound
<1>2. a \in AwaitingRetry /\ a.budget = th.Awaiting.budget
    BY <1>1 DEF AwaitingRetry
<1>3. probeFailed(th, reason, cfg)
        \in {stopAwaitingForController(th, reason), [th EXCEPT !.Awaiting = a]}
    <2>1. [th EXCEPT !.Awaiting = a]
            = [th EXCEPT !.Awaiting = [@ EXCEPT !.DispatchFailures = fails]]
        BY <1>1 DEF ThreadState
    <2> HIDE DEF a
    <2> QED BY <2>1 DEF probeFailed
<1> HIDE DEF a
<1> QED BY <1>2, <1>3, MarkedSound, StopAwaitingSound

LEMMA ProbeActiveSound ==
    ASSUME NEW th, Sound(th), th.Awaiting # Nil
    PROVE  Sound(probeFoundActive(th))
<1> DEFINE a == [th.Awaiting EXCEPT !.DispatchFailures = 0, !.LifecycleChecks = 0]
<1>1. th \in ThreadState /\ th.Awaiting \in AwaitingRetry
    BY AwaitingFacts DEF Sound
<1>2. a \in AwaitingRetry /\ a.budget = th.Awaiting.budget
    BY <1>1 DEF AwaitingRetry
<1>3. probeFoundActive(th) = [th EXCEPT !.Awaiting = a]
    BY <1>1 DEF probeFoundActive, ThreadState
<1> HIDE DEF a
<1> QED BY <1>2, <1>3, MarkedSound

LEMMA ProbeIdleSound ==
    ASSUME NEW th, Sound(th), th.Awaiting # Nil, NEW time \in Nat, NEW cfg \in Config
    PROVE  Sound(probeFoundIdle(th, time, cfg))
<1> DEFINE a == foundIdleOnce(th.Awaiting)
           t == [th EXCEPT !.Awaiting = a]
<1>1. th \in ThreadState /\ th.Awaiting \in AwaitingRetry
    BY AwaitingFacts DEF Sound
<1>2. a \in AwaitingRetry /\ a.budget = th.Awaiting.budget
    <2> DEFINE n == th.Awaiting.LifecycleChecks + 1
    <2>1. n \in Nat
        BY <1>1 DEF AwaitingRetry
    <2>2. a = [th.Awaiting EXCEPT !.DispatchFailures = 0, !.LifecycleChecks = n]
        BY <1>1 DEF foundIdleOnce, AwaitingRetry
    <2> HIDE DEF n, a
    <2> QED BY <1>1, <2>1, <2>2 DEF AwaitingRetry
<1>3. probeFoundIdle(th, time, cfg) \in {t, advanceInactiveAwaiting(t, time, cfg)}
    BY DEF probeFoundIdle
<1> HIDE DEF a
<1>4. Sound(t) /\ t.Awaiting # Nil
    BY <1>2, MarkedSound
<1> HIDE DEF t
<1> QED BY <1>3, <1>4, AdvanceSound

----------------------------------------------------------------------------
(* Dispatch and its results.                                               *)

\* The held-goal branch of dispatchDueLocked.
LEMMA ClearHeldSound ==
    ASSUME NEW th, Sound(th)
    PROVE  Sound(clearHeldRetry(th))
<1> DEFINE r == dropHeldRetry(th)
           s == [r EXCEPT !.Stopped = Nil]
<1>1. ASSUME th.Pending # Nil \/ th.Awaiting # Nil PROVE Sound(s)
    <2>1. th.GoalStop = Nil
        BY <1>1, PendingFacts, AwaitingFacts
    <2>2. r \in ThreadState
        BY DropSound DEF Sound
    <2>3. r.Pending = Nil /\ r.Awaiting = Nil /\ r.GoalStop = Nil
        BY <2>1 DEF Sound, ThreadState, dropHeldRetry
    <2> HIDE DEF r
    <2>4. s \in ThreadState /\ s.Pending = Nil /\ s.Awaiting = Nil /\ s.GoalStop = Nil
        BY <2>2, <2>3 DEF ThreadState
    <2> HIDE DEF s
    <2> QED BY <2>4, NoRetrySound
<1> HIDE DEF r
<1> QED BY <1>1 DEF clearHeldRetry, r

\* The promotion of a due retry to a dispatched one.
LEMMA StartDispatchSound ==
    ASSUME NEW th, Sound(th), th.Pending # Nil, NEW time \in Nat, NEW cfg \in Config
    PROVE  Sound(startDispatch(th, time, cfg))
<1> DEFINE p == th.Pending
           a == [fault |-> p.fault, budget |-> p.budget,
                 RetryTurnID |-> 0, Action |-> "dispatching",
                 DispatchFailures |-> p.DispatchFailures,
                 ParentNotified |-> p.ParentNotified,
                 GoalLimitRestart |-> p.GoalLimitRestart,
                 DispatchStartedAt |-> time,
                 StartDeadline |-> time + cfg.StartAckTimeout,
                 StartedAt |-> 0, LifecycleChecks |-> 0, LastLifecycleCheckAt |-> 0]
           s == [th EXCEPT !.Pending = Nil, !.LastAutoRetryAt = time, !.Awaiting = a]
<1>1. th \in ThreadState /\ p \in PendingRetry
    BY PendingFacts DEF Sound
<1>2. a \in AwaitingRetry /\ a.budget = p.budget
    BY <1>1 DEF AwaitingRetry, PendingRetry, RetryActions, Config, Positive
<1>3. startDispatch(th, time, cfg) = s
    BY DEF startDispatch
<1>4. a # Nil
    BY <1>2, NilAssumption
<1> HIDE DEF a
<1>5. /\ s \in ThreadState
      /\ s.Pending = Nil /\ s.Awaiting = a /\ s.Stopped = th.Stopped
      /\ s.GoalStop = th.GoalStop /\ s.RecoveryAttempts = th.RecoveryAttempts
      /\ s.ConsecutiveRetries = th.ConsecutiveRetries
      /\ s.RecoveryStartedAt = th.RecoveryStartedAt
    BY <1>1, <1>2 DEF ThreadState
<1> HIDE DEF s
<1>6. Sound(s)
    BY <1>2, <1>4, <1>5, PendingFacts, AwaitingSound
<1> QED BY <1>3, <1>6

LEMMA NotifySound ==
    ASSUME NEW th, Sound(th), th.Awaiting # Nil, NEW notified
    PROVE  Sound(notifyParent(th, notified)) /\ notifyParent(th, notified).Awaiting # Nil
<1> DEFINE a == [th.Awaiting EXCEPT !.ParentNotified = TRUE]
<1>1. th \in ThreadState /\ th.Awaiting \in AwaitingRetry
    BY AwaitingFacts DEF Sound
<1>2. a \in AwaitingRetry /\ a.budget = th.Awaiting.budget
    BY <1>1 DEF AwaitingRetry
<1>3. notifyParent(th, notified) = IF notified THEN [th EXCEPT !.Awaiting = a] ELSE th
    BY <1>1 DEF notifyParent, ThreadState
<1> HIDE DEF a
<1> QED BY <1>2, <1>3, MarkedSound

LEMMA AcceptedSound ==
    ASSUME NEW th, Sound(th), th.Awaiting # Nil, NEW action \in RetryActions,
           NEW at \in Nat, NEW cfg \in Config
    PROVE  Sound(dispatchAccepted(th, action, at, cfg))
<1> DEFINE due == at + cfg.StartAckTimeout
           a == [th.Awaiting EXCEPT !.Action = action, !.DispatchFailures = 0,
                                    !.StartDeadline = due]
<1>1. th \in ThreadState /\ th.Awaiting \in AwaitingRetry
    BY AwaitingFacts DEF Sound
<1>2. a \in AwaitingRetry /\ a.budget = th.Awaiting.budget
    <2>1. due \in Nat
        BY DEF Config, Positive
    <2> HIDE DEF due
    <2> QED BY <1>1, <2>1 DEF AwaitingRetry
<1>3. dispatchAccepted(th, action, at, cfg) = [th EXCEPT !.Awaiting = a]
    BY <1>1 DEF dispatchAccepted, ThreadState
<1> HIDE DEF a
<1> QED BY <1>2, <1>3, MarkedSound

LEMMA UserActiveSound ==
    ASSUME NEW th, Sound(th), th.Awaiting # Nil, NEW reason \in ControllerReasons,
           NEW at \in Nat, NEW cfg \in Config
    PROVE  Sound(dispatchUserActive(th, reason, at, cfg))
<1> DEFINE a == [th.Awaiting EXCEPT !.DispatchFailures = 0]
           t == [th EXCEPT !.Awaiting = a]
           counted == FALSE
<1>1. th \in ThreadState /\ th.Awaiting \in AwaitingRetry
    BY AwaitingFacts DEF Sound
<1>2. a \in AwaitingRetry /\ a.budget = th.Awaiting.budget
    BY <1>1 DEF AwaitingRetry
<1>3. t = [th EXCEPT !.Awaiting = [@ EXCEPT !.DispatchFailures = 0]]
    BY <1>1 DEF ThreadState
<1>4. counted \in BOOLEAN
    OBVIOUS
<1> HIDE DEF a
<1>5. Sound(t) /\ t.Awaiting # Nil
    BY <1>2, MarkedSound
<1> HIDE DEF t, counted
<1>6. Sound(rescheduleAwaitingWithPolicy(t, at, reason, counted, cfg))
    BY <1>4, <1>5, RescheduleSound
<1> QED BY <1>3, <1>6 DEF dispatchUserActive, counted

LEMMA NotApplicableSound ==
    ASSUME NEW th, Sound(th), NEW reason
    PROVE  Sound(dispatchNotApplicable(th, reason))
<1> DEFINE t == resetRetryState(th)
           hold == goalHoldStatusForReason(reason)
           status == IF hold = {""} THEN t.GoalStatus ELSE CHOOSE g \in hold : TRUE
           s == [t EXCEPT !.GoalHeld = TRUE, !.GoalStatus = status]
<1>1. Sound(t) /\ t \in ThreadState
    BY ResetSound DEF Sound
<1>2. t.Pending = Nil /\ t.Awaiting = Nil /\ t.GoalStop = Nil
    BY DEF Sound, ThreadState, resetRetryState
<1>3. hold \subseteq GoalStates
    BY DEF goalHoldStatusForReason, GoalStates, limitGoalStatuses
<1>4. dispatchNotApplicable(th, reason) =
        IF hold = {} THEN t
        ELSE [t EXCEPT !.GoalHeld = TRUE,
                       !.GoalStatus = IF hold = {""} THEN @ ELSE CHOOSE g \in hold : TRUE]
    BY DEF dispatchNotApplicable
<1> HIDE DEF t, hold
<1>5. ASSUME hold # {} PROVE Sound(s)
    <2>1. status \in GoalStates
        <3>1. t.GoalStatus \in GoalStates
            BY <1>1 DEF ThreadState
        <3>2. (CHOOSE g \in hold : TRUE) \in hold
            BY <1>5
        <3> QED BY <1>3, <3>1, <3>2
    <2> HIDE DEF status
    <2>2. s \in ThreadState /\ s.Pending = Nil /\ s.Awaiting = Nil /\ s.GoalStop = Nil
        BY <1>1, <1>2, <2>1 DEF ThreadState
    <2> HIDE DEF s
    <2> QED BY <2>2, NoRetrySound
<1>6. s = [t EXCEPT !.GoalHeld = TRUE,
                    !.GoalStatus = IF hold = {""} THEN @ ELSE CHOOSE g \in hold : TRUE]
    BY <1>1 DEF ThreadState
<1> HIDE DEF s
<1> QED BY <1>1, <1>4, <1>5, <1>6

\* rescheduleGoalBlockLocked: asked again later, or given up with a reason.
LEMMA GoalBlockFailedSound ==
    ASSUME NEW th, Sound(th), th.GoalStop # Nil, NEW time \in Nat,
           NEW reason \in ControllerReasons, NEW cfg \in Config
    PROVE  Sound(rescheduleGoalBlock(th, time, reason, cfg))
<1> DEFINE fails == th.GoalStop.DispatchFailures + 1
           due == time + retryDelay(fails, cfg)
           why == IF controllerFailureNeedsAction(reason) THEN reason
                  ELSE "goal_empty_response_limit_block_failed"
           st == [th.Stopped EXCEPT !.Reason = why]
           gs == [th.GoalStop EXCEPT !.DispatchFailures = fails, !.DueAt = due]
           given == [th EXCEPT !.GoalStop = Nil, !.GoalHeld = TRUE, !.Stopped = st]
           again == [th EXCEPT !.GoalStop = gs]
<1>1. /\ th \in ThreadState /\ th.GoalStop \in GoalStopRequest
      /\ th.Stopped \in StoppedRetry /\ th.Stopped # Nil
      /\ th.Pending = Nil /\ th.Awaiting = Nil
    BY DEF Sound, ThreadState, goalStopBacked, automaticGoalLimitStopped, onePhase
<1>2. /\ fails \in Nat /\ due \in Nat
    <2>1. fails \in Nat
        BY <1>1 DEF GoalStopRequest
    <2> HIDE DEF fails
    <2> QED BY <2>1, DelayBounded
<1>3. why \in StopReasons
    BY DEF StopReasons
<1>4. rescheduleGoalBlock(th, time, reason, cfg) \in {given, again}
    <2>1. given = [th EXCEPT !.GoalStop = Nil, !.GoalHeld = TRUE,
                             !.Stopped = IF @ = Nil THEN Nil ELSE [@ EXCEPT !.Reason = why]]
        BY <1>1 DEF ThreadState
    <2>2. again = [th EXCEPT !.GoalStop = [@ EXCEPT !.DispatchFailures = fails,
                                                    !.DueAt = due]]
        BY <1>1 DEF ThreadState
    <2> HIDE DEF given, again
    <2> QED BY <2>1, <2>2 DEF rescheduleGoalBlock
<1> HIDE DEF fails, due, why
<1>5. st \in StoppedRetry
    BY <1>1, <1>3 DEF StoppedRetry
<1>6. gs \in GoalStopRequest /\ gs.EventKey = th.GoalStop.EventKey
    BY <1>1, <1>2 DEF GoalStopRequest
<1> HIDE DEF st, gs
<1>7. Sound(given)
    <2>1. /\ given \in ThreadState
          /\ given.Pending = Nil /\ given.Awaiting = Nil /\ given.GoalStop = Nil
        BY <1>1, <1>5 DEF ThreadState
    <2> HIDE DEF given
    <2> QED BY <2>1, NoRetrySound
<1>8. Sound(again)
    <2>1. /\ again \in ThreadState
          /\ again.Pending = Nil /\ again.Awaiting = Nil /\ again.GoalStop = gs
          /\ again.Stopped = th.Stopped
        BY <1>1, <1>6 DEF ThreadState
    <2> HIDE DEF again
    <2> QED BY <1>6, <2>1 DEF Sound, onePhase, goalStopBacked, countersAgree, liveRetry,
            automaticGoalLimitStopped
<1> HIDE DEF given, again
<1> QED BY <1>4, <1>7, <1>8

\* runGoalBlockJob after the goal was blocked: the request is done, the stop stays.
LEMMA GoalBlockedSound ==
    ASSUME NEW th, Sound(th), th.GoalStop # Nil, NEW status \in GoalStates, NEW at \in Nat
    PROVE  Sound(goalBlocked(th, status, at))
<1> DEFINE st == [th.Stopped EXCEPT !.Reason = "goal_empty_response_limit"]
           s == [th EXCEPT !.GoalStop = Nil, !.GoalStatus = status, !.GoalObservedAt = at,
                           !.GoalHeld = TRUE, !.Stopped = st]
<1>1. /\ th \in ThreadState
      /\ th.Stopped \in StoppedRetry /\ th.Stopped # Nil
      /\ th.Pending = Nil /\ th.Awaiting = Nil
    BY DEF Sound, ThreadState, goalStopBacked, automaticGoalLimitStopped, onePhase
<1>2. st \in StoppedRetry
    BY <1>1 DEF StoppedRetry, StopReasons
<1>3. goalBlocked(th, status, at) = s
    BY <1>1 DEF goalBlocked, ThreadState
<1> HIDE DEF st
<1>4. s \in ThreadState /\ s.Pending = Nil /\ s.Awaiting = Nil /\ s.GoalStop = Nil
    BY <1>1, <1>2 DEF ThreadState
<1> HIDE DEF s
<1> QED BY <1>3, <1>4, NoRetrySound

----------------------------------------------------------------------------
(* Restart.                                                                *)

\* loadState repairs a saved thread.
LEMMA LoadSound ==
    ASSUME NEW th, Sound(th)
    PROVE  Sound(loadThread(th))
<1> DEFINE st == th.Stopped
           fixed == IF st = Nil THEN Nil
                    ELSE IF st.budget.ConsecutiveRetry < 1
                    THEN [st EXCEPT !.budget = [@ EXCEPT !.ConsecutiveRetry = st.budget.Attempt]]
                    ELSE st
           request == IF th.GoalStop = Nil \/ st = Nil THEN Nil
                      ELSE IF th.GoalStop.EventKey # st.fault.EventKey THEN Nil ELSE th.GoalStop
           s == [th EXCEPT !.Stopped = fixed, !.GoalStop = request]
<1>1. th \in ThreadState
    BY DEF Sound
<1>2. /\ fixed \in StoppedRetry \cup {Nil} /\ (fixed = Nil <=> st = Nil)
      /\ st # Nil => fixed.Reason = st.Reason /\ fixed.fault = st.fault
    <2>1. CASE st # Nil
        <3> DEFINE b == [st.budget EXCEPT !.ConsecutiveRetry = st.budget.Attempt]
                   r == [st EXCEPT !.budget = b]
        <3>1. st \in StoppedRetry /\ st.budget \in Budget
            BY <1>1, <2>1 DEF ThreadState, StoppedRetry
        <3>2. b \in Budget
            BY <3>1 DEF Budget
        <3>3. fixed \in {r, st}
            BY <2>1, <3>1 DEF StoppedRetry
        <3> HIDE DEF b, fixed, st
        <3>4. r \in StoppedRetry /\ r.Reason = st.Reason /\ r.fault = st.fault
            BY <3>1, <3>2 DEF StoppedRetry
        <3> QED BY <2>1, <3>1, <3>3, <3>4, NilAssumption
    <2> QED BY <2>1
<1>3. request \in {Nil, th.GoalStop}
    OBVIOUS
<1>4. loadThread(th) = s
    BY <1>1 DEF loadThread, ThreadState
<1> HIDE DEF fixed, request
<1>5. /\ s \in ThreadState
      /\ s.Pending = th.Pending /\ s.Awaiting = th.Awaiting /\ s.Stopped = fixed
      /\ s.GoalStop = request /\ s.RecoveryAttempts = th.RecoveryAttempts
      /\ s.ConsecutiveRetries = th.ConsecutiveRetries
      /\ s.RecoveryStartedAt = th.RecoveryStartedAt
    BY <1>1, <1>2, <1>3 DEF ThreadState
<1> HIDE DEF s
<1>6. Sound(s)
    BY <1>2, <1>3, <1>5 DEF Sound, onePhase, goalStopBacked, countersAgree, liveRetry,
        automaticGoalLimitStopped
<1> QED BY <1>4, <1>6

\* reconcileStartupState queues the interrupted dispatch again.
THEOREM RestartKeepsSound ==
    ASSUME NEW th, Sound(th), NEW time \in Nat
    PROVE  Sound(reconcileStartupState(loadThread(th), time))
<1> DEFINE t == loadThread(th)
<1>1. Sound(t)
    BY LoadSound
<1> HIDE DEF t
<1>2. ASSUME t.Awaiting # Nil
      PROVE  Sound(requeue(t, t.Awaiting.budget, time, t.Awaiting.DispatchFailures))
    <2>1. t.Awaiting.budget \in Budget /\ t.Awaiting.DispatchFailures \in Nat
        BY <1>1, <1>2, AwaitingFacts DEF AwaitingRetry
    <2> QED BY <1>1, <1>2, <2>1, AwaitingFacts, RequeueSound
<1>3. Sound(reconcileStartupState(t, time))
    BY <1>1, <1>2 DEF reconcileStartupState
<1> QED BY <1>3 DEF t

----------------------------------------------------------------------------
(* The daemon: types, and the soundness of every thread.                   *)

SoundThread == {th \in ThreadState : Sound(th)}

\* A goal block reports the status in which the goal was left.
SoundJob == {j \in Job : j.kind = "goal_block" => j.sent \in GoalStates}

CodexInv == CodexTypeOK /\ now # 0

MemoryInv ==
    /\ threads \in [Threads -> SoundThread]
    /\ config \in Config
    /\ controllerState \in ControllerStates
    /\ paused \in BOOLEAN /\ memGuard \in BOOLEAN
    /\ active \subseteq Threads
    /\ jobs \subseteq SoundJob

\* Time 0 stands for "never", so no tick may run at time 0.
TickInv ==
    /\ phase \in Phases
    /\ tickNow \in Nat
    /\ phase # "idle" => tickNow # 0
    /\ ready \in BOOLEAN
    /\ batch \in [Threads -> Seq(Event)]
    /\ probes \subseteq Probe

FileInv ==
    /\ disk \in [Threads -> SoundThread]
    /\ unsaved \in [Threads -> Seq(Event)]
    /\ configFile \in Config
    /\ pausedFile \in BOOLEAN
    /\ commands \in Seq(Command)

Inv == CodexInv /\ MemoryInv /\ TickInv /\ FileInv

----------------------------------------------------------------------------
(* The initial state.                                                      *)

LEMMA SoundMember ==
    ASSUME NEW th
    PROVE  th \in SoundThread <=> Sound(th)
BY DEF SoundThread, Sound

\* A thread that was never seen has no retry.
LEMMA NewThreadSound == Sound(NewThread)
<1>1. NewThread \in ThreadState
    BY DEF NewThread, ThreadState, GoalStates
<1>2. NewThread.Pending = Nil /\ NewThread.Awaiting = Nil /\ NewThread.GoalStop = Nil
    BY DEF NewThread
<1> HIDE DEF NewThread
<1> QED BY <1>1, <1>2, NoRetrySound

LEMMA EmptyQueues ==
    emptyQueues \in [Threads -> Seq(Event)]
BY DEF emptyQueues

\* The daemon starts in the invariant, with no state file or an empty one.
LEMMA InitInv == Init => Inv
<1> SUFFICES ASSUME Init PROVE Inv
    OBVIOUS
<1>1. CodexInv
    <2>1. rollout \in [Threads -> Seq(Event)]
        BY EmptyQueues DEF Init, CodexInit, emptyQueues
    <2>2. /\ turn \in [Threads -> Turn \cup {Nil}] /\ requests \in [Threads -> SUBSET Nat]
          /\ now = 1 /\ nextTurn = 1
        BY DEF Init, CodexInit
    <2>3. goal \in [Threads -> [status : GoalStates, updatedAt : Nat]]
        <3>1. [status |-> "", updatedAt |-> 0] \in [status : GoalStates, updatedAt : Nat]
            BY DEF GoalStates
        <3> QED BY <3>1 DEF Init, CodexInit
    <2> QED BY <2>1, <2>2, <2>3 DEF CodexInv, CodexTypeOK
<1>2. threads \in [Threads -> SoundThread]
    BY NewThreadSound, SoundMember DEF Init
<1>3. MemoryInv
    BY <1>2, DaemonAssumption DEF Init, MemoryInv, ControllerStates
<1>4. TickInv
    BY EmptyQueues DEF Init, TickInv, Phases
<1>5. FileInv
    <2>1. disk \in [Threads -> SoundThread] /\ unsaved \in [Threads -> Seq(Event)]
        BY <1>2, EmptyQueues DEF Init
    <2>2. configFile \in Config /\ pausedFile \in BOOLEAN
        BY DaemonAssumption DEF Init
    <2>3. commands \in Seq(Command)
        BY DEF Init
    <2> QED BY <2>1, <2>2, <2>3 DEF FileInv
<1> QED BY <1>1, <1>3, <1>4, <1>5 DEF Inv

----------------------------------------------------------------------------
(* Codex.                                                                  *)

LEMMA RecordType ==
    ASSUME now \in Nat, NEW kind \in EventKinds, NEW id \in Nat
    PROVE  record(kind, id) \in Event
BY DEF record, Event, GoalStates

LEMMA AppendType ==
    ASSUME rollout \in [Threads -> Seq(Event)], NEW t \in Threads, NEW ev \in Event,
           append(t, ev)
    PROVE  rollout' \in [Threads -> Seq(Event)]
<1>1. Append(rollout[t], ev) \in Seq(Event)
    BY AppendProperties
<1> QED BY <1>1 DEF append

LEMMA StartTurnInv ==
    ASSUME CodexInv, NEW t \in Threads, NEW origin \in {"user", "native", "watchdog"},
           startTurn(t, origin)
    PROVE  /\ rollout' \in [Threads -> Seq(Event)] /\ turn' \in [Threads -> Turn \cup {Nil}]
           /\ nextTurn' \in Nat /\ goal' = goal
<1>1. record("task_started", nextTurn) \in Event
    BY RecordType DEF CodexInv, CodexTypeOK, EventKinds
<1>2. rollout' \in [Threads -> Seq(Event)]
    BY <1>1, AppendType DEF startTurn, CodexInv, CodexTypeOK
<1>3. [id |-> nextTurn, origin |-> origin] \in Turn
    BY DEF Turn, CodexInv, CodexTypeOK
<1>4. turn' \in [Threads -> Turn \cup {Nil}]
    BY <1>3 DEF startTurn, CodexInv, CodexTypeOK
<1>5. nextTurn' \in Nat /\ goal' = goal
    BY DEF startTurn, CodexInv, CodexTypeOK
<1> QED BY <1>2, <1>4, <1>5

LEMMA SetGoalInv ==
    ASSUME CodexInv, NEW t \in Threads, NEW status \in GoalStates, setGoal(t, status)
    PROVE  /\ rollout' \in [Threads -> Seq(Event)]
           /\ goal' \in [Threads -> [status : GoalStates, updatedAt : Nat]]
<1>1. now \in Nat /\ record("thread_goal_updated", 0) \in Event
    BY RecordType DEF CodexInv, CodexTypeOK, EventKinds
<1>2. [record("thread_goal_updated", 0) EXCEPT !.status = status, !.updatedAt = now] \in Event
    BY <1>1 DEF Event
<1>3. rollout' \in [Threads -> Seq(Event)]
    BY <1>2, AppendType DEF setGoal, CodexInv, CodexTypeOK
<1>4. [status |-> status, updatedAt |-> now] \in [status : GoalStates, updatedAt : Nat]
    BY <1>1
<1> QED BY <1>3, <1>4 DEF setGoal, CodexInv, CodexTypeOK

\* Whatever Codex does, it writes records that the daemon knows.
LEMMA CodexStepInv ==
    ASSUME CodexInv, NEW t \in Threads, CodexStep(t), UNCHANGED now
    PROVE  CodexInv'
<1> USE DEF CodexInv, CodexTypeOK
<1>1. ASSUME NEW kind \in EventKinds, NEW id \in Nat, append(t, record(kind, id))
      PROVE  rollout' \in [Threads -> Seq(Event)]
    BY <1>1, RecordType, AppendType
<1>2. turn[t] # Nil => turn[t].id \in Nat
    BY DEF Turn
<1>3. CASE UserStart(t)
    BY <1>3, StartTurnInv DEF UserStart
<1>4. CASE NativeStart(t)
    BY <1>4, StartTurnInv DEF NativeStart
<1>5. CASE RequestedStart(t)
    BY <1>5, StartTurnInv DEF RequestedStart
<1>6. CASE Progress(t)
    BY <1>1, <1>2, <1>6 DEF Progress, EventKinds
<1>7. CASE UserInput(t)
    BY <1>1, <1>2, <1>7 DEF UserInput, EventKinds
<1>8. CASE Complete(t)
    <2>1. PICK class \in Outcomes :
            append(t, [record("task_complete", turn[t].id) EXCEPT !.class = class])
        BY <1>8 DEF Complete
    <2>2. record("task_complete", turn[t].id) \in Event
        BY <1>2, <1>8, RecordType DEF Complete, EventKinds
    <2>3. [record("task_complete", turn[t].id) EXCEPT !.class = class] \in Event
        BY <2>2, CodexAssumption DEF Event
    <2>4. rollout' \in [Threads -> Seq(Event)]
        BY <2>1, <2>3, AppendType
    <2> QED BY <1>8, <2>4 DEF Complete
<1>9. CASE Abort(t)
    BY <1>1, <1>2, <1>9 DEF Abort, EventKinds
<1>10. CASE Lose(t)
    BY <1>10 DEF Lose
<1>11. CASE UpdateGoal(t)
    BY <1>11, SetGoalInv, CodexAssumption DEF UpdateGoal
<1>12. CASE Notice(t)
    <2>1. PICK key \in 1..(nextTurn - 1) :
            append(t, [record("subagent_recovery_notice", 0) EXCEPT !.key = key])
        BY <1>12 DEF Notice
    <2>2. record("subagent_recovery_notice", 0) \in Event
        BY RecordType DEF EventKinds
    <2>3. [record("subagent_recovery_notice", 0) EXCEPT !.key = key] \in Event
        <3>1. key \in Nat
            OBVIOUS
        <3> QED BY <2>2, <3>1 DEF Event
    <2>4. rollout' \in [Threads -> Seq(Event)]
        BY <2>1, <2>3, AppendType
    <2> QED BY <1>12, <2>4 DEF Notice
<1> QED
    BY <1>3, <1>4, <1>5, <1>6, <1>7, <1>8, <1>9, <1>10, <1>11, <1>12 DEF CodexStep

----------------------------------------------------------------------------
(* The tick.                                                               *)

LEMMA SharedOffType ==
    ASSUME NEW cfg \in Config
    PROVE  sharedOff(cfg) \in Config
BY DEF sharedOff, Config

LEMMA ControllerSuccessType ==
    ASSUME NEW cfg, NEW state \in ControllerStates
    PROVE  recordControllerSuccess(cfg, state) \in ControllerStates
BY DEF recordControllerSuccess, ControllerStates

\* failOpenSharedBackend keeps the settings valid.
LEMMA FailOpenType ==
    ASSUME config \in Config, configFile \in Config,
           NEW reason \in ControllerStates, failOpenSharedBackend(reason)
    PROVE  config' \in Config /\ configFile' \in Config /\ controllerState' \in ControllerStates
<1>1. "shared_app_server_disabled" \in ControllerStates
    BY DEF ControllerStates, ControllerReasons
<1>2. sharedOff(config) \in Config /\ sharedOff(configFile) \in Config
    BY SharedOffType
<1> QED BY <1>1, <1>2 DEF failOpenSharedBackend

LEMMA TickBeginInv ==
    ASSUME Inv, TickBegin
    PROVE  Inv'
<1>1. TickInv'
    BY DEF Inv, TickInv, TickBegin, Phases, CodexInv, CodexTypeOK
<1>2. CodexInv' /\ MemoryInv' /\ FileInv'
    BY DEF Inv, TickBegin, CodexInv, CodexTypeOK, MemoryInv, FileInv, codexVars, memoryVars,
           fileVars
<1> QED BY <1>1, <1>2 DEF Inv

LEMMA LatchedFailureInv ==
    ASSUME Inv, LatchedFailure
    PROVE  Inv'
<1>1. /\ config' \in Config /\ configFile' \in Config
      /\ controllerState' \in ControllerStates
    <2>1. "shared_app_server_config_invalid" \in ControllerStates
        BY DEF ControllerStates, ControllerReasons
    <2> QED BY <2>1, FailOpenType DEF Inv, MemoryInv, FileInv, LatchedFailure
<1>2. TickInv'
    BY DEF Inv, TickInv, LatchedFailure, Phases
<1>3. MemoryInv' /\ FileInv'
    BY <1>1 DEF Inv, LatchedFailure, MemoryInv, FileInv
<1>4. CodexInv'
    BY DEF Inv, LatchedFailure, CodexInv, CodexTypeOK, codexVars
<1> QED BY <1>2, <1>3, <1>4 DEF Inv

LEMMA ControllerProbeInv ==
    ASSUME Inv, ControllerProbe
    PROVE  Inv'
<1>1. /\ config' \in Config /\ configFile' \in Config
      /\ controllerState' \in ControllerStates
    <2>1. PICK reported \in ProbeStates :
            LET shared == config.SharedAppServerEnabled
                state == IF ~shared /\ reported = "ready" THEN "shared_app_server_disabled"
                         ELSE reported
            IN  IF shared /\ controllerFailureNeedsFailOpen(state)
                THEN failOpenSharedBackend(state)
                ELSE /\ controllerState' = state
                     /\ config' = IF state = "shared_app_server_disabled"
                                  THEN sharedOff(config) ELSE config
                     /\ UNCHANGED configFile
        BY DEF ControllerProbe
    <2> DEFINE shared == config.SharedAppServerEnabled
               state == IF ~shared /\ reported = "ready" THEN "shared_app_server_disabled"
                        ELSE reported
    <2>2. state \in ControllerStates
        BY DaemonAssumption DEF ControllerStates, ControllerReasons
    <2>3. /\ config \in Config /\ configFile \in Config
          /\ sharedOff(config) \in Config
        BY SharedOffType DEF Inv, MemoryInv, FileInv
    <2>4. IF shared /\ controllerFailureNeedsFailOpen(state)
          THEN failOpenSharedBackend(state)
          ELSE /\ controllerState' = state
               /\ config' \in {sharedOff(config), config}
               /\ UNCHANGED configFile
        BY <2>1
    <2> HIDE DEF state, shared
    <2> QED BY <2>2, <2>3, <2>4, FailOpenType
<1>2. ready' \in BOOLEAN
    BY DEF ControllerProbe
<1>3. TickInv'
    BY <1>2 DEF Inv, TickInv, ControllerProbe, Phases
<1>4. MemoryInv' /\ FileInv'
    BY <1>1 DEF Inv, ControllerProbe, MemoryInv, FileInv
<1>5. CodexInv'
    BY DEF Inv, ControllerProbe, CodexInv, CodexTypeOK, codexVars
<1> QED BY <1>3, <1>4, <1>5 DEF Inv

LEMMA QueueConcat ==
    ASSUME NEW q \in [Threads -> Seq(Event)], NEW r \in [Threads -> Seq(Event)]
    PROVE  [t \in Threads |-> q[t] \o r[t]] \in [Threads -> Seq(Event)]
<1>1. \A t \in Threads : q[t] \o r[t] \in Seq(Event)
    BY ConcatProperties
<1> QED BY <1>1

\* reloadConfigLocked and scanSessions.
LEMMA TickScanInv ==
    ASSUME Inv, TickScan
    PROVE  Inv'
<1>1. threads' \in [Threads -> SoundThread]
    <2>1. \A t \in Threads : Sound(reloadLimits(threads[t], configFile, now))
        BY SoundMember, ReloadSound DEF Inv, MemoryInv, FileInv, CodexInv, CodexTypeOK
    <2> QED BY <2>1, SoundMember DEF TickScan
<1>2. config' \in Config /\ configFile' \in Config
    BY DEF Inv, FileInv, TickScan
<1>3. controllerState' \in ControllerStates
    BY DEF Inv, MemoryInv, TickScan, ControllerStates, ControllerReasons
<1>4. memGuard' \in BOOLEAN
    BY DEF TickScan
<1>5. MemoryInv'
    BY <1>1, <1>2, <1>3, <1>4 DEF Inv, MemoryInv, TickScan
<1>6. TickInv'
    <2>1. batch' \in [Threads -> Seq(Event)]
        BY DEF Inv, CodexInv, CodexTypeOK, TickScan
    <2>2. tickNow' \in Nat /\ tickNow' # 0
        BY DEF Inv, CodexInv, CodexTypeOK, TickInv, TickScan
    <2> QED BY <2>1, <2>2 DEF Inv, TickInv, TickScan, Phases
<1>7. FileInv'
    <2>1. unsaved' \in [Threads -> Seq(Event)]
        BY QueueConcat DEF Inv, FileInv, CodexInv, CodexTypeOK, TickScan
    <2> QED BY <2>1 DEF Inv, FileInv, TickScan
<1>8. CodexInv'
    BY EmptyQueues DEF Inv, TickScan, CodexInv, CodexTypeOK
<1> QED BY <1>5, <1>6, <1>7, <1>8 DEF Inv

\* cancelJobs only marks jobs.
LEMMA CancelJobsType ==
    ASSUME NEW js \in SUBSET SoundJob, NEW t
    PROVE  cancelJobs(js, t) \in SUBSET SoundJob
<1>1. \A j \in SoundJob : [j EXCEPT !.cancelled = TRUE] \in SoundJob
    BY DEF SoundJob, Job
<1> QED BY <1>1 DEF cancelJobs

\* handleEventLocked.
LEMMA HandleEventInv ==
    ASSUME Inv, NEW t \in Threads, HandleEvent(t)
    PROVE  Inv'
<1> DEFINE ev == Head(batch[t])
<1>1. ev \in Event /\ Tail(batch[t]) \in Seq(Event)
    <2>1. batch[t] \in Seq(Event) /\ batch[t] # <<>>
        BY DEF Inv, TickInv, HandleEvent
    <2> QED BY <2>1, HeadTailProperties
<1>2. threads' \in [Threads -> SoundThread]
    <2>1. Sound(handleEvent(threads[t], ev, tickNow, config))
        <3>1. Sound(threads[t]) /\ tickNow \in Nat /\ tickNow # 0 /\ config \in Config
            BY SoundMember DEF Inv, MemoryInv, TickInv, HandleEvent
        <3> HIDE DEF ev
        <3> QED BY <1>1, <3>1, EventSound
    <2> QED BY <2>1, SoundMember DEF Inv, MemoryInv, HandleEvent
<1>3. jobs' \subseteq SoundJob
    BY CancelJobsType DEF Inv, MemoryInv, HandleEvent
<1>4. MemoryInv'
    BY <1>2, <1>3 DEF Inv, MemoryInv, HandleEvent
<1>5. TickInv'
    BY <1>1 DEF Inv, TickInv, HandleEvent
<1>6. CodexInv' /\ FileInv'
    BY DEF Inv, HandleEvent, CodexInv, CodexTypeOK, FileInv, codexVars, fileVars
<1> QED BY <1>4, <1>5, <1>6 DEF Inv

\* reopenRestartRequiredLocked.
LEMMA ReopenInv ==
    ASSUME Inv, Reopen
    PROVE  Inv'
<1>1. threads' \in [Threads -> SoundThread]
    <2>1. \A t \in Threads : Sound(reopenRestartRequired(threads[t], tickNow, config))
        BY SoundMember, ReopenSound DEF Inv, MemoryInv, TickInv
    <2> QED BY <2>1, SoundMember DEF Inv, MemoryInv, Reopen
<1>2. MemoryInv'
    BY <1>1 DEF Inv, MemoryInv, FileInv, Reopen
<1>3. TickInv'
    BY DEF Inv, TickInv, Reopen, Phases
<1>4. CodexInv' /\ FileInv'
    BY DEF Inv, Reopen, CodexInv, CodexTypeOK, FileInv, codexVars, fileVars
<1> QED BY <1>2, <1>3, <1>4 DEF Inv

\* applyControlCommandLocked.
LEMMA ControlCommandInv ==
    ASSUME Inv, ControlCommand
    PROVE  Inv'
<1> DEFINE c == Head(commands)
<1>1. c \in Command /\ Tail(commands) \in Seq(Command)
    <2>1. commands \in Seq(Command) /\ commands # <<>>
        BY DEF Inv, FileInv, ControlCommand
    <2> QED BY <2>1, HeadTailProperties
<1>2. threads' \in [Threads -> SoundThread]
    <2>1. c.thread \in Threads
        BY <1>1 DEF Command
    <2>2. Sound(applyControlCommand(threads[c.thread], c.action, tickNow, config))
        <3>1. /\ Sound(threads[c.thread]) /\ tickNow \in Nat /\ tickNow # 0
              /\ config \in Config
            BY <2>1, SoundMember DEF Inv, MemoryInv, TickInv, ControlCommand
        <3> HIDE DEF c
        <3> QED BY <3>1, CommandSound
    <2> QED BY <2>1, <2>2, SoundMember DEF Inv, MemoryInv, ControlCommand
<1>3. jobs' \subseteq SoundJob
    BY CancelJobsType DEF Inv, MemoryInv, ControlCommand
<1>4. MemoryInv'
    BY <1>2, <1>3 DEF Inv, MemoryInv, ControlCommand
<1>5. FileInv'
    BY <1>1 DEF Inv, FileInv, ControlCommand
<1>6. CodexInv' /\ TickInv'
    BY DEF Inv, ControlCommand, CodexInv, CodexTypeOK, TickInv, codexVars, tickVars
<1> QED BY <1>4, <1>5, <1>6 DEF Inv

\* expireUnacknowledgedLocked.
LEMMA EndControlsInv ==
    ASSUME Inv, EndControls
    PROVE  Inv'
<1>1. threads' \in [Threads -> SoundThread]
    <2>1. \A t \in Threads : Sound(expireUnacknowledged(threads[t], tickNow, config))
        BY SoundMember, ExpireSound DEF Inv, MemoryInv, TickInv
    <2> QED BY <2>1, SoundMember DEF Inv, MemoryInv, EndControls
<1>2. MemoryInv'
    BY <1>1 DEF Inv, MemoryInv, EndControls
<1>3. TickInv'
    BY DEF Inv, TickInv, EndControls, Phases
<1>4. CodexInv' /\ FileInv'
    BY DEF Inv, EndControls, CodexInv, CodexTypeOK, FileInv, codexVars, fileVars
<1> QED BY <1>2, <1>3, <1>4 DEF Inv

\* checkSharedAppServerMemory.
LEMMA MemoryLimitInv ==
    ASSUME Inv, MemoryLimitExceeded
    PROVE  Inv'
<1>1. /\ config' \in Config /\ configFile' \in Config
      /\ controllerState' \in ControllerStates
    <2>1. "shared_app_server_memory_limit_exceeded" \in ControllerStates
        BY DEF ControllerStates, ControllerReasons
    <2> QED BY <2>1, FailOpenType DEF Inv, MemoryInv, FileInv, MemoryLimitExceeded
<1>2. MemoryInv' /\ FileInv'
    BY <1>1 DEF Inv, MemoryLimitExceeded, MemoryInv, FileInv
<1>3. CodexInv' /\ TickInv'
    BY DEF Inv, MemoryLimitExceeded, CodexInv, CodexTypeOK, TickInv, codexVars, tickVars
<1> QED BY <1>2, <1>3 DEF Inv

\* reconcileAwaitingLifecycle, first part: the acknowledged retries are marked.
LEMMA CollectProbesInv ==
    ASSUME Inv, CollectProbes
    PROVE  Inv'
<1>1. \A t \in Threads : threads[t].Awaiting # Nil =>
        /\ threads[t].Awaiting \in AwaitingRetry
        /\ Sound([threads[t] EXCEPT !.Awaiting =
                    [@ EXCEPT !.LastLifecycleCheckAt = tickNow]])
    <2> SUFFICES ASSUME NEW t \in Threads, threads[t].Awaiting # Nil
                 PROVE  /\ threads[t].Awaiting \in AwaitingRetry
                        /\ Sound([threads[t] EXCEPT !.Awaiting =
                                    [@ EXCEPT !.LastLifecycleCheckAt = tickNow]])
        OBVIOUS
    <2> DEFINE th == threads[t]
               a == [th.Awaiting EXCEPT !.LastLifecycleCheckAt = tickNow]
    <2>1. Sound(th) /\ tickNow \in Nat
        BY SoundMember DEF Inv, MemoryInv, TickInv
    <2>2. th \in ThreadState /\ th.Awaiting \in AwaitingRetry
        BY <2>1, AwaitingFacts DEF Sound
    <2>3. a \in AwaitingRetry /\ a.budget = th.Awaiting.budget
        BY <2>1, <2>2 DEF AwaitingRetry
    <2>4. [th EXCEPT !.Awaiting = a]
            = [th EXCEPT !.Awaiting = [@ EXCEPT !.LastLifecycleCheckAt = tickNow]]
        BY <2>2 DEF ThreadState
    <2> HIDE DEF a
    <2>5. Sound([th EXCEPT !.Awaiting = a])
        BY <2>1, <2>3, MarkedSound
    <2> QED BY <2>2, <2>4, <2>5
<1>2. threads' \in [Threads -> SoundThread]
    BY <1>1, SoundMember DEF Inv, MemoryInv, CollectProbes, lifecycleDue
<1>3. probes' \subseteq Probe
    <2>1. \A t \in Threads : lifecycleDue(threads[t]) =>
            /\ threads[t].Awaiting.fault.EventKey \in Nat
            /\ threads[t].Awaiting.RetryTurnID \in Nat
        <3>1. \A a \in AwaitingRetry : a.fault.EventKey \in Nat /\ a.RetryTurnID \in Nat
            BY DEF AwaitingRetry, Fault
        <3> QED BY <1>1, <3>1 DEF lifecycleDue
    <2> QED BY <2>1 DEF CollectProbes, Probe
<1>4. MemoryInv'
    BY <1>2 DEF Inv, MemoryInv, CollectProbes
<1>5. TickInv'
    BY <1>3 DEF Inv, TickInv, CollectProbes, Phases
<1>6. CodexInv' /\ FileInv'
    BY DEF Inv, CollectProbes, CodexInv, CodexTypeOK, FileInv, codexVars, fileVars
<1> QED BY <1>4, <1>5, <1>6 DEF Inv

\* reconcileAwaitingLifecycle, second part: one result is applied.
LEMMA ProbeLifecycleInv ==
    ASSUME Inv, NEW p \in probes, ProbeLifecycle(p)
    PROVE  Inv'
<1> DEFINE t == p.thread
<1>1. t \in Threads /\ Sound(threads[t])
    BY SoundMember DEF Inv, MemoryInv, TickInv, Probe
<1>2. /\ controllerState' \in ControllerStates
      /\ threads' \in [Threads -> SoundThread]
    <2>1. probeMatches(p) => threads[t].Awaiting # Nil
        BY DEF probeMatches
    <2>2. CASE ~probeMatches(p) /\ UNCHANGED <<threads, controllerState>>
        BY <2>2 DEF Inv, MemoryInv
    <2>3. CASE /\ probeMatches(p)
               /\ \E reason \in ErrorReasons :
                     /\ controllerState' = reason
                     /\ threads' = [threads EXCEPT ![t] = probeFailed(@, reason, config)]
        <3>1. PICK reason \in ErrorReasons :
                     /\ controllerState' = reason
                     /\ threads' = [threads EXCEPT ![t] = probeFailed(@, reason, config)]
            BY <2>3
        <3>2. reason \in ControllerReasons /\ config \in Config
            BY DaemonAssumption DEF Inv, MemoryInv
        <3>3. Sound(probeFailed(threads[t], reason, config))
            BY <1>1, <2>1, <2>3, <3>2, ProbeFailedSound
        <3> QED BY <1>1, <3>1, <3>2, <3>3, SoundMember DEF Inv, MemoryInv, ControllerStates
    <2>4. CASE /\ probeMatches(p)
               /\ controllerState' = recordControllerSuccess(config, controllerState)
               /\ \E status \in lifecycleStatuses(t) :
                     threads' = [threads EXCEPT ![t] =
                                   IF status = "active" THEN probeFoundActive(@)
                                   ELSE probeFoundIdle(@, tickNow, config)]
        <3>1. /\ Sound(probeFoundActive(threads[t]))
              /\ Sound(probeFoundIdle(threads[t], tickNow, config))
            BY <1>1, <2>1, <2>4, ProbeActiveSound, ProbeIdleSound DEF Inv, MemoryInv, TickInv
        <3>2. controllerState' \in ControllerStates
            BY <2>4, ControllerSuccessType DEF Inv, MemoryInv
        <3> QED BY <1>1, <2>4, <3>1, <3>2, SoundMember DEF Inv, MemoryInv
    <2> QED BY <2>2, <2>3, <2>4 DEF ProbeLifecycle
<1>3. MemoryInv'
    BY <1>2 DEF Inv, MemoryInv, ProbeLifecycle
<1>4. TickInv'
    BY DEF Inv, TickInv, ProbeLifecycle
<1>5. CodexInv' /\ FileInv'
    BY DEF Inv, ProbeLifecycle, CodexInv, CodexTypeOK, FileInv, codexVars, fileVars
<1> QED BY <1>3, <1>4, <1>5 DEF Inv

\* persistStateLocked: written or not, state.json holds sound threads.
LEMMA PersistInv ==
    ASSUME Inv, NEW ths \in [Threads -> SoundThread], persist(ths)
    PROVE  disk' \in [Threads -> SoundThread] /\ unsaved' \in [Threads -> Seq(Event)]
BY EmptyQueues DEF Inv, FileInv, persist

\* The jobs that a tick launches.
LEMMA LaunchInv ==
    ASSUME Inv, NEW blocks \in SUBSET goalStopsDue, NEW recoveries \in SUBSET Threads,
           \A t \in recoveries : threads[t].Pending # Nil, launch(blocks, recoveries)
    PROVE  active' \subseteq Threads /\ jobs' \subseteq SoundJob
<1>1. ASSUME NEW t \in blocks PROVE goalBlockJob(t) \in SoundJob
    <2>1. t \in Threads /\ threads[t].GoalStop # Nil /\ Sound(threads[t]) /\ now \in Nat
        BY <1>1, SoundMember DEF goalStopsDue, Inv, MemoryInv, CodexInv, CodexTypeOK
    <2>2. threads[t].GoalStop \in GoalStopRequest /\ threads[t].Stopped \in StoppedRetry
        BY <2>1 DEF Sound, ThreadState, goalStopBacked, automaticGoalLimitStopped
    <2>3. threads[t].GoalStop.EventKey \in Nat /\ threads[t].Stopped.budget.Attempt \in Nat
        BY <2>2 DEF GoalStopRequest, StoppedRetry, Budget
    <2> QED BY <2>1, <2>3 DEF goalBlockJob, SoundJob, Job, GoalStates
<1>2. ASSUME NEW t \in recoveries PROVE recoveryJob(t) \in SoundJob
    <2>1. t \in Threads /\ Sound(threads[t]) /\ now \in Nat
        BY <1>2, SoundMember DEF Inv, MemoryInv, CodexInv, CodexTypeOK
    <2>2. threads[t].Pending \in PendingRetry
        BY <1>2, <2>1, PendingFacts
    <2>3. /\ threads[t].Pending.fault.EventKey \in Nat
          /\ threads[t].Pending.fault.FailedAt \in Nat
          /\ threads[t].Pending.fault.OriginTurnStartedAt \in Nat
          /\ threads[t].Pending.budget.Attempt \in Nat
          /\ threads[t].Pending.GoalLimitRestart \in BOOLEAN
          /\ threads[t].Pending.ParentNotified \in BOOLEAN
        BY <2>2 DEF PendingRetry, Fault, Budget
    <2> QED BY <2>1, <2>3 DEF recoveryJob, SoundJob, Job, GoalStates
<1>3. blocks \subseteq Threads
    BY DEF goalStopsDue
<1> QED BY <1>1, <1>2, <1>3 DEF launch, Inv, MemoryInv

\* dispatchDueLocked: the threads that are held, over time, or promoted.
LEMMA PromotedSound ==
    ASSUME Inv, NEW busy, NEW chosen \in SUBSET candidates(busy)
    PROVE  promoted(chosen, busy) \in [Threads -> SoundThread]
<1> SUFFICES ASSUME NEW t \in Threads
             PROVE  promoted(chosen, busy)[t] \in SoundThread
    BY DEF promoted
<1>1. Sound(threads[t]) /\ tickNow \in Nat /\ config \in Config
    BY SoundMember DEF Inv, MemoryInv, TickInv
<1>2. Sound(clearHeldRetry(threads[t]))
    BY <1>1, ClearHeldSound
<1>3. dispatchable(t, busy) =>
        Sound(stopPendingForController(threads[t], "recovery_time_limit"))
    <2> DEFINE reason == "recovery_time_limit"
    <2>1. reason \in StopReasons
        BY DEF StopReasons
    <2> HIDE DEF reason
    <2>2. dispatchable(t, busy) => Sound(stopPendingForController(threads[t], reason))
        BY <1>1, <2>1, StopPendingSound DEF dispatchable, pendingDue
    <2> QED BY <2>2 DEF reason
<1>4. t \in chosen => Sound(startDispatch(threads[t], tickNow, config))
    BY <1>1, StartDispatchSound DEF candidates, dispatchable, pendingDue
<1> QED BY <1>1, <1>2, <1>3, <1>4, SoundMember DEF promoted

\* Without a transport every due retry stops.
LEMMA StoppedForTransportSound ==
    ASSUME Inv
    PROVE  stoppedForTransport \in [Threads -> SoundThread]
<1>1. noTransportReason \in StopReasons
    BY DEF noTransportReason, StopReasons, ControllerReasons, controllerFailureNeedsFailOpen
<1>2. \A t \in Threads : Sound(threads[t])
    BY SoundMember DEF Inv, MemoryInv
<1>3. \A t \in Threads : pendingDue(threads[t], tickNow) =>
        Sound(stopPendingForController(threads[t], noTransportReason))
    BY <1>1, <1>2, StopPendingSound DEF pendingDue
<1> QED BY <1>2, <1>3, SoundMember DEF stoppedForTransport

\* dispatchDueLocked and persistStateLocked.
LEMMA DispatchInv ==
    ASSUME Inv, Dispatch
    PROVE  Inv'
<1>1. /\ threads' \in [Threads -> SoundThread]
      /\ active' \subseteq Threads /\ jobs' \subseteq SoundJob
    <2>1. CASE UNCHANGED <<threads, active, jobs>>
        BY <2>1 DEF Inv, MemoryInv
    <2>2. CASE \E blocks \in SUBSET goalStopsDue :
                  launch(blocks, {}) /\ (UNCHANGED threads \/ threads' = stoppedForTransport)
        <3>1. PICK blocks \in SUBSET goalStopsDue :
                launch(blocks, {}) /\ (UNCHANGED threads \/ threads' = stoppedForTransport)
            BY <2>2
        <3>2. active' \subseteq Threads /\ jobs' \subseteq SoundJob
            BY <3>1, LaunchInv
        <3> QED BY <3>1, <3>2, StoppedForTransportSound DEF Inv, MemoryInv
    <2>3. CASE \E blocks \in SUBSET goalStopsDue :
                  LET busy == active \cup blocks
                  IN  \E chosen \in SUBSET candidates(busy) :
                         threads' = promoted(chosen, busy) /\ launch(blocks, chosen)
        <3>4. PICK blocks \in SUBSET goalStopsDue :
                \E chosen \in SUBSET candidates(active \cup blocks) :
                   threads' = promoted(chosen, active \cup blocks) /\ launch(blocks, chosen)
            BY <2>3
        <3>1. PICK chosen \in SUBSET candidates(active \cup blocks) :
                threads' = promoted(chosen, active \cup blocks) /\ launch(blocks, chosen)
            BY <3>4
        <3>2. chosen \subseteq Threads /\ \A t \in chosen : threads[t].Pending # Nil
            BY DEF candidates, dispatchable, pendingDue
        <3>3. active' \subseteq Threads /\ jobs' \subseteq SoundJob
            BY <3>1, <3>2, LaunchInv
        <3> QED BY <3>1, <3>3, PromotedSound
    <2>4. \/ UNCHANGED <<threads, active, jobs>>
          \/ \E blocks \in firstDue(stopDue, slots) :
                \/ launch(blocks, {}) /\ (UNCHANGED threads \/ threads' = stoppedForTransport)
                \/ \E chosen \in firstDue(pendingDueAt(active \cup blocks),
                                          slots - Cardinality(blocks)) :
                      /\ threads' = promoted(chosen, active \cup blocks)
                      /\ launch(blocks, chosen)
        BY Zenon DEF Dispatch
    <2>5. \/ UNCHANGED <<threads, active, jobs>>
          \/ \E blocks \in SUBSET goalStopsDue :
                \/ launch(blocks, {}) /\ (UNCHANGED threads \/ threads' = stoppedForTransport)
                \/ \E chosen \in SUBSET candidates(active \cup blocks) :
                      /\ threads' = promoted(chosen, active \cup blocks)
                      /\ launch(blocks, chosen)
        <3>1. firstDue(stopDue, slots) \subseteq SUBSET goalStopsDue
            BY DEF firstDue, stopDue
        <3>2. ASSUME NEW blocks
              PROVE  firstDue(pendingDueAt(active \cup blocks), slots - Cardinality(blocks))
                        \subseteq SUBSET candidates(active \cup blocks)
            BY DEF firstDue, pendingDueAt
        <3> QED BY <2>4, <3>1, <3>2, Zenon
    <2> QED BY <2>1, <2>2, <2>3, <2>5
<1>2. disk' \in [Threads -> SoundThread] /\ unsaved' \in [Threads -> Seq(Event)]
    BY <1>1, PersistInv DEF Dispatch
<1>3. MemoryInv'
    BY <1>1 DEF Inv, MemoryInv, Dispatch
<1>4. TickInv'
    BY DEF Inv, TickInv, Dispatch, Phases
<1>5. FileInv'
    BY <1>2 DEF Inv, FileInv, Dispatch
<1>6. CodexInv'
    BY DEF Inv, Dispatch, CodexInv, CodexTypeOK, codexVars
<1> QED BY <1>3, <1>4, <1>5, <1>6 DEF Inv

----------------------------------------------------------------------------
(* Jobs.                                                                   *)

LEMMA JobFacts ==
    ASSUME Inv, NEW j \in jobs
    PROVE  /\ j \in Job /\ j.thread \in Threads /\ j.key \in Nat
           /\ Sound(threads[j.thread]) /\ now \in Nat /\ config \in Config
BY SoundMember DEF Inv, MemoryInv, CodexInv, CodexTypeOK, SoundJob, Job

\* runJob and runGoalBlockJob: the job starts or removes itself.
LEMMA StartJobInv ==
    ASSUME Inv, NEW j \in jobs, StartJob(j)
    PROVE  Inv'
<1>1. [j EXCEPT !.pc = "running"] \in SoundJob
    BY DEF Inv, MemoryInv, SoundJob, Job
<1>2. active' \subseteq Threads /\ jobs' \subseteq SoundJob
    BY <1>1 DEF Inv, MemoryInv, StartJob, removeJob
<1>3. MemoryInv'
    BY <1>2 DEF Inv, MemoryInv, StartJob
<1>4. CodexInv' /\ TickInv' /\ FileInv'
    BY DEF Inv, StartJob, CodexInv, CodexTypeOK, TickInv, FileInv, codexVars, tickVars, fileVars
<1> QED BY <1>3, <1>4 DEF Inv

\* The request is sent: a goal block remembers the status it left.
LEMMA SendRequestInv ==
    ASSUME Inv, NEW j \in jobs, SendRequest(j)
    PROVE  Inv'
<1> DEFINE t == j.thread
           sent(what) == jobs' = (jobs \ {j}) \cup {[j EXCEPT !.sent = what]}
<1>1. /\ j \in Job /\ t \in Threads /\ j.key \in Nat
      /\ goal[t].status \in GoalStates
    BY JobFacts DEF Inv, CodexInv, CodexTypeOK
<1>2. /\ "active" \in GoalStates /\ "blocked" \in GoalStates
    BY DEF GoalStates, limitGoalStatuses
<1>3. ASSUME NEW what \in {"turn", "goal", "ipc"} \cup GoalStates,
             j.kind = "goal_block" => what \in GoalStates, sent(what)
      PROVE  jobs' \subseteq SoundJob
    <2>1. [j EXCEPT !.sent = what] \in SoundJob
        BY <1>1, <1>3 DEF SoundJob, Job
    <2> QED BY <1>3, <2>1 DEF Inv, MemoryInv
<1>4. /\ jobs' \subseteq SoundJob
      /\ rollout' \in [Threads -> Seq(Event)]
      /\ goal' \in [Threads -> [status : GoalStates, updatedAt : Nat]]
      /\ requests' \in [Threads -> SUBSET Nat]
    <2>1. CASE j.kind = "goal_block" /\ goal[t].status = "active"
        BY <1>1, <1>2, <1>3, <2>1, SetGoalInv DEF SendRequest, Inv, CodexInv, CodexTypeOK
    <2>2. CASE j.kind = "goal_block" /\ goal[t].status # "active"
        <3>1. goalAlready(goal[t].status) \in GoalStates
            BY <1>1 DEF goalAlready, GoalStates, limitGoalStatuses
        <3>2. sent(goalAlready(goal[t].status)) /\ UNCHANGED <<goal, rollout, requests>>
            BY <2>2 DEF SendRequest
        <3> QED BY <1>3, <3>1, <3>2 DEF Inv, CodexInv, CodexTypeOK
    <2>3. CASE j.kind # "goal_block" /\ setGoal(t, "active") /\ sent("goal")
               /\ UNCHANGED requests
        BY <1>1, <1>2, <1>3, <2>3, SetGoalInv DEF Inv, CodexInv, CodexTypeOK
    <2>4. CASE j.kind # "goal_block" /\ sent("goal") /\ UNCHANGED <<goal, rollout, requests>>
        BY <1>3, <2>4 DEF Inv, CodexInv, CodexTypeOK
    <2>5. CASE j.kind # "goal_block" /\ requestTurn(j) /\ (sent("turn") \/ sent("ipc"))
        BY <1>1, <1>3, <2>5 DEF requestTurn, Inv, CodexInv, CodexTypeOK
    <2> QED BY <2>1, <2>2, <2>3, <2>4, <2>5 DEF SendRequest
<1>5. CodexInv'
    BY <1>4 DEF Inv, CodexInv, CodexTypeOK, SendRequest
<1>6. MemoryInv'
    BY <1>4 DEF Inv, MemoryInv, SendRequest
<1>7. TickInv' /\ FileInv'
    BY DEF Inv, SendRequest, TickInv, FileInv, tickVars, fileVars
<1> QED BY <1>5, <1>6, <1>7 DEF Inv

LEMMA StaleResultInv ==
    ASSUME Inv, NEW j \in jobs, StaleResult(j)
    PROVE  Inv'
<1>1. MemoryInv'
    BY DEF Inv, MemoryInv, StaleResult, removeJob
<1>2. CodexInv' /\ TickInv' /\ FileInv'
    BY DEF Inv, StaleResult, CodexInv, CodexTypeOK, TickInv, FileInv, codexVars, tickVars,
           fileVars
<1> QED BY <1>1, <1>2 DEF Inv

\* The common part of the actions that take a result.
LEMMA FinishInv ==
    ASSUME Inv, NEW j \in jobs, NEW kind, finishing(j, kind),
           NEW th, Sound(th), setThread(j.thread, th), controllerState' \in ControllerStates
    PROVE  Inv'
<1>1. threads' \in [Threads -> SoundThread]
    BY SoundMember DEF Inv, MemoryInv, setThread
<1>2. disk' \in [Threads -> SoundThread] /\ unsaved' \in [Threads -> Seq(Event)]
    BY <1>1, PersistInv DEF setThread
<1>3. MemoryInv'
    BY <1>1 DEF Inv, MemoryInv, finishing, removeJob
<1>4. FileInv'
    BY <1>2 DEF Inv, FileInv, finishing
<1>5. CodexInv' /\ TickInv'
    BY DEF Inv, finishing, CodexInv, CodexTypeOK, TickInv, codexVars, tickVars
<1> QED BY <1>3, <1>4, <1>5 DEF Inv

\* What jobMatches says of the thread.
LEMMA MatchFacts ==
    ASSUME NEW j, NEW kind, finishing(j, kind)
    PROVE  /\ kind = "recovery" => threads[j.thread].Awaiting # Nil
           /\ kind = "goal_block" => threads[j.thread].GoalStop # Nil
BY DEF finishing, jobMatches

LEMMA FailureReasons ==
    ASSUME NEW j, NEW reason \in failures(j)
    PROVE  reason \in ControllerReasons /\ reason \in ControllerStates
BY DaemonAssumption DEF failures, ControllerStates

\* The result of a dispatch, of whatever outcome, is applied to a sound thread.
LEMMA RecoveryResultInv ==
    ASSUME Inv, NEW j \in jobs,
           \/ RecoveryFailed(j) \/ RecoveryUserActive(j)
           \/ RecoveryNotApplicable(j) \/ RecoveryAccepted(j)
    PROVE  Inv'
<1> DEFINE th == threads[j.thread]
<1>1. Sound(th) /\ now \in Nat /\ config \in Config /\ j \in Job
    BY JobFacts
<1>2. finishing(j, "recovery") /\ th.Awaiting # Nil
    BY MatchFacts DEF RecoveryFailed, RecoveryUserActive, RecoveryNotApplicable,
       RecoveryAccepted
<1> HIDE DEF th
<1>3. \A notified : /\ Sound(notifyParent(th, notified))
                    /\ notifyParent(th, notified).Awaiting # Nil
    BY <1>1, <1>2, NotifySound
<1>4. CASE RecoveryFailed(j)
    <2>1. PICK reason \in failures(j) :
            \E notified \in notices(j) :
               /\ controllerState' = reason
               /\ setThread(j.thread,
                            rescheduleAwaitingWithPolicy(notifyParent(th, notified),
                                                         now, reason, TRUE, config))
        BY <1>4 DEF RecoveryFailed, th
    <2>2. PICK notified \in notices(j) :
               /\ controllerState' = reason
               /\ setThread(j.thread,
                            rescheduleAwaitingWithPolicy(notifyParent(th, notified),
                                                         now, reason, TRUE, config))
        BY <2>1
    <2> DEFINE counted == TRUE
    <2>3. counted \in BOOLEAN
        OBVIOUS
    <2> HIDE DEF counted
    <2>4. Sound(rescheduleAwaitingWithPolicy(notifyParent(th, notified),
                                             now, reason, counted, config))
        BY <1>1, <1>3, <2>3, FailureReasons, RescheduleSound
    <2>5. Sound(rescheduleAwaitingWithPolicy(notifyParent(th, notified),
                                             now, reason, TRUE, config))
        BY <2>4 DEF counted
    <2> QED BY <1>2, <2>2, <2>5, FailureReasons, FinishInv
<1>5. CASE RecoveryUserActive(j)
    <2> DEFINE reason == "thread_active"
    <2>1. reason \in ControllerReasons
        BY DEF ControllerReasons
    <2>2. PICK notified \in notices(j) :
            setThread(j.thread,
                      dispatchUserActive(notifyParent(th, notified), reason, now, config))
        BY <1>5 DEF RecoveryUserActive, th
    <2> HIDE DEF reason
    <2>3. Sound(dispatchUserActive(notifyParent(th, notified), reason, now, config))
        BY <1>1, <1>3, <2>1, UserActiveSound
    <2>4. controllerState' \in ControllerStates
        BY <1>5, ControllerSuccessType DEF RecoveryUserActive, Inv, MemoryInv
    <2> QED BY <1>2, <2>2, <2>3, <2>4, FinishInv
<1>6. CASE RecoveryNotApplicable(j)
    <2>1. PICK reason \in SkipReasons :
            setThread(j.thread, dispatchNotApplicable(th, reason))
        BY <1>6 DEF RecoveryNotApplicable, th
    <2>2. Sound(dispatchNotApplicable(th, reason))
        BY <1>1, NotApplicableSound
    <2>3. controllerState' \in ControllerStates
        BY <1>6, ControllerSuccessType DEF RecoveryNotApplicable, Inv, MemoryInv
    <2> QED BY <1>2, <2>1, <2>2, <2>3, FinishInv
<1>7. CASE RecoveryAccepted(j)
    <2>1. \E notified \in notices(j), action \in RetryActions :
               setThread(j.thread, dispatchAccepted(notifyParent(th, notified), action,
                                                    now, config))
        <3>1. PICK notified \in notices(j) :
                setThread(j.thread, dispatchAccepted(notifyParent(th, notified),
                                                     acceptedAction(j, notified), now, config))
            BY <1>7 DEF RecoveryAccepted, th
        <3>2. acceptedAction(j, notified) \in RetryActions
            BY DEF acceptedAction, RetryActions
        <3> QED BY <3>1, <3>2
    <2>2. PICK notified \in notices(j) :
            \E action \in RetryActions :
               setThread(j.thread, dispatchAccepted(notifyParent(th, notified), action,
                                                    now, config))
        BY <2>1
    <2>3. PICK action \in RetryActions :
               setThread(j.thread, dispatchAccepted(notifyParent(th, notified), action,
                                                    now, config))
        BY <2>2
    <2>4. Sound(dispatchAccepted(notifyParent(th, notified), action, now, config))
        BY <1>1, <1>3, AcceptedSound
    <2>5. controllerState' \in ControllerStates
        <3> DEFINE state == IF j.sent = "ipc" THEN "official_ipc_ready" ELSE controllerState
        <3>1. state \in ControllerStates
            BY DEF ControllerStates, Inv, MemoryInv
        <3>2. controllerState' = recordControllerSuccess(config, state)
            BY <1>7 DEF RecoveryAccepted
        <3> HIDE DEF state
        <3> QED BY <3>1, <3>2, ControllerSuccessType
    <2> QED BY <1>2, <2>3, <2>4, <2>5, FinishInv
<1> QED BY <1>4, <1>5, <1>6, <1>7

\* runGoalBlockJob: the result of a goal block.
LEMMA GoalResultInv ==
    ASSUME Inv, NEW j \in jobs, GoalBlockFailed(j) \/ GoalBlockDone(j)
    PROVE  Inv'
<1> DEFINE th == threads[j.thread]
<1>1. Sound(th) /\ now \in Nat /\ config \in Config
    BY JobFacts
<1>2. finishing(j, "goal_block") /\ th.GoalStop # Nil
    BY MatchFacts DEF GoalBlockFailed, GoalBlockDone
<1> HIDE DEF th
<1>3. CASE GoalBlockFailed(j)
    <2>1. PICK reason \in failures(j) :
            /\ controllerState' = reason
            /\ setThread(j.thread, rescheduleGoalBlock(th, now, reason, config))
        BY <1>3 DEF GoalBlockFailed, th
    <2>2. Sound(rescheduleGoalBlock(th, now, reason, config))
        BY <1>1, <1>2, FailureReasons, GoalBlockFailedSound
    <2> QED BY <1>2, <2>1, <2>2, FailureReasons, FinishInv
<1>4. CASE GoalBlockDone(j)
    <2>1. setThread(j.thread, goalBlocked(th, j.sent, now))
        BY <1>4 DEF GoalBlockDone, th
    <2>2. j.sent \in GoalStates
        BY <1>2 DEF Inv, MemoryInv, SoundJob, finishing
    <2>3. Sound(goalBlocked(th, j.sent, now))
        BY <1>1, <1>2, <2>2, GoalBlockedSound
    <2>4. controllerState' \in ControllerStates
        BY <1>4 DEF GoalBlockDone, ControllerStates
    <2> QED BY <1>2, <2>1, <2>3, <2>4, FinishInv
<1> QED BY <1>3, <1>4

----------------------------------------------------------------------------
(* Crash and restart, the panel, and the clock.                            *)

\* The process dies at any point; what it loads again is sound because state.json was.
LEMMA CrashInv ==
    ASSUME Inv, Crash
    PROVE  Inv'
<1>1. threads' \in [Threads -> SoundThread]
    <2>1. \A t \in Threads : Sound(reconcileStartupState(loadThread(disk[t]), now))
        BY SoundMember, RestartKeepsSound DEF Inv, FileInv, CodexInv, CodexTypeOK
    <2> QED BY <2>1, SoundMember DEF Crash
<1>2. MemoryInv'
    BY <1>1 DEF Inv, FileInv, Crash, MemoryInv, ControllerStates
<1>3. TickInv'
    BY EmptyQueues DEF Crash, TickInv, Phases
<1>4. FileInv'
    BY EmptyQueues DEF Inv, FileInv, Crash
<1>5. CodexInv'
    <2>1. rollout' \in [Threads -> Seq(Event)]
        BY QueueConcat DEF Inv, FileInv, CodexInv, CodexTypeOK, Crash
    <2> QED BY <2>1 DEF Inv, Crash, CodexInv, CodexTypeOK
<1> QED BY <1>2, <1>3, <1>4, <1>5 DEF Inv

\* The panel writes a command file.
LEMMA QueueCommandInv ==
    ASSUME Inv, NEW t \in Threads, QueueCommand(t)
    PROVE  Inv'
<1>1. PICK action \in Commands : commands' = Append(commands, [thread |-> t, action |-> action])
    BY DEF QueueCommand
<1>2. [thread |-> t, action |-> action] \in Command
    BY DaemonAssumption DEF Command
<1>3. commands' \in Seq(Command)
    BY <1>1, <1>2, AppendProperties DEF Inv, FileInv
<1>4. FileInv'
    BY <1>3 DEF Inv, FileInv, QueueCommand
<1>5. CodexInv' /\ MemoryInv' /\ TickInv'
    BY DEF Inv, QueueCommand, CodexInv, CodexTypeOK, MemoryInv, TickInv, codexVars, memoryVars,
           tickVars
<1> QED BY <1>4, <1>5 DEF Inv

\* The panel writes the pause switch or the settings.
LEMMA PanelInv ==
    ASSUME Inv, TogglePause \/ EditConfig
    PROVE  Inv'
<1>1. pausedFile' \in BOOLEAN
    BY Zenon DEF TogglePause, EditConfig, Inv, FileInv
<1>2. configFile' \in Config
    BY DaemonAssumption DEF TogglePause, EditConfig, Inv, FileInv
<1>3. FileInv'
    BY <1>1, <1>2 DEF Inv, FileInv, TogglePause, EditConfig
<1>4. CodexInv' /\ MemoryInv' /\ TickInv'
    BY DEF Inv, TogglePause, EditConfig, CodexInv, CodexTypeOK, MemoryInv, TickInv, codexVars,
           memoryVars, tickVars
<1> QED BY <1>3, <1>4 DEF Inv

LEMMA AdvanceInv ==
    ASSUME Inv, Advance
    PROVE  Inv'
<1>1. CodexInv'
    BY DEF Inv, CodexInv, CodexTypeOK, Advance, codexVars
<1>2. MemoryInv' /\ TickInv' /\ FileInv'
    BY DEF Inv, Advance, MemoryInv, TickInv, FileInv, daemonVars, memoryVars, tickVars, fileVars
<1> QED BY <1>1, <1>2 DEF Inv

LEMMA CodexMovesInv ==
    ASSUME Inv, CodexMoves
    PROVE  Inv'
<1>1. CodexInv'
    BY CodexStepInv DEF Inv, CodexMoves
<1>2. MemoryInv' /\ TickInv' /\ FileInv'
    BY DEF Inv, CodexMoves, MemoryInv, TickInv, FileInv, daemonVars, memoryVars, tickVars,
           fileVars
<1> QED BY <1>1, <1>2 DEF Inv

LEMMA StutterInv ==
    ASSUME Inv, UNCHANGED vars
    PROVE  Inv'
BY DEF Inv, CodexInv, CodexTypeOK, MemoryInv, TickInv, FileInv, vars, codexVars, daemonVars,
       memoryVars, tickVars, fileVars

----------------------------------------------------------------------------
(* The theorems.                                                           *)

LEMMA TickKeepsInv ==
    ASSUME Inv, Tick
    PROVE  Inv'
BY TickBeginInv, LatchedFailureInv, ControllerProbeInv, TickScanInv, HandleEventInv, ReopenInv,
   ControlCommandInv, EndControlsInv, MemoryLimitInv, CollectProbesInv, ProbeLifecycleInv,
   DispatchInv DEF Tick

LEMMA JobKeepsInv ==
    ASSUME Inv, NEW j \in jobs, JobStep(j)
    PROVE  Inv'
BY StartJobInv, SendRequestInv, StaleResultInv, RecoveryResultInv, GoalResultInv DEF JobStep

LEMMA NextInv == Inv /\ [Next]_vars => Inv'
<1> SUFFICES ASSUME Inv, [Next]_vars PROVE Inv'
    OBVIOUS
<1>1. CASE Next
    BY <1>1, TickKeepsInv, JobKeepsInv, CrashInv, QueueCommandInv, PanelInv, AdvanceInv,
       CodexMovesInv DEF Next
<1>2. CASE UNCHANGED vars
    BY <1>2, StutterInv
<1> QED BY <1>1, <1>2

\* The inductive invariant holds in every reachable state of the daemon.
THEOREM InvHolds == Spec => []Inv
<1>1. Init => Inv
    BY InitInv
<1>2. Inv /\ [Next]_vars => Inv'
    BY NextInv
<1> QED BY <1>1, <1>2, PTL DEF Spec

\* Every variable of the daemon, of Codex and of the files has its type, through
\* any sequence of handlers, jobs, crashes and failed writes.
THEOREM TypesHold == Spec => []TypeOK
<1>1. Inv => TypeOK
    <2> SUFFICES ASSUME Inv PROVE TypeOK
        OBVIOUS
    <2>1. threads \in [Threads -> ThreadState] /\ disk \in [Threads -> ThreadState]
        BY DEF Inv, MemoryInv, FileInv, SoundThread
    <2>2. jobs \subseteq Job
        BY DEF Inv, MemoryInv, SoundJob
    <2> QED BY <2>1, <2>2 DEF Inv, CodexInv, MemoryInv, TickInv, FileInv, TypeOK
<1> QED BY <1>1, InvHolds, PTL

\* Every thread is sound, in memory and in state.json.
LEMMA EveryThreadSound ==
    ASSUME Inv, NEW t \in Threads
    PROVE  Sound(threads[t]) /\ Sound(disk[t])
BY SoundMember DEF Inv, MemoryInv, FileInv

\* A retry is queued, dispatched or given up, never two at once: no handler of
\* the daemon, in any order and across a crash, duplicates or keeps a retry that
\* it has moved.
THEOREM OneRetryPhaseHolds == Spec => []OneRetryPhase
<1>1. Inv => OneRetryPhase
    BY EveryThreadSound DEF OneRetryPhase, everyThread, Sound
<1> QED BY <1>1, InvHolds, PTL

\* A request to block a goal always has the goal-limit stop that raised it.
THEOREM GoalStopBackedHolds == Spec => []GoalStopBacked
<1>1. Inv => GoalStopBacked
    BY EveryThreadSound DEF GoalStopBacked, everyThread, Sound
<1> QED BY <1>1, InvHolds, PTL

\* The counters of a thread and of its live retry agree, and a live chain has a
\* start for the circuit breaker.
THEOREM CountersAgreeHolds == Spec => []CountersAgree
<1>1. Inv => CountersAgree
    BY EveryThreadSound DEF CountersAgree, everyThread, Sound
<1> QED BY <1>1, InvHolds, PTL

----------------------------------------------------------------------------
(* Slots: d.active is the threads of the jobs, one job each.               *)

Slots ==
    /\ active = {j.thread : j \in jobs}
    /\ \A i, j \in jobs : i.thread = j.thread => i = j

LEMMA SlotsCounted == Slots /\ jobs \subseteq Job => OneJobPerThread
<1> SUFFICES ASSUME Slots, NEW t \in Threads
             PROVE  Cardinality({j \in jobs : j.thread = t}) = (IF t \in active THEN 1 ELSE 0)
    BY DEF OneJobPerThread
<1> DEFINE mine == {j \in jobs : j.thread = t}
<1>1. CASE t \in active
    <2>1. PICK j \in jobs : j.thread = t BY <1>1 DEF Slots
    <2>2. mine = {j} BY <2>1 DEF Slots
    <2>3. Cardinality(mine) = 1 BY <2>2, FS_Singleton, Zenon
    <2> QED BY <1>1, <2>3
<1>2. CASE t \notin active
    <2>1. mine = {} BY <1>2 DEF Slots
    <2>2. Cardinality(mine) = 0 BY <2>1, FS_EmptySet, Zenon
    <2> QED BY <1>2, <2>2
<1> QED BY <1>1, <1>2

LEMMA CancelKeepsSlots ==
    ASSUME Slots, NEW t, jobs \subseteq Job, jobs' = cancelJobs(jobs, t), UNCHANGED active
    PROVE  Slots'
<1> DEFINE mark(j) == IF j.thread = t /\ j.pc = "running" THEN [j EXCEPT !.cancelled = TRUE] ELSE j
<1>1. \A j \in jobs : mark(j).thread = j.thread BY DEF Job
<1>2. jobs' = {mark(j) : j \in jobs} BY DEF cancelJobs
<1> HIDE DEF mark
<1>3. {j.thread : j \in jobs'} = {j.thread : j \in jobs} BY <1>1, <1>2
<1>4. \A i, j \in jobs' : i.thread = j.thread => i = j BY <1>1, <1>2 DEF Slots
<1> QED BY <1>3, <1>4 DEF Slots

\* A job is replaced by one of the same thread.
LEMMA ReplaceKeepsSlots ==
    ASSUME Slots, NEW j \in jobs, NEW i, i.thread = j.thread,
           jobs' = (jobs \ {j}) \cup {i}, UNCHANGED active
    PROVE  Slots'
BY DEF Slots

LEMMA RemoveKeepsSlots ==
    ASSUME Slots, NEW j \in jobs, removeJob(j)
    PROVE  Slots'
BY DEF Slots, removeJob

\* Jobs are launched only for threads without one.
LEMMA LaunchKeepsSlots ==
    ASSUME Slots, NEW blocks, NEW recoveries, launch(blocks, recoveries),
           blocks \cap active = {}, recoveries \cap (active \cup blocks) = {}
    PROVE  Slots'
<1> DEFINE new == {goalBlockJob(t) : t \in blocks} \cup {recoveryJob(t) : t \in recoveries}
<1>1. (\A t : goalBlockJob(t).thread = t) /\ (\A t : recoveryJob(t).thread = t)
    BY DEF goalBlockJob, recoveryJob
<1>2. {j.thread : j \in new} = blocks \cup recoveries BY <1>1
<1>3. \A i, j \in new : i.thread = j.thread => i = j BY <1>1
<1>4. jobs' = jobs \cup new /\ active' = active \cup blocks \cup recoveries BY DEF launch
<1> HIDE DEF new
<1>5. active' = {j.thread : j \in jobs'} BY <1>2, <1>4 DEF Slots
<1>6. \A i \in jobs, j \in new : i.thread # j.thread BY <1>2 DEF Slots
<1>7. \A i, j \in jobs' : i.thread = j.thread => i = j BY <1>3, <1>4, <1>6 DEF Slots
<1> QED BY <1>5, <1>7 DEF Slots

\* What dispatchDueLocked does to threads, active and jobs.
Chosen(blocks, chosen) ==
    /\ threads' = promoted(chosen, active \cup blocks)
    /\ launch(blocks, chosen)

LEMMA DispatchForms ==
    ASSUME Dispatch
    PROVE  \/ /\ Cardinality(active) >= config.MaxParallelRetries
              /\ UNCHANGED <<threads, active, jobs>>
           \/ /\ ~(Cardinality(active) >= config.MaxParallelRetries)
              /\ \E blocks \in firstDue(stopDue, slots) :
                    \/ /\ slots - Cardinality(blocks) = 0 \/ paused
                       /\ launch(blocks, {}) /\ UNCHANGED threads
                    \/ launch(blocks, {}) /\ threads' = stoppedForTransport
                    \/ \E chosen \in firstDue(pendingDueAt(active \cup blocks),
                                              slots - Cardinality(blocks)) :
                          Chosen(blocks, chosen)
BY Zenon DEF Dispatch, Chosen

LEMMA BlocksDue ==
    ASSUME NEW blocks \in firstDue(stopDue, slots)
    PROVE  blocks \subseteq goalStopsDue
BY DEF firstDue, stopDue

LEMMA ChosenDue ==
    ASSUME NEW blocks, NEW n, NEW chosen \in firstDue(pendingDueAt(active \cup blocks), n)
    PROVE  chosen \subseteq candidates(active \cup blocks)
BY DEF firstDue, pendingDueAt

LEMMA DispatchKeepsSlots ==
    ASSUME Slots, Dispatch
    PROVE  Slots'
<1>1. CASE UNCHANGED <<threads, active, jobs>> BY <1>1 DEF Slots
<1>2. CASE \E blocks \in firstDue(stopDue, slots) : launch(blocks, {})
  <2>1. PICK blocks \in firstDue(stopDue, slots) : launch(blocks, {}) BY <1>2
  <2>2. blocks \cap active = {} BY BlocksDue DEF goalStopsDue
  <2> QED BY <2>1, <2>2, LaunchKeepsSlots
<1>3. CASE \E blocks \in firstDue(stopDue, slots) :
              \E chosen \in firstDue(pendingDueAt(active \cup blocks), slots - Cardinality(blocks)) :
                 Chosen(blocks, chosen)
  <2>1. PICK blocks \in firstDue(stopDue, slots) :
              \E chosen \in firstDue(pendingDueAt(active \cup blocks), slots - Cardinality(blocks)) :
                 Chosen(blocks, chosen)
    BY <1>3
  <2>2. PICK chosen \in firstDue(pendingDueAt(active \cup blocks), slots - Cardinality(blocks)) :
                 Chosen(blocks, chosen)
    BY <2>1
  <2>3. blocks \cap active = {} BY BlocksDue DEF goalStopsDue
  <2>4. chosen \cap (active \cup blocks) = {} BY ChosenDue DEF candidates, dispatchable
  <2> QED BY <2>2, <2>3, <2>4, LaunchKeepsSlots DEF Chosen
<1> QED BY <1>1, <1>2, <1>3, DispatchForms

LEMMA TickKeepsSlots ==
    ASSUME Inv, Slots, Tick
    PROVE  Slots'
<1>1. jobs \subseteq Job BY DEF Inv, MemoryInv, SoundJob
<1>2. CASE UNCHANGED <<active, jobs>> BY <1>2 DEF Slots
<1>3. CASE \E t \in Threads : HandleEvent(t)
  BY <1>1, <1>2, <1>3, CancelKeepsSlots DEF HandleEvent
<1>4. CASE ControlCommand BY <1>1, <1>2, <1>4, CancelKeepsSlots DEF ControlCommand
<1>5. CASE Dispatch BY <1>5, DispatchKeepsSlots
<1>6. CASE \/ TickBegin \/ LatchedFailure \/ ControllerProbe \/ TickScan \/ Reopen \/ EndControls
           \/ MemoryLimitExceeded \/ CollectProbes \/ \E p \in probes : ProbeLifecycle(p)
  BY <1>2, <1>6 DEF TickBegin, LatchedFailure, ControllerProbe, TickScan, Reopen, EndControls,
     MemoryLimitExceeded, CollectProbes, ProbeLifecycle, memoryVars
<1> QED BY <1>3, <1>4, <1>5, <1>6 DEF Tick

LEMMA JobKeepsSlots ==
    ASSUME Inv, Slots, NEW j \in jobs, JobStep(j)
    PROVE  Slots'
<1>1. j \in Job BY DEF Inv, MemoryInv, SoundJob
<1>2. CASE removeJob(j) BY <1>2, RemoveKeepsSlots
<1>3. CASE StartJob(j)
  <2>1. [j EXCEPT !.pc = "running"].thread = j.thread BY <1>1 DEF Job
  <2> QED BY <1>2, <1>3, <2>1, ReplaceKeepsSlots DEF StartJob
<1>4. CASE SendRequest(j)
  <2>1. \A what : [j EXCEPT !.sent = what].thread = j.thread BY <1>1 DEF Job
  <2>2. UNCHANGED active /\ \E what : jobs' = (jobs \ {j}) \cup {[j EXCEPT !.sent = what]}
    BY <1>4 DEF SendRequest
  <2> QED BY <2>1, <2>2, ReplaceKeepsSlots
<1>5. CASE StaleResult(j) BY <1>2, <1>5 DEF StaleResult
<1>6. CASE \/ RecoveryFailed(j) \/ RecoveryUserActive(j) \/ RecoveryNotApplicable(j)
           \/ RecoveryAccepted(j) \/ GoalBlockFailed(j) \/ GoalBlockDone(j)
  BY <1>2, <1>6 DEF RecoveryFailed, RecoveryUserActive, RecoveryNotApplicable,
     RecoveryAccepted, GoalBlockFailed, GoalBlockDone, finishing
<1> QED BY <1>3, <1>4, <1>5, <1>6 DEF JobStep

LEMMA NextKeepsSlots ==
    ASSUME Inv, Slots, [Next]_vars
    PROVE  Slots'
<1>1. CASE Tick BY <1>1, TickKeepsSlots
<1>2. CASE \E j \in jobs : JobStep(j) BY <1>2, JobKeepsSlots
<1>3. CASE Crash BY <1>3 DEF Crash, Slots
<1>4. CASE UNCHANGED <<active, jobs>> BY <1>4 DEF Slots
<1>5. CASE \/ \E t \in Threads : QueueCommand(t)
           \/ TogglePause \/ EditConfig \/ Advance \/ CodexMoves \/ UNCHANGED vars
  BY <1>4, <1>5 DEF QueueCommand, TogglePause, EditConfig, Advance, CodexMoves, vars, daemonVars,
     memoryVars
<1> QED BY <1>1, <1>2, <1>3, <1>5 DEF Next

\* One job goroutine works on every thread of d.active and on no other, through
\* dispatches, results, cancellations and restarts of the process.
THEOREM OneJobPerThreadHolds == Spec => []OneJobPerThread
<1>1. Init => Slots BY DEF Init, Slots
<1>2. Inv /\ Slots /\ [Next]_vars => Slots' BY NextKeepsSlots
<1>3. Inv /\ Slots => OneJobPerThread BY SlotsCounted DEF Inv, MemoryInv, SoundJob
<1> QED BY InvHolds, <1>1, <1>2, <1>3, PTL DEF Spec

----------------------------------------------------------------------------
(* Limits: what a handler queues again is within the limits in force, or   *)
(* is due only after the tick.                                             *)

Within(retry, cfg) ==
    /\ retry.budget.Attempt <= recoveryLimit(retry.fault.Class, cfg)
    /\ retry.budget.ConsecutiveRetry <= consecutiveLimit(retry.fault.Class, cfg)

Limited(th, cfg) == th.Pending # Nil => Within(th.Pending, cfg)
DueLimited(th, at, cfg) == th.Pending # Nil /\ th.Pending.DueAt <= at => Within(th.Pending, cfg)

\* A retry that awaits its first turn was there before.
NoDispatch(before, after) ==
    before.Awaiting = Nil /\ after.Awaiting # Nil => after.Awaiting.RetryTurnID # 0

LEMMA DelayPositive ==
    ASSUME NEW n \in Nat, NEW cfg \in Config
    PROVE  retryDelay(n, cfg) \in Nat /\ retryDelay(n, cfg) >= 1
<1>1. cfg.InitialDelay \in Nat /\ cfg.InitialDelay >= 1 BY DEF Config, Positive
<1> QED BY <1>1, DelayBounded

LEMMA LimitsPositive ==
    ASSUME NEW class \in FailureClasses, NEW cfg \in Config
    PROVE  /\ recoveryLimit(class, cfg) \in Nat /\ recoveryLimit(class, cfg) >= 1
           /\ consecutiveLimit(class, cfg) \in Nat /\ consecutiveLimit(class, cfg) >= 1
<1>1. cfg.MaxRecoveryAttempts \in Nat /\ cfg.MaxConsecutiveRetries \in Nat
  BY DEF Config, Positive
<1> QED BY <1>1, ClassLimits

\* A chain that ends leaves no retry.
LEMMA EndedLimited ==
    ASSUME NEW th \in ThreadState
    PROVE  /\ resetRetryState(th).Pending = Nil /\ resetRetryState(th).Awaiting = Nil
           /\ dropHeldRetry(th).Pending = Nil /\ dropHeldRetry(th).Awaiting = Nil
           /\ clearHeldRetry(th).Pending = Nil
           /\ \A fault, budget, reason, historical, blocked, time :
                 /\ stopRetry(th, fault, budget, reason, historical, blocked).Pending = Nil
                 /\ stopRetry(th, fault, budget, reason, historical, blocked).Awaiting = Nil
                 /\ exhaustRetry(th, fault, budget, reason, historical, time).Pending = Nil
                 /\ exhaustRetry(th, fault, budget, reason, historical, time).Awaiting = Nil
<1>1. /\ resetRetryState(th).Pending = Nil /\ resetRetryState(th).Awaiting = Nil
      /\ dropHeldRetry(th).Pending = Nil /\ dropHeldRetry(th).Awaiting = Nil
  BY DEF ThreadState, resetRetryState, dropHeldRetry
<1>2. clearHeldRetry(th).Pending = Nil BY DEF ThreadState, clearHeldRetry, dropHeldRetry
<1>3. ASSUME NEW fault, NEW budget, NEW reason, NEW historical, NEW blocked, NEW time
      PROVE  /\ stopRetry(th, fault, budget, reason, historical, blocked).Pending = Nil
             /\ stopRetry(th, fault, budget, reason, historical, blocked).Awaiting = Nil
             /\ exhaustRetry(th, fault, budget, reason, historical, time).Pending = Nil
             /\ exhaustRetry(th, fault, budget, reason, historical, time).Awaiting = Nil
  BY DEF ThreadState, stopRetry, exhaustRetry
<1> QED BY <1>1, <1>2, <1>3

\* scheduleFailureLocked queues within the limits of the settings.
LEMMA ScheduleLimited ==
    ASSUME NEW th \in ThreadState, th.Pending = Nil, th.Awaiting = Nil, NEW ev \in Event,
           ev.class # "success", NEW time \in Nat, NEW cfg \in Config,
           NEW attempt \in Nat, NEW consecutive \in Nat, NEW origin, NEW notified
    PROVE  LET s == scheduleFailure(th, ev, time, cfg, attempt, consecutive, origin, notified)
           IN  Limited(s, cfg) /\ s.Awaiting = Nil
<1> DEFINE clocked == startClock(th, time)
           blockedNow == /\ th.GoalStatus = "blocked"
                         /\ goalBlockedByFailure(th.GoalUpdatedAt, ev.at)
           t == [clocked EXCEPT !.GoalHeld = @ /\ ~blockedNow]
           fault == [EventKey |-> ev.turn, FailedAt |-> ev.at,
                     OriginTurnStartedAt |-> origin, Class |-> ev.class]
           budget == [Attempt |-> attempt, MaxAttempts |-> recoveryLimit(ev.class, cfg),
                      ConsecutiveRetry |-> consecutive,
                      MaxConsecutive |-> consecutiveLimit(ev.class, cfg)]
           failed == [t EXCEPT !.CurrentTurnProgress = FALSE, !.LastFailureAt = ev.at]
           tooLong == time > t.RecoveryStartedAt + MaxAutomaticRecoveryDuration
           reason == IF tooLong THEN "recovery_time_limit"
                     ELSE budgetStopReason(fault, budget, cfg)
           p == [fault |-> fault, budget |-> budget,
                 DueAt |-> time + retryDelay(consecutive, cfg),
                 DispatchFailures |-> 0, ParentNotified |-> notified,
                 GoalLimitRestart |-> FALSE]
           queued == [failed EXCEPT
                !.RecoveryAttempts = attempt, !.ConsecutiveRetries = consecutive,
                !.Awaiting = Nil, !.Stopped = Nil, !.GoalStop = Nil, !.Pending = p]
<1>1. scheduleFailure(th, ev, time, cfg, attempt, consecutive, origin, notified) =
        IF t.GoalHeld /\ ~heldConversationAllowed(t.GoalStatus, t.GoalUpdatedAt, origin)
        THEN dropHeldRetry(failed)
        ELSE IF ev.class = "none" THEN resetRetryState(t)
        ELSE IF tooLong \/ overBudget(budget)
        THEN exhaustRetry(failed, fault, budget, reason, FALSE, time)
        ELSE queued
  BY DEF scheduleFailure
<1>2. clocked \in ThreadState BY DEF startClock, ThreadState
<1> HIDE DEF clocked, blockedNow
<1>4. t \in ThreadState
  <2> DEFINE held == clocked.GoalHeld /\ ~blockedNow
  <2>1. t = [clocked EXCEPT !.GoalHeld = held] BY <1>2 DEF ThreadState
  <2>2. held \in BOOLEAN OBVIOUS
  <2> HIDE DEF held, t
  <2> QED BY <1>2, <2>1, <2>2 DEF ThreadState
<1> HIDE DEF t
<1>5. failed \in ThreadState BY <1>4 DEF ThreadState, Event
<1>6. ev.class # "none" /\ ~overBudget(budget) => Within(p, cfg)
  <2>1. /\ p.budget = budget /\ p.fault = fault /\ fault.Class = ev.class
        /\ budget.Attempt = attempt /\ budget.ConsecutiveRetry = consecutive
        /\ budget.MaxAttempts = recoveryLimit(ev.class, cfg)
        /\ budget.MaxConsecutive = consecutiveLimit(ev.class, cfg)
    OBVIOUS
  <2> HIDE DEF p, budget, fault
  <2>2. ev.class # "none" => recoveryLimit(ev.class, cfg) \in Nat
                             /\ consecutiveLimit(ev.class, cfg) \in Nat
    BY LimitsPositive DEF Event
  <2> QED BY <2>1, <2>2 DEF Within, overBudget
<1>7. queued.Pending = p /\ queued.Awaiting = Nil BY <1>5 DEF ThreadState
<1> HIDE DEF failed, p, queued, budget, fault, tooLong, reason
<1> QED BY <1>1, <1>4, <1>5, <1>6, <1>7, EndedLimited DEF Limited
\* A handler that keeps the queued retry or drops it, and dispatches nothing.
Passes(before, after) ==
    /\ after.Pending # Nil => /\ before.Pending # Nil
                              /\ after.Pending.budget = before.Pending.budget
                              /\ after.Pending.fault = before.Pending.fault
    /\ NoDispatch(before, after)

LEMMA PassesLimited ==
    ASSUME NEW before, NEW after, NEW cfg, Passes(before, after), Limited(before, cfg)
    PROVE  Limited(after, cfg)
BY DEF Passes, Limited, Within

LEMMA StartedPasses ==
    ASSUME NEW th \in ThreadState, NEW ev \in Event
    PROVE  Passes(th, handleTaskStarted(th, ev))
<1> DEFINE s == [th EXCEPT !.LastStartedTurnID = ev.turn, !.LastStartedAt = ev.at,
                           !.CurrentTurnProgress = FALSE]
           external == [s EXCEPT !.LastExternalTurnID = ev.turn, !.LastExternalTurnAt = ev.at]
           acked == [s EXCEPT !.Awaiting = [@ EXCEPT !.RetryTurnID = ev.turn, !.StartedAt = ev.at]]
<1>1. \/ handleTaskStarted(th, ev) \in {s, th, resetRetryState(external)}
      \/ th.Awaiting # Nil /\ handleTaskStarted(th, ev) = acked
      \/ ev.turn # 0 /\ handleTaskStarted(th, ev) \in {adoptTurn(s, ev, "goal_active"),
                                                       adoptTurn(s, ev, "subagent_continue")}
  BY DEF handleTaskStarted, acknowledges, canAdoptNativeGoalTurn, canAdoptSubagentTurn
<1>2. /\ s \in ThreadState /\ external \in ThreadState
      /\ s.Pending = th.Pending /\ s.Awaiting = th.Awaiting
  BY DEF ThreadState, Event
<1>3. acked.Pending = th.Pending BY DEF ThreadState
<1>4. CASE handleTaskStarted(th, ev) \in {s, th, resetRetryState(external)}
  BY <1>2, <1>4, EndedLimited DEF Passes, NoDispatch
<1>5. CASE th.Awaiting # Nil /\ handleTaskStarted(th, ev) = acked
  BY <1>3, <1>5 DEF Passes, NoDispatch
<1> HIDE DEF s
<1>6. \A action : /\ adoptTurn(s, ev, action).Pending = Nil
                  /\ adoptTurn(s, ev, action).Awaiting.RetryTurnID = ev.turn
  BY <1>2 DEF adoptTurn, ThreadState
<1> QED BY <1>1, <1>4, <1>5, <1>6 DEF Passes, NoDispatch

LEMMA UserInputPasses ==
    ASSUME NEW th \in ThreadState, NEW ev \in Event
    PROVE  Passes(th, handleTaskUserInput(th, ev))
<1>1. handleTaskUserInput(th, ev) \in {th, resetRetryState(th)} BY DEF handleTaskUserInput
<1> QED BY <1>1, EndedLimited DEF Passes, NoDispatch

LEMMA ProgressPasses ==
    ASSUME NEW th \in ThreadState, NEW ev \in Event
    PROVE  Passes(th, handleTaskProgress(th, ev))
BY DEF handleTaskProgress, ThreadState, Passes, NoDispatch

LEMMA AbortedPasses ==
    ASSUME NEW th \in ThreadState, NEW ev \in Event
    PROVE  Passes(th, handleTurnAborted(th, ev))
<1> DEFINE turned == IF ev.turn = 0 THEN th.LastStartedTurnID ELSE ev.turn
           s == [th EXCEPT !.LastAbortedTurnID = turned, !.LastAbortedAt = ev.at]
<1>1. s \in ThreadState /\ s.Pending = th.Pending /\ s.Awaiting = th.Awaiting
  BY DEF ThreadState, Event
<1>2. handleTurnAborted(th, ev) \in {s, resetRetryState(s)} BY DEF handleTurnAborted
<1> HIDE DEF s
<1> QED BY <1>1, <1>2, EndedLimited DEF Passes, NoDispatch

LEMMA GoalUpdatedPasses ==
    ASSUME NEW th \in ThreadState, NEW ev \in Event
    PROVE  Passes(th, handleGoalUpdated(th, ev))
<1> DEFINE t == [th EXCEPT !.GoalStatus = ev.status, !.GoalUpdatedAt = ev.updatedAt,
                           !.GoalObservedAt = ev.at]
           hold(held) == [t EXCEPT !.GoalHeld = held]
<1>1. t \in ThreadState /\ t.Pending = th.Pending /\ t.Awaiting = th.Awaiting
  BY DEF ThreadState, Event
<1>2. \/ handleGoalUpdated(th, ev) \in {th, goalUpdatedAfterLimit(th, t),
                                          resetRetryState(hold(TRUE))}
      \/ \E held \in BOOLEAN : handleGoalUpdated(th, ev) = hold(held)
  <2>1. goalRequiresHold(ev.status, ev.updatedAt, th.LastFailureAt) \in BOOLEAN
    BY DEF goalRequiresHold
  <2> QED BY <2>1 DEF handleGoalUpdated
<1> HIDE DEF t
<1>3. \A held \in BOOLEAN : /\ hold(held) \in ThreadState
                            /\ hold(held).Pending = th.Pending /\ hold(held).Awaiting = th.Awaiting
  BY <1>1 DEF ThreadState
<1>4. /\ goalUpdatedAfterLimit(th, t).Pending = th.Pending
      /\ goalUpdatedAfterLimit(th, t).Awaiting = th.Awaiting
  BY <1>1 DEF goalUpdatedAfterLimit, ThreadState
<1> HIDE DEF hold
<1> QED BY <1>2, <1>3, <1>4, EndedLimited DEF Passes, NoDispatch

LEMMA NoticePasses ==
    ASSUME NEW th, Sound(th), NEW ev \in Event
    PROVE  Passes(th, handleSubagentRecoveryNotice(th, ev))
<1> DEFINE mark(retry) == IF retry # Nil /\ retry.fault.EventKey = ev.key
                          THEN [retry EXCEPT !.ParentNotified = TRUE] ELSE retry
<1>1. th \in ThreadState BY DEF Sound
<1>2. mark(th.Pending) # Nil => /\ th.Pending # Nil
                                /\ mark(th.Pending).budget = th.Pending.budget
                                /\ mark(th.Pending).fault = th.Pending.fault
  BY PendingFacts DEF PendingRetry
<1>3. th.Awaiting = Nil => mark(th.Awaiting) = Nil OBVIOUS
<1> DEFINE p == mark(th.Pending)
           a == mark(th.Awaiting)
<1>4. handleSubagentRecoveryNotice(th, ev) = [th EXCEPT !.Pending = p, !.Awaiting = a]
  BY DEF handleSubagentRecoveryNotice
<1> HIDE DEF p, a
<1>5. /\ handleSubagentRecoveryNotice(th, ev).Pending = p
      /\ handleSubagentRecoveryNotice(th, ev).Awaiting = a
  BY <1>1, <1>4 DEF ThreadState
<1> QED BY <1>2, <1>3, <1>5 DEF Passes, NoDispatch, p, a

LEMMA CompleteLimited ==
    ASSUME NEW th, Sound(th), NEW ev \in Event, NEW time \in Nat, NEW cfg \in Config,
           Limited(th, cfg)
    PROVE  LET s == handleTaskComplete(th, ev, time, cfg)
           IN  Limited(s, cfg) /\ NoDispatch(th, s)
<1> DEFINE a == th.Awaiting
           after == handleTaskComplete(th, ev, time, cfg)
           free == [th EXCEPT !.CurrentTurnProgress = FALSE, !.Awaiting = Nil]
           next == scheduleFailure(free, ev, time, cfg, a.budget.Attempt + 1,
                                   IF th.CurrentTurnProgress THEN 1
                                   ELSE a.budget.ConsecutiveRetry + 1,
                                   a.fault.OriginTurnStartedAt, a.ParentNotified)
           idle == [th EXCEPT !.CurrentTurnProgress = FALSE]
           first == scheduleFailure(idle, ev, time, cfg, 1, 1, externalTurnOrigin(th, ev), FALSE)
<1>1. th \in ThreadState BY DEF Sound
<1>2. \/ after \in {th, resetRetryState(th)}
      \/ a # Nil /\ ev.class # "success" /\ after = next
      \/ a = Nil /\ th.Pending = Nil /\ ev.class # "success" /\ after = first
  BY DEF handleTaskComplete
<1>3. CASE after \in {th, resetRetryState(th)}
  BY <1>1, <1>3, EndedLimited DEF Limited, NoDispatch
<1>4. CASE a # Nil /\ ev.class # "success" /\ after = next
  <2>1. a.budget \in Budget /\ th.Pending = Nil BY <1>4, AwaitingFacts DEF AwaitingRetry
  <2>2. free \in ThreadState /\ free.Pending = Nil /\ free.Awaiting = Nil
    BY <1>1, <2>1 DEF ThreadState
  <2> DEFINE attempt == a.budget.Attempt + 1
             consecutive == IF th.CurrentTurnProgress THEN 1 ELSE a.budget.ConsecutiveRetry + 1
             origin == a.fault.OriginTurnStartedAt
             notified == a.ParentNotified
  <2>3. attempt \in Nat /\ consecutive \in Nat BY <2>1 DEF Budget
  <2>4. after = scheduleFailure(free, ev, time, cfg, attempt, consecutive, origin, notified)
    BY <1>4
  <2> HIDE DEF free, next, attempt, consecutive, origin, notified
  <2> QED BY <1>4, <2>2, <2>3, <2>4, ScheduleLimited DEF NoDispatch
<1>5. CASE a = Nil /\ th.Pending = Nil /\ ev.class # "success" /\ after = first
  <2>1. idle \in ThreadState /\ idle.Pending = Nil /\ idle.Awaiting = Nil
    BY <1>1, <1>5 DEF ThreadState
  <2> DEFINE one == 1
             origin == externalTurnOrigin(th, ev)
             notified == FALSE
  <2>2. one \in Nat OBVIOUS
  <2>3. after = scheduleFailure(idle, ev, time, cfg, one, one, origin, notified) BY <1>5
  <2> HIDE DEF idle, first, one, origin, notified
  <2> QED BY <1>5, <2>1, <2>2, <2>3, ScheduleLimited DEF NoDispatch
<1> QED BY <1>2, <1>3, <1>4, <1>5

\* Every event of a rollout file leaves a queued retry within the limits.
LEMMA EventLimited ==
    ASSUME NEW th, Sound(th), NEW ev \in Event, NEW time \in Nat, NEW cfg \in Config,
           Limited(th, cfg)
    PROVE  LET s == handleEvent(th, ev, time, cfg)
           IN  Limited(s, cfg) /\ NoDispatch(th, s)
<1>1. th \in ThreadState BY DEF Sound
<1> DEFINE s == handleEvent(th, ev, time, cfg)
<1>2. CASE Passes(th, s) BY <1>2, PassesLimited DEF Passes
<1>3. CASE ev.kind = "task_started" BY <1>1, <1>2, <1>3, StartedPasses DEF handleEvent
<1>4. CASE ev.kind = "task_user_input" BY <1>1, <1>2, <1>4, UserInputPasses DEF handleEvent
<1>5. CASE ev.kind = "task_progress" BY <1>1, <1>2, <1>5, ProgressPasses DEF handleEvent
<1>6. CASE ev.kind = "task_complete" BY <1>6, CompleteLimited DEF handleEvent
<1>7. CASE ev.kind = "turn_aborted" BY <1>1, <1>2, <1>7, AbortedPasses DEF handleEvent
<1>8. CASE ev.kind = "thread_goal_updated"
  BY <1>1, <1>2, <1>8, GoalUpdatedPasses DEF handleEvent
<1>9. CASE ev.kind = "subagent_recovery_notice" BY <1>2, <1>9, NoticePasses DEF handleEvent
<1>10. ev.kind \in EventKinds BY DEF Event
<1> QED BY <1>3, <1>4, <1>5, <1>6, <1>7, <1>8, <1>9, <1>10 DEF EventKinds
\* reloadConfigLocked: a queued retry over the new limits is given up.
LEMMA ReloadLimited ==
    ASSUME NEW th, Sound(th), NEW cfg \in Config, NEW time \in Nat
    PROVE  LET s == reloadLimits(th, cfg, time)
           IN  Limited(s, cfg) /\ NoDispatch(th, s)
<1> DEFINE relimit(retry) ==
             IF retry = Nil THEN Nil
             ELSE [retry EXCEPT !.budget = withLimits(retry.budget, retry.fault.Class, cfg)]
           a == relimit(th.Awaiting)
           p == relimit(th.Pending)
           t == [th EXCEPT !.Awaiting = a, !.Pending = p]
           stopped == exhaustRetry(t, t.Pending.fault, t.Pending.budget,
                                   budgetStopReason(t.Pending.fault, t.Pending.budget, cfg),
                                   FALSE, time)
<1>1. reloadLimits(th, cfg, time)
        = IF t.Pending # Nil /\ overBudget(t.Pending.budget) THEN stopped ELSE t
  BY DEF reloadLimits
<1>2. th \in ThreadState /\ (th.Awaiting = Nil => a = Nil) BY DEF Sound
<1>3. p \in PendingRetry \cup {Nil} /\ (p # Nil /\ ~overBudget(p.budget) => Within(p, cfg))
  <2>1. CASE th.Pending = Nil BY <2>1
  <2>2. CASE th.Pending # Nil
    <3> DEFINE class == th.Pending.fault.Class
               b == withLimits(th.Pending.budget, class, cfg)
               r == [th.Pending EXCEPT !.budget = b]
    <3>1. /\ th.Pending \in PendingRetry /\ class \in FailureClasses
          /\ th.Pending.budget \in Budget
      BY <2>2, PendingFacts DEF PendingRetry, Fault
    <3>2. b \in Budget BY <3>1, WithLimitsType
    <3>3. b.MaxAttempts = recoveryLimit(class, cfg) /\ b.MaxConsecutive = consecutiveLimit(class, cfg)
      BY <3>1 DEF withLimits, Budget
    <3>4. p = r BY <2>2
    <3> HIDE DEF b, p
    <3>5. r \in PendingRetry /\ r.budget = b /\ r.fault = th.Pending.fault
      BY <3>1, <3>2 DEF PendingRetry
    <3>6. recoveryLimit(class, cfg) \in Nat /\ consecutiveLimit(class, cfg) \in Nat
      BY <3>1, LimitsPositive
    <3> HIDE DEF r
    <3>7. ~overBudget(b) => Within(r, cfg)
      BY <3>2, <3>3, <3>5, <3>6 DEF overBudget, Within, Budget
    <3> QED BY <3>4, <3>5, <3>7
  <2> QED BY <2>1, <2>2
<1> HIDE DEF a, p
<1>4. t.Pending = p /\ t.Awaiting = a BY <1>2 DEF ThreadState
<1>5. stopped.Pending = Nil /\ (th.Awaiting = Nil => stopped.Awaiting = Nil)
  <2>1. th.Pending # Nil => th.Awaiting = Nil BY PendingFacts
  <2>2. stopped.Pending = Nil /\ stopped.Awaiting = Nil
    BY <1>2 DEF exhaustRetry, stopRetry, ThreadState
  <2> QED BY <2>2
<1> HIDE DEF t, stopped
<1> QED BY <1>1, <1>2, <1>3, <1>4, <1>5 DEF Limited, NoDispatch

\* reopenRestartRequiredLocked reopens within the limits of the settings.
LEMMA ReopenLimited ==
    ASSUME NEW th, Sound(th), NEW cfg \in Config, NEW time \in Nat, Limited(th, cfg)
    PROVE  LET s == reopenRestartRequired(th, time, cfg)
           IN  Limited(s, cfg) /\ NoDispatch(th, s)
<1> DEFINE s == th.Stopped
           b == [Attempt |-> s.budget.Attempt + 1,
                 MaxAttempts |-> MinOf(recoveryLimit(s.fault.Class, cfg), s.budget.MaxAttempts),
                 ConsecutiveRetry |-> s.budget.ConsecutiveRetry + 1,
                 MaxConsecutive |-> MinOf(consecutiveLimit(s.fault.Class, cfg),
                                          s.budget.MaxConsecutive)]
           p == [fault |-> s.fault, budget |-> b, DueAt |-> time, DispatchFailures |-> 0,
                 ParentNotified |-> FALSE, GoalLimitRestart |-> FALSE]
           clock == IF th.RecoveryStartedAt = 0 THEN s.fault.FailedAt ELSE th.RecoveryStartedAt
           t == [th EXCEPT !.Stopped = Nil, !.RecoveryStartedAt = clock,
                           !.RecoveryAttempts = b.Attempt,
                           !.ConsecutiveRetries = b.ConsecutiveRetry, !.Pending = p]
<1>1. th \in ThreadState BY DEF Sound
<1>2. CASE ~canReopenTransportRetry(th, time) \/ overBudget(b)
  BY <1>2 DEF reopenRestartRequired, NoDispatch
<1>3. CASE canReopenTransportRetry(th, time) /\ ~overBudget(b)
  <2>1. reopenRestartRequired(th, time, cfg) = t BY <1>1, <1>3 DEF reopenRestartRequired, ThreadState
  <2>2. s \in StoppedRetry /\ th.Awaiting = Nil
    BY <1>1, <1>3 DEF canReopenTransportRetry, ThreadState
  <2>3. /\ s.budget.Attempt \in Nat /\ s.budget.ConsecutiveRetry \in Nat
        /\ s.budget.MaxAttempts \in Nat /\ s.budget.MaxConsecutive \in Nat
        /\ s.fault.Class \in FailureClasses
    BY <2>2 DEF StoppedRetry, Budget, Fault
  <2>4. recoveryLimit(s.fault.Class, cfg) \in Nat /\ consecutiveLimit(s.fault.Class, cfg) \in Nat
    BY <2>3, LimitsPositive
  <2>5. Within(p, cfg) BY <1>3, <2>3, <2>4 DEF Within, overBudget, MinOf
  <2>6. t.Pending = p /\ t.Awaiting = th.Awaiting BY <1>1 DEF ThreadState
  <2> HIDE DEF t, p
  <2> QED BY <2>1, <2>2, <2>5, <2>6 DEF Limited, NoDispatch
<1> QED BY <1>2, <1>3

\* applyControlCommandLocked: only restart_retry queues, the first attempt again.
LEMMA CommandLimited ==
    ASSUME NEW th, Sound(th), NEW action, NEW time \in Nat, NEW cfg \in Config, Limited(th, cfg)
    PROVE  LET s == applyControlCommand(th, action, time, cfg)
           IN  Limited(s, cfg) /\ NoDispatch(th, s)
<1>1. th \in ThreadState BY DEF Sound
<1>2. Passes(th, th) BY DEF Passes, NoDispatch
<1>3. Passes(th, commandRetryNow(th, time))
  <2>1. CASE th.Pending = Nil BY <1>2, <2>1 DEF commandRetryNow
  <2>2. CASE th.Pending # Nil
    <3> DEFINE p == [th.Pending EXCEPT !.DueAt = time]
    <3>1. p.budget = th.Pending.budget /\ p.fault = th.Pending.fault
      BY <2>2, PendingFacts DEF PendingRetry
    <3>2. commandRetryNow(th, time).Pending = p /\ commandRetryNow(th, time).Awaiting = th.Awaiting
      BY <1>1, <2>2 DEF commandRetryNow, ThreadState
    <3> HIDE DEF p
    <3> QED BY <2>2, <3>1, <3>2 DEF Passes, NoDispatch
  <2> QED BY <2>1, <2>2
<1>4. Passes(th, commandCancelRetry(th))
  BY <1>1 DEF commandCancelRetry, ThreadState, Passes, NoDispatch
<1>5. LET s == commandRestartRetry(th, time, cfg)
      IN  Limited(s, cfg) /\ NoDispatch(th, s)
  <2>1. CASE th.Stopped = Nil BY <2>1 DEF commandRestartRetry, NoDispatch
  <2>2. CASE th.Stopped # Nil
    <3> DEFINE s == th.Stopped
               once == [s.budget EXCEPT !.Attempt = 1, !.ConsecutiveRetry = 1]
               p == [fault |-> s.fault, budget |-> withLimits(once, s.fault.Class, cfg),
                     DueAt |-> time, DispatchFailures |-> 0, ParentNotified |-> FALSE,
                     GoalLimitRestart |-> isGoalEmptyResponseStopReason(s.Reason)]
    <3>1. s \in StoppedRetry BY <1>1, <2>2 DEF ThreadState
    <3>2. s.budget \in Budget /\ s.fault.Class \in FailureClasses
      BY <3>1 DEF StoppedRetry, Fault
    <3>3. once \in Budget /\ once.Attempt = 1 /\ once.ConsecutiveRetry = 1 BY <3>2 DEF Budget
    <3>4. /\ withLimits(once, s.fault.Class, cfg).Attempt = 1
          /\ withLimits(once, s.fault.Class, cfg).ConsecutiveRetry = 1
      BY <3>2, <3>3, WithLimitsType
    <3>5. Within(p, cfg) BY <3>2, <3>4, LimitsPositive DEF Within
    <3>6. /\ commandRestartRetry(th, time, cfg).Pending = p
          /\ commandRestartRetry(th, time, cfg).Awaiting = th.Awaiting
      BY <1>1, <2>2 DEF commandRestartRetry, ThreadState
    <3> HIDE DEF p
    <3> QED BY <3>5, <3>6 DEF Limited, NoDispatch
  <2> QED BY <2>1, <2>2
<1> QED BY <1>2, <1>3, <1>4, <1>5, PassesLimited DEF applyControlCommand, Passes

----------------------------------------------------------------------------
(* What goes back to the queue later is due after the tick.                *)

Later(th, at) == th.Pending # Nil => th.Pending.DueAt > at

LEMMA LaterLimited ==
    ASSUME NEW th, NEW at, NEW cfg, Sound(th), Later(th, at), at \in Nat
    PROVE  DueLimited(th, at, cfg)
BY PendingFacts DEF Later, DueLimited, PendingRetry

LEMMA LimitedDue ==
    ASSUME NEW th, NEW at, NEW cfg, Limited(th, cfg)
    PROVE  DueLimited(th, at, cfg)
BY DEF Limited, DueLimited

LEMMA RequeueLater ==
    ASSUME NEW th \in ThreadState, NEW budget, NEW n \in Nat, NEW cfg \in Config,
           NEW time \in Nat, NEW at \in Nat, at <= time, NEW tries
    PROVE  Later(requeue(th, budget, time + retryDelay(n, cfg), tries), at)
<1> DEFINE p == queuedRetry(th.Awaiting, budget, time + retryDelay(n, cfg), tries,
                            th.Awaiting.ParentNotified)
<1>1. p.DueAt = time + retryDelay(n, cfg) BY DEF queuedRetry
<1>2. requeue(th, budget, time + retryDelay(n, cfg), tries)
        = [th EXCEPT !.Awaiting = Nil, !.Pending = p]
  BY DEF requeue
<1> HIDE DEF p
<1>3. requeue(th, budget, time + retryDelay(n, cfg), tries).Pending = p BY <1>2 DEF ThreadState
<1> QED BY <1>1, <1>3, DelayPositive DEF Later

LEMMA RescheduleLater ==
    ASSUME NEW th, Sound(th), th.Awaiting # Nil, NEW time \in Nat, NEW reason,
           NEW counted \in BOOLEAN, NEW cfg \in Config, NEW at \in Nat, at <= time
    PROVE  Later(rescheduleAwaitingWithPolicy(th, time, reason, counted, cfg), at)
<1> DEFINE tries == th.Awaiting.DispatchFailures + (IF counted THEN 1 ELSE 0)
           n == IF tries = 0 THEN 1 ELSE tries
<1>1. th \in ThreadState /\ th.Awaiting \in AwaitingRetry BY AwaitingFacts DEF Sound
<1>2. n \in Nat BY <1>1 DEF AwaitingRetry
<1>3. stopAwaitingForController(th, reason).Pending = Nil
  BY <1>1 DEF stopAwaitingForController, stopRetry, ThreadState
<1>4. rescheduleAwaitingWithPolicy(th, time, reason, counted, cfg)
        \in {stopAwaitingForController(th, reason),
             requeue(th, th.Awaiting.budget, time + retryDelay(n, cfg), tries)}
  BY DEF rescheduleAwaitingWithPolicy
<1> HIDE DEF n, tries
<1> QED BY <1>1, <1>2, <1>3, <1>4, RequeueLater DEF Later
\* A handler of a dispatched retry dispatches nothing.
Result(before, after, at, cfg) == DueLimited(after, at, cfg) /\ NoDispatch(before, after)

LEMMA EmptyResult ==
    ASSUME NEW before, NEW after, NEW at, NEW cfg, after.Pending = Nil,
           before.Awaiting # Nil \/ after.Awaiting = Nil
    PROVE  Result(before, after, at, cfg)
BY DEF Result, DueLimited, NoDispatch

\* expireUnacknowledgedLocked.
LEMMA ExpireResult ==
    ASSUME NEW th, Sound(th), NEW time \in Nat, NEW cfg \in Config, Limited(th, cfg)
    PROVE  Result(th, expireUnacknowledged(th, time, cfg), time, cfg)
<1>1. Sound(expireUnacknowledged(th, time, cfg)) BY ExpireSound
<1>2. CASE startOverdue(th, time)
  <2> DEFINE reason == "start_not_acknowledged"
             counted == TRUE
  <2>1. th.Awaiting # Nil BY <1>2 DEF startOverdue
  <2>2. expireUnacknowledged(th, time, cfg)
          = rescheduleAwaitingWithPolicy(th, time, reason, counted, cfg)
    BY <1>2 DEF expireUnacknowledged
  <2>3. counted \in BOOLEAN OBVIOUS
  <2> HIDE DEF reason, counted
  <2>4. Later(expireUnacknowledged(th, time, cfg), time) BY <2>1, <2>2, <2>3, RescheduleLater
  <2> QED BY <1>1, <2>1, <2>4, LaterLimited DEF Result, NoDispatch
<1>3. CASE ~startOverdue(th, time) BY <1>3, LimitedDue DEF expireUnacknowledged, Result, NoDispatch
<1> QED BY <1>2, <1>3

\* reconcileAwaitingLifecycle: the turn was found idle, active, or not at all.
LEMMA ProbeResults ==
    ASSUME NEW th, Sound(th), th.Awaiting # Nil, NEW time \in Nat, NEW cfg \in Config,
           NEW reason \in ControllerReasons
    PROVE  /\ Result(th, probeFailed(th, reason, cfg), time, cfg)
           /\ Result(th, probeFoundActive(th), time, cfg)
           /\ Result(th, probeFoundIdle(th, time, cfg), time, cfg)
<1>1. th \in ThreadState /\ th.Pending = Nil /\ th.Awaiting \in AwaitingRetry
  BY AwaitingFacts DEF Sound
<1>2. probeFailed(th, reason, cfg).Pending = Nil
  BY <1>1 DEF probeFailed, stopAwaitingForController, stopRetry, ThreadState
<1>3. probeFoundActive(th).Pending = Nil BY <1>1 DEF probeFoundActive, ThreadState
<1>4. Later(probeFoundIdle(th, time, cfg), time)
  <2> DEFINE a == foundIdleOnce(th.Awaiting)
             t == [th EXCEPT !.Awaiting = a]
  <2>1. a \in AwaitingRetry
    <3> DEFINE n == th.Awaiting.LifecycleChecks + 1
    <3>1. n \in Nat BY <1>1 DEF AwaitingRetry
    <3>2. a = [th.Awaiting EXCEPT !.DispatchFailures = 0, !.LifecycleChecks = n]
      BY <1>1 DEF foundIdleOnce, AwaitingRetry
    <3> HIDE DEF n, a
    <3> QED BY <1>1, <3>1, <3>2 DEF AwaitingRetry
  <2> HIDE DEF a
  <2>2. t \in ThreadState /\ t.Awaiting = a /\ t.Pending = Nil /\ t.CurrentTurnProgress \in BOOLEAN
    BY <1>1, <2>1 DEF ThreadState
  <2>3. probeFoundIdle(th, time, cfg) \in {t, advanceInactiveAwaiting(t, time, cfg)}
    BY <1>1 DEF probeFoundIdle, a, ThreadState
  <2> HIDE DEF t
  <2> DEFINE next == [a.budget EXCEPT !.Attempt = @ + 1,
                                      !.ConsecutiveRetry = IF t.CurrentTurnProgress THEN 1
                                                           ELSE @ + 1]
             u == [t EXCEPT !.CurrentTurnProgress = FALSE]
             stopped(historical) == exhaustRetry(u, a.fault, next, budgetStopReason(a.fault, next, cfg),
                                                 historical, time)
             back == requeue(u, next, time + retryDelay(next.ConsecutiveRetry, cfg), a.DispatchFailures)
             queued == [back EXCEPT !.RecoveryAttempts = next.Attempt,
                                    !.ConsecutiveRetries = next.ConsecutiveRetry,
                                    !.Stopped = Nil, !.GoalStop = Nil]
  <2>4. \/ \E historical : advanceInactiveAwaiting(t, time, cfg) = stopped(historical)
        \/ advanceInactiveAwaiting(t, time, cfg) = queued
    BY <2>2 DEF advanceInactiveAwaiting
  <2>5. u \in ThreadState BY <2>2 DEF ThreadState
  <2>6. next.ConsecutiveRetry \in Nat BY <2>1, <2>2 DEF AwaitingRetry, Budget
  <2> HIDE DEF u, next
  <2>7. \A historical : stopped(historical).Pending = Nil BY <2>5, EndedLimited
  <2>8. Later(back, time) BY <2>5, <2>6, RequeueLater
  <2>9. queued.Pending = back.Pending BY <2>5 DEF requeue, ThreadState
  <2> HIDE DEF stopped, back, queued
  <2> QED BY <2>2, <2>3, <2>4, <2>7, <2>8, <2>9 DEF Later
<1>5. Sound(probeFoundIdle(th, time, cfg)) BY ProbeIdleSound
<1> QED BY <1>2, <1>3, <1>4, <1>5, EmptyResult, LaterLimited DEF Result, NoDispatch

\* runJob: a result of whatever outcome.
LEMMA JobResults ==
    ASSUME NEW th, Sound(th), th.Awaiting # Nil, NEW time \in Nat, NEW at \in Nat, at <= time,
           NEW cfg \in Config, NEW reason \in ControllerReasons, NEW skip, NEW action \in RetryActions
    PROVE  /\ Result(th, rescheduleAwaitingWithPolicy(th, time, reason, TRUE, cfg), at, cfg)
           /\ Result(th, dispatchUserActive(th, reason, time, cfg), at, cfg)
           /\ Result(th, dispatchNotApplicable(th, skip), at, cfg)
           /\ Result(th, dispatchAccepted(th, action, time, cfg), at, cfg)
<1>1. th \in ThreadState /\ th.Pending = Nil /\ th.Awaiting \in AwaitingRetry
  BY AwaitingFacts DEF Sound
<1>2. ASSUME NEW s, Sound(s), s.Awaiting # Nil, NEW counted \in BOOLEAN
      PROVE  Result(th, rescheduleAwaitingWithPolicy(s, time, reason, counted, cfg), at, cfg)
  <2>1. Sound(rescheduleAwaitingWithPolicy(s, time, reason, counted, cfg)) BY <1>2, RescheduleSound
  <2>2. Later(rescheduleAwaitingWithPolicy(s, time, reason, counted, cfg), at)
    BY <1>2, RescheduleLater
  <2> QED BY <2>1, <2>2, LaterLimited DEF Result, NoDispatch
<1>3. Result(th, rescheduleAwaitingWithPolicy(th, time, reason, TRUE, cfg), at, cfg)
  <2> DEFINE counted == TRUE
  <2>1. counted \in BOOLEAN OBVIOUS
  <2> HIDE DEF counted
  <2>2. Result(th, rescheduleAwaitingWithPolicy(th, time, reason, counted, cfg), at, cfg)
    BY <1>2, <2>1
  <2> QED BY <2>2 DEF counted
<1>4. Result(th, dispatchUserActive(th, reason, time, cfg), at, cfg)
  <2> DEFINE a == [th.Awaiting EXCEPT !.DispatchFailures = 0]
             s == [th EXCEPT !.Awaiting = a]
             counted == FALSE
  <2>1. a \in AwaitingRetry /\ a.budget = th.Awaiting.budget BY <1>1 DEF AwaitingRetry
  <2>2. dispatchUserActive(th, reason, time, cfg)
          = rescheduleAwaitingWithPolicy(s, time, reason, counted, cfg)
    BY <1>1 DEF dispatchUserActive, ThreadState
  <2>3. counted \in BOOLEAN OBVIOUS
  <2> HIDE DEF a, counted
  <2>4. Sound(s) BY <2>1, MarkedSound
  <2>5. s.Awaiting # Nil BY <1>1, <2>1, NilAssumption DEF ThreadState
  <2> QED BY <1>2, <2>2, <2>3, <2>4, <2>5
<1>5. dispatchNotApplicable(th, skip).Pending = Nil
  BY <1>1 DEF dispatchNotApplicable, resetRetryState, ThreadState
<1>6. dispatchAccepted(th, action, time, cfg).Pending = Nil
  BY <1>1 DEF dispatchAccepted, ThreadState
<1> QED BY <1>3, <1>4, <1>5, <1>6, EmptyResult

\* runGoalBlockJob: a stopped thread queues nothing.
LEMMA GoalBlockResults ==
    ASSUME NEW th, Sound(th), th.GoalStop # Nil, NEW time, NEW at, NEW cfg, NEW reason, NEW status
    PROVE  /\ Result(th, rescheduleGoalBlock(th, time, reason, cfg), at, cfg)
           /\ Result(th, goalBlocked(th, status, time), at, cfg)
<1>1. th \in ThreadState /\ th.Pending = Nil /\ th.Awaiting = Nil
  BY DEF Sound, onePhase, goalStopBacked, automaticGoalLimitStopped
<1>2. /\ rescheduleGoalBlock(th, time, reason, cfg).Pending = Nil
      /\ rescheduleGoalBlock(th, time, reason, cfg).Awaiting = Nil
  BY <1>1 DEF rescheduleGoalBlock, ThreadState
<1>3. goalBlocked(th, status, time).Pending = Nil /\ goalBlocked(th, status, time).Awaiting = Nil
  BY <1>1 DEF goalBlocked, ThreadState
<1> QED BY <1>2, <1>3, EmptyResult

\* After a restart no retry awaits its first turn.
LEMMA RestartDispatchesNothing ==
    ASSUME NEW before, NEW th \in ThreadState, NEW time
    PROVE  NoDispatch(before, reconcileStartupState(loadThread(th), time))
<1> DEFINE t == loadThread(th)
<1>1. t.Awaiting = th.Awaiting /\ DOMAIN t = DOMAIN th BY DEF loadThread, ThreadState
<1>2. requeue(t, t.Awaiting.budget, time, t.Awaiting.DispatchFailures).Awaiting = Nil
  BY DEF requeue, loadThread, ThreadState
<1> HIDE DEF t
<1>3. NoDispatch(before, reconcileStartupState(t, time))
  BY <1>2 DEF reconcileStartupState, NoDispatch
<1> QED BY <1>3 DEF t
----------------------------------------------------------------------------
(* A retry that is due when the dispatcher looks is within the limits.     *)

Fresh ==
    /\ tickNow <= now
    /\ phase \in {"events", "controls"} => \A t \in Threads : Limited(threads[t], config)
    /\ phase \in {"checks", "lifecycle"} =>
          \A t \in Threads : DueLimited(threads[t], tickNow, config)

\* No thread is dispatched in this step.
Quiet == \A t \in Threads : NoDispatch(threads[t], threads'[t])

LEMMA SharedOffLimits ==
    ASSUME NEW cfg \in Config, NEW class
    PROVE  /\ recoveryLimit(class, sharedOff(cfg)) = recoveryLimit(class, cfg)
           /\ consecutiveLimit(class, sharedOff(cfg)) = consecutiveLimit(class, cfg)
BY DEF Config, sharedOff, recoveryLimit, consecutiveLimit, classCeiling

LEMMA InvFacts ==
    ASSUME Inv
    PROVE  /\ \A t \in Threads : Sound(threads[t]) /\ threads[t] \in ThreadState
           /\ DOMAIN threads = Threads /\ DOMAIN disk = Threads
           /\ \A t \in Threads : disk[t] \in ThreadState
           /\ config \in Config /\ configFile \in Config
           /\ now \in Nat /\ tickNow \in Nat
BY SoundMember DEF Inv, CodexInv, CodexTypeOK, MemoryInv, TickInv, FileInv, Sound

LEMMA UnchangedQuiet ==
    ASSUME UNCHANGED threads
    PROVE  Quiet
BY DEF Quiet, NoDispatch

\* Every thread goes through one handler.
LEMMA EachFresh ==
    ASSUME Inv, Fresh, UNCHANGED <<now, tickNow, config>>, phase \in {"events", "controls"},
           phase' \in {"events", "controls"},
           \A t \in Threads : Limited(threads'[t], config) /\ NoDispatch(threads[t], threads'[t])
    PROVE  Fresh' /\ Quiet
BY DEF Fresh, Quiet

LEMMA EachDue ==
    ASSUME Inv, Fresh, UNCHANGED <<now, tickNow, config>>, phase' \in {"checks", "lifecycle"},
           \A t \in Threads : Result(threads[t], threads'[t], tickNow, config)
    PROVE  Fresh' /\ Quiet
BY DEF Fresh, Quiet, Result

\* The result of a probe or of a job reaches one thread, in any phase where d.mu is free.
LEMMA OneResult ==
    ASSUME Inv, Fresh, UNCHANGED <<now, tickNow, config, phase>>, phase \notin {"events", "controls"},
           NEW t \in Threads, NEW th, threads' = [threads EXCEPT ![t] = th],
           Result(threads[t], th, tickNow, config)
    PROVE  Fresh' /\ Quiet
<1>1. \A u \in Threads : threads'[u] = IF u = t THEN th ELSE threads[u] BY InvFacts
<1> QED BY <1>1 DEF Fresh, Quiet, Result, NoDispatch

LEMMA TickFresh ==
    ASSUME Inv, Fresh, Tick, ~Dispatch
    PROVE  Fresh' /\ Quiet
<1> USE InvFacts
<1>1. CASE TickBegin \/ LatchedFailure \/ ControllerProbe
  BY <1>1, UnchangedQuiet DEF TickBegin, LatchedFailure, ControllerProbe, Fresh, memoryVars
<1>2. CASE TickScan
  <2>1. \A t \in Threads : /\ threads'[t] = reloadLimits(threads[t], configFile, now)
                           /\ Limited(threads'[t], configFile) /\ NoDispatch(threads[t], threads'[t])
    BY <1>2, ReloadLimited DEF TickScan
  <2>2. tickNow' <= now' /\ phase' = "events" /\ config' = configFile
    BY <1>2 DEF TickScan, Fresh
  <2> QED BY <2>1, <2>2 DEF Fresh, Quiet
<1>3. CASE \E t \in Threads : HandleEvent(t)
  <2>1. PICK t \in Threads : HandleEvent(t) BY <1>3
  <2> DEFINE ev == Head(batch[t])
             th == handleEvent(threads[t], ev, tickNow, config)
  <2>2. ev \in Event
    <3>1. batch[t] \in Seq(Event) /\ batch[t] # <<>> BY <2>1 DEF Inv, TickInv, HandleEvent
    <3> QED BY <3>1, HeadTailProperties
  <2>3. /\ phase = "events" /\ phase' = phase /\ UNCHANGED <<now, tickNow, config>>
        /\ threads' = [threads EXCEPT ![t] = th]
    BY <2>1 DEF HandleEvent
  <2> HIDE DEF ev
  <2>4. Limited(th, config) /\ NoDispatch(threads[t], th) BY <2>2, <2>3, EventLimited DEF Fresh
  <2> HIDE DEF th
  <2>5. \A u \in Threads : Limited(threads'[u], config) /\ NoDispatch(threads[u], threads'[u])
    BY <2>3, <2>4 DEF Fresh, NoDispatch
  <2> QED BY <2>3, <2>5, EachFresh
<1>4. CASE Reopen
  <2>1. phase = "events" /\ phase' = "controls" /\ UNCHANGED <<now, tickNow, config>>
    BY <1>4 DEF Reopen
  <2>2. \A t \in Threads : threads'[t] \in {threads[t], reopenRestartRequired(threads[t], tickNow, config)}
    BY <1>4 DEF Reopen
  <2>3. \A t \in Threads : Limited(threads'[t], config) /\ NoDispatch(threads[t], threads'[t])
    BY <2>1, <2>2, ReopenLimited DEF Fresh, NoDispatch
  <2> QED BY <2>1, <2>3, EachFresh
<1>5. CASE ControlCommand
  <2> DEFINE c == Head(commands)
             th == applyControlCommand(threads[c.thread], c.action, tickNow, config)
  <2>1. c.thread \in Threads
    <3>1. commands \in Seq(Command) /\ commands # <<>> BY <1>5 DEF Inv, FileInv, ControlCommand
    <3>2. c \in Command BY <3>1, HeadTailProperties
    <3> QED BY <3>2 DEF Command
  <2>2. /\ phase = "controls" /\ phase' = phase /\ UNCHANGED <<now, tickNow, config>>
        /\ threads' = [threads EXCEPT ![c.thread] = th]
    BY <1>5 DEF ControlCommand, tickVars
  <2> HIDE DEF c
  <2>3. Limited(th, config) /\ NoDispatch(threads[c.thread], th)
    BY <2>1, <2>2, CommandLimited DEF Fresh
  <2> HIDE DEF th
  <2>4. \A u \in Threads : Limited(threads'[u], config) /\ NoDispatch(threads[u], threads'[u])
    BY <2>1, <2>2, <2>3 DEF Fresh, NoDispatch
  <2> QED BY <2>2, <2>4, EachFresh
<1>6. CASE EndControls
  <2>1. phase = "controls" /\ phase' = "checks" /\ UNCHANGED <<now, tickNow, config>>
    BY <1>6 DEF EndControls
  <2>2. \A t \in Threads : threads'[t] \in {threads[t], expireUnacknowledged(threads[t], tickNow, config)}
    BY <1>6 DEF EndControls
  <2>3. \A t \in Threads : Result(threads[t], threads'[t], tickNow, config)
    BY <2>1, <2>2, ExpireResult, LimitedDue DEF Fresh, Result, NoDispatch
  <2> QED BY <2>1, <2>3, EachDue
<1>7. CASE MemoryLimitExceeded
  <2>1. /\ phase = "checks" /\ phase' = phase /\ UNCHANGED <<now, tickNow, threads>>
        /\ config' \in {config, sharedOff(config)}
    BY <1>7 DEF MemoryLimitExceeded, failOpenSharedBackend, tickVars
  <2>2. \A t \in Threads : DueLimited(threads[t], tickNow, config')
    BY <2>1, SharedOffLimits DEF Fresh, DueLimited, Within
  <2> QED BY <2>1, <2>2, UnchangedQuiet DEF Fresh
<1>8. CASE CollectProbes
  <2>1. phase = "checks" /\ phase' = "lifecycle" /\ UNCHANGED <<now, tickNow, config>>
    BY <1>8 DEF CollectProbes
  <2>2. \A t \in Threads : threads'[t].Pending = threads[t].Pending
                           /\ (threads[t].Awaiting = Nil => threads'[t].Awaiting = Nil)
    BY <1>8 DEF CollectProbes, ThreadState, lifecycleDue
  <2>3. \A t \in Threads : Result(threads[t], threads'[t], tickNow, config)
    BY <2>1, <2>2 DEF Fresh, Result, DueLimited, NoDispatch
  <2> QED BY <2>1, <2>3, EachDue
<1>9. CASE \E p \in probes : ProbeLifecycle(p)
  <2>1. PICK p \in probes : ProbeLifecycle(p) BY <1>9
  <2> DEFINE t == p.thread
  <2>2. t \in Threads BY DEF Inv, TickInv, Probe
  <2>3. phase = "lifecycle" /\ UNCHANGED <<now, tickNow, config, phase>>
    BY <2>1 DEF ProbeLifecycle
  <2>4. \/ UNCHANGED threads
        \/ /\ threads[t].Awaiting # Nil
           /\ \E th : /\ threads' = [threads EXCEPT ![t] = th]
                      /\ \/ \E reason \in ErrorReasons : th = probeFailed(threads[t], reason, config)
                         \/ th \in {probeFoundActive(threads[t]),
                                    probeFoundIdle(threads[t], tickNow, config)}
    BY <2>1 DEF ProbeLifecycle, probeMatches
  <2>5. CASE UNCHANGED threads BY <2>3, <2>5, UnchangedQuiet DEF Fresh
  <2>6. CASE ~(UNCHANGED threads)
    <3>1. PICK th : /\ threads[t].Awaiting # Nil
                    /\ threads' = [threads EXCEPT ![t] = th]
                    /\ \/ \E reason \in ErrorReasons : th = probeFailed(threads[t], reason, config)
                       \/ th \in {probeFoundActive(threads[t]),
                                  probeFoundIdle(threads[t], tickNow, config)}
      BY <2>4, <2>6
    <3>2. ErrorReasons \subseteq ControllerReasons /\ "codex_not_running" \in ControllerReasons
      BY DaemonAssumption DEF ControllerReasons
    <3>3. Result(threads[t], th, tickNow, config) BY <2>2, <3>1, <3>2, ProbeResults
    <3> QED BY <2>2, <2>3, <3>1, <3>3, OneResult
  <2> QED BY <2>5, <2>6
<1> QED BY <1>1, <1>2, <1>3, <1>4, <1>5, <1>6, <1>7, <1>8, <1>9 DEF Tick

LEMMA JobFresh ==
    ASSUME Inv, Fresh, NEW j \in jobs, JobStep(j)
    PROVE  Fresh' /\ Quiet
<1> DEFINE t == j.thread
           th == threads[t]
<1>1. /\ t \in Threads /\ Sound(th) /\ now \in Nat /\ tickNow \in Nat /\ tickNow <= now
      /\ config \in Config
  BY JobFacts, InvFacts DEF Fresh
<1>2. CASE StartJob(j) \/ SendRequest(j) \/ StaleResult(j)
  BY <1>2, UnchangedQuiet DEF StartJob, SendRequest, StaleResult, Fresh, tickVars
<1>3. ASSUME NEW kind, finishing(j, kind), NEW after, setThread(t, after),
             Result(th, after, tickNow, config)
      PROVE  Fresh' /\ Quiet
  BY <1>1, <1>3, OneResult DEF finishing, setThread, tickVars, codexVars, Unlocked, LockHeld
<1>4. ASSUME finishing(j, "recovery"), NEW notified, NEW reason \in ControllerReasons,
             NEW skip, NEW action \in RetryActions
      PROVE  LET told == notifyParent(th, notified)
             IN  /\ Result(th, rescheduleAwaitingWithPolicy(told, now, reason, TRUE, config),
                           tickNow, config)
                 /\ Result(th, dispatchUserActive(told, reason, now, config), tickNow, config)
                 /\ Result(th, dispatchNotApplicable(th, skip), tickNow, config)
                 /\ Result(th, dispatchAccepted(told, action, now, config), tickNow, config)
  <2>1. th.Awaiting # Nil BY <1>4, MatchFacts
  <2> DEFINE told == notifyParent(th, notified)
  <2>2. Sound(told) /\ told.Awaiting # Nil BY <1>1, <2>1, NotifySound
  <2> HIDE DEF th, told
  <2>3. /\ Result(told, rescheduleAwaitingWithPolicy(told, now, reason, TRUE, config), tickNow, config)
        /\ Result(told, dispatchUserActive(told, reason, now, config), tickNow, config)
        /\ Result(told, dispatchAccepted(told, action, now, config), tickNow, config)
    BY <1>1, <2>2, JobResults
  <2>4. Result(th, dispatchNotApplicable(th, skip), tickNow, config) BY <1>1, <2>1, JobResults
  <2> QED BY <2>1, <2>3, <2>4 DEF Result, NoDispatch, told
<1> HIDE DEF t, th
<1>5. "thread_active" \in ControllerReasons BY DEF ControllerReasons
<1>6. \A notified : acceptedAction(j, notified) \in RetryActions BY DEF acceptedAction, RetryActions
<1>7. failures(j) \subseteq ControllerReasons BY FailureReasons
<1>8. CASE RecoveryFailed(j)
  <2>1. PICK reason \in failures(j), notified \in notices(j) :
          setThread(t, rescheduleAwaitingWithPolicy(notifyParent(th, notified),
                                                    now, reason, TRUE, config))
    BY <1>8 DEF RecoveryFailed, t, th
  <2>2. finishing(j, "recovery") BY <1>8 DEF RecoveryFailed
  <2>3. Result(th, rescheduleAwaitingWithPolicy(notifyParent(th, notified), now, reason, TRUE, config),
               tickNow, config)
    BY <1>4, <1>6, <1>7, <2>2
  <2> QED BY <1>3, <2>1, <2>2, <2>3
<1>9. CASE RecoveryUserActive(j)
  <2>1. PICK notified \in notices(j) :
          setThread(t, dispatchUserActive(notifyParent(th, notified), "thread_active", now, config))
    BY <1>9 DEF RecoveryUserActive, t, th
  <2>2. finishing(j, "recovery") BY <1>9 DEF RecoveryUserActive
  <2>3. Result(th, dispatchUserActive(notifyParent(th, notified), "thread_active", now, config),
               tickNow, config)
    BY <1>4, <1>5, <1>6, <2>2
  <2> QED BY <1>3, <2>1, <2>2, <2>3
<1>10. CASE RecoveryNotApplicable(j)
  <2>1. PICK reason \in SkipReasons : setThread(t, dispatchNotApplicable(th, reason))
    BY <1>10 DEF RecoveryNotApplicable, t, th
  <2>2. finishing(j, "recovery") BY <1>10 DEF RecoveryNotApplicable
  <2>3. Result(th, dispatchNotApplicable(th, reason), tickNow, config) BY <1>4, <1>5, <1>6, <2>2
  <2> QED BY <1>3, <2>1, <2>2, <2>3
<1>11. CASE RecoveryAccepted(j)
  <2>1. PICK notified \in notices(j) :
          setThread(t, dispatchAccepted(notifyParent(th, notified), acceptedAction(j, notified),
                                        now, config))
    BY <1>11 DEF RecoveryAccepted, t, th
  <2>2. finishing(j, "recovery") BY <1>11 DEF RecoveryAccepted
  <2>3. Result(th, dispatchAccepted(notifyParent(th, notified), acceptedAction(j, notified), now, config),
               tickNow, config)
    BY <1>4, <1>5, <1>6, <2>2
  <2> QED BY <1>3, <2>1, <2>2, <2>3
<1>12. CASE GoalBlockFailed(j)
  <2>1. PICK reason \in failures(j) : setThread(t, rescheduleGoalBlock(th, now, reason, config))
    BY <1>12 DEF GoalBlockFailed, t, th
  <2>2. finishing(j, "goal_block") BY <1>12 DEF GoalBlockFailed
  <2>3. th.GoalStop # Nil BY <2>2, MatchFacts DEF t, th
  <2>4. Result(th, rescheduleGoalBlock(th, now, reason, config), tickNow, config)
    BY <1>1, <2>3, GoalBlockResults
  <2> QED BY <1>3, <2>1, <2>2, <2>4
<1>13. CASE GoalBlockDone(j)
  <2>1. setThread(t, goalBlocked(th, j.sent, now)) BY <1>13 DEF GoalBlockDone, t, th
  <2>2. finishing(j, "goal_block") BY <1>13 DEF GoalBlockDone
  <2>3. th.GoalStop # Nil BY <2>2, MatchFacts DEF t, th
  <2>4. Result(th, goalBlocked(th, j.sent, now), tickNow, config) BY <1>1, <2>3, GoalBlockResults
  <2> QED BY <1>3, <2>1, <2>2, <2>4
<1> QED BY <1>2, <1>8, <1>9, <1>10, <1>11, <1>12, <1>13 DEF JobStep

LEMMA NextFresh ==
    ASSUME Inv, Fresh, [Next]_vars, ~Dispatch
    PROVE  Fresh' /\ Quiet
<1>1. CASE Tick BY <1>1, TickFresh
<1>2. CASE \E j \in jobs : JobStep(j) BY <1>2, JobFresh
<1>3. CASE Crash
  <2>1. Fresh' BY <1>3, InvFacts DEF Crash, Fresh
  <2>2. \A t \in Threads : NoDispatch(threads[t], threads'[t])
    BY <1>3, InvFacts, RestartDispatchesNothing DEF Crash
  <2> QED BY <2>1, <2>2 DEF Quiet
<1>4. CASE UNCHANGED <<now, tickNow, phase, config, threads>> BY <1>4, UnchangedQuiet DEF Fresh
<1>5. CASE \/ \E t \in Threads : QueueCommand(t)
           \/ TogglePause \/ EditConfig \/ CodexMoves \/ UNCHANGED vars
  BY <1>4, <1>5 DEF QueueCommand, TogglePause, EditConfig, CodexMoves, vars, daemonVars,
     memoryVars, tickVars
<1>6. CASE Advance
  <2>1. now' = now + 1 /\ UNCHANGED <<tickNow, phase, config, threads>>
    BY <1>6 DEF Advance, daemonVars, memoryVars, tickVars
  <2> QED BY <2>1, InvFacts, UnchangedQuiet DEF Fresh
<1> QED BY <1>1, <1>2, <1>3, <1>5, <1>6 DEF Next

----------------------------------------------------------------------------
(* The dispatcher.                                                         *)

LEMMA ActiveFinite ==
    ASSUME Inv
    PROVE  IsFiniteSet(Threads) /\ \A S \in SUBSET Threads : IsFiniteSet(S) /\ Cardinality(S) \in Nat
<1>1. IsFiniteSet(Threads) BY CodexAssumption
<1> QED BY <1>1, FS_Subset, FS_CardinalityType

\* The threads that are due first fit into the slots that are left.
LEMMA FirstDueCount ==
    ASSUME NEW due, DOMAIN due \in SUBSET Threads, NEW n \in Nat, NEW E \in firstDue(due, n), Inv
    PROVE  /\ E \subseteq DOMAIN due
           /\ Cardinality(E) <= n
           /\ E = DOMAIN due \/ Cardinality(E) = n
           /\ \A e \in E, s \in DOMAIN due \ E : due[e] <= due[s]
<1>1. /\ E \subseteq DOMAIN due
      /\ Cardinality(E) = MinOf(n, Cardinality(DOMAIN due))
      /\ \A e \in E, s \in DOMAIN due \ E : due[e] <= due[s]
  BY DEF firstDue
<1>2. Cardinality(DOMAIN due) \in Nat /\ IsFiniteSet(DOMAIN due) BY ActiveFinite
<1>3. Cardinality(E) = Cardinality(DOMAIN due) => E = DOMAIN due BY <1>1, <1>2, FS_Subset
<1> QED BY <1>1, <1>2, <1>3 DEF MinOf

LEMMA DisjointCount ==
    ASSUME NEW S \in SUBSET Threads, NEW T \in SUBSET Threads, S \cap T = {}, Inv
    PROVE  Cardinality(S \cup T) = Cardinality(S) + Cardinality(T)
<1>1. Cardinality(S \cup T) = Cardinality(S) + Cardinality(T) - Cardinality(S \cap T)
  BY ActiveFinite, FS_Union
<1>2. Cardinality(S \cap T) = 0 BY FS_EmptySet
<1> QED BY <1>1, <1>2, ActiveFinite
\* What happens to a thread when candidates are promoted.
LEMMA PromotedFacts ==
    ASSUME Inv, NEW busy, NEW chosen \in SUBSET candidates(busy), NEW t \in Threads,
           threads' = promoted(chosen, busy)
    PROVE  /\ threads[t].Awaiting = Nil /\ threads'[t].Awaiting # Nil =>
                 /\ t \in chosen /\ pendingDue(threads[t], tickNow)
                 /\ threads'[t].Awaiting.budget = threads[t].Pending.budget
                 /\ threads'[t].Awaiting.fault = threads[t].Pending.fault
           /\ pendingDue(threads'[t], tickNow) /\ t \notin busy =>
                 /\ t \in candidates(busy) \ chosen
                 /\ threads'[t] = threads[t]
<1> DEFINE th == threads[t]
<1>1. th \in ThreadState BY InvFacts
<1>2. threads'[t] = IF heldFromDispatch(th) THEN clearHeldRetry(th)
                    ELSE IF dispatchable(t, busy) /\ recoveryTimeExceeded(th, tickNow)
                    THEN stopPendingForController(th, "recovery_time_limit")
                    ELSE IF t \in chosen THEN startDispatch(th, tickNow, config) ELSE th
  BY DEF promoted
<1>3. clearHeldRetry(th).Pending = Nil /\ (th.Awaiting = Nil => clearHeldRetry(th).Awaiting = Nil)
  BY <1>1 DEF clearHeldRetry, dropHeldRetry, ThreadState
<1>4. /\ stopPendingForController(th, "recovery_time_limit").Pending = Nil
      /\ stopPendingForController(th, "recovery_time_limit").Awaiting = Nil
  BY <1>1 DEF stopPendingForController, stopRetry, ThreadState
<1>5. /\ startDispatch(th, tickNow, config).Pending = Nil
      /\ startDispatch(th, tickNow, config).Awaiting.budget = th.Pending.budget
      /\ startDispatch(th, tickNow, config).Awaiting.fault = th.Pending.fault
  BY <1>1 DEF startDispatch, ThreadState
<1>6. t \in chosen => pendingDue(th, tickNow) BY DEF candidates, dispatchable
<1>7. CASE threads'[t] \in {clearHeldRetry(th), stopPendingForController(th, "recovery_time_limit")}
  BY <1>3, <1>4, <1>7 DEF pendingDue
<1>8. CASE t \in chosen /\ threads'[t] = startDispatch(th, tickNow, config)
  BY <1>5, <1>6, <1>8 DEF pendingDue
<1>9. CASE /\ ~heldFromDispatch(th) /\ ~(dispatchable(t, busy) /\ recoveryTimeExceeded(th, tickNow))
           /\ t \notin chosen /\ threads'[t] = th
  BY <1>9 DEF candidates, dispatchable
<1> HIDE DEF th
<1> QED BY <1>2, <1>7, <1>8, <1>9

\* Without a transport every due retry stops, and nothing is dispatched.
LEMMA StoppedFacts ==
    ASSUME Inv, NEW t \in Threads, threads' = stoppedForTransport
    PROVE  NoDispatch(threads[t], threads'[t]) /\ ~pendingDue(threads'[t], tickNow)
<1>1. threads[t] \in ThreadState BY InvFacts
<1>2. threads'[t] = IF pendingDue(threads[t], tickNow)
                    THEN stopPendingForController(threads[t], noTransportReason) ELSE threads[t]
  BY DEF stoppedForTransport
<1>3. /\ stopPendingForController(threads[t], noTransportReason).Pending = Nil
      /\ stopPendingForController(threads[t], noTransportReason).Awaiting = Nil
  BY <1>1 DEF stopPendingForController, stopRetry, ThreadState
<1> QED BY <1>2, <1>3 DEF pendingDue, NoDispatch

\* The slots that a launch takes.
LEMMA LaunchCount ==
    ASSUME Inv, ~(Cardinality(active) >= config.MaxParallelRetries),
           NEW blocks \in firstDue(stopDue, slots),
           NEW chosen \in SUBSET candidates(active \cup blocks),
           launch(blocks, chosen)
    PROVE  /\ slots - Cardinality(blocks) \in Nat
           /\ Cardinality(active') + (slots - Cardinality(blocks))
                = config.MaxParallelRetries + Cardinality(chosen)
<1>1. active \subseteq Threads /\ config.MaxParallelRetries \in Nat
  BY DEF Inv, MemoryInv, Config, Positive
<1>2. slots \in Nat BY <1>1, ActiveFinite DEF slots
<1>3. DOMAIN stopDue \in SUBSET Threads BY DEF stopDue, goalStopsDue
<1>4. blocks \subseteq goalStopsDue /\ Cardinality(blocks) <= slots
  BY <1>2, <1>3, FirstDueCount, BlocksDue
<1>5. blocks \subseteq Threads /\ blocks \cap active = {} BY <1>4 DEF goalStopsDue
<1>6. chosen \subseteq Threads /\ chosen \cap (active \cup blocks) = {}
  BY DEF candidates, dispatchable
<1>7. Cardinality(active \cup blocks) = Cardinality(active) + Cardinality(blocks)
  BY <1>1, <1>5, DisjointCount
<1>8. active \cup blocks \in SUBSET Threads BY <1>1, <1>5
<1>9. Cardinality((active \cup blocks) \cup chosen)
        = Cardinality(active \cup blocks) + Cardinality(chosen)
  BY <1>6, <1>8, DisjointCount
<1>10. active' = (active \cup blocks) \cup chosen BY DEF launch
<1>11. /\ Cardinality(active) \in Nat /\ Cardinality(blocks) \in Nat /\ Cardinality(chosen) \in Nat
  BY <1>1, <1>5, <1>6, ActiveFinite
<1> QED BY <1>1, <1>2, <1>4, <1>7, <1>9, <1>10, <1>11 DEF slots

\* What a promotion of the chosen threads means for the slots and for the rest.
LEMMA PromotionFacts ==
    ASSUME Inv, ~(Cardinality(active) >= config.MaxParallelRetries),
           NEW blocks \in firstDue(stopDue, slots),
           NEW chosen \in firstDue(pendingDueAt(active \cup blocks), slots - Cardinality(blocks)),
           Chosen(blocks, chosen)
    PROVE  /\ chosen \subseteq candidates(active \cup blocks)
           /\ Cardinality(active') <= config.MaxParallelRetries
           /\ \/ chosen = candidates(active \cup blocks)
              \/ Cardinality(active') = config.MaxParallelRetries
           /\ \A u \in chosen, t \in candidates(active \cup blocks) \ chosen :
                 threads[u].Pending.DueAt <= threads[t].Pending.DueAt
<1> DEFINE busy == active \cup blocks
           left == slots - Cardinality(blocks)
<1>1. chosen \in SUBSET candidates(busy) BY ChosenDue
<1>2. left \in Nat /\ Cardinality(active') + left = config.MaxParallelRetries + Cardinality(chosen)
  BY <1>1, LaunchCount DEF Chosen
<1>3. /\ DOMAIN pendingDueAt(busy) = candidates(busy) /\ candidates(busy) \in SUBSET Threads
      /\ \A t \in candidates(busy) : pendingDueAt(busy)[t] = threads[t].Pending.DueAt
  BY DEF pendingDueAt, candidates
<1>4. chosen \in firstDue(pendingDueAt(busy), left) OBVIOUS
<1> HIDE DEF busy, left
<1>5. /\ Cardinality(chosen) <= left
      /\ chosen = candidates(busy) \/ Cardinality(chosen) = left
      /\ \A u \in chosen, t \in candidates(busy) \ chosen :
            pendingDueAt(busy)[u] <= pendingDueAt(busy)[t]
  BY <1>2, <1>3, <1>4, FirstDueCount
<1>6. \A u \in chosen, t \in candidates(busy) \ chosen :
            threads[u].Pending.DueAt <= threads[t].Pending.DueAt
  BY <1>1, <1>3, <1>5
<1>7. Cardinality(chosen) \in Nat /\ Cardinality(active') \in Nat
  <2>1. chosen \in SUBSET Threads BY <1>1, <1>3
  <2>2. active' \in SUBSET Threads BY <2>1, BlocksDue DEF Chosen, launch, goalStopsDue, Inv, MemoryInv
  <2> QED BY <2>1, <2>2, ActiveFinite
<1>8. config.MaxParallelRetries \in Nat BY DEF Inv, MemoryInv, Config, Positive
<1>9. /\ Cardinality(active') <= config.MaxParallelRetries
      /\ Cardinality(chosen) = left => Cardinality(active') = config.MaxParallelRetries
  BY <1>2, <1>5, <1>7, <1>8
<1>10. busy = active \cup blocks BY DEF busy
<1> QED BY <1>1, <1>5, <1>6, <1>9, <1>10
WithinStep ==
    \A t \in Threads :
        dispatched(t) =>
            LET b == threads'[t].Awaiting.budget
                class == threads'[t].Awaiting.fault.Class
            IN  /\ b.Attempt <= recoveryLimit(class, config)
                /\ b.ConsecutiveRetry <= consecutiveLimit(class, config)
                /\ Cardinality(active') <= config.MaxParallelRetries

ConservingStep ==
    phase = "lifecycle" /\ phase' = "idle" /\ tickNow' = tickNow =>
        LET waiting == {t \in Threads \ active' : pendingDue(threads'[t], tickNow)}
        IN  /\ waiting # {} /\ ~paused => Cardinality(active') >= config.MaxParallelRetries
            /\ \A t \in waiting, u \in Threads :
                  dispatched(u) => threads[u].Pending.DueAt <= threads[t].Pending.DueAt

LEMMA QuietWithin ==
    ASSUME Quiet
    PROVE  \A t \in Threads : ~dispatched(t)
BY DEF Quiet, NoDispatch, dispatched

\* dispatchDueLocked takes due retries within the limits, as many as slots allow.
LEMMA DispatchSteps ==
    ASSUME Inv, Fresh, Dispatch
    PROVE  WithinStep /\ ConservingStep
<1>1. phase = "lifecycle" /\ UNCHANGED <<tickNow, config, paused>> BY DEF Dispatch
<1> DEFINE most == config.MaxParallelRetries
<1>2. most \in Nat BY DEF Inv, MemoryInv, Config, Positive
<1>3. CASE Cardinality(active) >= most /\ UNCHANGED <<threads, active, jobs>>
  BY <1>3, UnchangedQuiet, QuietWithin DEF WithinStep, ConservingStep
<1>4. CASE ~(Cardinality(active) >= most)
           /\ \E blocks \in firstDue(stopDue, slots) :
                 /\ slots - Cardinality(blocks) = 0 \/ paused
                 /\ launch(blocks, {}) /\ UNCHANGED threads
  <2>1. PICK blocks \in firstDue(stopDue, slots) :
          /\ slots - Cardinality(blocks) = 0 \/ paused
          /\ launch(blocks, {}) /\ UNCHANGED threads
    BY <1>4
  <2> DEFINE none == {}
  <2>2. none \in SUBSET candidates(active \cup blocks) /\ launch(blocks, none) BY <2>1
  <2>3. Cardinality(none) = 0 BY FS_EmptySet
  <2> HIDE DEF none
  <2>4. /\ slots - Cardinality(blocks) \in Nat
        /\ Cardinality(active') + (slots - Cardinality(blocks)) = most + Cardinality(none)
    BY <1>4, <2>2, LaunchCount
  <2>5. active' \in SUBSET Threads
    BY <2>1, BlocksDue DEF launch, goalStopsDue, Inv, MemoryInv
  <2>6. Cardinality(active') \in Nat BY <2>5, ActiveFinite
  <2>7. ~paused => Cardinality(active') >= most BY <1>2, <2>1, <2>3, <2>4, <2>6
  <2> QED BY <2>1, <2>7, UnchangedQuiet, QuietWithin DEF WithinStep, ConservingStep
<1>5. CASE threads' = stoppedForTransport
  <2>1. Quiet /\ \A t \in Threads : ~pendingDue(threads'[t], tickNow)
    BY <1>5, StoppedFacts DEF Quiet
  <2> QED BY <2>1, QuietWithin DEF WithinStep, ConservingStep
<1>6. CASE ~(Cardinality(active) >= most)
           /\ \E blocks \in firstDue(stopDue, slots) :
                 \E chosen \in firstDue(pendingDueAt(active \cup blocks),
                                        slots - Cardinality(blocks)) : Chosen(blocks, chosen)
  <2>1. PICK blocks \in firstDue(stopDue, slots) :
           \E chosen \in firstDue(pendingDueAt(active \cup blocks), slots - Cardinality(blocks)) :
              Chosen(blocks, chosen)
    BY <1>6
  <2>2. PICK chosen \in firstDue(pendingDueAt(active \cup blocks), slots - Cardinality(blocks)) :
              Chosen(blocks, chosen)
    BY <2>1
  <2> DEFINE busy == active \cup blocks
  <2>3. /\ chosen \in SUBSET candidates(busy)
        /\ Cardinality(active') <= most
        /\ chosen = candidates(busy) \/ Cardinality(active') = most
        /\ \A u \in chosen, t \in candidates(busy) \ chosen :
              threads[u].Pending.DueAt <= threads[t].Pending.DueAt
    BY <1>6, <2>2, PromotionFacts
  <2>4. threads' = promoted(chosen, busy) /\ active' = busy \cup chosen
    BY <2>2 DEF Chosen, launch
  <2> HIDE DEF busy, most
  <2>5. \A t \in Threads :
          /\ threads[t].Awaiting = Nil /\ threads'[t].Awaiting # Nil =>
                /\ t \in chosen /\ pendingDue(threads[t], tickNow)
                /\ threads'[t].Awaiting.budget = threads[t].Pending.budget
                /\ threads'[t].Awaiting.fault = threads[t].Pending.fault
          /\ pendingDue(threads'[t], tickNow) /\ t \notin busy =>
                t \in candidates(busy) \ chosen
    BY <2>3, <2>4, PromotedFacts
  <2>6. WithinStep
    <3>1. \A t \in Threads : DueLimited(threads[t], tickNow, config) BY <1>1 DEF Fresh
    <3> QED BY <2>3, <2>5, <3>1 DEF WithinStep, dispatched, DueLimited, Within, pendingDue, most
  <2>7. ConservingStep
    <3>1. \A t \in Threads \ active' : pendingDue(threads'[t], tickNow) =>
             t \in candidates(busy) \ chosen
      BY <2>4, <2>5
    <3>2. \A u \in Threads : dispatched(u) => u \in chosen BY <2>5 DEF dispatched
    <3>3. (\E t \in Threads \ active' : pendingDue(threads'[t], tickNow))
             => Cardinality(active') >= most
      BY <1>2, <2>3, <3>1
    <3> QED BY <2>3, <3>1, <3>2, <3>3 DEF ConservingStep, most
  <2> QED BY <2>6, <2>7
<1> QED BY <1>3, <1>4, <1>5, <1>6, DispatchForms

\* Nothing but the dispatcher ends a tick that nothing interrupts.
LEMMA OnlyDispatchEnds ==
    ASSUME Inv, [Next]_vars, ~Dispatch
    PROVE  ConservingStep
<1>1. SUFFICES ASSUME phase = "lifecycle", phase' = "idle", tickNow' = tickNow PROVE FALSE
  BY DEF ConservingStep
<1>2. tickNow # 0 BY <1>1 DEF Inv, TickInv
<1>3. ~Tick
  BY <1>1 DEF Tick, TickBegin, LatchedFailure, ControllerProbe, TickScan, HandleEvent, Reopen,
     ControlCommand, EndControls, MemoryLimitExceeded, CollectProbes, ProbeLifecycle, tickVars
<1>4. ~Crash BY <1>1, <1>2 DEF Crash
<1>5. \A j \in jobs : ~JobStep(j)
  BY <1>1 DEF JobStep, StartJob, SendRequest, StaleResult, RecoveryFailed, RecoveryUserActive,
     RecoveryNotApplicable, RecoveryAccepted, GoalBlockFailed, GoalBlockDone, finishing, tickVars
<1>6. ~(\/ \E t \in Threads : QueueCommand(t)
        \/ TogglePause \/ EditConfig \/ Advance \/ CodexMoves \/ UNCHANGED vars)
  BY <1>1 DEF QueueCommand, TogglePause, EditConfig, Advance, CodexMoves, vars, daemonVars, tickVars
<1> QED BY <1>3, <1>4, <1>5, <1>6 DEF Next

LEMMA DispatchFresh ==
    ASSUME Inv, Fresh, Dispatch
    PROVE  Fresh'
BY DEF Fresh, Dispatch

LEMMA InitFresh == Init => Fresh
<1>1. Init => tickNow = 0 /\ now = 1 /\ phase = "idle" BY DEF Init, CodexInit
<1> QED BY <1>1 DEF Fresh

\* A retry is dispatched within the limits of the settings now in force, whatever
\* they were when it was queued, and MaxParallelRetries jobs run at most.
THEOREM DispatchWithinLimitsHolds == Spec => DispatchWithinLimits
<1>1. Init => Fresh BY InitFresh
<1>2. Inv /\ Fresh /\ [Next]_vars => Fresh' BY NextFresh, DispatchFresh
<1>3. Inv /\ Fresh /\ [Next]_vars => WithinStep
  <2> SUFFICES ASSUME Inv, Fresh, [Next]_vars PROVE WithinStep OBVIOUS
  <2>1. CASE Dispatch BY <2>1, DispatchSteps
  <2>2. CASE ~Dispatch BY <2>2, NextFresh, QuietWithin DEF WithinStep
  <2> QED BY <2>1, <2>2
<1>4. Inv /\ Fresh /\ [Next]_vars => [WithinStep]_vars BY <1>3
<1> QED BY InvHolds, <1>1, <1>2, <1>4, PTL DEF Spec, DispatchWithinLimits, WithinStep

\* At the end of a tick no due retry waits beside a free slot, unless retries are
\* paused, and those that were dispatched had waited longest.
THEOREM WorkConservingHolds == Spec => WorkConserving
<1>1. Init => Fresh BY InitFresh
<1>2. Inv /\ Fresh /\ [Next]_vars => Fresh' BY NextFresh, DispatchFresh
<1>3. Inv /\ Fresh /\ [Next]_vars => [ConservingStep]_vars BY DispatchSteps, OnlyDispatchEnds
<1> QED BY InvHolds, <1>1, <1>2, <1>3, PTL DEF Spec, WorkConserving, ConservingStep

----------------------------------------------------------------------------
(* One handler, from the thread before to the thread after.                *)

\* The chain goes on, if there is one before and one after.
Continues(before, after) ==
    LET x == liveRetry(before)
        y == liveRetry(after)
    IN  x # Nil /\ y # Nil =>
            /\ after.RecoveryStartedAt = before.RecoveryStartedAt
            /\ x.ParentNotified => y.ParentNotified
            /\ y.budget.Attempt # x.budget.Attempt =>
                  /\ y.budget.Attempt = x.budget.Attempt + 1
                  /\ before.Awaiting # Nil /\ before.Awaiting.RetryTurnID # 0

\* The stop of a goal limit stays.
KeepsStop(before, after) ==
    automaticGoalLimitStopped(before) => after.Stopped # Nil

\* A hold of the goal that the thread's retry is not allowed to outlive.
HoldsRetry(th) ==
    LET r == liveRetry(th)
    IN  /\ r # Nil
        /\ th.GoalHeld
        /\ ~r.GoalLimitRestart
        /\ ~heldConversationAllowed(th.GoalStatus, th.GoalUpdatedAt, r.fault.OriginTurnStartedAt)

\* The chain goes on, and no hold comes over it.
Advances(before, after) ==
    Continues(before, after) /\ (HoldsRetry(after) => HoldsRetry(before))

\* A retry was dispatched and its turn has not been seen.
Unacked(th) == th.Awaiting # Nil /\ th.Awaiting.RetryTurnID = 0

SameFrame(before, after) ==
    /\ after.RecoveryStartedAt = before.RecoveryStartedAt
    /\ after.GoalHeld = before.GoalHeld
    /\ after.GoalStatus = before.GoalStatus
    /\ after.GoalUpdatedAt = before.GoalUpdatedAt

SameRetry(x, y) ==
    /\ y.fault = x.fault
    /\ y.budget.Attempt = x.budget.Attempt
    /\ y.GoalLimitRestart = x.GoalLimitRestart
    /\ y.ParentNotified \in {TRUE, x.ParentNotified}

\* A dispatch that waits for its turn is the one that waited before.
SameDispatch(before, after) ==
    Unacked(after) => Unacked(before) /\ SameRetry(before.Awaiting, after.Awaiting)

ChainStep(before, after) ==
    Advances(before, after) /\ SameDispatch(before, after) /\ KeepsStop(before, after)

\* A thread with a chain is not stopped.
LEMMA LiveNotStopped ==
    ASSUME NEW th, Sound(th), th.Pending # Nil \/ th.Awaiting # Nil
    PROVE  ~automaticGoalLimitStopped(th)
BY PendingFacts, AwaitingFacts DEF automaticGoalLimitStopped

\* The chain ends here.
LEMMA EndStep ==
    ASSUME NEW before, NEW after, after.Pending = Nil, after.Awaiting = Nil,
           automaticGoalLimitStopped(before) => after.Stopped # Nil
    PROVE  ChainStep(before, after)
<1>1. liveRetry(after) = Nil /\ ~Unacked(after) BY DEF liveRetry, Unacked
<1> QED BY <1>1 DEF ChainStep, Advances, Continues, SameDispatch, KeepsStop, HoldsRetry

\* No chain before: a new one may begin, if no hold forbids it.
LEMMA BeginStep ==
    ASSUME NEW before, NEW after, before.Pending = Nil, before.Awaiting = Nil,
           after.Awaiting = Nil, ~HoldsRetry(after),
           automaticGoalLimitStopped(before) => after.Stopped # Nil
    PROVE  ChainStep(before, after)
<1>1. liveRetry(before) = Nil /\ ~Unacked(after) BY DEF liveRetry, Unacked
<1> QED BY <1>1 DEF ChainStep, Advances, Continues, SameDispatch, KeepsStop

\* The handler leaves the retry, the clock, the goal and the stop alone.
LEMMA FrameStep ==
    ASSUME NEW before, NEW after, after.Pending = before.Pending,
           after.Awaiting = before.Awaiting, after.Stopped = before.Stopped,
           SameFrame(before, after)
    PROVE  ChainStep(before, after)
<1>1. liveRetry(after) = liveRetry(before) BY DEF liveRetry
<1> QED BY <1>1 DEF ChainStep, Advances, Continues, SameDispatch, KeepsStop, SameFrame, SameRetry,
            HoldsRetry, Unacked, automaticGoalLimitStopped

LEMMA StutterStep == ASSUME NEW th PROVE ChainStep(th, th)
BY FrameStep DEF SameFrame

\* A chain moves on between Pending and Awaiting with the same count.
LEMMA MoveStep ==
    ASSUME NEW before, Sound(before), before.Pending # Nil \/ before.Awaiting # Nil,
           NEW after, SameDispatch(before, after), SameFrame(before, after),
           SameRetry(liveRetry(before), liveRetry(after))
    PROVE  ChainStep(before, after)
<1>1. KeepsStop(before, after) BY LiveNotStopped DEF KeepsStop
<1>2. liveRetry(before) # Nil BY DEF liveRetry
<1>3. Advances(before, after)
  BY <1>2 DEF Advances, Continues, SameFrame, SameRetry, HoldsRetry
<1> QED BY <1>1, <1>3 DEF ChainStep

\* The retry turn ran: the chain moves on with the next attempt.
LEMMA CountStep ==
    ASSUME NEW before, Sound(before), before.Awaiting # Nil, before.Awaiting.RetryTurnID # 0,
           NEW after, after.Awaiting = Nil,
           after.RecoveryStartedAt = before.RecoveryStartedAt,
           HoldsRetry(after) => HoldsRetry(before),
           after.Pending.ParentNotified = before.Awaiting.ParentNotified,
           after.Pending.budget.Attempt = before.Awaiting.budget.Attempt + 1
    PROVE  ChainStep(before, after)
<1>1. KeepsStop(before, after) BY LiveNotStopped DEF KeepsStop
<1>2. liveRetry(before) = before.Awaiting /\ liveRetry(after) = after.Pending
  BY AwaitingFacts DEF liveRetry
<1>3. Advances(before, after) BY <1>2 DEF Advances, Continues, HoldsRetry
<1>4. SameDispatch(before, after) BY DEF SameDispatch, Unacked
<1> QED BY <1>1, <1>3, <1>4 DEF ChainStep

----------------------------------------------------------------------------
(* Rollout events.                                                         *)

\* The chain is reset, which happens only outside the stop of a goal limit.
LEMMA ResetStep ==
    ASSUME NEW before, NEW th \in ThreadState, ~automaticGoalLimitStopped(before)
    PROVE  ChainStep(before, resetRetryState(th))
BY EndedLimited, EndStep

LEMMA StartedChain ==
    ASSUME NEW th, Sound(th), NEW ev \in Event
    PROVE  ChainStep(th, handleTaskStarted(th, ev))
<1> DEFINE s == [th EXCEPT !.LastStartedTurnID = ev.turn, !.LastStartedAt = ev.at,
                           !.CurrentTurnProgress = FALSE]
           external == [s EXCEPT !.LastExternalTurnID = ev.turn, !.LastExternalTurnAt = ev.at]
           a == [th.Awaiting EXCEPT !.RetryTurnID = ev.turn, !.StartedAt = ev.at]
           acked == [s EXCEPT !.Awaiting = a]
           after == handleTaskStarted(th, ev)
<1> SUFFICES ChainStep(th, after) OBVIOUS
<1>1. th \in ThreadState BY DEF Sound
<1>2. /\ s \in ThreadState /\ external \in ThreadState
      /\ s.Pending = th.Pending /\ s.Awaiting = th.Awaiting /\ s.Stopped = th.Stopped
      /\ SameFrame(th, s)
  BY <1>1 DEF ThreadState, Event, SameFrame
<1>3. \/ after = s
      \/ after = th
      \/ ~automaticGoalLimitStopped(th) /\ after = resetRetryState(external)
      \/ th.Awaiting # Nil /\ ev.turn # 0 /\ after = acked
      \/ th.Pending # Nil /\ ev.turn # 0 /\ \E action : after = adoptTurn(s, ev, action)
  <2>1. s.Awaiting = th.Awaiting BY <1>2
  <2> QED BY <2>1 DEF handleTaskStarted, acknowledges, canAdoptNativeGoalTurn, canAdoptSubagentTurn
<1> HIDE DEF s, external
<1>4. CASE after = s BY <1>2, <1>4, FrameStep
<1>5. CASE after = th BY <1>5, StutterStep
<1>6. CASE ~automaticGoalLimitStopped(th) /\ after = resetRetryState(external)
  BY <1>2, <1>6, ResetStep
<1>7. CASE th.Awaiting # Nil /\ ev.turn # 0 /\ after = acked
  <2>1. th.Awaiting \in AwaitingRetry /\ th.Pending = Nil BY <1>7, AwaitingFacts
  <2>2. SameRetry(th.Awaiting, a) /\ a.RetryTurnID # 0 BY <1>7, <2>1 DEF AwaitingRetry, SameRetry
  <2> HIDE DEF a
  <2>3. acked.Pending = Nil /\ acked.Awaiting = a /\ SameFrame(th, acked)
    BY <1>2, <2>1 DEF ThreadState, SameFrame
  <2> HIDE DEF acked
  <2>4. liveRetry(th) = th.Awaiting /\ liveRetry(acked) = a BY <2>1, <2>3 DEF liveRetry
  <2>5. SameDispatch(th, acked) BY <2>2, <2>3 DEF SameDispatch, Unacked
  <2> QED BY <1>7, <2>2, <2>3, <2>4, <2>5, MoveStep
<1>8. CASE th.Pending # Nil /\ ev.turn # 0 /\ \E action : after = adoptTurn(s, ev, action)
  <2>1. PICK action : after = adoptTurn(s, ev, action) BY <1>8
  <2>2. after.Pending = Nil /\ SameFrame(s, after) /\ SameRetry(s.Pending, after.Awaiting)
    <3>1. after.Pending = Nil /\ SameFrame(s, after)
      BY <1>2, <2>1 DEF adoptTurn, ThreadState, SameFrame
    <3>2. /\ after.Awaiting.fault = s.Pending.fault
          /\ after.Awaiting.budget = s.Pending.budget
          /\ after.Awaiting.GoalLimitRestart = s.Pending.GoalLimitRestart
          /\ after.Awaiting.ParentNotified = s.Pending.ParentNotified
      BY <1>2, <2>1 DEF adoptTurn, ThreadState
    <3> QED BY <3>1, <3>2 DEF SameRetry
  <2>3. after.Awaiting.RetryTurnID # 0 BY <1>2, <1>8, <2>1 DEF adoptTurn, ThreadState
  <2>4. liveRetry(th) = th.Pending /\ liveRetry(after) = after.Awaiting
    BY <1>8, <2>2 DEF liveRetry
  <2> HIDE DEF after
  <2>5. SameDispatch(th, after) BY <2>3 DEF SameDispatch, Unacked
  <2>6. SameFrame(th, after) BY <1>2, <2>2 DEF SameFrame
  <2> QED BY <1>2, <1>8, <2>2, <2>4, <2>5, <2>6, MoveStep
<1> QED BY <1>3, <1>4, <1>5, <1>6, <1>7, <1>8

LEMMA UserInputChain ==
    ASSUME NEW th, Sound(th), NEW ev \in Event
    PROVE  ChainStep(th, handleTaskUserInput(th, ev))
<1>1. \/ handleTaskUserInput(th, ev) = th
      \/ ~automaticGoalLimitStopped(th) /\ handleTaskUserInput(th, ev) = resetRetryState(th)
  BY DEF handleTaskUserInput
<1> QED BY <1>1, StutterStep, ResetStep DEF Sound

LEMMA ProgressChain ==
    ASSUME NEW th, Sound(th), NEW ev \in Event
    PROVE  ChainStep(th, handleTaskProgress(th, ev))
<1>1. LET s == handleTaskProgress(th, ev)
      IN  /\ s.Pending = th.Pending /\ s.Awaiting = th.Awaiting /\ s.Stopped = th.Stopped
          /\ SameFrame(th, s)
  BY DEF handleTaskProgress, Sound, ThreadState, SameFrame
<1> QED BY <1>1, FrameStep

LEMMA AbortedChain ==
    ASSUME NEW th, Sound(th), NEW ev \in Event
    PROVE  ChainStep(th, handleTurnAborted(th, ev))
<1> DEFINE turned == IF ev.turn = 0 THEN th.LastStartedTurnID ELSE ev.turn
           s == [th EXCEPT !.LastAbortedTurnID = turned, !.LastAbortedAt = ev.at]
<1>1. /\ s \in ThreadState
      /\ s.Pending = th.Pending /\ s.Awaiting = th.Awaiting /\ s.Stopped = th.Stopped
      /\ SameFrame(th, s)
  BY DEF Sound, ThreadState, Event, SameFrame
<1>2. \/ handleTurnAborted(th, ev) = s
      \/ ~automaticGoalLimitStopped(th) /\ handleTurnAborted(th, ev) = resetRetryState(s)
  BY DEF handleTurnAborted
<1> HIDE DEF s
<1> QED BY <1>1, <1>2, FrameStep, ResetStep

\* The parent's notice only marks the retry.
LEMMA NoticeChain ==
    ASSUME NEW th, Sound(th), NEW ev \in Event
    PROVE  ChainStep(th, handleSubagentRecoveryNotice(th, ev))
<1> DEFINE mark(retry) == IF retry # Nil /\ retry.fault.EventKey = ev.key
                          THEN [retry EXCEPT !.ParentNotified = TRUE] ELSE retry
           p == mark(th.Pending)
           a == mark(th.Awaiting)
           after == handleSubagentRecoveryNotice(th, ev)
<1> SUFFICES ChainStep(th, after) OBVIOUS
<1>1. th \in ThreadState BY DEF Sound
<1>2. th.Pending # Nil => SameRetry(th.Pending, p)
  BY PendingFacts DEF PendingRetry, SameRetry
<1>3. th.Awaiting # Nil => SameRetry(th.Awaiting, a) /\ a.RetryTurnID = th.Awaiting.RetryTurnID
  BY AwaitingFacts DEF AwaitingRetry, SameRetry
<1>4. (th.Pending = Nil => p = Nil) /\ (th.Awaiting = Nil => a = Nil) OBVIOUS
<1>5. after = [th EXCEPT !.Pending = p, !.Awaiting = a] BY DEF handleSubagentRecoveryNotice
<1> HIDE DEF p, a, after
<1>6. /\ after.Pending = p /\ after.Awaiting = a /\ after.Stopped = th.Stopped
      /\ SameFrame(th, after)
  BY <1>1, <1>5 DEF ThreadState, SameFrame
<1>7. SameDispatch(th, after) BY <1>3, <1>4, <1>6 DEF SameDispatch, Unacked
<1>8. CASE th.Pending # Nil
  <2>1. th.Awaiting = Nil BY <1>8, PendingFacts
  <2>2. liveRetry(th) = th.Pending /\ liveRetry(after) = p
    BY <1>4, <1>6, <1>8, <2>1 DEF liveRetry
  <2> QED BY <1>2, <1>6, <1>7, <1>8, <2>2, MoveStep
<1>9. CASE th.Pending = Nil /\ th.Awaiting # Nil
  <2>1. liveRetry(th) = th.Awaiting /\ liveRetry(after) = a BY <1>4, <1>6, <1>9 DEF liveRetry
  <2> QED BY <1>3, <1>6, <1>7, <1>9, <2>1, MoveStep
<1>10. CASE th.Pending = Nil /\ th.Awaiting = Nil
  <2>1. p = Nil /\ a = Nil BY <1>4, <1>10
  <2> QED BY <1>6, <1>10, <2>1, FrameStep
<1> QED BY <1>8, <1>9, <1>10

\* scheduleFailureLocked starts the clock of a new chain, keeps that of a chain
\* that goes on, and queues nothing that a hold forbids.
LEMMA ScheduleChain ==
    ASSUME NEW th \in ThreadState, th.Pending = Nil, th.Awaiting = Nil,
           NEW ev \in Event, ev.class # "success", NEW time \in Nat, NEW cfg \in Config,
           NEW attempt \in Nat, NEW consecutive \in Nat, NEW origin, NEW notified
    PROVE  LET s == scheduleFailure(th, ev, time, cfg, attempt, consecutive, origin, notified)
           IN  /\ s.Awaiting = Nil
               /\ \/ s.Pending = Nil
                  \/ /\ ~HoldsRetry(s)
                     /\ s.Pending.budget.Attempt = attempt
                     /\ s.Pending.ParentNotified = notified
                     /\ th.RecoveryAttempts # 0 /\ th.RecoveryStartedAt # 0
                        => s.RecoveryStartedAt = th.RecoveryStartedAt
<1> DEFINE clocked == startClock(th, time)
           blockedNow == /\ th.GoalStatus = "blocked"
                         /\ goalBlockedByFailure(th.GoalUpdatedAt, ev.at)
           t == [clocked EXCEPT !.GoalHeld = @ /\ ~blockedNow]
           fault == [EventKey |-> ev.turn, FailedAt |-> ev.at,
                     OriginTurnStartedAt |-> origin, Class |-> ev.class]
           budget == [Attempt |-> attempt, MaxAttempts |-> recoveryLimit(ev.class, cfg),
                      ConsecutiveRetry |-> consecutive,
                      MaxConsecutive |-> consecutiveLimit(ev.class, cfg)]
           failed == [t EXCEPT !.CurrentTurnProgress = FALSE, !.LastFailureAt = ev.at]
           tooLong == time > t.RecoveryStartedAt + MaxAutomaticRecoveryDuration
           reason == IF tooLong THEN "recovery_time_limit"
                     ELSE budgetStopReason(fault, budget, cfg)
           p == [fault |-> fault, budget |-> budget,
                 DueAt |-> time + retryDelay(consecutive, cfg),
                 DispatchFailures |-> 0, ParentNotified |-> notified,
                 GoalLimitRestart |-> FALSE]
           queued == [failed EXCEPT
                !.RecoveryAttempts = attempt, !.ConsecutiveRetries = consecutive,
                !.Awaiting = Nil, !.Stopped = Nil, !.GoalStop = Nil, !.Pending = p]
           s == scheduleFailure(th, ev, time, cfg, attempt, consecutive, origin, notified)
<1>1. s = IF t.GoalHeld /\ ~heldConversationAllowed(t.GoalStatus, t.GoalUpdatedAt, origin)
          THEN dropHeldRetry(failed)
          ELSE IF ev.class = "none" THEN resetRetryState(t)
          ELSE IF tooLong \/ overBudget(budget)
          THEN exhaustRetry(failed, fault, budget, reason, FALSE, time)
          ELSE queued
  BY DEF scheduleFailure
<1>2. /\ clocked \in ThreadState
      /\ th.RecoveryAttempts # 0 /\ th.RecoveryStartedAt # 0
         => clocked.RecoveryStartedAt = th.RecoveryStartedAt
  BY DEF startClock, ThreadState
<1> HIDE DEF clocked, blockedNow
<1>3. t \in ThreadState /\ t.RecoveryStartedAt = clocked.RecoveryStartedAt
  <2> DEFINE held == clocked.GoalHeld /\ ~blockedNow
  <2>1. t = [clocked EXCEPT !.GoalHeld = held] BY <1>2 DEF ThreadState
  <2>2. held \in BOOLEAN OBVIOUS
  <2> HIDE DEF held, t
  <2> QED BY <1>2, <2>1, <2>2 DEF ThreadState
<1> HIDE DEF t
<1>4. SameFrame(t, failed) /\ failed \in ThreadState
  <2>1. failed \in ThreadState BY <1>3 DEF ThreadState, Event
  <2>2. SameFrame(t, failed) BY <1>3 DEF ThreadState, SameFrame
  <2> QED BY <2>1, <2>2
<1>5. /\ p.budget.Attempt = attempt /\ p.ParentNotified = notified
      /\ p.fault.OriginTurnStartedAt = origin
  OBVIOUS
<1> HIDE DEF failed, p
<1>6. queued.Pending = p /\ queued.Awaiting = Nil /\ SameFrame(failed, queued)
  BY <1>4 DEF ThreadState, SameFrame
<1> HIDE DEF queued, budget, fault, tooLong, reason
<1>7. CASE /\ ~(t.GoalHeld /\ ~heldConversationAllowed(t.GoalStatus, t.GoalUpdatedAt, origin))
           /\ s = queued
  <2>1. liveRetry(queued) = p BY <1>6 DEF liveRetry
  <2>2. ~HoldsRetry(queued) BY <1>4, <1>5, <1>6, <1>7, <2>1 DEF HoldsRetry, SameFrame
  <2> QED BY <1>2, <1>3, <1>4, <1>5, <1>6, <1>7, <2>2 DEF SameFrame
<1>8. CASE ~(/\ ~(t.GoalHeld /\ ~heldConversationAllowed(t.GoalStatus, t.GoalUpdatedAt, origin))
             /\ s = queued)
  <2>1. s.Pending = Nil /\ s.Awaiting = Nil BY <1>1, <1>3, <1>4, <1>8, EndedLimited
  <2> QED BY <2>1
<1> QED BY <1>7, <1>8

\* handleTaskCompleteLocked: only the end of the retry turn counts an attempt.
LEMMA CompleteChain ==
    ASSUME NEW th, Sound(th), NEW ev \in Event, NEW time \in Nat, NEW cfg \in Config
    PROVE  ChainStep(th, handleTaskComplete(th, ev, time, cfg))
<1> DEFINE a == th.Awaiting
           after == handleTaskComplete(th, ev, time, cfg)
           free == [th EXCEPT !.CurrentTurnProgress = FALSE, !.Awaiting = Nil]
           next == scheduleFailure(free, ev, time, cfg, a.budget.Attempt + 1,
                                   IF th.CurrentTurnProgress THEN 1
                                   ELSE a.budget.ConsecutiveRetry + 1,
                                   a.fault.OriginTurnStartedAt, a.ParentNotified)
           idle == [th EXCEPT !.CurrentTurnProgress = FALSE]
           first == scheduleFailure(idle, ev, time, cfg, 1, 1, externalTurnOrigin(th, ev), FALSE)
<1> SUFFICES ChainStep(th, after) OBVIOUS
<1>1. th \in ThreadState BY DEF Sound
<1>2. \/ after = th
      \/ ~automaticGoalLimitStopped(th) /\ after = resetRetryState(th)
      \/ a # Nil /\ a.RetryTurnID # 0 /\ ev.class # "success" /\ after = next
      \/ /\ ~automaticGoalLimitStopped(th) /\ a = Nil /\ th.Pending = Nil
         /\ ev.class # "success" /\ after = first
  BY DEF handleTaskComplete
<1>3. CASE after = th BY <1>3, StutterStep
<1>4. CASE ~automaticGoalLimitStopped(th) /\ after = resetRetryState(th)
  BY <1>1, <1>4, ResetStep
<1>5. CASE a # Nil /\ a.RetryTurnID # 0 /\ ev.class # "success" /\ after = next
  <2>1. a.budget \in Budget /\ th.Pending = Nil /\ th.RecoveryAttempts # 0 /\ th.RecoveryStartedAt # 0
    BY <1>5, AwaitingFacts DEF AwaitingRetry
  <2>2. /\ free \in ThreadState /\ free.Pending = Nil /\ free.Awaiting = Nil
        /\ free.RecoveryAttempts # 0 /\ free.RecoveryStartedAt # 0
        /\ free.RecoveryStartedAt = th.RecoveryStartedAt
    <3>1. free \in ThreadState BY <1>1 DEF ThreadState
    <3>2. /\ free.Pending = Nil /\ free.Awaiting = Nil
          /\ free.RecoveryAttempts = th.RecoveryAttempts
          /\ free.RecoveryStartedAt = th.RecoveryStartedAt
      BY <1>1, <2>1 DEF ThreadState
    <3> QED BY <2>1, <3>1, <3>2
  <2> DEFINE attempt == a.budget.Attempt + 1
             consecutive == IF th.CurrentTurnProgress THEN 1 ELSE a.budget.ConsecutiveRetry + 1
             origin == a.fault.OriginTurnStartedAt
             notified == a.ParentNotified
  <2>3. attempt \in Nat /\ consecutive \in Nat BY <2>1 DEF Budget
  <2>4. after = scheduleFailure(free, ev, time, cfg, attempt, consecutive, origin, notified)
    BY <1>5
  <2> HIDE DEF free, next, attempt, consecutive, origin, notified, after
  <2>5. /\ after.Awaiting = Nil
        /\ \/ after.Pending = Nil
           \/ /\ ~HoldsRetry(after)
              /\ after.Pending.budget.Attempt = attempt
              /\ after.Pending.ParentNotified = notified
              /\ after.RecoveryStartedAt = th.RecoveryStartedAt
    BY <1>5, <2>2, <2>3, <2>4, ScheduleChain
  <2>6. CASE after.Pending = Nil BY <1>5, <2>5, <2>6, EndStep, LiveNotStopped
  <2>7. CASE after.Pending # Nil BY <1>5, <2>5, <2>7, CountStep DEF attempt, notified
  <2> QED BY <2>6, <2>7
<1>6. CASE /\ ~automaticGoalLimitStopped(th) /\ a = Nil /\ th.Pending = Nil
           /\ ev.class # "success" /\ after = first
  <2>1. idle \in ThreadState /\ idle.Pending = Nil /\ idle.Awaiting = Nil
    BY <1>1, <1>6 DEF ThreadState
  <2> DEFINE one == 1
             origin == externalTurnOrigin(th, ev)
             notified == FALSE
  <2>2. one \in Nat /\ after = scheduleFailure(idle, ev, time, cfg, one, one, origin, notified)
    BY <1>6
  <2> HIDE DEF idle, first, one, origin, notified, after
  <2>3. after.Awaiting = Nil /\ (after.Pending = Nil \/ ~HoldsRetry(after))
    BY <1>6, <2>1, <2>2, ScheduleChain
  <2> QED BY <1>6, <2>3, EndStep, BeginStep
<1> QED BY <1>2, <1>3, <1>4, <1>5, <1>6

\* handleGoalUpdatedLocked: only an active goal, or a status that its switch does
\* not name, may remove the stop of a goal limit; a goal that holds the retry
\* ends it.
LEMMA GoalUpdatedChain ==
    ASSUME NEW th, Sound(th), NEW ev \in Event
    PROVE  LET after == handleGoalUpdated(th, ev)
           IN  /\ Advances(th, after) /\ SameDispatch(th, after)
               /\ ev.status \in limitGoalStatuses \ {"active"} => KeepsStop(th, after)
<1> DEFINE t == [th EXCEPT !.GoalStatus = ev.status, !.GoalUpdatedAt = ev.updatedAt,
                           !.GoalObservedAt = ev.at]
           hold(held) == [t EXCEPT !.GoalHeld = held]
           after == handleGoalUpdated(th, ev)
           limit == goalUpdatedAfterLimit(th, t)
<1>1. /\ th \in ThreadState
      /\ t \in ThreadState /\ t.Pending = th.Pending /\ t.Awaiting = th.Awaiting
      /\ t.Stopped = th.Stopped /\ t.RecoveryStartedAt = th.RecoveryStartedAt
      /\ t.GoalStatus = ev.status
  BY DEF Sound, ThreadState, Event
<1>2. \/ after = th
      \/ \E held \in BOOLEAN :
            /\ after = hold(held)
            /\ held => goalLimitRestartPending(th) \/ heldConversationStillAllowed(t)
      \/ after = limit /\ automaticGoalLimitStopped(th)
      \/ /\ after = resetRetryState(hold(TRUE))
         /\ ~(automaticGoalLimitStopped(th) /\ ev.status \in limitGoalStatuses)
  <2> DEFINE held == goalRequiresHold(ev.status, ev.updatedAt, th.LastFailureAt)
             allowed == heldConversationStillAllowed(t)
             ended == resetRetryState(hold(TRUE))
  <2>1. held \in BOOLEAN BY DEF goalRequiresHold
  <2>2. after = IF staleGoalUpdate(th, ev) THEN th
                ELSE IF goalLimitRestartPending(th) /\ ev.status = "blocked" THEN hold(TRUE)
                ELSE IF automaticGoalLimitStopped(th) /\ ev.status \in limitGoalStatuses
                THEN limit
                ELSE IF ~held \/ allowed THEN hold(held) ELSE ended
    BY DEF handleGoalUpdated
  <2>3. TRUE \in BOOLEAN OBVIOUS
  <2> HIDE DEF held, allowed, t, after, limit, hold, ended
  <2> QED BY <2>1, <2>2, <2>3 DEF allowed, ended
<1> HIDE DEF t
<1>3. \A held \in BOOLEAN :
         LET s == hold(held)
         IN  /\ s \in ThreadState
             /\ s.Pending = th.Pending /\ s.Awaiting = th.Awaiting /\ s.Stopped = th.Stopped
             /\ s.RecoveryStartedAt = th.RecoveryStartedAt
             /\ s.GoalHeld = held /\ s.GoalStatus = t.GoalStatus
             /\ s.GoalUpdatedAt = t.GoalUpdatedAt
  BY <1>1 DEF ThreadState
<1> HIDE DEF hold, after, limit
<1> SUFFICES /\ Advances(th, after) /\ SameDispatch(th, after)
             /\ ev.status \in limitGoalStatuses \ {"active"} => KeepsStop(th, after)
  BY DEF after
<1>4. CASE after = th BY <1>4, StutterStep DEF ChainStep
<1>5. CASE \E held \in BOOLEAN :
              /\ after = hold(held)
              /\ held => goalLimitRestartPending(th) \/ heldConversationStillAllowed(t)
  <2>1. PICK held \in BOOLEAN :
              /\ after = hold(held)
              /\ held => goalLimitRestartPending(th) \/ heldConversationStillAllowed(t)
    BY <1>5
  <2>2. liveRetry(after) = liveRetry(th) BY <1>3, <2>1 DEF liveRetry
  <2>3. liveRetry(th) # Nil /\ goalLimitRestartPending(th) => liveRetry(th).GoalLimitRestart
    BY PendingFacts DEF liveRetry, goalLimitRestartPending
  <2>4. liveRetry(th) # Nil => retryOrigin(t) = liveRetry(th).fault.OriginTurnStartedAt
    BY <1>1 DEF liveRetry, retryOrigin
  <2>5. ~HoldsRetry(after)
    BY <1>3, <2>1, <2>2, <2>3, <2>4 DEF HoldsRetry, heldConversationStillAllowed
  <2>6. Continues(th, after) BY <1>3, <2>1, <2>2 DEF Continues
  <2>7. SameDispatch(th, after) BY <1>3, <2>1 DEF SameDispatch, Unacked, SameRetry
  <2>8. KeepsStop(th, after) BY <1>3, <2>1 DEF KeepsStop, automaticGoalLimitStopped
  <2> QED BY <2>5, <2>6, <2>7, <2>8 DEF Advances
<1>6. CASE after = limit /\ automaticGoalLimitStopped(th)
  <2>1. th.Stopped # Nil /\ th.Pending = Nil /\ th.Awaiting = Nil
    BY <1>6, PendingFacts, AwaitingFacts DEF automaticGoalLimitStopped
  <2>2. /\ limit.Pending = Nil /\ limit.Awaiting = Nil
        /\ ev.status # "active" =>
              limit.Stopped = [th.Stopped EXCEPT !.Reason = "goal_empty_response_limit"]
    BY <1>1, <2>1 DEF goalUpdatedAfterLimit, ThreadState, limit
  <2>3. [th.Stopped EXCEPT !.Reason = "goal_empty_response_limit"] \in StoppedRetry
    BY <1>1, <2>1 DEF ThreadState, StoppedRetry, StopReasons
  <2>4. ev.status # "active" => limit.Stopped # Nil BY <2>2, <2>3, NilAssumption
  <2>5. liveRetry(limit) = Nil /\ ~Unacked(limit) BY <2>2 DEF liveRetry, Unacked
  <2> QED BY <1>6, <2>4, <2>5 DEF Advances, Continues, HoldsRetry, SameDispatch, KeepsStop
<1>7. CASE /\ after = resetRetryState(hold(TRUE))
           /\ ~(automaticGoalLimitStopped(th) /\ ev.status \in limitGoalStatuses)
  <2>1. hold(TRUE) \in ThreadState BY <1>3, Zenon
  <2>2. after.Pending = Nil /\ after.Awaiting = Nil BY <1>7, <2>1, EndedLimited
  <2>3. liveRetry(after) = Nil /\ ~Unacked(after) BY <2>2 DEF liveRetry, Unacked
  <2> QED BY <1>7, <2>3 DEF Advances, Continues, HoldsRetry, SameDispatch, KeepsStop
<1> QED BY <1>2, <1>4, <1>5, <1>6, <1>7

\* Every record of a rollout file.
LEMMA EventChain ==
    ASSUME NEW th, Sound(th), NEW ev \in Event, NEW time \in Nat, NEW cfg \in Config
    PROVE  LET after == handleEvent(th, ev, time, cfg)
           IN  /\ Advances(th, after) /\ SameDispatch(th, after)
               /\ (ev.kind = "thread_goal_updated" => ev.status \in limitGoalStatuses \ {"active"})
                  => KeepsStop(th, after)
<1>1. /\ ChainStep(th, handleTaskStarted(th, ev)) /\ ChainStep(th, handleTaskUserInput(th, ev))
      /\ ChainStep(th, handleTaskProgress(th, ev))
      /\ ChainStep(th, handleTaskComplete(th, ev, time, cfg))
      /\ ChainStep(th, handleTurnAborted(th, ev))
      /\ ChainStep(th, handleSubagentRecoveryNotice(th, ev))
  BY StartedChain, UserInputChain, ProgressChain, CompleteChain, AbortedChain, NoticeChain
<1>2. LET after == handleGoalUpdated(th, ev)
      IN  /\ Advances(th, after) /\ SameDispatch(th, after)
          /\ ev.status \in limitGoalStatuses \ {"active"} => KeepsStop(th, after)
  BY GoalUpdatedChain
<1> QED BY <1>1, <1>2 DEF handleEvent, ChainStep, Event, EventKinds

----------------------------------------------------------------------------
(* Settings, panel commands and reopened chains.                           *)

LEMMA ReloadChain ==
    ASSUME NEW th, Sound(th), NEW cfg \in Config, NEW time \in Nat
    PROVE  ChainStep(th, reloadLimits(th, cfg, time))
<1> DEFINE relimit(retry) ==
             IF retry = Nil THEN Nil
             ELSE [retry EXCEPT !.budget = withLimits(retry.budget, retry.fault.Class, cfg)]
           a == relimit(th.Awaiting)
           p == relimit(th.Pending)
           t == [th EXCEPT !.Awaiting = a, !.Pending = p]
           stopped == exhaustRetry(t, t.Pending.fault, t.Pending.budget,
                                   budgetStopReason(t.Pending.fault, t.Pending.budget, cfg),
                                   FALSE, time)
           after == reloadLimits(th, cfg, time)
<1> SUFFICES ChainStep(th, after) OBVIOUS
<1>1. after = IF t.Pending # Nil /\ overBudget(t.Pending.budget) THEN stopped ELSE t
  BY DEF reloadLimits
<1>2. th \in ThreadState BY DEF Sound
<1>3. (th.Awaiting = Nil => a = Nil) /\ (th.Pending = Nil => p = Nil) OBVIOUS
<1>4. th.Pending # Nil => SameRetry(th.Pending, p)
  <2> SUFFICES ASSUME th.Pending # Nil PROVE SameRetry(th.Pending, p) OBVIOUS
  <2> DEFINE b == withLimits(th.Pending.budget, th.Pending.fault.Class, cfg)
  <2>1. th.Pending \in PendingRetry BY PendingFacts
  <2>2. b.Attempt = th.Pending.budget.Attempt
    BY <2>1, WithLimitsType DEF PendingRetry, Fault
  <2>3. p = [th.Pending EXCEPT !.budget = b] OBVIOUS
  <2> HIDE DEF b, p
  <2> QED BY <2>1, <2>2, <2>3 DEF PendingRetry, SameRetry
<1>5. th.Awaiting # Nil => SameRetry(th.Awaiting, a) /\ a.RetryTurnID = th.Awaiting.RetryTurnID
  <2> SUFFICES ASSUME th.Awaiting # Nil
               PROVE  SameRetry(th.Awaiting, a) /\ a.RetryTurnID = th.Awaiting.RetryTurnID
    OBVIOUS
  <2> DEFINE b == withLimits(th.Awaiting.budget, th.Awaiting.fault.Class, cfg)
  <2>1. th.Awaiting \in AwaitingRetry BY AwaitingFacts
  <2>2. b.Attempt = th.Awaiting.budget.Attempt
    BY <2>1, WithLimitsType DEF AwaitingRetry, Fault
  <2>3. a = [th.Awaiting EXCEPT !.budget = b] OBVIOUS
  <2> HIDE DEF b, a
  <2> QED BY <2>1, <2>2, <2>3 DEF AwaitingRetry, SameRetry
<1> HIDE DEF a, p
<1>6. t.Pending = p /\ t.Awaiting = a /\ t.Stopped = th.Stopped /\ SameFrame(th, t)
  BY <1>2 DEF ThreadState, SameFrame
<1>7. stopped.Pending = Nil /\ stopped.Awaiting = Nil
  BY <1>2 DEF exhaustRetry, stopRetry, ThreadState
<1> HIDE DEF t, stopped, after
<1>8. SameDispatch(th, t) BY <1>3, <1>5, <1>6 DEF SameDispatch, Unacked
<1>9. CASE th.Pending # Nil
  <2>1. th.Awaiting = Nil BY <1>9, PendingFacts
  <2>2. liveRetry(th) = th.Pending /\ liveRetry(t) = p
    BY <1>3, <1>6, <1>9, <2>1 DEF liveRetry
  <2>3. ChainStep(th, t) BY <1>4, <1>6, <1>8, <1>9, <2>2, MoveStep
  <2>4. ChainStep(th, stopped) BY <1>7, <1>9, EndStep, LiveNotStopped
  <2> QED BY <1>1, <2>3, <2>4
<1>10. CASE th.Pending = Nil /\ th.Awaiting # Nil
  <2>1. after = t /\ liveRetry(th) = th.Awaiting /\ liveRetry(t) = a
    BY <1>1, <1>3, <1>6, <1>10 DEF liveRetry
  <2> QED BY <1>5, <1>6, <1>8, <1>10, <2>1, MoveStep
<1>11. CASE th.Pending = Nil /\ th.Awaiting = Nil
  <2>1. p = Nil /\ a = Nil /\ after = t BY <1>1, <1>3, <1>6, <1>11
  <2> QED BY <1>6, <1>11, <2>1, FrameStep
<1> QED BY <1>9, <1>10, <1>11

\* Only a stop for want of a transport is reopened, and no held goal is.
LEMMA ReopenChain ==
    ASSUME NEW th, Sound(th), NEW time, NEW cfg
    PROVE  ChainStep(th, reopenRestartRequired(th, time, cfg))
<1> DEFINE after == reopenRestartRequired(th, time, cfg)
<1> SUFFICES ChainStep(th, after) OBVIOUS
<1>1. CASE after = th BY <1>1, StutterStep
<1>2. CASE after # th
  <2>1. canReopenTransportRetry(th, time) BY <1>2 DEF reopenRestartRequired
  <2>2. /\ th.Pending = Nil /\ th.Awaiting = Nil /\ ~th.GoalHeld
        /\ th.Stopped.Reason \in {"codex_restart_required", "shared_app_server_disabled"}
    BY <2>1, Zenon DEF canReopenTransportRetry
  <2>3. ~automaticGoalLimitStopped(th)
    BY <2>2 DEF automaticGoalLimitStopped, isGoalEmptyResponseStopReason
  <2>4. after.Awaiting = th.Awaiting /\ after.GoalHeld = th.GoalHeld
    BY DEF reopenRestartRequired, Sound, ThreadState
  <2> HIDE DEF after
  <2> QED BY <2>2, <2>3, <2>4, BeginStep DEF HoldsRetry
<1> QED BY <1>1, <1>2

\* A panel command other than restart_retry leaves a stop alone.
LEMMA CommandChain ==
    ASSUME NEW th, Sound(th), NEW action, NEW time, NEW cfg
    PROVE  LET after == applyControlCommand(th, action, time, cfg)
           IN  /\ Advances(th, after) /\ SameDispatch(th, after)
               /\ action # "restart_retry" => KeepsStop(th, after)
<1>1. th \in ThreadState BY DEF Sound
<1>2. ChainStep(th, th) BY StutterStep
<1>3. ChainStep(th, commandRetryNow(th, time))
  <2>1. CASE th.Pending = Nil BY <1>2, <2>1 DEF commandRetryNow
  <2>2. CASE th.Pending # Nil
    <3> DEFINE p == [th.Pending EXCEPT !.DueAt = time]
               after == commandRetryNow(th, time)
    <3>1. SameRetry(th.Pending, p) BY <2>2, PendingFacts DEF PendingRetry, SameRetry
    <3>2. after = [th EXCEPT !.Pending = p] BY <1>1, <2>2 DEF commandRetryNow, ThreadState
    <3> HIDE DEF p, after
    <3>3. after.Pending = p /\ after.Awaiting = Nil /\ SameFrame(th, after)
      BY <1>1, <2>2, <3>2, PendingFacts DEF ThreadState, SameFrame
    <3>4. liveRetry(th) = th.Pending /\ liveRetry(after) = p /\ SameDispatch(th, after)
      BY <2>2, <3>3 DEF liveRetry, SameDispatch, Unacked
    <3>5. ChainStep(th, after) BY <2>2, <3>1, <3>3, <3>4, MoveStep
    <3> QED BY <3>5 DEF after
  <2> QED BY <2>1, <2>2
<1>4. ChainStep(th, commandCancelRetry(th))
  <2>1. CASE th.Pending = Nil BY <1>2, <2>1 DEF commandCancelRetry
  <2>2. CASE th.Pending # Nil
    <3>1. commandCancelRetry(th).Pending = Nil /\ commandCancelRetry(th).Awaiting = Nil
      BY <1>1, <2>2, PendingFacts DEF commandCancelRetry, ThreadState
    <3> QED BY <2>2, <3>1, EndStep, LiveNotStopped
  <2> QED BY <2>1, <2>2
<1>5. LET after == commandRestartRetry(th, time, cfg)
      IN  Advances(th, after) /\ SameDispatch(th, after)
  <2> DEFINE after == commandRestartRetry(th, time, cfg)
  <2> SUFFICES Advances(th, after) /\ SameDispatch(th, after) OBVIOUS
  <2>1. CASE th.Stopped = Nil BY <1>2, <2>1 DEF commandRestartRetry, ChainStep
  <2>2. CASE th.Stopped # Nil
    <3>1. th.Pending = Nil /\ th.Awaiting = Nil BY <2>2, PendingFacts, AwaitingFacts
    <3>2. after.Awaiting = Nil /\ after.GoalHeld = FALSE
      BY <1>1, <2>2, <3>1 DEF commandRestartRetry, ThreadState
    <3> HIDE DEF after
    <3> QED BY <3>1, <3>2 DEF Advances, Continues, liveRetry, HoldsRetry, SameDispatch, Unacked
  <2> QED BY <2>1, <2>2
<1> QED BY <1>2, <1>3, <1>4, <1>5 DEF applyControlCommand, ChainStep

----------------------------------------------------------------------------
(* A dispatched retry: deadlines, probes, results, restarts.               *)

\* The dispatched retry goes back to the queue.
LEMMA RequeueFacts ==
    ASSUME NEW th \in ThreadState, NEW budget, NEW due, NEW tries
    PROVE  LET s == requeue(th, budget, due, tries)
           IN  /\ liveRetry(s) = s.Pending
               /\ s.Pending.fault = th.Awaiting.fault
               /\ s.Pending.budget = budget
               /\ s.Pending.GoalLimitRestart = th.Awaiting.GoalLimitRestart
               /\ s.Pending.ParentNotified = th.Awaiting.ParentNotified
               /\ s.Awaiting = Nil /\ SameFrame(th, s) /\ DOMAIN s = DOMAIN th
<1> DEFINE p == queuedRetry(th.Awaiting, budget, due, tries, th.Awaiting.ParentNotified)
           s == requeue(th, budget, due, tries)
<1>1. /\ p.budget = budget /\ p.ParentNotified = th.Awaiting.ParentNotified
      /\ p.fault = th.Awaiting.fault /\ p.GoalLimitRestart = th.Awaiting.GoalLimitRestart
  BY DEF queuedRetry
<1>2. s = [th EXCEPT !.Awaiting = Nil, !.Pending = p] BY DEF requeue
<1> HIDE DEF p, s
<1>3. s.Pending = p /\ s.Awaiting = Nil /\ SameFrame(th, s) /\ DOMAIN s = DOMAIN th
  BY <1>2 DEF ThreadState, SameFrame
<1>4. liveRetry(s) = s.Pending BY <1>3 DEF liveRetry
<1> QED BY <1>1, <1>3, <1>4 DEF s

\* The dispatched retry is marked, and stays dispatched.
LEMMA MarkStep ==
    ASSUME NEW th, Sound(th), th.Awaiting # Nil, NEW a, SameRetry(th.Awaiting, a),
           a.RetryTurnID = th.Awaiting.RetryTurnID
    PROVE  ChainStep(th, [th EXCEPT !.Awaiting = a])
<1> DEFINE s == [th EXCEPT !.Awaiting = a]
<1>1. s.Pending = Nil /\ s.Awaiting = a /\ SameFrame(th, s)
  BY AwaitingFacts DEF Sound, ThreadState, SameFrame
<1>2. liveRetry(th) = th.Awaiting BY AwaitingFacts DEF liveRetry
<1> HIDE DEF s
<1>3. liveRetry(s) = a BY <1>1 DEF liveRetry
<1>4. SameDispatch(th, s) BY <1>1 DEF SameDispatch, Unacked
<1>5. ChainStep(th, s) BY <1>1, <1>2, <1>3, <1>4, MoveStep
<1> QED BY <1>5 DEF s

LEMMA RescheduleChain ==
    ASSUME NEW th, Sound(th), th.Awaiting # Nil,
           NEW told, told \in ThreadState, SameRetry(th.Awaiting, told.Awaiting),
           SameFrame(th, told), NEW time, NEW reason, NEW counted, NEW cfg
    PROVE  LET after == rescheduleAwaitingWithPolicy(told, time, reason, counted, cfg)
           IN  ChainStep(th, after) /\ after.Awaiting = Nil
<1> DEFINE tries == told.Awaiting.DispatchFailures + (IF counted THEN 1 ELSE 0)
           due == time + retryDelay(IF tries = 0 THEN 1 ELSE tries, cfg)
           back == requeue(told, told.Awaiting.budget, due, tries)
           stop == stopAwaitingForController(told, reason)
<1>1. rescheduleAwaitingWithPolicy(told, time, reason, counted, cfg) \in {stop, back}
  BY DEF rescheduleAwaitingWithPolicy
<1>2. stop.Pending = Nil /\ stop.Awaiting = Nil
  BY DEF stopAwaitingForController, stopRetry, ThreadState
<1>3. ChainStep(th, stop) BY <1>2, EndStep, LiveNotStopped
<1> HIDE DEF tries, due, stop
<1>4. /\ liveRetry(back) = back.Pending
      /\ back.Pending.fault = told.Awaiting.fault
      /\ back.Pending.budget = told.Awaiting.budget
      /\ back.Pending.GoalLimitRestart = told.Awaiting.GoalLimitRestart
      /\ back.Pending.ParentNotified = told.Awaiting.ParentNotified
      /\ back.Awaiting = Nil /\ SameFrame(told, back)
  BY RequeueFacts
<1> HIDE DEF back
<1>5. liveRetry(th) = th.Awaiting BY AwaitingFacts DEF liveRetry
<1>6. SameRetry(th.Awaiting, back.Pending) BY <1>4 DEF SameRetry
<1>7. SameFrame(th, back) BY <1>4 DEF SameFrame
<1>8. SameDispatch(th, back) BY <1>4 DEF SameDispatch, Unacked
<1>9. ChainStep(th, back) BY <1>4, <1>5, <1>6, <1>7, <1>8, MoveStep
<1> QED BY <1>1, <1>2, <1>3, <1>4, <1>9

\* expireUnacknowledgedLocked: an expired start counts no attempt, and no
\* dispatch is left past its deadline.
LEMMA ExpireChain ==
    ASSUME NEW th, Sound(th), NEW time \in Nat, NEW cfg
    PROVE  LET after == expireUnacknowledged(th, time, cfg)
           IN  /\ ChainStep(th, after)
               /\ Unacked(after) => after.Awaiting.StartDeadline > time
<1> DEFINE after == expireUnacknowledged(th, time, cfg)
<1> SUFFICES /\ ChainStep(th, after)
             /\ Unacked(after) => after.Awaiting.StartDeadline > time
  OBVIOUS
<1>1. CASE startOverdue(th, time)
  <2> DEFINE reason == "start_not_acknowledged"
             counted == TRUE
  <2>1. th.Awaiting # Nil /\ th \in ThreadState BY <1>1 DEF startOverdue, Sound
  <2>2. after = rescheduleAwaitingWithPolicy(th, time, reason, counted, cfg)
    BY <1>1 DEF expireUnacknowledged
  <2>3. SameRetry(th.Awaiting, th.Awaiting) /\ SameFrame(th, th) BY DEF SameRetry, SameFrame
  <2> HIDE DEF reason, counted, after
  <2> QED BY <2>1, <2>2, <2>3, RescheduleChain DEF Unacked
<1>2. CASE ~startOverdue(th, time)
  <2>1. after = th BY <1>2 DEF expireUnacknowledged
  <2>2. Unacked(th) => th.Awaiting.StartDeadline > time
    <3>1. th.Awaiting # Nil => th.Awaiting.StartDeadline \in Nat
      BY AwaitingFacts DEF AwaitingRetry
    <3> QED BY <1>2, <3>1 DEF startOverdue, Unacked
  <2> QED BY <2>1, <2>2, StutterStep
<1> QED BY <1>1, <1>2

\* The lifecycle probe of an acknowledged turn; the turn found idle has run.
LEMMA ProbeChain ==
    ASSUME NEW th, Sound(th), th.Awaiting # Nil, th.Awaiting.RetryTurnID # 0,
           NEW time \in Nat, NEW cfg \in Config, NEW reason
    PROVE  /\ ChainStep(th, probeFailed(th, reason, cfg))
           /\ ChainStep(th, probeFoundActive(th))
           /\ ChainStep(th, probeFoundIdle(th, time, cfg))
<1>1. th \in ThreadState /\ th.Pending = Nil /\ th.Awaiting \in AwaitingRetry
  BY AwaitingFacts DEF Sound
<1>2. ChainStep(th, probeFailed(th, reason, cfg))
  <2> DEFINE stop == stopAwaitingForController(th, reason)
             n == th.Awaiting.DispatchFailures + 1
             a == [th.Awaiting EXCEPT !.DispatchFailures = n]
  <2>1. probeFailed(th, reason, cfg) \in {stop, [th EXCEPT !.Awaiting = a]}
    BY <1>1 DEF probeFailed, ThreadState
  <2>2. stop.Pending = Nil /\ stop.Awaiting = Nil
    BY <1>1 DEF stopAwaitingForController, stopRetry, ThreadState
  <2> HIDE DEF stop, n
  <2>3. SameRetry(th.Awaiting, a) /\ a.RetryTurnID = th.Awaiting.RetryTurnID
    BY <1>1 DEF AwaitingRetry, SameRetry
  <2> HIDE DEF a
  <2>4. ChainStep(th, stop) BY <2>2, EndStep, LiveNotStopped
  <2>5. ChainStep(th, [th EXCEPT !.Awaiting = a]) BY <2>3, MarkStep
  <2> QED BY <2>1, <2>4, <2>5
<1>3. ChainStep(th, probeFoundActive(th))
  <2> DEFINE a == [th.Awaiting EXCEPT !.DispatchFailures = 0, !.LifecycleChecks = 0]
  <2>1. SameRetry(th.Awaiting, a) /\ a.RetryTurnID = th.Awaiting.RetryTurnID
    BY <1>1 DEF AwaitingRetry, SameRetry
  <2>2. probeFoundActive(th) = [th EXCEPT !.Awaiting = a]
    BY <1>1 DEF probeFoundActive, ThreadState
  <2> HIDE DEF a
  <2>3. ChainStep(th, [th EXCEPT !.Awaiting = a]) BY <2>1, MarkStep
  <2> QED BY <2>2, <2>3
<1>4. ChainStep(th, probeFoundIdle(th, time, cfg))
  <2> DEFINE a == foundIdleOnce(th.Awaiting)
             t == [th EXCEPT !.Awaiting = a]
  <2>1. SameRetry(th.Awaiting, a) /\ a.RetryTurnID = th.Awaiting.RetryTurnID
        /\ a.ParentNotified = th.Awaiting.ParentNotified
    BY <1>1 DEF foundIdleOnce, AwaitingRetry, SameRetry
  <2>2. probeFoundIdle(th, time, cfg) \in {t, advanceInactiveAwaiting(t, time, cfg)}
    BY <1>1 DEF probeFoundIdle, ThreadState
  <2>3. a \in AwaitingRetry
    <3> DEFINE n == th.Awaiting.LifecycleChecks + 1
    <3>1. n \in Nat BY <1>1 DEF AwaitingRetry
    <3>2. a = [th.Awaiting EXCEPT !.DispatchFailures = 0, !.LifecycleChecks = n]
      BY <1>1 DEF foundIdleOnce, AwaitingRetry
    <3> HIDE DEF n, a
    <3> QED BY <1>1, <3>1, <3>2 DEF AwaitingRetry
  <2> HIDE DEF a
  <2>4. t \in ThreadState /\ t.Awaiting = a /\ SameFrame(th, t)
    <3>1. t \in ThreadState BY <1>1, <2>3 DEF ThreadState
    <3>2. t.Awaiting = a /\ SameFrame(th, t) BY <1>1 DEF ThreadState, SameFrame
    <3> QED BY <3>1, <3>2
  <2>5. ChainStep(th, t) BY <2>1, MarkStep
  <2> HIDE DEF t
  <2> DEFINE once == IF t.CurrentTurnProgress THEN 1 ELSE a.budget.ConsecutiveRetry + 1
             next == [a.budget EXCEPT !.Attempt = @ + 1, !.ConsecutiveRetry = once]
             u == [t EXCEPT !.CurrentTurnProgress = FALSE]
             stopped(historical) == exhaustRetry(u, a.fault, next, budgetStopReason(a.fault, next, cfg),
                                                 historical, time)
             back == requeue(u, next, time + retryDelay(next.ConsecutiveRetry, cfg), a.DispatchFailures)
             queued == [back EXCEPT !.RecoveryAttempts = next.Attempt,
                                    !.ConsecutiveRetries = next.ConsecutiveRetry,
                                    !.Stopped = Nil, !.GoalStop = Nil]
  <2>6. \/ \E historical : advanceInactiveAwaiting(t, time, cfg) = stopped(historical)
        \/ advanceInactiveAwaiting(t, time, cfg) = queued
    BY <2>3, <2>4 DEF advanceInactiveAwaiting, AwaitingRetry, Budget
  <2>7. u \in ThreadState /\ u.Awaiting = a /\ SameFrame(t, u)
    <3>1. u \in ThreadState BY <2>4 DEF ThreadState
    <3>2. u.Awaiting = a /\ SameFrame(t, u) BY <2>4 DEF ThreadState, SameFrame
    <3> QED BY <3>1, <3>2
  <2>8. next.Attempt = th.Awaiting.budget.Attempt + 1
    BY <2>1, <2>3 DEF AwaitingRetry, Budget, SameRetry
  <2> HIDE DEF u, next
  <2>9. \A historical : stopped(historical).Pending = Nil /\ stopped(historical).Awaiting = Nil
    BY <2>7, EndedLimited
  <2>10. /\ back.Pending.fault = a.fault /\ back.Pending.budget = next
         /\ back.Pending.GoalLimitRestart = a.GoalLimitRestart
         /\ back.Pending.ParentNotified = a.ParentNotified
         /\ back.Awaiting = Nil /\ SameFrame(u, back) /\ DOMAIN back = DOMAIN u
    BY <2>7, RequeueFacts
  <2> HIDE DEF back
  <2>11. /\ queued.Pending = back.Pending /\ queued.Awaiting = Nil
         /\ SameFrame(back, queued)
    BY <2>7, <2>10 DEF ThreadState, SameFrame
  <2> HIDE DEF stopped, queued
  <2>12. \A historical : ChainStep(th, stopped(historical)) BY <2>9, EndStep, LiveNotStopped
  <2>13. SameFrame(th, queued) BY <2>4, <2>7, <2>10, <2>11 DEF SameFrame
  <2>14. liveRetry(queued) = back.Pending /\ liveRetry(th) = th.Awaiting
    BY <1>1, <2>11 DEF liveRetry
  <2>15. HoldsRetry(queued) => HoldsRetry(th)
    BY <2>1, <2>10, <2>13, <2>14 DEF HoldsRetry, SameFrame, SameRetry
  <2>16. ChainStep(th, queued)
    BY <2>1, <2>8, <2>10, <2>11, <2>13, <2>15, CountStep DEF SameFrame
  <2> QED BY <2>2, <2>5, <2>6, <2>12, <2>16
<1> QED BY <1>2, <1>3, <1>4

\* dispatchDueLocked for one thread: held, out of time, dispatched or left alone.
LEMMA DispatchChain ==
    ASSUME NEW th, Sound(th), NEW time, NEW cfg, NEW reason
    PROVE  /\ ChainStep(th, clearHeldRetry(th))
           /\ th.Pending # Nil => ChainStep(th, stopPendingForController(th, reason))
           /\ th.Pending # Nil =>
                 LET after == startDispatch(th, time, cfg)
                 IN  /\ Advances(th, after) /\ KeepsStop(th, after)
                     /\ SameRetry(th.Pending, after.Awaiting)
<1>1. th \in ThreadState BY DEF Sound
<1>2. ChainStep(th, clearHeldRetry(th))
  <2>1. CASE th.Pending # Nil \/ th.Awaiting # Nil
    <3>1. clearHeldRetry(th).Pending = Nil /\ clearHeldRetry(th).Awaiting = Nil
      BY <1>1, <2>1 DEF clearHeldRetry, dropHeldRetry, ThreadState
    <3> QED BY <2>1, <3>1, EndStep, LiveNotStopped
  <2>2. CASE ~(th.Pending # Nil \/ th.Awaiting # Nil)
    BY <2>2, StutterStep DEF clearHeldRetry
  <2> QED BY <2>1, <2>2
<1>3. ASSUME th.Pending # Nil PROVE ChainStep(th, stopPendingForController(th, reason))
  <2>1. /\ stopPendingForController(th, reason).Pending = Nil
        /\ stopPendingForController(th, reason).Awaiting = Nil
    BY <1>1 DEF stopPendingForController, stopRetry, ThreadState
  <2> QED BY <1>3, <2>1, EndStep, LiveNotStopped
<1>4. ASSUME th.Pending # Nil
      PROVE  LET after == startDispatch(th, time, cfg)
             IN  /\ Advances(th, after) /\ KeepsStop(th, after)
                 /\ SameRetry(th.Pending, after.Awaiting)
  <2> DEFINE after == startDispatch(th, time, cfg)
  <2> SUFFICES /\ Advances(th, after) /\ KeepsStop(th, after)
               /\ SameRetry(th.Pending, after.Awaiting)
    OBVIOUS
  <2>1. after.Pending = Nil /\ SameFrame(th, after)
    BY <1>1 DEF startDispatch, ThreadState, SameFrame
  <2>2. SameRetry(th.Pending, after.Awaiting)
    <3>1. /\ after.Awaiting.fault = th.Pending.fault
          /\ after.Awaiting.budget = th.Pending.budget
          /\ after.Awaiting.GoalLimitRestart = th.Pending.GoalLimitRestart
          /\ after.Awaiting.ParentNotified = th.Pending.ParentNotified
      BY <1>1 DEF startDispatch, ThreadState
    <3> QED BY <3>1 DEF SameRetry
  <2> HIDE DEF after
  <2>3. liveRetry(th) = th.Pending /\ liveRetry(after) = after.Awaiting
    BY <1>4, <2>1 DEF liveRetry
  <2>4. Advances(th, after)
    BY <1>4, <2>1, <2>2, <2>3 DEF Advances, Continues, SameFrame, SameRetry, HoldsRetry
  <2>5. KeepsStop(th, after) BY <1>4, LiveNotStopped DEF KeepsStop
  <2> QED BY <2>2, <2>4, <2>5
<1> QED BY <1>2, <1>3, <1>4

\* An accepted dispatch gets a new deadline.
Renewed(th, time, cfg) == th.Awaiting.StartDeadline = time + cfg.StartAckTimeout

\* runJob: whatever the result, no attempt is counted and the notice is kept; an
\* accepted dispatch gets a new deadline, and after any other result none waits.
LEMMA ResultChain ==
    ASSUME NEW th, Sound(th), th.Awaiting # Nil, NEW notified,
           NEW time, NEW reason, NEW cfg, NEW skip, NEW action
    PROVE  LET told == notifyParent(th, notified)
               failed == rescheduleAwaitingWithPolicy(told, time, reason, TRUE, cfg)
               busy == dispatchUserActive(told, reason, time, cfg)
               accepted == dispatchAccepted(told, action, time, cfg)
               skipped == dispatchNotApplicable(th, skip)
           IN  /\ ChainStep(th, failed) /\ ~Unacked(failed)
               /\ ChainStep(th, busy) /\ ~Unacked(busy)
               /\ ChainStep(th, accepted) /\ Renewed(accepted, time, cfg)
               /\ ChainStep(th, skipped) /\ ~Unacked(skipped)
<1> DEFINE told == notifyParent(th, notified)
           heard == [th.Awaiting EXCEPT !.ParentNotified = TRUE]
           b == told.Awaiting
<1>1. th \in ThreadState /\ th.Awaiting \in AwaitingRetry /\ th.Pending = Nil
  BY AwaitingFacts DEF Sound
<1>2. told = th \/ told = [th EXCEPT !.Awaiting = heard]
  BY <1>1 DEF notifyParent, ThreadState
<1>3. /\ heard \in AwaitingRetry /\ SameRetry(th.Awaiting, heard)
      /\ heard.RetryTurnID = th.Awaiting.RetryTurnID
  BY <1>1 DEF AwaitingRetry, SameRetry
<1> HIDE DEF heard, told
<1>4. /\ told \in ThreadState /\ b \in AwaitingRetry /\ told.Pending = Nil
      /\ SameFrame(th, told) /\ SameRetry(th.Awaiting, b)
      /\ b.RetryTurnID = th.Awaiting.RetryTurnID
  <2>1. CASE told = th BY <1>1, <2>1 DEF SameFrame, SameRetry
  <2>2. CASE told = [th EXCEPT !.Awaiting = heard]
    <3>1. told \in ThreadState /\ b = heard /\ told.Pending = Nil
      BY <1>1, <1>3, <2>2 DEF ThreadState
    <3>2. SameFrame(th, told) BY <1>1, <2>2 DEF ThreadState, SameFrame
    <3> QED BY <1>3, <3>1, <3>2
  <2> QED BY <1>2, <2>1, <2>2
<1>5. LET after == rescheduleAwaitingWithPolicy(told, time, reason, TRUE, cfg)
      IN  ChainStep(th, after) /\ after.Awaiting = Nil
  <2> DEFINE counted == TRUE
             after == rescheduleAwaitingWithPolicy(told, time, reason, counted, cfg)
  <2> HIDE DEF counted
  <2>1. ChainStep(th, after) /\ after.Awaiting = Nil BY <1>4, RescheduleChain
  <2> QED BY <2>1 DEF counted
<1>6. LET after == dispatchUserActive(told, reason, time, cfg)
      IN  ChainStep(th, after) /\ after.Awaiting = Nil
  <2> DEFINE a == [b EXCEPT !.DispatchFailures = 0]
             s == [told EXCEPT !.Awaiting = a]
             counted == FALSE
  <2>1. /\ a \in AwaitingRetry /\ a.fault = b.fault /\ a.budget = b.budget
        /\ a.GoalLimitRestart = b.GoalLimitRestart /\ a.ParentNotified = b.ParentNotified
    BY <1>4 DEF AwaitingRetry
  <2>2. dispatchUserActive(told, reason, time, cfg)
          = rescheduleAwaitingWithPolicy(s, time, reason, counted, cfg)
    BY <1>4 DEF dispatchUserActive, ThreadState
  <2> HIDE DEF a, counted
  <2>3. s \in ThreadState /\ s.Awaiting = a /\ SameFrame(told, s)
    <3>1. s \in ThreadState BY <1>4, <2>1 DEF ThreadState
    <3>2. s.Awaiting = a /\ SameFrame(told, s) BY <1>4 DEF ThreadState, SameFrame
    <3> QED BY <3>1, <3>2
  <2> HIDE DEF s, b
  <2>4. SameRetry(th.Awaiting, s.Awaiting) /\ SameFrame(th, s)
    BY <1>4, <2>1, <2>3 DEF SameRetry, SameFrame
  <2> QED BY <2>2, <2>3, <2>4, RescheduleChain
<1>7. LET after == dispatchAccepted(told, action, time, cfg)
      IN  ChainStep(th, after) /\ Renewed(after, time, cfg)
  <2> DEFINE late == time + cfg.StartAckTimeout
             a == [b EXCEPT !.Action = action, !.DispatchFailures = 0, !.StartDeadline = late]
             s == [told EXCEPT !.Awaiting = a]
  <2>1. /\ a.fault = b.fault /\ a.budget = b.budget /\ a.GoalLimitRestart = b.GoalLimitRestart
        /\ a.ParentNotified = b.ParentNotified /\ a.RetryTurnID = b.RetryTurnID
        /\ a.StartDeadline = late
    BY <1>4 DEF AwaitingRetry
  <2>2. dispatchAccepted(told, action, time, cfg) = s
    BY <1>4 DEF dispatchAccepted, ThreadState
  <2> HIDE DEF a, late
  <2>3. s.Pending = Nil /\ s.Awaiting = a /\ SameFrame(told, s)
    BY <1>4 DEF ThreadState, SameFrame
  <2> HIDE DEF s, b
  <2>4. liveRetry(th) = th.Awaiting /\ liveRetry(s) = a BY <1>1, <2>3 DEF liveRetry
  <2>5. SameRetry(th.Awaiting, a) /\ SameFrame(th, s)
    BY <1>4, <2>1, <2>3 DEF SameRetry, SameFrame
  <2>6. SameDispatch(th, s) BY <1>4, <2>1, <2>3, <2>5 DEF SameDispatch, Unacked
  <2>7. ChainStep(th, s) BY <2>4, <2>5, <2>6, MoveStep
  <2> QED BY <2>1, <2>2, <2>3, <2>7 DEF late, Renewed
<1>8. LET after == dispatchNotApplicable(th, skip)
      IN  ChainStep(th, after) /\ after.Awaiting = Nil
  <2>1. /\ dispatchNotApplicable(th, skip).Pending = Nil
        /\ dispatchNotApplicable(th, skip).Awaiting = Nil
    BY <1>1 DEF dispatchNotApplicable, resetRetryState, ThreadState
  <2> QED BY <2>1, EndStep, LiveNotStopped
<1>9. \A s : s.Awaiting = Nil => ~Unacked(s) BY DEF Unacked
<1> QED BY <1>5, <1>6, <1>7, <1>8, <1>9 DEF told

\* runGoalBlockJob: the stop stays, with the reason that the result gives it.
LEMMA GoalBlockChain ==
    ASSUME NEW th, Sound(th), th.GoalStop # Nil, NEW time, NEW cfg,
           NEW reason \in ControllerReasons, NEW status
    PROVE  LET failed == rescheduleGoalBlock(th, time, reason, cfg)
               done == goalBlocked(th, status, time)
           IN  /\ ChainStep(th, failed) /\ failed.Awaiting = Nil
               /\ ChainStep(th, done) /\ done.Awaiting = Nil
<1>1. /\ th \in ThreadState /\ th.Pending = Nil /\ th.Awaiting = Nil
      /\ th.Stopped # Nil /\ th.Stopped \in StoppedRetry
  BY DEF Sound, onePhase, goalStopBacked, automaticGoalLimitStopped, ThreadState
<1> DEFINE named(r) == [th.Stopped EXCEPT !.Reason = r]
<1>2. \A r \in StopReasons : named(r) # Nil
  <2>1. \A r \in StopReasons : named(r) \in StoppedRetry BY <1>1 DEF StoppedRetry
  <2> QED BY <2>1, NilAssumption
<1>3. /\ reason \in StopReasons /\ "goal_empty_response_limit_block_failed" \in StopReasons
      /\ "goal_empty_response_limit" \in StopReasons
  BY DEF StopReasons
<1> HIDE DEF named
<1>4. LET s == rescheduleGoalBlock(th, time, reason, cfg)
      IN  /\ s.Pending = Nil /\ s.Awaiting = Nil
          /\ s.Stopped \in {th.Stopped, named(reason), named("goal_empty_response_limit_block_failed")}
  BY <1>1 DEF rescheduleGoalBlock, ThreadState, named
<1>5. LET s == goalBlocked(th, status, time)
      IN  /\ s.Pending = Nil /\ s.Awaiting = Nil
          /\ s.Stopped = named("goal_empty_response_limit")
  BY <1>1 DEF goalBlocked, ThreadState, named
<1>6. rescheduleGoalBlock(th, time, reason, cfg).Stopped # Nil BY <1>1, <1>2, <1>3, <1>4
<1>7. goalBlocked(th, status, time).Stopped # Nil BY <1>2, <1>3, <1>5
<1> QED BY <1>4, <1>5, <1>6, <1>7, EndStep

\* A restart loads the thread and queues an unacknowledged dispatch again.
LEMMA RestartChain ==
    ASSUME NEW th, Sound(th), NEW time
    PROVE  LET after == reconcileStartupState(loadThread(th), time)
           IN  ChainStep(th, after) /\ ~Unacked(after)
<1> DEFINE t == loadThread(th)
           after == reconcileStartupState(t, time)
<1> SUFFICES ChainStep(th, after) /\ ~Unacked(after) OBVIOUS
<1>1. th \in ThreadState BY DEF Sound
<1>2. /\ t.Pending = th.Pending /\ t.Awaiting = th.Awaiting
      /\ SameFrame(th, t) /\ DOMAIN t = DOMAIN th
      /\ th.Stopped = Nil => t.Stopped = Nil
  BY <1>1 DEF loadThread, ThreadState, SameFrame
<1>3. th.Stopped # Nil => t.Stopped # Nil
  <2> SUFFICES ASSUME th.Stopped # Nil PROVE t.Stopped # Nil OBVIOUS
  <2> DEFINE fixed == [th.Stopped.budget EXCEPT !.ConsecutiveRetry = th.Stopped.budget.Attempt]
             s == [th.Stopped EXCEPT !.budget = fixed]
  <2>1. th.Stopped \in StoppedRetry BY <1>1 DEF ThreadState
  <2>2. fixed \in Budget BY <2>1 DEF StoppedRetry, Budget
  <2>3. t.Stopped = th.Stopped \/ t.Stopped = s
    BY <1>1, <2>1 DEF loadThread, ThreadState, StoppedRetry
  <2> HIDE DEF fixed
  <2>4. s \in StoppedRetry BY <2>1, <2>2 DEF StoppedRetry
  <2> QED BY <2>1, <2>3, <2>4, NilAssumption
<1> HIDE DEF t
<1>4. CASE th.Awaiting = Nil \/ th.Awaiting.RetryTurnID # 0
  <2>1. after = t BY <1>2, <1>4 DEF reconcileStartupState
  <2>2. KeepsStop(th, t) BY <1>3 DEF KeepsStop, automaticGoalLimitStopped
  <2>3. liveRetry(t) = liveRetry(th) BY <1>2 DEF liveRetry
  <2>4. Advances(th, t) BY <1>2, <2>3 DEF Advances, Continues, HoldsRetry, SameFrame
  <2>5. ~Unacked(t) BY <1>2, <1>4 DEF Unacked
  <2> QED BY <2>1, <2>2, <2>4, <2>5 DEF ChainStep, SameDispatch
<1>5. CASE th.Awaiting # Nil /\ th.Awaiting.RetryTurnID = 0
  <2> DEFINE p == queuedRetry(t.Awaiting, t.Awaiting.budget, time, t.Awaiting.DispatchFailures,
                              t.Awaiting.ParentNotified)
  <2>1. after = [t EXCEPT !.Awaiting = Nil, !.Pending = p]
    BY <1>2, <1>5 DEF reconcileStartupState, requeue
  <2>2. SameRetry(th.Awaiting, p) BY <1>2 DEF queuedRetry, SameRetry
  <2> HIDE DEF p, after
  <2>3. after.Pending = p /\ after.Awaiting = Nil /\ SameFrame(t, after)
    BY <1>1, <1>2, <2>1 DEF ThreadState, SameFrame
  <2>4. liveRetry(th) = th.Awaiting /\ liveRetry(after) = p
    BY <1>5, <2>3, AwaitingFacts DEF liveRetry
  <2>5. SameFrame(th, after) BY <1>2, <2>3 DEF SameFrame
  <2>6. ~Unacked(after) BY <2>3 DEF Unacked
  <2> QED BY <1>5, <2>2, <2>4, <2>5, <2>6, MoveStep DEF SameDispatch
<1> QED BY <1>4, <1>5

----------------------------------------------------------------------------
(* One step of the daemon.                                                 *)

\* A lifecycle probe asks for a turn that was acknowledged.
ProbesRan == \A p \in probes : p.turn # 0

LEMMA NextProbesRan ==
    ASSUME ProbesRan, [Next]_vars
    PROVE  ProbesRan'
<1>1. CASE UNCHANGED probes BY <1>1 DEF ProbesRan
<1>2. CASE CollectProbes BY <1>2 DEF CollectProbes, lifecycleDue, ProbesRan
<1>3. CASE \E p \in probes : ProbeLifecycle(p) BY <1>3 DEF ProbeLifecycle, ProbesRan
<1>4. CASE Crash BY <1>4 DEF Crash, ProbesRan
<1>5. CASE Tick /\ ~CollectProbes /\ ~(\E p \in probes : ProbeLifecycle(p))
  BY <1>1, <1>5 DEF Tick, TickBegin, LatchedFailure, ControllerProbe, TickScan, HandleEvent, Reopen,
     ControlCommand, EndControls, MemoryLimitExceeded, Dispatch, tickVars
<1>6. CASE \E j \in jobs : JobStep(j)
  BY <1>1, <1>6 DEF JobStep, StartJob, SendRequest, StaleResult, RecoveryFailed, RecoveryUserActive,
     RecoveryNotApplicable, RecoveryAccepted, GoalBlockFailed, GoalBlockDone, finishing, tickVars
<1>7. CASE \/ \E t \in Threads : QueueCommand(t)
           \/ TogglePause \/ EditConfig \/ Advance \/ CodexMoves \/ UNCHANGED vars
  BY <1>1, <1>7 DEF QueueCommand, TogglePause, EditConfig, Advance, CodexMoves, vars, daemonVars,
     tickVars
<1> QED BY <1>2, <1>3, <1>4, <1>5, <1>6, <1>7 DEF Next

\* What may remove the stop of a goal limit.
LiftsStop(t) ==
    \/ /\ phase = "events"
       /\ Head(batch[t]).kind = "thread_goal_updated"
       /\ Head(batch[t]).status \notin limitGoalStatuses \ {"active"}
    \/ phase = "controls" /\ Head(commands).action = "restart_retry"

\* The job of a new dispatch is launched.
Launched(t) == t \in active' \ active

Kept(t, before) ==
    /\ Advances(before, threads'[t])
    /\ Launched(t) \/ SameDispatch(before, threads'[t])
    /\ LiftsStop(t) \/ KeepsStop(before, threads'[t])

AllKept == \A t \in Threads : Kept(t, threads[t])

LEMMA UnchangedKept ==
    ASSUME UNCHANGED threads
    PROVE  AllKept
<1>1. \A th : ChainStep(th, th) BY StutterStep
<1> QED BY <1>1 DEF AllKept, Kept, ChainStep

\* Every thread goes through one handler.
LEMMA EachKept ==
    ASSUME \A t \in Threads : ChainStep(threads[t], threads'[t])
    PROVE  AllKept
BY DEF AllKept, Kept, ChainStep

\* One thread does.
LEMMA OneKept ==
    ASSUME Inv, NEW t \in Threads, NEW th, threads' = [threads EXCEPT ![t] = th],
           Advances(threads[t], th), SameDispatch(threads[t], th),
           LiftsStop(t) \/ KeepsStop(threads[t], th)
    PROVE  AllKept
<1>1. \A u \in Threads : threads'[u] = IF u = t THEN th ELSE threads[u] BY InvFacts
<1>2. \A x : ChainStep(x, x) BY StutterStep
<1> QED BY <1>1, <1>2 DEF AllKept, Kept, ChainStep

\* dispatchDueLocked starts the chosen candidates, whose jobs are launched.
LEMMA PromotedKept ==
    ASSUME Inv, NEW blocks \in firstDue(stopDue, slots),
           NEW chosen \in firstDue(pendingDueAt(active \cup blocks), slots - Cardinality(blocks)),
           Chosen(blocks, chosen)
    PROVE  \A t \in Threads :
              \/ ChainStep(threads[t], threads'[t])
              \/ /\ t \in chosen /\ Launched(t)
                 /\ Advances(threads[t], threads'[t]) /\ KeepsStop(threads[t], threads'[t])
                 /\ threads[t].Pending # Nil
                 /\ SameRetry(threads[t].Pending, threads'[t].Awaiting)
<1> DEFINE busy == active \cup blocks
<1>1. \A t \in chosen : t \notin busy /\ threads[t].Pending # Nil
  BY ChosenDue DEF candidates, dispatchable, pendingDue
<1>2. \A t \in Threads : dispatchable(t, busy) => threads[t].Pending # Nil
  BY DEF dispatchable, pendingDue
<1>3. \A t \in Threads :
         threads'[t] = IF heldFromDispatch(threads[t]) THEN clearHeldRetry(threads[t])
                       ELSE IF dispatchable(t, busy) /\ recoveryTimeExceeded(threads[t], tickNow)
                       THEN stopPendingForController(threads[t], "recovery_time_limit")
                       ELSE IF t \in chosen THEN startDispatch(threads[t], tickNow, config)
                       ELSE threads[t]
  BY DEF Chosen, promoted
<1>4. active' = active \cup blocks \cup chosen BY DEF Chosen, launch
<1>5. \A t \in chosen : Launched(t) BY <1>1, <1>4 DEF Launched
<1> HIDE DEF busy
<1> QED BY <1>1, <1>2, <1>3, <1>5, InvFacts, DispatchChain, StutterStep

LEMMA DispatchKept ==
    ASSUME Inv, Dispatch
    PROVE  AllKept
<1>1. CASE UNCHANGED threads BY <1>1, UnchangedKept
<1>2. CASE threads' = stoppedForTransport
  <2>1. \A t \in Threads : threads'[t] = IF pendingDue(threads[t], tickNow)
                                         THEN stopPendingForController(threads[t], noTransportReason)
                                         ELSE threads[t]
    BY <1>2 DEF stoppedForTransport
  <2>2. \A t \in Threads : ChainStep(threads[t], threads'[t])
    BY <2>1, InvFacts, DispatchChain, StutterStep DEF pendingDue
  <2> QED BY <2>2, EachKept
<1>3. CASE \E blocks \in firstDue(stopDue, slots) :
              \E chosen \in firstDue(pendingDueAt(active \cup blocks), slots - Cardinality(blocks)) :
                 Chosen(blocks, chosen)
  BY <1>3, PromotedKept DEF AllKept, Kept, ChainStep
<1> QED BY <1>1, <1>2, <1>3, DispatchForms

LEMMA TickKept ==
    ASSUME Inv, ProbesRan, Tick
    PROVE  AllKept
<1> USE InvFacts
<1>1. CASE TickBegin \/ LatchedFailure \/ ControllerProbe \/ MemoryLimitExceeded
  BY <1>1, UnchangedKept DEF TickBegin, LatchedFailure, ControllerProbe, MemoryLimitExceeded,
     memoryVars
<1>2. CASE TickScan
  <2>1. \A t \in Threads : threads'[t] = reloadLimits(threads[t], configFile, now)
    BY <1>2 DEF TickScan
  <2> QED BY <2>1, ReloadChain, EachKept
<1>3. CASE \E t \in Threads : HandleEvent(t)
  <2>1. PICK t \in Threads : HandleEvent(t) BY <1>3
  <2> DEFINE ev == Head(batch[t])
             th == handleEvent(threads[t], ev, tickNow, config)
  <2>2. ev \in Event
    <3>1. batch[t] \in Seq(Event) /\ batch[t] # <<>> BY <2>1 DEF Inv, TickInv, HandleEvent
    <3> QED BY <3>1, HeadTailProperties
  <2>3. phase = "events" /\ threads' = [threads EXCEPT ![t] = th] BY <2>1 DEF HandleEvent
  <2>4. /\ ev.kind = "thread_goal_updated" /\ ev.status \notin limitGoalStatuses \ {"active"}
        => LiftsStop(t)
    BY <2>3 DEF LiftsStop
  <2> HIDE DEF ev
  <2>5. /\ Advances(threads[t], th) /\ SameDispatch(threads[t], th)
        /\ LiftsStop(t) \/ KeepsStop(threads[t], th)
    BY <2>2, <2>4, EventChain
  <2> HIDE DEF th
  <2> QED BY <2>3, <2>5, OneKept
<1>4. CASE Reopen
  <2>1. \A t \in Threads : threads'[t] \in {threads[t], reopenRestartRequired(threads[t], tickNow, config)}
    BY <1>4 DEF Reopen
  <2>2. \A t \in Threads : ChainStep(threads[t], threads'[t]) BY <2>1, ReopenChain, StutterStep
  <2> QED BY <2>2, EachKept
<1>5. CASE ControlCommand
  <2> DEFINE c == Head(commands)
             t == c.thread
             th == applyControlCommand(threads[t], c.action, tickNow, config)
  <2>1. c.thread \in Threads
    <3>1. commands \in Seq(Command) /\ commands # <<>> BY <1>5 DEF Inv, FileInv, ControlCommand
    <3>2. c \in Command BY <3>1, HeadTailProperties
    <3> QED BY <3>2 DEF Command
  <2>2. threads' = [threads EXCEPT ![t] = th] BY <1>5 DEF ControlCommand
  <2>3. c.action = "restart_retry" => LiftsStop(t) BY <1>5 DEF ControlCommand, LiftsStop
  <2> HIDE DEF c
  <2>4. /\ Advances(threads[t], th) /\ SameDispatch(threads[t], th)
        /\ LiftsStop(t) \/ KeepsStop(threads[t], th)
    BY <2>1, <2>3, CommandChain
  <2> HIDE DEF t, th
  <2> QED BY <2>1, <2>2, <2>4, OneKept DEF t
<1>6. CASE EndControls
  <2>1. \A t \in Threads : threads'[t] \in {threads[t], expireUnacknowledged(threads[t], tickNow, config)}
    BY <1>6 DEF EndControls
  <2>2. \A t \in Threads : ChainStep(threads[t], threads'[t]) BY <2>1, ExpireChain, StutterStep
  <2> QED BY <2>2, EachKept
<1>7. CASE CollectProbes
  <2> SUFFICES ASSUME NEW t \in Threads PROVE ChainStep(threads[t], threads'[t]) BY EachKept
  <2> DEFINE a == [threads[t].Awaiting EXCEPT !.LastLifecycleCheckAt = tickNow]
  <2>1. \/ threads'[t] = threads[t]
        \/ threads[t].Awaiting # Nil /\ threads'[t] = [threads[t] EXCEPT !.Awaiting = a]
    BY <1>7 DEF CollectProbes, lifecycleDue, ThreadState
  <2>2. CASE threads'[t] = threads[t] BY <2>2, StutterStep
  <2>3. CASE threads[t].Awaiting # Nil /\ threads'[t] = [threads[t] EXCEPT !.Awaiting = a]
    <3>1. threads[t].Awaiting \in AwaitingRetry BY <2>3, AwaitingFacts
    <3>2. SameRetry(threads[t].Awaiting, a) /\ a.RetryTurnID = threads[t].Awaiting.RetryTurnID
      BY <3>1 DEF AwaitingRetry, SameRetry
    <3> HIDE DEF a
    <3>3. ChainStep(threads[t], [threads[t] EXCEPT !.Awaiting = a]) BY <2>3, <3>2, MarkStep
    <3> QED BY <2>3, <3>3
  <2> QED BY <2>1, <2>2, <2>3
<1>8. CASE \E p \in probes : ProbeLifecycle(p)
  <2>1. PICK p \in probes : ProbeLifecycle(p) BY <1>8
  <2> DEFINE t == p.thread
  <2>2. t \in Threads BY DEF Inv, TickInv, Probe
  <2>3. \/ UNCHANGED threads
        \/ /\ threads[t].Awaiting # Nil /\ threads[t].Awaiting.RetryTurnID # 0
           /\ \E th : /\ threads' = [threads EXCEPT ![t] = th]
                      /\ \/ \E reason \in ErrorReasons : th = probeFailed(threads[t], reason, config)
                         \/ th \in {probeFoundActive(threads[t]),
                                    probeFoundIdle(threads[t], tickNow, config)}
    BY <2>1 DEF ProbeLifecycle, probeMatches, ProbesRan
  <2>4. CASE UNCHANGED threads BY <2>4, UnchangedKept
  <2>5. CASE ~(UNCHANGED threads)
    <3>1. PICK th : /\ threads[t].Awaiting # Nil /\ threads[t].Awaiting.RetryTurnID # 0
                    /\ threads' = [threads EXCEPT ![t] = th]
                    /\ \/ \E reason \in ErrorReasons : th = probeFailed(threads[t], reason, config)
                       \/ th \in {probeFoundActive(threads[t]),
                                  probeFoundIdle(threads[t], tickNow, config)}
      BY <2>3, <2>5
    <3>2. ChainStep(threads[t], th) BY <2>2, <3>1, ProbeChain
    <3> QED BY <2>2, <3>1, <3>2, OneKept DEF ChainStep
  <2> QED BY <2>4, <2>5
<1>9. CASE Dispatch BY <1>9, DispatchKept
<1> QED BY <1>1, <1>2, <1>3, <1>4, <1>5, <1>6, <1>7, <1>8, <1>9 DEF Tick

LEMMA JobKept ==
    ASSUME Inv, NEW j \in jobs, JobStep(j)
    PROVE  AllKept
<1> DEFINE t == j.thread
           th == threads[t]
<1>1. t \in Threads /\ Sound(th) BY JobFacts
<1>2. CASE StartJob(j) \/ SendRequest(j) \/ StaleResult(j)
  BY <1>2, UnchangedKept DEF StartJob, SendRequest, StaleResult
<1>3. ASSUME NEW after, setThread(t, after), ChainStep(th, after)
      PROVE  AllKept
  BY <1>1, <1>3, OneKept DEF setThread, ChainStep
<1>4. ASSUME finishing(j, "recovery"), NEW notified, NEW reason, NEW skip, NEW action
      PROVE  LET told == notifyParent(th, notified)
             IN  /\ ChainStep(th, rescheduleAwaitingWithPolicy(told, now, reason, TRUE, config))
                 /\ ChainStep(th, dispatchUserActive(told, reason, now, config))
                 /\ ChainStep(th, dispatchAccepted(told, action, now, config))
                 /\ ChainStep(th, dispatchNotApplicable(th, skip))
  <2>1. th.Awaiting # Nil BY <1>4, MatchFacts
  <2> HIDE DEF th
  <2> QED BY <1>1, <2>1, ResultChain
<1> HIDE DEF t, th
<1>5. CASE RecoveryFailed(j)
  <2>1. PICK reason \in failures(j), notified \in notices(j) :
          setThread(t, rescheduleAwaitingWithPolicy(notifyParent(th, notified),
                                                    now, reason, TRUE, config))
    BY <1>5 DEF RecoveryFailed, t, th
  <2>2. finishing(j, "recovery") BY <1>5 DEF RecoveryFailed
  <2> QED BY <1>3, <1>4, <2>1, <2>2
<1>6. CASE RecoveryUserActive(j)
  <2>1. PICK notified \in notices(j) :
          setThread(t, dispatchUserActive(notifyParent(th, notified), "thread_active", now, config))
    BY <1>6 DEF RecoveryUserActive, t, th
  <2>2. finishing(j, "recovery") BY <1>6 DEF RecoveryUserActive
  <2> QED BY <1>3, <1>4, <2>1, <2>2
<1>7. CASE RecoveryNotApplicable(j)
  <2>1. PICK reason \in SkipReasons : setThread(t, dispatchNotApplicable(th, reason))
    BY <1>7 DEF RecoveryNotApplicable, t, th
  <2>2. finishing(j, "recovery") BY <1>7 DEF RecoveryNotApplicable
  <2> QED BY <1>3, <1>4, <2>1, <2>2
<1>8. CASE RecoveryAccepted(j)
  <2>1. PICK notified \in notices(j) :
          setThread(t, dispatchAccepted(notifyParent(th, notified), acceptedAction(j, notified),
                                        now, config))
    BY <1>8 DEF RecoveryAccepted, t, th
  <2>2. finishing(j, "recovery") BY <1>8 DEF RecoveryAccepted
  <2> QED BY <1>3, <1>4, <2>1, <2>2
<1>9. CASE GoalBlockFailed(j)
  <2>1. PICK reason \in failures(j) : setThread(t, rescheduleGoalBlock(th, now, reason, config))
    BY <1>9 DEF GoalBlockFailed, t, th
  <2>2. th.GoalStop # Nil BY <1>9, MatchFacts DEF GoalBlockFailed, t, th
  <2> QED BY <1>1, <1>3, <2>1, <2>2, FailureReasons, GoalBlockChain
<1>10. CASE GoalBlockDone(j)
  <2>1. setThread(t, goalBlocked(th, j.sent, now)) BY <1>10 DEF GoalBlockDone, t, th
  <2>2. th.GoalStop # Nil BY <1>10, MatchFacts DEF GoalBlockDone, t, th
  <2>3. "codex_not_running" \in ControllerReasons BY DEF ControllerReasons
  <2> QED BY <1>1, <1>3, <2>1, <2>2, <2>3, GoalBlockChain
<1> QED BY <1>2, <1>5, <1>6, <1>7, <1>8, <1>9, <1>10 DEF JobStep

\* Every step, from the thread it starts from.
LEMMA NextKept ==
    ASSUME Inv, ProbesRan, [Next]_vars
    PROVE  \A t \in Threads : Kept(t, threadBefore(t))
<1>1. CASE Crash
  <2> SUFFICES ASSUME NEW t \in Threads PROVE Kept(t, threadBefore(t)) OBVIOUS
  <2>1. threadBefore(t) = disk[t] BY <1>1 DEF threadBefore
  <2>2. Sound(disk[t]) BY SoundMember DEF Inv, FileInv
  <2>3. threads'[t] = reconcileStartupState(loadThread(disk[t]), now) BY <1>1 DEF Crash
  <2>4. ChainStep(disk[t], threads'[t]) BY <2>2, <2>3, RestartChain
  <2> QED BY <2>1, <2>4 DEF Kept, ChainStep
<1>2. CASE ~Crash
  <2>1. \A t \in Threads : threadBefore(t) = threads[t] BY <1>2 DEF threadBefore
  <2>2. (\/ \E t \in Threads : QueueCommand(t)
         \/ TogglePause \/ EditConfig \/ Advance \/ CodexMoves \/ UNCHANGED vars)
        => AllKept
    BY UnchangedKept DEF QueueCommand, TogglePause, EditConfig, Advance, CodexMoves, vars,
       daemonVars, memoryVars
  <2>3. AllKept BY <1>2, <2>2, TickKept, JobKept DEF Next
  <2> QED BY <2>1, <2>3 DEF AllKept
<1> QED BY <1>1, <1>2

LEMMA InitProbesRan == Init => ProbesRan
BY DEF Init, ProbesRan

\* The attempt counter of a chain advances by one at a time, and only when the
\* retry turn ran: no failed dispatch, expired start, restart or change of the
\* settings counts.
THEOREM OnlyRunTurnsCountHolds == Spec => OnlyRunTurnsCount
<1> DEFINE Counts(t) ==
          LET awaiting == threadBefore(t).Awaiting
              before == liveRetry(threadBefore(t))
              after == liveRetry(threads'[t])
          IN  before # Nil /\ after # Nil /\ before.budget.Attempt # after.budget.Attempt
              => /\ after.budget.Attempt = before.budget.Attempt + 1
                 /\ awaiting # Nil /\ awaiting.RetryTurnID # 0
<1>1. Init => ProbesRan BY InitProbesRan
<1>2. ProbesRan /\ [Next]_vars => ProbesRan' BY NextProbesRan
<1>3. Inv /\ ProbesRan /\ [Next]_vars => [\A t \in Threads : Counts(t)]_vars
  BY NextKept DEF Kept, Advances, Continues
<1> QED BY InvHolds, <1>1, <1>2, <1>3, PTL DEF Spec, OnlyRunTurnsCount

\* A chain that goes on, across restarts too, keeps the start that the circuit
\* breaker measures from.
THEOREM ChainKeepsClockHolds == Spec => ChainKeepsClock
<1> DEFINE Keeps(t) ==
          liveRetry(threadBefore(t)) # Nil /\ liveRetry(threads'[t]) # Nil
          => threads'[t].RecoveryStartedAt = threadBefore(t).RecoveryStartedAt
<1>1. Init => ProbesRan BY InitProbesRan
<1>2. ProbesRan /\ [Next]_vars => ProbesRan' BY NextProbesRan
<1>3. Inv /\ ProbesRan /\ [Next]_vars => [\A t \in Threads : Keeps(t)]_vars
  BY NextKept DEF Kept, Advances, Continues
<1> QED BY InvHolds, <1>1, <1>2, <1>3, PTL DEF Spec, ChainKeepsClock

\* A chain never forgets that the parent of the subagent was told.
THEOREM ParentStaysNotifiedHolds == Spec => ParentStaysNotified
<1> DEFINE Told(t) ==
          LET before == liveRetry(threadBefore(t))
              after == liveRetry(threads'[t])
          IN  before # Nil /\ after # Nil /\ before.ParentNotified => after.ParentNotified
<1>1. Init => ProbesRan BY InitProbesRan
<1>2. ProbesRan /\ [Next]_vars => ProbesRan' BY NextProbesRan
<1>3. Inv /\ ProbesRan /\ [Next]_vars => [\A t \in Threads : Told(t)]_vars
  BY NextKept DEF Kept, Advances, Continues
<1> QED BY InvHolds, <1>1, <1>2, <1>3, PTL DEF Spec, ParentStaysNotified

\* Only the panel and a goal update remove the stop of a goal limit.
THEOREM GoalLimitStickyHolds == Spec => GoalLimitSticky
<1> DEFINE Sticks(t) ==
          automaticGoalLimitStopped(threadBefore(t)) /\ threads'[t].Stopped = Nil
          => \/ /\ phase = "events"
                /\ Head(batch[t]).kind = "thread_goal_updated"
                /\ Head(batch[t]).status \notin limitGoalStatuses \ {"active"}
             \/ /\ phase = "controls"
                /\ Head(commands).action = "restart_retry"
<1>1. Init => ProbesRan BY InitProbesRan
<1>2. ProbesRan /\ [Next]_vars => ProbesRan' BY NextProbesRan
<1>3. Inv /\ ProbesRan /\ [Next]_vars => [\A t \in Threads : Sticks(t)]_vars
  BY NextKept DEF Kept, KeepsStop, LiftsStop
<1> QED BY InvHolds, <1>1, <1>2, <1>3, PTL DEF Spec, GoalLimitSticky

----------------------------------------------------------------------------
(* No dispatch is forgotten: a job that is removed without a result was    *)
(* not about the dispatch that waits, and no deadline is passed unseen.    *)

\* A hold ends the retry that it does not allow at once, and no restart loads
\* such a retry from state.json.
NothingHeld == \A t \in Threads : ~HoldsRetry(threads[t]) /\ ~HoldsRetry(disk[t])

LEMMA InitNothingHeld == Init => NothingHeld
<1>1. NewThread.Pending = Nil /\ NewThread.Awaiting = Nil BY DEF NewThread
<1>2. ~HoldsRetry(NewThread) BY <1>1 DEF HoldsRetry, liveRetry
<1> QED BY <1>2 DEF Init, NothingHeld

LEMMA DiskFollows ==
    ASSUME [Next]_vars
    PROVE  disk' \in {disk, threads'}
<1>1. CASE Dispatch BY <1>1 DEF Dispatch, persist
<1>2. CASE Tick /\ ~Dispatch
  BY <1>2 DEF Tick, TickBegin, LatchedFailure, ControllerProbe, TickScan, HandleEvent, Reopen,
     ControlCommand, EndControls, MemoryLimitExceeded, CollectProbes, ProbeLifecycle, fileVars
<1>3. ASSUME NEW t, NEW th, setThread(t, th) PROVE disk' \in {disk, threads'}
  BY <1>3 DEF setThread, persist
<1>4. CASE \E j \in jobs : JobStep(j)
  BY <1>3, <1>4 DEF JobStep, StartJob, SendRequest, StaleResult, RecoveryFailed, RecoveryUserActive,
     RecoveryNotApplicable, RecoveryAccepted, GoalBlockFailed, GoalBlockDone, fileVars
<1>5. CASE \/ \E t \in Threads : QueueCommand(t)
           \/ Crash \/ TogglePause \/ EditConfig \/ Advance \/ CodexMoves \/ UNCHANGED vars
  BY <1>5 DEF QueueCommand, Crash, TogglePause, EditConfig, Advance, CodexMoves, vars, daemonVars,
     fileVars
<1> QED BY <1>1, <1>2, <1>4, <1>5 DEF Next

LEMMA NextNothingHeld ==
    ASSUME Inv, ProbesRan, NothingHeld, [Next]_vars
    PROVE  NothingHeld'
<1>1. \A t \in Threads : ~HoldsRetry(threads'[t])
  BY NextKept DEF Kept, Advances, threadBefore, NothingHeld
<1>2. \A t \in Threads : ~HoldsRetry(disk'[t]) BY <1>1, DiskFollows DEF NothingHeld
<1> QED BY <1>1, <1>2 DEF NothingHeld

\* A job of the thread is the one that made the dispatch which waits.
Own(j, th) ==
    Unacked(th) =>
        /\ j.kind = "recovery"
        /\ j.key = th.Awaiting.fault.EventKey
        /\ j.attempt = th.Awaiting.budget.Attempt
        /\ j.restart = th.Awaiting.GoalLimitRestart

JobsOwn == \A j \in jobs : Own(j, threads[j.thread])

\* What stays of a job while it runs.
SameJob(j, i) ==
    /\ i.thread = j.thread /\ i.kind = j.kind /\ i.key = j.key
    /\ i.attempt = j.attempt /\ i.restart = j.restart

LEMMA OwnKept ==
    ASSUME NEW j, NEW i, SameJob(j, i), NEW before, NEW after, Own(j, before),
           SameDispatch(before, after)
    PROVE  Own(i, after)
BY DEF SameJob, Own, SameDispatch, SameRetry

LEMMA CancelledSame ==
    ASSUME jobs \subseteq Job, NEW t, NEW i \in cancelJobs(jobs, t)
    PROVE  \E j \in jobs : SameJob(j, i)
<1>1. PICK j \in jobs : i \in {j, [j EXCEPT !.cancelled = TRUE]} BY DEF cancelJobs
<1>2. SameJob(j, i) BY <1>1 DEF Job, SameJob
<1> QED BY <1>2

\* Only the dispatcher starts jobs.
LEMMA OldJobs ==
    ASSUME Inv, [Next]_vars, ~Dispatch
    PROVE  /\ \A i \in jobs' : \E j \in jobs : SameJob(j, i)
           /\ active' \subseteq active
<1> DEFINE Goal == /\ \A i \in jobs' : \E j \in jobs : SameJob(j, i)
                   /\ active' \subseteq active
<1> SUFFICES Goal OBVIOUS
<1>1. jobs \subseteq Job BY DEF Inv, MemoryInv, SoundJob
<1>2. \A j : SameJob(j, j) BY DEF SameJob
<1>3. CASE UNCHANGED <<active, jobs>> BY <1>2, <1>3
<1>4. ASSUME NEW t, jobs' = cancelJobs(jobs, t), UNCHANGED active PROVE Goal
  BY <1>1, <1>4, CancelledSame
<1>5. CASE Tick
  <2>1. UNCHANGED <<active, jobs>> \/ \E t : jobs' = cancelJobs(jobs, t) /\ UNCHANGED active
    BY <1>5 DEF Tick, TickBegin, LatchedFailure, ControllerProbe, TickScan, HandleEvent, Reopen,
       ControlCommand, EndControls, MemoryLimitExceeded, CollectProbes, ProbeLifecycle, memoryVars
  <2> QED BY <1>3, <1>4, <2>1
<1>6. CASE \E j \in jobs : JobStep(j)
  <2>1. PICK j \in jobs : JobStep(j) BY <1>6
  <2>2. CASE removeJob(j) BY <1>2, <2>2 DEF removeJob
  <2>3. ASSUME NEW i, SameJob(j, i), jobs' = (jobs \ {j}) \cup {i}, UNCHANGED active PROVE Goal
    BY <1>2, <2>3
  <2>4. CASE StartJob(j)
    <3>1. SameJob(j, [j EXCEPT !.pc = "running"]) BY <1>1 DEF Job, SameJob
    <3> QED BY <2>2, <2>3, <2>4, <3>1 DEF StartJob
  <2>5. CASE SendRequest(j)
    <3>1. \A what : SameJob(j, [j EXCEPT !.sent = what]) BY <1>1 DEF Job, SameJob
    <3>2. UNCHANGED active /\ \E what : jobs' = (jobs \ {j}) \cup {[j EXCEPT !.sent = what]}
      BY <2>5 DEF SendRequest
    <3> QED BY <2>3, <3>1, <3>2
  <2>6. CASE \/ StaleResult(j) \/ RecoveryFailed(j) \/ RecoveryUserActive(j)
             \/ RecoveryNotApplicable(j) \/ RecoveryAccepted(j) \/ GoalBlockFailed(j)
             \/ GoalBlockDone(j)
    BY <2>2, <2>6 DEF StaleResult, RecoveryFailed, RecoveryUserActive, RecoveryNotApplicable,
       RecoveryAccepted, GoalBlockFailed, GoalBlockDone, finishing
  <2> QED BY <2>1, <2>4, <2>5, <2>6 DEF JobStep
<1>7. CASE Crash BY <1>7 DEF Crash
<1>8. CASE \/ \E t \in Threads : QueueCommand(t)
           \/ TogglePause \/ EditConfig \/ Advance \/ CodexMoves \/ UNCHANGED vars
  BY <1>3, <1>8 DEF QueueCommand, TogglePause, EditConfig, Advance, CodexMoves, vars, daemonVars,
     memoryVars
<1> QED BY <1>5, <1>6, <1>7, <1>8 DEF Next

\* The jobs that the dispatcher starts, and the ones it leaves running.
LEMMA LaunchOwn ==
    ASSUME Inv, Slots, JobsOwn, NEW blocks, NEW chosen, blocks \subseteq goalStopsDue,
           chosen \subseteq Threads \ (active \cup blocks), launch(blocks, chosen),
           \A t \in Threads :
              \/ SameDispatch(threads[t], threads'[t])
              \/ t \in chosen /\ SameRetry(threads[t].Pending, threads'[t].Awaiting),
           \A t \in chosen : threads[t].Pending # Nil
    PROVE  JobsOwn'
<1>1. blocks \subseteq Threads BY DEF goalStopsDue
<1>2. ASSUME NEW j \in jobs PROVE Own(j, threads'[j.thread])
  <2>1. j.thread \in Threads /\ j.thread \notin chosen BY JobFacts DEF Slots
  <2>2. SameDispatch(threads[j.thread], threads'[j.thread]) BY <2>1
  <2> QED BY <2>2, OwnKept DEF JobsOwn, SameJob
<1>3. ASSUME NEW t \in blocks PROVE Own(goalBlockJob(t), threads'[t])
  <2>1. threads[t].GoalStop # Nil /\ t \notin chosen BY DEF goalStopsDue
  <2>2. ~Unacked(threads[t]) BY <1>1, <2>1, InvFacts, AwaitingFacts DEF Unacked
  <2> QED BY <1>1, <2>1, <2>2 DEF SameDispatch, Own
<1>4. ASSUME NEW t \in chosen PROVE Own(recoveryJob(t), threads'[t])
  <2>1. ~Unacked(threads[t]) BY InvFacts, PendingFacts DEF Unacked
  <2>2. CASE SameDispatch(threads[t], threads'[t]) BY <2>1, <2>2 DEF SameDispatch, Own
  <2>3. CASE SameRetry(threads[t].Pending, threads'[t].Awaiting)
    BY <2>3 DEF SameRetry, Own, recoveryJob
  <2> QED BY <2>2, <2>3
<1>5. /\ \A t : goalBlockJob(t).thread = t /\ recoveryJob(t).thread = t
      /\ jobs' = jobs \cup {goalBlockJob(t) : t \in blocks} \cup {recoveryJob(t) : t \in chosen}
  BY DEF goalBlockJob, recoveryJob, launch
<1> QED BY <1>2, <1>3, <1>4, <1>5 DEF JobsOwn

LEMMA StoppedKept ==
    ASSUME Inv, threads' \in {threads, stoppedForTransport}
    PROVE  \A t \in Threads : ChainStep(threads[t], threads'[t])
<1>1. \A t \in Threads : \/ threads'[t] = threads[t]
                         \/ /\ threads[t].Pending # Nil
                            /\ threads'[t] = stopPendingForController(threads[t], noTransportReason)
  BY DEF stoppedForTransport, pendingDue
<1> QED BY <1>1, InvFacts, DispatchChain, StutterStep

LEMMA DispatchOwn ==
    ASSUME Inv, Slots, JobsOwn, Dispatch
    PROVE  JobsOwn'
<1>1. CASE UNCHANGED <<threads, active, jobs>> BY <1>1 DEF JobsOwn
<1>2. ASSUME NEW blocks \in firstDue(stopDue, slots), launch(blocks, {}),
             threads' \in {threads, stoppedForTransport}
      PROVE  JobsOwn'
  BY <1>2, BlocksDue, StoppedKept, LaunchOwn DEF ChainStep
<1>3. ASSUME NEW blocks \in firstDue(stopDue, slots),
             NEW chosen \in firstDue(pendingDueAt(active \cup blocks), slots - Cardinality(blocks)),
             Chosen(blocks, chosen)
      PROVE  JobsOwn'
  <2>1. /\ chosen \subseteq Threads \ (active \cup blocks)
        /\ \A t \in chosen : threads[t].Pending # Nil
    <3>1. chosen \subseteq candidates(active \cup blocks) BY ChosenDue
    <3> QED BY <3>1 DEF candidates, dispatchable, pendingDue
  <2>2. \A t \in Threads :
          \/ SameDispatch(threads[t], threads'[t])
          \/ t \in chosen /\ SameRetry(threads[t].Pending, threads'[t].Awaiting)
    BY <1>3, PromotedKept DEF ChainStep
  <2>3. launch(blocks, chosen) BY <1>3 DEF Chosen
  <2> QED BY <2>1, <2>2, <2>3, BlocksDue, LaunchOwn
<1> QED BY <1>1, <1>2, <1>3, DispatchForms

LEMMA NextOwn ==
    ASSUME Inv, Slots, ProbesRan, JobsOwn, [Next]_vars
    PROVE  JobsOwn'
<1>1. CASE Dispatch BY <1>1, DispatchOwn
<1>2. CASE Crash BY <1>2 DEF Crash, JobsOwn
<1>3. CASE ~Dispatch /\ ~Crash
  <2> SUFFICES ASSUME NEW i \in jobs' PROVE Own(i, threads'[i.thread]) BY DEF JobsOwn
  <2>1. PICK j \in jobs : SameJob(j, i) BY <1>3, OldJobs
  <2>2. j.thread \in Threads /\ i.thread = j.thread BY <2>1, JobFacts DEF SameJob
  <2>3. ~Launched(j.thread) BY <1>3, OldJobs DEF Launched
  <2>4. SameDispatch(threads[j.thread], threads'[j.thread])
    BY <1>3, <2>2, <2>3, NextKept DEF Kept, threadBefore
  <2> QED BY <2>1, <2>2, <2>4, OwnKept DEF JobsOwn
<1> QED BY <1>1, <1>2, <1>3

\* A job that gives up is not about a dispatch that waits.
LEMMA GivesUp ==
    ASSUME Inv, NothingHeld, JobsOwn, NEW j \in jobs,
           \/ ~jobMatches(j)
           \/ /\ threads[j.thread].GoalHeld /\ ~j.restart
              /\ ~heldConversationStillAllowed(threads[j.thread])
    PROVE  ~Unacked(threads[j.thread])
<1> DEFINE th == threads[j.thread]
<1> SUFFICES ASSUME Unacked(th) PROVE FALSE OBVIOUS
<1>1. Own(j, th) /\ ~HoldsRetry(th) /\ Sound(th) BY JobFacts DEF JobsOwn, NothingHeld
<1>2. jobMatches(j) BY <1>1 DEF Own, Unacked, jobMatches
<1>3. th.GoalHeld /\ ~j.restart /\ ~heldConversationStillAllowed(th) BY <1>2
<1> HIDE DEF th
<1>4. th.Pending = Nil /\ th.Awaiting # Nil BY <1>1, AwaitingFacts DEF Unacked
<1>5. liveRetry(th) = th.Awaiting /\ retryOrigin(th) = th.Awaiting.fault.OriginTurnStartedAt
  BY <1>4 DEF liveRetry, retryOrigin
<1>6. ~th.Awaiting.GoalLimitRestart BY <1>1, <1>3 DEF Own
<1> QED BY <1>1, <1>3, <1>4, <1>5, <1>6 DEF HoldsRetry, heldConversationStillAllowed

\* From the check of the deadlines to the end of the tick and on to the next one,
\* no dispatch without a job is past its deadline.
InTime(th) == Unacked(th) => th.Awaiting.StartDeadline > tickNow

OnTime ==
    phase \in {"checks", "lifecycle", "idle"} =>
        \A t \in Threads \ active : InTime(threads[t])

\* Nothing happens to the threads, or they are not on time yet.
LEMMA IdleOnTime ==
    ASSUME OnTime, \/ phase' \notin {"checks", "lifecycle", "idle"}
                   \/ UNCHANGED <<threads, active, phase, tickNow>>
    PROVE  OnTime'
BY DEF OnTime, InTime

LEMMA DispatchOnTime ==
    ASSUME Inv, OnTime, Dispatch
    PROVE  OnTime'
<1>1. phase = "lifecycle" /\ UNCHANGED tickNow BY DEF Dispatch
<1>2. ASSUME active \subseteq active',
             \A t \in Threads \ active' : threads'[t] = threads[t] \/ threads'[t].Awaiting = Nil
      PROVE  OnTime'
  BY <1>1, <1>2 DEF OnTime, InTime, Unacked
<1>3. CASE UNCHANGED <<threads, active, jobs>> BY <1>2, <1>3
<1>4. ASSUME NEW t \in Threads
      PROVE  /\ clearHeldRetry(threads[t]) = threads[t] \/ clearHeldRetry(threads[t]).Awaiting = Nil
             /\ \A reason : stopPendingForController(threads[t], reason).Awaiting = Nil
  BY InvFacts DEF clearHeldRetry, dropHeldRetry, stopPendingForController, stopRetry, ThreadState
<1>5. ASSUME NEW blocks, launch(blocks, {}), threads' \in {threads, stoppedForTransport}
      PROVE  OnTime'
  <2>1. active \subseteq active' BY <1>5 DEF launch
  <2>2. \A t \in Threads : \/ threads'[t] = threads[t]
                           \/ threads'[t] = stopPendingForController(threads[t], noTransportReason)
    BY <1>5 DEF stoppedForTransport
  <2> QED BY <1>2, <1>4, <2>1, <2>2
<1>6. ASSUME NEW blocks, NEW chosen, Chosen(blocks, chosen) PROVE OnTime'
  <2>1. active' = active \cup blocks \cup chosen BY <1>6 DEF Chosen, launch
  <2>2. \A t \in Threads \ active' :
          \/ threads'[t] = threads[t]
          \/ threads'[t] = clearHeldRetry(threads[t])
          \/ threads'[t] = stopPendingForController(threads[t], "recovery_time_limit")
    BY <1>6, <2>1 DEF Chosen, promoted
  <2> QED BY <1>2, <1>4, <2>1, <2>2
<1> QED BY <1>3, <1>5, <1>6, DispatchForms

LEMMA TickOnTime ==
    ASSUME Inv, ProbesRan, OnTime, Tick
    PROVE  OnTime'
<1>1. CASE TickBegin \/ LatchedFailure \/ ControllerProbe \/ TickScan \/ Reopen
  BY <1>1, IdleOnTime DEF TickBegin, LatchedFailure, ControllerProbe, TickScan, Reopen
<1>2. CASE ControlCommand \/ \E t \in Threads : HandleEvent(t)
  BY <1>2, IdleOnTime DEF ControlCommand, HandleEvent, tickVars
<1>3. CASE MemoryLimitExceeded
  BY <1>3, IdleOnTime DEF MemoryLimitExceeded, tickVars
<1>4. CASE EndControls
  <2>1. UNCHANGED <<active, tickNow>> /\ tickNow \in Nat BY <1>4, InvFacts DEF EndControls
  <2>2. \A t \in Threads \ active : threads'[t] = expireUnacknowledged(threads[t], tickNow, config)
    BY <1>4 DEF EndControls
  <2> QED BY <2>1, <2>2, InvFacts, ExpireChain DEF OnTime, InTime
<1>5. CASE CollectProbes
  <2>1. phase = "checks" /\ UNCHANGED <<active, tickNow>> BY <1>5 DEF CollectProbes
  <2>2. ASSUME NEW t \in Threads PROVE threads'[t] = threads[t] \/ ~Unacked(threads'[t])
    <3> DEFINE a == [threads[t].Awaiting EXCEPT !.LastLifecycleCheckAt = tickNow]
    <3>1. \/ threads'[t] = threads[t]
          \/ /\ threads[t].Awaiting # Nil /\ threads[t].Awaiting.RetryTurnID # 0
             /\ threads'[t] = [threads[t] EXCEPT !.Awaiting = a]
      BY <1>5, InvFacts DEF CollectProbes, lifecycleDue, ThreadState
    <3>2. threads[t].Awaiting # Nil => a.RetryTurnID = threads[t].Awaiting.RetryTurnID
      BY InvFacts, AwaitingFacts DEF AwaitingRetry
    <3> HIDE DEF a
    <3>3. [threads[t] EXCEPT !.Awaiting = a].Awaiting = a BY InvFacts DEF ThreadState
    <3> QED BY <3>1, <3>2, <3>3 DEF Unacked
  <2> QED BY <2>1, <2>2 DEF OnTime, InTime
<1>6. CASE \E p \in probes : ProbeLifecycle(p)
  <2>1. PICK p \in probes : ProbeLifecycle(p) BY <1>6
  <2> DEFINE t == p.thread
  <2>2. UNCHANGED <<active, phase, tickNow>> BY <2>1 DEF ProbeLifecycle
  <2>3. CASE UNCHANGED threads BY <2>2, <2>3, IdleOnTime
  <2>4. CASE ~(UNCHANGED threads)
    <3>1. /\ threads[t].Awaiting # Nil /\ threads[t].Awaiting.RetryTurnID # 0
          /\ \E th : threads' = [threads EXCEPT ![t] = th]
      BY <2>1, <2>4 DEF ProbeLifecycle, probeMatches, ProbesRan
    <3>2. \A u \in Threads \ {t} : threads'[u] = threads[u] BY <3>1, InvFacts
    <3>3. ~Unacked(threads[t]) BY <3>1 DEF Unacked
    <3>4. \A u \in Threads : SameDispatch(threads[u], threads'[u])
      BY <2>2, TickKept DEF AllKept, Kept, Launched
    <3>5. t \in Threads => ~Unacked(threads'[t]) BY <3>3, <3>4 DEF SameDispatch
    <3>6. phase = "lifecycle" BY <2>1 DEF ProbeLifecycle
    <3> HIDE DEF t
    <3> QED BY <2>2, <3>2, <3>5, <3>6 DEF OnTime, InTime
  <2> QED BY <2>3, <2>4
<1>7. CASE Dispatch BY <1>7, DispatchOnTime
<1> QED BY <1>1, <1>2, <1>3, <1>4, <1>5, <1>6, <1>7 DEF Tick

\* The result of a job: either nothing waits, or the dispatch has a new deadline.
LEMMA JobOnTime ==
    ASSUME Inv, Fresh, NothingHeld, JobsOwn, OnTime, NEW j \in jobs, JobStep(j)
    PROVE  OnTime'
<1> DEFINE t == j.thread
           th == threads[t]
<1>1. t \in Threads /\ Sound(th) /\ DOMAIN threads = Threads /\ tickNow \in Nat /\ now \in Nat
      /\ tickNow <= now /\ config.StartAckTimeout \in Nat \ {0}
  BY JobFacts, InvFacts DEF Fresh, Config, Positive
<1>2. ASSUME removeJob(j), UNCHANGED <<phase, tickNow>>,
             \A u \in Threads \ {t} : threads'[u] = threads[u],
             Unacked(threads'[t]) => threads'[t].Awaiting.StartDeadline > tickNow
      PROVE  OnTime'
  BY <1>2 DEF OnTime, InTime, removeJob
<1>3. CASE StartJob(j) \/ StaleResult(j)
  <2>1. UNCHANGED <<threads, phase, tickNow>> BY <1>3 DEF StartJob, StaleResult, tickVars
  <2>2. CASE UNCHANGED active BY <2>1, <2>2, IdleOnTime
  <2>3. CASE removeJob(j) /\ ~Unacked(th) BY <1>2, <2>1, <2>3
  <2>4. CASE StartJob(j)
    <3>1. \/ UNCHANGED active
          \/ /\ removeJob(j)
             /\ \/ ~jobMatches(j)
                \/ th.GoalHeld /\ ~j.restart /\ ~heldConversationStillAllowed(th)
      BY <2>4 DEF StartJob
    <3> QED BY <2>2, <2>3, <3>1, GivesUp
  <2>5. CASE StaleResult(j)
    <3>1. removeJob(j) /\ ~jobMatches(j) BY <2>5 DEF StaleResult
    <3> QED BY <2>3, <3>1, GivesUp
  <2> QED BY <1>3, <2>4, <2>5
<1>4. CASE SendRequest(j) BY <1>4, IdleOnTime DEF SendRequest, tickVars
<1>5. ASSUME NEW kind, finishing(j, kind), NEW after, setThread(t, after),
             Unacked(after) => after.Awaiting.StartDeadline > tickNow
      PROVE  OnTime'
  BY <1>1, <1>2, <1>5 DEF finishing, setThread, tickVars
<1>6. ASSUME finishing(j, "recovery"), NEW notified, NEW reason, NEW skip, NEW action
      PROVE  LET told == notifyParent(th, notified)
             IN  /\ ~Unacked(rescheduleAwaitingWithPolicy(told, now, reason, TRUE, config))
                 /\ ~Unacked(dispatchUserActive(told, reason, now, config))
                 /\ ~Unacked(dispatchNotApplicable(th, skip))
                 /\ dispatchAccepted(told, action, now, config).Awaiting.StartDeadline > tickNow
  <2>1. th.Awaiting # Nil BY <1>6, MatchFacts
  <2> HIDE DEF th
  <2>2. Sound(th) BY <1>1
  <2>3. \A s : Renewed(s, now, config) => s.Awaiting.StartDeadline > tickNow BY <1>1 DEF Renewed
  <2>4. LET told == notifyParent(th, notified)
        IN  /\ ~Unacked(rescheduleAwaitingWithPolicy(told, now, reason, TRUE, config))
            /\ ~Unacked(dispatchUserActive(told, reason, now, config))
            /\ ~Unacked(dispatchNotApplicable(th, skip))
            /\ Renewed(dispatchAccepted(told, action, now, config), now, config)
    BY <2>1, <2>2, ResultChain
  <2> QED BY <2>3, <2>4
<1> HIDE DEF t, th
<1>7. CASE RecoveryFailed(j)
  <2>1. PICK reason \in failures(j), notified \in notices(j) :
          setThread(t, rescheduleAwaitingWithPolicy(notifyParent(th, notified),
                                                    now, reason, TRUE, config))
    BY <1>7 DEF RecoveryFailed, t, th
  <2>2. finishing(j, "recovery") BY <1>7 DEF RecoveryFailed
  <2>3. ~Unacked(rescheduleAwaitingWithPolicy(notifyParent(th, notified), now, reason, TRUE, config))
    BY <1>6, <2>2
  <2> QED BY <1>5, <2>1, <2>2, <2>3
<1>8. CASE RecoveryUserActive(j)
  <2>1. PICK notified \in notices(j) :
          setThread(t, dispatchUserActive(notifyParent(th, notified), "thread_active", now, config))
    BY <1>8 DEF RecoveryUserActive, t, th
  <2>2. finishing(j, "recovery") BY <1>8 DEF RecoveryUserActive
  <2>3. ~Unacked(dispatchUserActive(notifyParent(th, notified), "thread_active", now, config))
    BY <1>6, <2>2
  <2> QED BY <1>5, <2>1, <2>2, <2>3
<1>9. CASE RecoveryNotApplicable(j)
  <2>1. PICK reason \in SkipReasons : setThread(t, dispatchNotApplicable(th, reason))
    BY <1>9 DEF RecoveryNotApplicable, t, th
  <2>2. finishing(j, "recovery") BY <1>9 DEF RecoveryNotApplicable
  <2>3. ~Unacked(dispatchNotApplicable(th, reason)) BY <1>6, <2>2
  <2> QED BY <1>5, <2>1, <2>2, <2>3
<1>10. CASE RecoveryAccepted(j)
  <2>1. PICK notified \in notices(j) :
          setThread(t, dispatchAccepted(notifyParent(th, notified), acceptedAction(j, notified),
                                        now, config))
    BY <1>10 DEF RecoveryAccepted, t, th
  <2>2. finishing(j, "recovery") BY <1>10 DEF RecoveryAccepted
  <2>3. dispatchAccepted(notifyParent(th, notified), acceptedAction(j, notified), now, config)
          .Awaiting.StartDeadline > tickNow
    BY <1>6, <2>2
  <2> QED BY <1>5, <2>1, <2>2, <2>3
<1>11. CASE GoalBlockFailed(j)
  <2>1. PICK reason \in failures(j) : setThread(t, rescheduleGoalBlock(th, now, reason, config))
    BY <1>11 DEF GoalBlockFailed, t, th
  <2>2. finishing(j, "goal_block") BY <1>11 DEF GoalBlockFailed
  <2>3. th.GoalStop # Nil BY <2>2, MatchFacts DEF t, th
  <2>4. ~Unacked(rescheduleGoalBlock(th, now, reason, config))
    BY <1>1, <2>3, FailureReasons, GoalBlockChain DEF Unacked
  <2> QED BY <1>5, <2>1, <2>2, <2>4
<1>12. CASE GoalBlockDone(j)
  <2>1. setThread(t, goalBlocked(th, j.sent, now)) BY <1>12 DEF GoalBlockDone, t, th
  <2>2. finishing(j, "goal_block") BY <1>12 DEF GoalBlockDone
  <2>3. th.GoalStop # Nil BY <2>2, MatchFacts DEF t, th
  <2>4. "codex_not_running" \in ControllerReasons BY DEF ControllerReasons
  <2>5. ~Unacked(goalBlocked(th, j.sent, now))
    BY <1>1, <2>3, <2>4, GoalBlockChain DEF Unacked
  <2> QED BY <1>5, <2>1, <2>2, <2>5
<1> QED BY <1>3, <1>4, <1>7, <1>8, <1>9, <1>10, <1>11, <1>12 DEF JobStep

LEMMA NextOnTime ==
    ASSUME Inv, Fresh, ProbesRan, NothingHeld, JobsOwn, OnTime, [Next]_vars
    PROVE  OnTime'
<1>1. CASE Tick BY <1>1, TickOnTime
<1>2. CASE \E j \in jobs : JobStep(j) BY <1>2, JobOnTime
<1>3. CASE Crash
  <2> SUFFICES ASSUME NEW t \in Threads PROVE ~Unacked(threads'[t]) BY DEF OnTime, InTime
  <2>1. Sound(disk[t]) BY SoundMember DEF Inv, FileInv
  <2>2. threads'[t] = reconcileStartupState(loadThread(disk[t]), now) BY <1>3 DEF Crash
  <2> QED BY <2>1, <2>2, RestartChain
<1>4. CASE \/ \E t \in Threads : QueueCommand(t)
           \/ TogglePause \/ EditConfig \/ Advance \/ CodexMoves \/ UNCHANGED vars
  BY <1>4, IdleOnTime DEF QueueCommand, TogglePause, EditConfig, Advance, CodexMoves, vars,
     daemonVars, memoryVars, tickVars
<1> QED BY <1>1, <1>2, <1>3, <1>4 DEF Next

\* The held-goal branches of the dispatcher and of a job find no retry to drop:
\* the goal update that holds a retry has ended it already, in memory and in
\* state.json.
THEOREM NothingHeldHolds == Spec => []NothingHeld
<1>1. Init => ProbesRan BY InitProbesRan
<1>2. ProbesRan /\ [Next]_vars => ProbesRan' BY NextProbesRan
<1>3. Init => NothingHeld BY InitNothingHeld
<1>4. Inv /\ ProbesRan /\ NothingHeld /\ [Next]_vars => NothingHeld' BY NextNothingHeld
<1> QED BY InvHolds, <1>1, <1>2, <1>3, <1>4, PTL DEF Spec

\* A job of a thread that waits for its retry turn is the job of that dispatch.
THEOREM JobsOwnHolds == Spec => []JobsOwn
<1>1. Init => ProbesRan /\ Slots /\ JobsOwn
  BY InitProbesRan DEF Init, Slots, JobsOwn
<1>2. ProbesRan /\ [Next]_vars => ProbesRan' BY NextProbesRan
<1>3. Inv /\ Slots /\ [Next]_vars => Slots' BY NextKeepsSlots
<1>4. Inv /\ Slots /\ ProbesRan /\ JobsOwn /\ [Next]_vars => JobsOwn' BY NextOwn
<1> QED BY InvHolds, <1>1, <1>2, <1>3, <1>4, PTL DEF Spec

\* Between ticks every dispatch that waits for its turn has a job that works on it
\* or a deadline that is not over.
THEOREM NoForgottenDispatchHolds == Spec => []NoForgottenDispatch
<1>1. Init => ProbesRan /\ Fresh BY InitProbesRan, InitFresh
<1>2. ProbesRan /\ [Next]_vars => ProbesRan' BY NextProbesRan
<1>3. Inv /\ Fresh /\ [Next]_vars => Fresh' BY NextFresh, DispatchFresh
<1>4. Init => OnTime
  <2> SUFFICES ASSUME Init, NEW t \in Threads PROVE InTime(threads[t]) BY DEF OnTime
  <2>1. threads[t].Awaiting = Nil BY DEF Init, NewThread
  <2> QED BY <2>1 DEF InTime, Unacked
<1>5. Inv /\ Fresh /\ ProbesRan /\ NothingHeld /\ JobsOwn /\ OnTime /\ [Next]_vars => OnTime'
  BY NextOnTime
<1>6. OnTime => NoForgottenDispatch BY DEF OnTime, InTime, Unacked, NoForgottenDispatch
<1> QED BY InvHolds, NothingHeldHolds, JobsOwnHolds, <1>1, <1>2, <1>3, <1>4, <1>5, <1>6, PTL DEF Spec
=============================================================================
