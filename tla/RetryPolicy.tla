---------------------------- MODULE RetryPolicy ----------------------------
(***************************************************************************)
(* The pure policy functions of the watchdog: failure classes, the limits  *)
(* that a class puts on a recovery chain, the reason a chain stops, the    *)
(* wait before the next retry, the controller-failure tables and the time  *)
(* windows that decide whether a goal holds back a retry.                  *)
(*                                                                         *)
(* Times are natural numbers of one unspecified unit; 0 is Go's zero       *)
(* time.Time (IsZero).  Turn ids are natural numbers; 0 is the empty id.   *)
(***************************************************************************)
EXTENDS Naturals, FiniteSets

CONSTANTS
    GoalBlockBefore,   \* goalBlockedByFailure: how long before the failure (2 s)
    GoalBlockAfter     \* goalBlockedByFailure: how long after the failure (5 s)

ASSUME GoalWindowAssumption ==
    /\ GoalBlockBefore \in Nat
    /\ GoalBlockAfter \in Nat

\* The retryable classes; "none" (not retryable) never labels a chain.
FailureClasses ==
    {"transient", "rate_limit", "server", "auth_transient", "auth_limited",
     "empty_response", "unknown"}

DelayStrategies == {"exponential", "linear", "fixed"}

Positive == Nat \ {0}

\* The fields of Config that the retry state machine reads, as validate()
\* leaves them.
Config ==
    {c \in [MaxRecoveryAttempts : Positive, MaxConsecutiveRetries : Positive,
            AuthMaxAttempts : Positive, UnknownMaxAttempts : Positive,
            MaxParallelRetries : Positive, ControllerFailureLimit : Positive,
            StartAckTimeout : Positive, InitialDelay : Positive,
            MaxDelay : Positive, DelayIncrement : Positive,
            DelayStrategy : DelayStrategies, SharedAppServerEnabled : BOOLEAN] :
        c.DelayStrategy # "fixed" => c.MaxDelay >= c.InitialDelay}

MinOf(a, b) == IF a <= b THEN a ELSE b

----------------------------------------------------------------------------
(* Limits and stop reasons.                                                *)

\* The class ceiling a RetryDecision carries; 0 is "no class ceiling".
classCeiling(class, cfg) ==
    IF class = "auth_limited" THEN cfg.AuthMaxAttempts
    ELSE IF class = "unknown" THEN cfg.UnknownMaxAttempts
    ELSE 0

\* retryLimits and retryLimitsForDecision.  No class sets MaxConsecutive, and
\* the unknown class keeps the configured no-progress limit.
recoveryLimit(class, cfg) ==
    IF classCeiling(class, cfg) = 0 THEN cfg.MaxRecoveryAttempts
    ELSE MinOf(classCeiling(class, cfg), cfg.MaxRecoveryAttempts)

consecutiveLimit(class, cfg) ==
    IF class = "auth_limited" THEN MinOf(cfg.AuthMaxAttempts, cfg.MaxConsecutiveRetries)
    ELSE cfg.MaxConsecutiveRetries

completedRetryCount(next) == IF next = 0 THEN 0 ELSE next - 1

retryStopReason(attempt, limit, consecutive, conLimit) ==
    IF attempt > limit THEN "recovery_attempt_limit"
    ELSE IF consecutive > conLimit THEN "consecutive_retry_limit"
    ELSE "retry_limit"

retryStopReasonForClass(class, cfg, attempt, limit, consecutive, conLimit) ==
    IF /\ class = "auth_limited"
       /\ \/ /\ attempt > limit
             /\ limit < cfg.MaxRecoveryAttempts
             /\ limit = cfg.AuthMaxAttempts
          \/ /\ consecutive > conLimit
             /\ conLimit < cfg.MaxConsecutiveRetries
             /\ conLimit = cfg.AuthMaxAttempts
    THEN "auth_attempt_limit"
    ELSE retryStopReason(attempt, limit, consecutive, conLimit)

----------------------------------------------------------------------------
(* The wait before a retry.                                                *)

\* The loop of retryDelay as the code runs it, one iteration per index.
retryDelayLoop(n, cfg) ==
    LET step(d) ==
          IF cfg.DelayStrategy = "linear"
          THEN IF d >= cfg.MaxDelay THEN d
               ELSE IF d + cfg.DelayIncrement >= cfg.MaxDelay THEN cfg.MaxDelay
               ELSE d + cfg.DelayIncrement
          ELSE IF 2 * d >= cfg.MaxDelay THEN cfg.MaxDelay ELSE 2 * d
        delay[i \in Nat] == IF i <= 1 THEN cfg.InitialDelay ELSE step(delay[i - 1])
    IN  IF cfg.DelayStrategy = "fixed" THEN cfg.InitialDelay ELSE delay[n]

PowerOfTwo[n \in Nat] == IF n = 0 THEN 1 ELSE 2 * PowerOfTwo[n - 1]

\* Wrong on purpose: one step too many.
delayOneStepAhead(n, cfg) ==
    MinOf(cfg.MaxDelay, cfg.InitialDelay * PowerOfTwo[n])

\* What the loop computes, without the loop: the grown delay while it is at
\* most the maximum, the maximum afterwards.
retryDelay(n, cfg) ==
    LET steps == completedRetryCount(n)
        grown == {d \in cfg.InitialDelay..cfg.MaxDelay :
                    d = IF cfg.DelayStrategy = "linear"
                        THEN cfg.InitialDelay + steps * cfg.DelayIncrement
                        ELSE cfg.InitialDelay * PowerOfTwo[steps]}
    IN  IF cfg.DelayStrategy = "fixed" THEN cfg.InitialDelay
        ELSE IF grown = {} THEN cfg.MaxDelay
        ELSE CHOOSE d \in grown : TRUE

----------------------------------------------------------------------------
(* Controller failures.                                                    *)

\* Reasons that no retry can cure: the chain stops at once.
controllerFailureNeedsAction(reason) ==
    reason \in {"codex_not_running", "codex_restart_required", "codex_home_not_shared",
                "shared_app_server_port_reserved", "shared_app_server_port_conflict",
                "shared_app_server_environment_conflict",
                "shared_app_server_ownership_unknown", "shared_app_server_disabled",
                "shared_app_server_config_invalid", "shared_app_server_migration_deferred",
                "codex_ipc_goal_control_unsupported"}

\* Reasons after which shared mode is switched off so that Codex falls back to
\* its own backend.
controllerFailureNeedsFailOpen(reason) ==
    reason \in {"shared_app_server_port_reserved", "shared_app_server_port_conflict",
                "shared_app_server_environment_conflict",
                "shared_app_server_ownership_unknown", "shared_app_server_config_invalid",
                "codex_background_channel_unavailable", "codex_background_dispatch_failed",
                "controller_timeout", "controller_invalid_result", "controller_unavailable"}

\* The reason codes of controllerFailureReason, of the dispatch results and of the
\* daemon itself.
ControllerReasons ==
    {"codex_not_running", "codex_restart_required", "codex_home_not_shared",
     "shared_app_server_port_reserved", "shared_app_server_port_conflict",
     "shared_app_server_environment_conflict", "shared_app_server_ownership_unknown",
     "shared_app_server_disabled", "shared_app_server_config_invalid",
     "shared_app_server_migration_deferred", "shared_app_server_memory_limit_exceeded",
     "codex_ipc_goal_control_unsupported", "codex_background_channel_unavailable",
     "codex_background_dispatch_failed", "controller_timeout", "controller_invalid_result",
     "controller_unavailable", "thread_settings_unavailable", "codex_app_not_ready",
     "codex_thread_owner_unavailable", "subagent_parent_owner_unavailable",
     "subagent_parent_recovery_failed", "subagent_recovery_event_unavailable",
     "thread_state_unavailable", "goal_state_unavailable", "thread_not_found",
     "thread_config_unavailable", "app_server_loaded_list_failed",
     "app_server_thread_resume_failed", "app_server_thread_read_failed",
     "app_server_goal_read_failed", "app_server_goal_update_failed",
     "app_server_turn_start_failed", "app_server_subagent_inject_failed",
     "app_server_request_failed", "thread_active", "start_not_acknowledged"}

\* What the daemon reports of its recovery transport.
ControllerStates == ControllerReasons \cup {"starting", "ready", "official_ipc_ready"}

\* Why a chain is given up: a limit of its own, or the controller.
StopReasons ==
    ControllerReasons
    \cup {"recovery_attempt_limit", "consecutive_retry_limit", "retry_limit",
          "auth_attempt_limit", "recovery_time_limit", "goal_empty_response_limit",
          "goal_empty_response_limit_block_failed"}

----------------------------------------------------------------------------
(* Goals.                                                                  *)

\* The goal statuses that the daemon knows, "" for no goal, and one that it
\* does not know.
limitGoalStatuses ==
    {"active", "blocked", "paused", "completed", "complete", "usageLimited", "budgetLimited"}

GoalStates == limitGoalStatuses \cup {"", "other"}

isGoalEmptyResponseStopReason(reason) ==
    reason \in {"goal_empty_response_limit", "goal_empty_response_limit_block_failed"}

\* Did Codex block the goal because of this very failure?
goalBlockedByFailure(goalUpdatedAt, failureAt) ==
    /\ goalUpdatedAt # 0
    /\ failureAt # 0
    /\ goalUpdatedAt + GoalBlockBefore >= failureAt
    /\ goalUpdatedAt <= failureAt + GoalBlockAfter

goalRequiresHold(status, goalUpdatedAt, failureAt) ==
    /\ status # "active"
    /\ status = "blocked" => ~goalBlockedByFailure(goalUpdatedAt, failureAt)

\* May a conversation that the user started while the goal was already held be
\* continued?
heldConversationAllowed(status, goalUpdatedAt, originTurnStartedAt) ==
    /\ originTurnStartedAt # 0
    /\ status \in {"paused", "blocked"}
    /\ goalUpdatedAt <= originTurnStartedAt

\* Why a dispatch is "not applicable" (heldGoalReason and the subagent checks).
SkipReasonCodes ==
    {"goal_paused", "goal_completed", "goal_usage_limited", "goal_budget_limited",
     "goal_blocked_before_failure", "goal_status_changed", "goal_status_unsupported",
     "subagent_non_empty_failure"}

\* The hold a "not applicable" dispatch result puts on the thread: the set of
\* goal statuses it reveals, {""} when the status stays as it is.
goalHoldStatusForReason(reason) ==
    CASE reason = "goal_paused" -> {"paused"}
      [] reason = "goal_completed" -> {"completed"}
      [] reason = "goal_usage_limited" -> {"usageLimited"}
      [] reason = "goal_budget_limited" -> {"budgetLimited"}
      [] reason = "goal_blocked_before_failure" -> {"blocked"}
      [] reason \in {"goal_status_changed", "goal_status_unsupported"} -> {""}
      [] OTHER -> {}
=============================================================================
