SPECIFICATION Spec
CONSTANTS
  Nil = Nil
  Threads = {t1}
  Features = {"user", "native", "input"}
  MaxNow = 4
  MaxTurns = 2
  MaxRequests = 1
  MaxCommands = 0
  Outcomes = {"success", "empty_response"}
  GoalStatuses = {"active", "paused"}
  Configs <- OneRetry
  Commands = {}
  ErrorReasons = {"controller_timeout"}
  LateReasons = {"controller_timeout"}
  SkipReasons = {"goal_paused"}
  ProbeStates = {}
  GoalBlockBefore = 0
  GoalBlockAfter = 1
  DispatchSlack = 0
  NativeGoalContinuationWindow = 1
  MaxAutomaticRecoveryDuration = 3
  StoppedRetryDisplayWindow = 2
  AwaitingLifecycleConfirmations = 2
  JobTimeout = 2
  ProbeInterval = 1
INVARIANTS
  GoalStopBacked
  HeldGoalStopsJobs
PROPERTIES
  GoalLimitSticky
