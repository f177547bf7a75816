SPECIFICATION HistorySpec
CONSTANTS
  Nil = Nil
  Threads = {t1}
  Features = {"user", "crash", "diskfull"}
  MaxNow = 4
  MaxTurns = 2
  MaxRequests = 1
  MaxCommands = 1
  Outcomes = {"success", "server"}
  GoalStatuses = {}
  Configs <- TwoRetries
  Commands = {"cancel_retry","restart_retry"}
  ErrorReasons = {"controller_timeout"}
  LateReasons = {"controller_timeout"}
  SkipReasons = {"goal_paused"}
  ProbeStates = {}
  GoalBlockBefore = 0
  GoalBlockAfter = 1
  DispatchSlack = 0
  NativeGoalContinuationWindow = 1
  MaxAutomaticRecoveryDuration = 3
  StoppedRetryDisplayWindow = 2
  AwaitingLifecycleConfirmations = 2
  JobTimeout = 2
  ProbeInterval = 1
INVARIANT NoFailureForgotten
