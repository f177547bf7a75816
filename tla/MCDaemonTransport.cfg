SPECIFICATION Spec
CONSTANTS
  Nil = Nil
  Threads = {t1}
  Features = {"user", "probe", "failopen", "official", "memory", "flaky"}
  MaxNow = 5
  MaxTurns = 2
  MaxRequests = 1
  MaxCommands = 1
  Outcomes = {"server"}
  GoalStatuses = {}
  Configs <- LimitsLowered
  Commands = {"restart_retry"}
  ErrorReasons = {"shared_app_server_config_invalid"}
  LateReasons = {}
  SkipReasons = {}
  ProbeStates = {"ready", "official_ipc_ready"}
  GoalBlockBefore = 0
  GoalBlockAfter = 1
  DispatchSlack = 0
  NativeGoalContinuationWindow = 1
  MaxAutomaticRecoveryDuration = 4
  StoppedRetryDisplayWindow = 2
  AwaitingLifecycleConfirmations = 2
  JobTimeout = 2
  ProbeInterval = 1
PROPERTY DisabledReopensUnsent
PROPERTY DispatchWithinLimits
