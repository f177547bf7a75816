SPECIFICATION Spec
CONSTANTS
  Nil = Nil
  Threads = {t1}
  Features = {"user", "progress", "notice", "lost", "abort", "slow"}
  MaxNow = 4
  MaxTurns = 2
  MaxRequests = 1
  MaxCommands = 0
  Outcomes = {"success", "server"}
  GoalStatuses = {}
  Configs <- ShortAck
  Commands = {}
  ErrorReasons = {"controller_timeout"}
  LateReasons = {"controller_timeout"}
  SkipReasons = {}
  ProbeStates = {}
  GoalBlockBefore = 0
  GoalBlockAfter = 1
  DispatchSlack = 0
  NativeGoalContinuationWindow = 1
  MaxAutomaticRecoveryDuration = 3
  StoppedRetryDisplayWindow = 2
  AwaitingLifecycleConfirmations = 2
  JobTimeout = 2
  ProbeInterval = 1
INVARIANT TypeOK
INVARIANT OneRetryPhase
INVARIANT NoForgottenDispatch
INVARIANT AbortStopsJobs
INVARIANT ResultMatchesDispatch
PROPERTY OnlyRunTurnsCount
PROPERTY ChainKeepsClock
PROPERTY TickKeepsRunningTurn
PROPERTY ParentStaysNotified
