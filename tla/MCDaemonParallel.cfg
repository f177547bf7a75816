SPECIFICATION Spec
CONSTANTS
  Nil = Nil
  Threads = {t1, t2}
  Features = {"user", "pause", "crash"}
  MaxNow = 4
  MaxTurns = 2
  MaxRequests = 1
  MaxCommands = 0
  Outcomes = {"server"}
  GoalStatuses = {}
  Configs <- OneRetry
  Commands = {}
  ErrorReasons = {}
  LateReasons = {}
  SkipReasons = {}
  ProbeStates = {}
  GoalBlockBefore = 0
  GoalBlockAfter = 1
  DispatchSlack = 0
  NativeGoalContinuationWindow = 1
  MaxAutomaticRecoveryDuration = 3
  StoppedRetryDisplayWindow = 2
  AwaitingLifecycleConfirmations = 2
  JobTimeout = 2
  ProbeInterval = 1
INVARIANT OneJobPerThread
INVARIANT CountersAgree
PROPERTY WorkConserving
