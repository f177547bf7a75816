SPECIFICATION Spec
CONSTANTS
  Nil = Nil
  Threads = {t1}
  Features = {"user"}
  MaxNow = 5
  MaxTurns = 2
  MaxRequests = 1
  MaxCommands = 0
  Outcomes = {"server"}
  GoalStatuses = {}
  Configs <- TwoRetries
  Commands = {}
  ErrorReasons = {}
  LateReasons = {"controller_timeout"}
  SkipReasons = {}
  ProbeStates = {}
  GoalBlockBefore = 0
  GoalBlockAfter = 1
  DispatchSlack = 0
  NativeGoalContinuationWindow = 1
  MaxAutomaticRecoveryDuration = 3
  StoppedRetryDisplayWindow = 2
  AwaitingLifecycleConfirmations = 2
  JobTimeout = 2
  ProbeInterval = 1
PROPERTIES
  RunningTurnNotRequeued
