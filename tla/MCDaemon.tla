------------------------------ MODULE MCDaemon ------------------------------
(***************************************************************************)
(* Small configurations for model-checking the daemon.                     *)
(***************************************************************************)
EXTENDS DaemonProperties

cfg(attempts, noProgress, parallel, shared) ==
    [MaxRecoveryAttempts |-> attempts, MaxConsecutiveRetries |-> noProgress,
     AuthMaxAttempts |-> 1, UnknownMaxAttempts |-> 1, MaxParallelRetries |-> parallel,
     ControllerFailureLimit |-> 2, StartAckTimeout |-> 2, InitialDelay |-> 1,
     MaxDelay |-> 1, DelayIncrement |-> 1, DelayStrategy |-> "exponential",
     SharedAppServerEnabled |-> shared]

OneRetry == {cfg(1, 1, 1, TRUE)}
TwoRetries == {cfg(2, 2, 1, TRUE)}
ShortAck == {[cfg(2, 2, 1, TRUE) EXCEPT !.StartAckTimeout = 1]}
LimitsLowered == {[c EXCEPT !.StartAckTimeout = 1] : c \in {cfg(2, 2, 1, TRUE), cfg(1, 2, 1, TRUE)}}
=============================================================================
