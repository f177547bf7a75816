---------------------------- MODULE MCAlgorithms ----------------------------
(***************************************************************************)
(* The algorithms that run alone: the delay of a retry, over every small   *)
(* configuration and number of retries, and the merge of an older          *)
(* state.json, over every small one and every order.  A behaviour asks one *)
(* of the two questions; the inputs of the other are then empty or fixed.  *)
(***************************************************************************)
EXTENDS RetryPolicy, Migration

CONSTANTS MaxDelays, MaxRetries   \* bounds of the enumerated inputs

VARIABLES cfg, retry
chain == <<cfg, retry>>

MCOwner == [turn \in Turns |-> "thread"]

Configurations ==
    {c \in [MaxRecoveryAttempts : {1}, MaxConsecutiveRetries : {1},
            AuthMaxAttempts : {1}, UnknownMaxAttempts : {1},
            MaxParallelRetries : {1}, ControllerFailureLimit : {1},
            StartAckTimeout : {1}, InitialDelay : {1, 2, 3},
            MaxDelay : MaxDelays, DelayIncrement : {1, 3},
            DelayStrategy : DelayStrategies, SharedAppServerEnabled : {TRUE}] :
        c.DelayStrategy # "fixed" => c.MaxDelay >= c.InitialDelay}

NothingSaved == DOMAIN saved = {} /\ DOMAIN loaded = {}

InitAlgorithms ==
    /\ Init /\ retry = 1
    /\ IF NothingSaved THEN cfg \in Configurations ELSE cfg = CHOOSE c \in Configurations : TRUE

\* The chain walks up its retries.
NextRetry ==
    /\ NothingSaved
    /\ retry < MaxRetries /\ retry' = retry + 1
    /\ UNCHANGED <<cfg, vars>>

NextAlgorithms == NextRetry \/ (Next /\ UNCHANGED chain)

SpecAlgorithms == InitAlgorithms /\ [][NextAlgorithms]_<<chain, vars>>

\* runner.go retryDelay: its loop computes the capped linear or doubling delay,
\* at the first retry, at the retry that reaches the maximum, and past it.
DelayMatchesLoop == retryDelay(retry, cfg) = retryDelayLoop(retry, cfg)
=============================================================================
