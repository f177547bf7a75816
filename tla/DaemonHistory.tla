--------------------------- MODULE DaemonHistory ---------------------------
(***************************************************************************)
(* The watchdog with a history of each thread: how its last turn ended,    *)
(* and whether its failure was then let go on purpose.  The history is     *)
(* read off every step and changes nothing of it.                          *)
(***************************************************************************)
EXTENDS DaemonProperties

VARIABLES
    lastEnd,   \* the completion record of the last turn, Nil while one runs
    letGo      \* the last failure is not to be retried

historyVars == <<vars, lastEnd, letGo>>

turnStarted(t) == turn[t] = Nil /\ turn'[t] # Nil
turnEnded(t) == turn[t] # Nil /\ turn'[t] = Nil

\* The record that ended the turn; Nil for a turn that was lost.
endRecord(t) ==
    IF Len(rollout'[t]) > Len(rollout[t]) THEN rollout'[t][Len(rollout'[t])] ELSE Nil

\* The last turn ended with a failure that is to be retried.
turnFailed(t) == IF lastEnd[t] = Nil THEN FALSE ELSE lastEnd[t].class \in FailureClasses

holdsRecord(queue, rec) == \E i \in 1..Len(queue) : queue[i] = rec

\* The record of the failure waits in the rollout file or in the running tick, or a
\* retry of the thread is queued, dispatched or visibly stopped.
accountedFor(t) ==
    turnFailed(t) =>
        \/ holdsRecord(rollout[t], lastEnd[t]) \/ holdsRecord(batch[t], lastEnd[t])
        \/ liveRetry(threads[t]) # Nil \/ threads[t].Stopped # Nil

\* A chain ends on purpose: the goal holds it, or goes on although the goal limit had
\* stopped it; the user cancels the retry; or the controller finds that it does not
\* apply.
dismissed(t) ==
    \/ /\ HandleEvent(t)
       /\ \/ heldFromDispatch(threads'[t])
          \/ automaticGoalLimitStopped(threads[t]) /\ threads'[t].Stopped = Nil
    \/ /\ ControlCommand
       /\ Head(commands) = [thread |-> t, action |-> "cancel_retry"]
    \/ \E j \in jobs : j.thread = t /\ RecoveryNotApplicable(j)

HistoryInit ==
    /\ Init
    /\ lastEnd = [t \in Threads |-> Nil]
    /\ letGo = [t \in Threads |-> FALSE]

HistoryNext ==
    /\ Next
    /\ lastEnd' = [t \in Threads |-> IF turnStarted(t) THEN Nil
                                     ELSE IF turnEnded(t) THEN endRecord(t)
                                     ELSE lastEnd[t]]
    /\ letGo' = [t \in Threads |-> ~accountedFor(t)' /\ (letGo[t] \/ dismissed(t))]

HistorySpec == HistoryInit /\ [][HistoryNext]_historyVars

\* A provider failure is never forgotten: until the thread moves on it is accounted
\* for, unless the chain was ended on purpose - across crashes and failed writes of
\* state.json too.
NoFailureForgotten == \A t \in Threads : accountedFor(t) \/ letGo[t]
=============================================================================
