--------------------------- MODULE DispatchPromise ---------------------------
(***************************************************************************)
(* What the daemon relies on when it hands a job to the controller         *)
(* (runJob, runGoalBlockJob): whatever calls the controller makes, a job   *)
(* takes effect at most once, an accepted job has taken effect, and a job  *)
(* that was skipped or found the thread busy has not.  A failure leaves    *)
(* both open: the answer to the request may have been lost.                *)
(***************************************************************************)
EXTENDS Naturals

VARIABLES
    open,    \* a job is in the controller's hands
    acted,   \* the effects of this job: turns requested, goals set or found set
    told,    \* the subagent's parent has the notice of this recovery
    answer   \* the last answer: its outcome, and whether it reports the notice

Outcomes == {"dispatched", "user_active", "not_applicable", "retry_later"}

Init == open = FALSE /\ acted = 0 /\ told = FALSE /\ answer = [outcome |-> "none", notified |-> FALSE]

Ask ==
    /\ ~open
    /\ open' = TRUE /\ acted' = 0
    /\ UNCHANGED <<told, answer>>

Tell ==
    /\ open /\ acted = 0
    /\ told' = TRUE
    /\ UNCHANGED <<open, acted, answer>>

\* The effect, with the answer or before it.
Act(replied) ==
    /\ open /\ acted = 0
    /\ acted' = 1
    /\ replied => answer'.outcome \in {"dispatched", "retry_later"}

Answer ==
    /\ open /\ open' = FALSE
    /\ \E outcome \in Outcomes, notified \in BOOLEAN :
          /\ answer' = [outcome |-> outcome, notified |-> notified]
          /\ notified => told'
          /\ outcome = "dispatched" => acted' = 1
          /\ outcome \in {"user_active", "not_applicable"} => acted' = 0

\* The worker dies: nobody hears the answer.
Die ==
    /\ open /\ open' = FALSE
    /\ UNCHANGED <<acted, told, answer>>

Next ==
    \/ Ask \/ Tell \/ Die
    \/ Answer /\ UNCHANGED <<acted, told>>
    \/ Answer /\ ~told /\ told' = TRUE /\ UNCHANGED acted
    \/ Answer /\ Act(TRUE) /\ UNCHANGED told
    \/ Act(FALSE) /\ UNCHANGED <<open, told, answer>>

Spec == Init /\ [][Next]_<<open, acted, told, answer>>
=============================================================================
