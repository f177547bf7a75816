------------------------------- MODULE Codex -------------------------------
(***************************************************************************)
(* What the watchdog observes of Codex (an external program): the turns of *)
(* each thread, the lifecycle records Codex appends to the thread's        *)
(* rollout file, and the thread's goal.  The records are the ones that     *)
(* events.go accepts; the turns are what the app-server reports when a     *)
(* lifecycle probe asks for the status of a thread.                        *)
(***************************************************************************)
EXTENDS RetryThread, Sequences

CONSTANTS
    Threads,       \* the Codex threads
    MaxNow,        \* bound of the clock
    MaxTurns,      \* bound of the turns that Codex starts
    MaxRequests,   \* bound of the turns requested from a thread and not started
    Outcomes,      \* how a turn may complete
    GoalStatuses,  \* the statuses that the user or the model gives a goal
    Features       \* the optional behaviours of a run

ASSUME CodexAssumption ==
    /\ IsFiniteSet(Threads)
    /\ MaxNow \in Nat /\ MaxTurns \in Nat /\ MaxRequests \in Nat
    /\ Outcomes \subseteq FailureClasses \cup {"success", "none"}
    /\ GoalStatuses \subseteq GoalStates
    /\ Features \subseteq {"user", "native", "progress", "input", "abort", "lost", "notice",
                           "probe", "official", "failopen", "flaky", "memory",
                           "pause", "crash", "diskfull", "slow"}

VARIABLES
    now,       \* the clock
    rollout,   \* the records that the watchdog has not scanned yet
    turn,      \* the running turn of a thread, or Nil
    nextTurn,  \* the id of the next turn, in creation order
    goal,      \* the goal of a thread, status "" when there is none
    requests   \* the failures for which the watchdog asked Codex for a turn

codexVars == <<rollout, turn, nextTurn, goal, requests>>

Turn == [id : Nat, origin : {"user", "native", "watchdog"}]

\* A running turn is told from none.
ASSUME NilTurnAssumption == Nil \notin Turn

CodexTypeOK ==
    /\ now \in Nat
    /\ rollout \in [Threads -> Seq(Event)]
    /\ turn \in [Threads -> Turn \cup {Nil}]
    /\ nextTurn \in Nat
    /\ goal \in [Threads -> [status : GoalStates, updatedAt : Nat]]
    /\ requests \in [Threads -> SUBSET Nat]

CodexInit ==
    /\ now = 1
    /\ rollout = [t \in Threads |-> <<>>]
    /\ turn = [t \in Threads |-> Nil]
    /\ nextTurn = 1
    /\ goal = [t \in Threads |-> [status |-> "", updatedAt |-> 0]]
    /\ requests = [t \in Threads |-> {}]

record(kind, id) ==
    [kind |-> kind, turn |-> id, at |-> now, class |-> "none", status |-> "",
     updatedAt |-> 0, key |-> 0]

append(t, ev) == rollout' = [rollout EXCEPT ![t] = Append(@, ev)]

startTurn(t, origin) ==
    /\ turn[t] = Nil
    /\ nextTurn <= MaxTurns
    /\ turn' = [turn EXCEPT ![t] = [id |-> nextTurn, origin |-> origin]]
    /\ nextTurn' = nextTurn + 1
    /\ append(t, record("task_started", nextTurn))
    /\ UNCHANGED goal

\* The user sends a message to an idle thread.
UserStart(t) ==
    /\ "user" \in Features
    /\ startTurn(t, "user")
    /\ UNCHANGED requests

\* The goal engine continues an active goal.
NativeStart(t) ==
    /\ "native" \in Features
    /\ goal[t].status = "active"
    /\ startTurn(t, "native")
    /\ UNCHANGED requests

\* A turn that the watchdog requested begins.
RequestedStart(t) ==
    /\ startTurn(t, "watchdog")
    /\ \E key \in requests[t] : requests' = [requests EXCEPT ![t] = @ \ {key}]

\* Bounds the optional records: at most one of a kind and a turn between scans.
recordQueued(t, kind, ids) ==
    \E i \in DOMAIN rollout[t] : rollout[t][i].kind = kind /\ rollout[t][i].turn \in ids

\* A visible reply or a completed tool call.
Progress(t) ==
    /\ "progress" \in Features
    /\ turn[t] # Nil
    /\ ~recordQueued(t, "task_progress", {turn[t].id})
    /\ append(t, record("task_progress", turn[t].id))
    /\ UNCHANGED <<turn, nextTurn, goal, requests>>

\* The user steers the running turn; older records carry no turn id.
UserInput(t) ==
    /\ "input" \in Features
    /\ turn[t] # Nil
    /\ ~recordQueued(t, "task_user_input", {0, turn[t].id})
    /\ \E id \in {0, turn[t].id} : append(t, record("task_user_input", id))
    /\ UNCHANGED <<turn, nextTurn, goal, requests>>

Complete(t) ==
    /\ turn[t] # Nil
    /\ \E class \in Outcomes :
          append(t, [record("task_complete", turn[t].id) EXCEPT !.class = class])
    /\ turn' = [turn EXCEPT ![t] = Nil]
    /\ UNCHANGED <<nextTurn, goal, requests>>

Abort(t) ==
    /\ "abort" \in Features
    /\ turn[t] # Nil
    /\ \E id \in {0, turn[t].id} : append(t, record("turn_aborted", id))
    /\ turn' = [turn EXCEPT ![t] = Nil]
    /\ UNCHANGED <<nextTurn, goal, requests>>

\* Codex dies in the middle of a turn and never writes its completion.
Lose(t) ==
    /\ "lost" \in Features
    /\ turn[t] # Nil
    /\ turn' = [turn EXCEPT ![t] = Nil]
    /\ UNCHANGED <<rollout, nextTurn, goal, requests>>

setGoal(t, status) ==
    /\ goal' = [goal EXCEPT ![t] = [status |-> status, updatedAt |-> now]]
    /\ append(t, [record("thread_goal_updated", 0)
                    EXCEPT !.status = status, !.updatedAt = now])

\* A goal has at most one revision per time unit, so that its time orders them.
UpdateGoal(t) ==
    /\ goal[t].updatedAt < now
    /\ \E status \in GoalStatuses \ {goal[t].status} : setGoal(t, status)
    /\ UNCHANGED <<turn, nextTurn, requests>>

\* The recovery notice about a failed turn reaches the parent of a subagent.
Notice(t) ==
    /\ "notice" \in Features
    /\ ~recordQueued(t, "subagent_recovery_notice", {0})
    /\ \E key \in 1..(nextTurn - 1) :
          append(t, [record("subagent_recovery_notice", 0) EXCEPT !.key = key])
    /\ UNCHANGED <<turn, nextTurn, goal, requests>>

CodexStep(t) ==
    \/ UserStart(t) \/ NativeStart(t) \/ RequestedStart(t)
    \/ Progress(t) \/ UserInput(t)
    \/ Complete(t) \/ Abort(t) \/ Lose(t)
    \/ UpdateGoal(t) \/ Notice(t)
=============================================================================
