----------------------------- MODULE Controller -----------------------------
(***************************************************************************)
(* One recovery, or one goal stop, as the controller carries it out: a     *)
(* preflight of the Desktop transport and then a dozen calls to an app     *)
(* server that other programs use at the same time.  Between two calls the *)
(* user may start a turn, or pause, resume or clear the goal, Codex may    *)
(* end a turn or block the goal, Desktop may come and go.  A call may be   *)
(* refused, or be carried out and its answer lost.                         *)
(*                                                                         *)
(* The daemon hands the job over again after a failure, and remembers what *)
(* the answer said of the parent's notice.                                 *)
(***************************************************************************)
EXTENDS Naturals

CONSTANTS
    Kinds,         \* of jobs: "recovery", "goal_block"
    MaxMoves,      \* bound on what the user, Codex and Desktop do
    MaxFaults,     \* bound on calls that fail and workers that die
    MaxDispatches  \* bound on the number of times the job is handed over

ASSUME ControllerAssumption ==
    /\ Kinds \subseteq {"recovery", "goal_block"}
    /\ MaxMoves \in Nat /\ MaxFaults \in Nat /\ MaxDispatches \in Nat

VARIABLES
    case,      \* the job: its kind, its thread and its failure
    job,       \* the running job: the next call and what the earlier ones found
    notified,  \* ParentNotified of the daemon's AwaitingRetry
    answer,    \* the DispatchResult of the last job
    acted,     \* effects of the running job: see DispatchPromise
    notices,   \* recovery notices: taken by the parent, and lost to the daemon
    thread,    \* the thread in Codex: loaded, and idle or active
    goal,      \* its goal
    desktop,   \* what the transport check finds: stopped, stdio, unknown, shared
    ipc,       \* the official IPC router answers
    enabled,   \* shared_app_server_enabled in config.json
    late,      \* what changed after the job's last look at it: "goal", "status"
    moves, faults, dispatches

jobVars == <<job, notified, answer, dispatches>>
codex == <<acted, notices, thread, goal>>
around == <<desktop, ipc, enabled>>
vars == <<case, jobVars, codex, around, late, moves, faults>>

\* A goal's last update lies before the start of the failed turn, or within a
\* few seconds of the failure, or both, or neither.
Times == {"before origin", "near failure"}
NoGoal == [status |-> "none", updated |-> {}]
Goals == {NoGoal}
    \cup [status : {"active", "paused", "blocked", "complete"}, updated : SUBSET Times]

BlockedByFailure(g) ==
    g.status = "blocked" /\ (case.restart \/ "near failure" \in g.updated)

\* A conversation the user began while the goal was on hold.
HeldConversationAllowed(g) ==
    /\ case.origin /\ "before origin" \in g.updated
    /\ g.status = "paused" \/ (g.status = "blocked" /\ ~BlockedByFailure(g))

Held(g) == g.status \notin {"none", "active"} /\ ~BlockedByFailure(g)

Permits(g) == Held(g) => HeldConversationAllowed(g)

----------------------------------------------------------------------------
(* The frame of a job's step.                                              *)

At(label) == job.pc = label /\ UNCHANGED <<case, around, late, moves, dispatches>>
Goto(label) == job' = [job EXCEPT !.pc = label] /\ UNCHANGED <<notified, answer>>

\* The job ends; runJob keeps a notice that the answer reports.
ReplyWith(outcome, told) ==
    /\ job' = [job EXCEPT !.pc = "idle"]
    /\ answer' = [outcome |-> outcome, notified |-> told]
    /\ notified' = (notified \/ told)
Reply(outcome) == ReplyWith(outcome, job.notified)

Fails == faults < MaxFaults /\ faults' = faults + 1
Fine == UNCHANGED faults
Nothing == UNCHANGED codex

\* A call that only reads: it is answered, or the job is retried later.
Read(label, answered) ==
    /\ At(label) /\ Nothing
    /\ \/ Fine /\ answered
       \/ Fails /\ Reply("retry_later")

----------------------------------------------------------------------------
(* Dispatch and BlockGoal: preflight.                                      *)

HandOver ==
    /\ job.pc = "idle" /\ dispatches < MaxDispatches
    /\ answer.outcome \in {"none", "retry_later", "user_active"}
    /\ dispatches' = dispatches + 1
    /\ job' = [pc |-> "preflight", notified |-> notified, resumed |-> FALSE, look |-> NoGoal]
    /\ acted' = 0 /\ late' = {}
    /\ UNCHANGED <<case, notified, answer, notices, thread, goal, around, moves, faults>>

\* Official IPC carries a recovery, and no control of goals.
OfficialReady == desktop = "stdio" /\ ipc
TakeOfficial ==
    IF case.kind = "goal_block" THEN Reply("retry_later")
    ELSE Goto(IF case.empty /\ case.subagent /\ ~job.notified THEN "officialTell" ELSE "officialStart")

Preflight ==
    /\ At("preflight") /\ Nothing
    /\ \/ Fine /\ OfficialReady /\ TakeOfficial
       \/ Fine /\ ~OfficialReady /\ enabled /\ Goto("ensured")
       \/ Fine /\ ~OfficialReady /\ ~enabled /\ Reply("retry_later")
       \/ Fails /\ Reply("retry_later")

\* After Ensure the transport is looked at again.
PreflightAgain ==
    /\ At("ensured") /\ Nothing
    /\ \/ Fine /\ OfficialReady /\ TakeOfficial
       \/ Fine /\ desktop = "shared" /\ Goto("loaded")
       \/ Fine /\ ~OfficialReady /\ desktop # "shared" /\ Reply("retry_later")
       \/ Fails /\ Reply("retry_later")

----------------------------------------------------------------------------
(* Effects.                                                                *)

\* Codex takes a turn, on an idle thread or into the turn that runs.
TurnRequested ==
    /\ acted' = acted + 1
    /\ thread' = [loaded |-> TRUE, status |-> "active"]
    /\ UNCHANGED <<notices, goal>>

\* A request is accepted, is refused, or is accepted and its answer is lost.
Request(accepted) ==
    \/ Fine /\ accepted /\ Reply("dispatched")
    \/ Fails /\ Reply("retry_later") /\ (accepted \/ Nothing)

GoalSet(status) ==
    /\ goal.status # "none"
    /\ goal' = [status |-> status, updated |-> {}]
    /\ acted' = acted + 1
    /\ UNCHANGED <<notices, thread>>

NoticeTaken(unheard) ==
    /\ notices' = [taken |-> notices.taken + 1, lost |-> notices.lost + unheard]
    /\ UNCHANGED <<acted, thread, goal>>

\* The parent hears of the recovery; what follows may still fail.
TellParent(label, next) ==
    /\ At(label)
    /\ \/ /\ Fine /\ NoticeTaken(0)
          /\ job' = [job EXCEPT !.pc = next, !.notified = TRUE]
          /\ UNCHANGED <<notified, answer>>
       \/ Fails /\ Reply("retry_later") /\ (NoticeTaken(1) \/ Nothing)

----------------------------------------------------------------------------
(* Official IPC: the notice to the parent's owner, the turn to the owner   *)
(* of the thread.  Neither goal nor status is read.                        *)

OfficialTell == TellParent("officialTell", "officialStart")

\* Wrong on purpose: a failure forgets the notice.
OfficialStartForgetful ==
    /\ At("officialStart")
    /\ \/ Fine /\ TurnRequested /\ Reply("dispatched")
       \/ Fails /\ ReplyWith("retry_later", FALSE) /\ (TurnRequested \/ Nothing)

OfficialStart == At("officialStart") /\ Request(TurnRequested)

----------------------------------------------------------------------------
(* The shared app-server.                                                  *)

ThreadLoaded ==
    Read("loaded", Goto(IF ~thread.loaded THEN "resume"
                        ELSE IF case.kind = "goal_block" THEN "blockLook"
                        ELSE "read"))

\* Wrong on purpose: takes the goal's status for the thread's.
LoadsAsGoal ==
    /\ thread' = [loaded |-> TRUE, status |-> goal.status]
    /\ UNCHANGED <<acted, notices, goal>>

\* thread/resume: an active goal may go on by itself as soon as it is loaded.
Loads ==
    /\ \E started \in {FALSE, goal.status = "active"} :
          thread' = [loaded |-> TRUE, status |-> IF started THEN "active" ELSE thread.status]
    /\ UNCHANGED <<acted, notices, goal>>

ResumeThread ==
    /\ At("resume")
    /\ \/ /\ Fine /\ Loads
          /\ job' = [job EXCEPT !.pc = IF case.kind = "goal_block" THEN "blockLook" ELSE "read",
                                !.resumed = (thread'.status = "active")]
          /\ UNCHANGED <<notified, answer>>
       \/ Fails /\ Reply("retry_later") /\ (Loads \/ Nothing)

Busy == thread.status = "active" \/ job.resumed

ReadThread ==
    Read("read",
         \/ Busy /\ Reply("user_active")
         \/ ~Busy /\ ~case.subagent /\ Goto("goal")
         \/ ~Busy /\ case.subagent /\ ~case.empty /\ Reply("not_applicable")
         \/ /\ ~Busy /\ case.subagent /\ case.empty
            /\ Goto(IF job.notified THEN "recheck" ELSE "inject"))

\* injectSubagentNotice: the parent is loaded, if need be, and told.
InjectNotice == TellParent("inject", "recheck")

ReadThreadAgain ==
    Read("recheck", IF Busy THEN Reply("user_active") ELSE Goto("start"))

ReadGoal ==
    Read("goal",
         IF Permits(goal)
         THEN job' = [job EXCEPT !.pc = "goalAgain", !.look = goal] /\ UNCHANGED <<notified, answer>>
         ELSE Reply("not_applicable"))

\* Wrong on purpose: the goal of the first look decides.
ReadGoalOnce ==
    /\ At("goalAgain") /\ Fine
    /\ \/ job.look.status = "active" /\ acted' = acted + 1 /\ Reply("dispatched")
          /\ UNCHANGED <<notices, thread, goal>>
       \/ BlockedByFailure(job.look) /\ Goto("set") /\ Nothing
       \/ job.look.status # "active" /\ ~BlockedByFailure(job.look) /\ Goto("start") /\ Nothing

\* The goal as it was at the first look: there or not, on hold and the same.
GoalUnchanged ==
    /\ (job.look = NoGoal) = (goal = NoGoal)
    /\ Held(job.look) => goal = job.look

ReadGoalAgain ==
    /\ At("goalAgain")
    /\ \/ /\ Fine
          /\ \/ ~(GoalUnchanged /\ (Held(job.look) \/ ~Held(goal)))
                /\ Reply("not_applicable") /\ Nothing
             \/ /\ GoalUnchanged /\ (Held(job.look) \/ ~Held(goal))
                /\ \/ goal.status = "active" /\ acted' = acted + 1 /\ Reply("dispatched")
                      /\ UNCHANGED <<notices, thread, goal>>
                   \/ BlockedByFailure(goal) /\ Goto("set") /\ Nothing
                   \/ goal.status # "active" /\ ~BlockedByFailure(goal) /\ Goto("start") /\ Nothing
       \/ Fails /\ Reply("retry_later") /\ Nothing

SetGoalActive == At("set") /\ Request(GoalSet("active"))

\* Wrong on purpose: the prompt is sent after every failure.
StartConversationInsisting ==
    /\ At("start")
    /\ \/ Fine /\ TurnRequested /\ Reply("dispatched")
       \/ Fails /\ Goto("prompt") /\ (TurnRequested \/ Nothing)

\* startAppConversation: an empty input first; the prompt only after an explicit
\* refusal of it.
StartConversation ==
    /\ At("start")
    /\ IF case.emptyInput THEN Request(TurnRequested) ELSE Goto("prompt") /\ Nothing /\ Fine

StartWithPrompt == At("prompt") /\ Request(TurnRequested)

DispatchStep ==
    \/ Preflight \/ PreflightAgain \/ OfficialTell \/ OfficialStart
    \/ ThreadLoaded \/ ResumeThread \/ ReadThread \/ InjectNotice \/ ReadThreadAgain
    \/ ReadGoal \/ ReadGoalAgain \/ SetGoalActive \/ StartConversation \/ StartWithPrompt

----------------------------------------------------------------------------
(* BlockGoal.                                                              *)

\* A goal that is not active needs no stop; one that is gone is not reported so.
BlockLook ==
    /\ At("blockLook")
    /\ \/ Fine /\ goal.status = "active" /\ Goto("block") /\ Nothing
       \/ /\ Fine /\ goal.status \notin {"active", "none"}
          /\ acted' = acted + 1 /\ Reply("dispatched")
          /\ UNCHANGED <<notices, thread, goal>>
       \/ Fine /\ goal.status = "none" /\ Reply("retry_later") /\ Nothing
       \/ Fails /\ Reply("retry_later") /\ Nothing

SetGoalBlocked == At("block") /\ Request(GoalSet("blocked"))

BlockStep == BlockLook \/ SetGoalBlocked

----------------------------------------------------------------------------
(* The worker's death, and everything outside.                             *)

WorkerDies ==
    /\ job.pc # "idle" /\ Fails
    /\ job' = [job EXCEPT !.pc = "idle"]
    /\ notices' = IF job.notified /\ ~notified THEN [notices EXCEPT !.lost = @ + 1] ELSE notices
    /\ UNCHANGED <<case, notified, answer, dispatches, acted, thread, goal, around, late, moves>>

\* handleSubagentRecoveryNotice: the parent's rollout shows the notice.
NoticeScanned ==
    /\ notices.taken > 0 /\ ~notified /\ notified' = TRUE
    /\ UNCHANGED <<case, job, answer, dispatches, codex, around, late, moves, faults>>

\* The last looks are behind the job: at the thread's status, at its goal.
StatusSeen == {"start", "prompt"} \cup (IF case.subagent THEN {} ELSE {"goal", "goalAgain"})
GoalSeen == {"set", "start", "prompt", "block"}
Missed(what, seen) == late' = IF job.pc \in seen THEN late \cup {what} ELSE late

Moves ==
    /\ moves < MaxMoves /\ moves' = moves + 1
    /\ UNCHANGED <<case, jobVars, acted, notices, faults>>

TurnStarts ==
    /\ Moves /\ thread.status = "idle"
    /\ thread' = [loaded |-> TRUE, status |-> "active"]
    /\ Missed("status", StatusSeen)
    /\ UNCHANGED <<goal, around>>

TurnEnds ==
    /\ Moves /\ thread.status = "active"
    /\ thread' = [thread EXCEPT !.status = "idle"]
    /\ Missed("status", StatusSeen)
    /\ UNCHANGED <<goal, around>>

ThreadUnloaded ==
    /\ Moves /\ thread = [loaded |-> TRUE, status |-> "idle"]
    /\ thread' = [thread EXCEPT !.loaded = FALSE]
    /\ UNCHANGED <<goal, around, late>>

\* By the user at any time; by Codex, which blocks an active goal at a failure.
GoalMoves ==
    /\ Moves
    /\ \/ \E status \in {"active", "paused", "complete"} : goal' = [status |-> status, updated |-> {}]
       \/ goal' = NoGoal
       \/ goal.status = "active" /\ goal' = [status |-> "blocked", updated |-> {"near failure"}]
    /\ goal' # goal
    /\ Missed("goal", GoalSeen)
    /\ UNCHANGED <<thread, around>>

TransportMoves ==
    /\ Moves
    /\ \/ desktop' \in {"stopped", "stdio", "unknown", "shared"} \ {desktop} /\ UNCHANGED <<ipc, enabled>>
       \/ ipc' = ~ipc /\ UNCHANGED <<desktop, enabled>>
       \/ enabled' = ~enabled /\ UNCHANGED <<desktop, ipc>>
    /\ UNCHANGED <<thread, goal, late>>

Outside == TurnStarts \/ TurnEnds \/ ThreadUnloaded \/ GoalMoves \/ TransportMoves

----------------------------------------------------------------------------
\* A subagent has no goal of its own, and a goal stop concerns the goal of a
\* task of the user's.
Init ==
    /\ case \in [kind : Kinds, subagent : BOOLEAN, empty : BOOLEAN, restart : BOOLEAN,
                 origin : BOOLEAN, emptyInput : BOOLEAN]
    /\ case.kind = "goal_block" =>
          case.empty /\ ~case.subagent /\ ~case.restart /\ ~case.origin /\ case.emptyInput
    /\ case.subagent => ~case.restart /\ ~case.origin
    /\ goal \in Goals /\ (case.subagent => goal = NoGoal)
    /\ job = [pc |-> "idle", notified |-> FALSE, resumed |-> FALSE, look |-> NoGoal]
    /\ notified = FALSE /\ answer = [outcome |-> "none", notified |-> FALSE]
    /\ acted = 0 /\ notices = [taken |-> 0, lost |-> 0]
    /\ thread \in [loaded : BOOLEAN, status : {"idle"}]
    /\ desktop \in {"stdio", "shared"} /\ ipc \in BOOLEAN /\ enabled = TRUE
    /\ late = {} /\ moves = 0 /\ faults = 0 /\ dispatches = 0

Next == HandOver \/ DispatchStep \/ BlockStep \/ WorkerDies \/ NoticeScanned \/ Outside

Spec == Init /\ [][Next]_vars

----------------------------------------------------------------------------
(* Properties.                                                             *)

Labels == {"idle", "preflight", "ensured", "officialTell", "officialStart", "loaded", "resume",
           "read", "inject", "recheck", "goal", "goalAgain", "set", "start", "prompt",
           "blockLook", "block"}

\* The job, its findings and the state of Codex are of the kind the code keeps.
TypeOK ==
    /\ job \in [pc : Labels, notified : BOOLEAN, resumed : BOOLEAN, look : Goals]
    /\ answer \in [outcome : {"none", "dispatched", "user_active", "not_applicable", "retry_later"},
                   notified : BOOLEAN]
    /\ notified \in BOOLEAN /\ acted \in Nat
    /\ notices \in [taken : Nat, lost : Nat]
    /\ thread \in [loaded : BOOLEAN, status : {"idle", "active"}] /\ goal \in Goals
    /\ desktop \in {"stopped", "stdio", "unknown", "shared"} /\ ipc \in BOOLEAN /\ enabled \in BOOLEAN
    /\ late \subseteq {"goal", "status"}
    /\ moves \in 0..MaxMoves /\ faults \in 0..MaxFaults /\ dispatches \in 0..MaxDispatches

\* "A goal appearing, disappearing, pausing, or changing to a terminal or limited
\* state during dispatch fails closed" (docs/architecture.md:245), and a thread
\* that became busy is left alone: over the shared server a turn is requested, or
\* a goal set, against the state of goal and thread only if that state is newer
\* than the job's last look at it.
RequestsFollowLook ==
    [][acted' > acted =>
         /\ job.pc \in {"start", "prompt"} /\ ~case.subagent /\ "goal" \notin late
               => goal.status # "active" /\ Permits(goal)
         /\ job.pc \in {"start", "prompt"} /\ "status" \notin late => thread.status = "idle"
         /\ job.pc = "set" /\ "goal" \notin late => BlockedByFailure(goal)
         /\ job.pc = "block" /\ "goal" \notin late => goal.status = "active"]_vars

\* Subagent recovery notifies the parent "once" (docs/architecture.md:278-281): however
\* often the job is handed over, the parent is told again only if the answer to
\* a notice was lost or the worker died with it.
ParentToldOnce == notices.taken <= 1 + notices.lost

\* Whatever the interleaving, the daemon sees a job that takes effect at most
\* once and whose answer tells the truth about it (daemon.go:911, 923).
Promise == INSTANCE DispatchPromise WITH
               open <- job.pc # "idle", told <- notices.taken > 0
KeepsPromise == Promise!Spec
=============================================================================
