--------------------------- MODULE ControllerProofs ---------------------------
(***************************************************************************)
(* What Controller promises for any kinds of jobs and any bounds: its      *)
(* types, the single notice to the parent, requests that follow the last   *)
(* look, and that it implements DispatchPromise.                           *)
(***************************************************************************)
EXTENDS Controller, TLAPS

\* The job never changes, and only its own thread has a goal to look at.
CaseOK == case \in [kind : Kinds, subagent : BOOLEAN, empty : BOOLEAN, restart : BOOLEAN,
                    origin : BOOLEAN, emptyInput : BOOLEAN]

\* A job in the controller's hands has taken no effect yet.
Unacted == job.pc # "idle" => acted = 0

\* What the daemon, or the job in its stead, knows of the parent's notice.
Knows == IF job.pc = "idle" THEN notified ELSE job.notified
Counted == notices.taken <= notices.lost + (IF Knows THEN 1 ELSE 0)
Truthful == job.notified \/ notified \/ answer.notified => notices.taken > 0
NotYetTold == job.pc \in {"officialTell", "inject"} => ~job.notified

\* Only a subagent has a parent to tell, and only a task has a goal to read.
Branch(label) ==
    /\ label \in {"inject", "recheck"} => case.subagent
    /\ label \in {"goal", "goalAgain"} => ~case.subagent

\* A request that is next stands on a look that nothing has overtaken.
LookedAt(label) ==
    /\ label \in StatusSeen /\ "status" \notin late => thread.status = "idle"
    /\ label \in {"start", "prompt"} /\ ~case.subagent /\ "goal" \notin late
          => goal.status # "active" /\ Permits(goal)
    /\ label = "set" /\ "goal" \notin late => BlockedByFailure(goal)
    /\ label = "block" /\ "goal" \notin late => goal.status = "active"
FirstLook == job.pc = "goalAgain" => Permits(job.look)

\* The inductive invariant.
Inv ==
    /\ TypeOK /\ CaseOK
    /\ Unacted
    /\ Counted /\ Truthful /\ NotYetTold
    /\ Branch(job.pc) /\ LookedAt(job.pc) /\ FirstLook

LookStep ==
    acted' > acted =>
         /\ job.pc \in {"start", "prompt"} /\ ~case.subagent /\ "goal" \notin late
               => goal.status # "active" /\ Permits(goal)
         /\ job.pc \in {"start", "prompt"} /\ "status" \notin late => thread.status = "idle"
         /\ job.pc = "set" /\ "goal" \notin late => BlockedByFailure(goal)
         /\ job.pc = "block" /\ "goal" \notin late => goal.status = "active"

PromiseStep ==
    Promise!Next \/ UNCHANGED <<job.pc # "idle", acted, notices.taken > 0, answer>>

Kept == Inv' /\ LookStep /\ PromiseStep

----------------------------------------------------------------------------
(* Steps of a job.                                                         *)

\* What every step of a job leaves alone.
Frame == UNCHANGED <<case, around, late, moves, dispatches>> /\ faults' \in 0..MaxFaults

LEMMA FrameHolds ==
    ASSUME TypeOK, NEW label, At(label), Fine \/ Fails
    PROVE  Frame /\ job.pc = label
<1>1. CASE Fine BY <1>1 DEF TypeOK, At, Fine, Frame
<1>2. CASE Fails BY <1>2, ControllerAssumption DEF TypeOK, At, Fails, Frame
<1> QED BY <1>1, <1>2

\* What a request does is allowed by LookedAt.
LEMMA LookedStep ==
    ASSUME Inv
    PROVE  LookStep
BY DEF Inv, LookedAt, LookStep, StatusSeen

\* The job ends without an effect.
LEMMA GivenUp ==
    ASSUME Inv, job.pc # "idle", NEW outcome \in {"user_active", "not_applicable", "retry_later"},
           Reply(outcome), Frame, Nothing
    PROVE  Kept
<1> USE DEF Nothing, codex, around, Frame, Reply, ReplyWith
<1>1. /\ job' = [job EXCEPT !.pc = "idle"]
      /\ answer' = [outcome |-> outcome, notified |-> job.notified]
      /\ notified' = (notified \/ job.notified)
      /\ job'.pc = "idle" /\ job'.notified = job.notified
  BY DEF Inv, TypeOK
<1>2. TypeOK' BY <1>1 DEF Inv, TypeOK, Labels
<1>3. CaseOK' BY DEF Inv, CaseOK
<1>4. Counted' BY <1>1 DEF Inv, TypeOK, Counted, Knows
<1>5. Truthful' BY <1>1 DEF Inv, TypeOK, Truthful
<1>6. Unacted' /\ NotYetTold' /\ Branch(job.pc)' /\ LookedAt(job.pc)' /\ FirstLook'
  BY <1>1 DEF Unacted, NotYetTold, Branch, LookedAt, FirstLook, StatusSeen
<1>7. PromiseStep
  <2>1. Promise!Answer
    BY <1>1, <1>5 DEF Inv, TypeOK, Unacted, Truthful, Promise!Answer, Promise!Outcomes
  <2> QED BY <2>1 DEF PromiseStep, Promise!Next
<1> QED BY <1>2, <1>3, <1>4, <1>5, <1>6, <1>7, LookedStep DEF Inv, Kept

\* The job goes on to another call.
LEMMA GoneOn ==
    ASSUME Inv, job.pc # "idle", NEW label \in Labels \ {"idle", "goalAgain"},
           Goto(label), Frame, Nothing, Branch(label), LookedAt(label),
           label \in {"officialTell", "inject"} => ~job.notified
    PROVE  Kept
<1> USE DEF Nothing, codex, around, Frame, Goto
<1>1. job'.pc = label /\ job'.notified = job.notified /\ job'.look = job.look
  BY DEF Inv, TypeOK
<1>2. TypeOK' BY DEF Inv, TypeOK
<1>3. CaseOK' /\ Unacted' BY DEF Inv, CaseOK, Unacted
<1>4. Counted' /\ Truthful' BY <1>1 DEF Inv, Counted, Knows, Truthful
<1>5. NotYetTold' /\ Branch(job.pc)' /\ FirstLook' BY <1>1 DEF NotYetTold, Branch, FirstLook
<1>6. LookedAt(job.pc)' BY <1>1 DEF LookedAt, StatusSeen, Permits, Held, BlockedByFailure,
                                     HeldConversationAllowed
<1>7. PromiseStep BY <1>1 DEF PromiseStep
<1> QED BY <1>2, <1>3, <1>4, <1>5, <1>6, <1>7, LookedStep DEF Inv, Kept

\* A request takes effect, and the job ends with its answer or without.
LEMMA TakenEffect ==
    ASSUME Inv, job.pc # "idle", NEW outcome \in {"dispatched", "retry_later"},
           Reply(outcome), Frame, acted' = acted + 1, UNCHANGED notices,
           thread' \in [loaded : BOOLEAN, status : {"idle", "active"}], goal' \in Goals
    PROVE  Kept
<1> USE DEF around, Frame, Reply, ReplyWith
<1>1. /\ job' = [job EXCEPT !.pc = "idle"]
      /\ answer' = [outcome |-> outcome, notified |-> job.notified]
      /\ notified' = (notified \/ job.notified)
      /\ job'.pc = "idle" /\ job'.notified = job.notified
  BY DEF Inv, TypeOK
<1>2. TypeOK' BY <1>1 DEF Inv, TypeOK, Labels
<1>3. CaseOK' BY DEF Inv, CaseOK
<1>4. Counted' BY <1>1 DEF Inv, TypeOK, Counted, Knows
<1>5. Truthful' BY <1>1 DEF Inv, TypeOK, Truthful
<1>6. Unacted' /\ NotYetTold' /\ Branch(job.pc)' /\ LookedAt(job.pc)' /\ FirstLook'
  BY <1>1 DEF Unacted, NotYetTold, Branch, LookedAt, FirstLook, StatusSeen
<1>7. PromiseStep
  <2>1. acted = 0 /\ acted' = 1 BY DEF Inv, Unacted
  <2>2. Promise!Answer
    BY <1>1, <1>5, <2>1 DEF Inv, TypeOK, Truthful, Promise!Answer, Promise!Outcomes
  <2>3. Promise!Act(TRUE) BY <1>1, <2>1 DEF Promise!Act
  <2> QED BY <2>2, <2>3 DEF PromiseStep, Promise!Next
<1> QED BY <1>2, <1>3, <1>4, <1>5, <1>6, <1>7, LookedStep DEF Inv, Kept

\* The notice to the parent, heard of or not.
LEMMA ParentTold ==
    ASSUME Inv, NEW label \in {"officialTell", "inject"}, NEW next \in {"officialStart", "recheck"},
           label = "inject" <=> next = "recheck", TellParent(label, next)
    PROVE  Kept
<1>1. Frame /\ job.pc = label BY FrameHolds DEF Inv, TellParent
<1>2. ~job.notified BY <1>1 DEF Inv, NotYetTold
<1>3. notices.taken \in Nat /\ notices.lost \in Nat /\ notices.taken <= notices.lost
  BY <1>1, <1>2 DEF Inv, TypeOK, Counted, Knows
<1>4. CASE Fails /\ Reply("retry_later") /\ Nothing
  BY <1>1, <1>4, GivenUp
<1>5. CASE /\ NoticeTaken(0)
           /\ job' = [job EXCEPT !.pc = next, !.notified = TRUE]
           /\ UNCHANGED <<notified, answer>>
  <2> USE DEF around, Frame, NoticeTaken
  <2>1. job'.pc = next /\ job'.notified = TRUE /\ job'.look = job.look
    BY <1>5 DEF Inv, TypeOK
  <2>2. notices' = [taken |-> notices.taken + 1, lost |-> notices.lost]
    BY <1>3, <1>5
  <2>3. TypeOK'
    <3>1. notices' \in [taken : Nat, lost : Nat] BY <1>3, <2>2
    <3>2. job' \in [pc : Labels, notified : BOOLEAN, resumed : BOOLEAN, look : Goals]
      BY <1>5 DEF Inv, TypeOK, Labels
    <3> QED BY <1>1, <1>5, <3>1, <3>2 DEF Inv, TypeOK
  <2>4. CaseOK' /\ Unacted' BY <1>1, <1>5 DEF Inv, CaseOK, Unacted
  <2>5. Counted' BY <1>3, <2>1, <2>2 DEF Counted, Knows
  <2>6. Truthful' BY <1>3, <2>2 DEF Truthful
  <2>7. NotYetTold' /\ LookedAt(job.pc)' /\ FirstLook'
    BY <2>1 DEF NotYetTold, LookedAt, FirstLook, StatusSeen
  <2>8. Branch(job.pc)' BY <1>1, <2>1 DEF Inv, Branch
  <2>9. PromiseStep
    <3>1. Promise!Tell
      BY <1>1, <1>3, <1>5, <2>1, <2>2 DEF Inv, Unacted, Promise!Tell
    <3> QED BY <3>1 DEF PromiseStep, Promise!Next
  <2> QED BY <2>3, <2>4, <2>5, <2>6, <2>7, <2>8, <2>9, LookedStep DEF Inv, Kept
<1>6. CASE Reply("retry_later") /\ NoticeTaken(1)
  <2> USE DEF around, Frame, NoticeTaken, Reply, ReplyWith
  <2>1. /\ job' = [job EXCEPT !.pc = "idle"]
        /\ answer' = [outcome |-> "retry_later", notified |-> job.notified]
        /\ notified' = (notified \/ job.notified)
        /\ job'.pc = "idle" /\ job'.notified = job.notified
    BY <1>6 DEF Inv, TypeOK
  <2>2. notices' = [taken |-> notices.taken + 1, lost |-> notices.lost + 1]
    BY <1>6
  <2>3. TypeOK' BY <1>1, <1>3, <1>6, <2>1, <2>2 DEF Inv, TypeOK, Labels
  <2>4. CaseOK' BY <1>1 DEF Inv, CaseOK
  <2>5. Counted' BY <1>3, <2>1, <2>2 DEF Counted, Knows
  <2>6. Truthful' BY <1>3, <2>2 DEF Truthful
  <2>7. Unacted' /\ NotYetTold' /\ Branch(job.pc)' /\ LookedAt(job.pc)' /\ FirstLook'
    BY <2>1 DEF Unacted, NotYetTold, Branch, LookedAt, FirstLook, StatusSeen
  <2>8. PromiseStep
    <3>1. Promise!Answer
      BY <1>1, <1>2, <2>1 DEF Inv, TypeOK, Promise!Answer, Promise!Outcomes
    <3>2. notices'.taken > 0 /\ UNCHANGED acted BY <1>3, <1>6, <2>2
    <3> QED BY <3>1, <3>2 DEF PromiseStep, Promise!Next
  <2> QED BY <2>3, <2>4, <2>5, <2>6, <2>7, <2>8, LookedStep DEF Inv, Kept
<1> QED BY <1>4, <1>5, <1>6 DEF TellParent

----------------------------------------------------------------------------
(* Dispatch.                                                               *)

LEMMA PreflightKeeps ==
    ASSUME Inv, Preflight \/ PreflightAgain
    PROVE  Kept
<1>1. Frame /\ job.pc # "idle" /\ Nothing
  BY FrameHolds DEF Inv, Preflight, PreflightAgain
<1>2. CASE Reply("retry_later") BY <1>1, <1>2, GivenUp
<1>3. CASE \E label \in {"ensured", "loaded", "officialStart"} : Goto(label)
  <2>1. PICK label \in {"ensured", "loaded", "officialStart"} : Goto(label) BY <1>3
  <2>2. Branch(label) /\ LookedAt(label) BY DEF Branch, LookedAt, StatusSeen
  <2> QED BY <1>1, <2>1, <2>2, GoneOn DEF Labels
<1>4. CASE Goto("officialTell") /\ ~job.notified
  <2>1. Branch("officialTell") /\ LookedAt("officialTell") BY DEF Branch, LookedAt, StatusSeen
  <2> QED BY <1>1, <1>4, <2>1, GoneOn DEF Labels
<1>5. ASSUME TakeOfficial
      PROVE  \/ Reply("retry_later")
             \/ Goto("officialStart")
             \/ Goto("officialTell") /\ ~job.notified
  BY <1>5 DEF TakeOfficial
<1> QED BY <1>2, <1>3, <1>4, <1>5 DEF Preflight, PreflightAgain

LEMMA ThreadLoadedKeeps ==
    ASSUME Inv, ThreadLoaded
    PROVE  Kept
<1>1. Frame /\ job.pc # "idle" /\ Nothing BY FrameHolds DEF Inv, ThreadLoaded, Read
<1>2. CASE Reply("retry_later") BY <1>1, <1>2, GivenUp
<1>3. CASE \E label \in {"resume", "blockLook", "read"} : Goto(label)
  <2>1. PICK label \in {"resume", "blockLook", "read"} : Goto(label) BY <1>3
  <2>2. Branch(label) /\ LookedAt(label) BY DEF Branch, LookedAt, StatusSeen
  <2> QED BY <1>1, <2>1, <2>2, GoneOn DEF Labels
<1> QED BY <1>2, <1>3 DEF ThreadLoaded, Read

\* thread/resume touches the thread before anything was looked at.
LEMMA ResumeKeeps ==
    ASSUME Inv, ResumeThread
    PROVE  Kept
<1>1. Frame /\ job.pc = "resume" BY FrameHolds DEF Inv, ResumeThread
<1> USE DEF Nothing, codex, around, Frame
<1>2. CASE Reply("retry_later") /\ Nothing BY <1>1, <1>2, GivenUp
<1>3. Loads => /\ UNCHANGED <<acted, notices, goal>>
              /\ thread' \in [loaded : BOOLEAN, status : {"idle", "active"}]
  BY DEF Loads, Inv, TypeOK
<1>4. CASE Reply("retry_later") /\ Loads
  <2> USE DEF Reply, ReplyWith
  <2>1. /\ job' = [job EXCEPT !.pc = "idle"]
        /\ answer' = [outcome |-> "retry_later", notified |-> job.notified]
        /\ notified' = (notified \/ job.notified)
        /\ job'.pc = "idle" /\ job'.notified = job.notified
    BY <1>4 DEF Inv, TypeOK
  <2>2. TypeOK' BY <1>1, <1>3, <1>4, <2>1 DEF Inv, TypeOK, Labels
  <2>3. CaseOK' BY <1>1 DEF Inv, CaseOK
  <2>4. Counted' BY <1>1, <1>3, <1>4, <2>1 DEF Inv, TypeOK, Counted, Knows
  <2>5. Truthful' BY <1>3, <1>4, <2>1 DEF Inv, TypeOK, Truthful
  <2>6. Unacted' /\ NotYetTold' /\ Branch(job.pc)' /\ LookedAt(job.pc)' /\ FirstLook'
    BY <2>1 DEF Unacted, NotYetTold, Branch, LookedAt, FirstLook, StatusSeen
  <2>7. Promise!Answer
    BY <1>1, <1>3, <1>4, <2>1, <2>5
       DEF Inv, TypeOK, Unacted, Truthful, Promise!Answer, Promise!Outcomes
  <2>8. PromiseStep BY <1>3, <1>4, <2>7 DEF PromiseStep, Promise!Next
  <2> QED BY <2>2, <2>3, <2>4, <2>5, <2>6, <2>8, LookedStep DEF Inv, Kept
<1>5. CASE \E label \in {"blockLook", "read"}, resumed \in BOOLEAN :
              /\ Loads
              /\ job' = [job EXCEPT !.pc = label, !.resumed = resumed]
              /\ UNCHANGED <<notified, answer>>
  <2>1. PICK label \in {"blockLook", "read"}, resumed \in BOOLEAN :
              job' = [job EXCEPT !.pc = label, !.resumed = resumed]
    BY <1>5
  <2>2. job'.pc = label /\ job'.notified = job.notified BY <2>1 DEF Inv, TypeOK
  <2>3. UNCHANGED <<notified, answer, acted, notices, goal>> BY <1>3, <1>5
  <2>4. TypeOK' BY <1>1, <1>3, <1>5, <2>1, <2>3 DEF Inv, TypeOK, Labels
  <2>5. CaseOK' /\ Unacted' BY <1>1, <2>3 DEF Inv, CaseOK, Unacted
  <2>6. Counted' /\ Truthful' BY <1>1, <2>2, <2>3 DEF Inv, Counted, Knows, Truthful
  <2>7. NotYetTold' /\ Branch(job.pc)' /\ LookedAt(job.pc)' /\ FirstLook'
    BY <2>2 DEF NotYetTold, Branch, LookedAt, FirstLook, StatusSeen
  <2>8. PromiseStep BY <1>1, <2>2, <2>3 DEF PromiseStep
  <2> QED BY <2>4, <2>5, <2>6, <2>7, <2>8, LookedStep DEF Inv, Kept
<1>6. Fine /\ Loads /\ job' = [job EXCEPT !.pc = IF case.kind = "goal_block" THEN "blockLook" ELSE "read",
                                         !.resumed = (thread'.status = "active")]
      => \E label \in {"blockLook", "read"}, resumed \in BOOLEAN :
            job' = [job EXCEPT !.pc = label, !.resumed = resumed]
  OBVIOUS
<1> QED BY <1>2, <1>4, <1>5, <1>6 DEF ResumeThread

LEMMA ReadThreadKeeps ==
    ASSUME Inv, ReadThread \/ ReadThreadAgain
    PROVE  Kept
<1>1. Frame /\ job.pc # "idle" /\ Nothing
  BY FrameHolds DEF Inv, ReadThread, ReadThreadAgain, Read
<1>2. CASE Reply("retry_later") \/ Reply("user_active") \/ Reply("not_applicable")
  BY <1>1, <1>2, GivenUp
<1>3. ~Busy => thread.status = "idle" BY DEF Busy, Inv, TypeOK
<1>4. CASE ~Busy /\ ~case.subagent /\ Goto("goal")
  <2>1. Branch("goal") /\ LookedAt("goal") BY <1>3, <1>4 DEF Branch, LookedAt, StatusSeen
  <2> QED BY <1>1, <1>4, <2>1, GoneOn DEF Labels
<1>5. CASE /\ case.subagent
           /\ \/ job.notified /\ Goto("recheck")
              \/ ~job.notified /\ Goto("inject")
  <2>1. /\ Branch("recheck") /\ LookedAt("recheck")
        /\ Branch("inject") /\ LookedAt("inject")
    BY <1>5 DEF Branch, LookedAt, StatusSeen
  <2> QED BY <1>1, <1>5, <2>1, GoneOn DEF Labels
<1>6. CASE ReadThreadAgain /\ ~Busy /\ Goto("start")
  <2>1. case.subagent BY <1>6 DEF Inv, Branch, ReadThreadAgain, Read, At
  <2>2. Branch("start") /\ LookedAt("start")
    BY <1>3, <1>6, <2>1 DEF Branch, LookedAt, StatusSeen
  <2> QED BY <1>1, <1>6, <2>2, GoneOn DEF Labels
<1> QED BY <1>2, <1>4, <1>5, <1>6 DEF ReadThread, ReadThreadAgain, Read

LEMMA ReadGoalKeeps ==
    ASSUME Inv, ReadGoal
    PROVE  Kept
<1>1. Frame /\ job.pc = "goal" /\ Nothing BY FrameHolds DEF Inv, ReadGoal, Read
<1>2. CASE Reply("retry_later") \/ Reply("not_applicable") BY <1>1, <1>2, GivenUp
<1>3. CASE /\ Permits(goal)
           /\ job' = [job EXCEPT !.pc = "goalAgain", !.look = goal]
           /\ UNCHANGED <<notified, answer>>
  <2> USE DEF Nothing, codex, around, Frame
  <2>1. job'.pc = "goalAgain" /\ job'.notified = job.notified /\ job'.look = goal
    BY <1>3 DEF Inv, TypeOK
  <2>2. TypeOK'
    <3>1. job' \in [pc : Labels, notified : BOOLEAN, resumed : BOOLEAN, look : Goals]
      BY <1>3 DEF Inv, TypeOK, Labels
    <3> QED BY <1>1, <1>3, <3>1 DEF Inv, TypeOK
  <2>3. CaseOK' /\ Unacted' BY <1>1 DEF Inv, CaseOK, Unacted
  <2>4. Counted' /\ Truthful' BY <1>1, <1>3, <2>1 DEF Inv, Counted, Knows, Truthful
  <2>5. NotYetTold' /\ Branch(job.pc)' BY <1>1, <2>1 DEF Inv, NotYetTold, Branch
  <2>6. LookedAt(job.pc)' BY <1>1, <2>1 DEF Inv, LookedAt, StatusSeen
  <2>7. FirstLook'
    BY <1>1, <1>3, <2>1 DEF FirstLook, Permits, Held, HeldConversationAllowed, BlockedByFailure
  <2>8. PromiseStep BY <1>1, <1>3, <2>1 DEF PromiseStep
  <2> QED BY <2>2, <2>3, <2>4, <2>5, <2>6, <2>7, <2>8, LookedStep DEF Inv, Kept
<1> QED BY <1>2, <1>3 DEF ReadGoal, Read

LEMMA ReadGoalAgainKeeps ==
    ASSUME Inv, ReadGoalAgain
    PROVE  Kept
<1>1. Frame /\ job.pc = "goalAgain" BY FrameHolds DEF Inv, ReadGoalAgain
<1>2. CASE Reply("not_applicable") /\ Nothing BY <1>1, <1>2, GivenUp
<1>3. CASE Reply("retry_later") /\ Nothing BY <1>1, <1>3, GivenUp
<1>4. CASE acted' = acted + 1 /\ Reply("dispatched") /\ UNCHANGED <<notices, thread, goal>>
  BY <1>1, <1>4, TakenEffect DEF Inv, TypeOK
<1>5. CASE BlockedByFailure(goal) /\ Goto("set") /\ Nothing
  <2>1. Branch("set") /\ LookedAt("set") BY <1>5 DEF Branch, LookedAt, StatusSeen
  <2> QED BY <1>1, <1>5, <2>1, GoneOn DEF Labels
<1>6. CASE /\ GoalUnchanged /\ (Held(job.look) \/ ~Held(goal))
           /\ goal.status # "active"
           /\ Goto("start") /\ Nothing
  <2>1. ~case.subagent /\ Permits(job.look)
    BY <1>1 DEF Inv, Branch, FirstLook
  <2>2. Permits(goal) BY <1>6, <2>1 DEF GoalUnchanged, Permits
  <2>3. "status" \notin late => thread.status = "idle"
    BY <1>1, <2>1 DEF Inv, LookedAt, StatusSeen
  <2>4. Branch("start") /\ LookedAt("start")
    BY <1>6, <2>1, <2>2, <2>3 DEF Branch, LookedAt
  <2> QED BY <1>1, <1>6, <2>4, GoneOn DEF Labels
<1> QED BY <1>2, <1>3, <1>4, <1>5, <1>6 DEF ReadGoalAgain

\* Requests that end the job.
LEMMA RequestKeeps ==
    ASSUME Inv, OfficialStart \/ SetGoalActive \/ StartWithPrompt \/ SetGoalBlocked
    PROVE  Kept
<1>1. Frame /\ job.pc # "idle"
  BY FrameHolds DEF Inv, OfficialStart, SetGoalActive, StartWithPrompt, SetGoalBlocked, Request
<1>2. CASE Reply("retry_later") /\ Nothing BY <1>1, <1>2, GivenUp
<1>3. TurnRequested => /\ acted' = acted + 1 /\ UNCHANGED notices
                      /\ thread' \in [loaded : BOOLEAN, status : {"idle", "active"}]
                      /\ goal' \in Goals
  BY DEF TurnRequested, Inv, TypeOK
<1>4. \A status \in {"active", "blocked"} :
         GoalSet(status) => /\ acted' = acted + 1 /\ UNCHANGED notices
                            /\ thread' \in [loaded : BOOLEAN, status : {"idle", "active"}]
                            /\ goal' \in Goals
  BY DEF GoalSet, Goals, Inv, TypeOK
<1>5. CASE /\ TurnRequested \/ GoalSet("active") \/ GoalSet("blocked")
           /\ Reply("dispatched") \/ Reply("retry_later")
  BY <1>1, <1>3, <1>4, <1>5, TakenEffect
<1> QED
  BY <1>2, <1>5 DEF OfficialStart, SetGoalActive, StartWithPrompt, SetGoalBlocked, Request

LEMMA StartKeeps ==
    ASSUME Inv, StartConversation
    PROVE  Kept
<1>1. CASE Fine /\ Nothing /\ Goto("prompt")
  <2>1. Frame /\ job.pc = "start" BY <1>1, FrameHolds DEF Inv, StartConversation
  <2>2. Branch("prompt") /\ LookedAt("prompt")
    BY <2>1 DEF Inv, Branch, LookedAt, StatusSeen
  <2> QED BY <1>1, <2>1, <2>2, GoneOn DEF Labels
<1>2. CASE Request(TurnRequested)
  <2>1. Frame /\ job.pc = "start" BY <1>2, FrameHolds DEF Inv, StartConversation, Request
  <2>2. TurnRequested => /\ acted' = acted + 1 /\ UNCHANGED notices
                        /\ thread' \in [loaded : BOOLEAN, status : {"idle", "active"}]
                        /\ goal' \in Goals
    BY DEF TurnRequested, Inv, TypeOK
  <2>3. CASE Reply("retry_later") /\ Nothing BY <2>1, <2>3, GivenUp
  <2>4. CASE TurnRequested /\ (Reply("dispatched") \/ Reply("retry_later"))
    BY <2>1, <2>2, <2>4, TakenEffect
  <2> QED BY <1>2, <2>3, <2>4 DEF Request
<1> QED BY <1>1, <1>2 DEF StartConversation

LEMMA BlockLookKeeps ==
    ASSUME Inv, BlockLook
    PROVE  Kept
<1>1. Frame /\ job.pc = "blockLook" BY FrameHolds DEF Inv, BlockLook
<1>2. CASE goal.status = "active" /\ Goto("block") /\ Nothing
  <2>1. Branch("block") /\ LookedAt("block") BY <1>2 DEF Branch, LookedAt, StatusSeen
  <2> QED BY <1>1, <1>2, <2>1, GoneOn DEF Labels
<1>3. CASE acted' = acted + 1 /\ Reply("dispatched") /\ UNCHANGED <<notices, thread, goal>>
  BY <1>1, <1>3, TakenEffect DEF Inv, TypeOK
<1>4. CASE Reply("retry_later") /\ Nothing BY <1>1, <1>4, GivenUp
<1> QED BY <1>2, <1>3, <1>4 DEF BlockLook

----------------------------------------------------------------------------
(* The daemon, the worker's death, and everything outside.                 *)

LEMMA HandOverKeeps ==
    ASSUME Inv, HandOver
    PROVE  Kept
<1> USE DEF around
<1>1. /\ job.pc = "idle" /\ acted' = 0 /\ late' = {}
      /\ job' = [pc |-> "preflight", notified |-> notified, resumed |-> FALSE, look |-> NoGoal]
      /\ UNCHANGED <<case, notified, answer, notices, thread, goal, around, moves, faults>>
  BY DEF HandOver
<1>2. dispatches' \in 0..MaxDispatches
  BY ControllerAssumption DEF HandOver, Inv, TypeOK
<1>3. TypeOK'
  <2>1. job' \in [pc : Labels, notified : BOOLEAN, resumed : BOOLEAN, look : Goals]
    BY <1>1 DEF Inv, TypeOK, Labels, Goals
  <2> QED BY <1>1, <1>2, <2>1 DEF Inv, TypeOK
<1>4. CaseOK' /\ Unacted' BY <1>1 DEF Inv, CaseOK, Unacted
<1>5. Counted' /\ Truthful' BY <1>1 DEF Inv, Counted, Knows, Truthful
<1>6. NotYetTold' /\ Branch(job.pc)' /\ LookedAt(job.pc)' /\ FirstLook'
  BY <1>1 DEF NotYetTold, Branch, LookedAt, FirstLook, StatusSeen
<1>7. Promise!Ask BY <1>1 DEF Promise!Ask
<1>8. PromiseStep BY <1>7 DEF PromiseStep, Promise!Next
<1> QED BY <1>3, <1>4, <1>5, <1>6, <1>8, LookedStep DEF Inv, Kept

LEMMA WorkerDiesKeeps ==
    ASSUME Inv, WorkerDies
    PROVE  Kept
<1> USE DEF around
<1>1. /\ job.pc # "idle"
      /\ job' = [job EXCEPT !.pc = "idle"]
      /\ notices' = IF job.notified /\ ~notified THEN [notices EXCEPT !.lost = @ + 1] ELSE notices
      /\ UNCHANGED <<case, notified, answer, dispatches, acted, thread, goal, around, late, moves>>
  BY DEF WorkerDies
<1>2. job'.pc = "idle" /\ job'.notified = job.notified BY <1>1 DEF Inv, TypeOK
<1>3. faults' \in 0..MaxFaults
  BY ControllerAssumption DEF WorkerDies, Fails, Inv, TypeOK
<1>4. /\ notices' \in [taken : Nat, lost : Nat] /\ notices'.taken = notices.taken
      /\ notices'.lost = notices.lost + IF job.notified /\ ~notified THEN 1 ELSE 0
  BY <1>1 DEF Inv, TypeOK
<1>5. TypeOK'
  <2>1. job' \in [pc : Labels, notified : BOOLEAN, resumed : BOOLEAN, look : Goals]
    BY <1>1 DEF Inv, TypeOK, Labels
  <2> QED BY <1>1, <1>3, <1>4, <2>1 DEF Inv, TypeOK
<1>6. CaseOK' BY <1>1 DEF Inv, CaseOK
<1>7. Counted' BY <1>1, <1>2, <1>4 DEF Inv, TypeOK, Counted, Knows
<1>8. Truthful' BY <1>1, <1>2, <1>4 DEF Inv, Truthful
<1>9. Unacted' /\ NotYetTold' /\ Branch(job.pc)' /\ LookedAt(job.pc)' /\ FirstLook'
  BY <1>2 DEF Unacted, NotYetTold, Branch, LookedAt, FirstLook, StatusSeen
<1>10. Promise!Die BY <1>1, <1>2, <1>4 DEF Promise!Die
<1>11. PromiseStep BY <1>10 DEF PromiseStep, Promise!Next
<1> QED BY <1>5, <1>6, <1>7, <1>8, <1>9, <1>11, LookedStep DEF Inv, Kept

LEMMA NoticeScannedKeeps ==
    ASSUME Inv, NoticeScanned
    PROVE  Kept
<1> USE DEF codex, around, NoticeScanned
<1>1. TypeOK' BY DEF Inv, TypeOK
<1>2. CaseOK' /\ Unacted' BY DEF Inv, CaseOK, Unacted
<1>3. Counted' BY DEF Inv, TypeOK, Counted, Knows
<1>4. Truthful' BY DEF Truthful
<1>5. NotYetTold' /\ Branch(job.pc)' /\ FirstLook'
  BY DEF Inv, NotYetTold, Branch, FirstLook, Permits, Held, HeldConversationAllowed, BlockedByFailure
<1>6. LookedAt(job.pc)'
  BY DEF Inv, LookedAt, StatusSeen, Permits, Held, HeldConversationAllowed, BlockedByFailure
<1>7. PromiseStep BY DEF PromiseStep
<1> QED BY <1>1, <1>2, <1>3, <1>4, <1>5, <1>6, <1>7, LookedStep DEF Inv, Kept

\* What moves outside is missed by the job, or was not looked at yet.
LEMMA OutsideKeeps ==
    ASSUME Inv, Outside
    PROVE  Kept
<1> USE DEF around
<1>1. /\ moves' \in 0..MaxMoves
      /\ UNCHANGED <<case, job, notified, answer, dispatches, acted, notices, faults>>
  <2>1. Moves
    BY DEF Outside, TurnStarts, TurnEnds, ThreadUnloaded, GoalMoves, TransportMoves
  <2>2. moves' \in 0..MaxMoves BY <2>1, ControllerAssumption DEF Moves, Inv, TypeOK
  <2> QED BY <2>1, <2>2 DEF Moves, jobVars
<1>2. /\ desktop' \in {"stopped", "stdio", "unknown", "shared"}
      /\ ipc' \in BOOLEAN /\ enabled' \in BOOLEAN
  BY DEF Outside, TurnStarts, TurnEnds, ThreadUnloaded, GoalMoves, TransportMoves, Inv, TypeOK
<1>3. thread' \in [loaded : BOOLEAN, status : {"idle", "active"}]
  <2>1. CASE TurnStarts BY <2>1 DEF TurnStarts
  <2>2. CASE TurnEnds BY <2>2 DEF TurnEnds, Inv, TypeOK
  <2>3. CASE ThreadUnloaded BY <2>3 DEF ThreadUnloaded, Inv, TypeOK
  <2>4. CASE GoalMoves \/ TransportMoves BY <2>4 DEF GoalMoves, TransportMoves, Inv, TypeOK
  <2> QED BY <2>1, <2>2, <2>3, <2>4 DEF Outside
<1>4. goal' \in Goals
  <2>1. CASE GoalMoves
    <3>1. CASE \E status \in {"active", "paused", "complete"} :
                  goal' = [status |-> status, updated |-> {}]
      BY <3>1 DEF Goals
    <3>2. CASE goal' = NoGoal BY <3>2 DEF Goals
    <3>3. CASE goal' = [status |-> "blocked", updated |-> {"near failure"}]
      BY <3>3 DEF Goals, Times
    <3> QED BY <2>1, <3>1, <3>2, <3>3 DEF GoalMoves
  <2> QED BY <2>1 DEF Outside, TurnStarts, TurnEnds, ThreadUnloaded, TransportMoves, Inv, TypeOK
<1>5. late \subseteq late' /\ late' \subseteq {"goal", "status"}
  BY DEF Outside, TurnStarts, TurnEnds, ThreadUnloaded, GoalMoves, TransportMoves, Missed, Inv,
         TypeOK
<1>6. TypeOK' BY <1>1, <1>2, <1>3, <1>4, <1>5 DEF Inv, TypeOK
<1>7. /\ CaseOK' /\ Unacted' /\ Counted' /\ Truthful' /\ NotYetTold' /\ Branch(job.pc)'
  BY <1>1 DEF Inv, CaseOK, Unacted, Counted, Knows, Truthful, NotYetTold, Branch
<1>8. FirstLook'
  BY <1>1 DEF Inv, FirstLook, Permits, Held, HeldConversationAllowed, BlockedByFailure
<1>9. job.pc \in StatusSeen /\ "status" \notin late' => thread'.status = thread.status
  BY DEF Outside, TurnStarts, TurnEnds, ThreadUnloaded, GoalMoves, TransportMoves, Missed, Inv,
         TypeOK
<1>10. job.pc \in GoalSeen /\ "goal" \notin late' => goal' = goal
  BY DEF Outside, TurnStarts, TurnEnds, ThreadUnloaded, GoalMoves, TransportMoves, Missed
<1>11. LookedAt(job.pc)'
  BY <1>1, <1>5, <1>9, <1>10
     DEF Inv, LookedAt, StatusSeen, GoalSeen, Permits, Held, HeldConversationAllowed,
         BlockedByFailure
<1>12. PromiseStep BY <1>1 DEF PromiseStep
<1> QED BY <1>6, <1>7, <1>8, <1>11, <1>12, LookedStep DEF Inv, Kept

----------------------------------------------------------------------------
(* The theorems.                                                           *)

LEMMA InitInv == Init => Inv
<1> SUFFICES ASSUME Init PROVE Inv
  OBVIOUS
<1>1. job \in [pc : Labels, notified : BOOLEAN, resumed : BOOLEAN, look : Goals]
  BY DEF Init, Labels, Goals
<1>2. TypeOK
  <2>1. /\ answer \in [outcome : {"none", "dispatched", "user_active", "not_applicable", "retry_later"},
                       notified : BOOLEAN]
        /\ notices \in [taken : Nat, lost : Nat]
        /\ thread \in [loaded : BOOLEAN, status : {"idle", "active"}]
    BY DEF Init
  <2>2. notified \in BOOLEAN /\ acted \in Nat /\ goal \in Goals BY DEF Init
  <2>3. /\ desktop \in {"stopped", "stdio", "unknown", "shared"} /\ ipc \in BOOLEAN
        /\ enabled \in BOOLEAN /\ late \subseteq {"goal", "status"}
    BY DEF Init
  <2>4. moves \in 0..MaxMoves /\ faults \in 0..MaxFaults /\ dispatches \in 0..MaxDispatches
    BY ControllerAssumption DEF Init
  <2> QED BY <1>1, <2>1, <2>2, <2>3, <2>4 DEF TypeOK
<1>3. CaseOK BY DEF Init, CaseOK
<1>4. Unacted /\ Counted /\ Truthful /\ NotYetTold /\ Branch(job.pc) /\ LookedAt(job.pc) /\ FirstLook
  BY DEF Init, Unacted, Counted, Knows, Truthful, NotYetTold, Branch, LookedAt, StatusSeen, FirstLook
<1> QED BY <1>2, <1>3, <1>4 DEF Inv

LEMMA StutterKeeps ==
    ASSUME Inv, UNCHANGED vars
    PROVE  Kept
<1> USE DEF vars, jobVars, codex, around
<1>1. TypeOK' /\ CaseOK' BY DEF Inv, TypeOK, CaseOK
<1>2. Unacted' /\ Counted' /\ Truthful' /\ NotYetTold' /\ Branch(job.pc)'
  BY DEF Inv, Unacted, Counted, Knows, Truthful, NotYetTold, Branch
<1>3. LookedAt(job.pc)' /\ FirstLook'
  BY DEF Inv, LookedAt, StatusSeen, FirstLook, Permits, Held, HeldConversationAllowed,
         BlockedByFailure
<1>4. PromiseStep BY DEF PromiseStep
<1> QED BY <1>1, <1>2, <1>3, <1>4, LookedStep DEF Inv, Kept

LEMMA NextKeeps == Inv /\ [Next]_vars => Kept
<1> SUFFICES ASSUME Inv, [Next]_vars PROVE Kept
  OBVIOUS
<1>1. CASE UNCHANGED vars BY <1>1, StutterKeeps
<1>2. CASE HandOver BY <1>2, HandOverKeeps
<1>3. CASE DispatchStep
  <2>1. CASE OfficialTell BY <2>1, ParentTold DEF OfficialTell
  <2>2. CASE InjectNotice BY <2>2, ParentTold DEF InjectNotice
  <2> QED
    BY <1>3, <2>1, <2>2, PreflightKeeps, ThreadLoadedKeeps, ResumeKeeps, ReadThreadKeeps,
       ReadGoalKeeps, ReadGoalAgainKeeps, RequestKeeps, StartKeeps DEF DispatchStep
<1>4. CASE BlockStep BY <1>4, BlockLookKeeps, RequestKeeps DEF BlockStep
<1>5. CASE WorkerDies BY <1>5, WorkerDiesKeeps
<1>6. CASE NoticeScanned BY <1>6, NoticeScannedKeeps
<1>7. CASE Outside BY <1>7, OutsideKeeps
<1> QED BY <1>1, <1>2, <1>3, <1>4, <1>5, <1>6, <1>7 DEF Next

\* The inductive invariant holds in every reachable state.
THEOREM JobInvHolds == Spec => []Inv
<1>1. Inv /\ [Next]_vars => Inv' BY NextKeeps DEF Kept
<1> QED BY InitInv, <1>1, PTL DEF Spec

\* The job and its findings (appServerController) are always well typed.
THEOREM TypesHold == Spec => []TypeOK
<1>1. Inv => TypeOK BY DEF Inv
<1> QED BY JobInvHolds, <1>1, PTL

\* However often a recovery is handed over, the parent (injectSubagentNotice) is
\* told again only if an answer was lost or the worker died with it.
THEOREM ParentToldOnceHolds == Spec => []ParentToldOnce
<1>1. Inv => ParentToldOnce BY DEF Inv, TypeOK, Counted, ParentToldOnce
<1> QED BY JobInvHolds, <1>1, PTL

\* Over the shared server no turn is requested and no goal set (Dispatch, BlockGoal) if
\* the job's last look forbids it, unless something changed after that look.
THEOREM RequestsFollowLookHolds == Spec => RequestsFollowLook
<1>1. Inv /\ [Next]_vars => [LookStep]_vars BY NextKeeps DEF Kept
<1> QED BY JobInvHolds, <1>1, PTL DEF Spec, RequestsFollowLook, LookStep

\* The controller implements what the daemon relies on: every step of a job is a
\* step of DispatchPromise or none.
THEOREM PromiseKept == Spec => KeepsPromise
<1>1. Init => Promise!Init BY DEF Init, Promise!Init
<1>2. Inv /\ [Next]_vars
      => [Promise!Next]_<<job.pc # "idle", acted, notices.taken > 0, answer>>
  BY NextKeeps DEF Kept, PromiseStep
<1> QED BY JobInvHolds, <1>1, <1>2, PTL DEF Spec, KeepsPromise, Promise!Spec
=============================================================================
