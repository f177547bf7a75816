----------------------------- MODULE WorkerLife -----------------------------
(***************************************************************************)
(* The supervisor, the worker it keeps alive and the scan of the rollout   *)
(* files: a crash of the worker loses what its scan had not saved, and the *)
(* worker that follows continues from state.json.                          *)
(***************************************************************************)
EXTENDS Supervision, Rollouts

vars == <<supervisionVars, rolloutVars>>

Init == SupervisionInit /\ RolloutsInit

\* The process goes on; a tick looks for stop.signal before anything else.
WorkerMoves ==
    \/ WorkerRuns /\ LoadState
    \/ WorkerObeys /\ scanning = 0 /\ UNCHANGED rolloutVars
    \/ WorkerWritesStatus /\ UNCHANGED rolloutVars
    \/ WorkerExits /\ ForgetMemory
    \/ /\ worker = "running" /\ (scanning = 0 => ~stopSignal)
       /\ ScanPath \/ TickEnds(TRUE)
       /\ UNCHANGED supervisionVars

\* The context is cancelled; the running tick is the last one.
WorkerIsLeft == WorkerLeaves /\ scanning = 0 /\ UNCHANGED rolloutVars

SaveFails ==
    /\ worker = "running" /\ TickEnds(FALSE)
    /\ Accident("save")
    /\ UNCHANGED <<supervisor, delay, worker, files, user>>

WorkerEnds == (WorkerCrashes \/ Reboot) /\ ForgetMemory

Next ==
    \/ SupervisorStep /\ UNCHANGED rolloutVars
    \/ WorkerMoves \/ WorkerIsLeft \/ SaveFails \/ WorkerEnds
    \/ (UserStarts \/ SignIn \/ UserStops \/ UserSignals) /\ UNCHANGED rolloutVars
    \/ (CodexWrites \/ \E p \in Paths : EndRecord(p)) /\ UNCHANGED supervisionVars

Spec == Init /\ [][Next]_vars

\* Processes and timers go on, and the script of a stop writes its second file.
Fairness ==
    /\ WF_vars(SupervisorStep /\ UNCHANGED rolloutVars)
    /\ WF_vars(BackoffEnds /\ UNCHANGED rolloutVars)
    /\ WF_vars(WorkerMoves)
    /\ WF_vars(UserSignals /\ UNCHANGED rolloutVars)

FairSpec == Spec /\ Fairness

----------------------------------------------------------------------------
(* Properties.                                                             *)

\* A crash alone never ends the supervision: whatever marker an earlier session
\* left, the supervisor ends only after a stop or a clean exit that was intended
\* (supervisor.go:47, main.go:311).
SupervisionEndsByIntent ==
    [][supervisor # "none" /\ supervisor' = "none" => intended \/ accidents' # accidents]_vars

\* A stop order that found the worker running leaves no worker and no supervisor,
\* even if the worker crashes while it obeys.
StopHonored == asked ~> ~asked \/ (worker = "none" /\ supervisor = "none")

\* The position from which the scanner will read a file.
ReadPosition(p) ==
    IF p \in Known THEN memory.offset[p]
    ELSE IF MigrationSources(p) = {} THEN 0
    ELSE memory.offset[CHOOSE q \in MigrationSources(p) : TRUE]

\* A completed record of a file is history of the baseline, was applied, is in
\* the running scan, or lies behind the cursor of its file.
EveryRecordAccounted ==
    \A p \in Existing : \A i \in 1..Len(content[p].lines) :
        LET id == content[p].lines[i]
        IN  \/ id \in exempt \cup ToSet(memory.applied) \cup {ev.id : ev \in batch}
            \/ 2 * (i - 1) >= ReadPosition(p)

\* No record is lost, across crashes, failed saves and renamed files.  (A
\* rewritten file, and a copy under another home, are outside this promise.)
NoRecordSkipped == copied \/ shrunk \/ ~memory.initialized \/ EveryRecordAccounted

\* A record is applied once, in the order it was written, across crashes, failed
\* saves, renamed and rewritten files.  (Copies: see CopiesApplyNoOldHistory.)
AppliedOnceInOrder ==
    copied \/ \A i, j \in DOMAIN memory.applied :
                  i < j => memory.applied[i] < memory.applied[j]

\* A copy under another home never applies history from before the worker's
\* start a second time (daemon.go:144).
CopiesApplyNoOldHistory ==
    [][LET before == ToSet(memory.applied)
           added == SubSeq(memory'.applied, Len(memory.applied) + 1, Len(memory'.applied))
       IN  \A i \in DOMAIN added :
              added[i] \in before /\ added[i] + MirrorSlack <= startedAt
                  => \E ev \in batch : ev.id = added[i] /\ Home[ev.path] = Home[Main]]_vars

\* What Codex writes is applied in the end, as long as the user lets the
\* supervisor run and the file comes to rest among the sessions: a worker that
\* crashed, or could not be started, is started again and reads on.
RecordsApplied ==
    <>[](supervisor # "none" /\ ~copied /\ ~shrunk /\ Main \in Existing)
    => <>[](\A p \in Existing :
               ToSet(content[p].lines) \subseteq exempt \cup ToSet(memory.applied))
=============================================================================
