--------------------------- MODULE SharedBackend ---------------------------
(***************************************************************************)
(* The optional shared app-server: one Codex process, started by the       *)
(* plugin on a loopback port, that the worker and Codex Desktop both use.  *)
(* Nothing locks it.  The worker, a settings panel in another process, the *)
(* launch-migration goroutine and the Desktop launcher each look at the    *)
(* files config.json, shared-server.json, shared-fail-open.json,           *)
(* shared-availability.json, at the user's environment and at the process  *)
(* table, and act on what they saw a moment ago.  A step below ends where  *)
(* the code waits for something slow or writes a file another actor reads. *)
(*                                                                         *)
(* The code is a set of nested calls; an actor's frame holds the label it  *)
(* is at and the labels it returns to.                                     *)
(***************************************************************************)
EXTENDS Naturals, Sequences

CONSTANTS
    Pids,       \* process identifiers the operating system hands out
    Ports,      \* loopback ports
    Features,   \* what the environment may do: see ASSUME FeaturesKnown
    MaxClicks,  \* bound on the user's clicks in the panel
    MaxFaults   \* bound on crashes, dead servers, failed queries, writes and kills

ASSUME PortsNamed == {"none", "user", "stopped", "official"} \cap Ports = {}
ASSUME FeaturesKnown ==
    Features \subseteq {"enable", "disable", "launch", "request", "legacy", "oldroute",
                        "crash", "die", "hang", "squat", "reuse", "query",
                        "disk", "kill", "memory"}
ASSUME BoundsNatural == MaxClicks \in Nat /\ MaxFaults \in Nat

Actors == {"worker", "enabler", "disabler", "migrator"}

VARIABLES
    config,        \* config.json: what the user asked for, what is in force, the port
    marker,        \* shared-fail-open.json exists
    availability,  \* shared-availability.json: none, or may the launch recovery try again
    record,        \* shared-server.json: the set holding the recorded server, or {}
    process,       \* the process table: who runs under each pid
    squatters,     \* ports on which someone else listens
    route,         \* CODEX_APP_SERVER_WS_URL of the user's environment
    backup,        \* environment-backup.json of an older release: at most one element
    desktop,       \* Codex Desktop: stopped, official, or the port it is connected to
    launcher,      \* the safe launcher: idle, or the route it verified
    request,       \* a fresh shared-recovery-request.json waits for the worker
    op,            \* the frame of every actor
    guarded,       \* the worker's shared memory guard fired in this process
    clicks, faults \* counters behind MaxClicks and MaxFaults

files == <<config, marker, availability, record>>
system == <<process, squatters, route, backup>>
outside == <<desktop, launcher, request>>
vars == <<files, system, outside, op, guarded, clicks, faults>>

----------------------------------------------------------------------------
Free == [kind |-> "free"]
\* A process of another program.  missedBy is a history: the actors that had made
\* sure of the pid when this process took it.
Foreign(missedBy) == [kind |-> "foreign", missedBy |-> missedBy]
Server(port, health) == [kind |-> "server", port |-> port, health |-> health]

\* processIsRunning.
Running(pid) == process[pid] # Free

\* What ownsProcess learns from the process table: the recorded process is
\* alive, has the recorded creation time, executable and endpoint.
Owns(r) == process[r.pid].kind = "server" /\ process[r.pid].port = r.port

ServersOn(port, health) == {pid \in Pids : process[pid] = Server(port, health)}
Healthy(port) == port \in squatters \/ ServersOn(port, "healthy") # {}
Listening(port) == Healthy(port) \/ ServersOn(port, "hung") # {}

\* A step that may go wrong at most MaxFaults times: a PowerShell query that
\* times out or a file another program keeps open.
Works(feature, ok) ==
    IF ok THEN UNCHANGED faults
          ELSE /\ feature \in Features
               /\ faults < MaxFaults
               /\ faults' = faults + 1

\* The frame of an actor outside every call.
Idle(label) ==
    [pc |-> label, stack |-> <<>>, answer |-> "ok", on |-> FALSE,
     port |-> "none", seen |-> {}, bad |-> {}]

At(a, label) == op[a].pc = label

\* The actor will end whatever runs under the pid without another look: it verified
\* the server there, or has just started it.
Ending(a, pid) ==
    /\ op[a].pc \in {"kill", "replace", "record", "undo"}
    /\ \E r \in op[a].seen : r.pid = pid

Goto(a, label) == op' = [op EXCEPT ![a].pc = label, ![a].answer = "ok", ![a].seen = {}]
Call(a, label, return) ==
    op' = [op EXCEPT ![a].pc = label, ![a].stack = <<return>> \o @]
Return(a, answer) ==
    op' = [op EXCEPT ![a].pc = Head(op[a].stack), ![a].stack = Tail(@),
                     ![a].answer = answer, ![a].seen = {}]

\* terminateProcessTree: taskkill by the bare pid.  It fails only where something
\* still runs afterwards.
Terminate(pid, killed) ==
    /\ Works("kill", killed)
    /\ ~killed => Running(pid)
    /\ process' = IF killed THEN [process EXCEPT ![pid] = Free] ELSE process

----------------------------------------------------------------------------
(* Environment backup and route.                                           *)

\* ownedLegacyEndpoints: the recorded endpoint is ours to withdraw unless a
\* live process of that pid could not be verified.
LegacyEndpoints(verified) ==
    {r.port : r \in {q \in record : Running(q.pid) => Owns(q) /\ verified}}

\* The value restoreOwnedSharedEnvironment returns to: never an endpoint of ours.
PreviousRoute(b, legacy) ==
    IF b.previous = b.installed \/ b.previous \in legacy THEN "none" ELSE b.previous

ChangedByUser(b, legacy) ==
    route # "none" /\ route # b.installed /\ route # PreviousRoute(b, legacy)

\* Wrong on purpose: the user's later choice is not looked at.
RestoreRouteBlindly(legacy) ==
    /\ route' = IF backup = {} THEN IF route \in legacy THEN "none" ELSE route
                ELSE PreviousRoute(CHOOSE b \in backup : TRUE, legacy)
    /\ backup' = {}

\* restoreOwnedSharedEnvironment.
RestoreRoute(legacy) ==
    /\ \/ backup = {} /\ route' = IF route \in legacy THEN "none" ELSE route
       \/ \E b \in backup :
              route' = IF ChangedByUser(b, legacy) THEN route ELSE PreviousRoute(b, legacy)
    /\ backup' = {}

\* hasOwnedCleanupArtifacts.
OwnedArtifacts == record # {} \/ \E b \in backup : route = b.installed

DesktopRunning == desktop # "stopped"
RecordedAlive == \E r \in record : Running(r.pid)

----------------------------------------------------------------------------
(* StopOwned and CleanupIfUnused.                                          *)

\* CleanupIfUnused: wait for Desktop, withdraw the route, then StopOwned.
CleanupIfUnused(a) ==
    /\ At(a, "cleanup")
    /\ \/ ~OwnedArtifacts /\ Return(a, "ok") /\ UNCHANGED <<route, backup, faults>>
       \/ /\ OwnedArtifacts /\ DesktopRunning /\ RecordedAlive
          /\ Return(a, "deferred")
          /\ UNCHANGED <<route, backup, faults>>
       \/ /\ OwnedArtifacts /\ ~(DesktopRunning /\ RecordedAlive)
          /\ \E verified \in BOOLEAN :
                Works("query", verified) /\ RestoreRoute(LegacyEndpoints(verified))
          /\ Goto(a, "stop")
    /\ UNCHANGED <<files, process, squatters, outside, guarded, clicks>>

\* StopOwned up to the decision to terminate the recorded process.
StopLook(a) ==
    /\ At(a, "stop")
    /\ \/ record = {} /\ Return(a, "ok") /\ UNCHANGED record
       \/ RecordedAlive /\ DesktopRunning /\ Return(a, "deferred") /\ UNCHANGED record
       \/ record # {} /\ ~RecordedAlive /\ Return(a, "ok") /\ record' = {}
       \/ /\ RecordedAlive /\ ~DesktopRunning
          /\ op' = [op EXCEPT ![a].pc = "verify", ![a].seen = record]
          /\ UNCHANGED record
    /\ UNCHANGED <<config, marker, availability, system, outside, guarded, clicks, faults>>

\* Wrong on purpose: the pid of the record is taken for proof.
StopVerifyNothing(a) ==
    /\ At(a, "verify")
    /\ op' = [op EXCEPT ![a].pc = "kill"]
    /\ UNCHANGED <<files, system, outside, guarded, clicks, faults>>

\* ownsProcess: a PowerShell query of up to eight seconds.
StopVerify(a) ==
    /\ At(a, "verify")
    /\ \E r \in op[a].seen, verified \in BOOLEAN :
          /\ Works("query", verified)
          /\ \/ verified /\ Owns(r) /\ op' = [op EXCEPT ![a].pc = "kill"]
             \/ ~(verified /\ Owns(r)) /\ Return(a, "ownership")
    /\ UNCHANGED <<files, system, outside, guarded, clicks>>

\* The answer of the query is acted on; a kill that fails keeps the record.
StopKill(a) ==
    /\ At(a, "kill")
    /\ \E r \in op[a].seen, killed \in BOOLEAN :
          /\ Terminate(r.pid, killed)
          /\ IF killed THEN Goto(a, "forget") ELSE Return(a, "failed")
    /\ UNCHANGED <<files, squatters, route, backup, outside, guarded, clicks>>

\* The record file is removed, whatever it holds by now.
StopForget(a) ==
    /\ At(a, "forget")
    /\ record' = {}
    /\ Return(a, "ok")
    /\ UNCHANGED <<config, marker, availability, system, outside, guarded, clicks, faults>>

----------------------------------------------------------------------------
(* failOpenSharedAppServer: marker, preference, route, process, marker.    *)

FailOpenMark(a) ==
    /\ At(a, "failOpen")
    /\ \E written \in BOOLEAN :
          /\ Works("disk", written)
          /\ marker' = (written \/ marker)
          /\ op' = [op EXCEPT ![a].pc = "disable",
                              ![a].bad = IF written THEN {} ELSE {"marker"}]
    /\ UNCHANGED <<config, availability, record, system, outside, guarded, clicks>>

FailOpenDisable(a) ==
    /\ At(a, "disable")
    /\ \E written \in BOOLEAN :
          /\ Works("disk", written)
          /\ config' = [config EXCEPT !.enabled = ~written /\ @]
          /\ op' = [op EXCEPT ![a].pc = "withdraw",
                              ![a].stack = <<"failedOpen">> \o @,
                              ![a].bad = IF written THEN @ ELSE @ \union {"config"}]
    /\ UNCHANGED <<marker, availability, record, system, outside, guarded, clicks>>

\* failOpenSharedBackendCleanup: withdraw the route, object to a value that is
\* still there and not proven to be the user's, and stop the server.
FailOpenWithdraw(a) ==
    /\ At(a, "withdraw")
    /\ \E verified \in BOOLEAN :
          LET legacy == LegacyEndpoints(verified)
              byUser == \E b \in backup : ChangedByUser(b, legacy)
              withdrawn == IF backup = {} THEN route \in legacy ELSE ~byUser
          IN  /\ Works("query", verified)
              /\ RestoreRoute(legacy)
              /\ op' = [op EXCEPT ![a].pc = "stop",
                            ![a].bad = IF route' # "none" /\ (~OwnedArtifacts \/ ~(withdrawn \/ byUser))
                                       THEN @ \union {"conflict"} ELSE @]
    /\ UNCHANGED <<files, process, squatters, outside, guarded, clicks>>

\* A stop put off until Desktop closes still counts as success.
FailOpenDone(a) ==
    /\ At(a, "failedOpen")
    /\ \/ /\ op[a].bad = {} /\ op[a].answer \in {"ok", "deferred"}
          /\ marker' = FALSE
          /\ Return(a, "ok")
       \/ /\ ~(op[a].bad = {} /\ op[a].answer \in {"ok", "deferred"})
          /\ Return(a, IF "conflict" \in op[a].bad THEN "conflict" ELSE "failed")
          /\ UNCHANGED marker
    /\ UNCHANGED <<config, availability, record, system, outside, guarded, clicks, faults>>

----------------------------------------------------------------------------
(* Ensure: adopt the recorded server, or start one.  It runs in the        *)
(* worker's controller without, in a panel or a launch recovery with, the  *)
(* freedom to choose another port.                                         *)

MayChoosePort(a) == Head(op[a].stack) = "ensured"

\* waitForDesktopExitAndMigrate shares the mutex of the worker's own manager,
\* which the manager of a launch recovery does not have.
MigratorBusy == op["migrator"].pc \notin {"off", "migrate"}
UnderManagerLock(a) ==
    a = "worker" /\ \E i \in DOMAIN op[a].stack : op[a].stack[i] = "readied"

\* A server started before the current launch mode is to be replaced once
\* Desktop is closed.
ScheduleMigration(a, r) ==
    IF a = "worker" /\ r.legacy /\ op["migrator"].pc = "off"
    THEN [op EXCEPT !["migrator"].pc = "migrate", !["migrator"].port = r.port]
    ELSE op

Adopted(a, r, port) ==
    op' = [ScheduleMigration(a, r) EXCEPT
              ![a].pc = Head(op[a].stack), ![a].stack = Tail(@),
              ![a].answer = "ok", ![a].seen = {}, ![a].port = port]

\* selectAvailableSharedServerPort: the port itself if it can be bound.
AlternatePorts(port) ==
    IF ~Listening(port) THEN {port} ELSE {q \in Ports : ~Listening(q)}

\* The port is taken by something Ensure cannot call its own.
PortTaken(a, port) ==
    LET recordedHere == \E r \in record : r.port = port /\ Running(r.pid)
    IN  \/ /\ recordedHere \/ ~MayChoosePort(a) \/ AlternatePorts(port) = {}
           /\ Return(a, "conflict")
           /\ UNCHANGED config
        \/ /\ ~recordedHere /\ MayChoosePort(a)
           /\ \E q \in AlternatePorts(port) :
                 /\ config' = [config EXCEPT !.port = q]
                 /\ op' = [op EXCEPT ![a].pc = "start", ![a].port = q]

\* Ensure up to the decision to start a process.
EnsureLook(a) ==
    /\ At(a, "ensure")
    /\ ~(UnderManagerLock(a) /\ MigratorBusy)
    /\ \E verified \in BOOLEAN :
          LET owned == {r \in record : verified /\ Owns(r)}
              port == IF owned = {} THEN config.port ELSE (CHOOSE r \in owned : TRUE).port
              keep == config' = [config EXCEPT !.port = port]
          IN  /\ Works("query", verified)
              /\ \/ \E r \in owned : Healthy(port) /\ Adopted(a, r, port) /\ keep
                 \/ owned = {} /\ Listening(port) /\ PortTaken(a, port)
                 \/ /\ owned # {} /\ ~Healthy(port) /\ Listening(port)
                    /\ op' = [op EXCEPT ![a].pc = "linger", ![a].port = port]
                    /\ keep
                 \/ /\ ~Listening(port)
                    /\ op' = [op EXCEPT ![a].pc = "start", ![a].port = port]
                    /\ keep
    /\ UNCHANGED <<marker, availability, record, system, outside, guarded, clicks>>

\* Wrong on purpose: an own listener that never answers is left alone.
EnsureLingerForever(a) ==
    /\ At(a, "linger")
    /\ Return(a, IF Healthy(op[a].port) THEN "ok" ELSE "deferred")
    /\ UNCHANGED <<files, system, outside, guarded, clicks, faults>>

\* Three seconds for an own listener that does not answer yet; then it is
\* restarted, unless Desktop may be using it.
EnsureLinger(a) ==
    /\ At(a, "linger")
    /\ \/ Healthy(op[a].port) /\ Return(a, "ok")
       \/ ~Healthy(op[a].port) /\ DesktopRunning /\ Return(a, "deferred")
       \/ ~Healthy(op[a].port) /\ ~DesktopRunning /\ Call(a, "stop", "restarted")
    /\ UNCHANGED <<files, system, outside, guarded, clicks, faults>>

EnsureRestarted(a) ==
    /\ At(a, "restarted")
    /\ IF op[a].answer = "ok" THEN Goto(a, "start") ELSE Return(a, op[a].answer)
    /\ UNCHANGED <<files, system, outside, guarded, clicks, faults>>

\* start: the process exists before its record does.  On a port that was
\* taken meanwhile it exits at once.
EnsureStart(a) ==
    /\ At(a, "start")
    /\ \E pid \in Pids :
          /\ process[pid] = Free
          /\ process' = [process EXCEPT ![pid] =
                            IF Listening(op[a].port) THEN Free ELSE Server(op[a].port, "starting")]
          /\ op' = [op EXCEPT ![a].pc = "record", ![a].seen =
                        {[pid |-> pid, port |-> op[a].port, legacy |-> FALSE]}]
    /\ UNCHANGED <<files, squatters, route, backup, outside, guarded, clicks, faults>>

\* start, after the process was released: its record is written.
EnsureRecord(a) ==
    /\ At(a, "record")
    /\ \E written \in BOOLEAN :
          /\ Works("disk", written)
          /\ \/ /\ written /\ record' = op[a].seen
                /\ IF a = "migrator" THEN Return(a, "ok") ELSE Goto(a, "await")
             \/ /\ ~written /\ UNCHANGED record
                /\ op' = [op EXCEPT ![a].pc = "undo"]
    /\ UNCHANGED <<config, marker, availability, system, outside, guarded, clicks>>

\* A process without a record is ended by the pid it started under; the result is
\* not looked at.
EnsureUndo(a) ==
    /\ At(a, "undo")
    /\ \E r \in op[a].seen, killed \in BOOLEAN : Terminate(r.pid, killed)
    /\ Return(a, "failed")
    /\ UNCHANGED <<files, squatters, route, backup, outside, guarded, clicks>>

\* The recorded server is ours, on this port, and answers.
Serves(port) == \E r \in record : r.port = port /\ Owns(r) /\ Healthy(port)

\* Twelve seconds for the new server to answer and to be the recorded one.
EnsureAwait(a) ==
    /\ At(a, "await")
    /\ \E verified \in BOOLEAN :
          /\ Works("query", verified)
          /\ IF verified /\ Serves(op[a].port)
             THEN Return(a, "ok") ELSE Call(a, "cleanup", "unstarted")
    /\ UNCHANGED <<files, system, outside, guarded, clicks>>

EnsureFailed(a) ==
    /\ At(a, "unstarted")
    /\ Return(a, "failed")
    /\ UNCHANGED <<files, system, outside, guarded, clicks, faults>>

----------------------------------------------------------------------------
(* enableSharedAppServer: Ensure, then prove ownership and retire the route. *)

EnableEnsured(a) ==
    /\ At(a, "ensured")
    /\ \/ /\ op[a].answer # "ok"
          /\ Return(a, "failed")
          /\ UNCHANGED <<route, backup, faults>>
       \/ /\ op[a].answer = "ok"
          /\ \E verified \in BOOLEAN :
                /\ Works("query", verified)
                /\ IF verified /\ Serves(op[a].port)
                   THEN /\ RestoreRoute(LegacyEndpoints(TRUE))
                        /\ IF route' = "none"
                           THEN Return(a, "ok") ELSE Call(a, "cleanup", "unstarted")
                   ELSE /\ Call(a, "cleanup", "unstarted")
                        /\ UNCHANGED <<route, backup>>
    /\ UNCHANGED <<files, process, squatters, outside, guarded, clicks>>

EnsurePart(a) ==
    EnsureLook(a) \/ EnsureLinger(a) \/ EnsureRestarted(a) \/ EnsureStart(a)
    \/ EnsureRecord(a) \/ EnsureUndo(a) \/ EnsureAwait(a) \/ EnsureFailed(a) \/ EnableEnsured(a)
StopPart(a) ==
    CleanupIfUnused(a) \/ StopLook(a) \/ StopVerify(a) \/ StopKill(a) \/ StopForget(a)
FailOpenPart(a) ==
    FailOpenMark(a) \/ FailOpenDisable(a) \/ FailOpenWithdraw(a) \/ FailOpenDone(a)

----------------------------------------------------------------------------
(* The worker: startup gate, then ticks.                                   *)

Worker(label) == At("worker", label) /\ UNCHANGED clicks
InMemory(label, on) == op' = [op EXCEPT !["worker"] = [Idle(label) EXCEPT !.on = on]]
NeedsFailOpen(answer) == answer \in {"failed", "conflict", "ownership"}

\* main: the configuration is read once, the marker of an interrupted
\* fail-open is looked at before anything else.
WorkerStarts ==
    /\ Worker("down")
    /\ op' = [op EXCEPT !["worker"].on = config.enabled,
                        !["worker"].pc = IF marker THEN "failOpen" ELSE "gate",
                        !["worker"].stack = IF marker THEN <<"marked">> ELSE <<>>]
    /\ guarded' = FALSE
    /\ UNCHANGED <<files, system, outside, faults>>

\* completeStartupFailOpen: an unexplained route, or an enabled setting that
\* could not be withdrawn, ends the worker.
MayContinue ==
    \/ op["worker"].answer = "ok"
    \/ op["worker"].answer = "failed" /\ ~config.enabled

BootMarked ==
    /\ Worker("marked")
    /\ \/ MayContinue /\ InMemory("gate", FALSE)
       \/ ~MayContinue /\ Goto("worker", "down")
    /\ marker' = (marker /\ op["worker"].answer # "ok")
    /\ UNCHANGED <<config, availability, record, system, outside, guarded, faults>>

\* checkSharedServerStartupState.
StartupHealthy(verified) ==
    \/ record = {} /\ route = "none"
    \/ verified /\ \E r \in record : Serves(r.port)

\* prepareSharedBackendAtStartup, or the cleanup of a disabled backend.
BootGate ==
    /\ Worker("gate")
    /\ \/ ~op["worker"].on /\ Call("worker", "cleanup", "prepare") /\ UNCHANGED <<availability, faults>>
       \/ /\ op["worker"].on
          /\ \E verified \in BOOLEAN :
                /\ Works("query", verified)
                /\ \/ StartupHealthy(verified) /\ Goto("worker", "prepare") /\ UNCHANGED availability
                   \/ /\ ~StartupHealthy(verified)
                      /\ availability' = "auto"
                      /\ Call("worker", "failOpen", "unprepared")
    /\ UNCHANGED <<config, marker, record, system, outside, guarded>>

BootUnprepared ==
    /\ Worker("unprepared")
    /\ \/ MayContinue /\ InMemory("prepare", FALSE)
       \/ ~MayContinue /\ Goto("worker", "down")
    /\ UNCHANGED <<files, system, outside, guarded, faults>>

\* runner.Prepare.
BootPrepare ==
    /\ Worker("prepare")
    /\ Call("worker", "readiness", "prepared")
    /\ UNCHANGED <<files, system, outside, guarded, faults>>

BootPrepared ==
    /\ Worker("prepared")
    /\ IF op["worker"].on /\ NeedsFailOpen(op["worker"].answer)
       THEN Call("worker", "failOpen", "started") ELSE InMemory("tick", op["worker"].on)
    /\ UNCHANGED <<files, system, outside, guarded, faults>>

BootStarted ==
    /\ Worker("started")
    /\ \/ MayContinue /\ InMemory("tick", FALSE)
       \/ ~MayContinue /\ Goto("worker", "down")
    /\ UNCHANGED <<files, system, outside, guarded, faults>>

\* preflight and ensureSharedServer.  Official IPC makes the shared server
\* unnecessary; so does a closed switch.
Readiness ==
    /\ Worker("readiness")
    /\ \/ desktop = "official" /\ Return("worker", "ok")
       \/ ~config.enabled /\ Return("worker", "ok")
       \/ config.enabled /\ Call("worker", "ensure", "readied")
    /\ UNCHANGED <<files, system, outside, guarded, faults>>

\* EnsureOwnedEnvironment after Ensure.
ReadinessEnsured ==
    /\ Worker("readied")
    /\ \/ /\ op["worker"].answer # "ok"
          /\ Return("worker", op["worker"].answer)
          /\ UNCHANGED <<route, backup, faults>>
       \/ /\ op["worker"].answer = "ok"
          /\ \E verified \in BOOLEAN :
                Works("query", verified) /\ RestoreRoute(LegacyEndpoints(verified))
          /\ Return("worker", IF route' = "none" THEN "ok" ELSE "conflict")
    /\ UNCHANGED <<files, process, squatters, outside, guarded>>

\* processSharedRecovery up to the first write of config.json: what refuses a
\* launch request.  A worker with a dispatch under way refuses too.
RecoveryAllowed ==
    request /\ ~DesktopRunning /\ config.requested /\ availability # "manual"

TickRecovery ==
    /\ Worker("tick")
    /\ \/ Goto("worker", "probe") /\ UNCHANGED config
       \/ /\ RecoveryAllowed
          /\ config' = [config EXCEPT !.enabled = FALSE]
          /\ op' = [op EXCEPT !["worker"].pc = "withdraw", !["worker"].bad = {},
                              !["worker"].stack = <<"recovered">>]
    /\ request' = FALSE
    /\ UNCHANGED <<marker, availability, record, system, desktop, launcher, guarded, faults>>

RecoveryCleaned ==
    /\ Worker("recovered")
    /\ IF op["worker"].bad = {} /\ op["worker"].answer = "ok"
       THEN op' = [op EXCEPT !["worker"].pc = "ensure", !["worker"].stack = <<"ensured", "prepareDone">>]
       ELSE Goto("worker", "probe")
    /\ UNCHANGED <<files, system, outside, guarded, faults>>

\* The effective switch goes on only for a user who still asks for it, before
\* the deadline, and with Desktop still closed.
RecoveryCommit ==
    /\ Worker("prepareDone")
    /\ \/ /\ op["worker"].answer # "ok"
          /\ availability' = "auto"
          /\ Goto("worker", "probe")
          /\ UNCHANGED config
       \/ /\ op["worker"].answer = "ok"
          /\ \E inTime \in BOOLEAN :
                IF inTime /\ config.requested /\ ~DesktopRunning
                THEN /\ config' = [config EXCEPT !.enabled = TRUE, !.port = op["worker"].port]
                     /\ Goto("worker", "unmark")
                ELSE /\ Call("worker", "cleanup", "probe")
                     /\ UNCHANGED config
          /\ UNCHANGED availability
    /\ UNCHANGED <<marker, record, system, outside, guarded, faults>>

RecoveryUnmark ==
    /\ Worker("unmark")
    /\ marker' = FALSE
    /\ Goto("worker", "reopen")
    /\ UNCHANGED <<config, availability, record, system, outside, guarded, faults>>

RecoveryReopen ==
    /\ Worker("reopen")
    /\ availability' = "none"
    /\ InMemory("probe", config.enabled)
    /\ UNCHANGED <<config, marker, record, system, outside, guarded, faults>>

\* controllerRestartReady: a throttled readiness probe, judged by the switch
\* as it was when the probe began.
TickProbe ==
    /\ Worker("probe")
    /\ Call("worker", "readiness", "probed")
    /\ UNCHANGED <<files, system, outside, guarded, faults>>

TickProbeThrottled ==
    /\ Worker("probe")
    /\ InMemory("memory", config.enabled)
    /\ UNCHANGED <<files, system, outside, guarded, faults>>

TickProbed ==
    /\ Worker("probed")
    /\ \/ /\ op["worker"].on /\ NeedsFailOpen(op["worker"].answer)
          /\ availability' = "auto"
          /\ Call("worker", "failOpen", "reload")
       \/ /\ ~(op["worker"].on /\ NeedsFailOpen(op["worker"].answer))
          /\ Goto("worker", "reload")
          /\ UNCHANGED availability
    /\ UNCHANGED <<config, marker, record, system, outside, guarded, faults>>

\* reloadConfigLocked.
TickReload ==
    /\ Worker("reload")
    /\ InMemory("memory", config.enabled)
    /\ UNCHANGED <<files, system, outside, guarded, faults>>

\* checkSharedAppServerMemory: once per process, on a server that is ours.
TickMemory ==
    /\ Worker("memory")
    /\ \/ Goto("worker", "reconcile") /\ UNCHANGED <<availability, guarded>>
       \/ /\ "memory" \in Features
          /\ op["worker"].on /\ ~guarded /\ \E r \in record : Owns(r)
          /\ guarded' = TRUE
          /\ availability' = "manual"
          /\ Call("worker", "failOpen", "tripped")
    /\ UNCHANGED <<config, marker, record, system, outside, faults>>

TickTripped ==
    /\ Worker("tripped")
    /\ InMemory("tick", op["worker"].answer # "ok")
    /\ UNCHANGED <<files, system, outside, guarded, faults>>

\* Wrong on purpose: a cleanup that was put off is not tried again.
TickReconcileNever ==
    /\ Worker("reconcile")
    /\ InMemory("tick", op["worker"].on)
    /\ UNCHANGED <<files, system, outside, guarded, faults>>

\* reconcileSharedBackendCleanup.
TickReconcile ==
    /\ Worker("reconcile")
    /\ IF op["worker"].on \/ config.enabled
       THEN InMemory("tick", op["worker"].on) ELSE Call("worker", "cleanup", "tick")
    /\ UNCHANGED <<files, system, outside, guarded, faults>>

WorkerStep ==
    \/ WorkerStarts \/ BootMarked \/ BootGate \/ BootUnprepared \/ BootPrepare \/ BootPrepared
    \/ BootStarted \/ Readiness \/ ReadinessEnsured \/ TickRecovery \/ RecoveryCleaned
    \/ RecoveryCommit \/ RecoveryUnmark \/ RecoveryReopen \/ TickProbe \/ TickProbeThrottled
    \/ TickProbed \/ TickReload \/ TickMemory \/ TickTripped \/ TickReconcile

\* The worker dies wherever it is, and the goroutine of the migration with it;
\* its supervisor starts it again.
WorkerDies ==
    /\ "crash" \in Features /\ faults < MaxFaults
    /\ ~At("worker", "down")
    /\ faults' = faults + 1
    /\ op' = [a \in Actors |-> IF a = "worker" THEN Idle("down")
                               ELSE IF a = "migrator" THEN Idle("off") ELSE op[a]]
    /\ UNCHANGED <<files, system, outside, guarded, clicks>>

----------------------------------------------------------------------------
(* setSharedAppServerEnabled in the panel's process.                       *)

EnableClick ==
    /\ "enable" \in Features /\ clicks < MaxClicks
    /\ At("enabler", "idle")
    /\ ~(config.enabled /\ config.requested)
    /\ clicks' = clicks + 1
    /\ config' = [config EXCEPT !.requested = TRUE]
    /\ op' = [op EXCEPT !["enabler"].pc = "ensure", !["enabler"].stack = <<"ensured", "prepareDone">>]
    /\ UNCHANGED <<marker, availability, record, system, outside, guarded, faults>>

\* Wrong on purpose: the preference is not looked at again.
EnableCommitBlindly ==
    /\ At("enabler", "prepareDone")
    /\ \/ op["enabler"].answer # "ok" /\ Goto("enabler", "idle") /\ UNCHANGED config
       \/ /\ op["enabler"].answer = "ok"
          /\ config' = [config EXCEPT !.enabled = TRUE, !.port = op["enabler"].port]
          /\ Goto("enabler", "reopen")
    /\ UNCHANGED <<marker, availability, record, system, outside, guarded, clicks, faults>>

\* The switch goes on unless the user opted out while the server started.
EnableCommit ==
    /\ At("enabler", "prepareDone")
    /\ \/ op["enabler"].answer # "ok" /\ Goto("enabler", "idle") /\ UNCHANGED config
       \/ /\ op["enabler"].answer = "ok"
          /\ IF config.requested
             THEN /\ config' = [config EXCEPT !.enabled = TRUE, !.port = op["enabler"].port]
                  /\ Goto("enabler", "reopen")
             ELSE Call("enabler", "cleanup", "idle") /\ UNCHANGED config
    /\ UNCHANGED <<marker, availability, record, system, outside, guarded, clicks, faults>>

EnableReopen ==
    /\ At("enabler", "reopen")
    /\ availability' = "none"
    /\ Goto("enabler", "unmark")
    /\ UNCHANGED <<config, marker, record, system, outside, guarded, clicks, faults>>

EnableUnmark ==
    /\ At("enabler", "unmark")
    /\ marker' = FALSE
    /\ Goto("enabler", "idle")
    /\ UNCHANGED <<config, availability, record, system, outside, guarded, clicks, faults>>

DisableClick ==
    /\ "disable" \in Features /\ clicks < MaxClicks
    /\ At("disabler", "idle")
    /\ config.enabled \/ config.requested
    /\ clicks' = clicks + 1
    /\ config' = [config EXCEPT !.requested = FALSE, !.enabled = FALSE]
    /\ Call("disabler", "cleanup", "idle")
    /\ UNCHANGED <<marker, availability, record, system, outside, guarded, faults>>

PanelStep == EnableCommit \/ EnableReopen \/ EnableUnmark

\* A panel process ends in the middle of its work.
PanelDies(a) ==
    /\ a \in {"enabler", "disabler"} /\ "crash" \in Features /\ faults < MaxFaults
    /\ ~At(a, "idle")
    /\ faults' = faults + 1
    /\ op' = [op EXCEPT ![a] = Idle("idle")]
    /\ UNCHANGED <<files, system, outside, guarded, clicks>>

----------------------------------------------------------------------------
(* migrateLegacyLaunch: replace a server of an older launch mode.          *)

MigrateLook ==
    /\ At("migrator", "migrate")
    /\ ~DesktopRunning
    /\ ~(UnderManagerLock("worker") /\ ~At("worker", "ensure"))
    /\ \E r \in record :
          \/ ~r.legacy /\ op' = [op EXCEPT !["migrator"] = Idle("off")]
          \/ /\ r.legacy /\ Healthy(op["migrator"].port)
             /\ op' = [op EXCEPT !["migrator"].pc = "verifyOld", !["migrator"].seen = record]
          \/ r.legacy /\ ~Listening(op["migrator"].port) /\ Call("migrator", "start", "migrate")
    /\ UNCHANGED <<files, system, outside, guarded, clicks, faults>>

MigrateVerify ==
    /\ At("migrator", "verifyOld")
    /\ \E r \in op["migrator"].seen, verified \in BOOLEAN :
          /\ Works("query", verified)
          /\ IF verified /\ Owns(r) /\ r.port = op["migrator"].port
             THEN op' = [op EXCEPT !["migrator"].pc = "replace"]
             ELSE Goto("migrator", "migrate")
    /\ UNCHANGED <<files, system, outside, guarded, clicks>>

\* The old server is terminated and, once its port is free, the new one started;
\* anything else is tried again two seconds later.
MigrateReplace ==
    /\ At("migrator", "replace")
    /\ UNCHANGED <<files, squatters, route, backup, outside, guarded, clicks>>
    /\ \E r \in op["migrator"].seen, killed \in BOOLEAN :
          /\ Terminate(r.pid, killed)
          /\ IF killed /\ ~Listening(r.port)'
             THEN Call("migrator", "start", "migrate") ELSE Goto("migrator", "migrate")

MigratorStep == MigrateLook \/ MigrateVerify \/ MigrateReplace

----------------------------------------------------------------------------
(* The launcher, Codex Desktop, the server process and the machine.        *)

\* Get-CodexLaunchRoute: a fresh worker and a verified server, or official.
LaunchRoute ==
    IF config.enabled /\ ~At("worker", "down") /\ Serves(config.port)
    THEN config.port ELSE "official"

LauncherChecks ==
    /\ "launch" \in Features
    /\ launcher = "idle" /\ ~DesktopRunning
    /\ launcher' = LaunchRoute
    /\ UNCHANGED <<files, system, desktop, request, op, guarded, clicks, faults>>

\* Invoke-CodexLaunchRecovery: only the preference is on, so ask the worker.
LauncherAsks ==
    /\ "request" \in Features /\ clicks < MaxClicks
    /\ clicks' = clicks + 1
    /\ ~DesktopRunning /\ LaunchRoute = "official" /\ config.requested /\ ~At("worker", "down")
    /\ ~request /\ request' = TRUE
    /\ UNCHANGED <<files, system, desktop, launcher, op, guarded, faults>>

\* The request expires, or its launcher takes it back.
RequestExpires ==
    /\ request /\ request' = FALSE
    /\ UNCHANGED <<files, system, desktop, launcher, op, guarded, clicks, faults>>

\* Assert-CodexDesktopStopped, then the child process with the verified route.
LauncherStarts ==
    /\ launcher # "idle"
    /\ launcher' = "idle"
    /\ desktop' = IF DesktopRunning THEN desktop ELSE launcher
    /\ UNCHANGED <<files, system, request, op, guarded, clicks, faults>>

\* The user opens Codex directly and an old persistent route applies.  Where none does,
\* that is a launch by a launcher that verified the official route some time ago.
DesktopOpens ==
    /\ "launch" \in Features /\ ~DesktopRunning
    /\ route \in Ports
    /\ desktop' = route
    /\ UNCHANGED <<files, system, launcher, request, op, guarded, clicks, faults>>

DesktopCloses ==
    /\ DesktopRunning
    /\ desktop' = "stopped"
    /\ UNCHANGED <<files, system, launcher, request, op, guarded, clicks, faults>>

\* A new server answers, or finds its port taken and exits.
ServerReady ==
    /\ \E pid \in Pids, port \in Ports :
          /\ process[pid] = Server(port, "starting")
          /\ process' = [process EXCEPT ![pid] =
                            IF Listening(port) THEN Free ELSE Server(port, "healthy")]
    /\ UNCHANGED <<files, squatters, route, backup, outside, op, guarded, clicks, faults>>

Fault(feature) == feature \in Features /\ faults < MaxFaults /\ faults' = faults + 1

ServerDies ==
    /\ Fault("die")
    /\ \E pid \in Pids :
          /\ process[pid].kind = "server"
          /\ process' = [process EXCEPT ![pid] = Free]
    /\ UNCHANGED <<files, squatters, route, backup, outside, op, guarded, clicks>>

ServerHangs ==
    /\ Fault("hang")
    /\ \E pid \in Pids, port \in Ports :
          /\ process[pid] = Server(port, "healthy")
          /\ process' = [process EXCEPT ![pid] = Server(port, "hung")]
    /\ UNCHANGED <<files, squatters, route, backup, outside, op, guarded, clicks>>

\* The pid of a dead server, recorded or in some actor's hands, goes to another
\* program.
PidReused ==
    /\ Fault("reuse")
    /\ \E pid \in Pids :
          /\ process[pid] = Free
          /\ \E r \in record \union UNION {op[a].seen : a \in Actors} : r.pid = pid
          /\ process' = [process EXCEPT ![pid] =
                            Foreign({a \in Actors : Ending(a, pid)})]
    /\ UNCHANGED <<files, squatters, route, backup, outside, op, guarded, clicks>>

\* Another program takes a port.
PortSquatted ==
    /\ Fault("squat")
    /\ \E port \in Ports : ~Listening(port) /\ squatters' = squatters \union {port}
    /\ UNCHANGED <<files, process, route, backup, outside, op, guarded, clicks>>

\* The user sets the variable by hand.
UserSetsRoute ==
    /\ "oldroute" \in Features /\ clicks < MaxClicks
    /\ clicks' = clicks + 1
    /\ route # "user" /\ route' = "user"
    /\ UNCHANGED <<files, process, squatters, backup, outside, op, guarded, faults>>

Machine == ServerDies \/ ServerHangs \/ PidReused \/ PortSquatted
User == LauncherChecks \/ LauncherAsks \/ RequestExpires \/ LauncherStarts \/ DesktopOpens
    \/ DesktopCloses \/ UserSetsRoute

----------------------------------------------------------------------------
\* What an earlier run, or an earlier release, left behind.  After a fail-open
\* the user still asks for a backend that is not in force; the recorded
\* server may be gone since the last boot and its pid in other hands; a launcher's
\* request may be waiting, or a panel may have just begun to prepare the backend.
Init ==
    /\ \E port \in Ports, legacy \in {"legacy" \in Features}, requested \in BOOLEAN,
          enabled \in BOOLEAN :
          /\ enabled => requested
          /\ config = [requested |-> requested, enabled |-> enabled, port |-> port]
          /\ \/ record = {} /\ process = [pid \in Pids |-> Free]
             \/ \E pid \in Pids, left \in {Free, Foreign({}), Server(port, "healthy")} :
                   /\ left.kind = "server" => enabled
                   /\ left.kind = "foreign" => "reuse" \in Features
                   /\ record = {[pid |-> pid, port |-> port, legacy |-> legacy]}
                   /\ process = [q \in Pids |-> IF q = pid THEN left ELSE Free]
    /\ marker = FALSE
    /\ availability = "none"
    /\ squatters = {}
    /\ \/ backup = {} /\ route \in {"none", "user"}
       \/ /\ "oldroute" \in Features
          /\ \E installed \in {config.port}, previous \in {"none", "user"} :
                /\ backup = {[installed |-> installed, previous |-> previous]}
                /\ route \in {installed, "user"}
    /\ desktop = "stopped" /\ launcher = "idle"
    /\ request \in BOOLEAN
    /\ request => "request" \in Features /\ config.requested /\ ~config.enabled
    /\ \E preparing \in BOOLEAN :
          /\ preparing => "enable" \in Features /\ config.requested /\ ~config.enabled
          /\ op = [a \in Actors |->
                      CASE a = "worker" -> Idle("down")
                        [] a = "migrator" -> Idle("off")
                        [] a = "enabler" /\ preparing ->
                              [Idle("ensure") EXCEPT !.stack = <<"ensured", "prepareDone">>]
                        [] OTHER -> Idle("idle")]
    /\ guarded = FALSE
    /\ clicks = 0 /\ faults = 0

CallPart(a) == EnsurePart(a) \/ StopPart(a) \/ FailOpenPart(a)

Next ==
    \/ \E a \in Actors : CallPart(a) \/ PanelDies(a)
    \/ WorkerStep \/ WorkerDies
    \/ EnableClick \/ PanelStep \/ DisableClick
    \/ MigratorStep
    \/ User \/ ServerReady \/ Machine

Spec == Init /\ [][Next]_vars

\* Running programs go on, a worker that died is started again by its
\* supervisor, a started server answers, the throttle of the readiness probe
\* (ten seconds) opens again and again, and so does the manager's mutex while
\* the migration sleeps.  Users, Desktop and the machine owe nothing.
Fairness ==
    /\ \A a \in Actors : WF_vars(CallPart(a))
    /\ WF_vars(WorkerStep) /\ SF_vars(TickProbe) /\ SF_vars(EnsureLook("worker"))
    /\ WF_vars(PanelStep) /\ WF_vars(MigratorStep) /\ WF_vars(ServerReady)

FairSpec == Spec /\ Fairness

----------------------------------------------------------------------------
(* Properties.                                                             *)

\* The shared switch is never on for a user who opted out: not after a launch
\* recovery, nor after an enabling the user took back while the server started
\* (management.go:255, shared_recovery_windows.go:126).
EnabledOnlyIfRequested == config.enabled => config.requested

\* A route the user set stays as the user set it, whatever backup an older
\* release left and whoever cleans up (shared_mode_windows.go:547).
UserRouteKept == [][route = "user" => route' = "user"]_vars

\* No cleanup, repair or migration ends another program's process that was there when
\* it looked: what ends one had made sure of the pid - ownsProcess said that the
\* plugin's server runs there, or start had just got the pid - and the process took
\* the pid only afterwards (shared_mode_windows.go:443, shared_server_windows.go:601).
SeenStrangersSpared ==
    [][\A pid \in Pids :
          process[pid].kind = "foreign" /\ process'[pid] # process[pid]
              => \E a \in process[pid].missedBy : Ending(a, pid)]_vars

\* The stronger wish, that a process of another program is never ended at all: the pid
\* may change hands between the query and taskkill.
StrangersSpared ==
    [][\A pid \in Pids : process[pid].kind = "foreign" => process'[pid] = process[pid]]_vars

\* "Do not terminate a live server while Desktop may still be using it"
\* (shared_mode_windows.go:437): no step of the plugin ends the server that
\* Desktop is connected to.
RouteInUseKept ==
    [][\A pid \in Pids :
          process[pid].kind = "server" /\ process[pid].port = desktop
              => process'[pid] # Free]_vars

\* Another program runs under the recorded pid.
RecordUsurped == \E r \in record : process[r.pid].kind = "foreign"

\* Once the switch stays off and Desktop stays closed, every persistent route to the
\* server is removed and so is its record, whatever crashed, hung or failed on the way
\* (docs/shared-backend-safety.md:190).  Only a record whose pid another program took
\* stays for as long as that program runs: StopOwned answers that ownership is unknown.
DisabledBackendRemoved ==
    <>[](~config.enabled /\ desktop = "stopped")
        => <>[]((record = {} \/ RecordUsurped) /\ route \notin Ports)

\* While the switch stays on and Desktop stays closed, the worker ends up with
\* a verified server that answers.
EnabledBackendServes ==
    <>[](config.enabled /\ desktop = "stopped") => <>[]Serves(config.port)
=============================================================================
