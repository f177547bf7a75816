---------------------------- MODULE BackendProofs ----------------------------
(***************************************************************************)
(* What SharedBackend promises of the user's choices and of processes that *)
(* are not the plugin's, for any pids, ports, features and bounds:         *)
(* EnabledOnlyIfRequested, UserRouteKept and SeenStrangersSpared.          *)
(***************************************************************************)
EXTENDS SharedBackend, TLAPS

\* What is known of a port that some step read or chose: it is never the word
\* for a value of the user's own.
Named == Ports \union {"none"}

LEMMA UserIsNoPort == "user" \notin Named
BY PortsNamed DEF Named

Single(set) == \A q, r \in set : q = r

\* Every frame has the fields that a later step acts on, and holds the record that
\* some step saw, or started.
Frames ==
    /\ DOMAIN op = Actors
    /\ \A a \in Actors :
          /\ {"pc", "port", "seen"} \subseteq DOMAIN op[a]
          /\ op[a].port \in Named
          /\ \A r \in op[a].seen : r.port \in Named
          /\ Single(op[a].seen)

Config == config \in [requested : BOOLEAN, enabled : BOOLEAN, port : Named]
Endpoints ==
    /\ Single(record)
    /\ \A r \in record : r.port \in Named
    /\ \A b \in backup : b.installed \in Named
Table == DOMAIN process = Pids

\* An actor that is about to end the process of a pid made sure of the pid before a
\* process of another program took it.
Watched ==
    \A a \in Actors, pid \in Pids :
        Ending(a, pid) /\ process[pid].kind = "foreign" => a \in process[pid].missedBy

\* The inductive invariant: the switch is on for users who asked for it, no endpoint
\* in a file, a backup or a frame is the user's own value, and what an actor is about
\* to end was not another program's when it looked.
Inv == Frames /\ Config /\ EnabledOnlyIfRequested /\ Endpoints /\ Table /\ Watched

RouteStep == route = "user" => route' = "user"
ProcessStep ==
    \A pid \in Pids :
        process[pid].kind = "foreign" /\ process'[pid] # process[pid]
            => \E a \in process[pid].missedBy : Ending(a, pid)
Kept == Inv' /\ RouteStep /\ ProcessStep

\* A step after which no actor is about to end a process that it was not already
\* about to end.
FrameStep ==
    /\ Frames'
    /\ \A a \in Actors, pid \in Pids : Ending(a, pid)' => Ending(a, pid)

----------------------------------------------------------------------------
(* Steps inside a call.                                                    *)

LEMMA GotoFrames ==
    ASSUME NEW a, NEW label, Frames, Goto(a, label)
    PROVE  FrameStep
BY DEF FrameStep, Frames, Single, Ending, Goto

LEMMA CallFrames ==
    ASSUME NEW a, NEW label, NEW return, Frames, Call(a, label, return),
           label \notin {"kill", "replace", "record", "undo"}
    PROVE  FrameStep
BY DEF FrameStep, Frames, Single, Ending, Call

LEMMA ReturnFrames ==
    ASSUME NEW a, NEW answer, Frames, Return(a, answer)
    PROVE  FrameStep
BY DEF FrameStep, Frames, Single, Ending, Return

LEMMA InMemoryFrames ==
    ASSUME NEW label, NEW on, Frames, InMemory(label, on)
    PROVE  FrameStep
BY DEF FrameStep, Frames, Single, Ending, InMemory, Idle, Named

\* Who runs where is as before.
LEMMA WatchedKept ==
    ASSUME Inv, FrameStep, UNCHANGED process
    PROVE  Frames' /\ Table' /\ Watched' /\ ProcessStep
BY DEF Inv, FrameStep, Table, Watched, ProcessStep

\* A step that touches no file of the invariant.
LEMMA QuietKeeps ==
    ASSUME Inv, FrameStep, UNCHANGED <<config, record, route, backup, process>>
    PROVE  Kept
BY WatchedKept DEF Inv, Config, EnabledOnlyIfRequested, Endpoints, Kept, RouteStep

\* The restored route is the user's if the user's was set.
LEMMA RestoreKeeps ==
    ASSUME Endpoints, NEW verified, RestoreRoute(LegacyEndpoints(verified))
    PROVE  RouteStep /\ backup' = {}
<1> DEFINE legacy == LegacyEndpoints(verified)
<1>1. "user" \notin legacy
  BY UserIsNoPort DEF Endpoints, LegacyEndpoints
<1>2. CASE backup = {} /\ route' = IF route \in legacy THEN "none" ELSE route
  BY <1>1, <1>2 DEF RouteStep, RestoreRoute
<1>3. CASE \E b \in backup : route' = IF ChangedByUser(b, legacy) THEN route
                                      ELSE PreviousRoute(b, legacy)
  <2>1. PICK b \in backup : route' = IF ChangedByUser(b, legacy) THEN route
                                     ELSE PreviousRoute(b, legacy)
    BY <1>3
  <2>2. b.installed # "user"
    BY UserIsNoPort DEF Endpoints
  <2>3. RouteStep
    BY <2>1, <2>2 DEF RouteStep, ChangedByUser
  <2> QED
    BY <2>3 DEF RestoreRoute
<1> QED
  BY <1>2, <1>3 DEF RestoreRoute

\* A step that restores the route and touches no other file.
LEMMA RouteRestored ==
    ASSUME Inv, FrameStep, NEW verified, RestoreRoute(LegacyEndpoints(verified)),
           UNCHANGED <<config, record, process>>
    PROVE  Kept
<1>1. RouteStep /\ backup' = {}
  BY RestoreKeeps DEF Inv
<1> QED
  BY <1>1, WatchedKept DEF Inv, Config, EnabledOnlyIfRequested, Endpoints, Kept, RouteStep

\* A step that ends a process and touches no other file.
LEMMA Ended ==
    ASSUME Inv, FrameStep, NEW a \in Actors, op[a].pc \in {"kill", "replace", "undo"},
           NEW r \in op[a].seen, NEW killed, Terminate(r.pid, killed),
           UNCHANGED <<config, record, route, backup>>
    PROVE  Kept
<1>1. \/ UNCHANGED process
      \/ process' = [process EXCEPT ![r.pid] = Free]
  BY DEF Terminate
<1>2. CASE UNCHANGED process BY <1>2, QuietKeeps
<1>3. CASE process' = [process EXCEPT ![r.pid] = Free]
  <2>1. Ending(a, r.pid) BY DEF Ending
  <2>2. \A pid \in Pids : pid # r.pid => process'[pid] = process[pid]
    BY <1>3 DEF Inv, Table
  <2>3. ProcessStep BY <2>1, <2>2 DEF Inv, Watched, ProcessStep
  <2>4. r.pid \in Pids => process'[r.pid].kind # "foreign"
    BY <1>3 DEF Inv, Table, Free
  <2>5. Watched' BY <2>2, <2>4 DEF Inv, Watched, FrameStep
  <2>6. Table' /\ Frames' BY <1>3 DEF Inv, Table, FrameStep
  <2> QED
    BY <2>3, <2>5, <2>6 DEF Inv, Config, EnabledOnlyIfRequested, Endpoints, Kept, RouteStep
<1> QED BY <1>1, <1>2, <1>3

\* A step of an actor that has just made sure of what it holds, and touches no file.
LEMMA Verified ==
    ASSUME Inv, NEW a \in Actors, NEW r \in op[a].seen, Owns(r),
           NEW label, op' = [op EXCEPT ![a].pc = label],
           UNCHANGED <<config, record, route, backup, process>>
    PROVE  Kept
<1>1. Frames' BY DEF Inv, Frames, Single
<1>2. \A q \in op[a].seen : q = r BY DEF Inv, Frames, Single
<1>3. op'[a].seen = op[a].seen BY DEF Inv, Frames
<1>4. \A b \in Actors \ {a} : op'[b] = op[b] BY DEF Inv, Frames
<1>5. \A pid \in Pids : ~(Ending(a, pid)' /\ process[pid].kind = "foreign")
  BY <1>2, <1>3 DEF Ending, Owns
<1>6. Watched' BY <1>4, <1>5 DEF Inv, Watched, Ending
<1> QED
  BY <1>1, <1>6 DEF Inv, Config, EnabledOnlyIfRequested, Endpoints, Table, Kept, RouteStep,
                    ProcessStep

----------------------------------------------------------------------------
(* CleanupIfUnused and StopOwned.                                          *)

LEMMA StopKeeps ==
    ASSUME Inv, NEW a \in Actors, StopPart(a)
    PROVE  Kept
<1> USE DEF files, system, outside
<1>1. CASE CleanupIfUnused(a)
  <2>1. CASE ~OwnedArtifacts /\ Return(a, "ok") /\ UNCHANGED <<route, backup, faults>>
    <3>1. FrameStep BY <2>1, ReturnFrames DEF Inv
    <3> QED BY <1>1, <2>1, <3>1, QuietKeeps DEF CleanupIfUnused
  <2>2. CASE Return(a, "deferred") /\ UNCHANGED <<route, backup, faults>>
    <3>1. FrameStep BY <2>2, ReturnFrames DEF Inv
    <3> QED BY <1>1, <2>2, <3>1, QuietKeeps DEF CleanupIfUnused
  <2>3. CASE /\ \E verified \in BOOLEAN :
                   Works("query", verified) /\ RestoreRoute(LegacyEndpoints(verified))
             /\ Goto(a, "stop")
    <3>1. FrameStep BY <2>3, GotoFrames DEF Inv
    <3>2. PICK verified \in BOOLEAN : RestoreRoute(LegacyEndpoints(verified)) BY <2>3
    <3>3. UNCHANGED <<config, record, process>> BY <1>1 DEF CleanupIfUnused
    <3> QED BY <3>1, <3>2, <3>3, RouteRestored
  <2> QED BY <1>1, <2>1, <2>2, <2>3 DEF CleanupIfUnused
<1>2. CASE StopLook(a)
  <2>1. FrameStep
    <3>1. CASE Return(a, "ok") \/ Return(a, "deferred") BY <3>1, ReturnFrames DEF Inv
    <3>2. CASE op' = [op EXCEPT ![a].pc = "verify", ![a].seen = record]
      BY <3>2 DEF Inv, FrameStep, Frames, Single, Endpoints, Ending
    <3> QED BY <1>2, <3>1, <3>2 DEF StopLook
  <2>2. UNCHANGED <<config, route, backup, process>> /\ record' \subseteq record
    BY <1>2 DEF StopLook
  <2> QED
    BY <2>1, <2>2, WatchedKept DEF Inv, Config, EnabledOnlyIfRequested, Endpoints, Single, Kept,
                                   RouteStep
<1>3. CASE StopVerify(a)
  <2>1. UNCHANGED <<config, record, route, backup, process>> BY <1>3 DEF StopVerify
  <2>2. CASE \E r \in op[a].seen : Owns(r) /\ op' = [op EXCEPT ![a].pc = "kill"]
    BY <2>1, <2>2, Verified
  <2>3. CASE Return(a, "ownership")
    <3>1. FrameStep BY <2>3, ReturnFrames DEF Inv
    <3> QED BY <2>1, <3>1, QuietKeeps
  <2> QED BY <1>3, <2>2, <2>3 DEF StopVerify
<1>4. CASE StopKill(a)
  <2>1. UNCHANGED <<config, record, route, backup>> /\ op[a].pc = "kill"
    BY <1>4 DEF StopKill, At
  <2>2. PICK r \in op[a].seen, killed \in BOOLEAN :
           /\ Terminate(r.pid, killed)
           /\ Goto(a, "forget") \/ Return(a, "failed")
    BY <1>4 DEF StopKill
  <2>3. FrameStep BY <2>2, GotoFrames, ReturnFrames DEF Inv
  <2> QED BY <2>1, <2>2, <2>3, Ended
<1>5. CASE StopForget(a)
  <2>1. FrameStep BY <1>5, ReturnFrames DEF Inv, StopForget
  <2>2. record' = {} /\ UNCHANGED <<config, route, backup, process>> BY <1>5 DEF StopForget
  <2> QED
    BY <2>1, <2>2, WatchedKept DEF Inv, Config, EnabledOnlyIfRequested, Endpoints, Single, Kept,
                                   RouteStep
<1> QED BY <1>1, <1>2, <1>3, <1>4, <1>5 DEF StopPart

----------------------------------------------------------------------------
(* failOpenSharedAppServer.                                                *)

LEMMA FailOpenKeeps ==
    ASSUME Inv, NEW a \in Actors, FailOpenPart(a)
    PROVE  Kept
<1> USE DEF files, system, outside
<1>1. CASE FailOpenMark(a)
  <2>1. FrameStep BY <1>1 DEF FailOpenMark, Inv, FrameStep, Frames, Single, Ending
  <2> QED BY <1>1, <2>1, QuietKeeps DEF FailOpenMark
<1>2. CASE FailOpenDisable(a)
  <2>1. FrameStep BY <1>2 DEF FailOpenDisable, Inv, FrameStep, Frames, Single, Ending
  <2>2. UNCHANGED <<record, route, backup, process>> BY <1>2 DEF FailOpenDisable
  <2>3. PICK written \in BOOLEAN : config' = [config EXCEPT !.enabled = ~written /\ @]
    BY <1>2 DEF FailOpenDisable
  <2>4. Config' /\ EnabledOnlyIfRequested'
    BY <2>3 DEF Inv, Config, EnabledOnlyIfRequested
  <2> QED
    BY <2>1, <2>2, <2>4, WatchedKept DEF Inv, Endpoints, Kept, RouteStep
<1>3. CASE FailOpenWithdraw(a)
  <2>1. PICK verified \in BOOLEAN :
           /\ RestoreRoute(LegacyEndpoints(verified))
           /\ \E bad : op' = [op EXCEPT ![a].pc = "stop", ![a].bad = bad]
    BY <1>3 DEF FailOpenWithdraw
  <2>2. FrameStep BY <2>1 DEF Inv, FrameStep, Frames, Single, Ending
  <2>3. UNCHANGED <<config, record, process>> BY <1>3 DEF FailOpenWithdraw
  <2> QED BY <2>1, <2>2, <2>3, RouteRestored
<1>4. CASE FailOpenDone(a)
  <2>1. \E answer : Return(a, answer) BY <1>4 DEF FailOpenDone
  <2>2. FrameStep BY <2>1, ReturnFrames DEF Inv
  <2> QED BY <1>4, <2>2, QuietKeeps DEF FailOpenDone
<1> QED BY <1>1, <1>2, <1>3, <1>4 DEF FailOpenPart

----------------------------------------------------------------------------
(* Ensure and enableSharedAppServer.                                       *)

\* Ensure only moves the port of the configuration.
LEMMA PortMoved ==
    ASSUME Inv, FrameStep, NEW port \in Named, config' = [config EXCEPT !.port = port],
           UNCHANGED <<record, route, backup, process>>
    PROVE  Kept
<1>1. Config' /\ EnabledOnlyIfRequested' BY DEF Inv, Config, EnabledOnlyIfRequested
<1> QED BY <1>1, WatchedKept DEF Inv, Endpoints, Kept, RouteStep

LEMMA AdoptedFrames ==
    ASSUME Frames, NEW a \in Actors, NEW r, r.port \in Named, NEW port \in Named,
           Adopted(a, r, port)
    PROVE  FrameStep
<1> DEFINE scheduled == ScheduleMigration(a, r)
<1>1. /\ DOMAIN scheduled = Actors
      /\ \A b \in Actors :
            /\ {"pc", "port", "seen"} \subseteq DOMAIN scheduled[b]
            /\ scheduled[b].port \in Named
            /\ scheduled[b].seen = op[b].seen
            /\ scheduled[b].pc \in {op[b].pc, "migrate"}
  BY DEF Frames, ScheduleMigration, Actors
<1>2. \E pc, stack : op' = [scheduled EXCEPT ![a].pc = pc, ![a].stack = stack,
                                           ![a].answer = "ok", ![a].seen = {}, ![a].port = port]
  BY DEF Adopted
<1> HIDE DEF scheduled
<1>3. /\ \A b \in Actors \ {a} : op'[b] = scheduled[b]
      /\ op'[a].seen = {} /\ op'[a].port = port
      /\ {"pc", "port", "seen"} \subseteq DOMAIN op'[a]
      /\ DOMAIN op' = Actors
  BY <1>1, <1>2
<1>4. Frames' BY <1>1, <1>3 DEF Frames, Single
<1>5. \A b \in Actors, pid \in Pids : Ending(b, pid)' => Ending(b, pid)
  BY <1>1, <1>3 DEF Ending
<1> QED BY <1>4, <1>5 DEF FrameStep

LEMMA EnsureLookKeeps ==
    ASSUME Inv, NEW a \in Actors, EnsureLook(a)
    PROVE  Kept
<1> USE DEF files, system, outside
<1>1. UNCHANGED <<record, route, backup, process>> BY DEF EnsureLook
<1>2. PICK verified \in BOOLEAN :
         LET owned == {r \in record : verified /\ Owns(r)}
             port == IF owned = {} THEN config.port ELSE (CHOOSE r \in owned : TRUE).port
             keep == config' = [config EXCEPT !.port = port]
         IN  \/ \E r \in owned : Adopted(a, r, port) /\ keep
             \/ PortTaken(a, port)
             \/ \E label \in {"linger", "start"} :
                    op' = [op EXCEPT ![a].pc = label, ![a].port = port] /\ keep
  BY DEF EnsureLook
<1> DEFINE owned == {r \in record : verified /\ Owns(r)}
           port == IF owned = {} THEN config.port ELSE (CHOOSE r \in owned : TRUE).port
<1>3. port \in Named
  <2>1. config.port \in Named BY DEF Inv, Config
  <2>2. \A r \in owned : r.port \in Named BY DEF Inv, Endpoints
  <2>3. owned # {} => (CHOOSE r \in owned : TRUE) \in owned OBVIOUS
  <2> QED BY <2>1, <2>2, <2>3
<1>4. \A r \in owned : r.port \in Named BY DEF Inv, Endpoints
<1>5. \/ \E r \in owned : Adopted(a, r, port) /\ config' = [config EXCEPT !.port = port]
      \/ PortTaken(a, port)
      \/ \E label \in {"linger", "start"} :
             /\ op' = [op EXCEPT ![a].pc = label, ![a].port = port]
             /\ config' = [config EXCEPT !.port = port]
  BY <1>2
<1> HIDE DEF owned, port
<1>6. CASE \E r \in owned : Adopted(a, r, port) /\ config' = [config EXCEPT !.port = port]
  <2>1. FrameStep BY <1>3, <1>4, <1>6, AdoptedFrames DEF Inv
  <2> QED BY <1>1, <1>3, <1>6, <2>1, PortMoved
<1>7. CASE PortTaken(a, port)
  <2>1. CASE Return(a, "conflict") /\ UNCHANGED config
    <3>1. FrameStep BY <2>1, ReturnFrames DEF Inv
    <3> QED BY <1>1, <2>1, <3>1, QuietKeeps
  <2>2. CASE \E q \in AlternatePorts(port) :
                 /\ config' = [config EXCEPT !.port = q]
                 /\ op' = [op EXCEPT ![a].pc = "start", ![a].port = q]
    <3>1. PICK q \in AlternatePorts(port) :
                 /\ config' = [config EXCEPT !.port = q]
                 /\ op' = [op EXCEPT ![a].pc = "start", ![a].port = q]
      BY <2>2
    <3>2. q \in Named BY <1>3 DEF AlternatePorts, Named
    <3>3. FrameStep BY <3>1, <3>2 DEF Inv, FrameStep, Frames, Single, Ending
    <3> QED BY <1>1, <3>1, <3>2, <3>3, PortMoved
  <2> QED BY <1>7, <2>1, <2>2 DEF PortTaken
<1>8. CASE \E label \in {"linger", "start"} :
              /\ op' = [op EXCEPT ![a].pc = label, ![a].port = port]
              /\ config' = [config EXCEPT !.port = port]
  <2>1. FrameStep BY <1>3, <1>8 DEF Inv, FrameStep, Frames, Single, Ending
  <2> QED BY <1>1, <1>3, <1>8, <2>1, PortMoved
<1> QED BY <1>5, <1>6, <1>7, <1>8

LEMMA EnsureKeeps ==
    ASSUME Inv, NEW a \in Actors, EnsurePart(a)
    PROVE  Kept
<1> USE DEF files, system, outside
<1>1. CASE EnsureLook(a) BY <1>1, EnsureLookKeeps
<1>2. CASE EnsureLinger(a)
  <2>1. FrameStep BY <1>2, ReturnFrames, CallFrames DEF EnsureLinger, Inv
  <2> QED BY <1>2, <2>1, QuietKeeps DEF EnsureLinger
<1>3. CASE EnsureRestarted(a)
  <2>1. FrameStep BY <1>3, ReturnFrames, GotoFrames DEF EnsureRestarted, Inv
  <2> QED BY <1>3, <2>1, QuietKeeps DEF EnsureRestarted
<1>4. CASE EnsureStart(a)
  <2>1. PICK pid \in Pids :
           /\ process[pid] = Free
           /\ \E port : process' = [process EXCEPT ![pid] =
                                      IF Listening(port) THEN Free ELSE Server(port, "starting")]
           /\ op' = [op EXCEPT ![a].pc = "record",
                              ![a].seen = {[pid |-> pid, port |-> op[a].port, legacy |-> FALSE]}]
    BY <1>4 DEF EnsureStart
  <2>2. Frames' BY <2>1 DEF Inv, Frames, Single
  <2>3. UNCHANGED <<config, record, route, backup>> BY <1>4 DEF EnsureStart
  <2>4. process[pid].kind # "foreign" /\ process'[pid].kind # "foreign"
    BY <2>1 DEF Inv, Table, Free, Server
  <2>5. ProcessStep /\ Table' BY <2>1, <2>4 DEF Inv, ProcessStep, Table
  <2>6. op'[a].seen = {[pid |-> pid, port |-> op[a].port, legacy |-> FALSE]}
    BY <2>1 DEF Inv, Frames
  <2>7. \A q \in Pids : Ending(a, q)' => q = pid BY <2>6 DEF Ending
  <2>8. \A b \in Actors \ {a} : op'[b] = op[b] BY <2>1 DEF Inv, Frames
  <2>9. \A q \in Pids : q # pid => process'[q] = process[q] BY <2>1 DEF Inv, Table
  <2>10. Watched' BY <2>4, <2>7, <2>8, <2>9 DEF Inv, Watched, Ending
  <2> QED
    BY <2>2, <2>3, <2>5, <2>10 DEF Inv, Config, EnabledOnlyIfRequested, Endpoints, Kept, RouteStep
<1>5. CASE EnsureRecord(a)
  <2>1. UNCHANGED <<config, route, backup, process>> BY <1>5 DEF EnsureRecord, At
  <2>2. CASE record' = op[a].seen /\ (Return(a, "ok") \/ Goto(a, "await"))
    <3>1. FrameStep BY <2>2, ReturnFrames, GotoFrames DEF Inv
    <3>2. Endpoints' BY <2>1, <2>2 DEF Inv, Frames, Endpoints
    <3> QED
      BY <2>1, <3>1, <3>2, WatchedKept DEF Inv, Config, EnabledOnlyIfRequested, Kept, RouteStep
  <2>3. CASE UNCHANGED record /\ op' = [op EXCEPT ![a].pc = "undo"]
    <3>1. FrameStep BY <1>5, <2>3 DEF EnsureRecord, At, Inv, FrameStep, Frames, Single, Ending
    <3> QED BY <2>1, <2>3, <3>1, QuietKeeps
  <2> QED BY <1>5, <2>2, <2>3 DEF EnsureRecord
<1>6. CASE EnsureUndo(a)
  <2>1. UNCHANGED <<config, record, route, backup>> /\ op[a].pc = "undo"
    BY <1>6 DEF EnsureUndo, At
  <2>2. PICK r \in op[a].seen, killed \in BOOLEAN : Terminate(r.pid, killed)
    BY <1>6 DEF EnsureUndo
  <2>3. FrameStep BY <1>6, ReturnFrames DEF EnsureUndo, Inv
  <2> QED BY <2>1, <2>2, <2>3, Ended
<1>7. CASE EnsureAwait(a)
  <2>1. Return(a, "ok") \/ Call(a, "cleanup", "unstarted") BY <1>7 DEF EnsureAwait
  <2>2. FrameStep BY <2>1, ReturnFrames, CallFrames DEF Inv
  <2> QED BY <1>7, <2>2, QuietKeeps DEF EnsureAwait
<1>8. CASE EnsureFailed(a)
  <2>1. FrameStep BY <1>8, ReturnFrames DEF EnsureFailed, Inv
  <2> QED BY <1>8, <2>1, QuietKeeps DEF EnsureFailed
<1>9. CASE EnableEnsured(a)
  <2>1. UNCHANGED <<config, record, process>> BY <1>9 DEF EnableEnsured
  <2>2. \/ Return(a, "failed") \/ Return(a, "ok") \/ Call(a, "cleanup", "unstarted")
    BY <1>9 DEF EnableEnsured
  <2>3. FrameStep BY <2>2, ReturnFrames, CallFrames DEF Inv
  <2>4. UNCHANGED <<route, backup>> \/ RestoreRoute(LegacyEndpoints(TRUE))
    BY <1>9 DEF EnableEnsured
  <2> QED BY <2>1, <2>3, <2>4, QuietKeeps, RouteRestored
<1> QED BY <1>1, <1>2, <1>3, <1>4, <1>5, <1>6, <1>7, <1>8, <1>9 DEF EnsurePart

----------------------------------------------------------------------------
(* The worker.                                                             *)

LEMMA BootKeeps ==
    ASSUME Inv, \/ WorkerStarts \/ BootMarked \/ BootGate \/ BootUnprepared \/ BootPrepare
                \/ BootPrepared \/ BootStarted
    PROVE  Kept
<1> USE DEF files, system, outside, Worker
<1>1. CASE WorkerStarts
  <2>1. \E on, stack : \E pc \in {"failOpen", "gate"} :
           op' = [op EXCEPT !["worker"].on = on, !["worker"].pc = pc,
                            !["worker"].stack = stack]
    BY <1>1 DEF WorkerStarts
  <2>2. FrameStep BY <2>1 DEF Inv, FrameStep, Frames, Single, Ending
  <2> QED BY <1>1, <2>2, QuietKeeps DEF WorkerStarts
<1>2. CASE BootMarked
  <2>1. FrameStep BY <1>2, InMemoryFrames, GotoFrames DEF BootMarked, Inv
  <2> QED BY <1>2, <2>1, QuietKeeps DEF BootMarked
<1>3. CASE BootGate
  <2>1. FrameStep BY <1>3, CallFrames, GotoFrames DEF BootGate, Inv
  <2> QED BY <1>3, <2>1, QuietKeeps DEF BootGate
<1>4. CASE BootUnprepared
  <2>1. FrameStep BY <1>4, InMemoryFrames, GotoFrames DEF BootUnprepared, Inv
  <2> QED BY <1>4, <2>1, QuietKeeps DEF BootUnprepared
<1>5. CASE BootPrepare
  <2>1. FrameStep BY <1>5, CallFrames DEF BootPrepare, Inv
  <2> QED BY <1>5, <2>1, QuietKeeps DEF BootPrepare
<1>6. CASE BootPrepared
  <2>1. FrameStep BY <1>6, CallFrames, InMemoryFrames DEF BootPrepared, Inv
  <2> QED BY <1>6, <2>1, QuietKeeps DEF BootPrepared
<1>7. CASE BootStarted
  <2>1. FrameStep BY <1>7, InMemoryFrames, GotoFrames DEF BootStarted, Inv
  <2> QED BY <1>7, <2>1, QuietKeeps DEF BootStarted
<1> QED BY <1>1, <1>2, <1>3, <1>4, <1>5, <1>6, <1>7

LEMMA ReadinessKeeps ==
    ASSUME Inv, Readiness \/ ReadinessEnsured
    PROVE  Kept
<1> USE DEF files, system, outside, Worker
<1>1. CASE Readiness
  <2>1. FrameStep BY <1>1, CallFrames, ReturnFrames DEF Readiness, Inv
  <2> QED BY <1>1, <2>1, QuietKeeps DEF Readiness
<1>2. CASE ReadinessEnsured
  <2>1. UNCHANGED <<config, record, process>> BY <1>2 DEF ReadinessEnsured
  <2>2. \E answer : Return("worker", answer) BY <1>2 DEF ReadinessEnsured
  <2>3. FrameStep BY <2>2, ReturnFrames DEF Inv
  <2>4. \/ UNCHANGED <<route, backup>>
        \/ \E verified \in BOOLEAN : RestoreRoute(LegacyEndpoints(verified))
    BY <1>2 DEF ReadinessEnsured
  <2> QED BY <2>1, <2>3, <2>4, QuietKeeps, RouteRestored
<1> QED BY <1>1, <1>2

\* The switch goes on only where the user was asked a moment ago.
LEMMA SwitchedOn ==
    ASSUME Inv, FrameStep, config.requested, NEW port \in Named,
           config' = [config EXCEPT !.enabled = TRUE, !.port = port],
           UNCHANGED <<record, route, backup, process>>
    PROVE  Kept
<1>1. Config' /\ EnabledOnlyIfRequested' BY DEF Inv, Config, EnabledOnlyIfRequested
<1> QED BY <1>1, WatchedKept DEF Inv, Endpoints, Kept, RouteStep

LEMMA RecoveryKeeps ==
    ASSUME Inv, \/ TickRecovery \/ RecoveryCleaned \/ RecoveryCommit \/ RecoveryUnmark
                \/ RecoveryReopen
    PROVE  Kept
<1> USE DEF files, system, outside, Worker
<1>1. CASE TickRecovery
  <2>1. UNCHANGED <<record, route, backup, process>> BY <1>1 DEF TickRecovery
  <2>2. CASE Goto("worker", "probe") /\ UNCHANGED config
    <3>1. FrameStep BY <2>2, GotoFrames DEF Inv
    <3> QED BY <2>1, <2>2, <3>1, QuietKeeps
  <2>3. CASE /\ config' = [config EXCEPT !.enabled = FALSE]
             /\ op' = [op EXCEPT !["worker"].pc = "withdraw", !["worker"].bad = {},
                                 !["worker"].stack = <<"recovered">>]
    <3>1. FrameStep BY <2>3 DEF Inv, FrameStep, Frames, Single, Ending
    <3>2. Config' /\ EnabledOnlyIfRequested' BY <2>3 DEF Inv, Config, EnabledOnlyIfRequested
    <3> QED
      BY <2>1, <3>1, <3>2, WatchedKept DEF Inv, Endpoints, Kept, RouteStep
  <2> QED BY <1>1, <2>2, <2>3 DEF TickRecovery
<1>2. CASE RecoveryCleaned
  <2>1. \/ Goto("worker", "probe")
        \/ op' = [op EXCEPT !["worker"].pc = "ensure",
                            !["worker"].stack = <<"ensured", "prepareDone">>]
    BY <1>2 DEF RecoveryCleaned
  <2>2. FrameStep BY <2>1, GotoFrames DEF Inv, FrameStep, Frames, Single, Ending
  <2> QED BY <1>2, <2>2, QuietKeeps DEF RecoveryCleaned
<1>3. CASE RecoveryCommit
  <2>1. UNCHANGED <<record, route, backup, process>> BY <1>3 DEF RecoveryCommit
  <2>2. \/ Goto("worker", "probe") \/ Goto("worker", "unmark")
        \/ Call("worker", "cleanup", "probe")
    BY <1>3 DEF RecoveryCommit
  <2>3. FrameStep BY <2>2, GotoFrames, CallFrames DEF Inv
  <2>4. \/ UNCHANGED config
        \/ /\ config.requested
           /\ config' = [config EXCEPT !.enabled = TRUE, !.port = op["worker"].port]
    BY <1>3 DEF RecoveryCommit
  <2>5. op["worker"].port \in Named BY DEF Inv, Frames, Actors
  <2> QED BY <2>1, <2>3, <2>4, <2>5, QuietKeeps, SwitchedOn
<1>4. CASE RecoveryUnmark
  <2>1. FrameStep BY <1>4, GotoFrames DEF RecoveryUnmark, Inv
  <2> QED BY <1>4, <2>1, QuietKeeps DEF RecoveryUnmark
<1>5. CASE RecoveryReopen
  <2>1. FrameStep BY <1>5, InMemoryFrames DEF RecoveryReopen, Inv
  <2> QED BY <1>5, <2>1, QuietKeeps DEF RecoveryReopen
<1> QED BY <1>1, <1>2, <1>3, <1>4, <1>5

LEMMA TickKeeps ==
    ASSUME Inv, \/ TickProbe \/ TickProbeThrottled \/ TickProbed \/ TickReload \/ TickMemory
                \/ TickTripped \/ TickReconcile
    PROVE  Kept
<1> USE DEF files, system, outside, Worker
<1>1. CASE TickProbe
  <2>1. FrameStep BY <1>1, CallFrames DEF TickProbe, Inv
  <2> QED BY <1>1, <2>1, QuietKeeps DEF TickProbe
<1>2. CASE TickProbeThrottled
  <2>1. FrameStep BY <1>2, InMemoryFrames DEF TickProbeThrottled, Inv
  <2> QED BY <1>2, <2>1, QuietKeeps DEF TickProbeThrottled
<1>3. CASE TickProbed
  <2>1. FrameStep BY <1>3, CallFrames, GotoFrames DEF TickProbed, Inv
  <2> QED BY <1>3, <2>1, QuietKeeps DEF TickProbed
<1>4. CASE TickReload
  <2>1. FrameStep BY <1>4, InMemoryFrames DEF TickReload, Inv
  <2> QED BY <1>4, <2>1, QuietKeeps DEF TickReload
<1>5. CASE TickMemory
  <2>1. FrameStep BY <1>5, CallFrames, GotoFrames DEF TickMemory, Inv
  <2> QED BY <1>5, <2>1, QuietKeeps DEF TickMemory
<1>6. CASE TickTripped
  <2>1. FrameStep BY <1>6, InMemoryFrames DEF TickTripped, Inv
  <2> QED BY <1>6, <2>1, QuietKeeps DEF TickTripped
<1>7. CASE TickReconcile
  <2>1. FrameStep BY <1>7, CallFrames, InMemoryFrames DEF TickReconcile, Inv
  <2> QED BY <1>7, <2>1, QuietKeeps DEF TickReconcile
<1> QED BY <1>1, <1>2, <1>3, <1>4, <1>5, <1>6, <1>7

LEMMA WorkerDiesKeeps ==
    ASSUME Inv, WorkerDies
    PROVE  Kept
<1>1. FrameStep BY DEF WorkerDies, Inv, FrameStep, Frames, Single, Ending, Idle, Named
<1> QED BY <1>1, QuietKeeps DEF WorkerDies, files, system, outside

----------------------------------------------------------------------------
(* The panels and the migration.                                           *)

LEMMA PanelKeeps ==
    ASSUME Inv, \/ EnableClick \/ PanelStep \/ DisableClick \/ \E a \in Actors : PanelDies(a)
    PROVE  Kept
<1> USE DEF files, system, outside
<1>1. CASE EnableClick
  <2>1. FrameStep BY <1>1 DEF EnableClick, Inv, FrameStep, Frames, Single, Ending
  <2>2. config' = [config EXCEPT !.requested = TRUE] BY <1>1 DEF EnableClick
  <2>3. Config' /\ EnabledOnlyIfRequested' BY <2>2 DEF Inv, Config, EnabledOnlyIfRequested
  <2>4. UNCHANGED <<record, route, backup, process>> BY <1>1 DEF EnableClick
  <2> QED BY <2>1, <2>3, <2>4, WatchedKept DEF Inv, Endpoints, Kept, RouteStep
<1>2. CASE DisableClick
  <2>1. FrameStep BY <1>2, CallFrames DEF DisableClick, Inv
  <2>2. config' = [config EXCEPT !.requested = FALSE, !.enabled = FALSE]
    BY <1>2 DEF DisableClick
  <2>3. Config' /\ EnabledOnlyIfRequested' BY <2>2 DEF Inv, Config, EnabledOnlyIfRequested
  <2>4. UNCHANGED <<record, route, backup, process>> BY <1>2 DEF DisableClick
  <2> QED BY <2>1, <2>3, <2>4, WatchedKept DEF Inv, Endpoints, Kept, RouteStep
<1>3. CASE EnableCommit
  <2>1. UNCHANGED <<record, route, backup, process>> BY <1>3 DEF EnableCommit
  <2>2. \/ Goto("enabler", "idle") \/ Goto("enabler", "reopen")
        \/ Call("enabler", "cleanup", "idle")
    BY <1>3 DEF EnableCommit
  <2>3. FrameStep BY <2>2, GotoFrames, CallFrames DEF Inv
  <2>4. \/ UNCHANGED config
        \/ /\ config.requested
           /\ config' = [config EXCEPT !.enabled = TRUE, !.port = op["enabler"].port]
    BY <1>3 DEF EnableCommit
  <2>5. op["enabler"].port \in Named BY DEF Inv, Frames, Actors
  <2> QED BY <2>1, <2>3, <2>4, <2>5, QuietKeeps, SwitchedOn
<1>4. CASE EnableReopen
  <2>1. FrameStep BY <1>4, GotoFrames DEF EnableReopen, Inv
  <2> QED BY <1>4, <2>1, QuietKeeps DEF EnableReopen
<1>5. CASE EnableUnmark
  <2>1. FrameStep BY <1>5, GotoFrames DEF EnableUnmark, Inv
  <2> QED BY <1>5, <2>1, QuietKeeps DEF EnableUnmark
<1>6. CASE \E a \in Actors : PanelDies(a)
  <2>1. FrameStep BY <1>6 DEF PanelDies, Inv, FrameStep, Frames, Single, Ending, Idle, Named
  <2> QED BY <1>6, <2>1, QuietKeeps DEF PanelDies
<1> QED BY <1>1, <1>2, <1>3, <1>4, <1>5, <1>6 DEF PanelStep

LEMMA MigratorKeeps ==
    ASSUME Inv, MigratorStep
    PROVE  Kept
<1> USE DEF files, system, outside
<1>1. CASE MigrateLook
  <2>1. \/ op' = [op EXCEPT !["migrator"] = Idle("off")]
        \/ op' = [op EXCEPT !["migrator"].pc = "verifyOld", !["migrator"].seen = record]
        \/ Call("migrator", "start", "migrate")
    BY <1>1 DEF MigrateLook
  <2>2. CASE op' = [op EXCEPT !["migrator"] = Idle("off")]
    <3>1. FrameStep BY <2>2 DEF Inv, FrameStep, Frames, Single, Ending, Idle, Named
    <3> QED BY <1>1, <3>1, QuietKeeps DEF MigrateLook
  <2>3. CASE op' = [op EXCEPT !["migrator"].pc = "verifyOld", !["migrator"].seen = record]
    <3>1. FrameStep BY <2>3 DEF Inv, FrameStep, Frames, Single, Endpoints, Ending
    <3> QED BY <1>1, <3>1, QuietKeeps DEF MigrateLook
  <2>4. CASE Call("migrator", "start", "migrate")
    <3>1. FrameStep BY <2>4, CallFrames DEF Inv
    <3> QED BY <1>1, <3>1, QuietKeeps DEF MigrateLook
  <2> QED BY <2>1, <2>2, <2>3, <2>4
<1>2. CASE MigrateVerify
  <2>1. UNCHANGED <<config, record, route, backup, process>> BY <1>2 DEF MigrateVerify
  <2>2. CASE \E r \in op["migrator"].seen :
                Owns(r) /\ op' = [op EXCEPT !["migrator"].pc = "replace"]
    BY <2>1, <2>2, Verified DEF Actors
  <2>3. CASE Goto("migrator", "migrate")
    <3>1. FrameStep BY <2>3, GotoFrames DEF Inv
    <3> QED BY <2>1, <3>1, QuietKeeps
  <2> QED BY <1>2, <2>2, <2>3 DEF MigrateVerify
<1>3. CASE MigrateReplace
  <2>1. UNCHANGED <<config, record, route, backup>> /\ op["migrator"].pc = "replace"
    BY <1>3 DEF MigrateReplace, At
  <2>2. PICK r \in op["migrator"].seen, killed \in BOOLEAN :
           /\ Terminate(r.pid, killed)
           /\ Call("migrator", "start", "migrate") \/ Goto("migrator", "migrate")
    BY <1>3 DEF MigrateReplace
  <2>3. FrameStep BY <2>2, GotoFrames, CallFrames DEF Inv
  <2> QED BY <2>1, <2>2, <2>3, Ended DEF Actors
<1> QED BY <1>1, <1>2, <1>3 DEF MigratorStep

----------------------------------------------------------------------------
(* The launcher, Desktop, the user and the machine.                        *)

LEMMA OutsideKeeps ==
    ASSUME Inv, User \/ ServerReady \/ Machine
    PROVE  Kept
<1> USE DEF files, system, outside
<1>1. CASE UNCHANGED <<config, record, route, backup, process, op>>
  <2>1. FrameStep BY <1>1 DEF Inv, FrameStep, Frames, Ending
  <2> QED BY <1>1, <2>1, QuietKeeps
<1>2. CASE UserSetsRoute
  <2>1. UNCHANGED <<config, record, backup, process, op>> /\ route' = "user"
    BY <1>2 DEF UserSetsRoute
  <2>2. FrameStep BY <2>1 DEF Inv, FrameStep, Frames, Ending
  <2> QED
    BY <2>1, <2>2, WatchedKept DEF Inv, Config, EnabledOnlyIfRequested, Endpoints, Kept, RouteStep
<1>3. CASE ServerReady \/ ServerDies \/ ServerHangs \/ PidReused
  <2>1. PICK pid \in Pids :
           /\ process[pid].kind # "foreign"
           /\ process'[pid].kind = "foreign"
                => process'[pid] = Foreign({a \in Actors : Ending(a, pid)})
           /\ \E new : process' = [process EXCEPT ![pid] = new]
    <3>1. CASE ServerReady
      <4>1. PICK pid \in Pids, port \in Ports :
               /\ process[pid] = Server(port, "starting")
               /\ process' = [process EXCEPT ![pid] =
                                 IF Listening(port) THEN Free ELSE Server(port, "healthy")]
        BY <3>1 DEF ServerReady
      <4>2. process'[pid].kind # "foreign" BY <4>1 DEF Inv, Table, Server, Free
      <4>3. process[pid].kind # "foreign" BY <4>1 DEF Server
      <4> QED BY <4>1, <4>2, <4>3
    <3>2. CASE ServerDies
      <4>1. PICK pid \in Pids :
               process[pid].kind = "server" /\ process' = [process EXCEPT ![pid] = Free]
        BY <3>2 DEF ServerDies
      <4>2. process'[pid].kind # "foreign" BY <4>1 DEF Inv, Table, Free
      <4> QED BY <4>1, <4>2
    <3>3. CASE ServerHangs
      <4>1. PICK pid \in Pids, port \in Ports :
               /\ process[pid] = Server(port, "healthy")
               /\ process' = [process EXCEPT ![pid] = Server(port, "hung")]
        BY <3>3 DEF ServerHangs
      <4>2. process'[pid].kind # "foreign" BY <4>1 DEF Inv, Table, Server
      <4>3. process[pid].kind # "foreign" BY <4>1 DEF Server
      <4> QED BY <4>1, <4>2, <4>3
    <3>4. CASE PidReused
      <4>1. PICK pid \in Pids :
               /\ process[pid] = Free
               /\ process' = [process EXCEPT ![pid] = Foreign({a \in Actors : Ending(a, pid)})]
        BY <3>4 DEF PidReused
      <4>2. process'[pid] = Foreign({a \in Actors : Ending(a, pid)})
        BY <4>1 DEF Inv, Table
      <4>3. process[pid].kind # "foreign" BY <4>1 DEF Free
      <4> QED BY <4>1, <4>2, <4>3
    <3> QED BY <1>3, <3>1, <3>2, <3>3, <3>4
  <2>2. UNCHANGED <<config, record, route, backup, op>>
    BY <1>3 DEF ServerReady, ServerDies, ServerHangs, PidReused
  <2>3. \A q \in Pids : q # pid => process'[q] = process[q]
    BY <2>1 DEF Inv, Table
  <2>4. Table' /\ ProcessStep BY <2>1, <2>3 DEF Inv, Table, ProcessStep
  <2>5. \A a, q : Ending(a, q)' <=> Ending(a, q) BY <2>2 DEF Ending
  <2>6. Watched' BY <2>1, <2>3, <2>5 DEF Inv, Watched, Foreign
  <2> QED
    BY <2>2, <2>4, <2>6 DEF Inv, Frames, Config, EnabledOnlyIfRequested, Endpoints, Kept, RouteStep
<1>4. CASE User /\ ~UserSetsRoute
  BY <1>1, <1>4 DEF User, LauncherChecks, LauncherAsks, RequestExpires, LauncherStarts,
                    DesktopOpens, DesktopCloses
<1>5. CASE PortSquatted
  BY <1>1, <1>5 DEF PortSquatted
<1> QED BY <1>2, <1>3, <1>4, <1>5 DEF Machine

----------------------------------------------------------------------------
(* The theorems.                                                           *)

LEMMA InitInv == Init => Inv
<1> SUFFICES ASSUME Init PROVE Inv
  OBVIOUS
<1>1. Config /\ EnabledOnlyIfRequested BY DEF Init, Config, EnabledOnlyIfRequested, Named
<1>2. Endpoints BY DEF Init, Endpoints, Single, Named
<1>3. Table BY DEF Init, Table
<1>4. Frames /\ \A a \in Actors : op[a].seen = {}
  <2>1. PICK preparing \in BOOLEAN :
           op = [a \in Actors |->
                      CASE a = "worker" -> Idle("down")
                        [] a = "migrator" -> Idle("off")
                        [] a = "enabler" /\ preparing ->
                              [Idle("ensure") EXCEPT !.stack = <<"ensured", "prepareDone">>]
                        [] OTHER -> Idle("idle")]
    BY DEF Init
  <2> QED BY <2>1 DEF Frames, Single, Idle, Named
<1>5. Watched BY <1>4 DEF Watched, Ending
<1> QED BY <1>1, <1>2, <1>3, <1>4, <1>5 DEF Inv

LEMMA NextKeeps == Inv /\ [Next]_vars => Kept
<1> SUFFICES ASSUME Inv, [Next]_vars PROVE Kept
  OBVIOUS
<1>1. CASE UNCHANGED vars
  <2>1. FrameStep BY <1>1 DEF vars, Inv, FrameStep, Frames, Ending
  <2> QED BY <1>1, <2>1, QuietKeeps DEF vars, files, system
<1>2. CASE \E a \in Actors : CallPart(a)
  BY <1>2, EnsureKeeps, StopKeeps, FailOpenKeeps DEF CallPart
<1>3. CASE WorkerStep
  BY <1>3, BootKeeps, ReadinessKeeps, RecoveryKeeps, TickKeeps DEF WorkerStep
<1>4. CASE WorkerDies BY <1>4, WorkerDiesKeeps
<1>5. CASE \/ EnableClick \/ PanelStep \/ DisableClick \/ \E a \in Actors : PanelDies(a)
  BY <1>5, PanelKeeps
<1>6. CASE MigratorStep BY <1>6, MigratorKeeps
<1>7. CASE User \/ ServerReady \/ Machine BY <1>7, OutsideKeeps
<1> QED BY <1>1, <1>2, <1>3, <1>4, <1>5, <1>6, <1>7 DEF Next

\* The inductive invariant holds in every reachable state.
THEOREM BackendInvHolds == Spec => []Inv
<1>1. Inv /\ [Next]_vars => Inv' BY NextKeeps DEF Kept
<1> QED BY InitInv, <1>1, PTL DEF Spec

\* The shared switch (config.json) is never on for a user who opted out, whoever
\* enables, disables, recovers or falls open at the same time, and wherever
\* any of them dies.
THEOREM EnabledOnlyIfRequestedHolds == Spec => []EnabledOnlyIfRequested
<1>1. Inv => EnabledOnlyIfRequested BY DEF Inv
<1> QED BY BackendInvHolds, <1>1, PTL

\* No cleanup (restoreOwnedSharedEnvironment) changes a route that the user set.
THEOREM UserRouteKeptHolds == Spec => UserRouteKept
<1>1. Inv /\ [Next]_vars => [route = "user" => route' = "user"]_vars
  BY NextKeeps DEF Kept, RouteStep
<1> QED BY BackendInvHolds, <1>1, PTL DEF Spec, UserRouteKept

\* A process of another program is ended only by an actor that made sure of the pid
\* (ownsProcess, or start) before that process took it, for any number of actors at
\* work on any pids: what was there at the query stays.
THEOREM SeenStrangersSparedHolds == Spec => SeenStrangersSpared
<1>1. Inv /\ [Next]_vars
      => [\A pid \in Pids :
            process[pid].kind = "foreign" /\ process'[pid] # process[pid]
                => \E a \in process[pid].missedBy : Ending(a, pid)]_vars
  BY NextKeeps DEF Kept, ProcessStep
<1> QED BY BackendInvHolds, <1>1, PTL DEF Spec, SeenStrangersSpared
=============================================================================
