----------------------------- MODULE Supervision -----------------------------
(***************************************************************************)
(* The sign-in supervisor, the worker process it keeps alive, and the two  *)
(* marker files that separate a crash from an intentional stop:            *)
(* stop.signal asks the worker to leave, supervisor.stop tells the         *)
(* supervisor that the exit it saw, or is about to see, was intended.      *)
(***************************************************************************)
EXTENDS Naturals

CONSTANTS
    Accidents,   \* which of "crash", "launch", "reboot", "save" may happen
    MaxAccidents,\* bound of the accidents
    MaxOrders,   \* bound of the user's orders: start, stop, leave
    MaxDelay     \* the longest backoff, in doublings of a second

ASSUME SupervisionAssumption ==
    /\ Accidents \subseteq {"crash", "launch", "reboot", "save"}
    /\ MaxAccidents \in Nat /\ MaxOrders \in Nat /\ MaxDelay \in Nat

VARIABLES
    supervisor,    \* where runSupervisor is; "none" when no such process runs
    delay,         \* its backoff
    worker,        \* where the worker process is; "none" when it is gone
    stopMarker,    \* supervisor.stop exists
    stopSignal,    \* stop.signal exists
    cleanStatus,   \* status.json says that this worker stopped
    stopping,      \* the manager wrote one of the two files of a stop
    intended,      \* an intentional stop or exit since the user last started it
    asked,         \* a stop order found the worker running
    accidents, orders

supervisionVars == <<supervisor, delay, worker, stopMarker, stopSignal, cleanStatus,
                     stopping, intended, asked, accidents, orders>>
files == <<stopMarker, stopSignal, cleanStatus>>
user == <<stopping, intended, asked, orders>>

SupervisionInit ==
    /\ supervisor = "begin" /\ delay = 0 /\ worker = "none"
    /\ stopMarker \in BOOLEAN /\ stopSignal \in BOOLEAN /\ cleanStatus = FALSE
    /\ stopping = FALSE /\ intended = FALSE /\ asked = FALSE
    /\ accidents = 0 /\ orders = 0

----------------------------------------------------------------------------
(* runSupervisor.                                                          *)

\* Wrong on purpose: the old marker stays.
SupervisorBeginsAsIs ==
    /\ supervisor = "begin"
    /\ supervisor' = "start"
    /\ delay' = 0
    /\ UNCHANGED <<worker, files, user, accidents>>

\* A marker of an earlier session must not disable this sign-in.
SupervisorBegins ==
    /\ supervisor = "begin"
    /\ stopMarker' = FALSE
    /\ supervisor' = "start"
    /\ delay' = 0
    /\ UNCHANGED <<worker, stopSignal, cleanStatus, user, accidents>>

Accident(kind) ==
    kind \in Accidents /\ accidents < MaxAccidents /\ accidents' = accidents + 1

WorkerLaunched ==
    /\ supervisor = "start"
    /\ \/ supervisor' = "wait" /\ worker' = "starting" /\ UNCHANGED accidents
       \/ Accident("launch") /\ supervisor' = "backoff" /\ UNCHANGED worker
    /\ cleanStatus' = FALSE
    /\ UNCHANGED <<delay, stopMarker, stopSignal, user>>

\* consumeSupervisorStop: the marker counts once.
Consume(next) ==
    /\ supervisor' = IF stopMarker THEN "none" ELSE next
    /\ stopMarker' = FALSE

\* worker.Wait returned: the marker, then status.json, then the marker again.
WorkerExitSeen ==
    /\ supervisor = "wait" /\ worker = "none"
    /\ Consume("unmarked")
    /\ UNCHANGED <<delay, worker, stopSignal, cleanStatus, user, accidents>>

\* Wrong on purpose: without a status the worker is taken to be alive.
StatusLookedHopefully ==
    /\ supervisor = "unmarked"
    /\ supervisor' = IF cleanStatus THEN "recheck" ELSE "wait"
    /\ UNCHANGED <<delay, worker, files, user, accidents>>

StatusLooked ==
    /\ supervisor = "unmarked"
    /\ supervisor' = IF cleanStatus THEN "recheck" ELSE "backoff"
    /\ UNCHANGED <<delay, worker, files, user, accidents>>

MarkerRechecked ==
    /\ supervisor = "recheck"
    /\ Consume("backoff")
    /\ UNCHANGED <<delay, worker, stopSignal, cleanStatus, user, accidents>>

\* waitSupervisorBackoff: the marker is looked at first, and every 250 ms.
BackoffPolls ==
    /\ supervisor \in {"backoff", "delay"}
    /\ Consume("delay")
    /\ UNCHANGED <<delay, worker, stopSignal, cleanStatus, user, accidents>>

\* The deadline: no last look at the marker, and a doubled backoff.
BackoffEnds ==
    /\ supervisor = "delay"
    /\ supervisor' = "start"
    /\ delay' = IF delay < MaxDelay THEN delay + 1 ELSE delay
    /\ UNCHANGED <<worker, files, user, accidents>>

SupervisorStep ==
    \/ SupervisorBegins \/ WorkerLaunched \/ WorkerExitSeen \/ StatusLooked \/ MarkerRechecked
    \/ BackoffPolls \/ BackoffEnds

----------------------------------------------------------------------------
(* The worker process: main and daemon.run.                                *)

\* daemon.run removes a stop.signal of an earlier session.
WorkerRuns ==
    /\ worker = "starting"
    /\ worker' = "running"
    /\ stopSignal' = FALSE
    /\ UNCHANGED <<supervisor, delay, stopMarker, cleanStatus, user, accidents>>

\* Wrong on purpose: both files of the stop are cleared.
WorkerObeysClearing ==
    /\ worker = "running" /\ stopSignal
    /\ stopSignal' = FALSE /\ stopMarker' = FALSE
    /\ worker' = "leaving"
    /\ UNCHANGED <<supervisor, delay, cleanStatus, user, accidents>>

\* tick: stop.signal ends the loop with errStopRequested.
WorkerObeys ==
    /\ worker = "running" /\ stopSignal
    /\ stopSignal' = FALSE
    /\ worker' = "leaving"
    /\ UNCHANGED <<supervisor, delay, stopMarker, cleanStatus, user, accidents>>

\* The tray's exit or the memory guard cancels the context.
WorkerLeaves ==
    /\ worker = "running"
    /\ orders < MaxOrders /\ orders' = orders + 1
    /\ worker' = "leaving"
    /\ intended' = TRUE
    /\ UNCHANGED <<supervisor, delay, files, stopping, asked, accidents>>

WorkerWritesStatus ==
    /\ worker = "leaving"
    /\ worker' = "stopped"
    /\ cleanStatus' = TRUE
    /\ UNCHANGED <<supervisor, delay, stopMarker, stopSignal, user, accidents>>

\* The marker is written by a clean shutdown only; then the process ends.
WorkerExits ==
    /\ worker = "stopped"
    /\ worker' = "none"
    /\ stopMarker' = TRUE
    /\ UNCHANGED <<supervisor, delay, stopSignal, cleanStatus, user, accidents>>

WorkerCrashes ==
    /\ worker # "none"
    /\ Accident("crash")
    /\ worker' = "none"
    /\ UNCHANGED <<supervisor, delay, files, user>>

\* The machine, or the user's session, ends.
Reboot ==
    /\ Accident("reboot")
    /\ supervisor' = "none" /\ worker' = "none"
    /\ stopping' = FALSE /\ asked' = FALSE
    /\ UNCHANGED <<delay, files, intended, orders>>

----------------------------------------------------------------------------
(* startup-manager.ps1 and sign-in.                                        *)

\* Start-ManagedService: nothing to do while a heartbeat is fresh; a second
\* supervisor would find the lock taken.
UserStarts ==
    /\ worker # "running" /\ ~stopping
    /\ orders < MaxOrders /\ orders' = orders + 1
    /\ stopSignal' = FALSE /\ stopMarker' = FALSE
    /\ supervisor' = IF supervisor = "none" THEN "begin" ELSE supervisor
    /\ asked' = FALSE /\ intended' = (worker \in {"leaving", "stopped"})
    /\ UNCHANGED <<delay, worker, cleanStatus, stopping, accidents>>

\* The Run entry of the next sign-in.
SignIn ==
    /\ supervisor = "none" /\ worker = "none" /\ ~asked /\ ~stopping
    /\ orders < MaxOrders /\ orders' = orders + 1
    /\ supervisor' = "begin"
    /\ intended' = FALSE
    /\ UNCHANGED <<delay, worker, files, stopping, asked, accidents>>

\* Stop-ManagedService: supervisor.stop first, then stop.signal.
UserStops ==
    /\ ~stopping
    /\ orders < MaxOrders /\ orders' = orders + 1
    /\ stopMarker' = TRUE
    /\ stopping' = TRUE /\ intended' = TRUE
    /\ asked' = (asked \/ worker = "running")
    /\ UNCHANGED <<supervisor, delay, worker, stopSignal, cleanStatus, accidents>>

UserSignals ==
    /\ stopping
    /\ stopSignal' = TRUE
    /\ stopping' = FALSE
    /\ UNCHANGED <<supervisor, delay, worker, stopMarker, cleanStatus, intended, asked, orders,
                   accidents>>

=============================================================================
