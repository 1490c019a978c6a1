----------------------------- MODULE CameraFleet -----------------------------
(***************************************************************************)
(* The fleet of cameras: progressive admission at start-up                 *)
(* (camera_startup.py), commands on one camera (camera_control.py), the    *)
(* fleet's ownership of the workers (camera_fleet.py), and the manager     *)
(* that replaces a worker for a new motion configuration or shuts all down *)
(* (manager.py).                                                           *)
(*                                                                         *)
(* A worker is known by the outcome of its lifecycle commands, detailed in *)
(* CameraLifecycle: a stop that gave up leaves it "stuck" until its        *)
(* threads end.  The admission threads, one command and one operation of   *)
(* the manager proceed side by side; the locks they hold are in the guards *)
(* of their steps.                                                         *)
(***************************************************************************)
EXTENDS Naturals, FiniteSets

CONSTANTS Camera,         \* configured cameras
          Nobody,         \* stands for no camera
          Target,         \* bound: the cameras commands and changes are for
          MaxConcurrency, \* admissions at once
          MaxFleetFaults  \* bound on failures injected

ASSUME FleetAssumption ==
  /\ IsFiniteSet(Camera) /\ Camera # {} /\ Nobody \notin Camera
  /\ Target \subseteq Camera
  /\ MaxConcurrency \in Nat \ {0} /\ MaxFleetFaults \in Nat

VARIABLES
  workers,    \* camera -> version -> what its lifecycle reports: none, stopped,
              \* starting, running, stuck (neither runs nor stopped) or closed
  current,    \* CameraFleetLifecycle.workers: camera -> version
  power,      \* CameraControlService._camera_enabled
  recording,  \* CameraControlService._recording_enabled
  fleetPower, \* CameraFleetLifecycle._camera_enabled
  recorder,   \* cameras whose recorders are enabled
  task,       \* camera -> its admission: queued, checked, starting, started,
              \* waiting or done
  cancel,     \* CameraStartupCoordinator._cancel
  stopping,   \* CameraFleetLifecycle._stopping
  commands,   \* CameraControlService._accepting_commands
  command,    \* the command that holds the control service's lock
  manager,    \* the operation that holds the manager's lifecycle lock
  closed,     \* ApplicationManager._closed, the dependencies closed with it
  fenced,     \* _motion_reconfiguration_fenced
  fleetFaults

ownedVars == <<workers, current>>
controlVars == <<power, recording, commands>>
fleetVars == <<fleetPower, recorder, stopping>>
startupVars == <<task, cancel>>
managerVars == <<manager, closed, fenced>>
fleetSystem == <<ownedVars, controlVars, fleetVars, startupVars, command,
                 managerVars, fleetFaults>>

Version == {1, 2}
Idle == [step |-> "idle", camera |-> Nobody, flag |-> FALSE]

\* start_all has prepared the admission from the persisted preferences and
\* started its threads.
FleetInit ==
  /\ workers = [c \in Camera |->
                   [v \in Version |-> IF v = 1 THEN "stopped" ELSE "none"]]
  /\ current = [c \in Camera |-> 1]
  /\ power \in [Camera -> BOOLEAN] /\ recording = [c \in Camera |-> TRUE]
  /\ fleetPower = power
  /\ recorder = {c \in Camera : power[c]}
  /\ task = [c \in Camera |-> "queued"] /\ cancel = FALSE
  /\ stopping = FALSE /\ commands = TRUE
  /\ command = Idle /\ manager = Idle
  /\ closed = FALSE /\ fenced = FALSE /\ fleetFaults = 0

----------------------------------------------------------------------------
(* A worker's lifecycle commands, as their callers see them *)

CurrentWorker(c) == workers[c][current[c]]
WorkerBecomes(c, v, phase) == workers' = [workers EXCEPT ![c][v] = phase]
FleetFault == fleetFaults < MaxFleetFaults /\ fleetFaults' = fleetFaults + 1
NoFleetFault == UNCHANGED fleetFaults

\* start: it fails by leaving no worker or some residual ones; a running
\* worker is left alone and a residual or closed one refuses.
WorkerStarts(c, v, ok) ==
  /\ workers[c][v] # "starting"
  /\ \/ workers[c][v] = "stopped" /\ ok /\ WorkerBecomes(c, v, "running") /\ NoFleetFault
     \/ workers[c][v] = "running" /\ ok /\ UNCHANGED workers /\ NoFleetFault
     \/ /\ workers[c][v] \in {"stuck", "closed"} /\ ~ok
        /\ UNCHANGED workers /\ NoFleetFault
     \/ /\ workers[c][v] = "stopped" /\ ~ok /\ FleetFault
        /\ \E phase \in {"stopped", "stuck"} : WorkerBecomes(c, v, phase)
\* stop: it fails when a thread outlives the deadline.
Stops(c, v, ok) ==
  /\ workers[c][v] # "starting"
  /\ \/ /\ workers[c][v] \in {"stopped", "running"} /\ ok
        /\ WorkerBecomes(c, v, "stopped") /\ NoFleetFault
     \/ workers[c][v] = "closed" /\ ok /\ UNCHANGED workers /\ NoFleetFault
     \/ workers[c][v] = "running" /\ ~ok /\ WorkerBecomes(c, v, "stuck") /\ FleetFault
     \/ workers[c][v] = "stuck" /\ ~ok /\ UNCHANGED workers /\ NoFleetFault
\* close: refused over a running worker or residual ones.
Closes(c, v) ==
  WorkerBecomes(c, v, IF workers[c][v] \in {"stopped", "closed"} THEN "closed"
                      ELSE workers[c][v])

\* The threads of a stopped worker end at last.
ThreadsEnd(c, v) ==
  /\ workers[c][v] = "stuck"
  /\ WorkerBecomes(c, v, "stopped")
  /\ UNCHANGED <<current, controlVars, fleetVars, startupVars, command,
                 managerVars, fleetFaults>>

----------------------------------------------------------------------------
(* Admission *)

Admitting ==
  {c \in Camera : task[c] \in {"checked", "starting", "started", "waiting"}}
AdmissionAlive == Admitting # {} \/ \E c \in Camera : task[c] = "queued"
Goes(c, phase) == task' = [task EXCEPT ![c] = phase]
\* _admission_enabled
Enabled(c) == ~stopping /\ fleetPower[c]

TaskChecked(c) ==
  /\ task[c] = "queued" /\ ~cancel
  /\ Cardinality(Admitting) < MaxConcurrency
  /\ Goes(c, IF Enabled(c) THEN "checked" ELSE "done")
  /\ UNCHANGED <<ownedVars, controlVars, fleetVars, cancel, command,
                 managerVars, fleetFaults>>
\* The task was bound to the worker the fleet had when admission was prepared.
TaskStarts(c) ==
  /\ task[c] = "checked" /\ workers[c][1] # "starting"
  /\ IF workers[c][1] = "stopped"
     THEN WorkerBecomes(c, 1, "starting") /\ Goes(c, "starting")
     ELSE /\ Goes(c, IF workers[c][1] = "running" THEN "started" ELSE "done")
          /\ UNCHANGED workers
  /\ UNCHANGED <<current, controlVars, fleetVars, cancel, command, managerVars,
                 fleetFaults>>
TaskStarted(c) ==
  /\ task[c] = "starting"
  /\ \/ WorkerBecomes(c, 1, "running") /\ Goes(c, "started") /\ NoFleetFault
     \/ /\ FleetFault /\ Goes(c, "done")
        /\ \E phase \in {"stopped", "stuck"} : WorkerBecomes(c, 1, phase)
  /\ UNCHANGED <<current, controlVars, fleetVars, cancel, command, managerVars>>
\* Cancelled or switched off meanwhile, or its recorders are started.
TaskRecords(c) ==
  /\ task[c] = "started"
  /\ Goes(c, IF cancel \/ ~Enabled(c) THEN "done" ELSE "waiting")
  /\ UNCHANGED <<ownedVars, controlVars, fleetVars, cancel, command,
                 managerVars, fleetFaults>>
\* The wait for a first frame and for the recorders is left when it is
\* cancelled, the camera is switched off or ready, or the time is up, after a
\* failure at once.  The last three may come at any time.
TaskEnds(c) ==
  /\ task[c] = "waiting"
  /\ Goes(c, "done")
  /\ UNCHANGED <<ownedVars, controlVars, fleetVars, cancel, command,
                 managerVars, fleetFaults>>
TaskDropped(c) ==
  /\ task[c] = "queued" /\ cancel
  /\ Goes(c, "done")
  /\ UNCHANGED <<ownedVars, controlVars, fleetVars, cancel, command,
                 managerVars, fleetFaults>>

Admission ==
  \E c \in Camera :
    \/ TaskChecked(c) \/ TaskStarts(c) \/ TaskStarted(c) \/ TaskRecords(c)
    \/ TaskEnds(c) \/ TaskDropped(c)

----------------------------------------------------------------------------
(* Commands on one camera *)

Does(step, c, flag) == command' = [step |-> step, camera |-> c, flag |-> flag]
Records(c, on) == recorder' = IF on THEN recorder \cup {c} ELSE recorder \ {c}

\* _update_preference_locked persists all preferences; if it cannot, the new one
\* is dropped.
Prefers(c, on) ==
  \/ /\ power' = [power EXCEPT ![c] = on]
     /\ Does(IF on THEN "on_fleet" ELSE "off_fleet", c, power[c])
     /\ NoFleetFault
  \/ FleetFault /\ UNCHANGED <<power, command>>

PowerSet(c, on) ==
  /\ command = Idle /\ commands
  /\ Prefers(c, on)
  /\ UNCHANGED <<ownedVars, recording, commands, fleetVars, startupVars,
                 managerVars>>
\* fleet.set_camera_enabled refuses while the fleet stops.
PowerOnFleet ==
  /\ command.step = "on_fleet"
  /\ LET c == command.camera IN
       IF stopping
       THEN Does("on_failed", c, command.flag) /\ UNCHANGED <<fleetPower, recorder>>
       ELSE /\ fleetPower' = [fleetPower EXCEPT ![c] = TRUE]
            /\ Records(c, recording[c])
            /\ Does("on_worker", c, command.flag)
  /\ UNCHANGED <<ownedVars, controlVars, stopping, startupVars, managerVars,
                 fleetFaults>>
PowerOnWorker ==
  /\ command.step = "on_worker"
  /\ LET c == command.camera IN
       IF stopping
       THEN Does("on_failed", c, command.flag) /\ UNCHANGED workers /\ NoFleetFault
       ELSE \E ok \in BOOLEAN :
              /\ WorkerStarts(c, current[c], ok)
              /\ IF ok THEN command' = Idle ELSE Does("on_failed", c, command.flag)
  /\ UNCHANGED <<current, controlVars, fleetVars, startupVars, managerVars>>
\* The previous preference is restored everywhere the fleet still lets it; a
\* failure to persist it is only logged.
PowerOnFails ==
  /\ command.step = "on_failed"
  /\ LET c == command.camera IN
       /\ power' = [power EXCEPT ![c] = command.flag]
       /\ fleetPower' = IF stopping THEN fleetPower
                        ELSE [fleetPower EXCEPT ![c] = command.flag]
       /\ Records(c, command.flag /\ recording[c])
  /\ command' = Idle
  /\ UNCHANGED <<ownedVars, recording, commands, stopping, startupVars,
                 managerVars, fleetFaults>>
PowerOffFleet ==
  /\ command.step = "off_fleet"
  /\ LET c == command.camera IN
       /\ IF stopping THEN command' = Idle /\ UNCHANGED fleetPower
          ELSE /\ fleetPower' = [fleetPower EXCEPT ![c] = FALSE]
               /\ Does("off_worker", c, FALSE)
       /\ Records(c, FALSE)
  /\ UNCHANGED <<ownedVars, controlVars, stopping, startupVars, managerVars,
                 fleetFaults>>
\* Stopped or not, the camera is advertised as off.
PowerOffWorker ==
  /\ command.step = "off_worker"
  /\ IF stopping THEN UNCHANGED workers /\ NoFleetFault
     ELSE \E ok \in BOOLEAN : Stops(command.camera, current[command.camera], ok)
  /\ command' = Idle
  /\ UNCHANGED <<current, controlVars, fleetVars, startupVars, managerVars>>

RecordingSet(c, on) ==
  /\ command = Idle /\ commands
  /\ \/ /\ recording' = [recording EXCEPT ![c] = on]
        /\ Records(c, power[c] /\ on) /\ NoFleetFault
     \/ FleetFault /\ UNCHANGED <<recording, recorder>>
  /\ UNCHANGED <<ownedVars, power, commands, fleetPower, stopping,
                 startupVars, command, managerVars>>

Control ==
  \/ \E c \in Target, on \in BOOLEAN : PowerSet(c, on) \/ RecordingSet(c, on)
  \/ PowerOnFleet \/ PowerOnWorker \/ PowerOnFails
  \/ PowerOffFleet \/ PowerOffWorker

----------------------------------------------------------------------------
(* The manager: a new motion configuration for one camera *)

Manages(step, c, flag) == manager' = [step |-> step, camera |-> c, flag |-> flag]

\* The replacement is built from the power preference read now; the control
\* service's lock is released again.
ReconfigureBegins(c) ==
  /\ manager = Idle /\ ~closed /\ commands /\ ~fenced
  /\ command = Idle /\ current[c] = 1
  /\ WorkerBecomes(c, 2, "stopped")
  /\ Manages("stop_old", c, power[c])
  /\ UNCHANGED <<current, controlVars, fleetVars, startupVars, command, closed,
                 fenced, fleetFaults>>
ReconfigureStopsOld ==
  /\ manager.step = "stop_old"
  /\ \E ok \in BOOLEAN :
       /\ Stops(manager.camera, 1, ok)
       /\ Manages(IF ok THEN "start_new" ELSE "undo", manager.camera, manager.flag)
  /\ UNCHANGED <<current, controlVars, fleetVars, startupVars, command, closed,
                 fenced>>
ReconfigureStartsNew ==
  /\ manager.step = "start_new"
  /\ IF manager.flag
     THEN \E ok \in BOOLEAN :
            /\ WorkerStarts(manager.camera, 2, ok)
            /\ Manages(IF ok THEN "publish" ELSE "undo", manager.camera, TRUE)
     ELSE Manages("publish", manager.camera, FALSE) /\ UNCHANGED workers /\ NoFleetFault
  /\ UNCHANGED <<current, controlVars, fleetVars, startupVars, command, closed,
                 fenced>>
\* fleet.replace_worker refuses while the fleet stops, and refuses again to take
\* its worker back, which fences further reconfigurations.
ReconfigurePublishes ==
  /\ manager.step = "publish"
  /\ IF stopping
     THEN Manages("undo", manager.camera, manager.flag) /\ UNCHANGED current
     ELSE /\ current' = [current EXCEPT ![manager.camera] = 2]
          /\ Manages("close_old", manager.camera, manager.flag)
  /\ fenced' = stopping
  /\ UNCHANGED <<workers, controlVars, fleetVars, startupVars, command, closed,
                 fleetFaults>>
\* A retired worker that does not close is logged.
ReconfigureClosesOld ==
  /\ manager.step = "close_old" /\ workers[manager.camera][1] # "starting"
  /\ Closes(manager.camera, 1)
  /\ manager' = Idle
  /\ UNCHANGED <<current, controlVars, fleetVars, startupVars, command, closed,
                 fenced, fleetFaults>>
\* Faulty variant of ReconfigureUndoes, never used.
ReconfigureUndoesFaulty ==
  /\ manager.step = "undo"
  /\ LET c == manager.camera IN
       \/ /\ workers[c][2] \in {"stopped", "running"}
          /\ WorkerBecomes(c, 2, "closed") /\ NoFleetFault
          /\ Manages("restart", c, manager.flag) /\ UNCHANGED fenced
       \/ /\ workers[c][2] \in {"running", "stuck"}
          /\ WorkerBecomes(c, 2, "stuck")
          /\ IF workers[c][2] = "running" THEN FleetFault ELSE NoFleetFault
          /\ manager' = Idle /\ UNCHANGED fenced
  /\ UNCHANGED <<current, controlVars, fleetVars, startupVars, command, closed>>
\* The replacement is stopped and closed; then the old worker starts again if
\* the camera was on.  Whatever of that fails is fenced.
ReconfigureUndoes ==
  /\ manager.step = "undo"
  /\ LET c == manager.camera IN
       \/ /\ workers[c][2] \in {"stopped", "running"}
          /\ WorkerBecomes(c, 2, "closed") /\ NoFleetFault
          /\ Manages("restart", c, manager.flag) /\ UNCHANGED fenced
       \/ /\ workers[c][2] \in {"running", "stuck"}
          /\ WorkerBecomes(c, 2, "stuck")
          /\ IF workers[c][2] = "running" THEN FleetFault ELSE NoFleetFault
          /\ manager' = Idle /\ fenced' = TRUE
  /\ UNCHANGED <<current, controlVars, fleetVars, startupVars, command, closed>>
ReconfigureRestarts ==
  /\ manager.step = "restart"
  /\ IF manager.flag
     THEN \E ok \in BOOLEAN :
            WorkerStarts(manager.camera, 1, ok) /\ fenced' = (fenced \/ ~ok)
     ELSE UNCHANGED <<workers, fenced>> /\ NoFleetFault
  /\ manager' = Idle
  /\ UNCHANGED <<current, controlVars, fleetVars, startupVars, command, closed>>

Reconfiguration ==
  \/ \E c \in Target : ReconfigureBegins(c)
  \/ ReconfigureStopsOld \/ ReconfigureStartsNew \/ ReconfigurePublishes
  \/ ReconfigureClosesOld \/ ReconfigureUndoes \/ ReconfigureRestarts

----------------------------------------------------------------------------
(* The manager: shutdown *)

\* SIGUSR1: the fleet stops admitting before the server drains its requests.
ReleasesEarly ==
  /\ manager = Idle /\ ~closed /\ ~stopping
  /\ stopping' = TRUE /\ cancel' = TRUE
  /\ UNCHANGED <<ownedVars, controlVars, fleetPower, recorder, task, command,
                 managerVars, fleetFaults>>

\* stop_all: commands drain and are refused from then on, admission is cancelled.
ShutdownBegins ==
  /\ manager = Idle /\ ~closed /\ command = Idle
  /\ commands' = FALSE /\ stopping' = TRUE /\ cancel' = TRUE
  /\ Manages("join", Nobody, FALSE)
  /\ UNCHANGED <<ownedVars, power, recording, fleetPower, recorder, task,
                 command, closed, fenced, fleetFaults>>
\* Faulty variant of ShutdownJoins, never used.
ShutdownJoinsFaulty ==
  /\ manager.step = "join"
  /\ Manages("stop", Nobody, FALSE)
  /\ UNCHANGED <<ownedVars, controlVars, fleetVars, startupVars, command, closed,
                 fenced, fleetFaults>>
\* Admission is joined, or the shutdown gives up and may be tried again.
ShutdownJoins ==
  /\ manager.step = "join"
  /\ IF AdmissionAlive THEN manager' = Idle ELSE Manages("stop", Nobody, FALSE)
  /\ UNCHANGED <<ownedVars, controlVars, fleetVars, startupVars, command, closed,
                 fenced, fleetFaults>>
\* Faulty variant of ShutdownStops, never used.
ShutdownStopsFaulty ==
  /\ manager.step = "stop"
  /\ \E late \in SUBSET {c \in Camera : CurrentWorker(c) = "running"} :
       /\ IF late = {} THEN NoFleetFault ELSE FleetFault
       /\ workers' = [c \in Camera |-> [workers[c] EXCEPT ![current[c]] =
            IF c \in late THEN "stuck" ELSE IF @ = "running" THEN "stopped" ELSE @]]
       /\ Manages("close", Nobody, FALSE)
  /\ UNCHANGED <<current, controlVars, fleetVars, startupVars, command, closed,
                 fenced>>
\* Every worker is told, then awaited: late ones are left stuck.
ShutdownStops ==
  /\ manager.step = "stop"
  /\ \E late \in SUBSET {c \in Camera : CurrentWorker(c) = "running"} :
       /\ IF late = {} THEN NoFleetFault ELSE FleetFault
       /\ workers' = [c \in Camera |-> [workers[c] EXCEPT ![current[c]] =
            IF c \in late THEN "stuck" ELSE IF @ = "running" THEN "stopped" ELSE @]]
       /\ IF late # {} \/ \E c \in Camera : CurrentWorker(c) = "stuck"
          THEN manager' = Idle ELSE Manages("close", Nobody, FALSE)
  /\ UNCHANGED <<current, controlVars, fleetVars, startupVars, command, closed,
                 fenced>>
\* The workers close, then inference and recording close beneath them.
ShutdownCloses ==
  /\ manager.step = "close"
  /\ workers' = [c \in Camera |-> [workers[c] EXCEPT ![current[c]] =
       IF @ = "stopped" THEN "closed" ELSE @]]
  /\ recorder' = {} /\ closed' = TRUE /\ manager' = Idle
  /\ UNCHANGED <<current, controlVars, fleetPower, stopping, startupVars, command,
                 fenced, fleetFaults>>
Shutdown ==
  ReleasesEarly \/ ShutdownBegins \/ ShutdownJoins \/ ShutdownStops \/ ShutdownCloses

FleetNext ==
  \/ Admission \/ Control \/ Reconfiguration \/ Shutdown
  \/ \E c \in Camera, v \in Version : ThreadsEnd(c, v)

FleetSpec == FleetInit /\ [][FleetNext]_fleetSystem

----------------------------------------------------------------------------
(* Properties *)

\* From the moment the workers are being stopped, nobody who still knows one of
\* them, retired ones included, starts it again: not an admission thread that
\* passed its check before, not a command, not a rolled back reconfiguration
\* (camera_fleet.py 137-172, 235-236, 331-410).
TearingDown == manager.step \in {"stop", "close"} \/ closed
NothingStartsLate ==
  [][TearingDown =>
       \A c \in Camera, v \in Version :
         workers'[c][v] \in {"starting", "running"} =>
           workers'[c][v] = workers[c][v]]_fleetSystem

\* Inference and recording are closed only beneath cameras of the fleet that
\* have stopped, and none of them runs again (manager.py 794-855).
DependenciesLast ==
  closed => \A c \in Camera : CurrentWorker(c) \in {"stopped", "closed"}

\* A replacement the fleet did not take is closed again, or reconfigurations
\* are fenced from then on (manager.py 1109-1274).
NoStrayReplacement ==
  manager = Idle /\ ~fenced =>
    \A c \in Camera : current[c] = 1 => workers[c][2] \in {"none", "closed"}

=============================================================================
