--------------------------- MODULE CameraLifecycle ---------------------------
(***************************************************************************)
(* The lifecycle of one camera (camera_lifecycle.py): start, stop,         *)
(* request_stop and wait_stopped, close and set_detection_enabled over the *)
(* threads of CameraWorkers.                                               *)
(*                                                                         *)
(* Callers are the threads that command the camera: the fleet, which stops *)
(* in two calls (request_stop, then wait_stopped) and releases the ONVIF   *)
(* subscription early, and the commanders: the admission workers of the    *)
(* start-up coordinator, the control service, a motion reconfiguration.  A *)
(* command is a sequence of steps between which threads run; _operation_   *)
(* lock keeps commands apart.  Only the early release goes around it.      *)
(***************************************************************************)
EXTENDS CameraWorkers

CONSTANTS Commander,  \* threads that start, stop, close or reconfigure
          Fleet,      \* the thread of the fleet's teardown
          MaxStops,   \* bound on the stop tickets issued
          MaxLifecycleFaults \* bound on the failures injected

Caller == Commander \cup {Fleet}

ASSUME LifecycleAssumption ==
  /\ Fleet \notin Commander /\ Holder = Caller
  /\ MaxStops \in Nat /\ MaxLifecycleFaults \in Nat

VARIABLES
  phase,      \* CameraRuntimeState.phase: stopped, starting, running, stopping,
              \* failed or closed
  gen,        \* CameraRuntimeState.generation
  acceptingMotion, \* accepting_motion_events, and enabled, which follows it
  stopSet,    \* stop_event, one for all generations
  detection,  \* detection_enabled
  pending,    \* _pending_shutdown
  asked,      \* how many stop tickets were issued
  op,         \* caller -> its command in progress
  lifecycleFaults

stateVars == <<phase, gen, acceptingMotion, stopSet, detection>>
stopVars == <<pending, asked>>
lifecycleVars == <<stateVars, stopVars, op, lifecycleFaults, workerVars>>

NoStop == [no |-> 0, gen |-> 0, final |-> "stopped"]
\* step: where the command stands; ticket: the stop it waits for, 0 for any;
\* final: the phase its stop ends in; late: its wait gave up on something;
\* then: what follows the stop.
NoOp == [step |-> "idle", ticket |-> 0, final |-> "stopped", late |-> FALSE,
         then |-> "idle"]

LifecycleInit ==
  /\ WorkersInit
  /\ phase = "stopped" /\ gen = 0 /\ acceptingMotion = FALSE /\ stopSet = TRUE
  /\ detection \in BOOLEAN
  /\ pending = NoStop /\ asked = 0
  /\ op = [c \in Caller |-> NoOp] /\ lifecycleFaults = 0

----------------------------------------------------------------------------
(* The operation lock, and how a command goes on *)

Resting == {"idle", "ticket", "releasing"}
LockFree == \A c \in Caller : op[c].step \in Resting
At(c, step) == op[c].step = step
GoesTo(c, step) == op' = [op EXCEPT ![c].step = step]
Returns(c) == op' = [op EXCEPT ![c] = NoOp]
LifecycleFault ==
  lifecycleFaults < MaxLifecycleFaults /\ lifecycleFaults' = lifecycleFaults + 1

\* capture.threads() names the current live and main threads only.
Residual ==
  \/ MotionResidual
  \/ \E s \in {"live", "main"} : cap[s].gen # 0
  \/ listener # "none"
  \/ TrackRunning

----------------------------------------------------------------------------
(* start *)

\* Nothing can come alive between the look at the residual workers and the
\* transition that follows it, so the two are one step.
StartRefused(c) ==
  /\ LockFree /\ At(c, "idle") /\ phase \in {"stopped", "failed"} /\ Residual
  /\ phase' = "failed"
  /\ UNCHANGED <<gen, acceptingMotion, stopSet, detection, stopVars, op,
                 lifecycleFaults, workerVars>>
StartBegins(c) ==
  /\ LockFree /\ At(c, "idle") /\ phase \in {"stopped", "failed"} /\ ~Residual
  /\ gen < MaxGeneration
  /\ phase' = "starting" /\ gen' = gen + 1
  /\ acceptingMotion' = TRUE /\ stopSet' = FALSE
  /\ GoesTo(c, "track")
  /\ UNCHANGED <<detection, stopVars, lifecycleFaults, workerVars>>
StartTracking(c) ==
  /\ At(c, "track")
  /\ TrackAccepting(detection /\ ~stopSet)
  /\ GoesTo(c, "motion")
  /\ UNCHANGED <<stateVars, stopVars, lifecycleFaults, motionVars, ingress,
                 captureVars, listenerVars>>
StartMotion(c) ==
  /\ At(c, "motion")
  /\ \/ /\ MotionMayStart /\ MotionStarted(gen)
        /\ GoesTo(c, "capture") /\ UNCHANGED <<stopSet, lifecycleFaults>>
     \/ /\ ~MotionMayStart
        /\ GoesTo(c, "rollback") /\ UNCHANGED <<stopSet, lifecycleFaults, motionVars>>
     \/ /\ MotionMayStart /\ LifecycleFault /\ MotionRolledBack(gen)
        /\ stopSet' = TRUE /\ GoesTo(c, "rollback")
  /\ UNCHANGED <<phase, gen, acceptingMotion, detection, stopVars, ingress,
                 captureVars, listenerVars, trackVars>>
StartCapture(c) ==
  /\ At(c, "capture")
  /\ \/ /\ CaptureMayStart /\ CaptureStarted(gen)
        /\ GoesTo(c, IF detection THEN "listener" ELSE "up") /\ UNCHANGED lifecycleFaults
     \/ /\ ~CaptureMayStart
        /\ GoesTo(c, "rollback") /\ UNCHANGED <<lifecycleFaults, captureVars>>
     \/ /\ CaptureMayStart /\ LifecycleFault /\ CaptureHalfStarted
        /\ GoesTo(c, "rollback")
  /\ UNCHANGED <<stateVars, stopVars, motionVars, ingress,
                 listenerVars, trackVars>>
StartListener(c) ==
  /\ At(c, "listener")
  /\ GoesTo(c, IF ListenerMayStart THEN "creates" ELSE "rollback")
  /\ UNCHANGED <<stateVars, stopVars, lifecycleFaults, workerVars>>
StartListens(c) ==
  /\ At(c, "creates")
  /\ \/ ListenerCreated /\ GoesTo(c, "up") /\ UNCHANGED lifecycleFaults
     \/ LifecycleFault /\ GoesTo(c, "rollback") /\ UNCHANGED listenerVars
  /\ UNCHANGED <<stateVars, stopVars, motionVars, ingress,
                 captureVars, trackVars>>
StartEnds(c) ==
  /\ At(c, "up")
  /\ phase' = "running"
  /\ Returns(c)
  /\ UNCHANGED <<gen, acceptingMotion, stopSet, detection, stopVars, lifecycleFaults,
                 workerVars>>

----------------------------------------------------------------------------
(* Stopping: the request, the broadcast, the wait and its end *)

\* _request_stop_runtime up to its broadcast; a stop in progress is shared.
Requests(c, final, then) ==
  /\ phase # "closed"
  /\ IF phase = "stopping"
     THEN /\ op' = [op EXCEPT ![c] = [NoOp EXCEPT
                      !.step = IF then = "ticket" THEN then ELSE "waiting",
                      !.ticket = pending.no, !.then = then]]
          /\ UNCHANGED <<phase, acceptingMotion, stopSet, asked>>
     ELSE /\ asked < MaxStops
          /\ asked' = asked + 1
          /\ phase' = "stopping" /\ acceptingMotion' = FALSE /\ stopSet' = TRUE
          /\ op' = [op EXCEPT ![c] = [NoOp EXCEPT !.step = "asking",
                      !.ticket = asked + 1, !.final = final, !.then = then]]
  /\ UNCHANGED <<gen, detection, pending, lifecycleFaults, workerVars>>

Stop(c) == LockFree /\ At(c, "idle") /\ Requests(c, "stopped", "idle")
\* Faulty variant of RequestStop, never used.
RequestStopFaulty(c) == At(c, "idle") /\ Requests(c, "stopped", "ticket")
RequestStop(c) == LockFree /\ At(c, "idle") /\ Requests(c, "stopped", "ticket")
StartRollsBack(c) == At(c, "rollback") /\ Requests(c, "failed", "idle")

Broadcasts(c) ==
  /\ At(c, "asking")
  /\ CaptureTold /\ ListenerTold({}) /\ TrackTold
  /\ pending' = [no |-> op[c].ticket, gen |-> gen, final |-> op[c].final]
  /\ GoesTo(c, IF op[c].then = "ticket" THEN "ticket" ELSE "waiting")
  /\ UNCHANGED <<stateVars, asked, lifecycleFaults, motionVars, ingress>>

\* wait_stopped takes the lock again, with the caller's ticket or without one.
WaitStopped(c) ==
  /\ LockFree /\ op[c].step \in {"idle", "ticket"}
  /\ op' = [op EXCEPT ![c].step = "waiting", ![c].then = "idle"]
  /\ UNCHANGED <<stateVars, stopVars, lifecycleFaults, workerVars>>

\* A ticket that is not the pending one, or a camera that is not stopping:
\* there is nothing to wait for.
WaitIsVoid(c) ==
  \/ phase = "closed" \/ pending = NoStop
  \/ op[c].ticket \notin {0, pending.no}
  \/ pending.gen # gen
  \/ phase # "stopping"

\* The joins, each until its deadline, and the resets that follow them.
Awaits(c) ==
  /\ At(c, "waiting")
  /\ \/ /\ WaitIsVoid(c)
        /\ Returns(c)
        /\ UNCHANGED <<lifecycleFaults, motionVars, listenerVars>>
     \/ /\ ~WaitIsVoid(c)
        /\ \E resets \in BOOLEAN :
             /\ IF resets THEN UNCHANGED lifecycleFaults
                          ELSE LifecycleFault /\ ~MotionResidual
             /\ MotionAwaited(resets)
             /\ op' = [op EXCEPT ![c].step = "finishing",
                         ![c].late = TrackRunning \/ MotionResidual \/ ~resets
                                     \/ CaptureLingers \/ listener # "none"]
        /\ ListenerAwaited
  /\ UNCHANGED <<stateVars, stopVars, ingress, captureVars, trackVars>>
\* close() goes on after its stop, whatever became of it.
AfterStop(c) == IF op[c].then = "closing" THEN GoesTo(c, "closing") ELSE Returns(c)
Finishes(c) ==
  /\ At(c, "finishing")
  /\ IF op[c].late THEN phase' = "failed" /\ UNCHANGED pending
                   ELSE phase' = pending.final /\ pending' = NoStop
  /\ AfterStop(c)
  /\ UNCHANGED <<gen, acceptingMotion, stopSet, detection, asked, lifecycleFaults,
                 workerVars>>

----------------------------------------------------------------------------
(* close and set_detection_enabled *)

CloseBegins(c) ==
  /\ LockFree /\ At(c, "idle") /\ phase \in {"stopped", "failed"}
  /\ IF Residual THEN Requests(c, "stopped", "closing")
     ELSE /\ GoesTo(c, "closing")
          /\ UNCHANGED <<stateVars, stopVars, lifecycleFaults, workerVars>>
\* The motion pipelines and the capture service are closed; capture.close
\* looks at every capture thread and at the observer.
CloseEnds(c) ==
  /\ At(c, "closing")
  /\ \/ /\ Residual \/ CaptureLingers
        /\ phase' = "failed" /\ UNCHANGED <<acceptingMotion, stopSet, lifecycleFaults>>
     \/ /\ ~Residual /\ LifecycleFault
        /\ phase' = "failed" /\ UNCHANGED <<acceptingMotion, stopSet>>
     \/ /\ ~Residual /\ ~CaptureLingers
        /\ phase' = "closed" /\ acceptingMotion' = FALSE /\ stopSet' = TRUE
        /\ UNCHANGED lifecycleFaults
  /\ Returns(c)
  /\ UNCHANGED <<gen, detection, stopVars, workerVars>>

DetectionSet(c) ==
  /\ LockFree /\ At(c, "idle")
  /\ detection' = ~detection
  /\ TrackAccepting(~detection /\ ~stopSet)
  /\ IF phase = "running"
     THEN GoesTo(c, IF detection THEN "undetection" ELSE "detection")
     ELSE UNCHANGED op
  /\ UNCHANGED <<phase, gen, acceptingMotion, stopSet, stopVars, lifecycleFaults,
                 motionVars, ingress, captureVars, listenerVars>>
\* The listener starts, or detection is taken back and the listener stopped.
DetectionRefused(c) ==
  /\ detection' = FALSE /\ TrackAccepting(FALSE)
  /\ ListenerTold({c}) /\ GoesTo(c, "leaves")
DetectionStarts(c) ==
  /\ At(c, "detection")
  /\ IF ListenerMayStart
     THEN GoesTo(c, "detects") /\ UNCHANGED <<detection, listenerVars, trackVars>>
     ELSE DetectionRefused(c)
  /\ UNCHANGED <<phase, gen, acceptingMotion, stopSet, stopVars, lifecycleFaults,
                 motionVars, ingress, captureVars>>
DetectionListens(c) ==
  /\ At(c, "detects")
  /\ \/ /\ ListenerCreated /\ Returns(c)
        /\ UNCHANGED <<detection, lifecycleFaults, trackVars>>
     \/ LifecycleFault /\ DetectionRefused(c)
  /\ UNCHANGED <<phase, gen, acceptingMotion, stopSet, stopVars,
                 motionVars, ingress, captureVars>>
\* onvif.stop: what its wait answers is ignored.
DetectionStops(c) ==
  /\ At(c, "undetection")
  /\ ListenerTold({c}) /\ GoesTo(c, "leaves")
  /\ UNCHANGED <<stateVars, stopVars, lifecycleFaults, motionVars, ingress,
                 captureVars, trackVars>>
DetectionLeaves(c) ==
  /\ At(c, "leaves")
  /\ IF c \in tickets THEN ListenerAwaited ELSE UNCHANGED listenerVars
  /\ Returns(c)
  /\ UNCHANGED <<stateVars, stopVars, lifecycleFaults, motionVars, ingress,
                 captureVars, trackVars>>

----------------------------------------------------------------------------
(* The fleet's early release of the subscription, without the lock *)

ReleaseRequests ==
  /\ At(Fleet, "idle")
  /\ ListenerTold({Fleet}) /\ GoesTo(Fleet, "releasing")
  /\ UNCHANGED <<stateVars, stopVars, lifecycleFaults, motionVars, ingress, captureVars,
                 trackVars>>
ReleaseWaits ==
  /\ At(Fleet, "releasing")
  /\ IF Fleet \in tickets THEN ListenerAwaited ELSE UNCHANGED listenerVars
  /\ Returns(Fleet)
  /\ UNCHANGED <<stateVars, stopVars, lifecycleFaults, motionVars, ingress, captureVars,
                 trackVars>>

----------------------------------------------------------------------------
(* The threads: what they do between the steps of a command *)

WorkersStep ==
  \/ acceptingMotion /\ detection /\ IngressBegins(gen)
  \/ MainRequested(gen)
  \/ \E g \in Generation : IngressEnds(g)
  \/ MainIdles \/ ObserverEnds \/ ListenerEnds \/ TrackEnds \/ TrackHandsOver
  \/ \E s \in Slot : CaptureEnds(s)
  \/ \E w \in MotionWorker : MotionEnds(w, stopSet) \/ TrackBegins(w)
Workers ==
  /\ WorkersStep
  /\ UNCHANGED <<stateVars, stopVars, op, lifecycleFaults>>

Starts(c) ==
  \/ StartTracking(c) \/ StartMotion(c) \/ StartCapture(c)
  \/ StartListener(c) \/ StartListens(c) \/ StartEnds(c) \/ StartRollsBack(c)
Detects(c) ==
  \/ DetectionStarts(c) \/ DetectionListens(c) \/ DetectionStops(c)
  \/ DetectionLeaves(c)
\* A command goes on: its next step, or the wait that follows a request.
Proceeds(c) ==
  \/ Starts(c) \/ Broadcasts(c) \/ Awaits(c) \/ Finishes(c) \/ CloseEnds(c)
  \/ Detects(c)
  \/ At(c, "ticket") /\ WaitStopped(c)
Commands(c) ==
  \/ StartRefused(c) \/ StartBegins(c) \/ Stop(c) \/ CloseBegins(c)
  \/ DetectionSet(c)
Teardown ==
  \/ RequestStop(Fleet) \/ WaitStopped(Fleet) \/ CloseBegins(Fleet)
  \/ ReleaseRequests \/ ReleaseWaits

LifecycleNext ==
  \/ \E c \in Commander : Commands(c)
  \/ \E c \in Caller : Proceeds(c)
  \/ Teardown
  \/ Workers

LifecycleSpec == LifecycleInit /\ [][LifecycleNext]_lifecycleVars

\* A command that was issued goes on, and the fleet waits for what it requested.
FairLifecycle == LifecycleSpec /\ WF_lifecycleVars(\E c \in Caller : Proceeds(c))

----------------------------------------------------------------------------
(* Properties *)

\* A running camera consists of threads of its own generation, and of all of
\* them: nothing of an earlier start is left among them (camera_lifecycle.py
\* 121-131, motion_runtime.py 276-288, camera_capture.py 417-434).
OneGeneration ==
  phase = "running" =>
    /\ \A w \in MotionWorker : motion[w] = gen
    /\ cap["live"].gen = gen /\ ~cap["live"].told
    /\ \A s \in Slot : cap[s].gen \in {0, gen}
    /\ IngressInFlight \subseteq {gen}
    /\ observer = "alive" /\ ~stopSet /\ clean

\* Nobody finds a camera that is stopping without a stop ticket: a request is
\* answered with a ticket that was issued, and between commands a camera stops
\* only because the fleet told it to and will wait for that very stop
\* (camera_lifecycle.py 232-262, 268-288).
StopHasWaiter ==
  /\ op[Fleet].step = "ticket" => op[Fleet].ticket # 0
  /\ phase = "stopping" /\ LockFree =>
       /\ pending # NoStop /\ pending.gen = gen
       /\ op[Fleet].step = "ticket" /\ op[Fleet].ticket = pending.no

\* Nothing feeds a camera that stops or has failed: once the broadcast is out
\* no thread is left untold (camera_lifecycle.py 249-259).
ToldToStop ==
  phase \in {"stopping", "failed"} /\ LockFree =>
    /\ ~acceptingMotion /\ ~trackAccepts /\ capStop
    /\ \A s \in Slot : cap[s].gen = 0 \/ cap[s].told

=============================================================================
