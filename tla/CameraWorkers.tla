---------------------------- MODULE CameraWorkers ----------------------------
(***************************************************************************)
(* The threads that one camera owns and the calls that start, tell and     *)
(* await them: the motion runtime (motion_runtime.py with its three        *)
(* workers and the callbacks in flight), the capture sources and their     *)
(* observer (camera_capture.py), the ONVIF listener (onvif_events.py) and  *)
(* the tracking session (object_track/session.py).                         *)
(*                                                                         *)
(* A thread is known by the camera generation it was started in, 0 when it *)
(* is not alive.  A thread ends some time after it was told to, so a wait  *)
(* either finds it dead or gives up at its deadline.                       *)
(***************************************************************************)
EXTENDS Naturals, FiniteSets

CONSTANTS MotionWorker,   \* analysis, decision and refinement threads
          Holder,         \* those who may hold a ticket of the listener's stop
          MaxGeneration,  \* bound on the camera's generations
          MaxIngress      \* bound on the callbacks in flight at once

ASSUME WorkersAssumption ==
  /\ IsFiniteSet(MotionWorker) /\ MotionWorker # {}
  /\ MaxGeneration \in Nat \ {0} /\ MaxIngress \in Nat \ {0}

VARIABLES
  motion,       \* motion worker -> generation
  clean,        \* MotionRuntimeService._generation_clean
  ingress,      \* generation -> callbacks in flight
  capStop,      \* CameraCaptureService._stop
  cap,          \* capture slot -> generation and stop event of its thread
  observer,     \* the observer's thread: none, alive, or told to stop
  listener,     \* the ONVIF listener's thread, likewise
  leaving,      \* OnvifEventListener._pending_stop: no, or the thread it names
                \* (nobody when there was none)
  tickets,      \* who holds the ticket of that pending stop
  track,        \* the tracking session's thread; one that was told to stop may
                \* have an incident queued behind it, which it starts itself
                \* (handing) once it has taken itself off
  trackAccepts  \* ObjectTrackingSession._accepting

motionVars == <<motion, clean>>
captureVars == <<capStop, cap, observer>>
listenerVars == <<listener, leaving, tickets>>
trackVars == <<track, trackAccepts>>
workerVars == <<motionVars, ingress, captureVars, listenerVars, trackVars>>

Generation == 1 .. MaxGeneration
\* _threads["live"], _threads["main"], and a main thread that was replaced
\* while it was ending, which only _all_threads still holds.
Slot == {"live", "main", "old"}

NoCapture == [gen |-> 0, told |-> FALSE]

WorkersInit ==
  /\ motion = [w \in MotionWorker |-> 0] /\ clean = TRUE
  /\ ingress = [g \in Generation |-> 0]
  /\ capStop = TRUE /\ cap = [s \in Slot |-> NoCapture] /\ observer = "none"
  /\ listener = "none" /\ leaving = "no" /\ tickets = {}
  /\ track = "none" /\ trackAccepts = FALSE

----------------------------------------------------------------------------
(* The motion runtime *)

MotionAlive == {w \in MotionWorker : motion[w] # 0}
IngressInFlight == {g \in Generation : ingress[g] > 0}
MotionResidual == MotionAlive # {} \/ IngressInFlight # {}

\* start: a dirty generation or a residual worker is refused.
MotionMayStart == clean /\ ~MotionResidual
MotionStarted(g) ==
  /\ motion' = [w \in MotionWorker |-> g]
  /\ UNCHANGED clean
\* A worker fails to start: those started are told and awaited for a second.
MotionRolledBack(g) ==
  \E left \in SUBSET MotionWorker :
    /\ motion' = [w \in MotionWorker |-> IF w \in left THEN g ELSE 0]
    /\ clean' = (left = {} /\ IngressInFlight = {})
\* wait_stopped resets the generation only when everything has ended.
MotionAwaited(resets) ==
  /\ clean' = (~MotionResidual /\ resets)
  /\ UNCHANGED motion

----------------------------------------------------------------------------
(* Capture *)

CaptureAlive == {s \in Slot : cap[s].gen # 0}
CaptureLingers == CaptureAlive # {} \/ observer # "none"

\* start refuses over lingering threads when it starts a generation.
\* Faulty variant of CaptureMayStart, never used.
CaptureMayStartFaulty == capStop => observer = "none"
CaptureMayStart == capStop => ~CaptureLingers
CaptureStarted(g) ==
  /\ capStop' = FALSE /\ observer' = "alive"
  /\ cap' = IF cap["live"].gen # 0 /\ ~cap["live"].told THEN cap
            ELSE [cap EXCEPT !["live"] = [gen |-> g, told |-> FALSE]]
\* The live thread fails to start after the stop was cleared.
CaptureHalfStarted ==
  /\ capStop' = FALSE /\ observer' = "alive"
  /\ UNCHANGED cap
\* Faulty variant of CaptureTold, never used.
CaptureToldFaulty ==
  /\ capStop' = TRUE
  /\ cap' = [s \in Slot |-> [cap[s] EXCEPT !.told = s # "old" /\ cap[s].gen # 0]]
  /\ observer' = IF observer = "none" THEN "none" ELSE "told"
CaptureTold ==
  /\ capStop' = TRUE
  /\ cap' = [s \in Slot |-> [cap[s] EXCEPT !.told = cap[s].gen # 0]]
  /\ observer' = IF observer = "none" THEN "none" ELSE "told"

----------------------------------------------------------------------------
(* The ONVIF listener *)

\* start looks at the pending stop, releases the lock, and takes it again to
\* create its thread beside none that is alive.
ListenerMayStart == leaving = "no"
ListenerCreated ==
  /\ listener' = IF listener = "none" THEN "alive" ELSE listener
  /\ UNCHANGED <<leaving, tickets>>
\* request_stop: whoever asks while a stop is pending shares its ticket, and
\* signals nothing.
ListenerTold(who) ==
  /\ leaving' = IF leaving # "no" THEN leaving
                ELSE IF listener = "none" THEN "nobody" ELSE "thread"
  /\ listener' = IF leaving = "no" /\ listener = "alive" THEN "told" ELSE listener
  /\ tickets' = tickets \cup who
\* wait_stopped: the waiter that finds the named thread dead finalizes the stop.
ListenerStopped == leaving = "nobody" \/ listener = "none"
ListenerAwaited ==
  /\ leaving' = IF ListenerStopped THEN "no" ELSE leaving
  /\ tickets' = IF ListenerStopped THEN {} ELSE tickets
  /\ UNCHANGED listener

----------------------------------------------------------------------------
(* The tracking session *)

TrackAccepting(accepts) ==
  /\ trackAccepts' = accepts
  /\ track' = IF ~accepts /\ track \in {"alive", "queued"} THEN "told" ELSE track
TrackTold == TrackAccepting(FALSE)
TrackRunning == track \in {"alive", "told", "queued"}

----------------------------------------------------------------------------
(* What the threads do by themselves *)

\* A callback enters while events are accepted (begin_ingress) and leaves.
IngressBegins(g) ==
  /\ \A h \in Generation : ingress[h] < MaxIngress
  /\ ingress' = [ingress EXCEPT ![g] = @ + 1]
  /\ UNCHANGED <<motionVars, captureVars, listenerVars, trackVars>>
IngressEnds(g) ==
  /\ ingress[g] > 0
  /\ ingress' = [ingress EXCEPT ![g] = @ - 1]
  /\ UNCHANGED <<motionVars, captureVars, listenerVars, trackVars>>

\* A request for a main frame starts that source, beside one that is ending.
MainRequested(g) ==
  /\ ~capStop
  /\ \/ cap["main"].gen = 0
        /\ cap' = [cap EXCEPT !["main"] = [gen |-> g, told |-> FALSE]]
     \/ cap["main"].gen # 0 /\ cap["main"].told /\ cap["old"].gen = 0
        /\ cap' = [cap EXCEPT !["main"] = [gen |-> g, told |-> FALSE],
                              !["old"] = cap["main"]]
  /\ UNCHANGED <<motionVars, ingress, capStop, observer, listenerVars, trackVars>>
MainIdles ==
  /\ cap["main"].gen # 0 /\ ~cap["main"].told
  /\ cap' = [cap EXCEPT !["main"].told = TRUE]
  /\ UNCHANGED <<motionVars, ingress, capStop, observer, listenerVars, trackVars>>
CaptureEnds(s) ==
  /\ cap[s].gen # 0 /\ (cap[s].told \/ capStop)
  /\ cap' = [cap EXCEPT ![s] = NoCapture]
  /\ UNCHANGED <<motionVars, ingress, capStop, observer, listenerVars, trackVars>>
ObserverEnds ==
  /\ observer = "told"
  /\ observer' = "none"
  /\ UNCHANGED <<motionVars, ingress, capStop, cap, listenerVars, trackVars>>

\* The motion workers watch the camera's stop event, one for all generations.
MotionEnds(w, stopSet) ==
  /\ motion[w] # 0 /\ stopSet
  /\ motion' = [motion EXCEPT ![w] = 0]
  /\ UNCHANGED <<clean, ingress, captureVars, listenerVars, trackVars>>

ListenerEnds ==
  /\ listener = "told"
  /\ listener' = "none"
  /\ UNCHANGED <<motionVars, ingress, captureVars, leaving, tickets, trackVars>>

\* A motion worker hands over an incident; a running session makes way for it.
TrackBegins(w) ==
  /\ motion[w] # 0 /\ trackAccepts /\ track # "handing"
  /\ track' = IF TrackRunning THEN "queued" ELSE "alive"
  /\ UNCHANGED <<motionVars, ingress, captureVars, listenerVars, trackAccepts>>
\* _finish_worker_and_start_pending: the thread takes itself off, then starts
\* the successor it found, unless starting is no longer accepted by then.
TrackEnds ==
  /\ TrackRunning
  /\ track' = IF trackAccepts /\ track = "queued" THEN "handing" ELSE "none"
  /\ UNCHANGED <<motionVars, ingress, captureVars, listenerVars, trackAccepts>>
TrackHandsOver ==
  /\ track = "handing"
  /\ track' = IF trackAccepts THEN "alive" ELSE "none"
  /\ UNCHANGED <<motionVars, ingress, captureVars, listenerVars, trackAccepts>>
=============================================================================
