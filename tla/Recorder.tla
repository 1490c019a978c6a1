------------------------------ MODULE Recorder ------------------------------
(***************************************************************************)
(* The FFmpeg recorder of one camera source (recording_process/recorder.py)*)
(* under the three threads that start and stop it: the commands that the   *)
(* recording lifecycle serializes (recording_lifecycle.py), the watchdog,  *)
(* and the camera's admission, which calls the recorder directly.          *)
(*                                                                         *)
(* The recorder's lock is held only for single steps: a thread's plan is   *)
(* the rest of the steps it has to take, so that a start can be anywhere   *)
(* between its claim and its registration while others stop, sweep and     *)
(* start.                                                                  *)
(***************************************************************************)
EXTENDS Naturals, Sequences, FiniteSets

CONSTANTS MaxProcess,    \* bound on processes alive or remembered at once
          MaxCommands,   \* bound on commands
          MaxFaults,     \* bound on exits, failed starts and late watchdogs
          RolloverLimit  \* TIMESTAMP_ROLLOVER_LIMIT, in a window never left

ASSUME RecorderAssumption ==
  /\ MaxProcess \in Nat \ {0} /\ MaxCommands \in Nat /\ MaxFaults \in Nat
  /\ RolloverLimit \in Nat

VARIABLES
  alive,     \* the FFmpeg processes that run
  tracked,   \* Recorder.processes[key]; 0: none
  starting,  \* key in Recorder._starting
  disabled,  \* the camera is in Recorder._disabled_cameras
  retry,     \* Recorder._retry_after[key] is ahead
  pending,   \* the process a timestamp rollover is pending for; 0: none
  rollovers, \* rollovers in the history
  plan,      \* thread -> the steps it has yet to take
  mine,      \* thread -> the process it has launched and not registered; 0: none
  wanted,    \* the watchdog found the key wanted
  undo,      \* what the command does if a start raises
  quit,      \* Recorder._watchdog_stop
  late,      \* the watchdog outlived the wait for it
  closed,    \* RecordingLifecycle._closed
  noSpace,   \* a recording directory could not be made
  commands, faults

processVars == <<alive, tracked, starting>>
switchVars == <<disabled, retry>>
rolloverVars == <<pending, rollovers>>
endVars == <<quit, late, closed>>
countVars == <<commands, faults, noSpace>>
vars == <<processVars, switchVars, rolloverVars, plan, mine, wanted, undo,
          endVars, countVars>>

Thread == {"control", "watchdog", "admission"}
Process == 1 .. MaxProcess
\* A plan is a sequence of steps, each of which holds the recorder's lock once.
StartPlan == <<"claim", "directory", "launch", "register", "release", "sweep">>
StopPlan == <<"pop", "kill">>
DisablePlan == <<"disable">> \o StopPlan
SwitchPlan(on) == IF on THEN <<"enable">> ELSE DisablePlan
ReconcilePlan == <<"look", "compare", "missing", "sweep">>
ClosePlan == <<"join", "clear", "kill", "close">>

Init ==
  /\ alive = {} /\ tracked = 0 /\ starting = FALSE
  /\ disabled \in BOOLEAN /\ retry = FALSE
  /\ pending = 0 /\ rollovers = 0
  /\ plan = [t \in Thread |-> IF t = "admission" THEN StartPlan ELSE <<>>]
  /\ mine = [t \in Thread |-> 0] /\ wanted = FALSE /\ undo = <<>>
  /\ quit = FALSE /\ late = FALSE /\ closed = FALSE
  /\ commands = 0 /\ faults = 0 /\ noSpace = FALSE

----------------------------------------------------------------------------
(* Plans *)

At(t, step) == plan[t] # <<>> /\ Head(plan[t]) = step
\* The next n steps are replaced by others.
Replaces(t, n, steps) ==
  plan' = [plan EXCEPT ![t] = steps \o SubSeq(@, n + 1, Len(@))]
Proceeds(t) == Replaces(t, 1, <<>>)
Fault == faults < MaxFaults /\ faults' = faults + 1
UnusedProcess ==
  Process \ (alive \cup {tracked, pending} \cup {mine[t] : t \in Thread})
Recording == tracked \in alive
\* The command has nothing left that could raise.
UndoNothing(t) == IF t = "control" THEN <<>> ELSE undo

----------------------------------------------------------------------------
(* Recorder.start *)

\* An exited recorder is forgotten; a running one, one being started, a disabled
\* camera and a start that failed lately leave nothing to do.
Claim(t) ==
  /\ At(t, "claim")
  /\ IF disabled \/ retry \/ Recording \/ starting
     THEN /\ Replaces(t, Len(StartPlan), <<>>) /\ undo' = UndoNothing(t)
          /\ UNCHANGED <<tracked, starting>>
     ELSE Proceeds(t) /\ tracked' = 0 /\ starting' = TRUE /\ UNCHANGED undo
  /\ UNCHANGED <<alive, switchVars, rolloverVars, mine, wanted, endVars, countVars>>
\* The camera's directory is made before the guarded part of the start: a failure
\* ends the watchdog's reconciliation, the admission or the command, which undoes
\* what it has done so far.
MakeDirectory(t) ==
  /\ At(t, "directory")
  /\ \/ Proceeds(t) /\ UNCHANGED <<faults, noSpace>>
     \/ /\ Fault /\ noSpace' = TRUE
        /\ plan' = [plan EXCEPT ![t] = IF t = "control" THEN undo ELSE <<>>]
  /\ undo' = UndoNothing(t)
  /\ UNCHANGED <<processVars, switchVars, rolloverVars, mine, wanted, endVars,
                 commands>>
\* A launch that fails puts further starts off.
Launch(t) ==
  /\ At(t, "launch")
  /\ \/ \E p \in UnusedProcess :
          /\ \A q \in UnusedProcess : p <= q
          /\ alive' = alive \cup {p} /\ mine' = [mine EXCEPT ![t] = p]
          /\ Proceeds(t) /\ UNCHANGED <<retry, faults>>
     \/ Fault /\ retry' = TRUE /\ Replaces(t, 4, <<"release">>)
        /\ UNCHANGED <<alive, mine>>
  /\ UNCHANGED <<tracked, starting, disabled, rolloverVars, wanted, undo,
                 endVars, commands, noSpace>>
\* Faulty variant of Register, never used.
RegisterFaulty(t) ==
  /\ At(t, "register")
  /\ IF starting /\ ~disabled
     THEN tracked' = mine[t] /\ retry' = FALSE /\ Proceeds(t) /\ UNCHANGED alive
     ELSE /\ UNCHANGED alive /\ Replaces(t, 3, <<"release">>)
          /\ UNCHANGED <<tracked, retry>>
  /\ mine' = [mine EXCEPT ![t] = 0]
  /\ UNCHANGED <<starting, disabled, rolloverVars, wanted, undo, endVars,
                 countVars>>
\* The launched process is killed if a stop came in between.
Register(t) ==
  /\ At(t, "register")
  /\ IF starting /\ ~disabled
     THEN tracked' = mine[t] /\ retry' = FALSE /\ Proceeds(t) /\ UNCHANGED alive
     ELSE /\ alive' = alive \ {mine[t]} /\ Replaces(t, 3, <<"release">>)
          /\ UNCHANGED <<tracked, retry>>
  /\ mine' = [mine EXCEPT ![t] = 0]
  /\ UNCHANGED <<starting, disabled, rolloverVars, wanted, undo, endVars,
                 countVars>>
\* Faulty variant of Release, never used.
ReleaseFaulty(t) ==
  /\ At(t, "release")
  /\ UNCHANGED starting /\ Proceeds(t)
  /\ UNCHANGED <<alive, tracked, switchVars, rolloverVars, mine, wanted, undo,
                 endVars, countVars>>
Release(t) ==
  /\ At(t, "release")
  /\ starting' = FALSE /\ Proceeds(t)
  /\ UNCHANGED <<alive, tracked, switchVars, rolloverVars, mine, wanted, undo,
                 endVars, countVars>>
\* cleanup_duplicate_recorders: every process of the key but the tracked one.
Sweep(t) ==
  /\ At(t, "sweep")
  /\ alive' = alive \cap {tracked} /\ Proceeds(t)
  /\ UNCHANGED <<tracked, starting, switchVars, rolloverVars, mine, wanted, undo,
                 endVars, countVars>>

Starting(t) ==
  Claim(t) \/ MakeDirectory(t) \/ Launch(t) \/ Register(t) \/ Release(t) \/ Sweep(t)

----------------------------------------------------------------------------
(* Recorder.stop and set_camera_enabled *)
Pop(t) ==
  /\ At(t, "pop")
  /\ tracked' = 0 /\ starting' = FALSE /\ Proceeds(t)
  /\ UNCHANGED <<alive, switchVars, rolloverVars, mine, wanted, undo, endVars,
                 countVars>>
\* Whatever runs for the key then is killed, the popped recorder first.
Kill(t) ==
  /\ At(t, "kill")
  /\ alive' = {} /\ Proceeds(t)
  /\ UNCHANGED <<tracked, starting, switchVars, rolloverVars, mine, wanted, undo,
                 endVars, countVars>>
Switch(t) ==
  /\ \/ At(t, "enable") /\ disabled' = FALSE
     \/ At(t, "disable") /\ disabled' = TRUE
  /\ Proceeds(t)
  /\ UNCHANGED <<processVars, retry, rolloverVars, mine, wanted, undo, endVars,
                 countVars>>

----------------------------------------------------------------------------
(* The watchdog *)
\* Faulty variant of WatchdogWakes, never used.
WatchdogWakesFaulty ==
  /\ plan["watchdog"] = <<>>
  /\ plan' = [plan EXCEPT !["watchdog"] = ReconcilePlan]
  /\ UNCHANGED <<processVars, switchVars, rolloverVars, mine, wanted, undo,
                 endVars, countVars>>

WatchdogWakes ==
  /\ plan["watchdog"] = <<>> /\ ~quit
  /\ plan' = [plan EXCEPT !["watchdog"] = ReconcilePlan]
  /\ UNCHANGED <<processVars, switchVars, rolloverVars, mine, wanted, undo,
                 endVars, countVars>>
\* A rollover goes to the process it was asked for, or is dropped.
Look ==
  /\ At("watchdog", "look")
  /\ wanted' = ~disabled /\ pending' = 0
  /\ Replaces("watchdog", 1,
       IF pending # 0 /\ ~disabled /\ tracked = pending
       THEN StopPlan \o StartPlan \o <<"rolled">> ELSE <<>>)
  /\ UNCHANGED <<processVars, switchVars, rollovers, mine, undo, endVars, countVars>>
Rolled ==
  /\ At("watchdog", "rolled")
  /\ rollovers' = rollovers + 1 /\ Proceeds("watchdog")
  /\ UNCHANGED <<processVars, switchVars, pending, mine, wanted, undo, endVars,
                 countVars>>
\* An unwanted recorder is stopped, one that has exited is started again.
Compare ==
  /\ At("watchdog", "compare")
  /\ Replaces("watchdog", 1,
       IF tracked = 0 \/ (wanted /\ Recording) THEN <<>>
       ELSE IF wanted THEN StopPlan \o StartPlan ELSE StopPlan)
  /\ UNCHANGED <<processVars, switchVars, rolloverVars, mine, wanted, undo,
                 endVars, countVars>>
\* Only what is wanted is started and swept; that was the last use of wanted.
Missing ==
  /\ At("watchdog", "missing")
  /\ IF ~wanted THEN Replaces("watchdog", 2, <<>>)
     ELSE Replaces("watchdog", 1, IF tracked = 0 THEN StartPlan ELSE <<>>)
  /\ wanted' = FALSE
  /\ UNCHANGED <<processVars, switchVars, rolloverVars, mine, undo, endVars,
                 countVars>>
Reconciling == Look \/ Rolled \/ Compare \/ Missing

\* The thread that reads a recorder's messages finds its timestamps broken; past
\* the limit it only logs.
RolloverRequested(p) ==
  /\ p \in alive /\ pending # p /\ rollovers < RolloverLimit
  /\ pending' = p
  /\ UNCHANGED <<processVars, switchVars, rollovers, plan, mine, wanted, undo,
                 endVars, countVars>>
\* Recorder.status forgets a recorder that has exited.
Status ==
  /\ tracked # 0 /\ ~Recording
  /\ tracked' = 0
  /\ UNCHANGED <<alive, starting, switchVars, rolloverVars, plan, mine, wanted,
                 undo, endVars, countVars>>

ProcessExits(p) ==
  /\ p \in alive /\ Fault
  /\ alive' = alive \ {p}
  /\ UNCHANGED <<tracked, starting, switchVars, rolloverVars, plan, mine, wanted,
                 undo, endVars, commands, noSpace>>
RetryExpires ==
  /\ retry /\ retry' = FALSE
  /\ UNCHANGED <<processVars, disabled, rolloverVars, plan, mine, wanted, undo,
                 endVars, countVars>>

----------------------------------------------------------------------------
(* Commands, one at a time *)

Commands(steps, otherwise) ==
  /\ plan["control"] = <<>> /\ ~closed /\ commands < MaxCommands
  /\ plan' = [plan EXCEPT !["control"] = steps]
  /\ undo' = otherwise /\ commands' = commands + 1
  /\ UNCHANGED <<processVars, switchVars, rolloverVars, mine, wanted, endVars,
                 faults, noSpace>>
\* Camera power: nothing is undone once the camera has started.
PowerOn == Commands(<<"enable">> \o StartPlan, <<>>)
RecordingOn ==
  Commands(<<"enable">> \o StartPlan,
           IF disabled THEN DisablePlan ELSE <<"enable">> \o StartPlan)
Off == Commands(DisablePlan, <<>>)
\* RecordingLifecycle.reconfigure, with or without a restart of the recorders.
Reconfigure(restart) ==
  LET again == DisablePlan \o <<"settings">> \o SwitchPlan(~disabled)
                 \o (IF restart /\ ~disabled THEN StartPlan ELSE <<>>)
  IN Commands(again, IF restart /\ ~disabled THEN again ELSE <<>>)
Settings ==
  /\ At("control", "settings")
  /\ retry' = FALSE /\ Proceeds("control")
  /\ UNCHANGED <<processVars, disabled, rolloverVars, mine, wanted, undo, endVars,
                 countVars>>

\* RecordingLifecycle.close, once admission has ended.
Close ==
  /\ plan["control"] = <<>> /\ plan["admission"] = <<>> /\ ~closed
  /\ plan' = [plan EXCEPT !["control"] = ClosePlan] /\ quit' = TRUE
  /\ UNCHANGED <<processVars, switchVars, rolloverVars, mine, wanted, undo, late,
                 closed, countVars>>
\* The watchdog is awaited for two seconds.
Join ==
  /\ At("control", "join")
  /\ \/ plan["watchdog"] = <<>> /\ UNCHANGED <<late, faults>>
     \/ plan["watchdog"] # <<>> /\ Fault /\ late' = TRUE
  /\ Proceeds("control")
  /\ UNCHANGED <<processVars, switchVars, rolloverVars, mine, wanted, undo, quit,
                 closed, commands, noSpace>>
\* Only the processes of keys that were tracked are killed.
Clear ==
  /\ At("control", "clear")
  /\ tracked' = 0 /\ starting' = FALSE
  /\ Replaces("control", IF tracked = 0 THEN 2 ELSE 1, <<>>)
  /\ UNCHANGED <<alive, switchVars, rolloverVars, mine, wanted, undo, endVars,
                 countVars>>
Closes ==
  /\ At("control", "close")
  /\ closed' = TRUE /\ Proceeds("control")
  /\ UNCHANGED <<processVars, switchVars, rolloverVars, mine, wanted, undo, quit,
                 late, countVars>>

Proceed(t) ==
  \/ Starting(t) \/ Pop(t) \/ Kill(t) \/ Switch(t)
  \/ t = "watchdog" /\ (WatchdogWakes \/ Reconciling)
  \/ t = "control" /\ (Settings \/ Join \/ Clear \/ Closes)
Next ==
  \/ \E t \in Thread : Proceed(t)
  \/ RetryExpires \/ Status \/ Close
  \/ PowerOn \/ RecordingOn \/ Off \/ \E restart \in BOOLEAN : Reconfigure(restart)
  \/ \E p \in Process : ProcessExits(p) \/ RolloverRequested(p)

Spec == Init /\ [][Next]_vars

\* Every thread goes on and the time to retry comes.
FairSpec ==
  /\ Spec
  /\ \A t \in Thread : WF_vars(Proceed(t))
  /\ WF_vars(RetryExpires)

----------------------------------------------------------------------------
(* Properties *)

\* However starts, stops and sweeps overlap, no recorder is forgotten: a process
\* that runs is the registered one, or the one a start will register or kill, or
\* there is a sweep or a kill still to come (recorder.py 136-213, 420-434,
\* 631-643).
NoneForgotten ==
  \A p \in alive \ {tracked} :
    \E t \in Thread :
      mine[t] = p \/ \E i \in DOMAIN plan[t] : plan[t][i] \in {"sweep", "kill"}

\* When the recorder was closed and its watchdog had ended, nothing is started
\* again and nothing is left running (recorder.py 491-531).
ClosedIsQuiet == closed /\ ~late => tracked = 0 /\ alive = {}

\* A camera that is to be recorded is recorded in the end, whatever launches
\* failed, recorders exited, or starts and stops crossed, unless its directory
\* could not be made (recorder.py 555-583).
RecordsInTheEnd == <>[](Recording \/ disabled \/ quit \/ noSpace)

=============================================================================
