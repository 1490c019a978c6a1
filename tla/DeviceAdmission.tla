-------------------------- MODULE DeviceAdmission --------------------------
(***************************************************************************)
(* Admission of inference to the detector device (InferenceSupervisor):    *)
(* one condition variable keeps optional work behind security work, lets a *)
(* first look at an incident pass its refinements, runs offline work alone *)
(* and is fenced while worker processes are replaced.  A thread holds the  *)
(* condition's lock for a whole step; it lets go only to sleep, so a       *)
(* woken thread competes for the lock with every other.                    *)
(*                                                                         *)
(* Deadlines (30 s, 60 s) may pass at any moment.  InferenceLifecycle runs *)
(* start, replacement and close one at a time under its own lock.  Worker  *)
(* processes and the statistics of admission are left out; TRACKING stands *)
(* for ENRICHMENT too, which is admitted the same way.                     *)
(***************************************************************************)
EXTENDS Naturals, FiniteSets

CONSTANTS Thread,  \* threads that call the detector
          MaxCap   \* greatest max_concurrent_refinements configured (32)

ASSUME AdmissionAssumption == IsFiniteSet(Thread) /\ MaxCap \in Nat \ {0}

VARIABLES
  thread,      \* thread -> where it is in a call, and for which workload
  count,       \* the supervisor's counters, _security_waiting and the rest
  accepting,   \* _device_accepting
  cap,         \* config.max_concurrent_refinements
  life,        \* _core_started, _core_ready, _closed of InferenceLifecycle
  held,        \* what the holder of the lifecycle's lock is doing
  previously   \* previously_accepting of the replacement under way

control == <<life, held, previously>>
vars == <<thread, count, accepting, cap, control>>

Security == {"initial", "refinement"}
Workload == Security \cup {"interactive", "tracking", "offline"}
Counter == {"security_waiting", "security_active", "initial_waiting",
            "initial_active", "refinement_active", "optional_active",
            "offline_active"}

Idle == [pc |-> "idle", work |-> "none"]
At(pc, w) == [pc |-> pc, work |-> w]
Waiting(t) == thread[t].pc \in {"asleep", "notified"}
Active(t) == thread[t].pc = "active"

ThreadState ==
  {Idle} \cup [pc : {"asleep", "notified", "active"}, work : Workload]

TypeOK ==
  /\ thread \in [Thread -> ThreadState]
  /\ count \in [Counter -> Nat]
  /\ accepting \in BOOLEAN /\ cap \in 1..MaxCap
  /\ life \in {"new", "unready", "ready", "closed"}
  /\ held \in {"nothing", "starting", "replacing"}
  /\ previously \in BOOLEAN

Init ==
  /\ thread = [t \in Thread |-> Idle]
  /\ count = [c \in Counter |-> 0]
  /\ accepting = TRUE /\ cap \in 1..MaxCap
  /\ life = "new" /\ held = "nothing"
  /\ previously = FALSE

-----------------------------------------------------------------------------
(* The counters a workload raises while it waits and while it runs.        *)

WaitingCounters(w) ==
  CASE w = "initial"    -> {"security_waiting", "initial_waiting"}
    [] w = "refinement" -> {"security_waiting"}
    [] OTHER            -> {}

ActiveCounters(w) ==
  CASE w = "initial"    -> {"security_active", "initial_active"}
    [] w = "refinement" -> {"security_active", "refinement_active"}
    [] w = "offline"    -> {"optional_active", "offline_active"}
    [] OTHER            -> {"optional_active"}

\* Raise the counters in up and lower, never below zero, those in down.
Shifted(up, down) ==
  [c \in Counter |->
     IF c \in up THEN count[c] + 1
     ELSE IF c \in down /\ count[c] > 0 THEN count[c] - 1
     ELSE count[c]]

\* notify_all: the sleepers will look again.
Woken ==
  [t \in Thread |-> IF thread[t].pc = "asleep"
                      THEN At("notified", thread[t].work) ELSE thread[t]]

BlockedByRunningSecurity == count["security_active"] > 0  \* faulty
BlockedBySecurity ==
  count["security_waiting"] > 0 \/ count["security_active"] > 0
BlockedByOffline == count["offline_active"] > 0
BlockedByOptional == count["optional_active"] > 0
BlockedByInitial ==
  count["initial_waiting"] > 0 \/ count["initial_active"] > 0
AtRefinementCap == count["refinement_active"] >= cap

Blocked(w) ==
  CASE w = "initial"    -> BlockedByOptional
    [] w = "refinement" -> \/ BlockedByOptional
                           \/ BlockedByInitial
                           \/ AtRefinementCap
    [] w = "offline"    -> BlockedBySecurity \/ BlockedByOptional
    [] OTHER            -> BlockedBySecurity \/ BlockedByOffline

-----------------------------------------------------------------------------
(* One call of the detector.                                               *)

\* A call finds the device free, or joins the wait.  One refused at the
\* fence, and a tracking sample that would have to wait, change nothing.
Enter(t, w) ==
  /\ thread[t] = Idle /\ accepting
  /\ \/ /\ ~Blocked(w)
        /\ thread' = [thread EXCEPT ![t] = At("active", w)]
        /\ count' = Shifted(ActiveCounters(w), {})
     \/ /\ Blocked(w) /\ w # "tracking"
        /\ thread' = [thread EXCEPT ![t] = At("asleep", w)]
        /\ count' = Shifted(WaitingCounters(w), {})
  /\ UNCHANGED <<accepting, cap, control>>

\* A waiter that has the lock again: security work looks at the fence first,
\* optional work only when it would have to go on waiting.
Admit(t) ==
  LET w == thread[t].work IN
  /\ Waiting(t) /\ ~Blocked(w) /\ (w \in Security => accepting)
  /\ thread' = [thread EXCEPT ![t] = At("active", w)]
  /\ count' = Shifted(ActiveCounters(w), WaitingCounters(w))
  /\ UNCHANGED <<accepting, cap, control>>

\* Faulty variant of GiveUp: the waiting counters stay raised.
GiveUpUncounted(t) ==
  /\ thread' = [thread EXCEPT ![t] = Idle]
  /\ UNCHANGED <<count, accepting, cap, control>>

GiveUp(t) ==
  /\ thread' = [thread EXCEPT ![t] = Idle]
  /\ count' = Shifted({}, WaitingCounters(thread[t].work))
  /\ UNCHANGED <<accepting, cap, control>>

TurnedAway(t) ==
  /\ Waiting(t) /\ ~accepting
  /\ thread[t].work \in Security \/ Blocked(thread[t].work)
  /\ GiveUp(t)

TimeOut(t) ==
  /\ Waiting(t) /\ accepting /\ Blocked(thread[t].work)
  /\ GiveUp(t)

SleepOn(t) ==
  /\ thread[t].pc = "notified" /\ accepting /\ Blocked(thread[t].work)
  /\ thread' = [thread EXCEPT ![t] = At("asleep", thread[t].work)]
  /\ UNCHANGED <<count, accepting, cap, control>>

\* A notified thread looks again; a sleeping one does so at its deadline.
Resume(t) ==
  thread[t].pc = "notified" /\ (Admit(t) \/ TurnedAway(t) \/ SleepOn(t))
Deadline(t) ==
  \/ thread[t].pc = "asleep" /\ Admit(t)
  \/ TimeOut(t)

\* Faulty variant of Leave: no notify_all.
LeaveQuietly(t) ==
  /\ Active(t)
  /\ thread' = [thread EXCEPT ![t] = Idle]
  /\ count' = Shifted({}, ActiveCounters(thread[t].work))
  /\ UNCHANGED <<accepting, cap, control>>

Leave(t) ==
  /\ Active(t)
  /\ thread' = [Woken EXCEPT ![t] = Idle]
  /\ count' = Shifted({}, ActiveCounters(thread[t].work))
  /\ UNCHANGED <<accepting, cap, control>>

-----------------------------------------------------------------------------
(* The lifecycle: start and its retry by maintenance, replacement of the   *)
(* worker processes, hot configuration, close.                             *)

StartPool(ok) ==
  /\ held = "nothing" /\ life \in {"new", "unready"}
  /\ accepting' = ok
  /\ thread' = Woken
  /\ IF ok THEN held' = "starting" /\ UNCHANGED life
           ELSE life' = "unready" /\ UNCHANGED held
  /\ UNCHANGED <<count, cap, previously>>

\* A first start that raises stops the detector; a retry is only logged.
StartRaises ==
  /\ held = "nothing" /\ life = "new"
  /\ accepting' = FALSE
  /\ thread' = Woken
  /\ UNCHANGED <<count, cap, control>>

\* A first start whose face queue fails stops the detector again; a retry
\* leaves it running and tries once more at the next maintenance.
StartFaces(ok) ==
  /\ held = "starting" /\ held' = "nothing"
  /\ life' = IF ok THEN "ready" ELSE life
  /\ IF ~ok /\ life = "new" THEN accepting' = FALSE /\ thread' = Woken
                            ELSE UNCHANGED <<accepting, thread>>
  /\ UNCHANGED <<count, cap, previously>>

Fence ==
  /\ held = "nothing" /\ life # "closed"
  /\ held' = "replacing"
  /\ previously' = accepting
  /\ accepting' = FALSE
  /\ thread' = Woken
  /\ UNCHANGED <<count, cap, life>>

\* The roles were replaced, or all restored, or some could not be restored.
EndReplacement(outcome) ==
  /\ held = "replacing" /\ held' = "nothing"
  /\ accepting' = (previously /\ outcome # "partial")
  /\ thread' = Woken
  /\ IF outcome = "replaced" THEN cap' \in 1..MaxCap ELSE UNCHANGED cap
  /\ previously' = FALSE
  /\ UNCHANGED <<count, life>>

\* update_runtime_config.
HotConfiguration ==
  /\ held = "nothing" /\ life # "closed"
  /\ cap' \in 1..MaxCap
  /\ UNCHANGED <<thread, count, accepting, control>>

Close ==
  /\ held = "nothing" /\ life # "closed"
  /\ life' = "closed"
  /\ accepting' = FALSE
  /\ thread' = Woken
  /\ UNCHANGED <<count, cap, held, previously>>

-----------------------------------------------------------------------------
Lifecycle ==
  \/ \E ok \in BOOLEAN : StartPool(ok) \/ StartFaces(ok)
  \/ StartRaises
  \/ Fence
  \/ \E outcome \in {"replaced", "restored", "partial"} : EndReplacement(outcome)
  \/ HotConfiguration
  \/ Close

Next ==
  \/ \E t \in Thread :
       \/ \E w \in Workload : Enter(t, w)
       \/ Resume(t)
       \/ Deadline(t)
       \/ Leave(t)
  \/ Lifecycle

Spec == Init /\ [][Next]_vars

\* A notified thread gets the lock and every request ends, each has a
\* timeout.  Nothing is assumed of deadlines, new calls or the lifecycle.
FairSpec ==
  Spec /\ \A t \in Thread : WF_vars(Resume(t)) /\ WF_vars(Leave(t))

-----------------------------------------------------------------------------
(* Properties.                                                             *)

CountersOf(s) ==
  CASE s.pc \in {"asleep", "notified"} -> WaitingCounters(s.work)
    [] s.pc = "active"                 -> ActiveCounters(s.work)
    [] OTHER                           -> {}
CountedBy(c) == {t \in Thread : c \in CountersOf(thread[t])}

\* Every counter is the number of threads in the state it stands for, however
\* a call ended: a leaked count would shut a class of work out for good, and
\* the clamp at zero hides one lowered twice.
CountersExact == \A c \in Counter : count[c] = Cardinality(CountedBy(c))

\* Offline inference has the device to itself, which
\* test_offline_lease_is_exclusive_with_optional_device_work asks of optional
\* work and the wait of security work extends to everything.
OfflineIsAlone ==
  \A t, u \in Thread :
    Active(t) /\ thread[t].work = "offline" /\ Active(u) => t = u

\* Optional and security inference never run together, although both kinds
\* wait for the other to drain.
SecurityApartFromOptional ==
  \A t, u \in Thread :
    Active(t) /\ Active(u) => (thread[t].work \in Security
                                 <=> thread[u].work \in Security)

\* A burst of refinements never exceeds the largest cap that was configured,
\* whatever waits, wakes or is reconfigured in between.
RefinementsCapped ==
  Cardinality({t \in Thread : Active(t) /\ thread[t].work = "refinement"})
    <= MaxCap

\* No wake-up is lost: a thread sleeps only while the device accepts work,
\* and one that could go ahead sleeps only if a running request will end and
\* wake it.  A waiter that times out lowers the counters and wakes nobody.
NoLostWakeUp ==
  \A t \in Thread :
    thread[t].pc = "asleep" =>
      accepting /\ (Blocked(thread[t].work) \/ \E u \in Thread : Active(u))

Starts(t) == ~Active(t) /\ Active(t)'

\* Nothing overtakes: optional work never starts while security work waits,
\* and a refinement never starts while a first look waits or runs.
SecurityFirst ==
  [][\A t, u \in Thread :
       /\ Starts(t) /\ thread'[t].work \notin Security
            => ~(Waiting(u) /\ thread[u].work \in Security)
       /\ Starts(t) /\ thread'[t].work = "refinement"
            => ~((Waiting(u) \/ Active(u)) /\ thread[u].work = "initial")]_vars

\* A first look at an incident that waits is decided without its deadline:
\* the optional work ahead of it drains and none is let in behind.
InitialServed ==
  \A t \in Thread :
    Waiting(t) /\ thread[t].work = "initial" ~> ~Waiting(t)

=============================================================================
