----------------------- MODULE DeviceAdmission_proofs -----------------------
(***************************************************************************)
(* Theorems of DeviceAdmission, for every finite set of threads and every  *)
(* cap on refinements.                                                     *)
(***************************************************************************)
EXTENDS DeviceAdmission, FiniteSetTheorems, TLAPS

-----------------------------------------------------------------------------
(***************************************************************************)
(* Threads and the counters they hold.                                     *)
(***************************************************************************)
\* The states of a thread and their parts.
LEMMA States ==
  /\ Idle \in ThreadState /\ Idle.pc = "idle"
  /\ \A pc \in {"asleep", "notified", "active"}, w \in Workload :
       At(pc, w) \in ThreadState /\ At(pc, w).pc = pc /\ At(pc, w).work = w
  /\ \A s \in ThreadState :
       s.pc # "idle" => /\ s.pc \in {"asleep", "notified", "active"}
                        /\ s.work \in Workload /\ s = At(s.pc, s.work)
  BY DEF Idle, At, ThreadState

\* No workload counts a waiter and a runner alike.
LEMMA CountersApart ==
  \A w, v : /\ WaitingCounters(w) \subseteq Counter
            /\ ActiveCounters(w) \subseteq Counter
            /\ WaitingCounters(w) \cap ActiveCounters(v) = {}
  BY DEF WaitingCounters, ActiveCounters, Counter

\* What a thread in each state holds.
LEMMA Held ==
  /\ CountersOf(Idle) = {}
  /\ \A w \in Workload :
       /\ CountersOf(At("asleep", w)) = WaitingCounters(w)
       /\ CountersOf(At("notified", w)) = WaitingCounters(w)
       /\ CountersOf(At("active", w)) = ActiveCounters(w)
  BY DEF CountersOf, Idle, At

\* Only finitely many threads hold a counter.
LEMMA CountedFinite == \A c : IsFiniteSet(CountedBy(c))
  <1> TAKE c
  <1>1. IsFiniteSet(Thread)
    BY AdmissionAssumption DEF AdmissionAssumption
  <1>2. CountedBy(c) \in SUBSET Thread
    BY DEF CountedBy
  <1> QED BY <1>1, <1>2, FS_Subset

\* A thread that holds a counter keeps it above zero.
LEMMA HeldIsPositive ==
  ASSUME TypeOK, CountersExact, NEW t \in Thread,
         NEW c \in Counter, c \in CountersOf(thread[t])
  PROVE  count[c] > 0
  <1>1. t \in CountedBy(c) /\ IsFiniteSet(CountedBy(c))
    BY CountedFinite DEF CountedBy
  <1>2. Cardinality(CountedBy(c)) # 0
    BY <1>1, FS_EmptySet
  <1>3. count[c] = Cardinality(CountedBy(c)) /\ count[c] \in Nat
    BY DEF CountersExact, TypeOK
  <1> QED BY <1>2, <1>3

\* The counters stay exact when one thread changes what it holds and they
\* are shifted accordingly.
LEMMA ShiftedExact ==
  ASSUME TypeOK, CountersExact, NEW t \in Thread, NEW up, NEW down,
         down = CountersOf(thread[t]), up = CountersOf(thread'[t]),
         up \cap down = {},
         \A u \in Thread \ {t} : CountersOf(thread'[u]) = CountersOf(thread[u]),
         count' = Shifted(up, down)
  PROVE  CountersExact' /\ count' \in [Counter -> Nat]
  <1> SUFFICES ASSUME NEW c \in Counter
               PROVE  /\ count'[c] = Cardinality(CountedBy(c)')
                      /\ count'[c] \in Nat
    BY DEF CountersExact, Shifted
  <1>1. /\ IsFiniteSet(CountedBy(c))
        /\ count[c] = Cardinality(CountedBy(c)) /\ count[c] \in Nat
    BY CountedFinite DEF CountersExact, TypeOK
  <1>2. CASE c \in up
    <2>1. CountedBy(c)' = CountedBy(c) \cup {t} /\ t \notin CountedBy(c)
      BY <1>2 DEF CountedBy
    <2>2. Cardinality(CountedBy(c)') = Cardinality(CountedBy(c)) + 1
      BY <2>1, <1>1, FS_AddElement
    <2>3. count'[c] = count[c] + 1
      BY <1>2 DEF Shifted
    <2> QED BY <2>2, <2>3, <1>1
  <1>3. CASE c \in down
    <2>1. CountedBy(c)' = CountedBy(c) \ {t} /\ t \in CountedBy(c)
      BY <1>3 DEF CountedBy
    <2>2. Cardinality(CountedBy(c)') = Cardinality(CountedBy(c)) - 1
      BY <2>1, <1>1, FS_RemoveElement
    <2>3. count[c] > 0
      BY <1>3, HeldIsPositive
    <2>4. count'[c] = count[c] - 1
      BY <1>3, <2>3 DEF Shifted
    <2> QED BY <2>2, <2>3, <2>4, <1>1
  <1>4. CASE c \notin up \cup down
    <2>1. CountedBy(c)' = CountedBy(c)
      BY <1>4 DEF CountedBy
    <2>2. count'[c] = count[c]
      BY <1>4 DEF Shifted
    <2> QED BY <2>1, <2>2, <1>1
  <1> QED BY <1>2, <1>3, <1>4

\* They stay exact when they and what each thread holds are unchanged.
LEMMA UnshiftedExact ==
  ASSUME TypeOK, CountersExact,
         \A u \in Thread : CountersOf(thread'[u]) = CountersOf(thread[u]),
         count' = count
  PROVE  CountersExact' /\ count' \in [Counter -> Nat]
  <1>1. \A c : CountedBy(c)' = CountedBy(c)
    BY DEF CountedBy
  <1> QED BY <1>1 DEF CountersExact, TypeOK

\* Waking the sleepers changes nobody's counters, and runs nobody.
LEMMA WokenThreads ==
  ASSUME TypeOK
  PROVE  /\ Woken \in [Thread -> ThreadState]
         /\ \A u \in Thread : /\ CountersOf(Woken[u]) = CountersOf(thread[u])
                              /\ Woken[u].pc # "asleep"
                              /\ Woken[u].pc = "active" => Woken[u] = thread[u]
                              /\ thread[u].pc = "active" => Woken[u] = thread[u]
  <1> SUFFICES ASSUME NEW u \in Thread
               PROVE  /\ Woken[u] \in ThreadState
                      /\ CountersOf(Woken[u]) = CountersOf(thread[u])
                      /\ Woken[u].pc # "asleep"
                      /\ Woken[u].pc = "active" => Woken[u] = thread[u]
                      /\ thread[u].pc = "active" => Woken[u] = thread[u]
    BY DEF Woken
  <1>1. thread[u] \in ThreadState
    BY DEF TypeOK
  <1>2. CASE thread[u].pc = "asleep"
    <2>1. /\ Woken[u] = At("notified", thread[u].work)
          /\ thread[u].work \in Workload
          /\ thread[u] = At("asleep", thread[u].work)
      BY <1>1, <1>2, States DEF Woken
    <2> QED BY <2>1, States, Held
  <1>3. CASE thread[u].pc # "asleep"
    BY <1>1, <1>3 DEF Woken
  <1> QED BY <1>2, <1>3

-----------------------------------------------------------------------------
(***************************************************************************)
(* The counters are exact.                                                 *)
(***************************************************************************)
Counted == TypeOK /\ CountersExact

\* Replacing one thread's state leaves the others alone.
LEMMA Replaced ==
  ASSUME NEW f \in [Thread -> ThreadState], NEW t \in Thread,
         NEW s \in ThreadState
  PROVE  /\ [f EXCEPT ![t] = s] \in [Thread -> ThreadState]
         /\ [f EXCEPT ![t] = s][t] = s
         /\ \A u \in Thread \ {t} : [f EXCEPT ![t] = s][u] = f[u]
  OBVIOUS

\* Every counter is zero before the first call.
LEMMA CountedInit == Init => Counted
  <1> SUFFICES ASSUME Init PROVE Counted
    OBVIOUS
  <1>1. TypeOK
    BY AdmissionAssumption, States DEF AdmissionAssumption, Init, TypeOK
  <1>2. \A c : CountedBy(c) = {}
    BY Held DEF Init, CountedBy
  <1>3. CountersExact
    BY <1>2, FS_EmptySet DEF Init, CountersExact
  <1> QED BY <1>1, <1>3 DEF Counted

\* The thread part of a call's step.
LEMMA CountedCall ==
  ASSUME Counted, NEW t \in Thread, NEW w \in Workload,
         Enter(t, w) \/ Resume(t) \/ Deadline(t) \/ Leave(t)
  PROVE  /\ thread' \in [Thread -> ThreadState]
         /\ CountersExact' /\ count' \in [Counter -> Nat]
  <1>0. /\ TypeOK /\ CountersExact
        /\ thread \in [Thread -> ThreadState] /\ thread[t] \in ThreadState
    BY DEF Counted, TypeOK
  <1> DEFINE old == thread[t].work
             Moved(f, s, up, down) ==
               /\ f \in [Thread -> ThreadState]
               /\ \A u \in Thread : CountersOf(f[u]) = CountersOf(thread[u])
               /\ s \in ThreadState
               /\ thread' = [f EXCEPT ![t] = s]
               /\ count' = Shifted(up, down)
               /\ up = CountersOf(s) /\ down = CountersOf(thread[t])
               /\ up \cap down = {}
  <1>1. ASSUME NEW f, NEW s, NEW up, NEW down, Moved(f, s, up, down)
        PROVE  /\ thread' \in [Thread -> ThreadState]
               /\ CountersExact' /\ count' \in [Counter -> Nat]
    <2>1. /\ thread' \in [Thread -> ThreadState] /\ thread'[t] = s
          /\ \A u \in Thread \ {t} : thread'[u] = f[u]
      BY <1>1, Replaced
    <2>2. \A u \in Thread \ {t} : CountersOf(thread'[u]) = CountersOf(thread[u])
      BY <1>1, <2>1
    <2>3. CountersExact' /\ count' \in [Counter -> Nat]
      BY <1>0, <1>1, <2>1, <2>2, ShiftedExact
    <2> QED BY <2>1, <2>3
  <1>2. Waiting(t) => /\ old \in Workload
                      /\ CountersOf(thread[t]) = WaitingCounters(old)
    BY <1>0, States, Held DEF Waiting
  <1>3. CASE Enter(t, w)
    <2>1. CountersOf(thread[t]) = {}
      BY <1>3, Held DEF Enter
    <2>2. CASE ~Blocked(w)
      <3>1. Moved(thread, At("active", w), ActiveCounters(w), {})
        BY <1>0, <1>3, <2>1, <2>2, States, Held DEF Enter
      <3> QED BY <1>1, <3>1
    <2>3. CASE Blocked(w)
      <3>1. Moved(thread, At("asleep", w), WaitingCounters(w), {})
        BY <1>0, <1>3, <2>1, <2>3, States, Held DEF Enter
      <3> QED BY <1>1, <3>1
    <2> QED BY <2>2, <2>3
  <1>4. CASE Admit(t)
    <2>1. Moved(thread, At("active", old), ActiveCounters(old), WaitingCounters(old))
      BY <1>0, <1>2, <1>4, States, Held, CountersApart DEF Admit
    <2> QED BY <1>1, <2>1
  <1>5. CASE TurnedAway(t) \/ TimeOut(t)
    <2>1. Moved(thread, Idle, {}, WaitingCounters(old))
      BY <1>0, <1>2, <1>5, States, Held DEF TurnedAway, TimeOut, GiveUp
    <2> QED BY <1>1, <2>1
  <1>6. CASE SleepOn(t)
    <2>1. Waiting(t)
      BY <1>6 DEF SleepOn, Waiting
    <2>2. /\ thread' \in [Thread -> ThreadState]
          /\ thread'[t] = At("asleep", old)
          /\ \A u \in Thread \ {t} : thread'[u] = thread[u]
      BY <1>0, <1>2, <1>6, <2>1, States, Replaced DEF SleepOn
    <2>3. \A u \in Thread : CountersOf(thread'[u]) = CountersOf(thread[u])
      BY <1>2, <2>1, <2>2, Held
    <2>4. count' = count
      BY <1>6 DEF SleepOn
    <2> QED BY <1>0, <2>2, <2>3, <2>4, UnshiftedExact
  <1>7. CASE Leave(t)
    <2>1. CountersOf(thread[t]) = ActiveCounters(old)
      BY <1>0, <1>7, States, Held DEF Leave, Active
    <2>2. Moved(Woken, Idle, {}, ActiveCounters(old))
      BY <1>0, <1>7, <2>1, WokenThreads, States, Held DEF Leave
    <2> QED BY <1>1, <2>2
  <1> QED BY <1>3, <1>4, <1>5, <1>6, <1>7 DEF Resume, Deadline

\* The lifecycle moves no thread, it can only wake sleepers.
LEMMA LifecycleThreads ==
  ASSUME TypeOK, Lifecycle
  PROVE  thread' \in {thread, Woken} /\ count' = count
  BY DEF Lifecycle, StartPool, StartRaises, StartFaces, Fence, EndReplacement,
         HotConfiguration, Close, control

\* The rest of the state keeps its type.
LEMMA ControlTyped ==
  ASSUME TypeOK, Next
  PROVE  /\ accepting' \in BOOLEAN /\ cap' \in 1..MaxCap
         /\ life' \in {"new", "unready", "ready", "closed"}
         /\ held' \in {"nothing", "starting", "replacing"}
         /\ previously' \in BOOLEAN
  <1>1. CASE \E t \in Thread : \/ \E w \in Workload : Enter(t, w)
                               \/ Resume(t) \/ Deadline(t) \/ Leave(t)
    <2>1. UNCHANGED <<accepting, cap, control>>
      BY <1>1 DEF Enter, Resume, Deadline, Leave, Admit, TurnedAway, TimeOut,
                  SleepOn, GiveUp
    <2> QED BY <2>1 DEF TypeOK, control
  <1>2. CASE \E ok \in BOOLEAN : StartPool(ok) \/ StartFaces(ok)
    BY <1>2 DEF StartPool, StartFaces, TypeOK
  <1>3. CASE StartRaises \/ Fence \/ HotConfiguration \/ Close
    BY <1>3 DEF StartRaises, Fence, HotConfiguration, Close, TypeOK, control
  <1>4. CASE \E outcome \in {"replaced", "restored", "partial"} :
               EndReplacement(outcome)
    BY <1>4 DEF EndReplacement, TypeOK
  <1> QED BY <1>1, <1>2, <1>3, <1>4 DEF Next, Lifecycle

\* Every step keeps the counters exact.
LEMMA CountedStep == Counted /\ [Next]_vars => Counted'
  <1> SUFFICES ASSUME Counted, [Next]_vars PROVE Counted'
    OBVIOUS
  <1>0. TypeOK /\ CountersExact
    BY DEF Counted
  <1>1. CASE Next
    <2>1. /\ thread' \in [Thread -> ThreadState]
          /\ CountersExact' /\ count' \in [Counter -> Nat]
      <3>1. CASE \E t \in Thread : \/ \E w \in Workload : Enter(t, w)
                                   \/ Resume(t) \/ Deadline(t) \/ Leave(t)
        <4>1. "offline" \in Workload
          BY DEF Workload
        <4> QED BY <3>1, <4>1, CountedCall
      <3>2. CASE Lifecycle
        <4>1. thread' \in {thread, Woken} /\ count' = count
          BY <1>0, <3>2, LifecycleThreads
        <4>2. /\ thread' \in [Thread -> ThreadState]
              /\ \A u \in Thread : CountersOf(thread'[u]) = CountersOf(thread[u])
          BY <1>0, <4>1, WokenThreads DEF TypeOK
        <4> QED BY <1>0, <4>1, <4>2, UnshiftedExact
      <3> QED BY <1>1, <3>1, <3>2 DEF Next
    <2>2. TypeOK'
      BY <1>0, <1>1, <2>1, ControlTyped DEF TypeOK
    <2> QED BY <2>1, <2>2 DEF Counted
  <1>2. CASE UNCHANGED vars
    <2>1. TypeOK'
      BY <1>0, <1>2 DEF TypeOK, vars, control
    <2>2. \A c : CountedBy(c)' = CountedBy(c)
      BY <1>2 DEF CountedBy, vars
    <2>3. CountersExact'
      BY <1>0, <1>2, <2>2 DEF CountersExact, vars
    <2> QED BY <2>1, <2>3 DEF Counted
  <1> QED BY <1>1, <1>2

\* Every variable keeps its type and every counter of the supervisor is the
\* number of threads it stands for.
THEOREM CountersAreExact == Spec => [](TypeOK /\ CountersExact)
  <1>1. Counted => TypeOK /\ CountersExact
    BY DEF Counted
  <1> QED BY CountedInit, CountedStep, <1>1, PTL DEF Spec

-----------------------------------------------------------------------------
(***************************************************************************)
(* Who runs together.                                                      *)
(***************************************************************************)
Admission(t, w) ==
  /\ ~Blocked(w) /\ ~Active(t)
  /\ thread' = [thread EXCEPT ![t] = At("active", w)]

NobodyStarts ==
  \A u \in Thread : thread'[u].pc = "active" => thread'[u] = thread[u]

\* A step starts one thread that nothing blocks, or none.
LEMMA WhoStarts ==
  ASSUME Counted, [Next]_vars
  PROVE  \/ \E t \in Thread, w \in Workload : Admission(t, w)
         \/ NobodyStarts
  <1>0. /\ TypeOK /\ thread \in [Thread -> ThreadState]
        /\ \A t \in Thread : thread[t] \in ThreadState
    BY DEF Counted, TypeOK
  <1>1. ASSUME NEW t \in Thread, NEW w \in Workload, Enter(t, w)
        PROVE  Admission(t, w) \/ NobodyStarts
    <2>1. CASE ~Blocked(w)
      BY <1>1, <2>1, States DEF Enter, Admission, Active
    <2>2. CASE Blocked(w)
      BY <1>0, <1>1, <2>2, States DEF Enter, NobodyStarts
    <2> QED BY <2>1, <2>2
  <1>2. ASSUME NEW t \in Thread, Resume(t) \/ Deadline(t)
        PROVE  (\E w \in Workload : Admission(t, w)) \/ NobodyStarts
    <2>1. CASE Admit(t)
      <3>1. ~Active(t) /\ thread[t].work \in Workload
        BY <1>0, <2>1, States DEF Admit, Waiting, Active
      <3>2. Admission(t, thread[t].work)
        BY <2>1, <3>1 DEF Admit, Admission
      <3> QED BY <3>1, <3>2
    <2>2. CASE TurnedAway(t) \/ TimeOut(t)
      BY <1>0, <2>2, States DEF TurnedAway, TimeOut, GiveUp, NobodyStarts
    <2>3. CASE SleepOn(t)
      <3>1. thread[t].work \in Workload
        BY <1>0, <2>3, States DEF SleepOn
      <3> QED BY <1>0, <2>3, <3>1, States DEF SleepOn, NobodyStarts
    <2> QED BY <1>2, <2>1, <2>2, <2>3 DEF Resume, Deadline
  <1>3. ASSUME NEW t \in Thread, Leave(t) PROVE NobodyStarts
    <2>1. Woken \in [Thread -> ThreadState]
      BY <1>0, WokenThreads
    <2>2. thread'[t] = Idle /\ \A u \in Thread \ {t} : thread'[u] = Woken[u]
      BY <1>3, <2>1, States, Replaced DEF Leave
    <2> QED BY <1>0, <2>2, WokenThreads, States DEF NobodyStarts
  <1>4. CASE Lifecycle
    BY <1>0, <1>4, LifecycleThreads, WokenThreads DEF NobodyStarts
  <1>5. CASE UNCHANGED vars
    BY <1>5 DEF vars, NobodyStarts
  <1> QED BY <1>1, <1>2, <1>3, <1>4, <1>5 DEF Next

\* What a running or waiting thread counts for.
LEMMA Counts ==
  ASSUME Counted, NEW u \in Thread
  PROVE  /\ Active(u) /\ thread[u].work \in Security
              => count["security_active"] > 0
         /\ Active(u) /\ thread[u].work \notin Security
              => count["optional_active"] > 0
         /\ Active(u) /\ thread[u].work = "offline"
              => count["offline_active"] > 0
         /\ Active(u) /\ thread[u].work = "initial"
              => count["initial_active"] > 0
         /\ Waiting(u) /\ thread[u].work \in Security
              => count["security_waiting"] > 0
         /\ Waiting(u) /\ thread[u].work = "initial"
              => count["initial_waiting"] > 0
  <1>0. TypeOK /\ CountersExact /\ thread[u] \in ThreadState
    BY DEF Counted, TypeOK
  <1>1. \A c \in Counter : c \in CountersOf(thread[u]) => count[c] > 0
    BY <1>0, HeldIsPositive
  <1>2. CASE Active(u)
    <2>1. /\ thread[u].work \in Workload
          /\ CountersOf(thread[u]) = ActiveCounters(thread[u].work)
      BY <1>0, <1>2, States, Held DEF Active
    <2>2. ~Waiting(u)
      BY <1>2 DEF Active, Waiting
    <2> QED BY <1>1, <2>1, <2>2 DEF ActiveCounters, Counter, Security, Workload
  <1>3. CASE Waiting(u)
    <2>1. /\ thread[u].work \in Workload
          /\ CountersOf(thread[u]) = WaitingCounters(thread[u].work)
      BY <1>0, <1>3, States, Held DEF Waiting
    <2>2. ~Active(u)
      BY <1>3 DEF Active, Waiting
    <2> QED BY <1>1, <2>1, <2>2 DEF WaitingCounters, Counter, Security
  <1> QED BY <1>2, <1>3

Exclusive == OfflineIsAlone /\ SecurityApartFromOptional

\* A thread that starts may run with all that run already.
LEMMA ExclusiveStep ==
  ASSUME Counted, Exclusive, [Next]_vars
  PROVE  Exclusive'
  <1> USE DEF Active
  <1>0. thread \in [Thread -> ThreadState]
    BY DEF Counted, TypeOK
  <1>1. CASE NobodyStarts
    BY <1>1 DEF NobodyStarts, Exclusive, OfflineIsAlone, SecurityApartFromOptional
  <1>2. ASSUME NEW t \in Thread, NEW w \in Workload, Admission(t, w)
        PROVE  Exclusive'
    <2>1. /\ thread'[t].pc = "active" /\ thread'[t].work = w
          /\ \A u \in Thread \ {t} : thread'[u] = thread[u]
      BY <1>0, <1>2, States, Replaced DEF Admission
    <2>2. ASSUME NEW u \in Thread, Active(u)
          PROVE  /\ thread[u].work \in Security <=> w \in Security
                 /\ w # "offline" /\ thread[u].work # "offline"
      <3>1. CASE w \in Security
        <4>1. ~BlockedByOptional
          BY <1>2, <3>1 DEF Admission, Blocked, Security
        <4>2. thread[u].work \in Security
          BY <2>2, <4>1, Counts DEF BlockedByOptional
        <4> QED BY <3>1, <4>2 DEF Security
      <3>2. CASE w \notin Security
        <4>1. ~BlockedBySecurity
          BY <1>2, <3>2 DEF Admission, Blocked, Security
        <4>2. thread[u].work \notin Security
          BY <2>2, <4>1, Counts DEF BlockedBySecurity
        <4>3. w # "offline"
          BY <1>2, <2>2, <4>2, Counts DEF Admission, Blocked, BlockedByOptional
        <4>4. ~BlockedByOffline
          BY <1>2, <3>2, <4>3 DEF Admission, Blocked, Security
        <4>5. thread[u].work # "offline"
          BY <2>2, <4>4, Counts DEF BlockedByOffline
        <4> QED BY <3>2, <4>2, <4>3, <4>5
      <3> QED BY <3>1, <3>2
    <2>3. \A u \in Thread : u # t /\ thread'[u].pc = "active" =>
            /\ thread'[u].work \in Security <=> w \in Security
            /\ w # "offline" /\ thread'[u].work # "offline"
      BY <2>1, <2>2
    <2>4. OfflineIsAlone'
      BY <2>1, <2>3 DEF Exclusive, OfflineIsAlone
    <2>5. SecurityApartFromOptional'
      BY <2>1, <2>3 DEF Exclusive, SecurityApartFromOptional
    <2> QED BY <2>4, <2>5 DEF Exclusive
  <1> QED BY <1>1, <1>2, WhoStarts

\* Offline inference runs alone, and security inference never runs with
\* optional inference.
THEOREM ExclusiveCorrect == Spec => [](OfflineIsAlone /\ SecurityApartFromOptional)
  <1> DEFINE Inv == Counted /\ Exclusive
  <1>1. Init => Inv
    <2>1. Init => \A t \in Thread : ~Active(t)
      BY States DEF Init, Active
    <2> QED BY <2>1, CountedInit DEF Exclusive, OfflineIsAlone,
                                    SecurityApartFromOptional
  <1>2. Inv /\ [Next]_vars => Inv'
    BY CountedStep, ExclusiveStep
  <1>3. Inv => OfflineIsAlone /\ SecurityApartFromOptional
    BY DEF Exclusive
  <1> QED BY <1>1, <1>2, <1>3, PTL DEF Spec

\* Optional work never starts while security work waits, nor a refinement
\* while a first look waits or runs.
THEOREM SecurityComesFirst == Spec => SecurityFirst
  <1> DEFINE Overtakes(t, u) ==
               /\ Starts(t)
               /\ \/ /\ thread'[t].work \notin Security
                     /\ Waiting(u) /\ thread[u].work \in Security
                  \/ /\ thread'[t].work = "refinement"
                     /\ Waiting(u) \/ Active(u)
                     /\ thread[u].work = "initial"
  <1>1. ASSUME Counted, [Next]_vars
        PROVE  [\A t, u \in Thread :
                  /\ Starts(t) /\ thread'[t].work \notin Security
                       => ~(Waiting(u) /\ thread[u].work \in Security)
                  /\ Starts(t) /\ thread'[t].work = "refinement"
                       => ~((Waiting(u) \/ Active(u))
                              /\ thread[u].work = "initial")]_vars
    <2> SUFFICES ASSUME NEW t \in Thread, NEW u \in Thread PROVE ~Overtakes(t, u)
      BY Zenon
    <2>0. thread \in [Thread -> ThreadState]
      BY <1>1 DEF Counted, TypeOK
    <2>1. CASE NobodyStarts
      BY <2>1 DEF NobodyStarts, Starts, Active
    <2>2. ASSUME NEW v \in Thread, NEW w \in Workload, Admission(v, w)
          PROVE  ~Overtakes(t, u)
      <3>1. Starts(t) => thread'[t].work = w
        BY <2>0, <2>2, States, Replaced DEF Admission, Starts, Active
      <3>2. w \notin Security => ~(Waiting(u) /\ thread[u].work \in Security)
        BY <1>1, <2>2, Counts DEF Admission, Blocked, BlockedBySecurity, Security
      <3>3. w = "refinement" => ~((Waiting(u) \/ Active(u))
                                    /\ thread[u].work = "initial")
        BY <1>1, <2>2, Counts DEF Admission, Blocked, BlockedByInitial
      <3> QED BY <3>1, <3>2, <3>3
    <2> QED BY <1>1, <2>1, <2>2, WhoStarts
  <1> QED BY <1>1, CountedInit, CountedStep, PTL DEF Spec, SecurityFirst

-----------------------------------------------------------------------------
(***************************************************************************)
(* The cap on refinements.                                                 *)
(***************************************************************************)
Refining == {t \in Thread : Active(t) /\ thread[t].work = "refinement"}

\* refinement_active is the number of refinements that run.
LEMMA RefiningCounted ==
  ASSUME Counted
  PROVE  /\ IsFiniteSet(Refining)
         /\ count["refinement_active"] = Cardinality(Refining)
  <1>1. ASSUME NEW t \in Thread
        PROVE  "refinement_active" \in CountersOf(thread[t])
                 <=> Active(t) /\ thread[t].work = "refinement"
    <2>1. thread[t] \in ThreadState
      BY DEF Counted, TypeOK
    <2> QED BY <2>1 DEF CountersOf, ActiveCounters, WaitingCounters, Active,
                        ThreadState, Idle, Workload, Security
  <1>2. Refining = CountedBy("refinement_active")
    BY <1>1 DEF Refining, CountedBy
  <1> QED BY <1>2, CountedFinite DEF Counted, CountersExact, Counter

\* The refinements that run never exceed the greatest cap.
THEOREM CapRespected == Spec => []RefinementsCapped
  <1> DEFINE Inv == Counted /\ RefinementsCapped
  <1>0. MaxCap \in Nat
    BY AdmissionAssumption DEF AdmissionAssumption
  <1>1. Init => Inv
    <2> SUFFICES ASSUME Init PROVE Inv
      OBVIOUS
    <2>1. Refining = {}
      BY States DEF Init, Refining, Active
    <2>2. RefinementsCapped
      BY <1>0, <2>1, FS_EmptySet DEF RefinementsCapped, Refining
    <2> QED BY <2>2, CountedInit
  <1>2. Inv /\ [Next]_vars => Inv'
    <2> SUFFICES ASSUME Inv, [Next]_vars PROVE Inv'
      OBVIOUS
    <2>0. /\ Counted /\ thread \in [Thread -> ThreadState] /\ cap \in 1..MaxCap
          /\ Cardinality(Refining) <= MaxCap
      BY DEF Counted, TypeOK, RefinementsCapped, Refining
    <2>1. /\ IsFiniteSet(Refining) /\ Cardinality(Refining) \in Nat
          /\ count["refinement_active"] = Cardinality(Refining)
      BY <2>0, RefiningCounted, FS_CardinalityType
    <2>2. Cardinality(Refining') <= MaxCap
      <3>1. ASSUME Refining' \subseteq Refining
            PROVE  Cardinality(Refining') <= MaxCap
        <4>1. /\ Cardinality(Refining') <= Cardinality(Refining)
              /\ Cardinality(Refining') \in Nat
          BY <2>1, <3>1, FS_Subset, FS_CardinalityType
        <4> QED BY <1>0, <2>0, <2>1, <4>1
      <3>2. CASE NobodyStarts
        <4>1. Refining' \subseteq Refining
          BY <3>2 DEF NobodyStarts, Refining, Active
        <4> QED BY <3>1, <4>1
      <3>3. ASSUME NEW t \in Thread, NEW w \in Workload, Admission(t, w)
            PROVE  Cardinality(Refining') <= MaxCap
        <4>1. /\ thread'[t].work = w
              /\ \A u \in Thread \ {t} : thread'[u] = thread[u]
          BY <2>0, <3>3, States, Replaced DEF Admission
        <4>2. CASE w # "refinement"
          <5>1. Refining' \subseteq Refining
            BY <4>1, <4>2 DEF Refining, Active
          <5> QED BY <3>1, <5>1
        <4>3. CASE w = "refinement"
          <5>1. ~AtRefinementCap
            BY <3>3, <4>3 DEF Admission, Blocked
          <5>2. Cardinality(Refining) < MaxCap
            BY <1>0, <2>0, <2>1, <5>1 DEF AtRefinementCap
          <5>3. Refining' \subseteq Refining \cup {t}
            BY <4>1 DEF Refining, Active
          <5>4. /\ IsFiniteSet(Refining \cup {t})
                /\ Cardinality(Refining \cup {t}) <= Cardinality(Refining) + 1
                /\ Cardinality(Refining \cup {t}) \in Nat
            <6>1. /\ IsFiniteSet(Refining \cup {t})
                  /\ Cardinality(Refining \cup {t})
                       = IF t \in Refining THEN Cardinality(Refining)
                                           ELSE Cardinality(Refining) + 1
              BY <2>1, FS_AddElement
            <6> QED BY <2>1, <6>1
          <5>5. /\ Cardinality(Refining') <= Cardinality(Refining \cup {t})
                /\ Cardinality(Refining') \in Nat
            BY <5>3, <5>4, FS_Subset, FS_CardinalityType
          <5> QED BY <1>0, <2>1, <5>2, <5>4, <5>5
        <4> QED BY <4>2, <4>3
      <3> QED BY <2>0, <3>2, <3>3, WhoStarts
    <2>3. Counted'
      BY <2>0, CountedStep
    <2> QED BY <2>2, <2>3 DEF RefinementsCapped, Refining
  <1> QED BY <1>1, <1>2, PTL DEF Spec

-----------------------------------------------------------------------------
(***************************************************************************)
(* No wake-up is lost.                                                     *)
(***************************************************************************)
SomeoneRuns == \E u \in Thread : Active(u)
RunningCounter == {"security_active", "initial_active", "refinement_active",
                   "optional_active", "offline_active"}

\* A positive counter has a thread that holds it; one of the running
\* counters has a thread that runs.
LEMMA PositiveIsHeld ==
  ASSUME Counted, NEW c \in Counter, count[c] > 0
  PROVE  /\ \E u \in Thread : c \in CountersOf(thread[u])
         /\ c \in RunningCounter => SomeoneRuns
  <1>1. Cardinality(CountedBy(c)) # 0
    BY DEF Counted, CountersExact, TypeOK
  <1>2. PICK u \in Thread : c \in CountersOf(thread[u])
    BY <1>1, FS_EmptySet DEF CountedBy
  <1>3. c \in RunningCounter => Active(u)
    BY <1>2 DEF CountersOf, WaitingCounters, RunningCounter, Active
  <1> QED BY <1>2, <1>3 DEF SomeoneRuns

\* While nothing runs, only waiting counters block.
LEMMA BlockedWhenIdle ==
  ASSUME Counted, ~SomeoneRuns, NEW w \in Workload
  PROVE  /\ \A c \in RunningCounter : count[c] = 0
         /\ Blocked(w) <=>
             \/ w = "refinement" /\ count["initial_waiting"] > 0
             \/ w \notin Security /\ count["security_waiting"] > 0
  <1>0. count \in [Counter -> Nat] /\ cap \in 1..MaxCap /\ MaxCap \in Nat
    BY AdmissionAssumption DEF Counted, TypeOK, AdmissionAssumption
  <1>1. \A c \in RunningCounter : count[c] = 0
    BY <1>0, PositiveIsHeld DEF RunningCounter, Counter
  <1>2. /\ count["security_active"] = 0 /\ count["initial_active"] = 0
        /\ count["refinement_active"] = 0 /\ count["optional_active"] = 0
        /\ count["offline_active"] = 0
    BY <1>1 DEF RunningCounter
  <1>3. /\ ~BlockedByOptional /\ ~BlockedByOffline /\ ~AtRefinementCap
        /\ BlockedByInitial <=> count["initial_waiting"] > 0
        /\ BlockedBySecurity <=> count["security_waiting"] > 0
    BY <1>0, <1>2 DEF BlockedByOptional, BlockedByOffline, AtRefinementCap,
                      BlockedByInitial, BlockedBySecurity, Counter
  <1> QED BY <1>1, <1>3 DEF Blocked, Workload, Security

\* Higher counters keep blocking what they blocked.
LEMMA BlockedMonotone ==
  ASSUME Counted, count' \in [Counter -> Nat], cap' = cap, NEW w \in Workload,
         \A c \in Counter : count[c] <= count'[c], Blocked(w)
  PROVE  Blocked(w)'
  <1>0. count \in [Counter -> Nat] /\ cap \in 1..MaxCap /\ MaxCap \in Nat
    BY AdmissionAssumption DEF Counted, TypeOK, AdmissionAssumption
  <1>1. /\ BlockedBySecurity => BlockedBySecurity'
        /\ BlockedByInitial => BlockedByInitial'
    BY <1>0 DEF BlockedBySecurity, BlockedByInitial, Counter
  <1>2. /\ BlockedByOffline => BlockedByOffline'
        /\ BlockedByOptional => BlockedByOptional'
        /\ AtRefinementCap => AtRefinementCap'
    BY <1>0 DEF BlockedByOffline, BlockedByOptional, AtRefinementCap, Counter
  <1> QED BY <1>1, <1>2 DEF Blocked

\* A waiter that times out leaves behind it a thread that runs, or waiters
\* that still block everyone who sleeps.
LEMMA TimeOutBlocks ==
  ASSUME Counted, Counted', NoLostWakeUp, NEW t \in Thread, TimeOut(t),
         NEW u \in Thread, thread'[u].pc = "asleep", ~SomeoneRuns
  PROVE  Blocked(thread[u].work)'
  <1> DEFINE w == thread[t].work
  <1>0. /\ thread \in [Thread -> ThreadState] /\ count \in [Counter -> Nat]
        /\ thread[t] \in ThreadState /\ thread[u] \in ThreadState
    BY DEF Counted, TypeOK
  <1>1. /\ thread'[t] = Idle /\ count' = Shifted({}, WaitingCounters(w))
        /\ \A x \in Thread \ {t} : thread'[x] = thread[x]
    BY <1>0, States, Replaced DEF TimeOut, GiveUp
  <1>2. PICK v \in Workload : v = thread[u].work /\ v = thread'[u].work
    BY <1>0, <1>1, States
  <1>3. w \in Workload /\ Blocked(w) /\ cap' = cap
    BY <1>0, States DEF TimeOut, GiveUp, Waiting
  <1>4. Blocked(v)
    <2>1. thread[u].pc = "asleep"
      BY <1>1, States
    <2> QED BY <1>2, <2>1 DEF NoLostWakeUp, SomeoneRuns
  <1>5. CASE w = "refinement"
    <2>1. count["initial_waiting"] > 0
      BY <1>3, <1>5, BlockedWhenIdle DEF Security
    <2>2. PICK x \in Thread : "initial_waiting" \in CountersOf(thread[x])
      BY <2>1, PositiveIsHeld DEF Counter
    <2>3. Waiting(x) /\ thread[x].work = "initial"
      BY <2>2 DEF CountersOf, WaitingCounters, ActiveCounters, Waiting
    <2>4. thread'[x] = thread[x]
      BY <1>1, <1>5, <2>3
    <2>5. \A c \in {"initial_waiting", "security_waiting"} : x \in CountedBy(c)'
      BY <2>3, <2>4 DEF CountedBy, CountersOf, WaitingCounters, Waiting
    <2>6. \A c \in {"initial_waiting", "security_waiting"} :
            IsFiniteSet(CountedBy(c)')
      <3>1. IsFiniteSet(Thread)
        BY AdmissionAssumption DEF AdmissionAssumption
      <3>2. \A c : CountedBy(c)' \in SUBSET Thread
        BY DEF CountedBy
      <3> QED BY <3>1, <3>2, FS_Subset
    <2>7. \A c \in {"initial_waiting", "security_waiting"} : count'[c] > 0
      <3>1. \A c \in {"initial_waiting", "security_waiting"} :
              Cardinality(CountedBy(c)') # 0
        BY <2>5, <2>6, FS_EmptySet
      <3>2. \A c \in Counter : /\ count'[c] = Cardinality(CountedBy(c)')
                               /\ count'[c] \in Nat
        BY DEF Counted, CountersExact, TypeOK
      <3> QED BY <3>1, <3>2 DEF Counter
    <2>8. v # "initial"
      BY <1>2, <1>4, BlockedWhenIdle DEF Security
    <2>9. Blocked(v)'
      BY <1>2, <2>7, <2>8 DEF Blocked, Security, BlockedByInitial, BlockedBySecurity
    <2> QED BY <1>2, <2>9
  <1>6. CASE w # "refinement"
    <2>1. w \notin Security
      BY <1>3, <1>6, BlockedWhenIdle DEF Security
    <2>2. WaitingCounters(w) = {}
      BY <2>1 DEF WaitingCounters, Security
    <2>3. count' = count
      BY <1>0, <1>1, <2>2 DEF Shifted
    <2>4. Blocked(v)'
      BY <1>3, <1>4, <2>3 DEF Blocked, BlockedBySecurity, BlockedByInitial,
                  BlockedByOffline, BlockedByOptional, AtRefinementCap
    <2> QED BY <1>2, <2>4
  <1> QED BY <1>5, <1>6

SleepsSafely(u) ==
  accepting /\ (Blocked(thread[u].work) \/ \E x \in Thread : Active(x))

\* A thread that slept before the step, and sleeps on, is safe when nothing
\* it depends on got smaller.
LEMMA StillSafe ==
  ASSUME Counted, NoLostWakeUp, NEW u \in Thread, thread[u].pc = "asleep",
         thread'[u] = thread[u], accepting' = accepting,
         \A x \in Thread : Active(x) => thread'[x] = thread[x],
         \/ SomeoneRuns
         \/ cap' = cap /\ count' \in [Counter -> Nat]
              /\ \A c \in Counter : count[c] <= count'[c]
  PROVE  SleepsSafely(u)'
  <1>1. SomeoneRuns => SomeoneRuns'
    BY DEF SomeoneRuns, Active
  <1>2. PICK v \in Workload : v = thread[u].work /\ v = thread'[u].work
    BY States DEF Counted, TypeOK
  <1>3. accepting /\ (Blocked(v) \/ SomeoneRuns)
    BY <1>2 DEF NoLostWakeUp, SomeoneRuns
  <1>4. CASE SomeoneRuns
    BY <1>1, <1>3, <1>4 DEF SleepsSafely, SomeoneRuns
  <1>5. CASE ~SomeoneRuns
    <2>1. Blocked(v)'
      BY <1>3, <1>5, BlockedMonotone
    <2> QED BY <1>2, <1>3, <2>1 DEF SleepsSafely
  <1> QED BY <1>4, <1>5

\* A thread is put to sleep only by what blocks it.
LEMMA FallsAsleepSafely ==
  ASSUME Counted, NEW t \in Thread, NEW w \in Workload, Blocked(w), accepting,
         accepting' = accepting, cap' = cap, thread'[t] = At("asleep", w),
         \/ count' = count
         \/ count' = Shifted(WaitingCounters(w), {})
  PROVE  SleepsSafely(t)'
  <1>1. count \in [Counter -> Nat]
    BY DEF Counted, TypeOK
  <1>2. /\ count' \in [Counter -> Nat]
        /\ \A c \in Counter : count[c] <= count'[c]
    BY <1>1 DEF Shifted
  <1>3. Blocked(w)'
    BY <1>2, BlockedMonotone
  <1>4. thread'[t].work = w
    BY States
  <1> QED BY <1>3, <1>4 DEF SleepsSafely

\* A call's step loses no wake-up.
LEMMA WakeUpCall ==
  ASSUME Counted, Counted', NoLostWakeUp, NEW t \in Thread, NEW w \in Workload,
         Enter(t, w) \/ Resume(t) \/ Deadline(t),
         NEW u \in Thread, thread'[u].pc = "asleep"
  PROVE  SleepsSafely(u)'
  <1>0. /\ thread \in [Thread -> ThreadState] /\ count \in [Counter -> Nat]
        /\ \A x \in Thread : thread[x] \in ThreadState
    BY DEF Counted, TypeOK
  <1>1. /\ accepting' = accepting /\ cap' = cap
        /\ \A x \in Thread \ {t} : thread'[x] = thread[x]
    BY <1>0, Replaced DEF Enter, Resume, Deadline, Admit, TurnedAway, TimeOut,
                          SleepOn, GiveUp
  <1>2. ASSUME thread'[t].pc = "active" PROVE SleepsSafely(u)'
    <2>1. u # t /\ thread[u].pc = "asleep" /\ accepting
      BY <1>1, <1>2 DEF NoLostWakeUp
    <2> QED BY <1>1, <1>2, <2>1 DEF SleepsSafely, Active
  <1>3. ASSUME ~Active(t), u # t,
               \/ SomeoneRuns
               \/ /\ count' \in [Counter -> Nat]
                  /\ \A c \in Counter : count[c] <= count'[c]
        PROVE  SleepsSafely(u)'
    <2>1. thread'[u] = thread[u] /\ thread[u].pc = "asleep"
      BY <1>1, <1>3
    <2>2. \A x \in Thread : Active(x) => thread'[x] = thread[x]
      BY <1>1, <1>3
    <2> QED BY <1>1, <1>3, <2>1, <2>2, StillSafe
  <1>4. CASE Enter(t, w)
    <2>1. CASE ~Blocked(w)
      <3>1. thread'[t].pc = "active"
        BY <1>0, <1>4, <2>1, States, Replaced DEF Enter
      <3> QED BY <1>2, <3>1
    <2>2. CASE Blocked(w)
      <3>1. /\ thread'[t] = At("asleep", w) /\ accepting /\ ~Active(t)
            /\ count' = Shifted(WaitingCounters(w), {})
        BY <1>0, <1>4, <2>2, States, Replaced DEF Enter, Active
      <3>2. CASE u = t
        BY <1>1, <2>2, <3>1, <3>2, FallsAsleepSafely
      <3>3. CASE u # t
        <4>1. /\ count' \in [Counter -> Nat]
              /\ \A c \in Counter : count[c] <= count'[c]
          BY <1>0, <3>1 DEF Shifted
        <4> QED BY <1>3, <3>1, <3>3, <4>1
      <3> QED BY <3>2, <3>3
    <2> QED BY <2>1, <2>2
  <1>5. CASE Admit(t)
    <2>1. thread'[t].pc = "active"
      <3>1. thread[t].work \in Workload
        BY <1>0, <1>5, States DEF Admit, Waiting
      <3> QED BY <1>0, <1>5, <3>1, States, Replaced DEF Admit
    <2> QED BY <1>2, <2>1
  <1>6. CASE TurnedAway(t)
    <2>1. u # t
      BY <1>0, <1>6, States, Replaced DEF TurnedAway, GiveUp
    <2>2. FALSE
      BY <1>1, <1>6, <2>1 DEF TurnedAway, NoLostWakeUp
    <2> QED BY <2>2
  <1>7. CASE TimeOut(t)
    <2>1. u # t /\ ~Active(t)
      BY <1>0, <1>7, States, Replaced DEF TimeOut, GiveUp, Waiting, Active
    <2>2. CASE SomeoneRuns
      BY <1>3, <2>1, <2>2
    <2>3. CASE ~SomeoneRuns
      <3>1. Blocked(thread[u].work)'
        BY <1>7, <2>3, TimeOutBlocks
      <3>2. accepting
        BY <1>7 DEF TimeOut
      <3> QED BY <1>1, <3>1, <3>2 DEF SleepsSafely
    <2> QED BY <2>2, <2>3
  <1>8. CASE SleepOn(t)
    <2>1. PICK v \in Workload : v = thread[t].work
      BY <1>0, <1>8, States DEF SleepOn
    <2>2. /\ thread'[t] = At("asleep", v) /\ accepting /\ Blocked(v)
          /\ ~Active(t) /\ count' = count
      BY <1>0, <1>8, <2>1, States, Replaced DEF SleepOn, Active
    <2>3. CASE u = t
      BY <1>1, <2>2, <2>3, FallsAsleepSafely
    <2>4. CASE u # t
      <3>1. /\ count' \in [Counter -> Nat]
            /\ \A c \in Counter : count[c] <= count'[c]
        BY <1>0, <2>2
      <3> QED BY <1>3, <2>2, <2>4, <3>1
    <2> QED BY <2>3, <2>4
  <1> QED BY <1>4, <1>5, <1>6, <1>7, <1>8 DEF Resume, Deadline

\* A step of the lifecycle that leaves sleepers leaves the fence and the
\* counters alone.
LEMMA WakeUpLifecycle ==
  ASSUME Counted, NoLostWakeUp, Lifecycle,
         NEW u \in Thread, thread'[u].pc = "asleep"
  PROVE  SleepsSafely(u)'
  <1>0. TypeOK /\ count \in [Counter -> Nat]
    BY DEF Counted, TypeOK
  <1>1. thread' # Woken
    BY <1>0, WokenThreads
  <1>2. /\ thread' = thread /\ count' = count /\ accepting' = accepting
        /\ \/ cap' = cap
           \/ HotConfiguration
    BY <1>1 DEF Lifecycle, StartPool, StartRaises, StartFaces, Fence, EndReplacement,
                HotConfiguration, Close, control
  <1>3. PICK v \in Workload : v = thread[u].work /\ v = thread'[u].work
    BY <1>0, <1>2, States DEF TypeOK
  <1>4. CASE SomeoneRuns \/ cap' = cap
    BY <1>0, <1>2, <1>4, StillSafe
  <1>5. CASE ~SomeoneRuns
    <2>1. Blocked(v) /\ accepting
      BY <1>2, <1>3, <1>5 DEF NoLostWakeUp, SomeoneRuns
    <2>2. \/ v = "refinement" /\ count'["initial_waiting"] > 0
          \/ v \notin Security /\ count'["security_waiting"] > 0
      BY <1>2, <1>5, <2>1, BlockedWhenIdle
    <2>3. Blocked(v)'
      BY <1>3, <2>2 DEF Blocked, BlockedByInitial, BlockedBySecurity, Security
    <2> QED BY <1>2, <1>3, <2>1, <2>3 DEF SleepsSafely
  <1> QED BY <1>4, <1>5

\* Threads sleep only while the device accepts work, and only if something
\* blocks them or will wake them.
THEOREM WakeUpsKept == Spec => []NoLostWakeUp
  <1> DEFINE Inv == Counted /\ NoLostWakeUp
  <1>1. Init => Inv
    <2>1. Init => NoLostWakeUp
      BY States DEF Init, NoLostWakeUp
    <2> QED BY <2>1, CountedInit
  <1>2. Inv /\ [Next]_vars => Inv'
    <2> SUFFICES ASSUME Inv, [Next]_vars PROVE Inv'
      OBVIOUS
    <2>1. Counted /\ Counted' /\ NoLostWakeUp
      BY CountedStep
    <2>2. ASSUME NEW u \in Thread, thread'[u].pc = "asleep"
          PROVE  SleepsSafely(u)'
      <3>1. CASE \E t \in Thread : \/ \E w \in Workload : Enter(t, w)
                                   \/ Resume(t) \/ Deadline(t)
        <4>1. "offline" \in Workload
          BY DEF Workload
        <4> QED BY <2>1, <2>2, <3>1, <4>1, WakeUpCall
      <3>2. ASSUME NEW t \in Thread, Leave(t) PROVE FALSE
        <4>1. /\ Woken \in [Thread -> ThreadState]
              /\ \A x \in Thread : Woken[x].pc # "asleep"
          BY <2>1, WokenThreads DEF Counted
        <4> QED BY <2>2, <3>2, <4>1, States, Replaced DEF Leave
      <3>3. CASE Lifecycle
        BY <2>1, <2>2, <3>3, WakeUpLifecycle
      <3>4. CASE UNCHANGED vars
        <4>1. /\ thread' = thread /\ count' = count
              /\ accepting' = accepting /\ cap' = cap
          BY <3>4 DEF vars
        <4>2. count \in [Counter -> Nat]
          BY <2>1 DEF Counted, TypeOK
        <4> QED BY <2>1, <2>2, <4>1, <4>2, StillSafe
      <3> QED BY <3>1, <3>2, <3>3, <3>4 DEF Next
    <2>3. NoLostWakeUp'
      BY <2>2 DEF NoLostWakeUp, SleepsSafely
    <2> QED BY <2>1, <2>3
  <1> QED BY <1>1, <1>2, PTL DEF Spec

=============================================================================
