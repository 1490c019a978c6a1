------------------------ MODULE InferencePool_proofs ------------------------
(***************************************************************************)
(* Theorems of InferencePool, for any number of callers, workers, faults   *)
(* and reconfigurations: a worker never has two processes, one that was    *)
(* stopped is not started again by a request, no wake-up is lost, and no   *)
(* process outside the pool can be asked.                                  *)
(***************************************************************************)
EXTENDS InferencePool, SequenceTheorems, FiniteSetTheorems, TLAPS

\* Every worker has the fields of the class.
Shape ==
  /\ DOMAIN worker = Worker /\ DOMAIN running = Worker
  /\ \A w \in Worker : DOMAIN worker[w] = DOMAIN Fresh

\* A process runs only while the worker holds on to it.
Held ==
  \A w \in Worker : /\ running[w] \in {0, 1}
                    /\ worker[w].handle = "none" => running[w] = 0

Sound(r) == r.running \in {0, 1} /\ (r.handle = "none" => r.running = 0)

LEMMA FreshFields ==
  DOMAIN Fresh = {"open", "active", "queue", "stopping", "handle", "holder"}
  BY DEF Fresh

\* Ending a process, and seeing to it that one runs, keep to that.
LEMMA OutcomesSound ==
  ASSUME Held, NEW w \in Worker, NEW stopping, NEW force,
         NEW r \in End(w) \cup Ensure(w, stopping, force)
  PROVE  Sound(r)
  <1>1. running[w] \in {0, 1} /\ (worker[w].handle = "none" => running[w] = 0)
    BY DEF Held
  <1>2. CASE r \in End(w)
    BY <1>1, <1>2 DEF End, Result, Without, Alive, Sound
  <1>3. CASE r \in Ensure(w, stopping, force) /\ Alive(w)
    BY <1>1, <1>3 DEF Ensure, Result, Alive, Sound
  <1>4. CASE r \in Ensure(w, stopping, force) /\ ~Alive(w)
    <2>1. running[w] = 0
      BY <1>1, <1>4 DEF Alive
    <2>2. r \in {Result(FALSE, "none", running[w], 0)} \cup Spawn(w)
      BY <1>4 DEF Ensure
    <2> QED BY <2>1, <2>2 DEF Spawn, Result, Sound
  <1> QED BY <1>2, <1>3, <1>4

\* A step that changes fields of one worker, whose handle and processes are
\* those of an outcome, keeps both invariants.
LEMMA OutcomeApplied ==
  ASSUME Shape, Held, NEW v, NEW r, Sound(r) \/ v \notin Worker,
         DOMAIN worker' = Worker, running' = [running EXCEPT ![v] = r.running],
         \A w \in Worker : DOMAIN worker'[w] = DOMAIN Fresh,
         \A w \in Worker : worker'[w].handle = IF w = v THEN r.handle ELSE worker[w].handle
  PROVE  Shape' /\ Held'
  BY DEF Shape, Held, Sound

\* A step that starts and ends no process.
LEMMA NothingApplied ==
  ASSUME Shape, Held, UNCHANGED running, DOMAIN worker' = Worker,
         \A w \in Worker : DOMAIN worker'[w] = DOMAIN Fresh,
         \A w \in Worker : worker'[w].handle = worker[w].handle
  PROVE  Shape' /\ Held'
  BY DEF Shape, Held

LEMMA HeldStep ==
  ASSUME Shape, Held, [Next]_vars
  PROVE  Shape' /\ Held'
  <1> USE FreshFields DEF Shape
  <1>1. ASSUME NEW t \in Thread,
               \/ \E work \in Workload : Ask(t, work)
               \/ Probe(t) \/ Route(t)
        PROVE  Shape' /\ Held'
    BY <1>1, NothingApplied DEF Ask, Probe, Route
  <1>2. ASSUME NEW t \in Thread, Visit(t) \/ Resume(t) \/ Deadline(t) \/ TooLate(t)
                                   \/ Answered(t) \/ Leave(t)
        PROVE  Shape' /\ Held'
    <2>1. CASE Visit(t)
      BY <2>1, NothingApplied DEF Visit
    <2>2. CASE Resume(t)
      BY <2>2, NothingApplied DEF Resume, Withdraw
    <2>3. CASE Deadline(t)
      BY <2>3, NothingApplied DEF Deadline, Withdraw
    <2>4. CASE TooLate(t)
      BY <2>4, NothingApplied DEF TooLate
    <2>5. CASE Answered(t)
      BY <2>5, NothingApplied DEF Answered
    <2>6. CASE Leave(t)
      BY <2>6, NothingApplied DEF Leave
    <2> QED BY <1>2, <2>1, <2>2, <2>3, <2>4, <2>5, <2>6
  <1>3. ASSUME NEW t \in Thread, Take(t)
        PROVE  Shape' /\ Held'
    <2>1. PICK r \in Ensure(call[t].at, worker[call[t].at].stopping, FALSE) :
            /\ Apply(call[t].at, r)
            /\ \/ worker' = [worker EXCEPT ![call[t].at] =
                               [Handled(call[t].at, r) EXCEPT !.holder = "request"]]
               \/ worker' = [worker EXCEPT ![call[t].at] = Handled(call[t].at, r)]
      BY <1>3 DEF Take
    <2>2. Sound(r) \/ call[t].at \notin Worker
      BY <2>1, OutcomesSound
    <2>3. /\ DOMAIN worker' = Worker
          /\ \A w \in Worker : DOMAIN worker'[w] = DOMAIN Fresh
          /\ \A w \in Worker : worker'[w].handle =
                                IF w = call[t].at THEN r.handle ELSE worker[w].handle
      <3>1. CASE worker' = [worker EXCEPT ![call[t].at] =
                               [Handled(call[t].at, r) EXCEPT !.holder = "request"]]
        BY <3>1 DEF Handled
      <3>2. CASE worker' = [worker EXCEPT ![call[t].at] = Handled(call[t].at, r)]
        BY <3>2 DEF Handled
      <3> QED BY <2>1, <3>1, <3>2
    <2> QED BY <2>1, <2>2, <2>3, OutcomeApplied DEF Apply
  <1>4. ASSUME NEW t \in Thread, Unanswered(t)
        PROVE  Shape' /\ Held'
    <2>1. PICK r \in End(call[t].at) :
            /\ running' = [running EXCEPT ![call[t].at] = r.running]
            /\ worker' = [worker EXCEPT ![call[t].at] =
                            [Handled(call[t].at, r) EXCEPT !.holder = "free"]]
      <3>1. PICK r \in End(call[t].at) :
              /\ Apply(call[t].at, [r EXCEPT !.cost = @ + IF Alive(call[t].at) THEN 1 ELSE 0])
              /\ worker' = [worker EXCEPT ![call[t].at] =
                              [Handled(call[t].at, r) EXCEPT !.holder = "free"]]
        BY <1>4 DEF Unanswered
      <3>2. DOMAIN r = {"ok", "handle", "running", "cost"}
        BY <3>1 DEF End, Result
      <3> QED BY <3>1, <3>2 DEF Apply
    <2>2. Sound(r) \/ call[t].at \notin Worker
      BY <2>1, OutcomesSound
    <2> QED BY <2>1, <2>2, OutcomeApplied DEF Handled
  <1>5. ASSUME NEW w \in Worker, Exit(w)
        PROVE  Shape' /\ Held'
    BY <1>5 DEF Exit, Held
  <1>6. CASE CloseAdmission \/ OpenAdmission \/ BeginSwap
    BY <1>6, NothingApplied DEF CloseAdmission, OpenAdmission, BeginSwap
  <1>7. CASE StopProcess
    <2>1. PICK r \in End(Target) : Apply(Target, r) /\
            worker' = [worker EXCEPT ![Target] = [Handled(Target, r) EXCEPT !.stopping = TRUE]]
      BY <1>7 DEF StopProcess
    <2>2. Sound(r) \/ Target \notin Worker
      BY <2>1, OutcomesSound
    <2> QED BY <2>1, <2>2, OutcomeApplied DEF Apply, Handled
  <1>8. CASE StartProcess
    <2>1. PICK r \in Ensure(Target, FALSE, TRUE) : Apply(Target, r) /\
            worker' = [worker EXCEPT ![Target] = [Handled(Target, r) EXCEPT !.stopping = FALSE]]
      BY <1>8 DEF StartProcess
    <2>2. Sound(r) \/ Target \notin Worker
      BY <2>1, OutcomesSound
    <2> QED BY <2>1, <2>2, OutcomeApplied DEF Apply, Handled
  <1>9. CASE EndProcess
    <2>1. PICK r \in End(Target) : Apply(Target, r) /\
            \/ worker' = [worker EXCEPT ![Target] = Handled(Target, r)]
            \/ worker' = [worker EXCEPT ![Target] =
                 [Handled(Target, r) EXCEPT !.holder = "free", !.stopping = FALSE]]
      BY <1>9 DEF EndProcess
    <2>2. Sound(r) \/ Target \notin Worker
      BY <2>1, OutcomesSound
    <2>3. /\ DOMAIN worker' = Worker
          /\ \A w \in Worker : DOMAIN worker'[w] = DOMAIN Fresh
          /\ \A w \in Worker : worker'[w].handle =
                                IF w = Target THEN r.handle ELSE worker[w].handle
      <3>1. CASE worker' = [worker EXCEPT ![Target] = Handled(Target, r)]
        BY <3>1 DEF Handled
      <3>2. CASE worker' = [worker EXCEPT ![Target] =
                 [Handled(Target, r) EXCEPT !.holder = "free", !.stopping = FALSE]]
        BY <3>2 DEF Handled
      <3> QED BY <2>1, <3>1, <3>2
    <2> QED BY <2>1, <2>2, <2>3, OutcomeApplied DEF Apply
  <1>10. CASE SpawnNext
    <2>1. PICK r \in Ensure(Target, FALSE, TRUE) : Apply(Target, r) /\
            worker' = [worker EXCEPT ![Target] = [Handled(Target, r) EXCEPT
              !.stopping = FALSE, !.open = r.ok, !.holder = IF r.ok THEN "free" ELSE @]]
      BY <1>10 DEF SpawnNext
    <2>2. Sound(r) \/ Target \notin Worker
      BY <2>1, OutcomesSound
    <2> QED BY <2>1, <2>2, OutcomeApplied DEF Apply, Handled
  <1>11. CASE Revert
    <2>1. PICK r \in End(Target) : Apply(Target, r) /\
            worker' = [worker EXCEPT ![Target] = [Handled(Target, r) EXCEPT
              !.stopping = FALSE, !.holder = IF control.was THEN @ ELSE "free"]]
      BY <1>11 DEF Revert
    <2>2. Sound(r) \/ Target \notin Worker
      BY <2>1, OutcomesSound
    <2> QED BY <2>1, <2>2, OutcomeApplied DEF Apply, Handled
  <1>12. CASE SpawnPrevious
    <2>1. PICK r \in Ensure(Target, FALSE, TRUE) : Apply(Target, r) /\
            worker' = [worker EXCEPT ![Target] =
              [Handled(Target, r) EXCEPT !.open = r.ok, !.holder = "free"]]
      BY <1>12 DEF SpawnPrevious
    <2>2. Sound(r) \/ Target \notin Worker
      BY <2>1, OutcomesSound
    <2> QED BY <2>1, <2>2, OutcomeApplied DEF Apply, Handled
  <1>13. CASE BuildReplacements
    <2>0. PICK n : \E s \in [1..n -> Unused] :
            worker' = [w \in Worker |-> IF w \in Elements(s) THEN Fresh ELSE worker[w]]
      BY <1>13 DEF BuildReplacements
    <2>1. PICK s \in [1..n -> Unused] :
            worker' = [w \in Worker |-> IF w \in Elements(s) THEN Fresh ELSE worker[w]]
      BY <2>0
    <2>4. Elements(s) \subseteq Unused
      BY <2>1 DEF Elements
    <2>2. \A w \in Unused : running[w] = 0
      BY DEF Unused
    <2>3. UNCHANGED running
      BY <1>13 DEF BuildReplacements
    <2> QED BY <2>1, <2>2, <2>3, <2>4 DEF Held, Fresh
  <1>14. CASE AdoptReplacements \/ RestorePool \/ EndReplacement \/ EndStart \/ EndStop
    BY <1>14, NothingApplied
    DEF AdoptReplacements, RestorePool, EndReplacement, EndStart, EndStop
  <1>15. CASE StartPool \/ StopPool \/ Reconfigure("replace") \/ Reconfigure("retire")
    BY <1>15, NothingApplied DEF StartPool, StopPool, Reconfigure
  <1>16. CASE UNCHANGED vars
    BY <1>16, NothingApplied DEF vars
  <1> QED
    BY <1>1, <1>2, <1>3, <1>4, <1>5, <1>6, <1>7, <1>8, <1>9, <1>10, <1>11, <1>12,
       <1>13, <1>14, <1>15, <1>16 DEF Next, Calls, OnWorker, OnPool

\* A worker never has two processes at once (_spawn_worker_locked is reached
\* only when the process the worker holds on to is gone).
THEOREM NeverTwoProcesses == Spec => []OneProcess
  <1>1. Init => Shape /\ Held
    BY FreshFields DEF Init, Shape, Held, Fresh
  <1>2. Shape /\ Held /\ [Next]_vars => Shape' /\ Held'
    BY HeldStep
  <1>3. Shape /\ Held => OneProcess
    BY DEF Held, OneProcess
  <1> QED BY <1>1, <1>2, <1>3, PTL DEF Spec

-----------------------------------------------------------------------------
(***************************************************************************)
(* stop is final: an admitted request that outlives it starts nothing.     *)
(***************************************************************************)

\* While the previous process of a worker is started again, the worker is no
\* longer stopping.
Restoring ==
  /\ DOMAIN control = DOMAIN Resting
  /\ control.at = "restoring" =>
       /\ control.job \in Swaps /\ control.todo # <<>>
       /\ Target \in Worker => ~worker[Target].stopping

LEMMA ControlFields ==
  DOMAIN Resting = {"job", "todo", "done", "fresh", "at", "outcome", "bad", "resume", "was"}
  BY DEF Resting

\* Whatever an operation leads to, the next one begins at its beginning.
LEMMA OnwardFromTheStart ==
  ASSUME Restoring, NEW outcome
  PROVE  DOMAIN Onward(outcome) = DOMAIN Resting /\ Onward(outcome).at = "next"
  BY ControlFields DEF Restoring, Onward

\* What stop and the end of a request leave cannot be asked; a worker that is
\* stopping gets no process that can.
LEMMA NothingToAsk ==
  ASSUME StoppedStaysDown, NEW w \in Worker, NEW r,
         r \in End(w) \/ (worker[w].stopping /\ r \in Ensure(w, worker[w].stopping, FALSE))
  PROVE  r.handle # "pipe"
  <1>1. CASE r \in End(w)
    BY <1>1 DEF End, Result
  <1>2. CASE worker[w].stopping /\ r \in Ensure(w, worker[w].stopping, FALSE)
    BY <1>2 DEF Ensure, Result, StoppedStaysDown
  <1> QED BY <1>1, <1>2

LEMMA StoppedStep ==
  ASSUME Shape, Restoring, StoppedStaysDown, [Next]_vars
  PROVE  Restoring' /\ StoppedStaysDown'
  <1> USE FreshFields, ControlFields DEF Shape
  <1>1. ASSUME NEW t \in Thread,
               \/ \E work \in Workload : Ask(t, work)
               \/ Probe(t) \/ Route(t) \/ Visit(t) \/ Resume(t) \/ Deadline(t)
               \/ TooLate(t) \/ Answered(t) \/ Leave(t)
        PROVE  Restoring' /\ StoppedStaysDown'
    <2>1. /\ UNCHANGED control
          /\ \A w \in Worker : /\ worker'[w].handle = worker[w].handle
                                /\ worker'[w].stopping = worker[w].stopping
      <3>1. CASE Visit(t)
        BY <3>1 DEF Visit
      <3>2. CASE Resume(t)
        BY <3>2 DEF Resume, Withdraw
      <3>3. CASE Deadline(t)
        BY <3>3 DEF Deadline, Withdraw
      <3>4. CASE Answered(t)
        BY <3>4 DEF Answered
      <3>5. CASE Leave(t)
        BY <3>5 DEF Leave
      <3>6. CASE TooLate(t) \/ Probe(t) \/ Route(t) \/ \E work \in Workload : Ask(t, work)
        BY <3>6 DEF TooLate, Probe, Route, Ask
      <3> QED BY <1>1, <3>1, <3>2, <3>3, <3>4, <3>5, <3>6
    <2> QED BY <2>1 DEF Restoring, StoppedStaysDown, Target
  <1>2. ASSUME NEW t \in Thread, Take(t)
        PROVE  Restoring' /\ StoppedStaysDown'
    <2>1. PICK r \in Ensure(call[t].at, worker[call[t].at].stopping, FALSE) :
            \/ worker' = [worker EXCEPT ![call[t].at] =
                            [Handled(call[t].at, r) EXCEPT !.holder = "request"]]
            \/ worker' = [worker EXCEPT ![call[t].at] = Handled(call[t].at, r)]
      BY <1>2 DEF Take
    <2>2. \A w \in Worker : /\ worker'[w].stopping = worker[w].stopping
                            /\ w # call[t].at => worker'[w].handle = worker[w].handle
                            /\ w = call[t].at => worker'[w].handle = r.handle
      <3>1. CASE worker' = [worker EXCEPT ![call[t].at] =
                              [Handled(call[t].at, r) EXCEPT !.holder = "request"]]
        BY <3>1 DEF Handled
      <3>2. CASE worker' = [worker EXCEPT ![call[t].at] = Handled(call[t].at, r)]
        BY <3>2 DEF Handled
      <3> QED BY <2>1, <3>1, <3>2
    <2>3. call[t].at \in Worker /\ worker[call[t].at].stopping => r.handle # "pipe"
      BY <2>1, NothingToAsk
    <2>4. UNCHANGED control
      BY <1>2 DEF Take
    <2> QED BY <2>2, <2>3, <2>4 DEF Restoring, StoppedStaysDown, Target
  <1>3. ASSUME NEW t \in Thread, Unanswered(t)
        PROVE  Restoring' /\ StoppedStaysDown'
    <2>1. PICK r \in End(call[t].at) :
            worker' = [worker EXCEPT ![call[t].at] =
                         [Handled(call[t].at, r) EXCEPT !.holder = "free"]]
      BY <1>3 DEF Unanswered
    <2>2. call[t].at \in Worker => r.handle # "pipe"
      BY <2>1, NothingToAsk
    <2>3. UNCHANGED control
      BY <1>3 DEF Unanswered
    <2> QED BY <2>1, <2>2, <2>3 DEF Handled, Restoring, StoppedStaysDown, Target
  <1>4. CASE CloseAdmission \/ BeginSwap
    <2>1. \A w \in Worker : /\ worker'[w].handle = worker[w].handle
                            /\ worker'[w].stopping = worker[w].stopping
      BY <1>4 DEF CloseAdmission, BeginSwap
    <2>2. DOMAIN control' = DOMAIN Resting /\ control'.at # "restoring"
      BY <1>4 DEF CloseAdmission, BeginSwap, Restoring
    <2> QED BY <2>1, <2>2 DEF Restoring, StoppedStaysDown
  <1>5. CASE OpenAdmission
    <2>1. \A w \in Worker : /\ worker'[w].handle = worker[w].handle
                            /\ worker'[w].stopping = worker[w].stopping
      BY <1>5 DEF OpenAdmission
    <2>2. DOMAIN control' = DOMAIN Resting /\ control'.at # "restoring"
      BY <1>5, OnwardFromTheStart DEF OpenAdmission
    <2> QED BY <2>1, <2>2 DEF Restoring, StoppedStaysDown
  <1>6. CASE StopProcess
    <2>1. PICK r \in End(Target) :
            /\ worker' = [worker EXCEPT ![Target] = [Handled(Target, r) EXCEPT !.stopping = TRUE]]
            /\ control' = Onward(Verdict(r.ok))
      BY <1>6 DEF StopProcess
    <2>2. Target \in Worker => r.handle # "pipe"
      BY <2>1, NothingToAsk
    <2>3. DOMAIN control' = DOMAIN Resting /\ control'.at # "restoring"
      BY <2>1, OnwardFromTheStart
    <2> QED BY <2>1, <2>2, <2>3 DEF Handled, Restoring, StoppedStaysDown
  <1>7. CASE StartProcess
    <2>1. PICK r :
            worker' = [worker EXCEPT ![Target] = [Handled(Target, r) EXCEPT !.stopping = FALSE]]
      BY <1>7 DEF StartProcess
    <2>2. DOMAIN control' = DOMAIN Resting /\ control'.at # "restoring"
      BY <1>7 DEF StartProcess, Restoring
    <2> QED BY <2>1, <2>2 DEF Handled, Restoring, StoppedStaysDown
  <1>8. CASE EndProcess
    <2>1. PICK r \in End(Target) :
            \/ /\ worker' = [worker EXCEPT ![Target] = Handled(Target, r)]
               /\ control' = [control EXCEPT !.at = "spawning"]
            \/ /\ worker' = [worker EXCEPT ![Target] =
                    [Handled(Target, r) EXCEPT !.holder = "free", !.stopping = FALSE]]
               /\ control' = Onward("failed")
      BY <1>8 DEF EndProcess
    <2>2. Target \in Worker => r.handle # "pipe"
      BY <2>1, NothingToAsk
    <2>3. CASE /\ worker' = [worker EXCEPT ![Target] = Handled(Target, r)]
               /\ control' = [control EXCEPT !.at = "spawning"]
      BY <2>2, <2>3 DEF Handled, Restoring, StoppedStaysDown
    <2>4. CASE /\ worker' = [worker EXCEPT ![Target] =
                    [Handled(Target, r) EXCEPT !.holder = "free", !.stopping = FALSE]]
               /\ control' = Onward("failed")
      BY <2>4, OnwardFromTheStart DEF Handled, Restoring, StoppedStaysDown
    <2> QED BY <2>1, <2>3, <2>4
  <1>9. CASE SpawnNext
    <2>1. PICK r :
            /\ worker' = [worker EXCEPT ![Target] = [Handled(Target, r) EXCEPT
                 !.stopping = FALSE, !.open = r.ok, !.holder = IF r.ok THEN "free" ELSE @]]
            /\ control' = IF r.ok THEN Onward("ok") ELSE [control EXCEPT !.at = "reverting"]
      BY <1>9 DEF SpawnNext
    <2>2. DOMAIN control' = DOMAIN Resting /\ control'.at # "restoring"
      BY <2>1, OnwardFromTheStart DEF Restoring
    <2> QED BY <2>1, <2>2 DEF Handled, Restoring, StoppedStaysDown
  <1>10. CASE Revert
    <2>1. PICK r :
            /\ worker' = [worker EXCEPT ![Target] = [Handled(Target, r) EXCEPT
                 !.stopping = FALSE, !.holder = IF control.was THEN @ ELSE "free"]]
            /\ control' = IF control.was
                 THEN [control EXCEPT !.at = "restoring", !.outcome =
                         IF r.ok THEN "failed" ELSE "partial"]
                 ELSE Onward(IF r.ok THEN "failed" ELSE "partial")
      BY <1>10 DEF Revert
    <2>2. DOMAIN control' = DOMAIN Resting
      BY <2>1, OnwardFromTheStart DEF Restoring
    <2>3. control'.at = "restoring" =>
            Target' = Target /\ control'.job = control.job /\ control'.todo = control.todo
      <3>1. CASE control.was
        BY <2>1, <3>1 DEF Restoring, Target
      <3>2. CASE ~control.was
        BY <2>1, <3>2, OnwardFromTheStart
      <3> QED BY <3>1, <3>2
    <2>4. \A w \in Worker : /\ w = Target => ~worker'[w].stopping
                            /\ w # Target => worker'[w] = worker[w]
      BY <2>1 DEF Handled
    <2>5. control.job \in Swaps /\ control.todo # <<>>
      BY <1>10 DEF Revert, Busy
    <2>6. StoppedStaysDown'
      BY <2>4 DEF StoppedStaysDown
    <2> QED BY <2>2, <2>3, <2>4, <2>5, <2>6 DEF Restoring, Swaps
  <1>11. CASE SpawnPrevious
    <2>1. PICK r :
            /\ worker' = [worker EXCEPT ![Target] =
                 [Handled(Target, r) EXCEPT !.open = r.ok, !.holder = "free"]]
            /\ control' = Onward(IF r.ok THEN control.outcome ELSE "partial")
      BY <1>11 DEF SpawnPrevious
    <2>2. DOMAIN control' = DOMAIN Resting /\ control'.at # "restoring"
      BY <2>1, OnwardFromTheStart
    <2>3. Target \in Worker => ~worker[Target].stopping
      BY <1>11 DEF SpawnPrevious, Busy, Restoring
    <2> QED BY <2>1, <2>2, <2>3 DEF Handled, Restoring, StoppedStaysDown
  <1>12. CASE BuildReplacements
    <2>1. PICK s : worker' = [w \in Worker |-> IF w \in Elements(s) THEN Fresh ELSE worker[w]]
      BY <1>12 DEF BuildReplacements
    <2>2. PICK u : control' = [control EXCEPT !.job = "launch", !.todo = u, !.fresh = u]
      BY <1>12 DEF BuildReplacements
    <2>3. control.at # "restoring"
      BY <1>12 DEF BuildReplacements, Finished, Restoring
    <2> QED BY <2>1, <2>2, <2>3 DEF Fresh, Restoring, StoppedStaysDown
  <1>13. CASE AdoptReplacements \/ EndReplacement \/ EndStart \/ EndStop
    <2>1. UNCHANGED worker /\ control' = Resting
      BY <1>13 DEF AdoptReplacements, EndReplacement, EndStart, EndStop
    <2> QED BY <2>1 DEF Resting, Restoring, StoppedStaysDown
  <1>14. CASE RestorePool
    <2>1. UNCHANGED worker /\ control' = [control EXCEPT !.job = "restore", !.todo = pool]
      BY <1>14 DEF RestorePool
    <2>2. control.at # "restoring"
      BY <1>14 DEF RestorePool, Finished, Restoring
    <2> QED BY <2>1, <2>2 DEF Restoring, StoppedStaysDown
  <1>15. CASE StartPool \/ StopPool \/ Reconfigure("replace") \/ Reconfigure("retire")
    <2>1. UNCHANGED worker /\ DOMAIN control' = DOMAIN Resting /\ control'.at = "next"
      BY <1>15 DEF StartPool, StopPool, Reconfigure, Begin, Resting
    <2> QED BY <2>1 DEF Restoring, StoppedStaysDown
  <1>16. ASSUME NEW w \in Worker, Exit(w)
         PROVE  Restoring' /\ StoppedStaysDown'
    BY <1>16 DEF Exit, Restoring, StoppedStaysDown, Target
  <1>17. CASE UNCHANGED vars
    BY <1>17 DEF vars, Restoring, StoppedStaysDown, Target
  <1> QED
    BY <1>1, <1>2, <1>3, <1>4, <1>5, <1>6, <1>7, <1>8, <1>9, <1>10, <1>11, <1>12,
       <1>13, <1>14, <1>15, <1>16, <1>17 DEF Next, Calls, OnWorker, OnPool

\* stop is final until start or reconfigure, whatever requests were admitted
\* before it and whatever fails.
THEOREM StopIsFinal == Spec => []StoppedStaysDown
  <1>1. Init => Shape /\ Held /\ Restoring /\ StoppedStaysDown
    BY FreshFields, ControlFields
    DEF Init, Shape, Held, Fresh, Resting, Restoring, StoppedStaysDown
  <1>2. Shape /\ Held /\ Restoring /\ StoppedStaysDown /\ [Next]_vars
          => Shape' /\ Held' /\ Restoring' /\ StoppedStaysDown'
    BY HeldStep, StoppedStep
  <1> QED BY <1>1, <1>2, PTL DEF Spec

-----------------------------------------------------------------------------
(***************************************************************************)
(* What the sequences of the model hold: pools, tasks, routes and queues.  *)
(***************************************************************************)
LEMMA Ends ==
  ASSUME NEW S, NEW s \in Seq(S), s # <<>>
  PROVE  /\ Head(s) \in S /\ Tail(s) \in Seq(S)
         /\ Elements(s) = {Head(s)} \cup Elements(Tail(s))
  <1>1. Len(s) \in Nat \ {0} /\ DOMAIN s = 1..Len(s) /\ Head(s) = s[1]
    OBVIOUS
  <1>2. /\ Tail(s) \in Seq(S) /\ DOMAIN Tail(s) = 1..(Len(s) - 1)
        /\ \A i \in 1..(Len(s) - 1) : Tail(s)[i] = s[i + 1]
    BY <1>1, HeadTailProperties
  <1>3. \A i \in 1..Len(s) : i = 1 \/ i - 1 \in 1..(Len(s) - 1)
    BY <1>1
  <1>4. \A i \in 2..Len(s) : s[i] = Tail(s)[i - 1]
    BY <1>1, <1>2
  <1>5. Elements(s) \subseteq {Head(s)} \cup Elements(Tail(s))
    <2>1. SUFFICES ASSUME NEW i \in 1..Len(s) PROVE s[i] \in {Head(s)} \cup Elements(Tail(s))
      BY <1>1 DEF Elements
    <2>2. CASE i = 1
      BY <1>1, <2>2
    <2>3. CASE i # 1
      <3>1. i - 1 \in DOMAIN Tail(s) /\ s[i] = Tail(s)[i - 1]
        BY <1>1, <1>2, <1>3, <1>4, <2>3
      <3> QED BY <3>1 DEF Elements
    <2> QED BY <2>2, <2>3
  <1>6. {Head(s)} \cup Elements(Tail(s)) \subseteq Elements(s)
    BY <1>1, <1>2 DEF Elements
  <1> QED BY <1>1, <1>2, <1>5, <1>6

LEMMA Within ==
  ASSUME NEW S, NEW s \in Seq(S)
  PROVE  Elements(s) \subseteq S /\ (Elements(s) = {} <=> s = <<>>)
  BY DEF Elements

LEMMA Reversed ==
  ASSUME NEW S, NEW s \in Seq(S)
  PROVE  Reverse(s) \in Seq(S) /\ Elements(Reverse(s)) = Elements(s)
  <1>1. /\ Len(s) \in Nat /\ DOMAIN s = 1..Len(s) /\ DOMAIN Reverse(s) = 1..Len(s)
        /\ \A i \in 1..Len(s) : /\ s[i] \in S /\ Len(s) - i + 1 \in 1..Len(s)
                                /\ Reverse(s)[i] = s[Len(s) - i + 1]
                                /\ Reverse(s)[Len(s) - i + 1] = s[i]
    BY DEF Reverse
  <1>2. Reverse(s) \in [1..Len(s) -> S]
    BY <1>1 DEF Reverse
  <1>3. Elements(Reverse(s)) \subseteq Elements(s)
    BY <1>1 DEF Elements
  <1>4. Elements(s) \subseteq Elements(Reverse(s))
    BY <1>1 DEF Elements
  <1> QED BY <1>1, <1>2, <1>3, <1>4, SeqDef

LEMMA PutFirst ==
  ASSUME NEW S, NEW s \in Seq(S), NEW e \in S
  PROVE  <<e>> \o s \in Seq(S) /\ Elements(<<e>> \o s) = {e} \cup Elements(s)
  <1>1. /\ Len(s) \in Nat /\ DOMAIN s = 1..Len(s) /\ <<e>> \o s \in Seq(S)
        /\ DOMAIN (<<e>> \o s) = 1..(Len(s) + 1) /\ (<<e>> \o s)[1] = e
        /\ \A i \in 1..Len(s) : (<<e>> \o s)[i + 1] = s[i] /\ i + 1 \in 1..(Len(s) + 1)
    OBVIOUS
  <1>2. \A i \in 1..(Len(s) + 1) : i = 1 \/ (i - 1 \in 1..Len(s) /\ (<<e>> \o s)[i] = s[i - 1])
    BY <1>1
  <1>3. Elements(<<e>> \o s) \subseteq {e} \cup Elements(s)
    BY <1>1, <1>2 DEF Elements
  <1>4. {e} \cup Elements(s) \subseteq Elements(<<e>> \o s)
    <2>1. e \in Elements(<<e>> \o s)
      BY <1>1 DEF Elements
    <2>2. ASSUME NEW i \in 1..Len(s) PROVE s[i] \in Elements(<<e>> \o s)
      <3>1. i + 1 \in DOMAIN (<<e>> \o s) /\ (<<e>> \o s)[i + 1] = s[i]
        BY <1>1
      <3> QED BY <3>1 DEF Elements
    <2> QED BY <1>1, <2>1, <2>2 DEF Elements
  <1> QED BY <1>1, <1>3, <1>4

\* A tail has the elements of its sequence but the first, if none is twice.
LEMMA WithoutFirst ==
  ASSUME NEW S, NEW s \in Seq(S), s # <<>>, IsInjective(s)
  PROVE  IsInjective(Tail(s)) /\ Elements(Tail(s)) = Elements(s) \ {Head(s)}
  <1>1. /\ Len(s) \in Nat \ {0} /\ DOMAIN s = 1..Len(s) /\ Head(s) = s[1]
        /\ Tail(s) \in Seq(S) /\ DOMAIN Tail(s) = 1..(Len(s) - 1)
        /\ \A i \in 1..(Len(s) - 1) : Tail(s)[i] = s[i + 1]
    BY HeadTailProperties
  <1>2. IsInjective(Tail(s))
    BY <1>1 DEF IsInjective
  <1>3. Head(s) \notin Elements(Tail(s))
    BY <1>1 DEF IsInjective, Elements
  <1> QED BY <1>2, <1>3, Ends

\* Inserting adds one element, and changes the head only to that element.
LEMMA Inserted ==
  ASSUME NEW S, NEW s \in Seq(S), NEW e \in S, NEW i \in 1..(Len(s) + 1)
  PROVE  /\ InsertAt(s, i, e) \in Seq(S) /\ InsertAt(s, i, e) # <<>>
         /\ Elements(InsertAt(s, i, e)) = {e} \cup Elements(s)
         /\ IsInjective(s) /\ e \notin Elements(s) => IsInjective(InsertAt(s, i, e))
         /\ Head(InsertAt(s, i, e)) # e => s # <<>> /\ Head(InsertAt(s, i, e)) = Head(s)
  <1> DEFINE q == InsertAt(s, i, e)
  <1>1. /\ Len(s) \in Nat /\ DOMAIN s = 1..Len(s) /\ \A j \in 1..Len(s) : s[j] \in S
    OBVIOUS
  <1>2. /\ q \in Seq(S) /\ Len(q) = Len(s) + 1
        /\ \A j \in 1..(Len(s) + 1) : q[j] = IF j < i THEN s[j] ELSE IF j = i THEN e ELSE s[j - 1]
    <2> DEFINE low == SubSeq(s, 1, i - 1)
               high == SubSeq(s, i, Len(s))
    <2>1. /\ low \in Seq(S) /\ Len(low) = i - 1
          /\ \A j \in 1..(i - 1) : low[j] = s[j]
      BY <1>1, SubSeqProperties
    <2>2. /\ high \in Seq(S) /\ Len(high) = Len(s) - i + 1
          /\ \A j \in 1..(Len(s) - i + 1) : high[j] = s[i + j - 1]
      BY <1>1, SubSeqProperties
    <2>3. q = (low \o <<e>>) \o high
      BY DEF InsertAt
    <2> HIDE DEF low, high
    <2>4. /\ low \o <<e>> \in Seq(S) /\ Len(low \o <<e>>) = i
          /\ \A j \in 1..i : (low \o <<e>>)[j] = IF j < i THEN s[j] ELSE e
      BY <2>1
    <2> HIDE DEF q
    <2>5. q \in Seq(S) /\ Len(q) = Len(s) + 1
      <3>1. q \in Seq(S) /\ Len(q) = Len(low \o <<e>>) + Len(high)
        BY <2>2, <2>3, <2>4, ConcatProperties
      <3>2. Len(q) = i + (Len(s) - i + 1)
        BY <2>2, <2>4, <3>1
      <3>3. i + (Len(s) - i + 1) = Len(s) + 1
        BY <1>1
      <3> QED BY <3>1, <3>2, <3>3
    <2>6. \A j \in 1..(Len(s) + 1) : q[j] = IF j <= i THEN (low \o <<e>>)[j] ELSE high[j - i]
      BY <1>1, <2>2, <2>3, <2>4, ConcatProperties
    <2>7. ASSUME NEW j \in 1..(Len(s) + 1), j > i PROVE high[j - i] = s[j - 1]
      <3>1. j - i \in 1..(Len(s) - i + 1) /\ i + (j - i) - 1 = j - 1
        BY <1>1, <2>7
      <3> QED BY <2>2, <3>1
    <2> QED BY <1>1, <2>4, <2>5, <2>6, <2>7
  <1> HIDE DEF q
  <1>3. DOMAIN q = 1..(Len(s) + 1) /\ q # <<>> /\ Head(q) = q[1]
    BY <1>1, <1>2
  <1>4. Elements(q) \subseteq {e} \cup Elements(s)
    BY <1>1, <1>2, <1>3 DEF Elements
  <1>5. \A j \in 1..Len(s) : q[IF j < i THEN j ELSE j + 1] = s[j] /\ (IF j < i THEN j ELSE j + 1) \in 1..(Len(s) + 1)
    BY <1>1, <1>2
  <1>6. q[i] = e /\ i \in DOMAIN q
    BY <1>1, <1>2, <1>3
  <1>7. {e} \cup Elements(s) \subseteq Elements(q)
    BY <1>1, <1>3, <1>5, <1>6 DEF Elements
  <1>8. ASSUME IsInjective(s), e \notin Elements(s) PROVE IsInjective(q)
    <2>1. \A j \in 1..Len(s) : s[j] # e
      BY <1>1, <1>8 DEF Elements
    <2>2. \A j, k \in 1..Len(s) : s[j] = s[k] => j = k
      BY <1>1, <1>8 DEF IsInjective
    <2>3. ASSUME NEW j \in 1..(Len(s) + 1), NEW k \in 1..(Len(s) + 1), j < k
          PROVE  q[j] # q[k]
      <3>1. /\ j \in 1..Len(s) /\ k - 1 \in 1..Len(s) /\ (k < i => k \in 1..Len(s))
            /\ (j > i => j - 1 \in 1..Len(s))
        BY <1>1, <2>3
      <3>2. /\ q[j] = IF j < i THEN s[j] ELSE IF j = i THEN e ELSE s[j - 1]
            /\ q[k] = IF k < i THEN s[k] ELSE IF k = i THEN e ELSE s[k - 1]
        BY <1>2
      <3> QED BY <1>1, <2>1, <2>2, <2>3, <3>1, <3>2
    <2> QED BY <1>1, <1>3, <2>3 DEF IsInjective
  <1>9. Head(q) # e => s # <<>> /\ Head(q) = Head(s)
    BY <1>1, <1>2, <1>3
  <1> QED BY <1>2, <1>3, <1>4, <1>7, <1>8, <1>9 DEF q

\* A waiter takes itself out of a queue it stands in once.
LEMMA TakenOut ==
  ASSUME NEW S, NEW s \in Seq(S), NEW e \in Elements(s), IsInjective(s)
  PROVE  /\ RemoveFirst(s, e) \in Seq(S) /\ IsInjective(RemoveFirst(s, e))
         /\ Elements(RemoveFirst(s, e)) = Elements(s) \ {e}
  <1>1. /\ Len(s) \in Nat /\ DOMAIN s = 1..Len(s) /\ \A j \in 1..Len(s) : s[j] \in S
    OBVIOUS
  <1>2. PICK i \in 1..Len(s) : s[i] = e
    BY <1>1 DEF Elements
  <1>3. SelectInSeq(s, LAMBDA v : v = e) = i
    <2>1. {j \in 1..Len(s) : s[j] = e} = {i}
      BY <1>1, <1>2 DEF IsInjective
    <2>2. Min({i}) = i
      BY <1>1 DEF Min
    <2> QED BY <2>1, <2>2 DEF SelectInSeq
  <1> DEFINE q == RemoveFirst(s, e)
  <1>4. /\ q \in Seq(S) /\ Len(q) = Len(s) - 1
        /\ \A j \in 1..(Len(s) - 1) : q[j] = IF j < i THEN s[j] ELSE s[j + 1]
    <2> DEFINE low == SubSeq(s, 1, i - 1)
               high == SubSeq(s, i + 1, Len(s))
    <2>1. /\ low \in Seq(S) /\ Len(low) = i - 1
          /\ \A j \in 1..(i - 1) : low[j] = s[j]
      BY <1>1, SubSeqProperties
    <2>2. /\ high \in Seq(S) /\ Len(high) = Len(s) - i
          /\ \A j \in 1..(Len(s) - i) : high[j] = s[i + j]
      <3> DEFINE k == i + 1
      <3>1. k \in 2..(Len(s) + 1)
        BY <1>1, <1>2
      <3>2. high = SubSeq(s, k, Len(s))
        OBVIOUS
      <3> HIDE DEF k, high
      <3>3. /\ high \in Seq(S) /\ Len(high) = Len(s) - k + 1
            /\ \A j \in 1..(Len(s) - k + 1) : high[j] = s[k + j - 1]
        BY <1>1, <3>1, <3>2, SubSeqProperties
      <3>4. Len(s) - k + 1 = Len(s) - i /\ \A j \in Nat : k + j - 1 = i + j
        BY <1>1, <1>2 DEF k
      <3>5. ASSUME NEW j \in 1..(Len(s) - i) PROVE high[j] = s[i + j]
        BY <3>3, <3>4
      <3> QED BY <3>3, <3>4, <3>5
    <2>3. q = low \o high
      <3>1. \E j \in 1..Len(s) : s[j] = e
        BY <1>2
      <3> QED BY <1>3, <3>1 DEF RemoveFirst, RemoveAt
    <2> HIDE DEF low, high, q
    <2>4. /\ q \in Seq(S) /\ Len(q) = Len(s) - 1
          /\ \A j \in 1..(Len(s) - 1) : q[j] = IF j <= i - 1 THEN low[j] ELSE high[j - (i - 1)]
      <3>1. /\ q \in Seq(S) /\ Len(q) = Len(low) + Len(high)
            /\ \A j \in 1..(Len(low) + Len(high)) :
                 q[j] = IF j <= Len(low) THEN low[j] ELSE high[j - Len(low)]
        BY <2>1, <2>2, <2>3, ConcatProperties
      <3>2. Len(low) + Len(high) = Len(s) - 1
        BY <1>1, <2>1, <2>2
      <3> QED BY <2>1, <3>1, <3>2
    <2>5. ASSUME NEW j \in 1..(Len(s) - 1), ~(j <= i - 1) PROVE high[j - (i - 1)] = s[j + 1]
      <3>1. j - (i - 1) \in 1..(Len(s) - i) /\ i + (j - (i - 1)) = j + 1
        BY <1>1, <2>5
      <3> QED BY <2>2, <3>1
    <2>6. ASSUME NEW j \in 1..(Len(s) - 1), j <= i - 1 PROVE low[j] = s[j]
      BY <1>1, <2>1, <2>6
    <2>7. \A j \in 1..(Len(s) - 1) : j < i <=> j <= i - 1
      BY <1>1
    <2> QED BY <2>4, <2>5, <2>6, <2>7
  <1> HIDE DEF q
  <1>5. DOMAIN q = 1..(Len(s) - 1)
    BY <1>1, <1>4
  <1>6. IsInjective(q)
    BY <1>1, <1>2, <1>4, <1>5 DEF IsInjective
  <1>7. Elements(q) \subseteq Elements(s) \ {e}
    <2>1. \A j \in 1..Len(s) : j # i => s[j] \in Elements(s) \ {e}
      BY <1>1, <1>2 DEF IsInjective, Elements
    <2>2. \A j \in 1..(Len(s) - 1) : q[j] \in Elements(s) \ {e}
      BY <1>1, <1>4, <2>1
    <2> QED BY <1>5, <2>2 DEF Elements
  <1>8. ASSUME NEW j \in 1..Len(s), j # i PROVE \E k \in 1..(Len(s) - 1) : q[k] = s[j]
    <2>1. CASE j < i
      <3>1. j \in 1..(Len(s) - 1) /\ q[j] = s[j]
        BY <1>1, <1>4, <2>1
      <3> QED BY <3>1
    <2>2. CASE j > i
      <3>1. j - 1 \in 1..(Len(s) - 1) /\ ~(j - 1 < i) /\ (j - 1) + 1 = j
        BY <1>1, <2>2
      <3>2. q[j - 1] = s[j]
        BY <1>4, <3>1
      <3> QED BY <3>1, <3>2
    <2> QED BY <1>1, <1>8, <2>1, <2>2
  <1>9. Elements(s) \ {e} \subseteq Elements(q)
    BY <1>1, <1>2, <1>5, <1>8 DEF Elements
  <1> QED BY <1>4, <1>6, <1>7, <1>9 DEF q

-----------------------------------------------------------------------------
(***************************************************************************)
(* Types: who waits in a queue, and which workers calls and tasks name.    *)
(***************************************************************************)
Bound == {"asleep", "notified", "admitted", "asking", "leaving"}
CallRecord == [pc : {"idle", "routing", "between"} \cup Bound, work : Workload,
               at : Worker, rest : Seq(Worker), again : BOOLEAN]

Proper(c) == /\ c \in CallRecord
             /\ c.pc = "between" => c.rest # <<>>
             /\ c.pc \in {"idle", "routing"} => c.rest = <<>>
CallsTyped == /\ call \in [Thread -> CallRecord]
              /\ \A t \in Thread : Proper(call[t])
QueuesTyped == \A w \in Worker : worker[w].queue \in Seq(Thread)
TasksTyped == /\ DOMAIN control = DOMAIN Resting
              /\ pool \in Seq(Worker) /\ control.todo \in Seq(Worker)
              /\ control.done \in Seq(Worker) /\ control.fresh \in Seq(Worker)
Typed == Shape /\ CallsTyped /\ QueuesTyped /\ TasksTyped

LEMMA NoCallTyped == NoCall \in CallRecord /\ NoCall.pc = "idle" /\ NoCall.rest = <<>>
  <1>1. 1 \in Worker
    BY PoolAssumption DEF PoolAssumption, Worker
  <1> QED BY <1>1 DEF NoCall, CallRecord, Workload

LEMMA TriedTyped ==
  ASSUME CallsTyped, NEW t \in Thread, NEW rest \in Seq(Worker)
  PROVE  /\ Tried(t, rest) \in CallRecord
         /\ Tried(t, rest).rest = rest
         /\ Tried(t, rest).pc = IF rest = <<>> THEN "idle" ELSE "between"
  <1>1. CASE rest = <<>>
    BY <1>1, NoCallTyped DEF Tried
  <1>2. CASE rest # <<>>
    <2>1. Tried(t, rest) = [pc |-> "between", work |-> call[t].work, at |-> 1, rest |-> rest,
                            again |-> FALSE]
      BY <1>2 DEF Tried, NoCall
    <2>2. call[t].work \in Workload /\ 1 \in Worker
      BY PoolAssumption DEF PoolAssumption, Worker, CallsTyped, CallRecord
    <2> QED BY <1>2, <2>1, <2>2 DEF CallRecord
  <1> QED BY <1>1, <1>2

\* notify_all moves sleepers at one worker, and nothing else of a call.
LEMMA WokenFields ==
  ASSUME CallsTyped, NEW w
  PROVE  /\ Woken(w) \in [Thread -> CallRecord]
         /\ \A t \in Thread : Woken(w)[t] =
              [call[t] EXCEPT !.pc = IF @ = "asleep" /\ call[t].at = w THEN "notified" ELSE @]
  <1>1. ASSUME NEW t \in Thread
        PROVE  /\ Woken(w)[t] \in CallRecord
               /\ Woken(w)[t] =
                    [call[t] EXCEPT !.pc = IF @ = "asleep" /\ call[t].at = w THEN "notified" ELSE @]
    <2>1. call[t] \in CallRecord
      BY DEF CallsTyped
    <2>2. CASE call[t].pc = "asleep" /\ call[t].at = w
      BY <2>1, <2>2 DEF Woken, CallRecord, Bound
    <2>3. CASE ~(call[t].pc = "asleep" /\ call[t].at = w)
      <3>1. Woken(w)[t] = call[t]
        BY <2>3 DEF Woken
      <3>2. [call[t] EXCEPT !.pc = IF @ = "asleep" /\ call[t].at = w THEN "notified" ELSE @] = call[t]
        BY <2>1, <2>3 DEF CallRecord
      <3> QED BY <2>1, <3>1, <3>2
    <2> QED BY <2>2, <2>3
  <1> QED BY <1>1 DEF Woken

\* The routes of a call lead to workers of the pool.
LEMMA RoutesTyped ==
  ASSUME TasksTyped, NEW work, NEW s \in Routes(work)
  PROVE  s \in Seq(Worker) /\ Elements(s) \subseteq Elements(pool)
  <1> DEFINE lanes == IF work = "optional" /\ Len(pool) > 1 THEN Tail(pool) ELSE pool
  <1>1. lanes \in Seq(Worker) /\ Elements(lanes) \subseteq Elements(pool)
    <2>1. pool \in Seq(Worker)
      BY DEF TasksTyped
    <2>2. CASE work = "optional" /\ Len(pool) > 1
      <3>1. pool # <<>>
        BY <2>1, <2>2
      <3> QED BY <2>1, <2>2, <3>1, Ends
    <2> QED BY <2>1, <2>2
  <1>2. s \in [1..Len(lanes) -> Elements(lanes)]
    BY DEF Routes
  <1> HIDE DEF lanes
  <1>3. Elements(lanes) \subseteq Worker /\ Len(lanes) \in Nat
    BY <1>1, Within
  <1>4. s \in [1..Len(lanes) -> Worker]
    BY <1>2, <1>3
  <1>5. s \in Seq(Worker)
    BY <1>3, <1>4, SeqDef
  <1>6. Elements(s) \subseteq Elements(lanes)
    BY <1>2 DEF Elements
  <1> QED BY <1>1, <1>5, <1>6

\* Where a request finds its place, somewhere in the queue.
LEMMA Place ==
  ASSUME QueuesTyped, NEW w \in Worker, NEW work
  PROVE  1 + Cardinality({i \in DOMAIN worker[w].queue :
               Rank(call[worker[w].queue[i]].work) <= Rank(work)}) \in 1..(Len(worker[w].queue) + 1)
  <1> DEFINE q == worker[w].queue
             before == {i \in DOMAIN q : Rank(call[q[i]].work) <= Rank(work)}
  <1>1. Len(q) \in Nat /\ DOMAIN q = 1..Len(q)
    BY DEF QueuesTyped
  <1>2. IsFiniteSet(1..Len(q)) /\ Cardinality(1..Len(q)) = Len(q)
    BY <1>1, FS_Interval
  <1>3. before \subseteq 1..Len(q)
    BY <1>1
  <1> HIDE DEF before
  <1>4. IsFiniteSet(before) /\ Cardinality(before) <= Len(q) /\ Cardinality(before) \in Nat
    BY <1>2, <1>3, FS_Subset, FS_CardinalityType
  <1>5. 1 + Cardinality(before) \in 1..(Len(q) + 1)
    BY <1>1, <1>4
  <1> QED BY <1>5 DEF before

\* What follows an operation names the same workers.
LEMMA OnwardTyped ==
  ASSUME TasksTyped, control.todo # <<>>, NEW outcome
  PROVE  /\ DOMAIN Onward(outcome) = DOMAIN Resting
         /\ Onward(outcome).todo \in Seq(Worker) /\ Onward(outcome).done \in Seq(Worker)
         /\ Onward(outcome).fresh = control.fresh
  <1>1. /\ Target \in Worker /\ Tail(control.todo) \in Seq(Worker)
        /\ <<Target>> \o control.done \in Seq(Worker) /\ Reverse(control.fresh) \in Seq(Worker)
    BY Ends, PutFirst, Reversed DEF TasksTyped, Target
  <1> QED BY <1>1, ControlFields DEF TasksTyped, Onward

\* A step that gives one call another record, and may wake the sleepers of a
\* worker.
LEMMA CallReplaced ==
  ASSUME CallsTyped, NEW t \in Thread, NEW c, Proper(c), NEW f,
         f = call \/ (\E w : f = Woken(w)), call' = [f EXCEPT ![t] = c]
  PROVE  CallsTyped'
  <1>1. f \in [Thread -> CallRecord] /\ \A u \in Thread : Proper(f[u])
    <2>1. CASE f = call
      BY <2>1 DEF CallsTyped
    <2>2. CASE \E w : f = Woken(w)
      <3>1. PICK w : f = Woken(w)
        BY <2>2
      <3>2. \A u \in Thread : call[u] \in CallRecord /\ Proper(call[u])
        BY DEF CallsTyped
      <3>3. /\ Woken(w) \in [Thread -> CallRecord]
            /\ \A u \in Thread : Woken(w)[u] =
                 [call[u] EXCEPT !.pc = IF @ = "asleep" /\ call[u].at = w THEN "notified" ELSE @]
        BY WokenFields
      <3>4. ASSUME NEW u \in Thread
            PROVE  /\ Woken(w)[u].rest = call[u].rest
                   /\ Woken(w)[u].pc = call[u].pc \/ Woken(w)[u].pc = "notified"
        BY <3>2, <3>3 DEF CallRecord
      <3> QED BY <3>1, <3>2, <3>3, <3>4 DEF Proper
    <2> QED BY <2>1, <2>2
  <1> QED BY <1>1 DEF CallsTyped, Proper

LEMMA CallsWoken ==
  ASSUME CallsTyped, NEW w, call' = Woken(w)
  PROVE  CallsTyped'
  <1>1. Woken(w) \in [Thread -> CallRecord] /\ \A u \in Thread : Proper(call[u])
    BY WokenFields DEF CallsTyped
  <1>2. ASSUME NEW u \in Thread PROVE Proper(Woken(w)[u])
    <2>1. Woken(w)[u] \in CallRecord /\ Woken(w)[u].rest = call[u].rest
          /\ (Woken(w)[u].pc = call[u].pc \/ Woken(w)[u].pc = "notified")
      <3>1. call[u] \in CallRecord
        BY DEF CallsTyped
      <3>2. Woken(w)[u] =
              [call[u] EXCEPT !.pc = IF @ = "asleep" /\ call[u].at = w THEN "notified" ELSE @]
        BY WokenFields
      <3> QED BY <1>1, <3>1, <3>2 DEF CallRecord
    <2> QED BY <1>1, <2>1 DEF Proper
  <1> QED BY <1>1, <1>2 DEF CallsTyped

LEMMA CallsStep ==
  ASSUME CallsTyped, TasksTyped, [Next]_vars
  PROVE  CallsTyped'
  <1>0. \A t \in Thread : call[t] \in CallRecord /\ call[t].rest \in Seq(Worker) /\ Proper(call[t])
    BY DEF CallsTyped, CallRecord
  <1>1. ASSUME NEW t \in Thread, NEW work \in Workload, Ask(t, work)
        PROVE  CallsTyped'
    <2>1. Proper([NoCall EXCEPT !.pc = "routing", !.work = work])
      BY NoCallTyped DEF CallRecord, Proper
    <2> QED BY <1>1, <2>1, CallReplaced DEF Ask
  <1>2. ASSUME NEW t \in Thread, Route(t)
        PROVE  CallsTyped'
    <2>1. PICK s \in Routes(call[t].work) : call' = [call EXCEPT ![t] = Tried(t, s)]
      BY <1>2 DEF Route
    <2>2. Proper(Tried(t, s))
      BY <2>1, RoutesTyped, TriedTyped DEF Proper
    <2> QED BY <2>1, <2>2, CallReplaced
  <1>3. ASSUME NEW t \in Thread, Probe(t)
        PROVE  CallsTyped'
    <2>1. PICK w \in Elements(pool) : call' = [call EXCEPT ![t] =
            [NoCall EXCEPT !.pc = "between", !.work = "optional", !.rest = <<w>>]]
      BY <1>3, Zenon DEF Probe
    <2>2. w \in Worker /\ <<w>> \in Seq(Worker) /\ <<w>> # <<>>
      BY <2>1, Within DEF TasksTyped
    <2>3. PICK s : s = <<w>>
      OBVIOUS
    <2>4. Proper([NoCall EXCEPT !.pc = "between", !.work = "optional", !.rest = s])
      BY <2>2, <2>3, NoCallTyped DEF CallRecord, Workload, Proper
    <2> QED BY <2>1, <2>3, <2>4, CallReplaced
  <1>4. ASSUME NEW t \in Thread, Visit(t)
        PROVE  CallsTyped'
    <2> DEFINE there == [call[t] EXCEPT !.at = Head(call[t].rest), !.rest = Tail(@)]
    <2>1. Head(call[t].rest) \in Worker /\ Tail(call[t].rest) \in Seq(Worker)
      BY <1>0, <1>4, Ends DEF Visit, Proper
    <2>2. Proper(Tried(t, there.rest))
      <3>1. there.rest = Tail(call[t].rest)
        BY <1>0 DEF CallRecord
      <3>2. Proper(Tried(t, Tail(call[t].rest)))
        BY <2>1, TriedTyped DEF Proper
      <3> QED BY <3>1, <3>2
    <2>3. Proper([there EXCEPT !.pc = "admitted"]) /\ Proper([there EXCEPT !.pc = "asleep"])
      BY <1>0, <2>1 DEF Proper, CallRecord, Bound
    <2>4. \E c \in {Tried(t, there.rest), [there EXCEPT !.pc = "admitted"],
                    [there EXCEPT !.pc = "asleep"]} : call' = [call EXCEPT ![t] = c]
      BY <1>4 DEF Visit
    <2> HIDE DEF there
    <2> QED BY <2>2, <2>3, <2>4, CallReplaced
  <1>5. ASSUME NEW t \in Thread, Withdraw(t)
        PROVE  CallsTyped'
    <2>1. Proper(Tried(t, call[t].rest))
      BY <1>0, TriedTyped DEF Proper
    <2> QED BY <1>5, <2>1, CallReplaced DEF Withdraw
  <1>6. ASSUME NEW t \in Thread, Resume(t)
        PROVE  CallsTyped'
    <2>1. Proper([call[t] EXCEPT !.pc = "admitted"]) /\ Proper([call[t] EXCEPT !.pc = "asleep"])
      BY <1>0 DEF Proper, CallRecord, Bound
    <2>2. \/ Withdraw(t)
          \/ call' = [call EXCEPT ![t] = [call[t] EXCEPT !.pc = "admitted"]]
          \/ call' = [call EXCEPT ![t] = [call[t] EXCEPT !.pc = "asleep"]]
      <3>1. \/ Withdraw(t)
            \/ call' = [call EXCEPT ![t].pc = IF ~worker[call[t].at].active /\ Head(worker[call[t].at].queue) = t
                                              THEN "admitted" ELSE "asleep"]
        BY <1>6 DEF Resume
      <3> QED BY <3>1
    <2> QED BY <1>5, <2>1, <2>2, CallReplaced
  <1>7. ASSUME NEW t \in Thread, Deadline(t)
        PROVE  CallsTyped'
    BY <1>5, <1>7 DEF Deadline
  <1>8. ASSUME NEW t \in Thread, Take(t) \/ TooLate(t) \/ Answered(t) \/ Unanswered(t)
        PROVE  CallsTyped'
    <2>1. /\ Proper([call[t] EXCEPT !.pc = "asking"])
          /\ Proper([call[t] EXCEPT !.pc = "leaving", !.again = TRUE])
          /\ Proper([call[t] EXCEPT !.pc = "leaving", !.again = FALSE])
      BY <1>0 DEF Proper, CallRecord, Bound
    <2>2. \E c \in {[call[t] EXCEPT !.pc = "asking"],
                    [call[t] EXCEPT !.pc = "leaving", !.again = TRUE],
                    [call[t] EXCEPT !.pc = "leaving", !.again = FALSE]} :
            call' = [call EXCEPT ![t] = c]
      <3>1. call \in [Thread -> CallRecord]
        BY DEF CallsTyped
      <3>2. \/ call' = [call EXCEPT ![t].pc = "asking"]
            \/ call' = [call EXCEPT ![t].pc = "leaving", ![t].again = TRUE]
            \/ call' = [call EXCEPT ![t].pc = "leaving", ![t].again = FALSE]
        <4>1. CASE Take(t)
          BY <4>1 DEF Take
        <4>2. CASE TooLate(t) \/ Answered(t) \/ Unanswered(t)
          BY <4>2 DEF TooLate, Answered, Unanswered
        <4> QED BY <1>8, <4>1, <4>2
      <3> QED BY <3>1, <3>2
    <2> QED BY <2>1, <2>2, CallReplaced
  <1>9. ASSUME NEW t \in Thread, Leave(t)
        PROVE  CallsTyped'
    <2>1. Proper(Tried(t, call[t].rest)) /\ Proper(NoCall)
      BY <1>0, TriedTyped, NoCallTyped DEF Proper
    <2>2. Proper(IF call[t].again THEN Tried(t, call[t].rest) ELSE NoCall)
      BY <2>1
    <2> QED BY <1>9, <2>2, CallReplaced DEF Leave
  <1>10. CASE OnWorker
    <2>1. UNCHANGED call \/ call' = Woken(Target)
      <3>1. CASE CloseAdmission \/ OpenAdmission \/ BeginSwap
        BY <3>1 DEF CloseAdmission, OpenAdmission, BeginSwap
      <3>2. CASE StopProcess \/ StartProcess \/ EndProcess \/ Revert
        <4>1. CASE StopProcess
          BY <4>1 DEF StopProcess
        <4>2. CASE StartProcess
          BY <4>2 DEF StartProcess
        <4>3. CASE EndProcess
          BY <4>3 DEF EndProcess
        <4>4. CASE Revert
          BY <4>4 DEF Revert
        <4> QED BY <3>2, <4>1, <4>2, <4>3, <4>4
      <3>3. CASE SpawnNext \/ SpawnPrevious
        <4>1. CASE SpawnNext
          BY <4>1 DEF SpawnNext
        <4>2. CASE SpawnPrevious
          BY <4>2 DEF SpawnPrevious
        <4> QED BY <3>3, <4>1, <4>2
      <3> QED BY <1>10, <3>1, <3>2, <3>3 DEF OnWorker
    <2> QED BY <2>1, CallsWoken DEF CallsTyped, Proper
  <1>11. CASE \/ OnPool \/ StartPool \/ StopPool \/ Reconfigure("replace") \/ Reconfigure("retire")
              \/ (\E w \in Worker : Exit(w)) \/ UNCHANGED vars
    <2>1. UNCHANGED call
      <3>1. CASE OnPool
        <4>1. CASE BuildReplacements
          BY <4>1 DEF BuildReplacements
        <4>2. CASE AdoptReplacements \/ RestorePool \/ EndReplacement \/ EndStart \/ EndStop
          BY <4>2 DEF AdoptReplacements, RestorePool, EndReplacement, EndStart, EndStop
        <4> QED BY <3>1, <4>1, <4>2 DEF OnPool
      <3>2. CASE StartPool \/ StopPool \/ Reconfigure("replace") \/ Reconfigure("retire")
        BY <3>2 DEF StartPool, StopPool, Reconfigure
      <3>3. CASE (\E w \in Worker : Exit(w)) \/ UNCHANGED vars
        BY <3>3 DEF Exit, vars
      <3> QED BY <1>11, <3>1, <3>2, <3>3
    <2> QED BY <2>1 DEF CallsTyped, Proper
  <1> QED
    BY <1>1, <1>2, <1>3, <1>4, <1>6, <1>7, <1>8, <1>9, <1>10, <1>11 DEF Next, Calls

\* One operation on one worker leaves the task as it is or goes on to what
\* follows; a failed swap goes back to a process of that worker.
SameTask == /\ DOMAIN control' = DOMAIN Resting
            /\ control'.job = control.job /\ control'.todo = control.todo
            /\ control'.done = control.done /\ control'.fresh = control.fresh

LEMMA OperationTask ==
  ASSUME DOMAIN control = DOMAIN Resting, OnWorker
  PROVE  /\ control.todo # <<>> /\ UNCHANGED pool
         /\ SameTask \/ \E outcome : control' = Onward(outcome)
  <1> USE ControlFields
  <1>1. CASE CloseAdmission \/ BeginSwap
    BY <1>1 DEF CloseAdmission, BeginSwap, Busy, SameTask
  <1>2. CASE OpenAdmission
    BY <1>2 DEF OpenAdmission, Busy
  <1>3. CASE StopProcess
    BY <1>3 DEF StopProcess, Busy
  <1>4. CASE StartProcess
    BY <1>4 DEF StartProcess, Busy, SameTask
  <1>5. CASE EndProcess
    <2>1. \E outcome : control' = [control EXCEPT !.at = "spawning"] \/ control' = Onward(outcome)
      BY <1>5 DEF EndProcess
    <2>2. control.todo # <<>> /\ UNCHANGED pool
      BY <1>5 DEF EndProcess, Busy
    <2> QED BY <2>1, <2>2 DEF SameTask
  <1>6. CASE SpawnNext
    <2>1. \E outcome : control' = [control EXCEPT !.at = "reverting"] \/ control' = Onward(outcome)
      BY <1>6 DEF SpawnNext
    <2>2. control.todo # <<>> /\ UNCHANGED pool
      BY <1>6 DEF SpawnNext, Busy
    <2> QED BY <2>1, <2>2 DEF SameTask
  <1>7. CASE Revert
    <2>1. \E outcome : control' = [control EXCEPT !.at = "restoring", !.outcome = outcome]
                       \/ control' = Onward(outcome)
      <3>1. PICK r : control' = IF control.was
              THEN [control EXCEPT !.at = "restoring", !.outcome = IF r.ok THEN "failed" ELSE "partial"]
              ELSE Onward(IF r.ok THEN "failed" ELSE "partial")
        BY <1>7, Zenon DEF Revert
      <3>2. \/ control' = [control EXCEPT !.at = "restoring",
                                          !.outcome = IF r.ok THEN "failed" ELSE "partial"]
            \/ control' = Onward(IF r.ok THEN "failed" ELSE "partial")
        BY <3>1, Zenon
      <3> QED BY <3>2, Zenon
    <2>2. control.todo # <<>> /\ UNCHANGED pool
      BY <1>7 DEF Revert, Busy
    <2> QED BY <2>1, <2>2 DEF SameTask
  <1>8. CASE SpawnPrevious
    BY <1>8 DEF SpawnPrevious, Busy
  <1> QED BY <1>1, <1>2, <1>3, <1>4, <1>5, <1>6, <1>7, <1>8 DEF OnWorker

\* Calls know nothing of what the holder of the lifecycle's lock is doing.
LEMMA CallsLeaveControl ==
  ASSUME NEW t \in Thread,
         (\E work \in Workload : Ask(t, work)) \/ Probe(t) \/ Calls(t) \/ Deadline(t) \/ TooLate(t)
  PROVE  UNCHANGED <<pool, control>>
  <1>1. CASE (\E work \in Workload : Ask(t, work)) \/ TooLate(t)
    BY <1>1, Zenon DEF Ask, TooLate
  <1>2. CASE Deadline(t) \/ Resume(t) \/ Leave(t) \/ Answered(t) \/ Route(t)
    BY <1>2 DEF Deadline, Resume, Withdraw, Leave, Answered, Route
  <1>3. CASE Visit(t)
    BY <1>3 DEF Visit
  <1>4. CASE Take(t) \/ Unanswered(t)
    BY <1>4 DEF Take, Unanswered
  <1>5. CASE Probe(t)
    BY <1>5 DEF Probe
  <1> QED BY <1>1, <1>2, <1>3, <1>4, <1>5 DEF Calls

LEMMA TasksStep ==
  ASSUME TasksTyped, [Next]_vars
  PROVE  TasksTyped'
  <1> USE ControlFields
  <1>1. CASE OnWorker
    <2>1. control.todo # <<>> /\ UNCHANGED pool
      BY <1>1, OperationTask DEF TasksTyped
    <2>2. CASE SameTask
      BY <2>1, <2>2 DEF SameTask, TasksTyped
    <2>3. ASSUME NEW outcome, control' = Onward(outcome)
          PROVE  TasksTyped'
      BY <2>1, <2>3, OnwardTyped DEF TasksTyped
    <2> QED BY <1>1, <2>2, <2>3, OperationTask DEF TasksTyped
  <1>2. CASE BuildReplacements
    <2>1. PICK n \in 1..MaxPool : \E s \in [1..n -> Unused] :
            control' = [control EXCEPT !.job = "launch", !.todo = s, !.fresh = s]
      BY <1>2, Zenon DEF BuildReplacements
    <2>2. PICK s \in [1..n -> Unused] :
            control' = [control EXCEPT !.job = "launch", !.todo = s, !.fresh = s]
      BY <2>1, Zenon
    <2>3. s \in Seq(Worker)
      <3>1. s \in [1..n -> Worker] /\ n \in Nat
        BY <2>1, <2>2, PoolAssumption DEF Unused, PoolAssumption
      <3> QED BY <3>1, SeqDef
    <2>4. UNCHANGED pool
      BY <1>2 DEF BuildReplacements
    <2> QED BY <2>2, <2>3, <2>4 DEF TasksTyped
  <1>3. CASE AdoptReplacements \/ EndReplacement \/ EndStart \/ EndStop
    <2>1. control' = Resting /\ (pool' = pool \/ pool' = control.fresh)
      BY <1>3 DEF AdoptReplacements, EndReplacement, EndStart, EndStop
    <2>2. <<>> \in Seq(Worker)
      OBVIOUS
    <2> QED BY <2>1, <2>2 DEF TasksTyped, Resting
  <1>4. CASE RestorePool
    BY <1>4 DEF RestorePool, TasksTyped
  <1>5. ASSUME NEW job, NEW todo \in Seq(Worker), NEW resume,
               UNCHANGED pool,
               \/ control' = Begin(job, todo)
               \/ control' = [Begin(job, todo) EXCEPT !.resume = resume]
        PROVE  TasksTyped'
    <2>1. /\ DOMAIN control' = DOMAIN Resting /\ control'.todo = todo
          /\ control'.done = <<>> /\ control'.fresh = <<>>
      BY <1>5 DEF Begin, Resting
    <2>2. <<>> \in Seq(Worker)
      OBVIOUS
    <2> QED BY <1>5, <2>1, <2>2 DEF TasksTyped
  <1>6. pool \in Seq(Worker) /\ Reverse(pool) \in Seq(Worker)
    BY Reversed DEF TasksTyped
  <1>7. CASE StartPool \/ StopPool
    BY <1>5, <1>6, <1>7 DEF StartPool, StopPool
  <1>8. CASE Reconfigure("replace") \/ Reconfigure("retire")
    <2>1. /\ UNCHANGED pool
          /\ \/ control' = [Begin("replace", pool) EXCEPT !.resume = accepting]
             \/ control' = [Begin("retire", Reverse(pool)) EXCEPT !.resume = accepting]
      BY <1>8 DEF Reconfigure
    <2> QED BY <1>5, <1>6, <2>1
  <1>9. ASSUME UNCHANGED <<pool, control>>
        PROVE  TasksTyped'
    BY <1>9 DEF TasksTyped
  <1>10. ASSUME NEW t \in Thread,
                (\E work \in Workload : Ask(t, work)) \/ Probe(t) \/ Calls(t) \/ Deadline(t) \/ TooLate(t)
         PROVE  UNCHANGED <<pool, control>>
    BY <1>10, CallsLeaveControl
  <1>11. CASE (\E w \in Worker : Exit(w)) \/ UNCHANGED vars
    BY <1>9, <1>11 DEF Exit, vars
  <1> QED
    BY <1>1, <1>2, <1>3, <1>4, <1>7, <1>8, <1>9, <1>10, <1>11 DEF Next, OnPool

-----------------------------------------------------------------------------
(***************************************************************************)
(* No wake-up is lost.  A queue holds each thread that waits at the worker *)
(* once, and nobody else; with that, whoever changes the head, the worker  *)
(* or its admission has woken those who must look again.                   *)
(***************************************************************************)
WaitsAt(u, w) == call[u].pc \in {"asleep", "notified"} /\ call[u].at = w

Lined(w) == /\ worker[w].queue \in Seq(Thread) /\ IsInjective(worker[w].queue)
            /\ Elements(worker[w].queue) = {u \in Thread : WaitsAt(u, w)}
Awake(w) == /\ ~worker[w].open => \A u \in Elements(worker[w].queue) : call[u].pc = "notified"
            /\ worker[w].queue # <<>> /\ ~worker[w].active
                 => call[Head(worker[w].queue)].pc = "notified"
Orderly == \A w \in Worker : Lined(w) /\ Awake(w)

\* A step after which the same threads wait at a worker keeps to that, if it
\* has woken them all, or has woken none and changes nothing they wait for.
LEMMA SameWaiters ==
  ASSUME NEW w \in Worker, Lined(w) /\ Awake(w), worker'[w].queue = worker[w].queue,
         \A u \in Thread : WaitsAt(u, w)' <=> WaitsAt(u, w),
         \/ \A u \in Thread : WaitsAt(u, w)' => call'[u].pc = "notified"
         \/ /\ worker'[w].open = worker[w].open
            /\ worker'[w].active = worker[w].active \/ worker'[w].active = TRUE
            /\ \A u \in Thread : WaitsAt(u, w) /\ call[u].pc = "notified"
                                    => call'[u].pc = "notified"
  PROVE  Lined(w)' /\ Awake(w)'
  <1>1. Lined(w)'
    BY DEF Lined
  <1>2. worker[w].queue # <<>> => Head(worker[w].queue) \in Elements(worker[w].queue)
    BY Ends DEF Lined
  <1>3. CASE \A u \in Thread : WaitsAt(u, w)' => call'[u].pc = "notified"
    BY <1>1, <1>2, <1>3 DEF Lined, Awake
  <1>4. CASE /\ worker'[w].open = worker[w].open
             /\ worker'[w].active = worker[w].active \/ worker'[w].active = TRUE
             /\ \A u \in Thread : WaitsAt(u, w) /\ call[u].pc = "notified"
                                    => call'[u].pc = "notified"
    BY <1>1, <1>2, <1>4 DEF Lined, Awake
  <1> QED BY <1>1, <1>3, <1>4

SameQueue(w) == /\ worker'[w].queue = worker[w].queue /\ worker'[w].open = worker[w].open
                /\ worker'[w].active = worker[w].active

\* A call that waits neither before nor after the step.
LEMMA NotWaiting ==
  ASSUME Orderly, CallsTyped, NEW t \in Thread, NEW c, call' = [call EXCEPT ![t] = c],
         call[t].pc \notin {"asleep", "notified"}, c.pc \notin {"asleep", "notified"},
         \A w \in Worker : /\ worker'[w].queue = worker[w].queue
                           /\ worker'[w].open = worker[w].open
                           /\ worker'[w].active = worker[w].active \/ worker'[w].active = TRUE
  PROVE  Orderly'
  <1>1. \A u \in Thread : call'[u] = IF u = t THEN c ELSE call[u]
    BY DEF CallsTyped
  <1>2. \A w \in Worker, u \in Thread :
          /\ WaitsAt(u, w)' <=> WaitsAt(u, w)
          /\ WaitsAt(u, w) /\ call[u].pc = "notified" => call'[u].pc = "notified"
    BY <1>1 DEF WaitsAt
  <1> QED BY <1>2, SameWaiters DEF Orderly

\* Everybody at a worker is woken, and at most one call that does not wait is
\* changed besides.
LEMMA AllWoken ==
  ASSUME Orderly, CallsTyped, NEW v,
         \/ call' = Woken(v)
         \/ \E t \in Thread : \E c : /\ call' = [Woken(v) EXCEPT ![t] = c]
                                     /\ call[t].pc \notin {"asleep", "notified"}
                                     /\ c.pc \notin {"asleep", "notified"},
         \A w \in Worker : worker'[w].queue = worker[w].queue,
         \A w \in Worker : w # v => SameQueue(w)
  PROVE  Orderly'
  <1>1. \A u \in Thread :
          /\ Woken(v)[u].at = call[u].at
          /\ Woken(v)[u].pc = IF call[u].pc = "asleep" /\ call[u].at = v THEN "notified" ELSE call[u].pc
    <2>1. SUFFICES ASSUME NEW u \in Thread
                   PROVE  /\ Woken(v)[u].at = call[u].at
                          /\ Woken(v)[u].pc = IF call[u].pc = "asleep" /\ call[u].at = v
                                              THEN "notified" ELSE call[u].pc
      OBVIOUS
    <2>2. call[u] \in CallRecord
      BY DEF CallsTyped
    <2>3. Woken(v)[u] =
            [call[u] EXCEPT !.pc = IF @ = "asleep" /\ call[u].at = v THEN "notified" ELSE @]
      BY WokenFields
    <2> QED BY <2>2, <2>3 DEF CallRecord
  <1>2. \A u \in Thread, w \in Worker :
          /\ WaitsAt(u, w)' <=> WaitsAt(u, w)
          /\ w = v /\ WaitsAt(u, w)' => call'[u].pc = "notified"
          /\ WaitsAt(u, w) /\ call[u].pc = "notified" => call'[u].pc = "notified"
    <2>1. CASE call' = Woken(v)
      BY <1>1, <2>1 DEF WaitsAt
    <2>2. CASE \E t \in Thread : \E c : /\ call' = [Woken(v) EXCEPT ![t] = c]
                                        /\ call[t].pc \notin {"asleep", "notified"}
                                        /\ c.pc \notin {"asleep", "notified"}
      <3>0. PICK t \in Thread : \E c : /\ call' = [Woken(v) EXCEPT ![t] = c]
                                       /\ call[t].pc \notin {"asleep", "notified"}
                                       /\ c.pc \notin {"asleep", "notified"}
        BY <2>2
      <3>1. PICK c : /\ call' = [Woken(v) EXCEPT ![t] = c]
                     /\ call[t].pc \notin {"asleep", "notified"}
                     /\ c.pc \notin {"asleep", "notified"}
        BY <3>0
      <3>2. \A u \in Thread : call'[u] = IF u = t THEN c ELSE Woken(v)[u]
        BY <3>1, WokenFields
      <3> QED BY <1>1, <3>1, <3>2 DEF WaitsAt
    <2> QED BY <2>1, <2>2
  <1> QED BY <1>2, SameWaiters DEF Orderly, SameQueue

\* The queue of one worker changes with the thread that joins or leaves it.
LEMMA OthersUntouched ==
  ASSUME Orderly, CallsTyped, NEW v \in Worker, NEW t \in Thread,
         \A w \in Worker : w # v => SameQueue(w),
         \A u \in Thread \ {t}, w \in Worker \ {v} :
           /\ WaitsAt(u, w)' <=> WaitsAt(u, w)
           /\ WaitsAt(u, w) /\ call[u].pc = "notified" => call'[u].pc = "notified",
         \A w \in Worker \ {v} : ~WaitsAt(t, w) /\ ~WaitsAt(t, w)',
         Lined(v)' /\ Awake(v)'
  PROVE  Orderly'
  <1>1. ASSUME NEW w \in Worker \ {v} PROVE Lined(w)' /\ Awake(w)'
    <2>1. \A u \in Thread : /\ WaitsAt(u, w)' <=> WaitsAt(u, w)
                            /\ WaitsAt(u, w) /\ call[u].pc = "notified" => call'[u].pc = "notified"
      OBVIOUS
    <2> QED BY <2>1, SameWaiters DEF Orderly, SameQueue
  <1> QED BY <1>1 DEF Orderly

\* A caller joins the queue of a worker, unless it is let in at once.
LEMMA VisitOrderly ==
  ASSUME Shape, CallsTyped, Orderly, NEW t \in Thread, Visit(t)
  PROVE  Orderly'
  <1>0. PICK w : w = Head(call[t].rest)
    OBVIOUS
  <1> DEFINE q == worker[w].queue
             place == 1 + Cardinality({i \in DOMAIN q : Rank(call[q[i]].work) <= Rank(call[t].work)})
  <1>1. /\ call[t] \in CallRecord /\ call[t].pc = "between" /\ w \in Worker
        /\ Tail(call[t].rest) \in Seq(Worker)
    <2>1. call[t] \in CallRecord /\ call[t].pc = "between" /\ call[t].rest \in Seq(Worker)
          /\ call[t].rest # <<>>
      BY DEF Visit, CallsTyped, Proper, CallRecord
    <2> QED BY <1>0, <2>1, Ends
  <1>2. /\ q \in Seq(Thread) /\ IsInjective(q) /\ t \notin Elements(q)
        /\ Elements(q) = {u \in Thread : WaitsAt(u, w)} /\ Awake(w)
    BY <1>1 DEF Orderly, Lined, WaitsAt
  <1>3. place \in 1..(Len(q) + 1)
    BY <1>1, <1>2, Place DEF Orderly, Lined, QueuesTyped
  <1> HIDE DEF place
  <1>4. CASE UNCHANGED worker /\ call' = [call EXCEPT ![t] = Tried(t, Tail(call[t].rest))]
    <2>1. Tried(t, Tail(call[t].rest)).pc \notin {"asleep", "notified"}
      BY <1>1, TriedTyped
    <2> QED BY <1>1, <1>4, <2>1, NotWaiting
  <1>5. CASE /\ worker' = [worker EXCEPT ![w].active = TRUE]
             /\ call' = [call EXCEPT ![t] =
                  [[call[t] EXCEPT !.at = w, !.rest = Tail(@)] EXCEPT !.pc = "admitted"]]
    <2> DEFINE c == [[call[t] EXCEPT !.at = w, !.rest = Tail(@)] EXCEPT !.pc = "admitted"]
    <2>1. c.pc = "admitted"
      BY <1>1 DEF CallRecord
    <2>2. \A v \in Worker : /\ worker'[v].queue = worker[v].queue
                            /\ worker'[v].open = worker[v].open
                            /\ worker'[v].active = worker[v].active \/ worker'[v].active = TRUE
      BY <1>1, <1>5, FreshFields DEF Shape
    <2> HIDE DEF c
    <2>3. call' = [call EXCEPT ![t] = c]
      BY <1>5 DEF c
    <2> QED BY <1>1, <2>1, <2>2, <2>3, NotWaiting
  <1>6. CASE /\ worker[w].open /\ (worker[w].active \/ Head(InsertAt(q, place, t)) # t)
             /\ worker' = [worker EXCEPT ![w].queue = InsertAt(q, place, t)]
             /\ call' = [call EXCEPT ![t] =
                  [[call[t] EXCEPT !.at = w, !.rest = Tail(@)] EXCEPT !.pc = "asleep"]]
    <2> DEFINE c == [[call[t] EXCEPT !.at = w, !.rest = Tail(@)] EXCEPT !.pc = "asleep"]
               z == InsertAt(q, place, t)
    <2>1. c.pc = "asleep" /\ c.at = w
      BY <1>1 DEF CallRecord
    <2>2. \A u \in Thread : call'[u] = IF u = t THEN c ELSE call[u]
      BY <1>6 DEF CallsTyped
    <2> HIDE DEF c
    <2>3. /\ worker'[w].queue = z /\ worker'[w].open = worker[w].open
          /\ worker'[w].active = worker[w].active
          /\ \A v \in Worker : v # w => SameQueue(v)
      BY <1>1, <1>6, FreshFields DEF Shape, SameQueue
    <2>4. /\ z \in Seq(Thread) /\ z # <<>> /\ IsInjective(z)
          /\ Elements(z) = {t} \cup Elements(q)
          /\ Head(z) # t => q # <<>> /\ Head(z) = Head(q)
      <3>1. q \in Seq(Thread) /\ t \in Thread /\ place \in 1..(Len(q) + 1)
            /\ IsInjective(q) /\ t \notin Elements(q)
        BY <1>2, <1>3
      <3> HIDE DEF q
      <3> QED BY <3>1, Inserted
    <2>5. worker[w].open /\ (worker[w].active \/ Head(z) # t)
      BY <1>6
    <2> HIDE DEF z
    <2>6. \A u \in Thread, v \in Worker :
            /\ u # t => (WaitsAt(u, v)' <=> WaitsAt(u, v)) /\ call'[u] = call[u]
            /\ ~WaitsAt(t, v) /\ (WaitsAt(t, v)' <=> v = w)
      BY <1>1, <2>1, <2>2 DEF WaitsAt
    <2>7. Lined(w)'
      BY <1>1, <1>2, <2>3, <2>4, <2>6 DEF Lined
    <2>8. Awake(w)'
      <3>1. worker'[w].open
        BY <2>3, <2>5
      <3>2. ASSUME ~worker'[w].active PROVE call'[Head(z)].pc = "notified"
        <4>1. Head(z) # t /\ q # <<>> /\ Head(z) = Head(q)
          BY <2>3, <2>4, <2>5, <3>2
        <4>2. call[Head(q)].pc = "notified" /\ Head(q) \in Thread
          BY <1>2, <2>3, <3>2, <4>1, Ends DEF Awake
        <4> QED BY <2>2, <4>1, <4>2
      <3> QED BY <2>3, <3>1, <3>2 DEF Awake
    <2> QED BY <1>1, <2>3, <2>6, <2>7, <2>8, OthersUntouched
  <1>7. Enqueued(q, t, call[t].work) = InsertAt(q, place, t)
    BY DEF Enqueued, place
  <1>8. [call[t] EXCEPT !.at = w, !.rest = Tail(@)].rest = Tail(call[t].rest)
    BY <1>1 DEF CallRecord
  <1>9. \/ UNCHANGED worker
           /\ call' = [call EXCEPT ![t] = Tried(t, [call[t] EXCEPT !.at = w, !.rest = Tail(@)].rest)]
        \/ /\ worker' = [worker EXCEPT ![w].active = TRUE]
           /\ call' = [call EXCEPT ![t] =
                [[call[t] EXCEPT !.at = w, !.rest = Tail(@)] EXCEPT !.pc = "admitted"]]
        \/ /\ worker[w].open
           /\ worker[w].active \/ Head(Enqueued(q, t, call[t].work)) # t
           /\ worker' = [worker EXCEPT ![w].queue = Enqueued(q, t, call[t].work)]
           /\ call' = [call EXCEPT ![t] =
                [[call[t] EXCEPT !.at = w, !.rest = Tail(@)] EXCEPT !.pc = "asleep"]]
    BY <1>0 DEF Visit
  <1> HIDE DEF q
  <1> QED BY <1>4, <1>5, <1>6, <1>7, <1>8, <1>9

\* A waiter that gives up leaves the queue and wakes the others.
LEMMA WithdrawOrderly ==
  ASSUME Shape, CallsTyped, Orderly, NEW t \in Thread, Waiting(t), Withdraw(t)
  PROVE  Orderly'
  <1>0. PICK w : w = call[t].at
    OBVIOUS
  <1> DEFINE q == worker[w].queue
             c == Tried(t, call[t].rest)
  <1>1. call[t] \in CallRecord /\ w \in Worker /\ call[t].rest \in Seq(Worker)
    BY <1>0 DEF CallsTyped, CallRecord
  <1>2. c.pc \notin {"asleep", "notified"}
    BY <1>1, TriedTyped
  <1>3. /\ q \in Seq(Thread) /\ IsInjective(q) /\ t \in Elements(q)
        /\ Elements(q) = {u \in Thread : WaitsAt(u, w)}
    BY <1>0, <1>1 DEF Orderly, Lined, WaitsAt, Waiting
  <1>4. /\ RemoveFirst(q, t) \in Seq(Thread) /\ IsInjective(RemoveFirst(q, t))
        /\ Elements(RemoveFirst(q, t)) = Elements(q) \ {t}
    BY <1>3, TakenOut
  <1>5. /\ worker'[w].queue = RemoveFirst(q, t)
        /\ \A v \in Worker : v # w => SameQueue(v)
    BY <1>0, <1>1, FreshFields DEF Withdraw, Shape, SameQueue
  <1> HIDE DEF c
  <1>6. \A u \in Thread : call'[u] = IF u = t THEN c ELSE Woken(w)[u]
    BY <1>0, <1>1, WokenFields DEF Withdraw, c
  <1>7. \A u \in Thread :
          /\ Woken(w)[u].at = call[u].at
          /\ Woken(w)[u].pc = IF call[u].pc = "asleep" /\ call[u].at = w THEN "notified" ELSE call[u].pc
    <2>1. SUFFICES ASSUME NEW u \in Thread
                   PROVE  /\ Woken(w)[u].at = call[u].at
                          /\ Woken(w)[u].pc = IF call[u].pc = "asleep" /\ call[u].at = w
                                              THEN "notified" ELSE call[u].pc
      OBVIOUS
    <2>2. call[u] \in CallRecord
      BY DEF CallsTyped
    <2>3. Woken(w)[u] =
            [call[u] EXCEPT !.pc = IF @ = "asleep" /\ call[u].at = w THEN "notified" ELSE @]
      BY WokenFields
    <2> QED BY <2>2, <2>3 DEF CallRecord
  <1>8. \A u \in Thread, v \in Worker :
          /\ u # t => (WaitsAt(u, v)' <=> WaitsAt(u, v))
          /\ u # t /\ WaitsAt(u, v) /\ call[u].pc = "notified" => call'[u].pc = "notified"
          /\ v = w /\ WaitsAt(u, v)' => call'[u].pc = "notified"
          /\ ~WaitsAt(t, v)'
          /\ v # w => ~WaitsAt(t, v)
    BY <1>0, <1>1, <1>2, <1>6, <1>7 DEF WaitsAt
  <1> HIDE DEF q
  <1>9. Lined(w)'
    BY <1>1, <1>3, <1>4, <1>5, <1>8 DEF Lined
  <1>10. Awake(w)'
    <2>1. \A u \in Elements(worker'[w].queue) : call'[u].pc = "notified"
      BY <1>1, <1>8, <1>9 DEF Lined
    <2>2. worker'[w].queue # <<>> => Head(worker'[w].queue) \in Elements(worker'[w].queue)
      BY <1>9, Ends DEF Lined
    <2> QED BY <2>1, <2>2 DEF Awake
  <1> QED BY <1>1, <1>5, <1>8, <1>9, <1>10, OthersUntouched

\* A woken waiter is let in when it is its turn, and sleeps again otherwise.
LEMMA ResumeOrderly ==
  ASSUME Shape, CallsTyped, Orderly, NEW t \in Thread, Resume(t)
  PROVE  Orderly'
  <1>0. PICK w : w = call[t].at
    OBVIOUS
  <1> DEFINE q == worker[w].queue
  <1>1. call[t] \in CallRecord /\ w \in Worker /\ call[t].pc = "notified"
    BY <1>0 DEF CallsTyped, CallRecord, Resume
  <1>2. /\ q \in Seq(Thread) /\ IsInjective(q) /\ t \in Elements(q)
        /\ Elements(q) = {u \in Thread : WaitsAt(u, w)} /\ Awake(w)
    BY <1>0, <1>1 DEF Orderly, Lined, WaitsAt
  <1>3. CASE ~worker[w].open /\ Withdraw(t)
    BY <1>1, <1>3, WithdrawOrderly DEF Waiting
  <1>4. CASE /\ worker[w].open /\ ~worker[w].active /\ Head(q) = t
             /\ call' = [call EXCEPT ![t].pc = "admitted"]
             /\ worker' = [worker EXCEPT ![w].queue = Tail(@), ![w].active = TRUE]
    <2>1. \A u \in Thread : call'[u] = IF u = t THEN [call[t] EXCEPT !.pc = "admitted"] ELSE call[u]
      BY <1>4 DEF CallsTyped
    <2>2. /\ worker'[w].queue = Tail(q) /\ worker'[w].active = TRUE /\ worker'[w].open = worker[w].open
          /\ \A v \in Worker : v # w => SameQueue(v)
      BY <1>1, <1>4, FreshFields DEF Shape, SameQueue
    <2>3. \A u \in Thread, v \in Worker :
            /\ u # t => (WaitsAt(u, v)' <=> WaitsAt(u, v)) /\ call'[u] = call[u]
            /\ ~WaitsAt(t, v)' /\ (v # w => ~WaitsAt(t, v))
      BY <1>0, <1>1, <2>1 DEF WaitsAt, CallRecord
    <2>4. Tail(q) \in Seq(Thread) /\ IsInjective(Tail(q)) /\ Elements(Tail(q)) = Elements(q) \ {t}
      <3>1. q # <<>>
        BY <1>2, Within
      <3> QED BY <1>2, <1>4, <3>1, WithoutFirst, Ends
    <2>5. Lined(w)'
      BY <1>1, <1>2, <2>2, <2>3, <2>4 DEF Lined
    <2>6. Awake(w)'
      BY <1>4, <2>2 DEF Awake
    <2> QED BY <1>1, <2>2, <2>3, <2>5, <2>6, OthersUntouched
  <1>5. CASE /\ worker[w].open /\ (worker[w].active \/ Head(q) # t)
             /\ call' = [call EXCEPT ![t].pc = "asleep"]
             /\ UNCHANGED worker
    <2>1. \A u \in Thread : call'[u] = IF u = t THEN [call[t] EXCEPT !.pc = "asleep"] ELSE call[u]
      BY <1>5 DEF CallsTyped
    <2>2. \A u \in Thread, v \in Worker :
            /\ WaitsAt(u, v)' <=> WaitsAt(u, v)
            /\ u # t => call'[u] = call[u]
            /\ v # w => ~WaitsAt(t, v) /\ ~WaitsAt(t, v)'
      BY <1>0, <1>1, <2>1 DEF WaitsAt, CallRecord
    <2>3. Lined(w)'
      BY <1>1, <1>2, <1>5, <2>2 DEF Lined
    <2>4. Awake(w)'
      <3>1. q # <<>> => Head(q) \in Thread
        BY <1>2, Ends
      <3> QED BY <1>2, <1>5, <2>2, <3>1 DEF Awake
    <2>5. \A v \in Worker : v # w => SameQueue(v)
      BY <1>5 DEF SameQueue
    <2> QED BY <1>1, <2>2, <2>3, <2>4, <2>5, OthersUntouched
  <1>6. \/ ~worker[w].open /\ Withdraw(t)
        \/ /\ worker[w].open /\ ~worker[w].active /\ Head(q) = t
           /\ call' = [call EXCEPT ![t].pc = "admitted"]
           /\ worker' = [worker EXCEPT ![w].queue = Tail(@), ![w].active = TRUE]
        \/ /\ worker[w].open /\ (worker[w].active \/ Head(q) # t)
           /\ call' = [call EXCEPT ![t].pc = "asleep"]
           /\ UNCHANGED worker
    <2>1. CASE ~worker[w].active /\ Head(q) = t
      BY <1>0, <2>1 DEF Resume
    <2>2. CASE ~(~worker[w].active /\ Head(q) = t)
      BY <1>0, <2>2 DEF Resume
    <2> QED BY <2>1, <2>2
  <1> QED BY <1>3, <1>4, <1>5, <1>6

\* An operation on a worker leaves its queue and the request it admitted
\* alone, and wakes everybody there when it opens or closes admission.
LEMMA OperationFields ==
  ASSUME Shape, OnWorker
  PROVE  /\ \A w \in Worker : /\ worker'[w].queue = worker[w].queue
                              /\ worker'[w].active = worker[w].active
                              /\ w # Target => worker'[w] = worker[w]
         /\ \/ call' = Woken(Target)
            \/ UNCHANGED call /\ \A w \in Worker : worker'[w].open = worker[w].open
  <1> USE FreshFields DEF Shape
  <1>1. CASE CloseAdmission \/ OpenAdmission \/ BeginSwap
    BY <1>1 DEF CloseAdmission, OpenAdmission, BeginSwap
  <1>2. CASE SpawnNext
    <2>1. PICK r \in Ensure(Target, FALSE, TRUE) : Apply(Target, r) /\
            worker' = [worker EXCEPT ![Target] = [Handled(Target, r) EXCEPT
              !.stopping = FALSE, !.open = r.ok, !.holder = IF r.ok THEN "free" ELSE @]]
      BY <1>2, Zenon DEF SpawnNext
    <2>2. call' = Woken(Target)
      BY <1>2 DEF SpawnNext
    <2> QED BY <2>1, <2>2 DEF Handled
  <1>3. CASE SpawnPrevious
    <2>1. PICK r \in Ensure(Target, FALSE, TRUE) : Apply(Target, r) /\
            worker' = [worker EXCEPT ![Target] =
              [Handled(Target, r) EXCEPT !.open = r.ok, !.holder = "free"]]
      BY <1>3, Zenon DEF SpawnPrevious
    <2>2. call' = Woken(Target)
      BY <1>3 DEF SpawnPrevious
    <2> QED BY <2>1, <2>2 DEF Handled
  <1>4. CASE StopProcess
    <2>1. PICK r \in End(Target) : Apply(Target, r) /\
            worker' = [worker EXCEPT ![Target] = [Handled(Target, r) EXCEPT !.stopping = TRUE]]
      BY <1>4 DEF StopProcess
    <2>2. UNCHANGED call
      BY <1>4 DEF StopProcess
    <2> QED BY <2>1, <2>2 DEF Handled
  <1>5. CASE StartProcess
    <2>1. PICK r \in Ensure(Target, FALSE, TRUE) : Apply(Target, r) /\
            worker' = [worker EXCEPT ![Target] = [Handled(Target, r) EXCEPT !.stopping = FALSE]]
      BY <1>5 DEF StartProcess
    <2>2. UNCHANGED call
      BY <1>5 DEF StartProcess
    <2> QED BY <2>1, <2>2 DEF Handled
  <1>6. CASE EndProcess
    <2>1. PICK r \in End(Target) : Apply(Target, r) /\
            \/ worker' = [worker EXCEPT ![Target] = Handled(Target, r)]
            \/ worker' = [worker EXCEPT ![Target] =
                 [Handled(Target, r) EXCEPT !.holder = "free", !.stopping = FALSE]]
      BY <1>6, Zenon DEF EndProcess
    <2>2. UNCHANGED call
      BY <1>6 DEF EndProcess
    <2>3. CASE worker' = [worker EXCEPT ![Target] = Handled(Target, r)]
      BY <2>2, <2>3 DEF Handled
    <2>4. CASE worker' = [worker EXCEPT ![Target] =
                 [Handled(Target, r) EXCEPT !.holder = "free", !.stopping = FALSE]]
      BY <2>2, <2>4 DEF Handled
    <2> QED BY <2>1, <2>3, <2>4
  <1>7. CASE Revert
    <2>1. PICK r \in End(Target) : Apply(Target, r) /\
            worker' = [worker EXCEPT ![Target] = [Handled(Target, r) EXCEPT
              !.stopping = FALSE, !.holder = IF control.was THEN @ ELSE "free"]]
      BY <1>7, Zenon DEF Revert
    <2>2. UNCHANGED call
      BY <1>7 DEF Revert
    <2> QED BY <2>1, <2>2 DEF Handled
  <1> QED BY <1>1, <1>2, <1>3, <1>4, <1>5, <1>6, <1>7 DEF OnWorker

LEMMA OrderlyStep ==
  ASSUME Shape, CallsTyped, TasksTyped, Orderly, [Next]_vars
  PROVE  Orderly'
  <1>0. \A t \in Thread : call[t] \in CallRecord /\ call[t].rest \in Seq(Worker) /\ Proper(call[t])
    BY DEF CallsTyped, CallRecord
  <1> USE FreshFields DEF Shape
  <1>1. ASSUME NEW t \in Thread, (\E work \in Workload : Ask(t, work)) \/ Route(t) \/ Probe(t)
        PROVE  Orderly'
    <2>1. UNCHANGED worker /\ call[t].pc \notin {"asleep", "notified"}
      <3>1. CASE \E work \in Workload : Ask(t, work)
        BY <3>1 DEF Ask
      <3>2. CASE Route(t)
        BY <3>2 DEF Route
      <3>3. CASE Probe(t)
        BY <3>3 DEF Probe
      <3> QED BY <1>1, <3>1, <3>2, <3>3
    <2>2. \E c : call' = [call EXCEPT ![t] = c] /\ c.pc \notin {"asleep", "notified"}
      <3>1. CASE \E work \in Workload : Ask(t, work)
        <4>1. PICK work \in Workload :
                call' = [call EXCEPT ![t] = [NoCall EXCEPT !.pc = "routing", !.work = work]]
          BY <3>1, Zenon DEF Ask
        <4>2. [NoCall EXCEPT !.pc = "routing", !.work = work].pc = "routing"
          BY NoCallTyped DEF CallRecord
        <4> QED BY <4>1, <4>2
      <3>2. CASE Route(t)
        <4>1. PICK s \in Routes(call[t].work) : call' = [call EXCEPT ![t] = Tried(t, s)]
          BY <3>2 DEF Route
        <4>2. Tried(t, s).pc \notin {"asleep", "notified"}
          BY <4>1, RoutesTyped, TriedTyped
        <4> QED BY <4>1, <4>2
      <3>3. CASE Probe(t)
        <4>1. PICK w \in Elements(pool) : call' = [call EXCEPT ![t] =
                [NoCall EXCEPT !.pc = "between", !.work = "optional", !.rest = <<w>>]]
          BY <3>3, Zenon DEF Probe
        <4>2. PICK s : s = <<w>>
          OBVIOUS
        <4>3. [NoCall EXCEPT !.pc = "between", !.work = "optional", !.rest = s].pc = "between"
          BY NoCallTyped DEF CallRecord
        <4> QED BY <4>1, <4>2, <4>3
      <3> QED BY <1>1, <3>1, <3>2, <3>3
    <2> QED BY <2>1, <2>2, NotWaiting
  <1>2. ASSUME NEW t \in Thread, Deadline(t)
        PROVE  Orderly'
    BY <1>2, WithdrawOrderly DEF Deadline
  <1>3. ASSUME NEW t \in Thread, Take(t) \/ TooLate(t) \/ Answered(t) \/ Unanswered(t)
        PROVE  Orderly'
    <2>1. call[t].pc \in {"admitted", "asking"}
      BY <1>3 DEF Take, TooLate, Answered, Unanswered
    <2>2. \E c : call' = [call EXCEPT ![t] = c] /\ c.pc \notin {"asleep", "notified"}
      <3>1. \/ call' = [call EXCEPT ![t].pc = "asking"]
            \/ call' = [call EXCEPT ![t].pc = "leaving", ![t].again = TRUE]
            \/ call' = [call EXCEPT ![t].pc = "leaving", ![t].again = FALSE]
        <4>1. CASE Take(t)
          BY <4>1 DEF Take
        <4>2. CASE TooLate(t) \/ Answered(t) \/ Unanswered(t)
          BY <4>2 DEF TooLate, Answered, Unanswered
        <4> QED BY <1>3, <4>1, <4>2
      <3>2. call \in [Thread -> CallRecord]
        BY DEF CallsTyped
      <3>3. \E c \in {[call[t] EXCEPT !.pc = "asking"],
                      [call[t] EXCEPT !.pc = "leaving", !.again = TRUE],
                      [call[t] EXCEPT !.pc = "leaving", !.again = FALSE]} :
              call' = [call EXCEPT ![t] = c]
        BY <3>1, <3>2
      <3>4. /\ [call[t] EXCEPT !.pc = "asking"].pc = "asking"
            /\ [call[t] EXCEPT !.pc = "leaving", !.again = TRUE].pc = "leaving"
            /\ [call[t] EXCEPT !.pc = "leaving", !.again = FALSE].pc = "leaving"
        BY <1>0 DEF CallRecord
      <3> QED BY <3>3, <3>4
    <2>3. \A w \in Worker : SameQueue(w)
      <3>1. CASE Take(t)
        <4>1. PICK r : \/ worker' = [worker EXCEPT ![call[t].at] =
                                       [Handled(call[t].at, r) EXCEPT !.holder = "request"]]
                       \/ worker' = [worker EXCEPT ![call[t].at] = Handled(call[t].at, r)]
          BY <3>1 DEF Take
        <4>2. CASE worker' = [worker EXCEPT ![call[t].at] =
                                [Handled(call[t].at, r) EXCEPT !.holder = "request"]]
          BY <4>2 DEF Handled, SameQueue
        <4>3. CASE worker' = [worker EXCEPT ![call[t].at] = Handled(call[t].at, r)]
          BY <4>3 DEF Handled, SameQueue
        <4> QED BY <4>1, <4>2, <4>3
      <3>2. CASE TooLate(t) \/ Answered(t)
        BY <3>2 DEF TooLate, Answered, SameQueue
      <3>3. CASE Unanswered(t)
        <4>1. PICK r : worker' = [worker EXCEPT ![call[t].at] =
                                    [Handled(call[t].at, r) EXCEPT !.holder = "free"]]
          BY <3>3 DEF Unanswered
        <4> QED BY <4>1 DEF Handled, SameQueue
      <3> QED BY <1>3, <3>1, <3>2, <3>3
    <2> QED BY <2>1, <2>2, <2>3, NotWaiting DEF SameQueue
  <1>4. ASSUME NEW t \in Thread, Leave(t)
        PROVE  Orderly'
    <2> DEFINE c == IF call[t].again THEN Tried(t, call[t].rest) ELSE NoCall
    <2>1. c.pc \notin {"asleep", "notified"}
      BY <1>0, TriedTyped, NoCallTyped
    <2>2. /\ call[t].pc = "leaving" /\ call' = [Woken(call[t].at) EXCEPT ![t] = c]
          /\ worker' = [worker EXCEPT ![call[t].at].active = FALSE]
      BY <1>4 DEF Leave
    <2>3. \A w \in Worker : worker'[w].queue = worker[w].queue /\ (w # call[t].at => SameQueue(w))
      BY <2>2 DEF SameQueue
    <2> HIDE DEF c
    <2> QED BY <2>1, <2>2, <2>3, AllWoken
  <1>5. ASSUME UNCHANGED call, \A w \in Worker : SameQueue(w)
        PROVE  Orderly'
    <2>1. \A u \in Thread, w \in Worker :
            /\ WaitsAt(u, w)' <=> WaitsAt(u, w)
            /\ WaitsAt(u, w) /\ call[u].pc = "notified" => call'[u].pc = "notified"
      BY <1>5 DEF WaitsAt
    <2> QED BY <1>5, <2>1, SameWaiters DEF Orderly, SameQueue
  <1>6. CASE OnWorker
    <2>0. /\ \A w \in Worker : /\ worker'[w].queue = worker[w].queue
                               /\ worker'[w].active = worker[w].active
                               /\ w # Target => worker'[w] = worker[w]
          /\ \/ call' = Woken(Target)
             \/ UNCHANGED call /\ \A w \in Worker : worker'[w].open = worker[w].open
      BY <1>6, OperationFields, Zenon
    <2>1. \A w \in Worker : worker'[w].queue = worker[w].queue /\ (w # Target => SameQueue(w))
      BY <2>0 DEF SameQueue
    <2>2. CASE call' = Woken(Target)
      BY <2>1, <2>2, AllWoken
    <2>3. CASE UNCHANGED call /\ \A w \in Worker : worker'[w].open = worker[w].open
      <3>1. \A w \in Worker : SameQueue(w)
        BY <2>0, <2>3 DEF SameQueue
      <3> QED BY <1>5, <2>3, <3>1
    <2> QED BY <2>0, <2>2, <2>3
  <1>7. CASE BuildReplacements
    <2>1. UNCHANGED call /\ \E n : \E s \in [1..n -> Unused] :
            worker' = [w \in Worker |-> IF w \in Elements(s) THEN Fresh ELSE worker[w]]
      BY <1>7 DEF BuildReplacements
    <2>2. PICK n : \E s \in [1..n -> Unused] :
            worker' = [w \in Worker |-> IF w \in Elements(s) THEN Fresh ELSE worker[w]]
      BY <2>1
    <2>3. PICK s \in [1..n -> Unused] :
            worker' = [w \in Worker |-> IF w \in Elements(s) THEN Fresh ELSE worker[w]]
      BY <2>2
    <2>4. Elements(s) \subseteq Unused
      BY <2>3 DEF Elements
    <2>5. ASSUME NEW w \in Worker PROVE Lined(w)' /\ Awake(w)'
      <3>1. CASE w \notin Elements(s)
        <4>1. SameQueue(w)
          BY <2>3, <3>1 DEF SameQueue
        <4>2. \A u \in Thread :
                /\ WaitsAt(u, w)' <=> WaitsAt(u, w)
                /\ WaitsAt(u, w) /\ call[u].pc = "notified" => call'[u].pc = "notified"
          BY <2>1 DEF WaitsAt
        <4> QED BY <4>1, <4>2, SameWaiters DEF Orderly, SameQueue
      <3>2. CASE w \in Elements(s)
        <4>1. \A u \in Thread : ~WaitsAt(u, w)
          BY <2>4, <3>2 DEF Unused, WaitsAt
        <4>2. worker'[w].queue = <<>> /\ worker'[w].open = TRUE
          BY <2>3, <3>2 DEF Fresh
        <4>3. \A u \in Thread : ~WaitsAt(u, w)'
          BY <2>1, <4>1 DEF WaitsAt
        <4>4. /\ <<>> \in Seq(Thread) /\ IsInjective(<<>>) /\ Elements(<<>>) = {}
          BY DEF IsInjective, Elements
        <4> QED BY <4>2, <4>3, <4>4 DEF Lined, Awake
      <3> QED BY <3>1, <3>2
    <2> QED BY <2>5 DEF Orderly
  <1>8. CASE AdoptReplacements \/ RestorePool \/ EndReplacement \/ EndStart \/ EndStop
    BY <1>5, <1>8
    DEF AdoptReplacements, RestorePool, EndReplacement, EndStart, EndStop, SameQueue
  <1>9. CASE StartPool \/ StopPool \/ Reconfigure("replace") \/ Reconfigure("retire")
    BY <1>5, <1>9 DEF StartPool, StopPool, Reconfigure, SameQueue
  <1>10. CASE (\E w \in Worker : Exit(w)) \/ UNCHANGED vars
    BY <1>5, <1>10 DEF Exit, vars, SameQueue
  <1> QED
    BY <1>1, <1>2, <1>3, <1>4, <1>6, <1>7, <1>8, <1>9, <1>10,
       VisitOrderly, ResumeOrderly DEF Next, Calls, OnPool

LEMMA InitTyped ==
  ASSUME Init
  PROVE  Shape /\ Held /\ CallsTyped /\ TasksTyped /\ Orderly
  <1>1. Shape /\ Held
    BY FreshFields DEF Init, Shape, Held, Fresh
  <1>2. Proper(NoCall)
    BY NoCallTyped DEF Proper
  <1>3. CallsTyped
    BY <1>2, NoCallTyped DEF Init, CallsTyped, Proper
  <1>4. TasksTyped
    <2>1. /\ control = Resting /\ <<>> \in Seq(Worker)
          /\ control.todo = <<>> /\ control.done = <<>> /\ control.fresh = <<>>
      BY DEF Init, Resting
    <2>2. pool \in [1..FirstSize -> Worker] /\ FirstSize \in Nat
      BY PoolAssumption DEF Init, Worker, PoolAssumption
    <2>3. pool \in Seq(Worker)
      BY <2>2, SeqDef
    <2> QED BY <2>1, <2>3 DEF TasksTyped
  <1>5. Orderly
    <2>1. \A w \in Worker : worker[w].queue = <<>> /\ worker[w].open = TRUE
      BY DEF Init, Fresh
    <2>2. \A u \in Thread : call[u].pc = "idle"
      BY NoCallTyped DEF Init
    <2>3. <<>> \in Seq(Thread) /\ IsInjective(<<>>) /\ Elements(<<>>) = {}
      BY DEF IsInjective, Elements
    <2> QED BY <2>1, <2>2, <2>3 DEF Orderly, Lined, Awake, WaitsAt
  <1> QED BY <1>1, <1>3, <1>4, <1>5

\* No wake-up is lost: at a closed worker nobody sleeps, and at a free one the
\* first in line is awake (the notify_all of request, stop and start).
THEOREM NoWakeupIsLost == Spec => []HeadAwake
  <1> DEFINE Inv == Shape /\ Held /\ CallsTyped /\ TasksTyped /\ Orderly
  <1>1. Init => Inv
    BY InitTyped
  <1>2. Inv /\ [Next]_vars => Inv'
    BY HeldStep, CallsStep, TasksStep, OrderlyStep
  <1>3. Inv => HeadAwake
    BY DEF HeadAwake, Orderly, Awake
  <1> QED BY <1>1, <1>2, <1>3, PTL DEF Spec

-----------------------------------------------------------------------------
(***************************************************************************)
(* No process outside the pool.  A call names a worker of the pool or one  *)
(* that is stopping; an operation's list holds workers of the pool, except *)
(* while the workers of a new pool are started or stopped again; and the   *)
(* old pool is stopped when the new one takes its place.                   *)
(***************************************************************************)
Names(c, w) == (c.pc \in Bound /\ c.at = w) \/ w \in Elements(c.rest)
Refers(t, w) == Names(call[t], w)
Growing == control.job \in {"launch", "scrap"}

Targets ==
  /\ ~Growing => Elements(control.todo) \subseteq Elements(pool)
  /\ control.job = "idle" => control.todo = <<>>
  /\ control.job \in {"replace", "retire"} => Elements(control.done) \subseteq Elements(pool)
  /\ Growing => /\ Elements(control.todo) \subseteq Elements(control.fresh)
                /\ Elements(control.fresh) \cap Elements(pool) = {}

\* Nobody can ask a worker of a pool that is not there yet.
Unknown == control.job = "launch" =>
             \A t \in Thread : \A w \in Elements(control.fresh) : ~Refers(t, w)

Reached == \A t \in Thread, w \in Worker :
             Refers(t, w) => w \in Elements(pool) \/ worker[w].stopping

Retired ==
  /\ control.job = "retire" =>
       \A w \in Elements(pool) : w \in Elements(control.todo) \/ worker[w].stopping
  /\ control.job = "launch" => \A w \in Elements(pool) : worker[w].stopping

Outside ==
  \A w \in Worker \ Elements(pool) :
    \/ worker[w].stopping \/ worker[w].handle # "pipe"
    \/ control.job = "launch" /\ w \in Elements(control.fresh)
    \/ control.job = "scrap" /\ w \in Elements(control.todo)

\* The task that follows an operation.
LEMMA OnwardTask ==
  ASSUME TasksTyped, control.todo # <<>>, NEW outcome, control' = Onward(outcome)
  PROVE  /\ control'.fresh = control.fresh
         /\ \/ /\ control'.job = control.job /\ control'.todo = Tail(control.todo)
               /\ control'.done = <<Target>> \o control.done
               /\ outcome = "ok" \/ control.job \notin {"replace", "retire", "launch"}
            \/ /\ control.job = "replace" /\ control'.job = "undo"
               /\ control'.todo = control.done
            \/ /\ control.job = "retire" /\ outcome # "ok" /\ control'.job = "revive"
               /\ control'.todo = control.done
            \/ /\ control.job = "launch" /\ control'.job = "scrap"
               /\ control'.todo = Reverse(control.fresh)
  BY ControlFields DEF TasksTyped, Onward

\* A list that goes on is what it was but for the worker that was dealt with.
LEMMA Dealt ==
  ASSUME TasksTyped, control.todo # <<>>
  PROVE  /\ Target \in Worker /\ Target \in Elements(control.todo)
         /\ Elements(control.todo) = {Target} \cup Elements(Tail(control.todo))
         /\ Elements(<<Target>> \o control.done) = {Target} \cup Elements(control.done)
         /\ Elements(Reverse(control.fresh)) = Elements(control.fresh)
  BY Ends, PutFirst, Reversed DEF TasksTyped, Target

LEMMA TargetsStep ==
  ASSUME TasksTyped, Targets, [Next]_vars
  PROVE  Targets'
  <1>1. CASE OnWorker
    <2>1. control.todo # <<>> /\ UNCHANGED pool
      BY <1>1, OperationTask DEF TasksTyped
    <2>2. CASE SameTask
      BY <2>1, <2>2 DEF SameTask, Targets, Growing
    <2>3. ASSUME NEW outcome, control' = Onward(outcome)
          PROVE  Targets'
      <3>1. CASE control'.job = control.job /\ control'.todo = Tail(control.todo)
                   /\ control'.done = <<Target>> \o control.done
        <4>1. Elements(control'.todo) \subseteq Elements(control.todo)
          BY <2>1, <3>1, Dealt
        <4>2. Elements(control'.done) = {Target} \cup Elements(control.done)
                /\ Target \in Elements(control.todo)
          BY <2>1, <3>1, Dealt
        <4>3. control.job # "idle" /\ control'.fresh = control.fresh
          BY <2>1, <2>3, OnwardTask DEF Targets
        <4> QED BY <2>1, <3>1, <4>1, <4>2, <4>3 DEF Targets, Growing
      <3>2. CASE /\ control.job \in {"replace", "retire"} /\ control'.job \in {"undo", "revive"}
                 /\ control'.todo = control.done
        BY <2>1, <3>2 DEF Targets, Growing
      <3>3. CASE /\ control.job = "launch" /\ control'.job = "scrap"
                 /\ control'.todo = Reverse(control.fresh) /\ control'.fresh = control.fresh
        BY <2>1, <3>3, Dealt DEF Targets, Growing
      <3> QED BY <2>1, <2>3, <3>1, <3>2, <3>3, OnwardTask
    <2> QED BY <1>1, <2>2, <2>3, OperationTask DEF TasksTyped
  <1>2. CASE BuildReplacements
    <2>1. PICK n \in 1..MaxPool : \E s \in [1..n -> Unused] :
            control' = [control EXCEPT !.job = "launch", !.todo = s, !.fresh = s]
      BY <1>2, Zenon DEF BuildReplacements
    <2>2. PICK s \in [1..n -> Unused] :
            control' = [control EXCEPT !.job = "launch", !.todo = s, !.fresh = s]
      BY <2>1, Zenon
    <2>3. Elements(s) \cap Elements(pool) = {} /\ UNCHANGED pool
      BY <1>2, <2>2 DEF Elements, Unused, BuildReplacements
    <2>4. control'.job = "launch" /\ control'.todo = s /\ control'.fresh = s
      BY <2>2, ControlFields DEF TasksTyped
    <2> QED BY <2>3, <2>4 DEF Targets, Growing
  <1>3. CASE AdoptReplacements \/ EndReplacement \/ EndStart \/ EndStop
    <2>1. control' = Resting
      BY <1>3 DEF AdoptReplacements, EndReplacement, EndStart, EndStop
    <2>2. control'.job = "idle" /\ control'.todo = <<>> /\ Elements(<<>>) = {}
      BY <2>1 DEF Resting, Elements
    <2> QED BY <2>2 DEF Targets, Growing
  <1>4. CASE RestorePool
    <2>1. control'.job = "restore" /\ control'.todo = pool /\ UNCHANGED pool
      BY <1>4, ControlFields DEF RestorePool, TasksTyped
    <2> QED BY <2>1 DEF Targets, Growing
  <1>5. ASSUME NEW job, job \notin {"idle", "launch", "scrap"}, NEW todo,
               Elements(todo) = Elements(pool), NEW resume,
               UNCHANGED pool,
               \/ control' = Begin(job, todo)
               \/ control' = [Begin(job, todo) EXCEPT !.resume = resume]
        PROVE  Targets'
    <2>1. control'.job = job /\ control'.todo = todo /\ control'.done = <<>>
      BY <1>5 DEF Begin, Resting
    <2>2. Elements(<<>>) = {}
      BY DEF Elements
    <2> QED BY <1>5, <2>1, <2>2 DEF Targets, Growing
  <1>6. Elements(Reverse(pool)) = Elements(pool)
    BY Reversed DEF TasksTyped
  <1>7. CASE StartPool \/ StopPool
    BY <1>5, <1>6, <1>7 DEF StartPool, StopPool
  <1>8. CASE Reconfigure("replace") \/ Reconfigure("retire")
    <2>1. /\ UNCHANGED pool
          /\ \/ control' = [Begin("replace", pool) EXCEPT !.resume = accepting]
             \/ control' = [Begin("retire", Reverse(pool)) EXCEPT !.resume = accepting]
      BY <1>8 DEF Reconfigure
    <2> QED BY <1>5, <1>6, <2>1
  <1>9. ASSUME UNCHANGED <<pool, control>>
        PROVE  Targets'
    BY <1>9 DEF Targets, Growing
  <1>10. ASSUME NEW t \in Thread,
                (\E work \in Workload : Ask(t, work)) \/ Probe(t) \/ Calls(t) \/ Deadline(t) \/ TooLate(t)
         PROVE  UNCHANGED <<pool, control>>
    BY <1>10, CallsLeaveControl
  <1>11. CASE (\E w \in Worker : Exit(w)) \/ UNCHANGED vars
    BY <1>9, <1>11 DEF Exit, vars
  <1> QED
    BY <1>1, <1>2, <1>3, <1>4, <1>7, <1>8, <1>9, <1>10, <1>11 DEF Next, OnPool

\* A call comes to name a worker only when it is routed, while no pool is
\* being replaced.
LEMMA Renamed ==
  ASSUME CallsTyped, NEW t \in Thread, NEW c, NEW f, f = call \/ (\E v : f = Woken(v)),
         call' = [f EXCEPT ![t] = c], NEW P,
         \A w \in Worker : Names(c, w) => Names(call[t], w) \/ w \in P
  PROVE  \A u \in Thread, w \in Worker : Refers(u, w)' => Refers(u, w) \/ w \in P
  <1>1. /\ f \in [Thread -> CallRecord]
        /\ \A u \in Thread, w \in Worker : Names(f[u], w) => Names(call[u], w)
    <2>1. CASE f = call
      BY <2>1 DEF CallsTyped
    <2>2. CASE \E v : f = Woken(v)
      <3>1. PICK v : f = Woken(v)
        BY <2>2
      <3>2. ASSUME NEW u \in Thread, NEW w \in Worker, Names(Woken(v)[u], w)
            PROVE  Names(call[u], w)
        <4>1. Woken(v)[u] =
                [call[u] EXCEPT !.pc = IF @ = "asleep" /\ call[u].at = v THEN "notified" ELSE @]
          BY WokenFields
        <4>2. call[u] \in CallRecord
          BY DEF CallsTyped
        <4>3. /\ Woken(v)[u].at = call[u].at /\ Woken(v)[u].rest = call[u].rest
              /\ Woken(v)[u].pc \in Bound => call[u].pc \in Bound
          BY <4>1, <4>2 DEF CallRecord, Bound
        <4> QED BY <3>2, <4>3 DEF Names
      <3> QED BY <3>1, <3>2, WokenFields
    <2> QED BY <2>1, <2>2
  <1>2. \A u \in Thread : call'[u] = IF u = t THEN c ELSE f[u]
    BY <1>1
  <1>3. ASSUME NEW u \in Thread, NEW w \in Worker, Names(call'[u], w)
        PROVE  Names(call[u], w) \/ w \in P
    BY <1>1, <1>2, <1>3
  <1> QED BY <1>3 DEF Refers, Names

LEMMA NamesTried ==
  ASSUME CallsTyped, NEW t \in Thread, NEW rest \in Seq(Worker), NEW w,
         Names(Tried(t, rest), w)
  PROVE  w \in Elements(rest)
  BY TriedTyped DEF Names, Bound

LEMMA CallRefers ==
  ASSUME CallsTyped, TasksTyped, NEW t \in Thread,
         (\E work \in Workload : Ask(t, work)) \/ Probe(t) \/ Calls(t) \/ Deadline(t) \/ TooLate(t)
  PROVE  \A u \in Thread, w \in Worker :
           Refers(u, w)' => Refers(u, w) \/ w \in {v \in Elements(pool) : ~Replacing}
  <1> DEFINE P == {v \in Elements(pool) : ~Replacing}
  <1>0. call[t] \in CallRecord /\ call[t].rest \in Seq(Worker) /\ Proper(call[t])
    BY DEF CallsTyped, CallRecord
  <1>1. ASSUME NEW f, f = call \/ (\E v : f = Woken(v)), NEW c, call' = [f EXCEPT ![t] = c],
               \A w \in Worker : Names(c, w) => Names(call[t], w) \/ w \in P
        PROVE  \A u \in Thread, w \in Worker : Refers(u, w)' => Refers(u, w) \/ w \in P
    BY <1>1, Renamed
  <1> HIDE DEF P
  <1>2. CASE \E work \in Workload : Ask(t, work)
    <2>1. PICK work \in Workload :
            call' = [call EXCEPT ![t] = [NoCall EXCEPT !.pc = "routing", !.work = work]]
      BY <1>2, Zenon DEF Ask
    <2>2. /\ [NoCall EXCEPT !.pc = "routing", !.work = work].pc = "routing"
          /\ [NoCall EXCEPT !.pc = "routing", !.work = work].rest = <<>>
      BY NoCallTyped DEF CallRecord
    <2>3. \A w : ~Names([NoCall EXCEPT !.pc = "routing", !.work = work], w)
      BY <2>2 DEF Names, Bound, Elements
    <2> QED BY <1>1, <2>1, <2>3 DEF P
  <1>3. CASE Route(t)
    <2>1. PICK s \in Routes(call[t].work) : call' = [call EXCEPT ![t] = Tried(t, s)]
      BY <1>3 DEF Route
    <2>2. s \in Seq(Worker) /\ Elements(s) \subseteq P
      BY <1>3, <2>1, RoutesTyped DEF Route, P
    <2>3. \A w \in Worker : Names(Tried(t, s), w) => w \in P
      BY <2>2, NamesTried
    <2> QED BY <1>1, <2>1, <2>3 DEF P
  <1>4. CASE Probe(t)
    <2>1. PICK v \in Elements(pool) : call' = [call EXCEPT ![t] =
            [NoCall EXCEPT !.pc = "between", !.work = "optional", !.rest = <<v>>]]
      BY <1>4, Zenon DEF Probe
    <2>2. PICK s : s = <<v>>
      OBVIOUS
    <2>3. v \in P /\ Elements(s) = {v}
      <3>1. v \in P
        <4>1. ~Replacing
          BY <1>4, Zenon DEF Probe
        <4> QED BY <2>1, <4>1 DEF P
      <3>2. DOMAIN s = {1} /\ s[1] = v
        BY <2>2
      <3> QED BY <3>1, <3>2 DEF Elements
    <2>4. /\ [NoCall EXCEPT !.pc = "between", !.work = "optional", !.rest = s].pc = "between"
          /\ [NoCall EXCEPT !.pc = "between", !.work = "optional", !.rest = s].rest = s
      BY NoCallTyped DEF CallRecord
    <2>5. \A w \in Worker :
            Names([NoCall EXCEPT !.pc = "between", !.work = "optional", !.rest = s], w) => w \in P
      BY <2>3, <2>4 DEF Names, Bound
    <2> QED BY <1>1, <2>1, <2>2, <2>5 DEF P
  <1>5. CASE Visit(t)
    <2> DEFINE there == [call[t] EXCEPT !.at = Head(call[t].rest), !.rest = Tail(@)]
    <2>1. /\ call[t].rest # <<>> /\ Tail(call[t].rest) \in Seq(Worker)
          /\ Elements(call[t].rest) = {Head(call[t].rest)} \cup Elements(Tail(call[t].rest))
      BY <1>0, <1>5, Ends DEF Visit, Proper
    <2>2. there.rest = Tail(call[t].rest)
      BY <1>0 DEF CallRecord
    <2>3. \A w : Names(Tried(t, there.rest), w) => Names(call[t], w)
      BY <2>1, <2>2, NamesTried DEF Names
    <2>4. \A pc, w : Names([there EXCEPT !.pc = pc], w) => Names(call[t], w)
      <3>1. \A pc : /\ [there EXCEPT !.pc = pc].rest = Tail(call[t].rest)
                    /\ [there EXCEPT !.pc = pc].at = Head(call[t].rest)
        BY <1>0 DEF CallRecord
      <3> QED BY <2>1, <3>1 DEF Names
    <2>5. \E c \in {Tried(t, there.rest), [there EXCEPT !.pc = "admitted"],
                    [there EXCEPT !.pc = "asleep"]} : call' = [call EXCEPT ![t] = c]
      BY <1>5 DEF Visit
    <2> HIDE DEF there
    <2> QED BY <1>1, <2>3, <2>4, <2>5 DEF P
  <1>6. ASSUME Withdraw(t)
        PROVE  \A u \in Thread, w \in Worker : Refers(u, w)' => Refers(u, w) \/ w \in P
    <2>1. \A w : Names(Tried(t, call[t].rest), w) => Names(call[t], w)
      BY <1>0, NamesTried DEF Names
    <2> QED BY <1>1, <1>6, <2>1 DEF Withdraw
  <1>7. ASSUME NEW c, call[t].pc \in Bound, c.rest = call[t].rest, c.at = call[t].at,
               call' = [call EXCEPT ![t] = c]
        PROVE  \A u \in Thread, w \in Worker : Refers(u, w)' => Refers(u, w) \/ w \in P
    <2>1. \A w : Names(c, w) => Names(call[t], w)
      BY <1>7 DEF Names
    <2> QED BY <1>1, <1>7, <2>1
  <1>8. CASE Resume(t) \/ Take(t) \/ TooLate(t) \/ Answered(t) \/ Unanswered(t)
    <2> DEFINE Later == {[call[t] EXCEPT !.pc = "admitted"], [call[t] EXCEPT !.pc = "asleep"],
                         [call[t] EXCEPT !.pc = "asking"],
                         [call[t] EXCEPT !.pc = "leaving", !.again = TRUE],
                         [call[t] EXCEPT !.pc = "leaving", !.again = FALSE]}
    <2>1. Withdraw(t) \/ \E c \in Later : call' = [call EXCEPT ![t] = c]
      <3>1. call \in [Thread -> CallRecord]
        BY DEF CallsTyped
      <3>2. CASE Resume(t)
        <4>1. \/ Withdraw(t)
              \/ call' = [call EXCEPT ![t].pc =
                   IF ~worker[call[t].at].active /\ Head(worker[call[t].at].queue) = t
                   THEN "admitted" ELSE "asleep"]
          BY <3>2 DEF Resume
        <4> QED BY <3>1, <4>1
      <3>3. CASE Take(t)
        <4>1. \/ call' = [call EXCEPT ![t].pc = "asking"]
              \/ call' = [call EXCEPT ![t].pc = "leaving", ![t].again = TRUE]
          BY <3>3 DEF Take
        <4> QED BY <3>1, <4>1
      <3>4. CASE TooLate(t) \/ Answered(t) \/ Unanswered(t)
        <4>1. \/ call' = [call EXCEPT ![t].pc = "leaving", ![t].again = TRUE]
              \/ call' = [call EXCEPT ![t].pc = "leaving", ![t].again = FALSE]
          BY <3>4 DEF TooLate, Answered, Unanswered
        <4> QED BY <3>1, <4>1
      <3> QED BY <1>8, <3>2, <3>3, <3>4
    <2>2. call[t].pc \in Bound
      BY <1>8 DEF Resume, Take, TooLate, Answered, Unanswered, Bound
    <2>3. \A c \in Later : c.rest = call[t].rest /\ c.at = call[t].at
      BY <1>0 DEF CallRecord
    <2> HIDE DEF Later
    <2> QED BY <1>6, <1>7, <2>1, <2>2, <2>3 DEF P
  <1>9. CASE Leave(t)
    <2>1. \A w : Names(Tried(t, call[t].rest), w) => Names(call[t], w)
      BY <1>0, NamesTried DEF Names
    <2>3. \A w : ~Names(NoCall, w)
      BY NoCallTyped DEF Names, Bound, Elements
    <2>2. \E c \in {Tried(t, call[t].rest), NoCall} : call' = [Woken(call[t].at) EXCEPT ![t] = c]
      <3>1. call' = [Woken(call[t].at) EXCEPT ![t] = IF call[t].again THEN Tried(t, call[t].rest) ELSE NoCall]
        BY <1>9 DEF Leave
      <3> QED BY <3>1
    <2> QED BY <1>1, <2>1, <2>2, <2>3 DEF P
  <1>10. CASE Deadline(t)
    BY <1>6, <1>10 DEF Deadline, P
  <1> QED BY <1>2, <1>3, <1>4, <1>5, <1>8, <1>9, <1>10 DEF Calls, P

\* What a call does to the worker it is at: it lets nobody out of stopping,
\* and starts a process only there.
LEMMA CallHandles ==
  ASSUME Shape, NEW t \in Thread,
         (\E work \in Workload : Ask(t, work)) \/ Probe(t) \/ Calls(t) \/ Deadline(t) \/ TooLate(t)
  PROVE  \A w \in Worker :
           /\ worker'[w].stopping = worker[w].stopping
           /\ worker'[w].handle = worker[w].handle \/ (call[t].pc \in Bound /\ w = call[t].at)
  <1> USE FreshFields DEF Shape
  <1>1. CASE Visit(t)
    BY <1>1 DEF Visit
  <1>2. CASE Resume(t) \/ Deadline(t)
    <2>1. CASE Resume(t)
      BY <2>1 DEF Resume, Withdraw
    <2>2. CASE Deadline(t)
      BY <2>2 DEF Deadline, Withdraw
    <2> QED BY <1>2, <2>1, <2>2
  <1>3. CASE Take(t)
    <2>1. PICK r \in Ensure(call[t].at, worker[call[t].at].stopping, FALSE) :
            \/ worker' = [worker EXCEPT ![call[t].at] =
                            [Handled(call[t].at, r) EXCEPT !.holder = "request"]]
            \/ worker' = [worker EXCEPT ![call[t].at] = Handled(call[t].at, r)]
      BY <1>3 DEF Take
    <2>2. call[t].pc \in Bound
      BY <1>3 DEF Take, Bound
    <2>3. CASE worker' = [worker EXCEPT ![call[t].at] =
                            [Handled(call[t].at, r) EXCEPT !.holder = "request"]]
      BY <2>2, <2>3 DEF Handled
    <2>4. CASE worker' = [worker EXCEPT ![call[t].at] = Handled(call[t].at, r)]
      BY <2>2, <2>4 DEF Handled
    <2> QED BY <2>1, <2>3, <2>4
  <1>4. CASE Unanswered(t)
    <2>1. PICK r \in End(call[t].at) :
            worker' = [worker EXCEPT ![call[t].at] =
                         [Handled(call[t].at, r) EXCEPT !.holder = "free"]]
      BY <1>4 DEF Unanswered
    <2>2. call[t].pc \in Bound
      BY <1>4 DEF Unanswered, Bound
    <2> QED BY <2>1, <2>2 DEF Handled
  <1>5. CASE Answered(t)
    BY <1>5 DEF Answered
  <1>6. CASE Leave(t)
    BY <1>6 DEF Leave
  <1>7. CASE TooLate(t) \/ Probe(t) \/ Route(t) \/ \E work \in Workload : Ask(t, work)
    BY <1>7, Zenon DEF TooLate, Probe, Route, Ask
  <1> QED BY <1>1, <1>2, <1>3, <1>4, <1>5, <1>6, <1>7 DEF Calls

\* What an operation does to its worker, and which task may follow.
Untouched(w) == worker'[w].stopping = worker[w].stopping /\ worker'[w].handle = worker[w].handle

LEMMA OperationHandles ==
  ASSUME Shape, TasksTyped, OnWorker
  PROVE  \/ SameTask /\ \A w \in Worker : Untouched(w)
         \/ /\ control.job \in Stops /\ \A w \in Worker : w = Target => worker'[w].stopping = TRUE
            /\ \E outcome : control' = Onward(outcome)
         \/ control.job \in Starts /\ SameTask
         \/ /\ control.job \in Starts /\ \A w \in Worker : Untouched(w)
            /\ \E outcome : control' = Onward(outcome)
         \/ control.job \in Swaps
  <1> USE FreshFields, ControlFields DEF Shape
  <1>1. CASE CloseAdmission \/ BeginSwap
    BY <1>1 DEF CloseAdmission, BeginSwap, SameTask, TasksTyped, Untouched
  <1>2. CASE OpenAdmission
    BY <1>2 DEF OpenAdmission, Untouched
  <1>3. CASE StopProcess
    <2>1. PICK r \in End(Target) :
            /\ worker' = [worker EXCEPT ![Target] = [Handled(Target, r) EXCEPT !.stopping = TRUE]]
            /\ control' = Onward(Verdict(r.ok))
      BY <1>3, Zenon DEF StopProcess
    <2>2. control.job \in Stops
      BY <1>3 DEF StopProcess
    <2>3. \A w \in Worker : w = Target => worker'[w].stopping = TRUE
      BY <2>1 DEF Handled
    <2> QED BY <2>1, <2>2, <2>3
  <1>4. CASE StartProcess
    BY <1>4 DEF StartProcess, SameTask, TasksTyped
  <1>5. CASE EndProcess \/ SpawnNext \/ Revert \/ SpawnPrevious
    <2>1. control.job \in Swaps
      BY <1>5, Zenon DEF EndProcess, SpawnNext, Revert, SpawnPrevious
    <2> QED BY <2>1
  <1> QED BY <1>1, <1>2, <1>3, <1>4, <1>5 DEF OnWorker

LEMMA WokenRefers ==
  ASSUME CallsTyped, NEW v, UNCHANGED call \/ call' = Woken(v)
  PROVE  \A u \in Thread, w \in Worker : Refers(u, w)' => Refers(u, w)
  <1>1. CASE UNCHANGED call
    BY <1>1 DEF Refers
  <1>2. CASE call' = Woken(v)
    <2>1. SUFFICES ASSUME NEW u \in Thread, NEW w \in Worker, Names(Woken(v)[u], w)
                   PROVE  Names(call[u], w)
      BY <1>2 DEF Refers, Names
    <2>2. Woken(v)[u] =
            [call[u] EXCEPT !.pc = IF @ = "asleep" /\ call[u].at = v THEN "notified" ELSE @]
      BY WokenFields
    <2>3. call[u] \in CallRecord
      BY DEF CallsTyped
    <2>4. /\ Woken(v)[u].at = call[u].at /\ Woken(v)[u].rest = call[u].rest
          /\ Woken(v)[u].pc \in Bound => call[u].pc \in Bound
      BY <2>2, <2>3 DEF CallRecord, Bound
    <2> QED BY <2>1, <2>4 DEF Names
  <1> QED BY <1>1, <1>2

Placed == Targets /\ Unknown /\ Reached /\ Retired /\ Outside

\* A step that changes no task, pool or worker, and gives nobody a name.
LEMMA PlacedUntouched ==
  ASSUME Placed, UNCHANGED pool, \A w \in Worker : Untouched(w),
         control'.job = control.job /\ control'.todo = control.todo /\ control'.fresh = control.fresh,
         \A u \in Thread, w \in Worker : Refers(u, w)' => Refers(u, w),
         TasksTyped
  PROVE  Unknown' /\ Reached' /\ Retired' /\ Outside'
  <1>1. Elements(pool) \subseteq Worker /\ Elements(control.fresh) \subseteq Worker
    BY Within DEF TasksTyped
  <1>2. Unknown'
    BY <1>1 DEF Placed, Unknown
  <1>3. Reached'
    BY DEF Placed, Reached, Untouched
  <1>4. Retired'
    BY <1>1 DEF Placed, Retired, Untouched
  <1>5. Outside'
    BY DEF Placed, Outside, Untouched
  <1> QED BY <1>2, <1>3, <1>4, <1>5

LEMMA CallPlaced ==
  ASSUME Shape, CallsTyped, TasksTyped, Placed, NEW t \in Thread,
         (\E work \in Workload : Ask(t, work)) \/ Probe(t) \/ Calls(t) \/ Deadline(t) \/ TooLate(t)
  PROVE  Unknown' /\ Reached' /\ Retired' /\ Outside'
  <1>1. UNCHANGED <<pool, control>>
    BY CallsLeaveControl
  <1>2. \A u \in Thread, w \in Worker : Refers(u, w)' => Refers(u, w) \/ w \in {v \in Elements(pool) : ~Replacing}
    BY CallRefers
  <1>3. \A w \in Worker :
          /\ worker'[w].stopping = worker[w].stopping
          /\ worker'[w].handle = worker[w].handle \/ (call[t].pc \in Bound /\ w = call[t].at)
    BY CallHandles
  <1>4. Elements(pool) \subseteq Worker /\ Elements(control.fresh) \subseteq Worker
    BY Within DEF TasksTyped
  <1>5. Unknown'
    BY <1>1, <1>2, <1>4 DEF Placed, Unknown, Replacing
  <1>6. Reached'
    BY <1>1, <1>2, <1>3 DEF Placed, Reached
  <1>7. Retired'
    BY <1>1, <1>3, <1>4 DEF Placed, Retired
  <1>8. Outside'
    <2>1. \A w \in Worker \ Elements(pool) :
            worker'[w].handle = worker[w].handle \/ worker[w].stopping
      BY <1>3 DEF Placed, Reached, Refers, Names
    <2> QED BY <1>1, <1>3, <2>1 DEF Placed, Outside
  <1> QED BY <1>5, <1>6, <1>7, <1>8

LEMMA OperationPlaced ==
  ASSUME Shape, CallsTyped, TasksTyped, Placed, OnWorker
  PROVE  Unknown' /\ Reached' /\ Retired' /\ Outside'
  <1>1. control.todo # <<>> /\ UNCHANGED pool /\ (SameTask \/ \E outcome : control' = Onward(outcome))
    BY OperationTask DEF TasksTyped
  <1>2. /\ Target \in Worker /\ Target \in Elements(control.todo)
        /\ Elements(control.todo) = {Target} \cup Elements(Tail(control.todo))
        /\ Elements(Reverse(control.fresh)) = Elements(control.fresh)
    BY <1>1, Dealt
  <1>3. \A w \in Worker : w # Target => worker'[w] = worker[w]
    BY OperationFields
  <1>4. \A u \in Thread, w \in Worker : Refers(u, w)' => Refers(u, w)
    <2>1. UNCHANGED call \/ call' = Woken(Target)
      BY OperationFields
    <2> QED BY <2>1, WokenRefers
  <1>5. Elements(pool) \subseteq Worker /\ Elements(control.fresh) \subseteq Worker
    BY Within DEF TasksTyped
  <1>6. ASSUME NEW outcome, control' = Onward(outcome)
        PROVE  /\ control'.fresh = control.fresh
               /\ \/ /\ control'.job = control.job /\ control'.todo = Tail(control.todo)
                  \/ control'.job \in {"undo", "revive"} /\ control.job \in {"replace", "retire"}
                  \/ /\ control.job = "launch" /\ control'.job = "scrap"
                     /\ control'.todo = Reverse(control.fresh)
    BY <1>1, <1>6, OnwardTask
  <1>7. CASE SameTask /\ \A w \in Worker : Untouched(w)
    BY <1>1, <1>4, <1>7, PlacedUntouched DEF SameTask
  <1>8. CASE /\ control.job \in Stops /\ \A w \in Worker : w = Target => worker'[w].stopping = TRUE
             /\ \E outcome : control' = Onward(outcome)
    <2>1. /\ control'.fresh = control.fresh
          /\ \/ control'.job = control.job /\ control'.todo = Tail(control.todo)
             \/ control'.job \in {"undo", "revive"} /\ control.job \in {"replace", "retire"}
      BY <1>6, <1>8 DEF Stops
    <2>2. \A w \in Worker : \/ worker'[w].stopping = TRUE
                            \/ worker'[w] = worker[w] /\ w # Target
      BY <1>3, <1>8
    <2>3. Unknown'
      BY <1>8, <2>1 DEF Unknown, Stops
    <2>4. Reached'
      BY <1>1, <1>4, <2>2 DEF Placed, Reached
    <2>5. Retired'
      BY <1>1, <1>2, <1>5, <1>8, <2>1, <2>2 DEF Placed, Retired, Stops
    <2>6. Outside'
      <3>1. \A w \in Worker \ Elements(pool) :
              \/ worker[w].stopping \/ worker[w].handle # "pipe"
              \/ control.job = "scrap" /\ w \in Elements(control.todo)
        BY <1>8 DEF Placed, Outside, Stops
      <3>2. ASSUME NEW w \in Worker, w \notin Elements(pool)
            PROVE  \/ worker'[w].stopping \/ worker'[w].handle # "pipe"
                   \/ control'.job = "scrap" /\ w \in Elements(control'.todo)
        BY <1>2, <2>1, <2>2, <3>1, <3>2
      <3> QED BY <1>1, <3>2 DEF Outside
    <2> QED BY <2>3, <2>4, <2>5, <2>6
  <1>9. CASE control.job \in Starts /\ SameTask
    <2>1. /\ control.job = "launch" => Target \in Elements(control.fresh) /\ Target \notin Elements(pool)
          /\ control.job # "launch" => Target \in Elements(pool)
      BY <1>2, <1>9 DEF Placed, Targets, Growing, Starts
    <2>2. Unknown'
      BY <1>4, <1>5, <1>9 DEF Placed, Unknown, SameTask
    <2>3. Reached'
      <3>1. \A u \in Thread : Refers(u, Target) => Target \in Elements(pool)
        BY <2>1 DEF Placed, Unknown
      <3> QED BY <1>1, <1>3, <1>4, <3>1 DEF Placed, Reached
    <2>4. Retired'
      BY <1>1, <1>3, <1>5, <1>9, <2>1 DEF Placed, Retired, SameTask, Starts
    <2>5. Outside'
      BY <1>1, <1>3, <1>9, <2>1 DEF Placed, Outside, SameTask
    <2> QED BY <2>2, <2>3, <2>4, <2>5
  <1>10. CASE /\ control.job \in Starts /\ \A w \in Worker : Untouched(w)
              /\ \E outcome : control' = Onward(outcome)
    <2>1. /\ control'.fresh = control.fresh
          /\ \/ control'.job = control.job /\ control'.todo = Tail(control.todo)
             \/ /\ control.job = "launch" /\ control'.job = "scrap"
                /\ control'.todo = Reverse(control.fresh)
      BY <1>6, <1>10 DEF Starts
    <2>2. Unknown'
      BY <1>4, <1>5, <1>10, <2>1 DEF Placed, Unknown
    <2>3. Reached'
      BY <1>1, <1>4, <1>10 DEF Placed, Reached, Untouched
    <2>4. Retired'
      BY <1>1, <1>5, <1>10, <2>1 DEF Placed, Retired, Untouched, Starts
    <2>5. Outside'
      BY <1>1, <1>2, <1>10, <2>1 DEF Placed, Outside, Untouched, Starts
    <2> QED BY <2>2, <2>3, <2>4, <2>5
  <1>11. CASE control.job \in Swaps
    <2>1. Target \in Elements(pool) /\ control.job \notin {"launch", "scrap", "retire"}
      BY <1>2, <1>11 DEF Placed, Targets, Growing, Swaps
    <2>2. control'.job \notin {"launch", "scrap", "retire"}
      BY <1>1, <1>6, <2>1 DEF SameTask
    <2>3. Unknown' /\ Retired'
      BY <2>2 DEF Unknown, Retired
    <2>4. Reached'
      BY <1>1, <1>3, <1>4, <2>1 DEF Placed, Reached
    <2>5. Outside'
      BY <1>1, <1>3, <2>1 DEF Placed, Outside
    <2> QED BY <2>3, <2>4, <2>5
  <1> QED BY <1>7, <1>8, <1>9, <1>10, <1>11, OperationHandles

LEMMA PlacedStep ==
  ASSUME Shape, CallsTyped, TasksTyped, Placed, [Next]_vars
  PROVE  Placed'
  <1>1. SUFFICES Unknown' /\ Reached' /\ Retired' /\ Outside'
    BY TargetsStep DEF Placed
  <1>2. Elements(pool) \subseteq Worker /\ Elements(control.fresh) \subseteq Worker
    BY Within DEF TasksTyped
  <1>3. ASSUME NEW t \in Thread,
               (\E work \in Workload : Ask(t, work)) \/ Probe(t) \/ Calls(t) \/ Deadline(t) \/ TooLate(t)
        PROVE  Unknown' /\ Reached' /\ Retired' /\ Outside'
    BY <1>3, CallPlaced
  <1>4. ASSUME UNCHANGED <<worker, pool, call>>, control'.job \notin {"launch", "scrap", "retire"},
               control.job # "launch", control.job = "scrap" => control.todo = <<>>
        PROVE  Unknown' /\ Reached' /\ Retired' /\ Outside'
    <2>1. Unknown' /\ Retired'
      BY <1>4 DEF Unknown, Retired
    <2>2. Reached'
      BY <1>4 DEF Placed, Reached, Refers
    <2>3. Elements(<<>>) = {}
      BY DEF Elements
    <2>4. Outside'
      BY <1>4, <2>3 DEF Placed, Outside
    <2> QED BY <2>1, <2>2, <2>4
  <1>5. CASE BuildReplacements
    <2>1. PICK n \in 1..MaxPool : \E s \in [1..n -> Unused] :
            /\ worker' = [w \in Worker |-> IF w \in Elements(s) THEN Fresh ELSE worker[w]]
            /\ control' = [control EXCEPT !.job = "launch", !.todo = s, !.fresh = s]
      BY <1>5, Zenon DEF BuildReplacements
    <2>2. PICK s \in [1..n -> Unused] :
            /\ worker' = [w \in Worker |-> IF w \in Elements(s) THEN Fresh ELSE worker[w]]
            /\ control' = [control EXCEPT !.job = "launch", !.todo = s, !.fresh = s]
      BY <2>1, Zenon
    <2>3. Elements(s) \subseteq Unused
      BY <2>2 DEF Elements
    <2>4. /\ control.job = "retire" /\ control.todo = <<>> /\ UNCHANGED pool /\ UNCHANGED call
      BY <1>5 DEF BuildReplacements, Finished
    <2>5. control'.job = "launch" /\ control'.todo = s /\ control'.fresh = s
      BY <2>2, ControlFields DEF TasksTyped
    <2>6. \A w \in Elements(s) : w \notin Elements(pool) /\ \A t \in Thread : ~Refers(t, w)
      <3>1. \A t \in Thread : call[t].pc = "idle" => call[t].rest = <<>> /\ "idle" \notin Bound
        BY DEF CallsTyped, Proper, Bound
      <3>2. Elements(<<>>) = {}
        BY DEF Elements
      <3> QED BY <2>3, <3>1, <3>2 DEF Unused, Refers, Names
    <2>7. Fresh.handle = "none"
      BY DEF Fresh
    <2>8. Elements(<<>>) = {}
      BY DEF Elements
    <2>9. \A u \in Thread, w \in Worker : Refers(u, w)' <=> Refers(u, w)
      BY <2>4 DEF Refers
    <2>10. Elements(s) \subseteq Worker
      BY <2>3 DEF Unused
    <2>11. Unknown'
      BY <2>5, <2>6, <2>9, <2>10 DEF Unknown
    <2>12. Reached'
      BY <2>2, <2>4, <2>6, <2>9 DEF Placed, Reached
    <2>13. Retired'
      BY <1>2, <2>2, <2>4, <2>5, <2>6, <2>8 DEF Placed, Retired
    <2>14. Outside'
      <3>1. \A w \in Worker \ Elements(pool) : worker[w].stopping \/ worker[w].handle # "pipe"
        BY <2>4 DEF Placed, Outside
      <3>2. \A w \in Worker \ Elements(pool) : worker'[w].stopping \/ worker'[w].handle # "pipe"
        BY <2>2, <2>7, <3>1
      <3> QED BY <2>4, <3>2 DEF Outside
    <2> QED BY <2>11, <2>12, <2>13, <2>14
  <1>6. CASE AdoptReplacements
    <2>1. /\ control.job = "launch" /\ pool' = control.fresh /\ UNCHANGED <<worker, call>>
          /\ control'.job = "idle"
      BY <1>6 DEF AdoptReplacements, Finished, Resting
    <2>2. Unknown' /\ Retired'
      BY <2>1 DEF Unknown, Retired
    <2>3. Reached'
      BY <2>1 DEF Placed, Reached, Retired, Refers
    <2>4. Outside'
      <3>1. \A w \in Worker \ Elements(control.fresh) : worker[w].stopping \/ worker[w].handle # "pipe"
        BY <2>1 DEF Placed, Outside, Retired
      <3> QED BY <2>1, <3>1 DEF Outside
    <2> QED BY <2>2, <2>3, <2>4
  <1>7. CASE RestorePool \/ EndReplacement \/ EndStart \/ EndStop
    <2>1. /\ UNCHANGED <<worker, pool, call>> /\ control'.job \in {"idle", "restore"}
          /\ control.job # "launch" /\ control.todo = <<>>
      <3>1. CASE RestorePool
        BY <3>1, ControlFields DEF RestorePool, Finished, TasksTyped
      <3>2. CASE EndReplacement \/ EndStart \/ EndStop
        BY <3>2 DEF EndReplacement, EndStart, EndStop, Finished, Resting
      <3> QED BY <1>7, <3>1, <3>2
    <2>2. control'.job \notin {"launch", "scrap", "retire"} /\ (control.job = "scrap" => control.todo = <<>>)
      BY <2>1
    <2> QED BY <1>4, <2>1, <2>2
  <1>8. CASE StartPool \/ StopPool \/ Reconfigure("replace")
    <2>1. /\ UNCHANGED <<worker, pool, call>> /\ control'.job \in {"start", "stop", "replace"}
          /\ control.job = "idle"
      <3>1. CASE StartPool
        BY <3>1 DEF StartPool, Begin, Resting
      <3>2. CASE StopPool
        BY <3>2 DEF StopPool, Begin, Resting
      <3>3. CASE Reconfigure("replace")
        BY <3>3 DEF Reconfigure, Begin, Resting
      <3> QED BY <1>8, <3>1, <3>2, <3>3
    <2>2. /\ control'.job \notin {"launch", "scrap", "retire"}
          /\ control.job # "launch" /\ control.job # "scrap"
      BY <2>1
    <2> QED BY <1>4, <2>1, <2>2
  <1>9. CASE Reconfigure("retire")
    <2>1. /\ UNCHANGED <<worker, pool, call>> /\ control'.job = "retire" /\ control.job = "idle"
          /\ control'.todo = Reverse(pool)
      BY <1>9 DEF Reconfigure, Begin, Resting
    <2>2. Elements(Reverse(pool)) = Elements(pool)
      BY Reversed DEF TasksTyped
    <2>3. Unknown' /\ Retired'
      BY <2>1, <2>2 DEF Unknown, Retired
    <2>4. Reached'
      BY <2>1 DEF Placed, Reached, Refers
    <2>5. Outside'
      <3>1. \A w \in Worker \ Elements(pool) : worker[w].stopping \/ worker[w].handle # "pipe"
        BY <2>1 DEF Placed, Outside
      <3> QED BY <2>1, <3>1 DEF Outside
    <2> QED BY <2>3, <2>4, <2>5
  <1>10. ASSUME NEW v \in Worker, Exit(v) PROVE Unknown' /\ Reached' /\ Retired' /\ Outside'
    <2>1. UNCHANGED <<worker, pool, call, control>>
      BY <1>10 DEF Exit
    <2>2. /\ \A w \in Worker : Untouched(w)
          /\ \A u \in Thread, w \in Worker : Refers(u, w)' => Refers(u, w)
          /\ control'.job = control.job /\ control'.todo = control.todo /\ control'.fresh = control.fresh
      BY <2>1 DEF Untouched, Refers
    <2> QED BY <2>1, <2>2, PlacedUntouched
  <1>11. CASE UNCHANGED vars
    <2>1. UNCHANGED <<worker, pool, call, control>>
      BY <1>11 DEF vars
    <2>2. /\ \A w \in Worker : Untouched(w)
          /\ \A u \in Thread, w \in Worker : Refers(u, w)' => Refers(u, w)
          /\ control'.job = control.job /\ control'.todo = control.todo /\ control'.fresh = control.fresh
      BY <2>1 DEF Untouched, Refers
    <2> QED BY <2>1, <2>2, PlacedUntouched
  <1> QED
    BY <1>3, <1>5, <1>6, <1>7, <1>8, <1>9, <1>10, <1>11, OperationPlaced DEF Next, OnPool

\* No process of a worker that left the pool, or never joined it, can still be
\* asked once a change is over (reconfigure_roles and its rollbacks).
THEOREM NoProcessOutsidePool == Spec => []NothingOutsidePool
  <1> DEFINE Inv == /\ Shape /\ Held /\ CallsTyped /\ TasksTyped
                    /\ Restoring /\ StoppedStaysDown /\ Placed
  <1>1. Init => Inv
    <2> SUFFICES ASSUME Init PROVE Inv
      OBVIOUS
    <2>1. Shape /\ Held /\ CallsTyped /\ TasksTyped
      BY InitTyped
    <2>2. control = Resting /\ control.job = "idle" /\ control.todo = <<>> /\ control.at = "next"
      BY DEF Init, Resting
    <2>3. \A w \in Worker : worker[w].handle = "none" /\ worker[w].stopping = FALSE
      BY DEF Init, Fresh
    <2>4. Restoring /\ StoppedStaysDown
      BY <2>2, <2>3 DEF Restoring, StoppedStaysDown
    <2>5. Elements(<<>>) = {}
      BY DEF Elements
    <2>6. Targets /\ Unknown /\ Retired
      BY <2>2, <2>5 DEF Targets, Growing, Unknown, Retired
    <2>7. Outside
      BY <2>3 DEF Outside
    <2>8. \A t \in Thread, w \in Worker : ~Refers(t, w)
      BY <2>5, NoCallTyped DEF Init, Refers, Names, Bound
    <2>9. Reached
      BY <2>8 DEF Reached
    <2> QED BY <2>1, <2>4, <2>6, <2>7, <2>9 DEF Placed
  <1>2. Inv /\ [Next]_vars => Inv'
    BY HeldStep, CallsStep, TasksStep, StoppedStep, PlacedStep
  <1>3. Inv => NothingOutsidePool
    <2>1. Resting.job = "idle"
      BY DEF Resting
    <2> QED BY <2>1 DEF NothingOutsidePool, Placed, Outside, StoppedStaysDown
  <1> QED BY <1>1, <1>2, <1>3, PTL DEF Spec

=============================================================================
