---------------------------- MODULE InferencePool ----------------------------
(***************************************************************************)
(* The isolated object-inference processes and the pool of their workers   *)
(* (_InferenceWorker and InferenceSupervisor).  A worker owns one child    *)
(* process behind two locks: a condition variable that admits one request  *)
(* at a time by workload, and a re-entrant lock held for the whole of an   *)
(* exchange with the process and of its replacement.  Start, stop and the  *)
(* reconfiguration of the pool, with its rollbacks, run one at a time      *)
(* under InferenceLifecycle's lock and meet the requests only at those     *)
(* two.                                                                    *)
(*                                                                         *)
(* Of device admission (module DeviceAdmission) only the fence is kept.    *)
(* Deadlines may pass at any moment.  The face and re-identification       *)
(* workers are single workers of the same class.  Frames, answers and      *)
(* statistics are left out.                                                *)
(***************************************************************************)
EXTENDS Naturals, Sequences, FiniteSets, SequencesExt

CONSTANTS Thread,     \* threads that call the detector or ask for its status
          Workers,    \* bound of the worker objects there are at a time
          FirstSize,  \* object_worker_count at the start
          MaxPool,    \* greatest object_worker_count
          MaxFaults,  \* crashes, failed starts, refused deaths and timeouts
          MaxChanges  \* reconfigurations

ASSUME PoolAssumption ==
  /\ IsFiniteSet(Thread)
  /\ Workers \in Nat /\ MaxPool \in 1..Workers /\ FirstSize \in 1..MaxPool
  /\ MaxFaults \in Nat /\ MaxChanges \in Nat

Worker == 1..Workers

VARIABLES
  worker,     \* the fields of each _InferenceWorker
  running,    \* worker -> how many processes it started are running
  pool,       \* _object_workers
  call,       \* thread -> where it is in a call
  control,    \* what the holder of the lifecycle's lock is doing
  accepting,  \* _device_accepting
  life,       \* _core_started, _core_ready, _closed
  faults, changes

budgets == <<faults, changes>>
vars == <<worker, running, pool, call, control, accepting, life, budgets>>

\* A first look at an incident, and work that may wait: tracking, enrichment
\* and, last of all, offline.
Workload == {"initial", "optional"}
Rank(w) == IF w = "initial" THEN 0 ELSE 1

\* The handle is what _process and _connection hold: nothing, a process with
\* its pipe, or a process that outlived its termination, whose pipe is closed.
Fresh == [open |-> TRUE, active |-> FALSE, queue |-> <<>>, stopping |-> FALSE,
          handle |-> "none", holder |-> "free"]

NoCall == [pc |-> "idle", work |-> "optional", at |-> 1,
           rest |-> <<>>, again |-> FALSE]

Resting == [job |-> "idle", todo |-> <<>>, done |-> <<>>, fresh |-> <<>>,
            at |-> "next", outcome |-> "ok", bad |-> FALSE,
            resume |-> FALSE, was |-> FALSE]

Waiting(t) == call[t].pc \in {"asleep", "notified"}
Alive(w) == worker[w].handle # "none" /\ running[w] > 0

Init ==
  /\ worker = [w \in Worker |-> Fresh]
  /\ running = [w \in Worker |-> 0]
  /\ pool = [i \in 1..FirstSize |-> i]
  /\ call = [t \in Thread |-> NoCall]
  /\ control = Resting
  /\ accepting = TRUE /\ life = "unready"
  /\ faults = 0 /\ changes = 0

-----------------------------------------------------------------------------
(* The child process.  An outcome is what becomes of the handle and of the *)
(* processes that run, and how many faults it takes.                       *)

Result(ok, handle, n, cost) ==
  [ok |-> ok, handle |-> handle, running |-> n, cost |-> cost]

\* How many run once the process that the handle stands for has ended.
Without(w) == IF Alive(w) THEN running[w] - 1 ELSE running[w]

\* _spawn_worker_locked: ready, not started at all, or started and not ready
\* in time, and then ended or, when even kill fails, kept without its pipe.
Spawn(w) ==
  {Result(TRUE, "pipe", running[w] + 1, 0),
   Result(FALSE, "none", running[w], 1),
   Result(FALSE, "bare", running[w] + 1, 2)}

\* Faulty variant of End: a process that will not die is forgotten.
EndAndForget(w) ==
  {Result(TRUE, "none", Without(w), 0)} \cup
  (IF Alive(w) THEN {Result(FALSE, "none", running[w], 1)} ELSE {})

\* _terminate_failed_worker_locked and the locked half of stop: terminate,
\* then kill; a process that survives both is kept without its pipe.
End(w) ==
  {Result(TRUE, "none", Without(w), 0)} \cup
  (IF Alive(w) THEN {Result(FALSE, "bare", running[w], 1)} ELSE {})

\* Faulty variant of Ensure: a worker told to stop is started again.
EnsureAnyway(w, stopping, force) ==
  CASE Alive(w) -> {Result(TRUE, worker[w].handle, running[w], 0)}
    [] ~Alive(w) /\ ~force -> {Result(FALSE, "none", running[w], 0)} \cup Spawn(w)
    [] OTHER -> Spawn(w)

\* _ensure_worker_locked, with _record_dead_worker_locked: after a failure
\* the next start waits for a delay, which may or may not have passed and
\* which start overrides.  A process without its pipe counts as running.
Ensure(w, stopping, force) ==
  CASE Alive(w) -> {Result(TRUE, worker[w].handle, running[w], 0)}
    [] ~Alive(w) /\ stopping -> {Result(FALSE, "none", running[w], 0)}
    [] ~Alive(w) /\ ~stopping /\ ~force ->
         {Result(FALSE, "none", running[w], 0)} \cup Spawn(w)
    [] OTHER -> Spawn(w)

Affordable(r) == faults + r.cost <= MaxFaults
Apply(w, r) ==
  /\ running' = [running EXCEPT ![w] = r.running]
  /\ faults' = faults + r.cost
Handled(w, r) == [worker[w] EXCEPT !.handle = r.handle]

\* A process dies by itself; one that outlived its termination does so freely.
Exit(w) ==
  /\ running[w] > 0
  /\ faults' = IF worker[w].handle = "pipe" THEN faults + 1 ELSE faults
  /\ faults' <= MaxFaults
  /\ running' = [running EXCEPT ![w] = @ - 1]
  /\ UNCHANGED <<worker, pool, call, control, accepting, life, changes>>

-----------------------------------------------------------------------------
(* A call of the detector.                                                 *)

Elements(s) == {s[i] : i \in DOMAIN s}

\* notify_all of a worker's admission.
Woken(w) == [t \in Thread |->
  IF call[t].pc = "asleep" /\ call[t].at = w
  THEN [call[t] EXCEPT !.pc = "notified"] ELSE call[t]]

\* A heap entry is ordered by workload, then by arrival.
Enqueued(q, t, work) ==
  InsertAt(q, 1 + Cardinality({i \in DOMAIN q : Rank(call[q[i]].work) <= Rank(work)}), t)

Pressure(w) == Cardinality({t \in Thread : call[t].at = w /\
  call[t].pc \in {"asleep", "notified", "admitted", "asking", "leaving"}})

\* _ordered_object_workers: the least loaded first, equals by a cursor that
\* is abstracted; optional work leaves the first worker alone when it can.
Routes(work) ==
  LET lanes == IF work = "optional" /\ Len(pool) > 1 THEN Tail(pool) ELSE pool IN
  {s \in [1..Len(lanes) -> Elements(lanes)] :
     /\ IsInjective(s)
     /\ \A i, j \in DOMAIN s : i < j => Pressure(s[i]) <= Pressure(s[j])}

\* _config_lock is held from the first to the last worker of a replacement.
Replacing == control.job \notin {"idle", "start", "stop"}

\* On to the next worker; after the last the detector is unavailable.
Tried(t, rest) ==
  IF rest = <<>> THEN NoCall
  ELSE [NoCall EXCEPT !.pc = "between", !.work = call[t].work, !.rest = rest]

\* _enter_device_workload, of which only the fence is kept.
Ask(t, work) ==
  /\ call[t].pc = "idle" /\ accepting
  /\ call' = [call EXCEPT ![t] = [NoCall EXCEPT !.pc = "routing", !.work = work]]
  /\ UNCHANGED <<worker, running, pool, control, accepting, life, budgets>>

Route(t) ==
  /\ call[t].pc = "routing" /\ ~Replacing
  /\ \E s \in Routes(call[t].work) :
       call' = [call EXCEPT ![t] = Tried(t, s)]
  /\ UNCHANGED <<worker, running, pool, control, accepting, life, budgets>>

\* status() asks every worker of the pool, past the device's fence.
Probe(t) ==
  /\ call[t].pc = "idle" /\ ~Replacing
  /\ \E w \in Elements(pool) :
       call' = [call EXCEPT ![t] =
         [NoCall EXCEPT !.pc = "between", !.work = "optional", !.rest = <<w>>]]
  /\ UNCHANGED <<worker, running, pool, control, accepting, life, budgets>>

\* The first half of request: join the heap and look once before sleeping.
Visit(t) ==
  LET w == Head(call[t].rest)
      q == Enqueued(worker[w].queue, t, call[t].work)
      there == [call[t] EXCEPT !.at = w, !.rest = Tail(@)] IN
  /\ call[t].pc = "between"
  /\ \/ /\ ~worker[w].open
        /\ call' = [call EXCEPT ![t] = Tried(t, there.rest)]
        /\ UNCHANGED worker
     \/ /\ worker[w].open /\ ~worker[w].active /\ Head(q) = t
        /\ call' = [call EXCEPT ![t] = [there EXCEPT !.pc = "admitted"]]
        /\ worker' = [worker EXCEPT ![w].active = TRUE]
     \/ /\ worker[w].open /\ (worker[w].active \/ Head(q) # t)
        /\ call' = [call EXCEPT ![t] = [there EXCEPT !.pc = "asleep"]]
        /\ worker' = [worker EXCEPT ![w].queue = q]
  /\ UNCHANGED <<running, pool, control, accepting, life, budgets>>

\* Faulty variant of Withdraw: the next in line is not told.
WithdrawQuietly(t) ==
  /\ call' = [call EXCEPT ![t] = Tried(t, call[t].rest)]
  /\ worker' = [worker EXCEPT ![call[t].at].queue = RemoveFirst(@, t)]
  /\ UNCHANGED <<running, pool, control, accepting, life, budgets>>

\* A waiter finds admission closed or its deadline passed.
Withdraw(t) ==
  LET w == call[t].at IN
  /\ call' = [Woken(w) EXCEPT ![t] = Tried(t, call[t].rest)]
  /\ worker' = [worker EXCEPT ![w].queue = RemoveFirst(@, t)]
  /\ UNCHANGED <<running, pool, control, accepting, life, budgets>>

Resume(t) ==
  LET w == call[t].at
      first == ~worker[w].active /\ Head(worker[w].queue) = t IN
  /\ call[t].pc = "notified"
  /\ \/ ~worker[w].open /\ Withdraw(t)
     \/ /\ worker[w].open
        /\ call' = [call EXCEPT ![t].pc = IF first THEN "admitted" ELSE "asleep"]
        /\ worker' = IF first
             THEN [worker EXCEPT ![w].queue = Tail(@), ![w].active = TRUE]
             ELSE worker
        /\ UNCHANGED <<running, pool, control, accepting, life, budgets>>

Deadline(t) == Waiting(t) /\ Withdraw(t)

\* The worker's lock is taken, the process started if need be and the request
\* sent; or the deadline passes before the lock is free.
Take(t) ==
  LET w == call[t].at IN
  /\ call[t].pc = "admitted" /\ worker[w].holder = "free"
  /\ \E r \in Ensure(w, worker[w].stopping, FALSE) :
       /\ Affordable(r) /\ Apply(w, r)
       /\ IF r.ok /\ r.handle = "pipe"
          THEN /\ call' = [call EXCEPT ![t].pc = "asking"]
               /\ worker' = [worker EXCEPT ![w] = [Handled(w, r) EXCEPT !.holder = "request"]]
          ELSE /\ call' = [call EXCEPT ![t].pc = "leaving", ![t].again = TRUE]
               /\ worker' = [worker EXCEPT ![w] = Handled(w, r)]
  /\ UNCHANGED <<pool, control, accepting, life, changes>>

TooLate(t) ==
  /\ call[t].pc = "admitted"
  /\ call' = [call EXCEPT ![t].pc = "leaving", ![t].again = TRUE]
  /\ UNCHANGED <<worker, running, pool, control, accepting, life, budgets>>

\* The process answers, with a result or with an error.
Answered(t) ==
  LET w == call[t].at IN
  /\ call[t].pc = "asking" /\ Alive(w)
  /\ call' = [call EXCEPT ![t].pc = "leaving", ![t].again = FALSE]
  /\ worker' = [worker EXCEPT ![w].holder = "free"]
  /\ UNCHANGED <<running, pool, control, accepting, life, budgets>>

\* The pipe broke or the deadline passed: the process is ended.
Unanswered(t) ==
  LET w == call[t].at IN
  /\ call[t].pc = "asking"
  /\ \E r \in End(w) :
       LET price == [r EXCEPT !.cost = @ + IF Alive(w) THEN 1 ELSE 0] IN
       /\ Affordable(price) /\ Apply(w, price)
       /\ worker' = [worker EXCEPT ![w] = [Handled(w, r) EXCEPT !.holder = "free"]]
  /\ call' = [call EXCEPT ![t].pc = "leaving", ![t].again = TRUE]
  /\ UNCHANGED <<pool, control, accepting, life, changes>>

\* The finally block of request; a call without a result tries the next.
Leave(t) ==
  LET w == call[t].at IN
  /\ call[t].pc = "leaving"
  /\ worker' = [worker EXCEPT ![w].active = FALSE]
  /\ call' = [Woken(w) EXCEPT ![t] =
                IF call[t].again THEN Tried(t, call[t].rest) ELSE NoCall]
  /\ UNCHANGED <<running, pool, control, accepting, life, budgets>>

-----------------------------------------------------------------------------
(* Control: one operation on one worker after the other.  A job ends with  *)
(* its list; what a failure leads to is the next job.                      *)

Stops == {"stop", "retire", "scrap"}
Starts == {"start", "revive", "launch", "restore"}
Swaps == {"replace", "undo"}
Target == Head(control.todo)
Busy(step) == control.todo # <<>> /\ control.at = step

\* Faulty variant of Onward: workers of a replacement that failed are not
\* stopped before the old ones are restored.
OnwardWithoutScrap(outcome) ==
  LET rest == [control EXCEPT !.at = "next", !.todo = Tail(@), !.was = FALSE,
                              !.outcome = "ok", !.done = <<Target>> \o @] IN
  CASE outcome = "ok" -> rest
    [] outcome # "ok" /\ control.job = "launch" ->
         [control EXCEPT !.job = "scrap", !.at = "next", !.todo = <<>>]
    [] outcome # "ok" /\ control.job \in {"replace", "retire"} ->
         [control EXCEPT !.job = IF @ = "replace" THEN "undo" ELSE "revive",
                         !.at = "next", !.todo = control.done]
    [] OTHER -> [rest EXCEPT !.bad = TRUE]

\* What follows the operation on Target.
Onward(outcome) ==
  LET rest == [control EXCEPT !.at = "next", !.todo = Tail(@), !.was = FALSE,
                              !.outcome = "ok",
                              !.done = <<Target>> \o @] IN
  CASE outcome = "ok" -> rest
    [] outcome # "ok" /\ control.job = "scrap" -> rest
    [] outcome # "ok" /\ control.job = "replace" ->
         [control EXCEPT !.job = "undo", !.at = "next", !.todo = control.done,
                         !.bad = (outcome = "partial")]
    [] outcome # "ok" /\ control.job = "retire" ->
         [control EXCEPT !.job = "revive", !.at = "next", !.todo = control.done]
    [] outcome # "ok" /\ control.job = "launch" ->
         [control EXCEPT !.job = "scrap", !.at = "next",
                         !.todo = Reverse(control.fresh)]
    [] OTHER -> [rest EXCEPT !.bad = TRUE]

Verdict(ok) == IF ok THEN "ok" ELSE "failed"

\* Faulty variant of CloseAdmission: stop goes for the lock at once.
CloseNothing ==
  /\ control.job \in Stops /\ Busy("next")
  /\ control' = [control EXCEPT !.at = "locked"]
  /\ UNCHANGED <<worker, running, pool, call, accepting, life, budgets>>

\* The first half of stop.
CloseAdmission ==
  /\ control.job \in Stops /\ Busy("next")
  /\ worker' = [worker EXCEPT ![Target].open = FALSE]
  /\ call' = Woken(Target)
  /\ control' = [control EXCEPT !.at = "locked"]
  /\ UNCHANGED <<running, pool, accepting, life, budgets>>

StopProcess ==
  /\ control.job \in Stops /\ Busy("locked") /\ worker[Target].holder = "free"
  /\ \E r \in End(Target) :
       /\ Affordable(r) /\ Apply(Target, r)
       /\ worker' = [worker EXCEPT ![Target] = [Handled(Target, r) EXCEPT !.stopping = TRUE]]
       /\ control' = Onward(Verdict(r.ok))
  /\ UNCHANGED <<pool, call, accepting, life, changes>>

\* The two halves of start.
StartProcess ==
  /\ control.job \in Starts /\ Busy("next") /\ worker[Target].holder = "free"
  /\ \E r \in Ensure(Target, FALSE, TRUE) :
       /\ Affordable(r) /\ Apply(Target, r)
       /\ worker' = [worker EXCEPT ![Target] = [Handled(Target, r) EXCEPT !.stopping = FALSE]]
       /\ control' = [control EXCEPT !.at = "opening", !.outcome = Verdict(r.ok)]
  /\ UNCHANGED <<pool, call, accepting, life, changes>>

OpenAdmission ==
  /\ control.job \in Starts /\ Busy("opening")
  /\ worker' = [worker EXCEPT ![Target].open = (control.outcome = "ok")]
  /\ call' = Woken(Target)
  /\ control' = Onward(control.outcome)
  /\ UNCHANGED <<running, pool, accepting, life, budgets>>

\* _InferenceWorker.reconfigure holds the lock throughout: it closes
\* admission, ends the process, starts the next and, if that fails, stops
\* again and starts the previous configuration if that one was alive.
BeginSwap ==
  /\ control.job \in Swaps /\ Busy("next") /\ worker[Target].holder = "free"
  /\ worker' = [worker EXCEPT ![Target].holder = "control", ![Target].open = FALSE]
  /\ call' = Woken(Target)
  /\ control' = [control EXCEPT !.at = "ending", !.was = Alive(Target)]
  /\ UNCHANGED <<running, pool, accepting, life, budgets>>

\* stop, for the change itself or before the previous process is restored.
EndProcess ==
  /\ control.job \in Swaps /\ Busy("ending")
  /\ \E r \in End(Target) :
       /\ Affordable(r) /\ Apply(Target, r)
       /\ IF r.ok
          THEN /\ worker' = [worker EXCEPT ![Target] = Handled(Target, r)]
               /\ control' = [control EXCEPT !.at = "spawning"]
          ELSE /\ worker' = [worker EXCEPT ![Target] =
                    [Handled(Target, r) EXCEPT !.holder = "free", !.stopping = FALSE]]
               /\ control' = Onward("failed")
  /\ UNCHANGED <<pool, call, accepting, life, changes>>

\* start of the new configuration: admission opens when it is ready.
SpawnNext ==
  /\ control.job \in Swaps /\ Busy("spawning")
  /\ \E r \in Ensure(Target, FALSE, TRUE) :
       /\ Affordable(r) /\ Apply(Target, r)
       /\ worker' = [worker EXCEPT ![Target] = [Handled(Target, r) EXCEPT
            !.stopping = FALSE, !.open = r.ok, !.holder = IF r.ok THEN "free" ELSE @]]
       /\ control' = IF r.ok THEN Onward("ok") ELSE [control EXCEPT !.at = "reverting"]
  /\ call' = Woken(Target)
  /\ UNCHANGED <<pool, accepting, life, changes>>

\* The rollback's stop can only fail on a process that outlives it.
Revert ==
  /\ control.job \in Swaps /\ Busy("reverting")
  /\ \E r \in End(Target) :
       /\ Affordable(r) /\ Apply(Target, r)
       /\ worker' = [worker EXCEPT ![Target] = [Handled(Target, r) EXCEPT
            !.stopping = FALSE, !.holder = IF control.was THEN @ ELSE "free"]]
       /\ control' = IF control.was
            THEN [control EXCEPT !.at = "restoring", !.outcome =
                    IF r.ok THEN "failed" ELSE "partial"]
            ELSE Onward(IF r.ok THEN "failed" ELSE "partial")
  /\ UNCHANGED <<pool, call, accepting, life, changes>>

SpawnPrevious ==
  /\ control.job \in Swaps /\ Busy("restoring")
  /\ \E r \in Ensure(Target, FALSE, TRUE) :
       /\ Affordable(r) /\ Apply(Target, r)
       /\ worker' = [worker EXCEPT ![Target] =
            [Handled(Target, r) EXCEPT !.open = r.ok, !.holder = "free"]]
       /\ control' = Onward(IF r.ok THEN control.outcome ELSE "partial")
  /\ call' = Woken(Target)
  /\ UNCHANGED <<pool, accepting, life, changes>>

-----------------------------------------------------------------------------
(* The supervisor's operations.                                            *)

Begin(job, todo) == [Resting EXCEPT !.job = job, !.todo = todo]

StartPool ==
  /\ control = Resting /\ life = "unready"
  /\ control' = Begin("start", pool)
  /\ UNCHANGED <<worker, running, pool, call, accepting, life, budgets>>

StopPool ==
  /\ control = Resting /\ life # "closed"
  /\ accepting' = FALSE /\ life' = "closed"
  /\ control' = Begin("stop", Reverse(pool))
  /\ UNCHANGED <<worker, running, pool, call, budgets>>

\* reconfigure_roles: the fence goes up; the pool is replaced worker by
\* worker, or as a whole when its size changes.
Reconfigure(job) ==
  /\ control = Resting /\ life # "closed" /\ changes < MaxChanges
  /\ changes' = changes + 1
  /\ accepting' = FALSE
  /\ control' = [Begin(job, IF job = "retire" THEN Reverse(pool) ELSE pool)
                   EXCEPT !.resume = accepting]
  /\ UNCHANGED <<worker, running, pool, call, life, faults>>

Finished(job) == control.job = job /\ control.todo = <<>>

\* The workers of a pool of another size are objects of their own.
Unused == {w \in Worker \ Elements(pool) :
  running[w] = 0 /\ \A t \in Thread :
    call[t].pc = "idle" \/ w \notin {call[t].at} \cup Elements(call[t].rest)}

BuildReplacements ==
  /\ Finished("retire")
  /\ \E n \in 1..MaxPool : n # Len(pool) /\ \E s \in [1..n -> Unused] :
       /\ IsInjective(s)
       /\ worker' = [w \in Worker |-> IF w \in Elements(s) THEN Fresh ELSE worker[w]]
       /\ control' = [control EXCEPT !.job = "launch", !.todo = s, !.fresh = s]
  /\ UNCHANGED <<running, pool, call, accepting, life, budgets>>

AdoptReplacements ==
  /\ Finished("launch")
  /\ pool' = control.fresh
  /\ accepting' = control.resume
  /\ control' = Resting
  /\ UNCHANGED <<worker, running, call, life, budgets>>

RestorePool ==
  /\ Finished("scrap")
  /\ control' = [control EXCEPT !.job = "restore", !.todo = pool]
  /\ UNCHANGED <<worker, running, pool, call, accepting, life, budgets>>

\* A replacement, or its rollback, is over: a pool that could not be restored
\* stays fenced.
EndReplacement ==
  /\ \E job \in {"replace", "undo", "revive", "restore"} : Finished(job)
  /\ accepting' = (control.resume /\ ~control.bad)
  /\ control' = Resting
  /\ UNCHANGED <<worker, running, pool, call, life, budgets>>

EndStart ==
  /\ Finished("start")
  /\ accepting' = ~control.bad
  /\ life' = IF control.bad THEN "unready" ELSE "ready"
  /\ control' = Resting
  /\ UNCHANGED <<worker, running, pool, call, budgets>>

EndStop ==
  /\ Finished("stop")
  /\ control' = Resting
  /\ UNCHANGED <<worker, running, pool, call, accepting, life, budgets>>

-----------------------------------------------------------------------------
OnWorker ==
  \/ CloseAdmission \/ StopProcess
  \/ StartProcess \/ OpenAdmission
  \/ BeginSwap \/ EndProcess \/ SpawnNext \/ Revert \/ SpawnPrevious
OnPool ==
  \/ BuildReplacements \/ AdoptReplacements \/ RestorePool
  \/ EndReplacement \/ EndStart \/ EndStop

Calls(t) ==
  \/ Route(t) \/ Visit(t) \/ Resume(t)
  \/ Take(t) \/ Answered(t) \/ Unanswered(t) \/ Leave(t)

Next ==
  \/ \E t \in Thread :
       \/ \E work \in Workload : Ask(t, work)
       \/ Probe(t) \/ Calls(t) \/ Deadline(t) \/ TooLate(t)
  \/ \E w \in Worker : Exit(w)
  \/ OnWorker \/ OnPool
  \/ StartPool \/ StopPool
  \/ Reconfigure("replace") \/ Reconfigure("retire")

Spec == Init /\ [][Next]_vars

\* A thread that can go on does; a process answers, or the request ends it.
FairSpec ==
  /\ Spec
  /\ \A t \in Thread : WF_vars(Calls(t))
  /\ WF_vars(OnWorker) /\ WF_vars(OnPool)

-----------------------------------------------------------------------------
(* Properties.                                                             *)

\* A worker never has two processes at once: the second would map the frame
\* buffer and load the model onto the device beside the first, whichever of a
\* timeout, a failed stop and a restart came in between.
OneProcess == \A w \in Worker : running[w] <= 1

\* stop is final until start or reconfigure: a request that was admitted
\* before it and gets the lock after it, or that was still in the exchange,
\* leaves no process behind that could be asked.
StoppedStaysDown ==
  \A w \in Worker : worker[w].stopping => worker[w].handle # "pipe"

\* No process of a worker that left the pool, or never joined it, can still
\* be asked once a change is over: it would keep its model on the device.
NothingOutsidePool ==
  control = Resting => \A w \in Worker \ Elements(pool) :
                         worker[w].handle # "pipe"

\* No wake-up is lost: at a closed worker nobody sleeps, and at a free one
\* the first in line is awake.
HeadAwake ==
  \A w \in Worker :
    LET q == worker[w].queue IN
    /\ ~worker[w].open => \A t \in Elements(q) : call[t].pc = "notified"
    /\ q # <<>> /\ ~worker[w].active => call[Head(q)].pc = "notified"

\* A stop ends although callers never stop asking: it closes admission
\* before it waits for the lock, so at most one request is in its way.
StopEnds == control.job = "stop" ~> control.job # "stop"

=============================================================================
