--------------------------- MODULE MotionDelivery ---------------------------
(***************************************************************************)
(* Delivery of motion triggers of one camera: producers admit a trigger    *)
(* durably and wake the decision worker through a bounded queue            *)
(* (MotionEventCoordinator), the worker claims, coalesces, decides and     *)
(* completes bursts (MotionDecisionOrchestrator), and the process may      *)
(* stop, restart or crash between any two steps.                           *)
(***************************************************************************)
EXTENDS TriggerLedger, Sequences

CONSTANTS QueueSize,   \* capacity of the wake-up queue
          RetryLimit,  \* retries of one burst inside a process
          MaxFaults    \* bound on crashes, stops and database errors

ASSUME DeliveryAssumption ==
  /\ QueueSize \in Nat \ {0}
  /\ RetryLimit \in Nat
  /\ MaxFaults \in Nat

VARIABLES
  admitted,  \* triggers 1..admitted have been given to enqueue
  putting,   \* producers between the insert and the queue put
  queue,     \* coordinator.queue: triggers and the stop sentinel
  retries,   \* coordinator.retry_batches
  stop,      \* the stop event of this generation
  me,        \* lease owner of the living coordinator
  pc,        \* where the decision worker is
  batch,     \* the triggers it holds and their retry count
  active,    \* coordinator._active_triggers is the batch
  todo,      \* deliveries still to be completed, released or failed
  decided,   \* triggers a decision was reached for
  faults     \* faults so far

coordinator == <<admitted, putting, queue, retries, stop, me>>
worker == <<pc, batch, active, todo, decided>>
vars == <<job, coordinator, worker, faults>>

Stop == 0  \* the None sentinel; no trigger has this number
NoBatch == [items |-> {}, count |-> 0]

Init ==
  /\ LedgerInit
  /\ admitted = 0 /\ putting = {} /\ queue = <<>> /\ retries = <<>>
  /\ stop = FALSE /\ me = 1
  /\ pc = "wait" /\ batch = NoBatch /\ active = FALSE
  /\ todo = {} /\ decided = {} /\ faults = 0

Fault == /\ faults < MaxFaults
         /\ faults' = faults + 1
NoFault == UNCHANGED faults

-----------------------------------------------------------------------------
(***************************************************************************)
(* Producers: MotionEventCoordinator.enqueue.  The row is committed before *)
(* the queue is tried, so a full queue only defers the trigger.            *)
(***************************************************************************)
Admit ==
  /\ admitted < Triggers
  /\ admitted' = admitted + 1
  /\ enqueue_motion_trigger(admitted')
  /\ putting' = putting \cup {admitted'}
  /\ UNCHANGED <<queue, retries, stop, me, worker>> /\ NoFault

Put(t, evict_oldest) ==
  /\ t \in putting
  /\ putting' = putting \ {t}
  /\ queue' = IF Len(queue) < QueueSize THEN Append(queue, t)
              ELSE IF evict_oldest THEN Append(Tail(queue), t)
              ELSE queue
  /\ UNCHANGED <<job, admitted, retries, stop, me, worker>> /\ NoFault

-----------------------------------------------------------------------------
(***************************************************************************)
(* next_trigger: retries first, then a wake-up whose row can be claimed,   *)
(* then, when the queue is empty, any row that is due.  Taking a wake-up   *)
(* and claiming its row are one step: the only other parties that touch    *)
(* the row are time and a crash.                                           *)
(***************************************************************************)
Claim(t, holder) ==
  /\ claim_motion_trigger(t, me)
  /\ batch' = [batch EXCEPT !.items = @ \cup {t}]
  /\ pc' = holder

TakeRetry ==
  /\ pc = "wait" /\ retries # <<>>
  /\ batch' = Head(retries) /\ retries' = Tail(retries)
  /\ pc' = "first"
  /\ UNCHANGED <<job, admitted, putting, queue, stop, me, active, todo, decided>>
  /\ NoFault

\* Faulty variant of Wake, never used.
WakeIgnoringRetries == pc = "wait" /\ queue # <<>>

Wake == pc = "wait" /\ retries = <<>> /\ queue # <<>>

TakeQueued ==
  /\ Wake
  /\ queue' = Tail(queue)
  /\ LET t == Head(queue) IN
       IF t = Stop
         THEN pc' = "stopped" /\ UNCHANGED <<job, batch>>
         ELSE IF ReadyFor(t, me) THEN Claim(t, "first")
                                 ELSE UNCHANGED <<job, batch, pc>>
  /\ UNCHANGED <<admitted, putting, retries, stop, me, active, todo, decided>>
  /\ NoFault

\* The claim of a wake-up raises: run() has no active batch and goes on.
TakeQueuedFails ==
  /\ Wake /\ Head(queue) # Stop
  /\ queue' = Tail(queue)
  /\ Fault
  /\ UNCHANGED <<job, admitted, putting, retries, stop, me, worker>>

ClaimAnyDue ==
  /\ pc = "wait" /\ retries = <<>> /\ queue = <<>>
  /\ \E t \in Trigger : Oldest(t) /\ Claim(t, "first")
  /\ UNCHANGED <<coordinator, active, todo, decided>> /\ NoFault

\* The worker's loop condition.
Exit ==
  /\ pc = "wait" /\ stop
  /\ pc' = "stopped"
  /\ UNCHANGED <<job, coordinator, batch, active, todo, decided>> /\ NoFault

-----------------------------------------------------------------------------
(***************************************************************************)
(* run_until_error and coalesce.                                           *)
(***************************************************************************)
\* Between the claim and coalesce the worker looks at the stop event.  A
\* retry wrapper has no delivery_job_id, so its rows are not released.
StopAfterClaim ==
  /\ pc = "first" /\ stop
  /\ pc' = "release"
  /\ todo' = IF batch.count = 0 THEN batch.items ELSE {}
  /\ UNCHANGED <<job, coordinator, batch, active, decided>> /\ NoFault

StartCoalescing ==
  /\ pc = "first" /\ ~stop
  /\ IF batch.count > 0 THEN pc' = "active" /\ active' = TRUE
                        ELSE pc' = "coalesce" /\ UNCHANGED active
  /\ UNCHANGED <<job, coordinator, batch, todo, decided>> /\ NoFault

\* One round of the loop: the stop event is looked at before the get, so the
\* sentinel of a later stop is taken by a worker that holds leased rows.
CoalesceAgain ==
  /\ pc = "coalesce" /\ ~stop
  /\ pc' = "get"
  /\ UNCHANGED <<job, coordinator, batch, active, todo, decided>> /\ NoFault

CoalesceQueued ==
  /\ pc = "get" /\ queue # <<>>
  /\ queue' = Tail(queue)
  /\ LET t == Head(queue) IN
       IF t = Stop
         THEN pc' = "stopped" /\ batch' = NoBatch /\ UNCHANGED job
         ELSE IF ReadyFor(t, me) THEN Claim(t, "coalesce")
                                 ELSE pc' = "coalesce" /\ UNCHANGED <<job, batch>>
  /\ UNCHANGED <<admitted, putting, retries, stop, me, active, todo, decided>>
  /\ NoFault

\* A claim inside coalesce raises: the batch is not active yet, so run() has
\* nothing to retry and the rows claimed so far are left to their leases.
CoalesceFails ==
  /\ pc = "get" /\ queue # <<>> /\ Head(queue) # Stop
  /\ queue' = Tail(queue)
  /\ Fault
  /\ pc' = "wait" /\ batch' = NoBatch
  /\ UNCHANGED <<job, admitted, putting, retries, stop, me, active, todo, decided>>

\* The quiet or the hard deadline passes, or the stop event is set.
Coalesced ==
  /\ pc \in {"coalesce", "get"}
  /\ pc' = "active" /\ active' = TRUE
  /\ UNCHANGED <<job, coordinator, batch, todo, decided>> /\ NoFault

-----------------------------------------------------------------------------
(***************************************************************************)
(* _process_batch, _process_accepted and the handler in run().             *)
(***************************************************************************)
StopWhileActive ==
  /\ pc = "active" /\ stop
  /\ pc' = "release" /\ todo' = batch.items /\ active' = FALSE
  /\ UNCHANGED <<job, coordinator, batch, decided>> /\ NoFault

\* A decision was reached.  When it produced an incident the batch is taken
\* out of the active slot first, so that nothing replays the detection.
Decide ==
  /\ pc = "active"
  /\ decided' = decided \cup batch.items
  /\ active' \in BOOLEAN
  /\ pc' = "complete" /\ todo' = batch.items
  /\ UNCHANGED <<job, coordinator, batch>> /\ NoFault

\* Faulty variant of Raise, never used.
RaiseCompletes ==
  /\ pc = "active"
  /\ pc' = "complete" /\ todo' = batch.items
  /\ UNCHANGED <<job, coordinator, batch, active, decided>> /\ NoFault

Raise ==
  /\ pc = "active"
  /\ pc' = "retry"
  /\ UNCHANGED <<job, coordinator, batch, active, todo, decided>> /\ NoFault

RetriesExhausted == batch.count + 1 > RetryLimit

HandleFailure ==
  /\ pc = "retry"
  /\ active' = FALSE
  /\ \/ /\ stop
        /\ pc' = "release" /\ todo' = batch.items
        /\ UNCHANGED <<retries, batch>>
     \/ /\ ~stop /\ RetriesExhausted
        /\ pc' = "fail" /\ todo' = batch.items
        /\ UNCHANGED <<retries, batch>>
     \/ /\ ~stop /\ ~RetriesExhausted
        /\ retries' = Append(retries, [batch EXCEPT !.count = @ + 1])
        /\ pc' = "wait" /\ batch' = NoBatch
        /\ UNCHANGED todo
  /\ UNCHANGED <<job, admitted, putting, queue, stop, me, decided>> /\ NoFault

-----------------------------------------------------------------------------
(***************************************************************************)
(* Deliveries are completed, released and failed one row at a time.        *)
(***************************************************************************)
Complete(t) ==
  /\ pc = "complete" /\ t \in todo
  /\ complete_motion_trigger(t, me)
  /\ todo' = todo \ {t}
  /\ UNCHANGED <<coordinator, pc, batch, active, decided>> /\ NoFault

\* A delete raises half-way: an active batch is retried as a whole, one with
\* an incident is left to its leases.
CompleteFails ==
  /\ pc = "complete" /\ todo # {}
  /\ Fault
  /\ todo' = {}
  /\ IF active THEN pc' = "retry" /\ UNCHANGED batch
               ELSE pc' = "wait" /\ batch' = NoBatch
  /\ UNCHANGED <<job, coordinator, active, decided>>

Release(t) ==
  /\ pc = "release" /\ t \in todo
  /\ release_motion_trigger(t, me)
  /\ todo' = todo \ {t}
  /\ UNCHANGED <<coordinator, pc, batch, active, decided>> /\ NoFault

Fail(t) ==
  /\ pc = "fail" /\ t \in todo
  /\ fail_motion_trigger(t, me)
  /\ todo' = todo \ {t}
  /\ UNCHANGED <<coordinator, pc, batch, active, decided>> /\ NoFault

Settled ==
  /\ pc \in {"complete", "release", "fail"} /\ todo = {}
  /\ pc' = IF pc = "release" THEN "stopped" ELSE "wait"
  /\ batch' = NoBatch /\ active' = FALSE
  /\ UNCHANGED <<job, coordinator, todo, decided>> /\ NoFault

-----------------------------------------------------------------------------
(***************************************************************************)
(* MotionRuntimeService: stop, clean restart; and the crash of the process.*)
(***************************************************************************)
RequestStop ==
  /\ ~stop /\ Fault
  /\ stop' = TRUE
  /\ queue' = IF Len(queue) < QueueSize THEN Append(queue, Stop) ELSE queue
  /\ UNCHANGED <<job, admitted, putting, retries, me, worker>>

\* wait_stopped resets the coordinator once worker and producers are gone;
\* start clears it again and runs a new worker with the same lease owner.
Restart ==
  /\ stop /\ pc = "stopped" /\ putting = {}
  /\ stop' = FALSE /\ queue' = <<>> /\ retries' = <<>>
  /\ pc' = "wait" /\ batch' = NoBatch /\ active' = FALSE /\ todo' = {}
  /\ UNCHANGED <<job, admitted, putting, me, decided>> /\ NoFault

\* Only the rows survive; the next process leases under another name.
Crash ==
  /\ Fault
  /\ me' = me + 1
  /\ putting' = {} /\ queue' = <<>> /\ retries' = <<>> /\ stop' = FALSE
  /\ pc' = "wait" /\ batch' = NoBatch /\ active' = FALSE /\ todo' = {}
  /\ UNCHANGED <<job, admitted, decided>>

Tick == TimePasses /\ UNCHANGED <<coordinator, worker, faults>>

-----------------------------------------------------------------------------
Producer == Admit \/ \E t \in Trigger, e \in BOOLEAN : Put(t, e)

Worker ==
  \/ TakeRetry \/ TakeQueued \/ ClaimAnyDue \/ Exit
  \/ StopAfterClaim \/ StartCoalescing \/ CoalesceAgain
  \/ CoalesceQueued \/ Coalesced
  \/ StopWhileActive \/ Decide \/ Raise \/ HandleFailure
  \/ \E t \in Trigger : Complete(t) \/ Release(t) \/ Fail(t)
  \/ Settled

Faulty == TakeQueuedFails \/ CoalesceFails \/ CompleteFails \/ RequestStop \/ Crash

Next == Producer \/ Worker \/ Restart \/ Tick \/ Faulty

Spec == Init /\ [][Next]_vars

\* Threads keep running, time passes, and a stopped camera is started again.
\* Nothing forces an admission, and nothing forces a fault.
Fairness ==
  /\ \A t \in Trigger : WF_vars(\E e \in BOOLEAN : Put(t, e))
  /\ WF_vars(Worker)
  /\ WF_vars(Restart)
  /\ WF_vars(Tick)

FairSpec == Spec /\ Fairness
-----------------------------------------------------------------------------
(***************************************************************************)
(* Properties.                                                             *)
(***************************************************************************)
Retrying == UNION {retries[i].items : i \in DOMAIN retries}

\* No trigger waits for a retry while it is in the batch in hand.  The ledger
\* lets an owner claim its own rows again, so only the order in which
\* next_trigger serves retries and wake-ups prevents a concurrent second copy.
OneCopy ==
  /\ batch.items \cap Retrying = {}
  /\ Len(retries) <= 1

\* The rows and the decisions taken implement reliable delivery: a row is
\* deleted only after its trigger was decided, failed rows stay failed, and
\* neither comes back.
PhaseOf(t) ==
  IF t > admitted THEN "idle"
  ELSE IF ~Exists(t) THEN "settled"
  ELSE IF job[t].state = "failed" THEN "given up"
  ELSE IF t \in decided THEN "decided" ELSE "admitted"

Abstract == INSTANCE ReliableDelivery WITH phase <- [t \in Trigger |-> PhaseOf(t)]

Reliable == Abstract!Spec

\* Every admitted trigger is finally decided and forgotten, or given up after
\* MaxAttempts, whatever stops, crashes and database errors came between.  An
\* error inside the exception handler of run, which ends the thread, is not
\* among them.
EventuallySettled ==
  \A t \in Trigger :
    (t <= admitted) ~> (PhaseOf(t) \in {"settled", "given up"})
=============================================================================
