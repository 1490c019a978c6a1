-------------------------- MODULE MotionIncidents --------------------------
(***************************************************************************)
(* From a motion decision to an incident on one camera.  The decision      *)
(* worker handles a trigger (MotionDecisionHandler.handle), stores its     *)
(* event and hands mandatory delayed object discovery to the durable       *)
(* ledger; the refinement worker (MotionDecisionCoordinator) claims jobs,  *)
(* refines, finalizes and completes them.  A trigger whose delivery was    *)
(* not completed is delivered again (MotionDelivery), so an intent may be  *)
(* handled more than once, before, while and after its job is refined.     *)
(***************************************************************************)
EXTENDS DetectionJobs

CONSTANTS NoIntent,  \* what an idle worker works on
          MaxFaults  \* bound on crashes, stops and raising calls

ASSUME IncidentsAssumption == NoIntent \notin Intent /\ MaxFaults \in Nat

VARIABLES
  delivery,   \* intent -> what became of its trigger
  handled,    \* intent -> how often it was handled, up to twice
  events,     \* intent -> the keys it has an event under
  live,       \* the decision worker
  refiner,    \* the refinement worker
  finalized,  \* intents whose refinement completion was recorded
  stop,       \* the stop event of this generation
  me,         \* lease owner of the living coordinator
  faults      \* faults so far

jobs == <<row, stamps>>
runtime == <<stop, me>>
vars == <<jobs, delivery, handled, events, live, refiner, finalized, runtime, faults>>

Idle(worker) == worker.pc = "idle"

Live == [pc : {"idle", "handled", "admitted"}, intent : Intent \cup {NoIntent},
         existing : Existing, pending : BOOLEAN]
Refiner == [pc : {"idle", "refining", "finalizing", "completing", "stopped", "dead"},
            intent : Intent \cup {NoIntent}]

TypeOK ==
  /\ JobsTypeOK
  /\ delivery \in [Intent -> {"owed", "done", "failed"}]
  /\ handled \in [Intent -> 0 .. 2]
  /\ events \in [Intent -> SUBSET {"live", "job"}]
  /\ live \in Live /\ refiner \in Refiner
  /\ finalized \in SUBSET Intent
  /\ stop \in BOOLEAN /\ me \in Nat \ {NoOwner}
  /\ faults \in 0 .. MaxFaults

IdleLive == [pc |-> "idle", intent |-> NoIntent, existing |-> "none", pending |-> FALSE]
IdleRefiner == [pc |-> "idle", intent |-> NoIntent]

Init ==
  /\ JobsInit
  /\ delivery = [i \in Intent |-> "owed"]
  /\ handled = [i \in Intent |-> 0]
  /\ events = [i \in Intent |-> {}]
  /\ live = IdleLive /\ refiner = IdleRefiner
  /\ finalized = {} /\ stop = FALSE /\ me = 1 /\ faults = 0

Fault == /\ faults < MaxFaults
         /\ faults' = faults + 1
NoFault == UNCHANGED faults

-----------------------------------------------------------------------------
(***************************************************************************)
(* The decision worker: MotionDecisionCoordinator.process as called by     *)
(* _process_accepted.                                                      *)
(***************************************************************************)
\* add_event is "insert or ignore" under its key, so it is idempotent.
StoreEvent(i, key) == events' = [events EXCEPT ![i] = @ \cup {key}]

\* The batch is retried, delivered again or given up (MotionDelivery).
DeliveryRaises(i) ==
  /\ \E outcome \in {"owed", "failed"} : delivery' = [delivery EXCEPT ![i] = outcome]
  /\ live' = IdleLive

\* An event is stored unless an eligible object was required and not found;
\* the evidence provider says whether delayed discovery is pending.
Handle(i) ==
  /\ Idle(live) /\ ~stop /\ delivery[i] = "owed"
  /\ handled' = [handled EXCEPT ![i] = IF @ < 2 THEN @ + 1 ELSE @]
  /\ \E pending \in BOOLEAN :
       \/ /\ StoreEvent(i, "live")
          /\ live' = [pc |-> "handled", intent |-> i, existing |-> "live",
                      pending |-> pending]
       \/ /\ UNCHANGED events
          /\ live' = [pc |-> "handled", intent |-> i, existing |-> "none",
                      pending |-> pending]
  /\ UNCHANGED <<jobs, delivery, refiner, finalized, runtime>> /\ NoFault

\* handle raises, before or after the event was stored.
HandleRaises(i) ==
  /\ Idle(live) /\ ~stop /\ delivery[i] = "owed" /\ Fault
  /\ handled' = [handled EXCEPT ![i] = IF @ < 2 THEN @ + 1 ELSE @]
  /\ StoreEvent(i, "live") \/ UNCHANGED events
  /\ DeliveryRaises(i)
  /\ UNCHANGED <<jobs, refiner, finalized, runtime>>

\* Faulty variant of Queue, never used.
QueueForgettingEvent(i) ==
  \/ Insert(i, "none")
  \/ row[i].state # "none" /\ UNCHANGED jobs

\* _queue_refinement: inserted, or coalesced with the row that is there.
Queue(i) ==
  \/ Insert(i, live.existing)
  \/ Coalesces(i, live.existing) /\ UNCHANGED jobs

QueueRefinement ==
  /\ live.pc = "handled"
  /\ IF live.pending THEN Queue(live.intent) ELSE UNCHANGED jobs
  /\ live' = [live EXCEPT !.pc = "admitted"]
  /\ UNCHANGED <<delivery, handled, events, refiner, finalized, runtime>> /\ NoFault

\* The ledger refuses an identity collision or fails; the exception leaves
\* process before an incident counts as durable.
QueueRaises ==
  /\ live.pc = "handled" /\ live.pending
  /\ (Collides(live.intent, live.existing) /\ NoFault) \/ Fault
  /\ DeliveryRaises(live.intent)
  /\ UNCHANGED <<jobs, handled, events, refiner, finalized, runtime>>

\* The rest of _process_accepted.  With a durable incident the delivery is
\* completed even when an audit raises.
FinishDelivery ==
  /\ live.pc = "admitted"
  /\ delivery' = [delivery EXCEPT ![live.intent] = "done"]
  /\ live' = IdleLive
  /\ UNCHANGED <<jobs, handled, events, refiner, finalized, runtime>> /\ NoFault

FinishRaises ==
  /\ live.pc = "admitted" /\ live.existing = "none" /\ Fault
  /\ DeliveryRaises(live.intent)
  /\ UNCHANGED <<jobs, handled, events, refiner, finalized, runtime>>

-----------------------------------------------------------------------------
(***************************************************************************)
(* The refinement worker: _run_refinements.                                *)
(***************************************************************************)
decisions == <<delivery, handled, live>>

RefinerAt(pc) == refiner.pc = pc
Go(pc) == refiner' = [refiner EXCEPT !.pc = pc]
Leave(pc) == refiner' = [IdleRefiner EXCEPT !.pc = pc]
BackToIdle == refiner' = IdleRefiner

ExpireStale ==
  /\ Idle(refiner) /\ ~stop
  /\ \E i \in Intent : Stale(row[i])
  /\ expire_stale_detection_jobs
  /\ UNCHANGED <<stamps, decisions, events, refiner, finalized, runtime>> /\ NoFault

ClaimJob(i) ==
  /\ Idle(refiner) /\ ~stop
  /\ claim_detection_job(i, me)
  /\ refiner' = [pc |-> "refining", intent |-> i]
  /\ UNCHANGED <<stamps, decisions, events, finalized, runtime>> /\ NoFault

ClaimNothing ==
  /\ Idle(refiner) /\ ~stop
  /\ claim_finds_nothing(me)
  /\ UNCHANGED <<stamps, decisions, events, refiner, finalized, runtime>> /\ NoFault

\* The claim is not guarded: an error ends the thread.
ClaimRaises ==
  /\ Idle(refiner) /\ ~stop /\ Fault
  /\ Leave("dead")
  /\ UNCHANGED <<jobs, decisions, events, finalized, runtime>>

\* A job without an event stores one under its job id, not under the intent.
RefinementStores(i) ==
  \/ row[i].existing = "none" /\ StoreEvent(i, "job")
  \/ UNCHANGED events

\* refine raised, or returned no terminal evidence.
RefineInconclusive ==
  /\ RefinerAt("refining")
  /\ RefinementStores(refiner.intent)
  /\ retry_detection_job(refiner.intent, me)
  /\ BackToIdle
  /\ UNCHANGED <<stamps, decisions, finalized, runtime>> /\ NoFault

RefineConcludes ==
  /\ RefinerAt("refining")
  /\ RefinementStores(refiner.intent)
  /\ Go("finalizing")
  /\ UNCHANGED <<jobs, decisions, finalized, runtime>> /\ NoFault

\* Faulty variant of Finalize, never used.
FinalizeUnlessStopping ==
  /\ RefinerAt("finalizing")
  /\ IF stop THEN UNCHANGED finalized ELSE finalized' = finalized \cup {refiner.intent}
  /\ Go("completing")
  /\ UNCHANGED <<jobs, decisions, events, runtime>> /\ NoFault

\* The completion handler records the refined outcome.
Finalize ==
  /\ RefinerAt("finalizing") /\ ~stop
  /\ finalized' = finalized \cup {refiner.intent}
  /\ Go("completing")
  /\ UNCHANGED <<jobs, decisions, events, runtime>> /\ NoFault

\* The stop event was set, or the handler raised.
DeferCompletion ==
  /\ RefinerAt("finalizing")
  /\ (stop /\ NoFault) \/ Fault
  /\ retry_completion(refiner.intent, me)
  /\ BackToIdle
  /\ UNCHANGED <<stamps, decisions, events, finalized, runtime>>

CompleteJob ==
  /\ RefinerAt("completing")
  /\ complete_detection_job(refiner.intent, me)
  /\ BackToIdle
  /\ UNCHANGED <<stamps, decisions, events, finalized, runtime>> /\ NoFault

CompleteRaises ==
  /\ RefinerAt("completing") /\ Fault
  /\ retry_completion(refiner.intent, me)
  /\ BackToIdle
  /\ UNCHANGED <<stamps, decisions, events, finalized, runtime>>

\* retry_detection_job itself raises: the thread ends with its job leased.
RetryRaises ==
  /\ refiner.pc \in {"refining", "finalizing", "completing"} /\ Fault
  /\ Leave("dead")
  /\ UNCHANGED <<jobs, decisions, events, finalized, runtime>>

RefinerStops ==
  /\ Idle(refiner) /\ stop
  /\ Go("stopped")
  /\ UNCHANGED <<jobs, decisions, events, finalized, runtime>> /\ NoFault

-----------------------------------------------------------------------------
(***************************************************************************)
(* Stop, clean restart (the same lease owner), crash, pruning, time.       *)
(***************************************************************************)
RequestStop ==
  /\ ~stop /\ Fault
  /\ stop' = TRUE
  /\ UNCHANGED <<jobs, decisions, events, refiner, finalized, me>>

Restart ==
  /\ stop /\ Idle(live) /\ refiner.pc \in {"stopped", "dead"}
  /\ stop' = FALSE /\ BackToIdle
  /\ UNCHANGED <<jobs, decisions, events, finalized, me>> /\ NoFault

Crash ==
  /\ Fault
  /\ me' = me + 1 /\ stop' = FALSE
  /\ live' = IdleLive /\ BackToIdle
  /\ UNCHANGED <<jobs, delivery, handled, events, finalized>>

\* Pruning waits a week, longer than a delivery stays owed.
PruneJob(i) ==
  /\ delivery[i] # "owed" /\ Idle(refiner) /\ ~stop
  /\ Prune(i)
  /\ UNCHANGED <<stamps, decisions, events, refiner, finalized, runtime>> /\ NoFault

Tick ==
  /\ TimePasses
  /\ UNCHANGED <<stamps, decisions, events, refiner, finalized, runtime, faults>>

-----------------------------------------------------------------------------
DecisionWorker ==
  (\E i \in Intent : Handle(i)) \/ QueueRefinement \/ FinishDelivery

RefinementWorker ==
  \/ ExpireStale \/ (\E i \in Intent : ClaimJob(i)) \/ ClaimNothing
  \/ RefineInconclusive \/ RefineConcludes \/ Finalize \/ DeferCompletion
  \/ CompleteJob \/ RefinerStops

Faulty ==
  \/ \E i \in Intent : HandleRaises(i)
  \/ QueueRaises \/ FinishRaises \/ ClaimRaises \/ CompleteRaises \/ RetryRaises
  \/ RequestStop \/ Crash

Next ==
  \/ DecisionWorker \/ RefinementWorker \/ Faulty \/ Restart \/ Tick
  \/ \E i \in Intent : PruneJob(i)

Spec == Init /\ [][Next]_vars

\* The threads keep running, time passes, and a stopped camera is started
\* again.  Nothing restarts a refinement thread that died.
Fairness ==
  /\ WF_vars(DecisionWorker) /\ WF_vars(QueueRaises)
  /\ WF_vars(RefinementWorker)
  /\ WF_vars(Restart) /\ WF_vars(Tick)

FairSpec == Spec /\ Fairness
-----------------------------------------------------------------------------
(***************************************************************************)
(* Properties.                                                             *)
(***************************************************************************)
\* A job is marked completed only after its outcome was recorded by the
\* completion handler, whichever stop, crash or retry came between.
CompletedIsFinalized ==
  \A i \in Intent : row[i].state = "completed" => i \in finalized

\* A trigger that announced delayed discovery is not forgotten before the
\* discovery is durable: a job of the same occurrence is in the ledger.
DelayedEvidenceAdmitted ==
  [][\A i \in Intent :
       (delivery[i] = "owed" /\ delivery'[i] = "done" /\ live.pending)
         => row[i].state # "none" /\ row[i].existing = live.existing]_vars

\* Two incidents for one intent take a second delivery: as long as its
\* trigger was handled once, refinement enriches the event that is there.
DuplicateNeedsRedelivery ==
  \A i \in Intent : events[i] = {"live", "job"} => handled[i] > 1

\* Starting to refine.
Starts(i) == Idle(refiner) /\ refiner'.pc = "refining" /\ refiner'.intent = i

\* Refinement starts only on evidence younger than the maximum age, except
\* that a restarted thread may resume a job it still holds the lease of.
ClaimIsFresh ==
  [][\A i \in Intent : Starts(i) =>
       \/ row[i].age < MaxAge
       \/ row[i].owner = me /\ row[i].lease > 0]_vars

\* A job is never refined by two processes: one that was running when its
\* process died ends as stale, because its lease outlives its maximum age.
NoTakeOver ==
  [][\A i \in Intent : Starts(i) =>
       row[i].state = "queued" \/ row[i].owner = me]_vars

\* A coordinator holds one lease at a time: a thread that is started again
\* resumes the job its predecessor left behind before it takes new work, so
\* no job sits leased while the worker serves a stream of newer ones.
OneLease ==
  \A i, j \in Intent :
    (row[i].state = "running" /\ row[j].state = "running"
       /\ row[i].owner = me /\ row[j].owner = me) => i = j

\* Every job comes to an end, unless the refinement thread has died: nothing
\* notices that before the camera is stopped.
EveryJobSettles ==
  \A i \in Intent :
    (row[i].state \in {"queued", "running"}) ~>
      (row[i].state \in Terminal \cup {"none"} \/ RefinerAt("dead"))

=============================================================================
