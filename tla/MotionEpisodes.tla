--------------------------- MODULE MotionEpisodes ---------------------------
(***************************************************************************)
(* Admission of motion on one camera: MotionEpisodeController decides      *)
(* which observation starts a detection request, and the parties around it *)
(* - camera callbacks (MotionEventIngressService), the EMA analysis thread *)
(* and the decision worker - move that request along.  All of them share   *)
(* one episode under one lock, but reserve, enqueue and acknowledge in     *)
(* separate steps.                                                         *)
(*                                                                         *)
(* All enqueue without eviction: with a durable store the coordinator      *)
(* takes a trigger or raises; without one a full queue turns it down, and  *)
(* the analysis thread answers a trigger that was turned down twice.       *)
(*                                                                         *)
(* An intent id is <<incarnation, sequence, request>>.  Whether the        *)
(* episode gap has passed, and whether cooldown, rate limit or the         *)
(* geometry of a follow-up turn an EMA observation down, is a free choice. *)
(***************************************************************************)
EXTENDS Naturals, FiniteSets

CONSTANTS Callback,      \* camera callbacks that may run at once
          Analysis,      \* the EMA analysis thread
          MaxFollowups,  \* maximum_followups (2)
          MaxSequence,   \* bound on episodes of one incarnation
          MaxFaults      \* bound on crashes, stops and failures

ASSUME EpisodesAssumption ==
  /\ IsFiniteSet(Callback) /\ Analysis \notin Callback
  /\ MaxFollowups \in Nat /\ MaxSequence \in Nat /\ MaxFaults \in Nat

VARIABLES
  inc,        \* incarnation_id of the living controller
  seq,        \* its _sequence
  ep,         \* its _episode
  producer,   \* callback or analysis thread -> what it is doing
  durable,    \* the coordinator has a durable store, as the manager's has
  rows,       \* intents with a row in motion_trigger_jobs, else a wake-up
  worker,     \* the decision worker
  contexts,   \* completion contexts of queued refinements
  accepting,  \* accepting_motion_events
  faults      \* faults so far

controller == <<inc, seq, ep>>
vars == <<controller, producer, durable, rows, worker, contexts, accepting, faults>>

Producer == Callback \cup {Analysis}
NoIntent == <<0, 0, 0>>
Intent == Nat \X Nat \X Nat
NoEpisodeOf == <<0, 0>>  \* no linked incident, no managed episode
EpisodeOf(i) == <<i[1], i[2]>>

InFlightStatus == {"reserved", "admitted", "running"}
Ended == {"completed", "failed"}

NoEpisode == [status |-> "none", seq |-> 0, requests |-> 0, followups |-> 0,
              intent |-> NoIntent, incident |-> NoEpisodeOf]
IdleProducer == [pc |-> "idle", intent |-> NoIntent, admitted |-> FALSE]
IdleWorker == [pc |-> "idle", intent |-> NoIntent, managed |-> NoEpisodeOf]

Init ==
  /\ inc = 1 /\ seq = 0 /\ ep = NoEpisode
  /\ producer = [p \in Producer |-> IdleProducer]
  /\ durable \in BOOLEAN
  /\ rows = {} /\ worker = IdleWorker /\ contexts = {}
  /\ accepting = TRUE /\ faults = 0

Fault == /\ faults < MaxFaults
         /\ faults' = faults + 1
NoFault == UNCHANGED faults

InFlight == ep.status \in InFlightStatus

-----------------------------------------------------------------------------
(***************************************************************************)
(* The controller.                                                         *)
(***************************************************************************)
\* _require_intent: every transition is refused for another intent.
Current(i) == ep.intent = i /\ i # NoIntent

RollsOver(lapsed) == ~InFlight /\ (lapsed \/ ep.status = "none")

\* _episode_for: the episode an observation belongs to.
EpisodeFor(lapsed) ==
  IF RollsOver(lapsed) THEN [NoEpisode EXCEPT !.status = "open", !.seq = seq + 1]
                       ELSE ep

\* The episode e becomes the controller's, MaxSequence bounds new ones.
Becomes(e) == /\ e.seq <= MaxSequence
              /\ ep' = e
              /\ seq' = IF e.seq > seq THEN e.seq ELSE seq
              /\ UNCHANGED inc

IsFollowup(e) == e.requests > 0

Reserved(e) ==
  [e EXCEPT !.status = "reserved", !.requests = @ + 1,
            !.followups = IF IsFollowup(e) THEN @ + 1 ELSE @,
            !.intent = <<inc, e.seq, e.requests + 1>>]

\* Faulty variant of Aborted, never used.
AbortedWithoutRefund(e) == [e EXCEPT !.status = "aborted", !.intent = NoIntent]

Aborted(e) ==
  [e EXCEPT !.status = "aborted", !.intent = NoIntent, !.requests = @ - 1,
            !.followups = IF e.requests > 1 THEN @ - 1 ELSE @]

\* acknowledge_admission and abort, for the current intent only.
Acknowledge(i, admitted) ==
  /\ ep' = IF ~Current(i) THEN ep
           ELSE IF admitted THEN [ep EXCEPT !.status = "admitted"] ELSE Aborted(ep)
  /\ UNCHANGED <<inc, seq>>

\* Faulty variant of Transition, never used.
TransitionOnce(i, status) ==
  /\ ep' = IF Current(i) /\ ep.status # "running"
             THEN [ep EXCEPT !.status = status] ELSE ep
  /\ UNCHANGED <<inc, seq>>

Transition(i, status) ==
  /\ ep' = IF Current(i) THEN [ep EXCEPT !.status = status] ELSE ep
  /\ UNCHANGED <<inc, seq>>

\* link_incident compares the sequence, nothing else.
Links(managed) == /\ ep.status # "none" /\ managed # NoEpisodeOf
                  /\ managed[2] = ep.seq

Linked(managed) == IF Links(managed) THEN [ep EXCEPT !.incident = managed] ELSE ep

-----------------------------------------------------------------------------
(***************************************************************************)
(* Producers.  A callback that was begun before a stop runs to its end.    *)
(***************************************************************************)
Stays == UNCHANGED <<durable, rows, worker, contexts, accepting>>

Sets(p, r) == producer' = [producer EXCEPT ![p] = r]
Holds(i) == [pc |-> "reserved", intent |-> i, admitted |-> FALSE]

BeginIngress(p) ==
  /\ p \in Callback /\ producer[p].pc = "idle" /\ accepting
  /\ Sets(p, [IdleProducer EXCEPT !.pc = "entered"])
  /\ UNCHANGED controller /\ Stays /\ NoFault

\* MotionEventIngressService.handle goes on only with REQUEST_RESERVED.
ObserveCamera(p, lapsed) ==
  /\ producer[p].pc = "entered"
  /\ LET e == EpisodeFor(lapsed) IN
       \/ /\ e.status \in InFlightStatus \cup Ended
          /\ Becomes(e) /\ Sets(p, IdleProducer)
       \/ /\ e.status \notin InFlightStatus \cup Ended
          /\ Becomes(Reserved(e))
          /\ Sets(p, IF IsFollowup(e) THEN IdleProducer ELSE Holds(ep'.intent))
  /\ Stays /\ NoFault

\* Merged, turned down, or reserved; a follow-up of an ended request only
\* within the limit.
ObserveEma(lapsed) ==
  /\ producer[Analysis].pc = "idle" /\ accepting
  /\ LET e == EpisodeFor(lapsed) IN
       \/ Becomes(e) /\ UNCHANGED producer
       \/ /\ e.status \notin InFlightStatus
          /\ e.status \in Ended => e.followups < MaxFollowups
          /\ Becomes(Reserved(e)) /\ Sets(Analysis, Holds(ep'.intent))
  /\ Stays /\ NoFault

\* What the coordinator returns.
Answered(p, admitted) ==
  Sets(p, [producer[p] EXCEPT !.pc = "queued", !.admitted = admitted])

\* The row is durable before the producer acknowledges it.  A row of the same
\* occurrence counts as inserted.
Enqueue(p) ==
  /\ producer[p].pc = "reserved"
  /\ durable => producer[p].intent \notin rows
  /\ rows' = rows \cup {producer[p].intent}
  /\ Answered(p, TRUE)
  /\ UNCHANGED <<controller, durable, worker, contexts, accepting>> /\ NoFault

\* Queue.Full: a row is admitted without its wake-up, a trigger without a row
\* is turned down.
EnqueueFull(p) ==
  /\ producer[p].pc = "reserved" /\ ~durable /\ Fault
  /\ Answered(p, FALSE)
  /\ UNCHANGED controller /\ Stays

\* Another occurrence holds the identity, the ledger fails, or the analysis
\* thread finds the camera stopping: only the finally clause is left.
EnqueueRaises(p) ==
  /\ producer[p].pc = "reserved"
  /\ \/ durable /\ producer[p].intent \in rows /\ NoFault
     \/ p = Analysis /\ ~accepting /\ NoFault
     \/ durable /\ Fault
  /\ Sets(p, [producer[p] EXCEPT !.pc = "raised"])
  /\ UNCHANGED controller /\ Stays

\* The acknowledgement of what enqueue returned.  The analysis thread makes
\* it inside its try block.
AcknowledgeAdmission(p) ==
  /\ producer[p].pc = "queued"
  /\ Acknowledge(producer[p].intent, producer[p].admitted)
  /\ Sets(p, IF p = Analysis /\ ~producer[p].admitted
                THEN [producer[p] EXCEPT !.pc = "again"] ELSE IdleProducer)
  /\ Stays /\ NoFault

\* The finally clause of a trigger that was not enqueued, for the analysis
\* thread also of one it has refused before.
AcknowledgeRefused(p) ==
  /\ producer[p].pc \in {"raised", "again"}
  /\ Acknowledge(producer[p].intent, FALSE)
  /\ Sets(p, IdleProducer)
  /\ Stays /\ NoFault

-----------------------------------------------------------------------------
(***************************************************************************)
(* The decision worker.  It may take a row as soon as it is durable, and   *)
(* rows of earlier generations and processes as well.                      *)
(***************************************************************************)
Take(i) ==
  /\ worker.pc = "idle" /\ accepting /\ i \in rows
  /\ Transition(i, "running")
  /\ worker' = [pc |-> "running", intent |-> i,
                managed |-> IF Current(i) THEN EpisodeOf(i) ELSE NoEpisodeOf]
  /\ UNCHANGED <<producer, durable, rows, contexts, accepting>> /\ NoFault

\* An incident was stored: link it to the episode the batch was decided in,
\* and perhaps leave the rest to refinement, which links it again.
LinkLive ==
  /\ worker.pc = "running"
  /\ ep' = Linked(worker.managed)
  /\ \/ contexts' = contexts \cup ({worker.managed} \ {NoEpisodeOf})
     \/ UNCHANGED contexts
  /\ UNCHANGED <<inc, seq, producer, durable, rows, worker, accepting>> /\ NoFault

\* Faulty variant of Finish, never used: a failed request is refunded.
FinishRefunding(outcome) ==
  /\ worker.pc = "running"
  /\ \/ outcome = "failed" /\ Acknowledge(worker.intent, FALSE)
     \/ outcome # "failed" /\ Transition(worker.intent, outcome)
  /\ worker' = [worker EXCEPT !.pc = outcome]
  /\ UNCHANGED <<producer, durable, rows, contexts, accepting>> /\ NoFault

Finish(outcome) ==
  /\ worker.pc = "running"
  /\ Transition(worker.intent, outcome)
  /\ worker' = [worker EXCEPT !.pc = outcome]
  /\ UNCHANGED <<producer, durable, rows, contexts, accepting>> /\ NoFault

\* complete_deliveries or fail_deliveries; a failed row with attempts left is
\* due again (MotionDelivery), and so is one whose delete raised.
Settle ==
  /\ worker.pc \in Ended
  /\ worker' = IdleWorker
  /\ \/ rows' = rows \ {worker.intent} /\ NoFault
     \/ Fault /\ UNCHANGED rows
  /\ UNCHANGED <<controller, producer, durable, contexts, accepting>>

\* The row of the batch in hand is released; its request is aborted, or
\* completed when the batch had been retried before.
AbortOnStop ==
  /\ worker.pc = "running" /\ ~accepting
  /\ Acknowledge(worker.intent, FALSE) \/ Transition(worker.intent, "completed")
  /\ worker' = IdleWorker
  /\ UNCHANGED <<producer, durable, rows, contexts, accepting>> /\ NoFault

\* _record_refined_outcome of a refinement, perhaps of an earlier process.
LinkRefined(c) ==
  /\ c \in contexts
  /\ contexts' = contexts \ {c}
  /\ ep' = Linked(c)
  /\ UNCHANGED <<inc, seq, producer, durable, rows, worker, accepting>> /\ NoFault

-----------------------------------------------------------------------------
(***************************************************************************)
(* Lifecycle.                                                              *)
(***************************************************************************)
StopRequested ==
  /\ accepting /\ Fault
  /\ accepting' = FALSE
  /\ UNCHANGED <<controller, producer, durable, rows, worker, contexts>>

\* wait_stopped waits for callbacks and threads before it resets the episode
\* controller; start then opens the next generation.
Restart ==
  /\ ~accepting /\ worker.pc = "idle"
  /\ \A p \in Producer : producer[p].pc = "idle"
  /\ ep' = NoEpisode /\ accepting' = TRUE
  /\ rows' = IF durable THEN rows ELSE {}
  /\ UNCHANGED <<inc, seq, producer, durable, worker, contexts>> /\ NoFault

\* The analysis thread saw the clock jump.
ResetTimebase ==
  /\ producer[Analysis].pc = "idle" /\ accepting /\ Fault
  /\ seq < MaxSequence
  /\ ep' = NoEpisode /\ seq' = seq + 1
  /\ UNCHANGED <<inc, producer, durable, rows, worker, contexts, accepting>>

Crash ==
  /\ Fault
  /\ inc' = inc + 1 /\ seq' = 0 /\ ep' = NoEpisode
  /\ producer' = [p \in Producer |-> IdleProducer]
  /\ worker' = IdleWorker /\ accepting' = TRUE
  /\ rows' = IF durable THEN rows ELSE {}
  /\ UNCHANGED <<durable, contexts>>

-----------------------------------------------------------------------------
Observe ==
  \/ \E p \in Callback : BeginIngress(p)
  \/ \E lapsed \in BOOLEAN : ObserveEma(lapsed)

Produce(p) ==
  \/ \E lapsed \in BOOLEAN : p \in Callback /\ ObserveCamera(p, lapsed)
  \/ Enqueue(p) \/ EnqueueFull(p) \/ EnqueueRaises(p)
  \/ AcknowledgeAdmission(p) \/ AcknowledgeRefused(p)

Decide ==
  \/ \E i \in rows : Take(i)
  \/ LinkLive \/ AbortOnStop \/ Settle
  \/ \E outcome \in Ended : Finish(outcome)

Next ==
  \/ Observe \/ (\E p \in Producer : Produce(p))
  \/ Decide \/ (\E c \in contexts : LinkRefined(c))
  \/ StopRequested \/ Restart \/ ResetTimebase \/ Crash

Spec == Init /\ [][Next]_vars

\* Threads run, and a batch in hand is finished; nothing forces motion.
Fairness ==
  /\ \A p \in Producer : WF_vars(Produce(p))
  /\ WF_vars(\E i \in rows : Take(i))
  /\ WF_vars(AbortOnStop \/ \E outcome \in Ended : Finish(outcome))
  /\ WF_vars(Settle) /\ WF_vars(Restart)

FairSpec == Spec /\ Fairness
-----------------------------------------------------------------------------
(***************************************************************************)
(* Properties.                                                             *)
(***************************************************************************)
\* Refunds and reservations balance: an episode never spends more follow-ups
\* than it may, through any mix of aborts, camera notices and late answers.
FollowupBudget ==
  /\ ep.followups <= MaxFollowups
  /\ ep.followups > 0 => ep.requests = ep.followups + 1
  /\ ep.followups = 0 => ep.requests <= 1

\* The reservation a producer has not answered yet.
Holding(p) == producer[p].pc \in {"reserved", "queued", "raised"}

\* With a durable store two producers hold the same reservation, and so
\* answer for each other, only while the camera stops: there an abort refunds
\* a request whose producer has not acknowledged it yet.  Without one the
\* second answer of the analysis thread does the same at any time.
ReservationIsExclusive ==
  \A p, q \in Producer :
    (durable /\ accepting /\ p # q /\ Holding(p) /\ Holding(q))
      => producer[p].intent # producer[q].intent

\* A request whose row waits for the worker, or is in its hands, reaches a
\* terminal transition, so the episode accepts new requests again.
Carried == /\ ep.intent \in rows
           /\ worker.intent = ep.intent => worker.pc = "running"

CarriedRequestEnds == (InFlight /\ Carried) ~> ~InFlight

=============================================================================
