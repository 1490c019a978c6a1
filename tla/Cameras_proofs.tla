--------------------------- MODULE Cameras_proofs ---------------------------
(***************************************************************************)
(* Theorems about the cameras: the motion admission of one camera          *)
(* (MotionEpisodes), for any number of callbacks, episodes, follow-ups and *)
(* faults; the life cycle of one camera (CameraLifecycle), for any number  *)
(* of callers, threads, generations and faults; and the fleet the cameras  *)
(* belong to (CameraFleet), for any number of cameras and failures.        *)
(***************************************************************************)
EXTENDS MotionEpisodes, CameraFleet, CameraLifecycle, TLAPS

-----------------------------------------------------------------------------
(***************************************************************************)
(* MotionEpisodes: what the controller and its callers keep.               *)
(***************************************************************************)
Status == {"none", "open", "aborted"} \cup InFlightStatus \cup Ended
EpisodeId == Nat \X Nat

Episode == [status : Status, seq : Nat, requests : Nat, followups : Nat,
            intent : Intent, incident : EpisodeId]

\* The counters of an episode: every request after the first is a follow-up,
\* the request in force is counted, and an episode that a camera notice may
\* reserve has a follow-up left or has not made its first request.
Balanced(e) ==
  /\ e \in Episode
  /\ (e.requests = 0 /\ e.followups = 0) \/ e.requests = e.followups + 1
  /\ e.followups <= MaxFollowups
  /\ e.intent # NoIntent => e.requests > 0
  /\ e.status \in {"none", "open", "aborted"} =>
       e.requests = 0 \/ e.followups < MaxFollowups

Doing == [pc : {"idle", "entered", "reserved", "queued", "raised", "again"},
          intent : Intent, admitted : BOOLEAN]

\* What the controller and those who call it hand to each other.
Handed ==
  /\ inc \in Nat /\ seq \in Nat
  /\ producer \in [Producer -> Doing]
  /\ rows \subseteq Intent /\ contexts \subseteq EpisodeId
  /\ worker \in [pc : {"idle", "running"} \cup Ended, intent : Intent,
                 managed : EpisodeId]

Budget == Handed /\ Balanced(ep)

-----------------------------------------------------------------------------
\* The episode of the controller and the request in force.
EpisodeKnown ==
  /\ ep.seq <= seq
  /\ ep.status = "none" => ep.requests = 0
  /\ ep.status # "none" => ep.seq > 0
  /\ ep.intent \in {NoIntent, <<inc, ep.seq, ep.requests>>}

\* A reservation somebody holds is of this process and of an episode it has
\* begun; in the episode in force, of a request that is counted.
Counted(i) ==
  /\ i[1] = inc /\ i[2] \in 1 .. seq /\ i[3] > 0
  /\ accepting /\ i[2] = ep.seq => i[3] <= ep.requests

\* With a durable store enqueue takes a trigger or raises, so nobody answers
\* a second time.
AnsweredOnce(r) == r.pc # "again" /\ (r.pc = "queued" => r.admitted)

HeldAreCounted ==
  \A p \in Producer :
    /\ producer[p].intent # NoIntent => Counted(producer[p].intent)
    /\ producer[p].pc \in {"idle", "entered"} <=> producer[p].intent = NoIntent
    /\ AnsweredOnce(producer[p])

\* Two producers hold the same reservation only while the camera stops.
OneHolder ==
  \A p, q \in Producer :
    (p # q /\ accepting /\ producer[p].intent = producer[q].intent)
      => producer[p].intent = NoIntent

\* What holds of the reservations with a durable store.
Reservations == EpisodeKnown /\ HeldAreCounted /\ OneHolder

-----------------------------------------------------------------------------
(***************************************************************************)
(* What each transition makes of an episode.                               *)
(***************************************************************************)
LEMMA NoEpisodeBalanced ==
  /\ Balanced(NoEpisode) /\ NoIntent \in Intent
  /\ Balanced([NoEpisode EXCEPT !.status = "open"])
  BY EpisodesAssumption
  DEF EpisodesAssumption, Balanced, NoEpisode, Episode, Status, NoIntent, Intent,
      NoEpisodeOf, EpisodeId

\* A transition that neither reserves nor refunds.
LEMMA MovedBalanced ==
  ASSUME NEW e, Balanced(e), NEW s \in InFlightStatus \cup Ended
  PROVE  Balanced([e EXCEPT !.status = s])
  BY DEF Balanced, Episode, Status, InFlightStatus, Ended

LEMMA LinkedBalanced ==
  ASSUME Balanced(ep), NEW m \in EpisodeId
  PROVE  Balanced(Linked(m))
  <1>1. Balanced([ep EXCEPT !.incident = m])
    BY DEF Balanced, Episode
  <1> QED BY <1>1 DEF Linked

\* The refund of the request in force.
LEMMA AbortedBalanced ==
  ASSUME NEW e, Balanced(e), e.intent # NoIntent
  PROVE  Balanced(Aborted(e))
  <1>1. /\ e \in Episode /\ e.requests \in Nat /\ e.followups \in Nat
        /\ e.requests = e.followups + 1 /\ e.followups <= MaxFollowups
    BY DEF Balanced, Episode
  <1> DEFINE f == Aborted(e)
  <1>2. /\ f.status = "aborted" /\ f.intent = NoIntent
        /\ f.requests = e.requests - 1
        /\ f.followups = IF e.requests > 1 THEN e.followups - 1 ELSE e.followups
    BY <1>1 DEF Aborted, Episode
  <1>3. /\ f.requests \in Nat /\ f.followups \in Nat /\ f.followups <= MaxFollowups
        /\ (f.requests = 0 /\ f.followups = 0) \/ f.requests = f.followups + 1
        /\ f.requests = 0 \/ f.followups < MaxFollowups
    BY <1>1, <1>2, EpisodesAssumption DEF EpisodesAssumption
  <1>4. f \in Episode
    <2>1. /\ f = [e EXCEPT !.status = "aborted", !.intent = NoIntent,
                           !.requests = f.requests, !.followups = f.followups]
          /\ "aborted" \in Status
      BY <1>1, <1>2 DEF Aborted, Episode, Status
    <2> HIDE DEF f
    <2> QED BY <1>1, <1>3, <2>1, NoEpisodeBalanced DEF Episode
  <1> QED BY <1>2, <1>3, <1>4 DEF Balanced

\* A reservation where one may be made.
LEMMA ReservedBalanced ==
  ASSUME NEW e, Balanced(e), inc \in Nat,
         e.status \in {"none", "open", "aborted"} \/ e.followups < MaxFollowups
  PROVE  Balanced(Reserved(e))
  <1>1. /\ e \in Episode /\ e.requests \in Nat /\ e.followups \in Nat
        /\ (e.requests = 0 /\ e.followups = 0) \/ e.requests = e.followups + 1
        /\ e.followups <= MaxFollowups
        /\ e.requests = 0 \/ e.followups < MaxFollowups
    BY DEF Balanced, Episode
  <1> DEFINE f == Reserved(e)
             i == <<inc, e.seq, e.requests + 1>>
  <1>2. i \in Intent
    BY <1>1 DEF Episode, Intent
  <1> HIDE DEF i
  <1>3. /\ f.status = "reserved" /\ f.intent = i
        /\ f.requests = e.requests + 1
        /\ f.followups = IF e.requests > 0 THEN e.followups + 1 ELSE e.followups
    BY <1>1 DEF Reserved, IsFollowup, Episode, i
  <1>4. /\ f.requests \in Nat /\ f.followups \in Nat /\ f.followups <= MaxFollowups
        /\ f.requests = f.followups + 1 /\ f.requests > 0
    BY <1>1, <1>3, EpisodesAssumption DEF EpisodesAssumption
  <1>5. f \in Episode
    <2>1. /\ f = [e EXCEPT !.status = "reserved", !.intent = i,
                           !.requests = f.requests, !.followups = f.followups]
          /\ "reserved" \in Status
      BY <1>1, <1>3 DEF Reserved, Episode, Status, InFlightStatus
    <2> HIDE DEF f
    <2> QED BY <1>1, <1>2, <1>4, <2>1 DEF Episode
  <1> QED BY <1>3, <1>4, <1>5 DEF Balanced

LEMMA EpisodeForBalanced ==
  ASSUME Balanced(ep), seq \in Nat, NEW lapsed
  PROVE  Balanced(EpisodeFor(lapsed))
  <1>1. Balanced([NoEpisode EXCEPT !.status = "open", !.seq = seq + 1])
    <2> DEFINE n == seq + 1
               f == [NoEpisode EXCEPT !.status = "open", !.seq = n]
    <2>1. n \in Nat /\ NoEpisode \in Episode /\ "open" \in Status
      BY NoEpisodeBalanced DEF Balanced, Status
    <2> HIDE DEF n
    <2>2. f \in Episode
      BY <2>1 DEF Episode
    <2>3. f.requests = 0 /\ f.followups = 0 /\ f.intent = NoIntent
      BY DEF NoEpisode
    <2> HIDE DEF f
    <2>4. Balanced(f)
      BY <2>2, <2>3, EpisodesAssumption DEF EpisodesAssumption, Balanced
    <2> QED BY <2>4 DEF f, n
  <1> QED BY <1>1 DEF EpisodeFor

\* Acknowledgements and transitions of any intent.
LEMMA AcknowledgedBalanced ==
  ASSUME Budget, NEW i, NEW admitted, Acknowledge(i, admitted)
  PROVE  Balanced(ep') /\ UNCHANGED <<inc, seq>>
  <1>1. Balanced(ep) BY DEF Budget
  <1>2. CASE ~Current(i)
    BY <1>1, <1>2 DEF Acknowledge
  <1>3. CASE Current(i) /\ admitted
    <2>1. ep' = [ep EXCEPT !.status = "admitted"]
      BY <1>3 DEF Acknowledge
    <2> QED BY <1>1, <2>1, MovedBalanced DEF Acknowledge, InFlightStatus
  <1>4. CASE Current(i) /\ ~admitted
    <2>1. ep' = Aborted(ep)
      BY <1>4 DEF Acknowledge
    <2>2. ep.intent # NoIntent
      BY <1>4 DEF Current
    <2> QED BY <1>1, <2>1, <2>2, AbortedBalanced DEF Acknowledge
  <1> QED BY <1>2, <1>3, <1>4

LEMMA TransitionBalanced ==
  ASSUME Budget, NEW i, NEW s \in InFlightStatus \cup Ended, Transition(i, s)
  PROVE  Balanced(ep') /\ UNCHANGED <<inc, seq>>
  <1>1. Balanced(ep) BY DEF Budget
  <1>2. ep' = ep \/ ep' = [ep EXCEPT !.status = s]
    BY DEF Transition
  <1> QED BY <1>1, <1>2, MovedBalanced DEF Transition

LEMMA BecomesTyped ==
  ASSUME NEW e, Balanced(e), seq \in Nat, inc \in Nat, Becomes(e)
  PROVE  Balanced(ep') /\ seq' \in Nat /\ inc' \in Nat
  BY DEF Becomes, Balanced, Episode


LEMMA HandedValues ==
  /\ IdleProducer \in Doing /\ [IdleProducer EXCEPT !.pc = "entered"] \in Doing
  /\ \A i \in Intent : Holds(i) \in Doing /\ EpisodeOf(i) \in EpisodeId
  /\ IdleWorker \in [pc : {"idle", "running"} \cup Ended, intent : Intent,
                     managed : EpisodeId]
  /\ NoEpisodeOf \in EpisodeId
  BY NoEpisodeBalanced
  DEF IdleProducer, Doing, Holds, EpisodeOf, Intent, EpisodeId, IdleWorker, NoEpisodeOf

LEMMA SetsTyped ==
  ASSUME Handed, NEW p, NEW r \in Doing, Sets(p, r)
  PROVE  producer' \in [Producer -> Doing]
  BY DEF Handed, Sets

\* The budget holds initially.
LEMMA BudgetInit == Init => Budget
  <1> SUFFICES ASSUME Init PROVE Budget
    OBVIOUS
  <1>1. Handed
    BY HandedValues DEF Init, Handed
  <1> QED BY <1>1, NoEpisodeBalanced DEF Init, Budget

\* Producers keep it.
LEMMA ProducersKeepBudget ==
  ASSUME Budget, NEW p \in Producer,
         \/ BeginIngress(p) \/ Produce(p)
         \/ \E lapsed \in BOOLEAN : ObserveEma(lapsed)
  PROVE  Budget'
  <1>1. /\ Handed /\ Balanced(ep) /\ inc \in Nat /\ seq \in Nat
        /\ producer \in [Producer -> Doing] /\ producer[p] \in Doing
        /\ Analysis \in Producer /\ rows \subseteq Intent
    BY DEF Budget, Handed, Producer
  <1>2. CASE BeginIngress(p)
    <2>1. producer' \in [Producer -> Doing]
      BY <1>1, <1>2, HandedValues, SetsTyped DEF BeginIngress
    <2> QED BY <1>1, <1>2, <2>1 DEF BeginIngress, Stays, controller, Budget, Handed
  <1>3. ASSUME NEW lapsed \in BOOLEAN, ObserveCamera(p, lapsed)
        PROVE  Budget'
    <2> DEFINE e == EpisodeFor(lapsed)
    <2>1. Balanced(e)
      BY <1>1, EpisodeForBalanced
    <2>2. CASE Becomes(e) /\ Sets(p, IdleProducer)
      <3>1. producer' \in [Producer -> Doing]
        BY <1>1, <2>2, HandedValues, SetsTyped
      <3> HIDE DEF e
      <3>2. Balanced(ep') /\ seq' \in Nat /\ inc' \in Nat
        BY <1>1, <2>1, <2>2, BecomesTyped
      <3> QED BY <1>1, <1>3, <3>1, <3>2 DEF ObserveCamera, Stays, Budget, Handed
    <2>3. CASE /\ e.status \notin InFlightStatus \cup Ended
               /\ Becomes(Reserved(e))
               /\ Sets(p, IF IsFollowup(e) THEN IdleProducer ELSE Holds(ep'.intent))
      <3> HIDE DEF e
      <3>1. e.status \in {"none", "open", "aborted"}
        BY <2>1, <2>3 DEF Balanced, Episode, Status
      <3>2. Balanced(Reserved(e))
        BY <1>1, <2>1, <3>1, ReservedBalanced
      <3>3. Balanced(ep') /\ seq' \in Nat /\ inc' \in Nat
        BY <1>1, <2>3, <3>2, BecomesTyped
      <3>4. ep'.intent \in Intent
        BY <3>3 DEF Balanced, Episode
      <3>5. producer' \in [Producer -> Doing]
        BY <1>1, <2>3, <3>4, HandedValues, SetsTyped
      <3> QED BY <1>1, <1>3, <3>3, <3>5 DEF ObserveCamera, Stays, Budget, Handed
    <2> QED BY <1>3, <2>2, <2>3 DEF ObserveCamera
  <1>4. ASSUME NEW lapsed \in BOOLEAN, ObserveEma(lapsed)
        PROVE  Budget'
    <2> DEFINE e == EpisodeFor(lapsed)
    <2>1. Balanced(e)
      BY <1>1, EpisodeForBalanced
    <2>2. CASE Becomes(e) /\ UNCHANGED producer
      <3> HIDE DEF e
      <3>1. Balanced(ep') /\ seq' \in Nat /\ inc' \in Nat
        BY <1>1, <2>1, <2>2, BecomesTyped
      <3> QED BY <1>1, <1>4, <2>2, <3>1 DEF ObserveEma, Stays, Budget, Handed
    <2>3. CASE /\ e.status \notin InFlightStatus
               /\ e.status \in Ended => e.followups < MaxFollowups
               /\ Becomes(Reserved(e)) /\ Sets(Analysis, Holds(ep'.intent))
      <3> HIDE DEF e
      <3>1. e.status \in {"none", "open", "aborted"} \/ e.followups < MaxFollowups
        BY <2>1, <2>3 DEF Balanced, Episode, Status
      <3>2. Balanced(Reserved(e))
        BY <1>1, <2>1, <3>1, ReservedBalanced
      <3>3. Balanced(ep') /\ seq' \in Nat /\ inc' \in Nat
        BY <1>1, <2>3, <3>2, BecomesTyped
      <3>4. ep'.intent \in Intent
        BY <3>3 DEF Balanced, Episode
      <3>5. producer' \in [Producer -> Doing]
        BY <1>1, <2>3, <3>4, HandedValues, SetsTyped
      <3> QED BY <1>1, <1>4, <3>3, <3>5 DEF ObserveEma, Stays, Budget, Handed
    <2> QED BY <1>4, <2>2, <2>3 DEF ObserveEma
  <1>5. ASSUME NEW s \in Doing, Sets(p, s), UNCHANGED <<controller, worker, contexts>>,
               rows' \subseteq Intent
        PROVE  Budget'
    <2>1. producer' \in [Producer -> Doing]
      BY <1>1, <1>5, SetsTyped
    <2> QED BY <1>1, <1>5, <2>1 DEF controller, Budget, Handed
  <1>6. rows \cup {producer[p].intent} \subseteq Intent
    BY <1>1 DEF Doing
  <1>7. /\ \A admitted \in BOOLEAN :
             [producer[p] EXCEPT !.pc = "queued", !.admitted = admitted] \in Doing
        /\ [producer[p] EXCEPT !.pc = "raised"] \in Doing
        /\ [producer[p] EXCEPT !.pc = "again"] \in Doing
    BY <1>1, Zenon DEF Doing
  <1>8. CASE Enqueue(p) \/ EnqueueFull(p) \/ EnqueueRaises(p)
    <2>1. UNCHANGED <<controller, worker, contexts>> /\ rows' \subseteq Intent
      BY <1>1, <1>6, <1>8 DEF Enqueue, EnqueueFull, EnqueueRaises, Stays
    <2>2. \E s \in Doing : Sets(p, s)
      <3>1. \/ Answered(p, TRUE) \/ Answered(p, FALSE)
            \/ Sets(p, [producer[p] EXCEPT !.pc = "raised"])
        BY <1>8, Zenon DEF Enqueue, EnqueueFull, EnqueueRaises
      <3> QED BY <1>7, <3>1, Zenon DEF Answered
    <2> QED BY <1>5, <2>1, <2>2
  <1>9. CASE AcknowledgeAdmission(p) \/ AcknowledgeRefused(p)
    <2>1. Balanced(ep') /\ UNCHANGED <<inc, seq>>
      BY <1>9, AcknowledgedBalanced DEF AcknowledgeAdmission, AcknowledgeRefused
    <2>2. PICK s \in Doing : Sets(p, s)
      <3>1. \/ Sets(p, IdleProducer)
            \/ Sets(p, [producer[p] EXCEPT !.pc = "again"])
        BY <1>9 DEF AcknowledgeAdmission, AcknowledgeRefused
      <3> QED BY <1>7, <3>1, HandedValues, Zenon
    <2>3. producer' \in [Producer -> Doing]
      BY <1>1, <2>2, SetsTyped
    <2> QED BY <1>1, <1>9, <2>1, <2>3
            DEF AcknowledgeAdmission, AcknowledgeRefused, Stays, Budget, Handed
  <1> QED BY <1>2, <1>3, <1>4, <1>8, <1>9 DEF Produce

\* The worker, the refinements and the lifecycle keep it.
LEMMA OthersKeepBudget ==
  ASSUME Budget,
         \/ Decide \/ (\E c \in contexts : LinkRefined(c))
         \/ StopRequested \/ Restart \/ ResetTimebase \/ Crash
  PROVE  Budget'
  <1>1. /\ Handed /\ Balanced(ep) /\ inc \in Nat /\ seq \in Nat
        /\ rows \subseteq Intent /\ contexts \subseteq EpisodeId
        /\ worker \in [pc : {"idle", "running"} \cup Ended, intent : Intent,
                       managed : EpisodeId]
        /\ worker.managed \in EpisodeId
    BY DEF Budget, Handed
  <1>2. ASSUME NEW i \in rows, Take(i)
        PROVE  Budget'
    <2>1. Balanced(ep') /\ UNCHANGED <<inc, seq>>
      BY <1>2, TransitionBalanced DEF Take, InFlightStatus
    <2>2. worker' \in [pc : {"idle", "running"} \cup Ended, intent : Intent,
                       managed : EpisodeId]
      BY <1>1, <1>2, HandedValues DEF Take
    <2> QED BY <1>1, <1>2, <2>1, <2>2 DEF Take, Budget, Handed
  <1>3. CASE LinkLive
    <2>1. Balanced(ep')
      BY <1>1, <1>3, LinkedBalanced DEF LinkLive
    <2>2. contexts' \subseteq EpisodeId
      BY <1>1, <1>3 DEF LinkLive
    <2> QED BY <1>1, <1>3, <2>1, <2>2 DEF LinkLive, Budget, Handed
  <1>4. ASSUME NEW c \in contexts, LinkRefined(c)
        PROVE  Budget'
    <2>1. Balanced(ep')
      BY <1>1, <1>4, LinkedBalanced DEF LinkRefined
    <2> QED BY <1>1, <1>4, <2>1 DEF LinkRefined, Budget, Handed
  <1>5. CASE AbortOnStop
    <2>1. Balanced(ep') /\ UNCHANGED <<inc, seq>>
      BY <1>5, AcknowledgedBalanced, TransitionBalanced DEF AbortOnStop, Ended
    <2> QED BY <1>1, <1>5, <2>1, HandedValues DEF AbortOnStop, Budget, Handed
  <1>6. CASE Settle
    BY <1>1, <1>6, HandedValues DEF Settle, controller, Budget, Handed
  <1>7. ASSUME NEW outcome \in Ended, Finish(outcome)
        PROVE  Budget'
    <2>1. Balanced(ep') /\ UNCHANGED <<inc, seq>>
      BY <1>7, TransitionBalanced DEF Finish
    <2>2. worker' \in [pc : {"idle", "running"} \cup Ended, intent : Intent,
                       managed : EpisodeId]
      BY <1>1, <1>7 DEF Finish
    <2> QED BY <1>1, <1>7, <2>1, <2>2 DEF Finish, Budget, Handed
  <1>8. CASE StopRequested \/ Restart \/ ResetTimebase
    BY <1>1, <1>8, NoEpisodeBalanced
    DEF StopRequested, Restart, ResetTimebase, controller, Budget, Handed
  <1>9. CASE Crash
    BY <1>1, <1>9, NoEpisodeBalanced, HandedValues DEF Crash, Budget, Handed
  <1> QED BY <1>2, <1>3, <1>4, <1>5, <1>6, <1>7, <1>8, <1>9 DEF Decide

LEMMA BudgetNext ==
  ASSUME Budget, [Next]_vars
  PROVE  Budget'
  <1>1. CASE Next
    <2>1. Analysis \in Producer /\ Callback \subseteq Producer
      BY DEF Producer
    <2> QED BY <1>1, <2>1, ProducersKeepBudget, OthersKeepBudget DEF Next, Observe
  <1>2. CASE UNCHANGED vars
    BY <1>2 DEF vars, controller, Budget, Handed, Balanced
  <1> QED BY <1>1, <1>2

LEMMA BudgetCorrect == Spec => []Budget
  <1>1. Budget /\ [Next]_vars => Budget'
    BY BudgetNext
  <1> QED BY <1>1, BudgetInit, PTL DEF Spec

\* Refunds and reservations balance, for any number of follow-ups allowed, of
\* callbacks and of faults: whoever reserves without looking at the limit (a
\* camera notice, or motion after an abort) finds an episode whose last
\* follow-up was refunded.
THEOREM BudgetKept == Spec => []FollowupBudget
  <1>1. Budget => FollowupBudget
    <2> SUFFICES ASSUME Budget PROVE FollowupBudget
      OBVIOUS
    <2>1. /\ ep.requests \in Nat /\ ep.followups \in Nat
          /\ (ep.requests = 0 /\ ep.followups = 0) \/ ep.requests = ep.followups + 1
          /\ ep.followups <= MaxFollowups
      BY DEF Budget, Balanced, Episode
    <2> QED BY <2>1 DEF FollowupBudget
  <1> QED BY <1>1, BudgetCorrect, PTL


-----------------------------------------------------------------------------
(***************************************************************************)
(* Reservations.                                                           *)
(***************************************************************************)
LEMMA ReservationsInit == Init => Reservations
  BY DEF Init, Reservations, EpisodeKnown, HeldAreCounted, OneHolder,
         AnsweredOnce, NoEpisode, IdleProducer

\* A producer takes up r: what the others hold stays counted, and is not what
\* it holds now.
LEMMA SetsHeld ==
  ASSUME Budget, Reservations, NEW p \in Producer, NEW r \in Doing, Sets(p, r),
         UNCHANGED accepting,
         r.pc \in {"idle", "entered"} <=> r.intent = NoIntent,
         AnsweredOnce(r),
         r.intent # NoIntent => Counted(r.intent)',
         \A q \in Producer, i \in Intent :
           q # p /\ producer[q].intent = i /\ i # NoIntent =>
             Counted(i)' /\ (accepting => i # r.intent)
  PROVE  HeldAreCounted' /\ OneHolder'
  <1>1. producer \in [Producer -> Doing] /\ HeldAreCounted /\ OneHolder
    BY DEF Budget, Handed, Reservations
  <1>2. producer'[p] = r /\ \A q \in Producer : q # p => producer'[q] = producer[q]
    BY <1>1 DEF Sets
  <1>3. ASSUME NEW q \in Producer
        PROVE  /\ producer'[q].intent # NoIntent => Counted(producer[q].intent)'
               /\ producer'[q].pc \in {"idle", "entered"} <=> producer'[q].intent = NoIntent
               /\ AnsweredOnce(producer'[q])
    <2>1. PICK i \in Intent : producer'[q].intent = i
      BY <1>1, <1>2 DEF Doing
    <2>2. i # NoIntent => Counted(i)'
      BY <1>1, <1>2, <2>1
    <2>3. producer'[q].pc \in {"idle", "entered"} <=> producer'[q].intent = NoIntent
      BY <1>1, <1>2 DEF HeldAreCounted
    <2>4. AnsweredOnce(producer'[q])
      BY <1>1, <1>2 DEF HeldAreCounted
    <2> QED BY <2>1, <2>2, <2>3, <2>4 DEF Counted
  <1>4. HeldAreCounted'
    BY <1>3 DEF HeldAreCounted, AnsweredOnce
  <1>5. ASSUME accepting'
        PROVE  \A q, s \in Producer :
                 q # s /\ producer'[q].intent = producer'[s].intent
                   => producer'[q].intent = NoIntent
    <2>1. \A q \in Producer : q # p /\ producer[q].intent # NoIntent =>
                                producer[q].intent # r.intent
      BY <1>1, <1>5 DEF Doing
    <2> QED BY <1>1, <1>2, <1>5, <2>1 DEF OneHolder
  <1>6. OneHolder'
    BY <1>5 DEF OneHolder
  <1> QED BY <1>4, <1>6

\* The episode an observation belongs to is the one in force or a new one.
LEMMA EpisodeForKnown ==
  ASSUME Budget, Reservations, NEW lapsed
  PROVE  LET e == EpisodeFor(lapsed) IN
         \/ e = ep /\ ep.status # "none"
         \/ e.status = "open" /\ e.seq = seq + 1 /\ e.requests = 0 /\ e.intent = NoIntent
  BY DEF EpisodeFor, RollsOver, NoEpisode, InFlight, InFlightStatus

\* What an observation makes of the reservations.
LEMMA ObservedKnown ==
  ASSUME Budget, Reservations, NEW lapsed, UNCHANGED accepting, NEW e,
         e = EpisodeFor(lapsed), Becomes(e)
  PROVE  EpisodeKnown' /\ \A i \in Intent : Counted(i) => Counted(i)'
  <1>1. /\ inc \in Nat /\ seq \in Nat /\ ep.seq \in Nat /\ ep.requests \in Nat
        /\ EpisodeKnown
    BY DEF Budget, Handed, Balanced, Episode, Reservations
  <1>2. CASE e = ep /\ ep.status # "none"
    <2>1. ep' = ep /\ seq' = seq /\ inc' = inc
      BY <1>1, <1>2 DEF Becomes, EpisodeKnown
    <2> QED BY <1>1, <2>1 DEF EpisodeKnown, Counted
  <1>3. CASE /\ e.status = "open" /\ e.seq = seq + 1 /\ e.requests = 0
             /\ e.intent = NoIntent
    <2>1. ep' = e /\ seq' = seq + 1 /\ inc' = inc
      BY <1>1, <1>3 DEF Becomes
    <2>2. EpisodeKnown'
      BY <1>1, <1>3, <2>1 DEF EpisodeKnown
    <2>3. ASSUME NEW i \in Intent, Counted(i)
          PROVE  Counted(i)'
      <3>1. i[2] \in 1 .. seq /\ i[2] # seq + 1
        BY <1>1, <2>3 DEF Counted
      <3> QED BY <1>1, <1>3, <2>1, <2>3, <3>1 DEF Counted
    <2> QED BY <2>2, <2>3
  <1> QED BY <1>2, <1>3, EpisodeForKnown

\* What a reservation makes of them: the new one is nobody else's.
LEMMA ReservedKnown ==
  ASSUME Budget, Reservations, NEW lapsed, UNCHANGED accepting, NEW e,
         e = EpisodeFor(lapsed), Becomes(Reserved(e))
  PROVE  /\ EpisodeKnown' /\ ep'.intent \in Intent
         /\ \E n \in Intent : /\ n = ep'.intent /\ n # NoIntent /\ Counted(n)'
                              /\ \A i \in Intent : accepting /\ Counted(i) => i # n
         /\ \A i \in Intent : Counted(i) => Counted(i)'
  <1>1. /\ inc \in Nat /\ seq \in Nat /\ ep \in Episode /\ ep.seq \in Nat
        /\ ep.requests \in Nat /\ EpisodeKnown
    BY DEF Budget, Handed, Balanced, Episode, Reservations
  <1>2. Balanced(e)
    BY EpisodeForBalanced, <1>1 DEF Budget
  <1>3. e \in Episode /\ e.seq \in Nat /\ e.requests \in Nat
    BY <1>2 DEF Balanced, Episode
  <1>4. PICK n : n = <<inc, e.seq, e.requests + 1>>
    OBVIOUS
  <1>5. /\ n \in Intent /\ n[1] = inc /\ n[2] = e.seq /\ n[3] = e.requests + 1
        /\ n # NoIntent
    BY <1>1, <1>3, <1>4 DEF Intent, NoIntent
  <1>6. /\ Reserved(e).status = "reserved" /\ Reserved(e).seq = e.seq
        /\ Reserved(e).requests = e.requests + 1 /\ Reserved(e).intent = n
    <2>1. Reserved(e) = [e EXCEPT !.status = "reserved", !.requests = @ + 1,
                                  !.followups = IF IsFollowup(e) THEN @ + 1 ELSE @,
                                  !.intent = n]
      BY <1>4 DEF Reserved
    <2> QED BY <1>3, <2>1 DEF Episode
  <1>7. /\ ep'.status = "reserved" /\ ep'.seq = e.seq /\ ep'.requests = e.requests + 1
        /\ ep'.intent = n /\ inc' = inc
        /\ seq' = IF e.seq > seq THEN e.seq ELSE seq
    BY <1>6 DEF Becomes
  <1>8. \/ e = ep /\ ep.status # "none" /\ ep.seq > 0 /\ ep.seq <= seq /\ seq' = seq
        \/ e.seq = seq + 1 /\ e.requests = 0 /\ seq' = seq + 1
    <2>1. \/ e = ep /\ ep.status # "none"
          \/ e.seq = seq + 1 /\ e.requests = 0
      BY EpisodeForKnown
    <2> QED BY <1>1, <1>7, <2>1 DEF EpisodeKnown
  <1>9. e.seq > 0 /\ e.seq <= seq' /\ seq' \in Nat /\ seq <= seq'
    BY <1>1, <1>8
  <1>10. EpisodeKnown'
    <2>1. n = <<inc', ep'.seq, ep'.requests>>
      BY <1>4, <1>7
    <2> QED BY <1>3, <1>7, <1>9, <2>1 DEF EpisodeKnown
  <1>11. Counted(n)'
    BY <1>3, <1>5, <1>7, <1>9 DEF Counted
  <1>12. ASSUME NEW i \in Intent, Counted(i)
         PROVE  Counted(i)' /\ (accepting => i # n)
    <2>1. i[1] = inc /\ i[2] \in Nat /\ i[2] >= 1 /\ i[2] <= seq /\ i[3] \in Nat /\ i[3] > 0
      BY <1>1, <1>12 DEF Counted, Intent
    <2>2. accepting /\ i[2] = e.seq => i[3] <= e.requests
      BY <1>1, <1>8, <1>12, <2>1 DEF Counted
    <2>3. Counted(i)'
      BY <1>1, <1>3, <1>7, <1>9, <2>1, <2>2 DEF Counted
    <2>4. accepting => i # n
      BY <1>3, <1>5, <2>1, <2>2
    <2> QED BY <2>3, <2>4
  <1> QED BY <1>5, <1>7, <1>10, <1>11, <1>12

\* A step that leaves the counters of the episode alone.
LEMMA StillKnown ==
  ASSUME Reservations, UNCHANGED <<inc, seq>>, accepting' => accepting,
         /\ ep'.seq = ep.seq /\ ep'.requests = ep.requests /\ ep'.intent = ep.intent
         /\ ep'.status = "none" <=> ep.status = "none"
  PROVE  EpisodeKnown' /\ \A i \in Intent : Counted(i) => Counted(i)'
  <1>1. EpisodeKnown'
    BY DEF Reservations, EpisodeKnown
  <1>2. ASSUME NEW i \in Intent, Counted(i)
        PROVE  Counted(i)'
    BY <1>2 DEF Counted
  <1> QED BY <1>1, <1>2

\* A request acknowledged is refunded only for its own intent.
LEMMA AcknowledgedKnown ==
  ASSUME Budget, Reservations, NEW a, NEW admitted, Acknowledge(a, admitted),
         accepting' => accepting
  PROVE  /\ EpisodeKnown' /\ UNCHANGED <<inc, seq>>
         /\ \A i \in Intent : i # a \/ ~accepting => (Counted(i) => Counted(i)')
  <1>1. /\ inc \in Nat /\ seq \in Nat /\ ep \in Episode /\ ep.seq \in Nat
        /\ ep.requests \in Nat /\ EpisodeKnown /\ (ep.intent # NoIntent => ep.requests > 0)
    BY DEF Budget, Handed, Balanced, Episode, Reservations
  <1>2. CASE ~Current(a)
    BY <1>2, StillKnown DEF Acknowledge
  <1>3. CASE Current(a) /\ admitted
    <2>1. /\ ep'.status = "admitted" /\ ep'.seq = ep.seq /\ ep'.requests = ep.requests
          /\ ep'.intent = ep.intent /\ UNCHANGED <<inc, seq>>
      BY <1>1, <1>3 DEF Acknowledge, Episode
    <2>2. ep.status # "none"
      BY <1>1, <1>3 DEF Current, EpisodeKnown
    <2> QED BY <2>1, <2>2, StillKnown
  <1>4. CASE Current(a) /\ ~admitted
    <2>1. a = <<inc, ep.seq, ep.requests>> /\ ep.requests > 0
      BY <1>1, <1>4 DEF Current, EpisodeKnown
    <2>2. ep.seq > 0
      BY <1>1, <1>4 DEF Current, EpisodeKnown
    <2>3. ep' = Aborted(ep) /\ UNCHANGED <<inc, seq>>
      BY <1>4 DEF Acknowledge
    <2>4. /\ ep'.status = "aborted" /\ ep'.seq = ep.seq /\ ep'.intent = NoIntent
          /\ ep'.requests = ep.requests - 1
      BY <1>1, <2>3 DEF Aborted, Episode
    <2>5. EpisodeKnown'
      BY <1>1, <2>2, <2>3, <2>4 DEF EpisodeKnown
    <2>6. ASSUME NEW i \in Intent, i # a \/ ~accepting, Counted(i)
          PROVE  Counted(i)'
      <3>1. i = <<i[1], i[2], i[3]>> /\ i[3] \in Nat
        BY DEF Intent
      <3>2. accepting /\ i[2] = ep.seq => i[3] <= ep.requests /\ i[3] # ep.requests
        BY <2>1, <2>6, <3>1 DEF Counted
      <3>3. accepting' => accepting
        OBVIOUS
      <3>4. accepting' /\ i[2] = ep.seq => i[3] <= ep.requests - 1
        BY <1>1, <3>1, <3>2, <3>3
      <3> QED BY <2>3, <2>4, <2>6, <3>4 DEF Counted
    <2> QED BY <2>3, <2>5, <2>6
  <1> QED BY <1>2, <1>3, <1>4


\* Nobody takes up or gives up a reservation.
LEMMA HeldKept ==
  ASSUME Budget, Reservations, UNCHANGED producer, accepting' => accepting,
         EpisodeKnown', \A i \in Intent : Counted(i) => Counted(i)'
  PROVE  Reservations'
  <1>1. producer \in [Producer -> Doing] /\ HeldAreCounted /\ OneHolder
    BY DEF Budget, Handed, Reservations
  <1>2. ASSUME NEW q \in Producer, producer[q].intent # NoIntent
        PROVE  Counted(producer[q].intent)'
    <2>1. PICK i \in Intent : producer[q].intent = i
      BY <1>1 DEF Doing
    <2>2. Counted(i)'
      BY <1>1, <1>2, <2>1 DEF HeldAreCounted
    <2> QED BY <2>1, <2>2 DEF Counted
  <1>3. HeldAreCounted'
    BY <1>1, <1>2 DEF HeldAreCounted, AnsweredOnce
  <1>4. OneHolder'
    BY <1>1 DEF OneHolder
  <1> QED BY <1>3, <1>4 DEF Reservations

\* Nobody holds a reservation any more.
LEMMA NothingHeld ==
  ASSUME \A p \in Producer : producer'[p].intent = NoIntent /\ producer'[p].pc = "idle"
  PROVE  HeldAreCounted' /\ OneHolder'
  BY DEF HeldAreCounted, OneHolder, AnsweredOnce

\* Producers.
LEMMA ProducersKeepReservations ==
  ASSUME Budget, Reservations, durable, NEW p \in Producer,
         \/ BeginIngress(p) \/ Produce(p)
         \/ \E lapsed \in BOOLEAN : ObserveEma(lapsed)
  PROVE  Reservations'
  <1>1. /\ producer \in [Producer -> Doing] /\ HeldAreCounted /\ OneHolder
        /\ EpisodeKnown /\ Analysis \in Producer
    BY DEF Budget, Handed, Reservations, Producer
  <1>2. ASSUME NEW q \in Producer, NEW i \in Intent, producer[q].intent = i, i # NoIntent
        PROVE  Counted(i)
    BY <1>1, <1>2 DEF HeldAreCounted
  <1>3. /\ IdleProducer \in Doing /\ IdleProducer.pc = "idle"
        /\ IdleProducer.intent = NoIntent /\ AnsweredOnce(IdleProducer)
    BY HandedValues DEF IdleProducer, AnsweredOnce
  <1>4. CASE BeginIngress(p)
    <2> DEFINE r == [IdleProducer EXCEPT !.pc = "entered"]
    <2>1. r \in Doing /\ r.pc = "entered" /\ r.intent = NoIntent /\ AnsweredOnce(r)
      BY HandedValues DEF IdleProducer, AnsweredOnce
    <2>2. /\ Sets(p, r) /\ UNCHANGED accepting /\ EpisodeKnown'
          /\ \A i \in Intent : Counted(i) => Counted(i)'
      BY <1>1, <1>4 DEF BeginIngress, Stays, controller, EpisodeKnown, Counted
    <2> HIDE DEF r
    <2> QED BY <1>2, <2>1, <2>2, SetsHeld DEF Reservations
  <1>5. ASSUME NEW q \in Producer, NEW lapsed, NEW e, e = EpisodeFor(lapsed),
               UNCHANGED accepting, Becomes(Reserved(e)), Sets(q, Holds(ep'.intent))
        PROVE  Reservations'
    <2>1. PICK n \in Intent : /\ n = ep'.intent /\ n # NoIntent /\ Counted(n)'
                              /\ \A i \in Intent : accepting /\ Counted(i) => i # n
      BY <1>5, ReservedKnown
    <2>2. EpisodeKnown' /\ \A i \in Intent : Counted(i) => Counted(i)'
      BY <1>5, ReservedKnown
    <2> DEFINE r == Holds(n)
    <2>3. r \in Doing /\ r.pc = "reserved" /\ r.intent = n /\ Sets(q, r) /\ AnsweredOnce(r)
      BY <1>5, <2>1, HandedValues DEF Holds, AnsweredOnce
    <2> HIDE DEF r
    <2>4. Counted(r.intent)'
      BY <2>1, <2>3 DEF Counted
    <2> QED BY <1>2, <1>5, <2>1, <2>2, <2>3, <2>4, SetsHeld DEF Reservations
  <1>6. ASSUME NEW q \in Producer, UNCHANGED accepting, Sets(q, IdleProducer),
               EpisodeKnown', \A i \in Intent : Counted(i) => Counted(i)'
        PROVE  Reservations'
    BY <1>2, <1>3, <1>6, SetsHeld DEF Reservations
  <1>7. ASSUME NEW lapsed \in BOOLEAN, ObserveCamera(p, lapsed)
        PROVE  Reservations'
    <2>1. PICK e : e = EpisodeFor(lapsed)
      OBVIOUS
    <2>2. UNCHANGED accepting
      BY <1>7 DEF ObserveCamera, Stays
    <2>3. CASE Becomes(e) /\ Sets(p, IdleProducer)
      BY <1>6, <2>1, <2>2, <2>3, ObservedKnown
    <2>4. CASE Becomes(Reserved(e)) /\ Sets(p, IdleProducer)
      BY <1>6, <2>1, <2>2, <2>4, ReservedKnown
    <2>5. CASE Becomes(Reserved(e)) /\ Sets(p, Holds(ep'.intent))
      BY <1>5, <2>1, <2>2, <2>5
    <2> QED BY <1>7, <2>1, <2>3, <2>4, <2>5 DEF ObserveCamera
  <1>8. ASSUME NEW lapsed \in BOOLEAN, ObserveEma(lapsed)
        PROVE  Reservations'
    <2>1. PICK e : e = EpisodeFor(lapsed)
      OBVIOUS
    <2>2. UNCHANGED accepting
      BY <1>8 DEF ObserveEma, Stays
    <2>3. CASE Becomes(e) /\ UNCHANGED producer
      BY <2>1, <2>2, <2>3, ObservedKnown, HeldKept
    <2>4. CASE Becomes(Reserved(e)) /\ Sets(Analysis, Holds(ep'.intent))
      BY <1>1, <1>5, <2>1, <2>2, <2>4
    <2> QED BY <1>8, <2>1, <2>3, <2>4 DEF ObserveEma
  <1>9. ASSUME NEW q \in Producer, NEW s \in Doing, Sets(q, s), AnsweredOnce(s),
               s.pc \in {"queued", "raised"}, s.intent = producer[q].intent,
               producer[q].pc = "reserved", UNCHANGED <<controller, accepting>>
        PROVE  Reservations'
    <2>1. EpisodeKnown' /\ \A i \in Intent : Counted(i) => Counted(i)'
      BY <1>1, <1>9 DEF controller, EpisodeKnown, Counted
    <2>2. PICK i \in Intent : producer[q].intent = i
      BY <1>1 DEF Doing
    <2>3. i # NoIntent /\ Counted(i)'
      BY <1>1, <1>9, <2>1, <2>2 DEF HeldAreCounted
    <2>4. Counted(s.intent)'
      BY <1>9, <2>2, <2>3 DEF Counted
    <2>5. \A t \in Producer, j \in Intent :
            t # q /\ producer[t].intent = j /\ j # NoIntent =>
              Counted(j)' /\ (accepting => j # s.intent)
      BY <1>1, <1>2, <1>9, <2>1, <2>2 DEF OneHolder
    <2> QED BY <1>9, <2>1, <2>2, <2>3, <2>4, <2>5, SetsHeld DEF Reservations
  <1>10. CASE Enqueue(p) \/ EnqueueRaises(p)
    <2>1. producer[p] \in Doing /\ UNCHANGED <<controller, accepting>>
      BY <1>1, <1>10 DEF Enqueue, EnqueueRaises, Stays
    <2>2. PICK s : /\ Sets(p, s) /\ producer[p].pc = "reserved"
                   /\ \/ s = [producer[p] EXCEPT !.pc = "queued", !.admitted = TRUE]
                      \/ s = [producer[p] EXCEPT !.pc = "raised"]
      BY <1>10 DEF Enqueue, EnqueueRaises, Answered
    <2>3. /\ s \in Doing /\ s.pc \in {"queued", "raised"}
          /\ s.intent = producer[p].intent /\ AnsweredOnce(s)
      BY <2>1, <2>2 DEF Doing, AnsweredOnce
    <2> QED BY <1>9, <2>1, <2>2, <2>3
  <1>11. ASSUME AcknowledgeAdmission(p) \/ AcknowledgeRefused(p)
         PROVE  Reservations'
    <2>1. PICK a \in Intent : producer[p].intent = a
      BY <1>1 DEF Doing
    <2>2. AnsweredOnce(producer[p])
      BY <1>1 DEF HeldAreCounted
    <2>3. /\ \E admitted : Acknowledge(a, admitted)
          /\ UNCHANGED accepting /\ Sets(p, IdleProducer)
      BY <1>11, <2>1, <2>2
      DEF AcknowledgeAdmission, AcknowledgeRefused, AnsweredOnce, Stays
    <2>4. EpisodeKnown' /\ \A i \in Intent : i # a \/ ~accepting => (Counted(i) => Counted(i)')
      BY <2>3, AcknowledgedKnown
    <2>5. \A q \in Producer, i \in Intent :
            q # p /\ producer[q].intent = i /\ i # NoIntent =>
              Counted(i)' /\ (accepting => i # IdleProducer.intent)
      BY <1>1, <1>2, <1>3, <2>1, <2>4 DEF OneHolder
    <2> QED BY <1>3, <2>3, <2>4, <2>5, SetsHeld DEF Reservations
  <1> QED BY <1>4, <1>7, <1>8, <1>10, <1>11 DEF Produce, EnqueueFull

\* The worker, the refinements and the lifecycle.
LEMMA OthersKeepReservations ==
  ASSUME Budget, Reservations,
         \/ Decide \/ (\E c \in contexts : LinkRefined(c))
         \/ StopRequested \/ Restart \/ ResetTimebase \/ Crash
  PROVE  Reservations'
  <1>1. /\ inc \in Nat /\ seq \in Nat /\ ep \in Episode /\ EpisodeKnown /\ HeldAreCounted
        /\ (ep.intent # NoIntent => ep.requests > 0)
    BY DEF Budget, Handed, Balanced, Reservations
  <1>2. ASSUME NEW i, NEW s \in InFlightStatus \cup Ended, Transition(i, s),
               UNCHANGED <<producer, accepting>>
        PROVE  Reservations'
    <2>1. s # "none"
      BY DEF InFlightStatus, Ended
    <2>2. CASE ep' = ep
      BY <1>2, <2>2, StillKnown, HeldKept DEF Transition
    <2>3. CASE Current(i) /\ ep' = [ep EXCEPT !.status = s]
      <3>1. /\ ep'.seq = ep.seq /\ ep'.requests = ep.requests
            /\ ep'.intent = ep.intent /\ ep'.status = s
        BY <1>1, <2>3 DEF Episode
      <3>2. ep.status # "none"
        BY <1>1, <2>3 DEF Current, EpisodeKnown
      <3> QED BY <1>2, <2>1, <3>1, <3>2, StillKnown, HeldKept DEF Transition
    <2> QED BY <1>2, <2>2, <2>3 DEF Transition
  <1>3. ASSUME NEW m, ep' = Linked(m), UNCHANGED <<inc, seq, producer, accepting>>
        PROVE  Reservations'
    <2>1. /\ ep'.seq = ep.seq /\ ep'.requests = ep.requests
          /\ ep'.intent = ep.intent /\ ep'.status = ep.status
      BY <1>1, <1>3 DEF Linked, Episode
    <2> QED BY <1>3, <2>1, StillKnown, HeldKept
  <1>4. CASE Decide
    <2>1. CASE \E i \in rows : Take(i)
      BY <1>2, <2>1 DEF Take, InFlightStatus
    <2>2. CASE LinkLive
      BY <1>3, <2>2 DEF LinkLive
    <2>3. CASE AbortOnStop
      <3>1. ~accepting /\ UNCHANGED <<producer, accepting>>
        BY <2>3 DEF AbortOnStop
      <3>2. CASE Acknowledge(worker.intent, FALSE)
        BY <3>1, <3>2, AcknowledgedKnown, HeldKept
      <3>3. CASE Transition(worker.intent, "completed")
        BY <1>2, <3>1, <3>3 DEF Ended
      <3> QED BY <2>3, <3>2, <3>3 DEF AbortOnStop
    <2>4. CASE Settle
      BY <2>4, StillKnown, HeldKept DEF Settle, controller
    <2>5. CASE \E outcome \in Ended : Finish(outcome)
      BY <1>2, <2>5 DEF Finish
    <2> QED BY <1>4, <2>1, <2>2, <2>3, <2>4, <2>5 DEF Decide
  <1>5. CASE \E c \in contexts : LinkRefined(c)
    BY <1>3, <1>5 DEF LinkRefined
  <1>6. CASE StopRequested
    BY <1>6, StillKnown, HeldKept DEF StopRequested, controller
  <1>7. CASE Restart
    <2>1. \A p \in Producer : producer'[p].intent = NoIntent /\ producer'[p].pc = "idle"
      BY <1>1, <1>7 DEF Restart, HeldAreCounted
    <2>2. EpisodeKnown'
      BY <1>1, <1>7 DEF Restart, EpisodeKnown, NoEpisode
    <2> QED BY <2>1, <2>2, NothingHeld DEF Reservations
  <1>8. CASE ResetTimebase
    <2>1. EpisodeKnown'
      BY <1>1, <1>8 DEF ResetTimebase, EpisodeKnown, NoEpisode
    <2>2. \A i \in Intent : Counted(i) => Counted(i)'
      BY <1>1, <1>8 DEF ResetTimebase, Counted, NoEpisode
    <2> QED BY <1>8, <2>1, <2>2, HeldKept DEF ResetTimebase
  <1>9. CASE Crash
    <2>1. \A p \in Producer : producer'[p].intent = NoIntent /\ producer'[p].pc = "idle"
      BY <1>9 DEF Crash, IdleProducer
    <2>2. EpisodeKnown'
      BY <1>9 DEF Crash, EpisodeKnown, NoEpisode
    <2> QED BY <2>1, <2>2, NothingHeld DEF Reservations
  <1> QED BY <1>4, <1>5, <1>6, <1>7, <1>8, <1>9

LEMMA ReservationsNext ==
  ASSUME Budget, durable => Reservations, [Next]_vars
  PROVE  durable' => Reservations'
  <1>1. CASE Next
    <2>1. Analysis \in Producer /\ Callback \subseteq Producer
      BY DEF Producer
    <2>2. UNCHANGED durable
      BY <1>1 DEF Next, Observe, BeginIngress, ObserveEma, Produce, ObserveCamera,
                  Enqueue, EnqueueFull, EnqueueRaises, AcknowledgeAdmission,
                  AcknowledgeRefused, Stays, Decide, Take, LinkLive, AbortOnStop,
                  Settle, Finish, LinkRefined, StopRequested, Restart, ResetTimebase,
                  Crash
    <2> QED BY <1>1, <2>1, <2>2, ProducersKeepReservations, OthersKeepReservations
            DEF Next, Observe
  <1>2. CASE UNCHANGED vars
    BY <1>2, StillKnown, HeldKept DEF vars, controller
  <1> QED BY <1>1, <1>2

\* With a durable store, while the camera takes motion, no two producers hold
\* the same reservation, for any number of them: a refund gives back the
\* number of the last request only, its one holder has let go of it, and
\* answers once.
THEOREM ReservationsAreExclusive == Spec => []ReservationIsExclusive
  <1> DEFINE IInv == Budget /\ (durable => Reservations)
  <1>1. Init => IInv
    BY BudgetInit, ReservationsInit
  <1>2. IInv /\ [Next]_vars => IInv'
    BY BudgetNext, ReservationsNext
  <1>3. IInv => ReservationIsExclusive
    <2> SUFFICES ASSUME IInv, NEW p \in Producer, NEW q \in Producer, durable,
                        accepting, p # q, Holding(p)
                 PROVE  producer[p].intent # producer[q].intent
      BY DEF ReservationIsExclusive
    <2>1. producer[p].intent # NoIntent
      BY DEF Holding, Reservations, HeldAreCounted
    <2> QED BY <2>1 DEF Reservations, OneHolder
  <1> HIDE DEF IInv
  <1> QED BY <1>1, <1>2, <1>3, PTL DEF Spec


-----------------------------------------------------------------------------
(***************************************************************************)
(* CameraFleet: admission, commands, reconfigurations and shutdown.        *)
(***************************************************************************)
Phase == {"none", "stopped", "starting", "running", "stuck", "closed"}
Replacing == {"stop_old", "start_new", "publish", "undo"}
OnOneCamera == Replacing \cup {"close_old", "restart"}

FleetTyped ==
  /\ workers \in [Camera -> [Version -> Phase]]
  /\ current \in [Camera -> Version]
  /\ task \in [Camera -> {"queued", "checked", "starting", "started", "waiting", "done"}]
  /\ manager.step \in OnOneCamera => manager.camera \in Camera
  /\ command.step = "idle" \/ command.camera \in Camera

\* Only the task of its first worker is ever found starting a camera.
OnlyTasksStart ==
  \A c \in Camera, v \in Version :
    workers[c][v] = "starting" => v = 1 /\ task[c] = "starting"

\* A command runs only while they are accepted, and nothing is managed once
\* all is closed.
CommandsRefused ==
  /\ ~commands => command = Idle
  /\ closed => manager = Idle
  /\ closed \/ manager.step \in {"join", "stop", "close"} => ~commands

\* Whoever could start a worker has come to its end before they are stopped.
NobodyStarts == TearingDown => \A c \in Camera : task[c] = "done"

\* The fleet's worker of a camera exists; a replacement is not the fleet's.
WorkersExist ==
  /\ \A c \in Camera : workers[c][1] # "none" /\ workers[c][current[c]] # "none"
  /\ manager.step \in Replacing =>
       /\ current[manager.camera] = 1
       /\ workers[manager.camera][2] # "none"

\* The workers of the fleet are at rest from their close on.
FleetRests ==
  closed \/ manager.step = "close" =>
    \A c \in Camera : workers[c][current[c]] \in {"stopped", "closed"}

\* A replacement that is not the fleet's is closed, or being worked on, unless
\* reconfigurations are fenced.
ReplacementsKnown ==
  /\ ~fenced =>
       \A c \in Camera : current[c] = 1 =>
         \/ workers[c][2] \in {"none", "closed"}
         \/ manager.camera = c /\ manager.step \in Replacing
  /\ manager.step \in Replacing \ {"undo"} => ~fenced

Owned == FleetTyped /\ OnlyTasksStart /\ CommandsRefused /\ NobodyStarts /\ WorkersExist

\* One worker was changed, from and to a phase other than none and starting.
Touched(c, v) ==
  /\ workers' \in [Camera -> [Version -> Phase]]
  /\ workers[c][v] \notin {"none", "starting"}
  /\ workers'[c][v] \notin {"none", "starting"}
  /\ \A d \in Camera, u \in Version :
       d # c \/ u # v => workers'[d][u] = workers[d][u]

LEMMA FleetUpdate ==
  ASSUME FleetTyped, NEW c \in Camera, NEW v \in Version, NEW p \in Phase,
         WorkerBecomes(c, v, p)
  PROVE  /\ workers' \in [Camera -> [Version -> Phase]]
         /\ workers'[c][v] = p
         /\ \A d \in Camera, u \in Version :
              d # c \/ u # v => workers'[d][u] = workers[d][u]
  BY DEF FleetTyped, WorkerBecomes

LEMMA StartsTouches ==
  ASSUME FleetTyped, NEW c \in Camera, NEW v \in Version, NEW ok,
         WorkerStarts(c, v, ok)
  PROVE  Touched(c, v)
  <1>1. workers \in [Camera -> [Version -> Phase]]
    BY DEF FleetTyped
  <1>2. CASE UNCHANGED workers /\ workers[c][v] \in {"running", "stuck", "closed"}
    BY <1>1, <1>2 DEF Touched
  <1>3. ASSUME NEW p \in {"stopped", "stuck", "running"}, WorkerBecomes(c, v, p),
               workers[c][v] = "stopped"
        PROVE  Touched(c, v)
    <2>1. p \in Phase
      BY DEF Phase
    <2> QED BY <1>3, <2>1, FleetUpdate DEF Touched
  <1> QED BY <1>2, <1>3 DEF WorkerStarts

LEMMA StopsTouches ==
  ASSUME FleetTyped, NEW c \in Camera, NEW v \in Version, NEW ok,
         Stops(c, v, ok)
  PROVE  Touched(c, v) /\ workers'[c][v] # "running"
  <1>1. workers \in [Camera -> [Version -> Phase]]
    BY DEF FleetTyped
  <1>2. CASE UNCHANGED workers /\ workers[c][v] \in {"stuck", "closed"}
    BY <1>1, <1>2 DEF Touched
  <1>3. ASSUME NEW p \in {"stopped", "stuck"}, WorkerBecomes(c, v, p),
               workers[c][v] \in {"stopped", "running"}
        PROVE  Touched(c, v) /\ workers'[c][v] # "running"
    <2>1. p \in Phase
      BY DEF Phase
    <2> QED BY <1>3, <2>1, FleetUpdate DEF Touched
  <1> QED BY <1>2, <1>3 DEF Stops


\* How a worker may change: it never ceases to exist, and its task alone makes
\* it start and be started.
WorkersMove ==
  /\ workers' \in [Camera -> [Version -> Phase]]
  /\ \A c \in Camera, v \in Version :
       /\ workers[c][v] # "none" => workers'[c][v] # "none"
       /\ workers'[c][v] = "starting" => v = 1 /\ task'[c] = "starting"

LEMMA TouchedMoves ==
  ASSUME Owned, NEW c \in Camera, NEW v \in Version, Touched(c, v), UNCHANGED task
  PROVE  WorkersMove
  BY DEF Owned, OnlyTasksStart, Touched, WorkersMove

LEMMA UntouchedMoves ==
  ASSUME Owned, UNCHANGED <<workers, task>>
  PROVE  WorkersMove
  BY DEF Owned, FleetTyped, OnlyTasksStart, WorkersMove

LEMMA UpdatedMoves ==
  ASSUME Owned, NEW c \in Camera, NEW v \in Version,
         NEW p \in Phase \ {"none", "starting"}, WorkerBecomes(c, v, p),
         \A d \in Camera : d # c \/ v # 1 => task'[d] = task[d]
  PROVE  WorkersMove
  <1>1. FleetTyped /\ OnlyTasksStart /\ p \in Phase /\ p \notin {"none", "starting"}
    BY DEF Owned
  <1>2. /\ workers' \in [Camera -> [Version -> Phase]]
        /\ workers'[c][v] = p
        /\ \A d \in Camera, u \in Version :
             d # c \/ u # v => workers'[d][u] = workers[d][u]
    BY <1>1, FleetUpdate
  <1> QED BY <1>1, <1>2 DEF OnlyTasksStart, WorkersMove

LEMMA AdmissionMoves ==
  ASSUME Owned, Admission
  PROVE  WorkersMove
  <1>1. /\ task \in [Camera -> {"queued", "checked", "starting", "started", "waiting", "done"}]
        /\ FleetTyped /\ OnlyTasksStart /\ 1 \in Version
    BY DEF Owned, FleetTyped, Version
  <1>2. PICK c \in Camera : \/ TaskChecked(c) \/ TaskStarts(c)
                            \/ TaskStarted(c) \/ TaskRecords(c) \/ TaskEnds(c)
                            \/ TaskDropped(c)
    BY DEF Admission
  <1>3. ASSUME NEW p, Goes(c, p)
        PROVE  task'[c] = p /\ \A d \in Camera : d # c => task'[d] = task[d]
    BY <1>1, <1>3 DEF Goes
  <1>4. ASSUME NEW p, Goes(c, p), UNCHANGED workers, task[c] # "starting"
        PROVE  WorkersMove
    BY <1>1, <1>3, <1>4 DEF FleetTyped, OnlyTasksStart, WorkersMove
  <1>5. CASE TaskChecked(c) \/ TaskRecords(c) \/ TaskEnds(c) \/ TaskDropped(c)
    BY <1>4, <1>5 DEF TaskChecked, TaskRecords, TaskEnds, TaskDropped, ownedVars
  <1>6. CASE TaskStarts(c)
    <2>1. CASE UNCHANGED workers
      BY <1>4, <1>6, <2>1 DEF TaskStarts
    <2>2. CASE WorkerBecomes(c, 1, "starting") /\ Goes(c, "starting")
      <3>1. "starting" \in Phase
        BY DEF Phase
      <3>2. /\ workers' \in [Camera -> [Version -> Phase]]
            /\ workers'[c][1] = "starting"
            /\ \A d \in Camera, u \in Version :
                 d # c \/ u # 1 => workers'[d][u] = workers[d][u]
        BY <1>1, <2>2, <3>1, FleetUpdate
      <3> QED BY <1>1, <1>3, <2>2, <3>2 DEF OnlyTasksStart, WorkersMove
    <2> QED BY <1>6, <2>1, <2>2 DEF TaskStarts
  <1>7. CASE TaskStarted(c)
    <2>1. PICK p \in {"running", "stopped", "stuck"} :
            WorkerBecomes(c, 1, p) /\ \E q : Goes(c, q)
      BY <1>7 DEF TaskStarted
    <2>2. p \in Phase \ {"none", "starting"}
      BY DEF Phase
    <2> QED BY <1>1, <1>3, <2>1, <2>2, UpdatedMoves
  <1> QED BY <1>2, <1>5, <1>6, <1>7

LEMMA CommandMoves ==
  ASSUME Owned, Control
  PROVE  WorkersMove /\ UNCHANGED <<task, current, manager, closed, fenced>>
  <1>1. FleetTyped /\ current \in [Camera -> Version]
    BY DEF Owned, FleetTyped
  <1>2. CASE \E c \in Target, on \in BOOLEAN : PowerSet(c, on) \/ RecordingSet(c, on)
    BY <1>2, UntouchedMoves
    DEF PowerSet, RecordingSet, ownedVars, startupVars, managerVars
  <1>3. CASE PowerOnFleet \/ PowerOnFails \/ PowerOffFleet
    BY <1>3, UntouchedMoves
    DEF PowerOnFleet, PowerOnFails, PowerOffFleet, ownedVars,
        startupVars, managerVars
  <1>4. CASE PowerOnWorker
    <2>1. UNCHANGED <<task, current, manager, closed, fenced>> /\ command.camera \in Camera
      BY <1>1, <1>4 DEF FleetTyped, PowerOnWorker, startupVars, managerVars
    <2>2. CASE UNCHANGED workers
      BY <2>1, <2>2, UntouchedMoves
    <2>3. CASE \E ok \in BOOLEAN : WorkerStarts(command.camera, current[command.camera], ok)
      BY <1>1, <2>1, <2>3, StartsTouches, TouchedMoves
    <2> QED BY <1>4, <2>1, <2>2, <2>3 DEF PowerOnWorker
  <1>5. CASE PowerOffWorker
    <2>1. UNCHANGED <<task, current, manager, closed, fenced>> /\ command.camera \in Camera
      BY <1>1, <1>5 DEF FleetTyped, PowerOffWorker, startupVars, managerVars
    <2>2. CASE UNCHANGED workers
      BY <2>1, <2>2, UntouchedMoves
    <2>3. CASE \E ok \in BOOLEAN : Stops(command.camera, current[command.camera], ok)
      BY <1>1, <2>1, <2>3, StopsTouches, TouchedMoves
    <2> QED BY <1>5, <2>1, <2>2, <2>3 DEF PowerOffWorker
  <1> QED BY <1>2, <1>3, <1>4, <1>5 DEF Control


LEMMA ReconfigurationMoves ==
  ASSUME Owned, Reconfiguration
  PROVE  WorkersMove /\ UNCHANGED <<task, command, commands, closed>>
  <1>1. FleetTyped /\ current \in [Camera -> Version] /\ 1 \in Version
        /\ 2 \in Version /\ Target \subseteq Camera
    BY FleetAssumption DEF Owned, FleetTyped, Version, FleetAssumption
  <1>2. UNCHANGED <<task, command, commands, closed>>
    BY DEF Reconfiguration, ReconfigureBegins, ReconfigureStopsOld,
           ReconfigureStartsNew, ReconfigurePublishes,
           ReconfigureClosesOld, ReconfigureUndoes,
           ReconfigureRestarts, startupVars, controlVars
  <1>3. ASSUME manager.step \in OnOneCamera
        PROVE  manager.camera \in Camera
    BY <1>1, <1>3 DEF FleetTyped
  <1>4. ASSUME NEW c \in Target, ReconfigureBegins(c)
        PROVE  WorkersMove
    <2>1. "stopped" \in Phase \ {"none", "starting"}
      BY DEF Phase
    <2> QED BY <1>1, <1>2, <1>4, <2>1, UpdatedMoves DEF ReconfigureBegins
  <1>5. CASE ReconfigureStopsOld
    <2>1. manager.camera \in Camera
      BY <1>3, <1>5 DEF ReconfigureStopsOld, OnOneCamera, Replacing
    <2> QED BY <1>1, <1>2, <1>5, <2>1, StopsTouches, TouchedMoves
            DEF ReconfigureStopsOld
  <1>6. CASE ReconfigureStartsNew
    <2>1. manager.camera \in Camera
      BY <1>3, <1>6 DEF ReconfigureStartsNew, OnOneCamera, Replacing
    <2> QED BY <1>1, <1>2, <1>6, <2>1, StartsTouches, TouchedMoves, UntouchedMoves
            DEF ReconfigureStartsNew
  <1>7. CASE ReconfigurePublishes
    BY <1>2, <1>7, UntouchedMoves DEF ReconfigurePublishes
  <1>8. CASE ReconfigureClosesOld
    <2>1. manager.camera \in Camera
      BY <1>3, <1>8 DEF ReconfigureClosesOld, OnOneCamera
    <2> DEFINE w == workers[manager.camera][1]
               p == IF w \in {"stopped", "closed"} THEN "closed" ELSE w
    <2>2. w \in Phase /\ w \notin {"none", "starting"}
      BY <1>1, <1>8, <2>1
      DEF Owned, WorkersExist, FleetTyped, ReconfigureClosesOld
    <2>3. p \in Phase \ {"none", "starting"} /\ WorkerBecomes(manager.camera, 1, p)
      BY <1>8, <2>2 DEF Phase, ReconfigureClosesOld, Closes
    <2> HIDE DEF p
    <2> QED BY <1>1, <1>2, <2>1, <2>3, UpdatedMoves
  <1>9. CASE ReconfigureUndoes
    <2>1. manager.camera \in Camera
      BY <1>3, <1>9 DEF ReconfigureUndoes, OnOneCamera, Replacing
    <2>2. \E p \in {"closed", "stuck"} : WorkerBecomes(manager.camera, 2, p)
      BY <1>9 DEF ReconfigureUndoes
    <2>3. {"closed", "stuck"} \subseteq Phase \ {"none", "starting"}
      BY DEF Phase
    <2> QED BY <1>1, <1>2, <2>1, <2>2, <2>3, UpdatedMoves
  <1>10. CASE ReconfigureRestarts
    <2>1. manager.camera \in Camera
      BY <1>3, <1>10 DEF ReconfigureRestarts, OnOneCamera
    <2>2. CASE UNCHANGED workers
      BY <1>2, <2>2, UntouchedMoves
    <2>3. CASE \E ok \in BOOLEAN : WorkerStarts(manager.camera, 1, ok)
      BY <1>1, <1>2, <2>1, <2>3, StartsTouches, TouchedMoves
    <2> QED BY <1>10, <2>2, <2>3 DEF ReconfigureRestarts
  <1> QED BY <1>2, <1>4, <1>5, <1>6, <1>7, <1>8, <1>9, <1>10 DEF Reconfiguration

\* What a shutdown makes of the fleet's workers.
LEMMA ShutdownStopsWorkers ==
  ASSUME Owned, ShutdownStops
  PROVE  /\ WorkersMove
         /\ \A c \in Camera, v \in Version :
              workers'[c][v] \in {"starting", "running"} => workers'[c][v] = workers[c][v]
         /\ manager'.step = "close" =>
              \A c \in Camera : workers'[c][current[c]] \notin {"running", "stuck"}
         /\ \A c \in Camera, v \in Version :
              v # current[c] => workers'[c][v] = workers[c][v]
  <1>1. /\ workers \in [Camera -> [Version -> Phase]]
        /\ current \in [Camera -> Version]
        /\ UNCHANGED task
    BY DEF Owned, FleetTyped, ShutdownStops, startupVars
  <1>2. PICK late \in SUBSET {c \in Camera : CurrentWorker(c) = "running"} :
          /\ workers' = [c \in Camera |-> [workers[c] EXCEPT ![current[c]] =
               IF c \in late THEN "stuck" ELSE IF @ = "running" THEN "stopped" ELSE @]]
          /\ IF late # {} \/ \E c \in Camera : CurrentWorker(c) = "stuck"
             THEN manager' = Idle ELSE Manages("close", Nobody, FALSE)
    BY Zenon DEF ShutdownStops
  <1>3. {"stuck", "stopped"} \subseteq Phase
    BY DEF Phase
  <1>4. ASSUME NEW c \in Camera
        PROVE  /\ workers'[c] \in [Version -> Phase]
               /\ \A v \in Version : v # current[c] => workers'[c][v] = workers[c][v]
               /\ workers'[c][current[c]] =
                    IF c \in late THEN "stuck"
                    ELSE IF workers[c][current[c]] = "running" THEN "stopped"
                    ELSE workers[c][current[c]]
    BY <1>1, <1>2, <1>3
  <1>5. \A c \in Camera : c \in late => workers[c][current[c]] = "running"
    BY <1>2 DEF CurrentWorker
  <1>6. workers' \in [Camera -> [Version -> Phase]]
    <2>1. \A c \in Camera : workers'[c] \in [Version -> Phase]
      BY <1>4
    <2> QED BY <1>2, <2>1
  <1>7. WorkersMove
    <2>1. ASSUME NEW c \in Camera, NEW v \in Version
          PROVE  workers'[c][v] \in {workers[c][v], "stuck", "stopped"}
      BY <1>4
    <2> QED BY <1>1, <1>6, <2>1 DEF Owned, OnlyTasksStart, WorkersMove
  <1>8. ASSUME NEW c \in Camera, manager'.step = "close"
        PROVE  workers'[c][current[c]] \notin {"running", "stuck"}
    <2>1. manager' # Idle
      BY <1>8 DEF Idle
    <2>2. late = {} /\ CurrentWorker(c) # "stuck"
      BY <1>2, <1>8, <2>1, Zenon
    <2> QED BY <1>4, <2>2 DEF CurrentWorker
  <1> QED BY <1>1, <1>4, <1>5, <1>7, <1>8

LEMMA ShutdownClosesWorkers ==
  ASSUME Owned, ShutdownCloses
  PROVE  /\ WorkersMove
         /\ \A c \in Camera, v \in Version :
              \/ workers'[c][v] = workers[c][v]
              \/ v = current[c] /\ workers'[c][v] = "closed"
  <1>1. /\ workers \in [Camera -> [Version -> Phase]]
        /\ current \in [Camera -> Version]
        /\ UNCHANGED task
    BY DEF Owned, FleetTyped, ShutdownCloses, startupVars
  <1>2. workers' = [c \in Camera |-> [workers[c] EXCEPT ![current[c]] =
                      IF @ = "stopped" THEN "closed" ELSE @]]
    BY DEF ShutdownCloses
  <1>3. "closed" \in Phase
    BY DEF Phase
  <1>4. ASSUME NEW c \in Camera
        PROVE  /\ workers'[c] \in [Version -> Phase]
               /\ \A v \in Version :
                    \/ workers'[c][v] = workers[c][v]
                    \/ v = current[c] /\ workers'[c][v] = "closed"
    BY <1>1, <1>2, <1>3
  <1>5. workers' \in [Camera -> [Version -> Phase]]
    <2>1. \A c \in Camera : workers'[c] \in [Version -> Phase]
      BY <1>4
    <2> QED BY <1>2, <2>1
  <1> QED BY <1>1, <1>4, <1>5 DEF Owned, OnlyTasksStart, WorkersMove

LEMMA ShutdownMoves ==
  ASSUME Owned, Shutdown
  PROVE  WorkersMove /\ UNCHANGED <<task, command, current, fenced>>
  <1>1. UNCHANGED <<task, command, current, fenced>>
    BY DEF Shutdown, ReleasesEarly, ShutdownBegins, ShutdownJoins,
           ShutdownStops, ShutdownCloses, startupVars,
           ownedVars, managerVars
  <1>2. CASE ReleasesEarly \/ ShutdownBegins \/ ShutdownJoins
    BY <1>1, <1>2, UntouchedMoves
    DEF ReleasesEarly, ShutdownBegins, ShutdownJoins, ownedVars
  <1> QED BY <1>1, <1>2, ShutdownStopsWorkers, ShutdownClosesWorkers DEF Shutdown

LEMMA ThreadsEndMoves ==
  ASSUME Owned, NEW c \in Camera, NEW v \in Version, ThreadsEnd(c, v)
  PROVE  /\ WorkersMove /\ UNCHANGED <<task, command, current, manager, commands, closed, fenced>>
         /\ Touched(c, v) /\ workers[c][v] = "stuck" /\ workers'[c][v] = "stopped"
  <1>1. "stopped" \in Phase /\ FleetTyped
    BY DEF Phase, Owned
  <1>2. Touched(c, v) /\ workers[c][v] = "stuck" /\ workers'[c][v] = "stopped"
    BY <1>1, FleetUpdate DEF ThreadsEnd, Touched
  <1>3. UNCHANGED <<task, command, current, manager, commands, closed, fenced>>
    BY DEF ThreadsEnd, startupVars, managerVars, controlVars
  <1> QED BY <1>2, <1>3, TouchedMoves

\* Whatever the step, workers move so.
LEMMA FleetMoves ==
  ASSUME Owned, FleetNext
  PROVE  WorkersMove
  BY AdmissionMoves, CommandMoves, ReconfigurationMoves, ShutdownMoves, ThreadsEndMoves
  DEF FleetNext


\* While the workers are being stopped, and afterwards, only the shutdown goes
\* on, and the threads of stuck workers end.
LEMMA TornDown ==
  ASSUME Owned, TearingDown, FleetNext
  PROVE  \/ ShutdownStops \/ ShutdownCloses
         \/ \E c \in Camera, v \in Version : ThreadsEnd(c, v)
  <1>1. /\ ~commands /\ command = Idle
        /\ \A c \in Camera : task[c] = "done"
        /\ manager = Idle => closed
    BY DEF Owned, CommandsRefused, NobodyStarts, TearingDown, Idle
  <1>2. closed => manager = Idle
    BY DEF Owned, CommandsRefused
  <1>3. manager.step \in {"idle", "stop", "close"}
    BY <1>2 DEF TearingDown, Idle
  <1>4. ~Admission
    BY <1>1 DEF Admission, TaskChecked, TaskStarts, TaskStarted,
                TaskRecords, TaskEnds, TaskDropped
  <1>5. ~Control
    BY <1>1 DEF Control, PowerSet, RecordingSet, PowerOnFleet,
                PowerOnWorker, PowerOnFails, PowerOffFleet,
                PowerOffWorker, Idle
  <1>6. ~Reconfiguration
    BY <1>1, <1>3
    DEF Reconfiguration, ReconfigureBegins, ReconfigureStopsOld,
        ReconfigureStartsNew, ReconfigurePublishes,
        ReconfigureClosesOld, ReconfigureUndoes, ReconfigureRestarts
  <1>7. ~(ReleasesEarly \/ ShutdownBegins \/ ShutdownJoins)
    BY <1>1, <1>3 DEF ReleasesEarly, ShutdownBegins, ShutdownJoins
  <1> QED BY <1>4, <1>5, <1>6, <1>7 DEF FleetNext, Shutdown

\* Types.
LEMMA FleetTypedNext ==
  ASSUME Owned, FleetNext
  PROVE  FleetTyped'
  <1>1. /\ FleetTyped /\ Target \subseteq Camera /\ 2 \in Version
        /\ current \in [Camera -> Version]
        /\ task \in [Camera -> {"queued", "checked", "starting", "started", "waiting", "done"}]
    BY FleetAssumption DEF Owned, FleetTyped, Version, FleetAssumption
  <1>2. workers' \in [Camera -> [Version -> Phase]]
    BY FleetMoves DEF WorkersMove
  <1>3. CASE Admission
    <2>1. UNCHANGED <<current, command, manager>>
      BY <1>3 DEF Admission, TaskChecked, TaskStarts, TaskStarted,
                  TaskRecords, TaskEnds, TaskDropped, ownedVars, managerVars
    <2>2. \E c \in Camera, p \in {"checked", "starting", "started", "waiting", "done"} : Goes(c, p)
      BY <1>3 DEF Admission, TaskChecked, TaskStarts, TaskStarted,
                  TaskRecords, TaskEnds, TaskDropped
    <2>3. task' \in [Camera -> {"queued", "checked", "starting", "started", "waiting", "done"}]
      BY <1>1, <2>2 DEF Goes
    <2> QED BY <1>1, <1>2, <2>1, <2>3 DEF FleetTyped
  <1>4. CASE Control
    <2>1. UNCHANGED <<task, current, manager>>
      BY <1>4, CommandMoves
    <2>2. command'.step = "idle" \/ command'.camera \in Camera
      <3>1. CASE \E c \in Target, on \in BOOLEAN : PowerSet(c, on) \/ RecordingSet(c, on)
        BY <1>1, <3>1
        DEF FleetTyped, PowerSet, Prefers, RecordingSet, Does
      <3>2. CASE PowerOnFails \/ PowerOffWorker
        BY <3>2 DEF PowerOnFails, PowerOffWorker, Idle
      <3>3. ASSUME command' = Idle \/ \E s, f : Does(s, command.camera, f),
                   command.step # "idle"
            PROVE  command'.step = "idle" \/ command'.camera \in Camera
        BY <1>1, <3>3 DEF FleetTyped, Does, Idle
      <3>4. CASE PowerOnFleet \/ PowerOnWorker \/ PowerOffFleet
        <4>1. command' = Idle \/ \E s, f : Does(s, command.camera, f)
          BY <3>4, Zenon DEF PowerOnFleet, PowerOnWorker, PowerOffFleet
        <4>2. command.step # "idle"
          BY <3>4 DEF PowerOnFleet, PowerOnWorker, PowerOffFleet
        <4> QED BY <3>3, <4>1, <4>2
      <3> QED BY <1>4, <3>1, <3>2, <3>4 DEF Control
    <2> QED BY <1>1, <1>2, <2>1, <2>2 DEF FleetTyped
  <1>5. CASE Reconfiguration
    <2>1. UNCHANGED <<task, command>>
      BY <1>5, ReconfigurationMoves
    <2>2. current' \in [Camera -> Version]
      BY <1>1, <1>5
      DEF Reconfiguration, ReconfigureBegins, ReconfigureStopsOld,
          ReconfigureStartsNew, ReconfigurePublishes,
          ReconfigureClosesOld, ReconfigureUndoes, ReconfigureRestarts
    <2>3. manager'.step = "idle" \/ manager'.camera \in Camera
      BY <1>1, <1>5
      DEF FleetTyped, Reconfiguration, ReconfigureBegins,
          ReconfigureStopsOld, ReconfigureStartsNew,
          ReconfigurePublishes, ReconfigureClosesOld,
          ReconfigureUndoes, ReconfigureRestarts, Manages,
          Idle, OnOneCamera, Replacing
    <2> QED BY <1>1, <1>2, <2>1, <2>2, <2>3 DEF FleetTyped, OnOneCamera, Replacing
  <1>6. CASE Shutdown
    <2>1. UNCHANGED <<task, command, current>>
      BY <1>6, ShutdownMoves
    <2>2. manager' = manager \/ manager'.step \in {"idle", "join", "stop", "close"}
      BY <1>6
      DEF Shutdown, ReleasesEarly, ShutdownBegins, ShutdownJoins,
          ShutdownStops, ShutdownCloses, Manages, Idle,
          managerVars
    <2> QED BY <1>1, <1>2, <2>1, <2>2 DEF FleetTyped, OnOneCamera, Replacing
  <1>7. CASE \E c \in Camera, v \in Version : ThreadsEnd(c, v)
    BY <1>1, <1>2, <1>7, ThreadsEndMoves DEF FleetTyped
  <1> QED BY <1>3, <1>4, <1>5, <1>6, <1>7 DEF FleetNext

\* Commands are refused, and nobody starts a worker, from the join on.
LEMMA RefusedNext ==
  ASSUME Owned, FleetNext
  PROVE  CommandsRefused' /\ NobodyStarts'
  <1>1. CommandsRefused /\ NobodyStarts /\ FleetTyped
    BY DEF Owned
  <1>2. CASE Admission
    <2>1. UNCHANGED <<command, commands, manager, closed>>
      BY <1>2 DEF Admission, TaskChecked, TaskStarts, TaskStarted,
                  TaskRecords, TaskEnds, TaskDropped, managerVars, controlVars
    <2>2. ~TearingDown
      BY <1>1, <1>2
      DEF NobodyStarts, Admission, TaskChecked, TaskStarts,
          TaskStarted, TaskRecords, TaskEnds, TaskDropped
    <2> QED BY <1>1, <2>1, <2>2 DEF CommandsRefused, NobodyStarts, TearingDown
  <1>3. CASE Control
    <2>1. UNCHANGED <<task, manager, closed>>
      BY <1>3, CommandMoves
    <2>2. commands
      <3>1. command # Idle \/ commands
        <4>1. CASE \E c \in Target, on \in BOOLEAN : PowerSet(c, on) \/ RecordingSet(c, on)
          BY <4>1, Zenon DEF PowerSet, RecordingSet
        <4>2. Idle.step = "idle"
          BY DEF Idle
        <4>3. CASE \/ PowerOnFleet \/ PowerOnWorker \/ PowerOnFails
                  \/ PowerOffFleet \/ PowerOffWorker
          <5>1. command.step # "idle"
            BY <4>3 DEF PowerOnFleet, PowerOnWorker, PowerOnFails,
                        PowerOffFleet, PowerOffWorker
          <5> QED BY <4>2, <5>1
        <4> QED BY <1>3, <4>1, <4>3 DEF Control
      <3> QED BY <1>1, <3>1 DEF CommandsRefused
    <2>3. UNCHANGED commands
      BY <1>3
      DEF Control, PowerSet, RecordingSet,
          PowerOnFleet, PowerOnWorker, PowerOnFails,
          PowerOffFleet, PowerOffWorker, controlVars
    <2> QED BY <1>1, <2>1, <2>2, <2>3 DEF CommandsRefused, NobodyStarts, TearingDown
  <1>4. CASE Reconfiguration
    <2>1. UNCHANGED <<task, command, commands, closed>>
      BY <1>4, ReconfigurationMoves
    <2>2. ~closed /\ manager'.step \notin {"join", "stop", "close"}
      BY <1>1, <1>4
      DEF CommandsRefused, Reconfiguration, ReconfigureBegins,
          ReconfigureStopsOld, ReconfigureStartsNew,
          ReconfigurePublishes, ReconfigureClosesOld,
          ReconfigureUndoes, ReconfigureRestarts, Manages, Idle
    <2> QED BY <1>1, <2>1, <2>2 DEF CommandsRefused, NobodyStarts, TearingDown
  <1>5. CASE Shutdown
    <2>1. UNCHANGED <<task, command>>
      BY <1>5, ShutdownMoves
    <2>2. CASE ReleasesEarly
      <3>1. UNCHANGED <<commands, manager, closed>> /\ ~TearingDown
        BY <2>2 DEF ReleasesEarly, controlVars, managerVars,
                    TearingDown, Idle
      <3> QED BY <1>1, <2>1, <3>1 DEF CommandsRefused, NobodyStarts, TearingDown
    <2>3. CASE ShutdownBegins
      BY <2>1, <2>3
      DEF CommandsRefused, NobodyStarts, TearingDown, ShutdownBegins,
          Manages, Idle
    <2>4. CASE ShutdownJoins
      <3>1. ~closed /\ ~commands /\ UNCHANGED <<commands, closed>>
        BY <1>1, <2>4 DEF CommandsRefused, ShutdownJoins, controlVars, Idle
      <3>2. CASE manager' = Idle
        BY <1>1, <2>1, <3>1, <3>2
        DEF CommandsRefused, NobodyStarts, TearingDown, Idle
      <3>3. CASE ~AdmissionAlive /\ Manages("stop", Nobody, FALSE)
        <4>1. \A c \in Camera : task[c] = "done"
          BY <1>1, <3>3 DEF FleetTyped, AdmissionAlive, Admitting
        <4> QED BY <1>1, <2>1, <3>1, <3>3, <4>1 DEF CommandsRefused, NobodyStarts
      <3> QED BY <2>4, <3>2, <3>3 DEF ShutdownJoins
    <2>5. CASE ShutdownStops
      <3>1. UNCHANGED <<commands, closed>> /\ TearingDown /\ ~closed
        BY <1>1, <2>5 DEF CommandsRefused, ShutdownStops, controlVars,
                          TearingDown, Idle
      <3> QED BY <1>1, <2>1, <3>1 DEF CommandsRefused, NobodyStarts, TearingDown
    <2>6. CASE ShutdownCloses
      <3>1. /\ manager.step = "close" /\ manager' = Idle
            /\ UNCHANGED <<command, commands>>
        BY <2>6 DEF ShutdownCloses, controlVars
      <3>2. CommandsRefused' /\ NobodyStarts'
        BY <1>1, <2>1, <3>1 DEF CommandsRefused, NobodyStarts, TearingDown
      <3> QED BY <3>2
    <2> QED BY <1>5, <2>2, <2>3, <2>4, <2>5, <2>6 DEF Shutdown
  <1>6. CASE \E c \in Camera, v \in Version : ThreadsEnd(c, v)
    BY <1>1, <1>6, ThreadsEndMoves DEF CommandsRefused, NobodyStarts, TearingDown
  <1> QED BY <1>2, <1>3, <1>4, <1>5, <1>6 DEF FleetNext


\* Who replaces a worker keeps to its camera.
LEMMA ReplacingSteps ==
  ASSUME Owned, FleetNext, manager'.step \in Replacing
  PROVE  /\ UNCHANGED current
         /\ \/ manager.step \in Replacing /\ manager'.camera = manager.camera
            \/ manager'.camera \in Target /\ ReconfigureBegins(manager'.camera)
  <1>1. CASE Admission
    <2>1. UNCHANGED <<current, manager>>
      BY <1>1 DEF Admission, TaskChecked, TaskStarts, TaskStarted,
                  TaskRecords, TaskEnds, TaskDropped, ownedVars, managerVars
    <2> QED BY <2>1
  <1>2. CASE Control \/ \E c \in Camera, v \in Version : ThreadsEnd(c, v)
    BY <1>2, CommandMoves, ThreadsEndMoves
  <1>3. CASE Reconfiguration
    <2>1. CASE \E c \in Target : ReconfigureBegins(c)
      BY <2>1 DEF ReconfigureBegins, Manages
    <2>2. CASE \/ ReconfigureStopsOld \/ ReconfigureStartsNew
               \/ ReconfigurePublishes
      BY <2>2 DEF ReconfigureStopsOld, ReconfigureStartsNew,
                  ReconfigurePublishes, Manages, Replacing
    <2>3. CASE \/ ReconfigureClosesOld \/ ReconfigureUndoes
               \/ ReconfigureRestarts
      BY <2>3 DEF ReconfigureClosesOld, ReconfigureUndoes,
                  ReconfigureRestarts, Manages, Idle, Replacing
    <2> QED BY <1>3, <2>1, <2>2, <2>3 DEF Reconfiguration
  <1>4. CASE Shutdown
    <2>1. UNCHANGED manager \/ manager'.step \in {"idle", "join", "stop", "close"}
      BY <1>4
      DEF Shutdown, ReleasesEarly, ShutdownBegins, ShutdownJoins,
          ShutdownStops, ShutdownCloses, Manages, Idle,
          managerVars
    <2> QED BY <1>4, <2>1, ShutdownMoves DEF Replacing
  <1> QED BY <1>1, <1>2, <1>3, <1>4 DEF FleetNext

\* Only the publication of a replacement changes the fleet's worker.
LEMMA PublishedOnly ==
  ASSUME Owned, FleetNext
  PROVE  \/ UNCHANGED current
         \/ /\ current' = [current EXCEPT ![manager.camera] = 2]
            /\ manager.step \in Replacing /\ ReconfigurePublishes
            /\ ~stopping
  <1>1. CASE Admission
    BY <1>1 DEF Admission, TaskChecked, TaskStarts, TaskStarted,
                TaskRecords, TaskEnds, TaskDropped, ownedVars
  <1>2. CASE Reconfiguration
    BY <1>2
    DEF Reconfiguration, ReconfigureBegins, ReconfigureStopsOld,
        ReconfigureStartsNew, ReconfigurePublishes,
        ReconfigureClosesOld, ReconfigureUndoes,
        ReconfigureRestarts, Replacing
  <1> QED BY <1>1, <1>2, CommandMoves, ShutdownMoves, ThreadsEndMoves DEF FleetNext

LEMMA WorkersExistNext ==
  ASSUME Owned, FleetNext
  PROVE  WorkersExist'
  <1>1. /\ WorkersExist /\ FleetTyped /\ Target \subseteq Camera
        /\ current \in [Camera -> Version] /\ 1 \in Version
        /\ 2 \in Version
    BY FleetAssumption DEF Owned, FleetTyped, Version, FleetAssumption
  <1>2. WorkersMove
    BY FleetMoves
  <1>3. ASSUME manager.step \in Replacing
        PROVE  manager.camera \in Camera
    BY <1>1, <1>3 DEF FleetTyped, OnOneCamera
  <1>4. ASSUME NEW c \in Camera
        PROVE  workers'[c][1] # "none" /\ workers'[c][current'[c]] # "none"
    <2>1. workers'[c][1] # "none" /\ workers'[c][current[c]] # "none"
      BY <1>1, <1>2 DEF WorkersExist, WorkersMove
    <2>2. CASE UNCHANGED current
      BY <2>1, <2>2
    <2>3. CASE current' = [current EXCEPT ![manager.camera] = 2] /\ manager.step \in Replacing
      <3>1. manager.camera = c => workers'[c][2] # "none"
        BY <1>1, <1>2, <2>3 DEF WorkersExist, WorkersMove
      <3>2. current'[c] = IF manager.camera = c THEN 2 ELSE current[c]
        BY <1>1, <2>3
      <3> QED BY <2>1, <3>1, <3>2
    <2> QED BY <2>2, <2>3, PublishedOnly
  <1>5. ASSUME manager'.step \in Replacing
        PROVE  current'[manager'.camera] = 1 /\ workers'[manager'.camera][2] # "none"
    <2>1. UNCHANGED current
      BY <1>5, ReplacingSteps
    <2>2. CASE manager.step \in Replacing /\ manager'.camera = manager.camera
      BY <1>1, <1>2, <1>3, <2>1, <2>2 DEF WorkersExist, WorkersMove
    <2>3. CASE manager'.camera \in Target /\ ReconfigureBegins(manager'.camera)
      <3>1. PICK c \in Camera : c = manager'.camera
        BY <1>1, <2>3
      <3>2. current[c] = 1 /\ WorkerBecomes(c, 2, "stopped") /\ "stopped" \in Phase
        BY <2>3, <3>1 DEF ReconfigureBegins, Phase
      <3>3. workers'[c][2] = "stopped"
        BY <1>1, <3>2, FleetUpdate
      <3> QED BY <2>1, <3>1, <3>2, <3>3
    <2> QED BY <1>5, <2>2, <2>3, ReplacingSteps
  <1> QED BY <1>4, <1>5 DEF WorkersExist

LEMMA OwnedNext ==
  ASSUME Owned, [FleetNext]_fleetSystem
  PROVE  Owned'
  <1>1. CASE FleetNext
    <2>1. WorkersMove
      BY <1>1, FleetMoves
    <2>2. OnlyTasksStart'
      BY <2>1 DEF WorkersMove, OnlyTasksStart
    <2> QED BY <1>1, <2>2, FleetTypedNext, RefusedNext, WorkersExistNext DEF Owned
  <1>2. CASE UNCHANGED fleetSystem
    BY <1>2
    DEF Owned, FleetTyped, OnlyTasksStart, CommandsRefused, NobodyStarts, WorkersExist,
        TearingDown, fleetSystem, ownedVars, controlVars,
        fleetVars, startupVars, managerVars
  <1> QED BY <1>1, <1>2

LEMMA OwnedInit ==
  ASSUME FleetInit
  PROVE  Owned /\ FleetRests /\ ReplacementsKnown
  <1>1. /\ workers = [c \in Camera |->
                        [v \in Version |-> IF v = 1 THEN "stopped" ELSE "none"]]
        /\ current = [c \in Camera |-> 1] /\ task = [c \in Camera |-> "queued"]
        /\ commands /\ command = Idle /\ manager = Idle /\ ~closed
        /\ 1 \in Version /\ 2 \in Version
    BY Zenon DEF FleetInit, Version
  <1>2. Idle.step = "idle" /\ {"stopped", "none"} \subseteq Phase
    BY DEF Idle, Phase
  <1>3. FleetTyped
    BY <1>1, <1>2 DEF FleetTyped, OnOneCamera, Replacing
  <1>4. OnlyTasksStart /\ WorkersExist
    BY <1>1, <1>2 DEF OnlyTasksStart, WorkersExist, Replacing
  <1>5. CommandsRefused /\ NobodyStarts /\ FleetRests
    BY <1>1, <1>2 DEF CommandsRefused, NobodyStarts, FleetRests, TearingDown
  <1>6. ReplacementsKnown
    BY <1>1, <1>2 DEF ReplacementsKnown, Replacing
  <1> QED BY <1>3, <1>4, <1>5, <1>6 DEF Owned


\* From the close of the fleet's workers on, they rest.
LEMMA FleetRestsNext ==
  ASSUME Owned, FleetRests, FleetNext
  PROVE  FleetRests'
  <1>1. /\ FleetTyped /\ current \in [Camera -> Version]
        /\ workers \in [Camera -> [Version -> Phase]]
    BY DEF Owned, FleetTyped
  <1>2. CASE ShutdownStops
    <2>1. UNCHANGED <<current, closed>> /\ ~closed
      BY <1>2, ShutdownMoves
      DEF Owned, CommandsRefused, ShutdownStops, ownedVars, Shutdown,
          Idle
    <2>2. ASSUME NEW c \in Camera, manager'.step = "close"
          PROVE  workers'[c][current[c]] \in {"stopped", "closed"}
      <3>1. task'[c] = "done"
        BY <1>2, <2>1
        DEF Owned, NobodyStarts, TearingDown, ShutdownStops, startupVars
      <3>2. /\ WorkersMove
            /\ workers'[c][current[c]] \notin {"running", "stuck"}
        BY <1>2, <2>2, ShutdownStopsWorkers
      <3>3. workers'[c][current[c]] \in Phase \ {"none", "starting"}
        BY <1>1, <3>1, <3>2 DEF Owned, WorkersExist, WorkersMove
      <3> QED BY <3>2, <3>3 DEF Phase
    <2> QED BY <2>1, <2>2 DEF FleetRests
  <1>3. CASE ShutdownCloses
    <2>1. \A c \in Camera : workers[c][current[c]] \in {"stopped", "closed"}
      BY <1>3 DEF FleetRests, ShutdownCloses
    <2>2. UNCHANGED current
      BY <1>3 DEF ShutdownCloses
    <2>3. \A c \in Camera : workers'[c][current[c]] \in {"stopped", "closed"}
      BY <1>1, <1>3, <2>1, ShutdownClosesWorkers
    <2> QED BY <2>2, <2>3 DEF FleetRests
  <1>4. ASSUME NEW c \in Camera, NEW v \in Version, ThreadsEnd(c, v)
        PROVE  FleetRests'
    <2>1. /\ UNCHANGED <<current, manager, closed>>
          /\ Touched(c, v) /\ workers'[c][v] = "stopped"
      BY <1>4, ThreadsEndMoves
    <2> QED BY <1>1, <2>1 DEF FleetRests, Touched
  <1>5. CASE ~TearingDown /\ ~ShutdownStops /\ ~ShutdownCloses
    <2>1. ~closed' /\ manager'.step # "close"
      <3>1. CASE Shutdown
        BY <1>5, <3>1
        DEF TearingDown, Shutdown, ReleasesEarly, ShutdownBegins,
            ShutdownJoins, managerVars, Manages, Idle
      <3>2. CASE Reconfiguration
        <4>1. UNCHANGED closed
          BY <3>2, ReconfigurationMoves
        <4>2. manager'.step # "close"
          BY <3>2
          DEF Reconfiguration, ReconfigureBegins,
              ReconfigureStopsOld, ReconfigureStartsNew,
              ReconfigurePublishes, ReconfigureClosesOld,
              ReconfigureUndoes, ReconfigureRestarts, Manages, Idle
        <4> QED BY <1>5, <4>1, <4>2 DEF TearingDown
      <3>3. CASE Admission
        <4>1. UNCHANGED <<manager, closed>>
          BY <3>3 DEF Admission, TaskChecked, TaskStarts,
                      TaskStarted, TaskRecords, TaskEnds, TaskDropped,
                      managerVars
        <4> QED BY <1>5, <4>1 DEF TearingDown
      <3>4. CASE Control \/ \E c \in Camera, v \in Version : ThreadsEnd(c, v)
        BY <1>5, <3>4, CommandMoves, ThreadsEndMoves DEF TearingDown
      <3> QED BY <3>1, <3>2, <3>3, <3>4 DEF FleetNext
    <2> QED BY <2>1 DEF FleetRests
  <1> QED BY <1>2, <1>3, <1>4, <1>5, TornDown

\* Steps that leave the replacements, and who works on one, alone.
LEMMA ReplacementsKept ==
  ASSUME ReplacementsKnown, UNCHANGED current, fenced => fenced',
         \A c \in Camera : current[c] = 1 => workers'[c][2] = workers[c][2],
         manager.step \in Replacing =>
           manager'.step \in Replacing /\ manager'.camera = manager.camera,
         manager'.step \in Replacing \ {"undo"} => ~fenced'
  PROVE  ReplacementsKnown'
  BY DEF ReplacementsKnown

LEMMA ReplacementsKnownNext ==
  ASSUME Owned, ReplacementsKnown, FleetNext
  PROVE  ReplacementsKnown'
  <1>1. /\ FleetTyped /\ current \in [Camera -> Version]
        /\ 1 \in Version /\ 2 \in Version /\ Target \subseteq Camera
    BY FleetAssumption DEF Owned, FleetTyped, Version, FleetAssumption
  <1>2. ASSUME NEW c \in Camera, NEW v \in Version, Touched(c, v),
               v = 1 \/ v = current[c]
        PROVE  \A d \in Camera : current[d] = 1 => workers'[d][2] = workers[d][2]
    BY <1>1, <1>2 DEF Touched
  <1>3. CASE Admission
    <2>1. UNCHANGED <<current, manager, fenced>>
      BY <1>3 DEF Admission, TaskChecked, TaskStarts, TaskStarted,
                  TaskRecords, TaskEnds, TaskDropped, ownedVars, managerVars
    <2>2. UNCHANGED workers \/ \E c \in Camera, p \in Phase : WorkerBecomes(c, 1, p)
      BY <1>3
      DEF Admission, TaskChecked, TaskStarts, TaskStarted,
          TaskRecords, TaskEnds, TaskDropped, ownedVars, Phase
    <2>3. \A d \in Camera : workers'[d][2] = workers[d][2]
      BY <1>1, <2>2, FleetUpdate
    <2> QED BY <2>1, <2>3, ReplacementsKept DEF ReplacementsKnown
  <1>4. CASE Control
    <2>1. UNCHANGED <<current, manager, fenced>>
      BY <1>4, CommandMoves
    <2>2. \/ UNCHANGED workers
          \/ /\ command.camera \in Camera
             /\ Touched(command.camera, current[command.camera])
      <3>1. CASE ~(PowerOnWorker \/ PowerOffWorker)
        BY <1>4, <3>1
        DEF Control, PowerSet, RecordingSet, PowerOnFleet,
            PowerOnFails, PowerOffFleet, ownedVars
      <3>2. CASE PowerOnWorker \/ PowerOffWorker
        <4>1. command.camera \in Camera
          BY <1>1, <3>2 DEF FleetTyped, PowerOnWorker, PowerOffWorker
        <4>2. \/ UNCHANGED workers
              \/ \E ok \in BOOLEAN :
                   \/ WorkerStarts(command.camera, current[command.camera], ok)
                   \/ Stops(command.camera, current[command.camera], ok)
          BY <3>2, Zenon DEF PowerOnWorker, PowerOffWorker
        <4> QED BY <1>1, <4>1, <4>2, StartsTouches, StopsTouches
      <3> QED BY <3>1, <3>2
    <2>3. \A d \in Camera : current[d] = 1 => workers'[d][2] = workers[d][2]
      BY <1>1, <1>2, <2>2
    <2> QED BY <2>1, <2>3, ReplacementsKept DEF ReplacementsKnown
  <1>5. ASSUME NEW c \in Camera, NEW v \in Version, ThreadsEnd(c, v)
        PROVE  ReplacementsKnown'
    <2>1. /\ UNCHANGED <<current, manager, fenced>>
          /\ Touched(c, v) /\ workers[c][v] = "stuck"
      BY <1>5, ThreadsEndMoves
    <2> QED BY <1>1, <2>1 DEF ReplacementsKnown, Touched
  <1>6. CASE Shutdown
    <2>1. UNCHANGED <<current, fenced>>
      BY <1>6, ShutdownMoves
    <2>2. /\ UNCHANGED manager \/ manager'.step \in {"idle", "join", "stop", "close"}
          /\ UNCHANGED manager \/ manager.step \in {"idle", "join", "stop", "close"}
      BY <1>6
      DEF Shutdown, ReleasesEarly, ShutdownBegins, ShutdownJoins,
          ShutdownStops, ShutdownCloses, Manages, Idle,
          managerVars
    <2>3. \A d \in Camera : current[d] = 1 => workers'[d][2] = workers[d][2]
      <3>1. CASE ReleasesEarly \/ ShutdownBegins \/ ShutdownJoins
        BY <3>1 DEF ReleasesEarly, ShutdownBegins, ShutdownJoins,
                    ownedVars
      <3> QED BY <1>1, <1>6, <3>1, ShutdownStopsWorkers, ShutdownClosesWorkers
              DEF Shutdown
    <2> QED BY <2>1, <2>2, <2>3, ReplacementsKept DEF ReplacementsKnown, Replacing
  <1>7. CASE Reconfiguration
    <2>1. ASSUME manager.step \in OnOneCamera
          PROVE  manager.camera \in Camera
      BY <1>1, <2>1 DEF FleetTyped
    <2>2. ASSUME NEW c \in Target, ReconfigureBegins(c)
          PROVE  ReplacementsKnown'
      <3>1. "stopped" \in Phase /\ manager.step = "idle"
        BY <2>2 DEF Phase, ReconfigureBegins, Idle
      <3>2. /\ manager'.camera = c /\ manager'.step = "stop_old" /\ ~fenced /\ fenced' = fenced
            /\ UNCHANGED current
        BY <2>2 DEF ReconfigureBegins, Manages
      <3>3. \A d \in Camera : d # c => workers'[d][2] = workers[d][2]
        BY <1>1, <2>2, <3>1, FleetUpdate DEF ReconfigureBegins
      <3> QED BY <3>1, <3>2, <3>3 DEF ReplacementsKnown, Replacing
    <2>3. CASE ReconfigureStopsOld
      <3>1. /\ manager.camera \in Camera /\ UNCHANGED <<current, fenced>>
            /\ manager.step = "stop_old"
        BY <2>1, <2>3 DEF ReconfigureStopsOld, OnOneCamera, Replacing
      <3>2. Touched(manager.camera, 1)
        BY <1>1, <2>3, <3>1, StopsTouches DEF ReconfigureStopsOld
      <3>3. manager'.step \in Replacing /\ manager'.camera = manager.camera
        BY <2>3 DEF ReconfigureStopsOld, Manages, Replacing
      <3> QED BY <1>1, <1>2, <3>1, <3>2, <3>3, ReplacementsKept
              DEF ReplacementsKnown, Replacing
    <2>4. CASE ReconfigureStartsNew
      <3>1. /\ manager.camera \in Camera /\ UNCHANGED <<current, fenced>>
            /\ manager.step = "start_new"
        BY <2>1, <2>4 DEF ReconfigureStartsNew, OnOneCamera, Replacing
      <3>2. UNCHANGED workers \/ Touched(manager.camera, 2)
        BY <1>1, <2>4, <3>1, StartsTouches DEF ReconfigureStartsNew
      <3>3. manager'.step \in Replacing /\ manager'.camera = manager.camera
        BY <2>4 DEF ReconfigureStartsNew, Manages, Replacing
      <3>4. \A d \in Camera : d # manager.camera => workers'[d][2] = workers[d][2]
        BY <1>1, <3>2 DEF Touched
      <3> QED BY <3>1, <3>3, <3>4 DEF ReplacementsKnown, Replacing
    <2>5. CASE ReconfigurePublishes
      <3>1. /\ manager.camera \in Camera /\ manager.step = "publish" /\ UNCHANGED workers
            /\ ~fenced /\ fenced' = stopping
        BY <2>1, <2>5
        DEF ReconfigurePublishes, OnOneCamera, Replacing, ReplacementsKnown
      <3>2. CASE stopping
        <4>1. manager'.step = "undo"
          BY <2>5, <3>2 DEF ReconfigurePublishes, Manages
        <4> QED BY <3>1, <3>2, <4>1 DEF ReplacementsKnown
      <3>3. CASE ~stopping
        <4>1. manager'.step = "close_old"
              /\ current' = [current EXCEPT ![manager.camera] = 2]
          BY <2>5, <3>3 DEF ReconfigurePublishes, Manages
        <4>2. \A d \in Camera : current'[d] = 1 => d # manager.camera /\ current[d] = 1
          BY <1>1, <4>1
        <4> QED BY <3>1, <4>1, <4>2 DEF ReplacementsKnown, Replacing
      <3> QED BY <3>2, <3>3
    <2>6. CASE ReconfigureClosesOld
      <3>1. /\ manager.camera \in Camera /\ manager.step = "close_old"
            /\ UNCHANGED <<current, fenced>> /\ manager'.step = "idle"
        BY <2>1, <2>6 DEF ReconfigureClosesOld, OnOneCamera, Idle
      <3>2. \A d \in Camera : workers'[d][2] = workers[d][2]
        <4>1. PICK p : WorkerBecomes(manager.camera, 1, p)
          BY <2>6 DEF ReconfigureClosesOld, Closes
        <4> QED BY <1>1, <3>1, <4>1 DEF WorkerBecomes, FleetTyped
      <3> QED BY <3>1, <3>2, ReplacementsKept DEF Replacing
    <2>7. CASE ReconfigureUndoes
      <3>1. manager.camera \in Camera /\ manager.step = "undo" /\ UNCHANGED current
        BY <2>1, <2>7 DEF ReconfigureUndoes, OnOneCamera, Replacing
      <3>2. CASE /\ WorkerBecomes(manager.camera, 2, "closed") /\ UNCHANGED fenced
                 /\ Manages("restart", manager.camera, manager.flag)
        <4>1. "closed" \in Phase /\ manager'.step = "restart"
          BY <3>2 DEF Phase, Manages
        <4>2. /\ workers'[manager.camera][2] = "closed"
              /\ \A d \in Camera : d # manager.camera => workers'[d][2] = workers[d][2]
          BY <1>1, <3>1, <3>2, <4>1, FleetUpdate
        <4> QED BY <3>1, <3>2, <4>1, <4>2 DEF ReplacementsKnown, Replacing
      <3>3. CASE manager' = Idle /\ fenced'
        BY <3>3 DEF ReplacementsKnown, Replacing, Idle
      <3> QED BY <2>7, <3>2, <3>3 DEF ReconfigureUndoes
    <2>8. CASE ReconfigureRestarts
      <3>1. /\ manager.camera \in Camera /\ manager.step = "restart" /\ UNCHANGED current
            /\ manager'.step = "idle"
        BY <2>1, <2>8 DEF ReconfigureRestarts, OnOneCamera, Idle
      <3>2. fenced => fenced'
        BY <2>8, Zenon DEF ReconfigureRestarts
      <3>3. UNCHANGED workers \/ Touched(manager.camera, 1)
        BY <1>1, <2>8, <3>1, StartsTouches DEF ReconfigureRestarts
      <3>4. \A d \in Camera : workers'[d][2] = workers[d][2]
        BY <1>1, <3>3 DEF Touched
      <3> QED BY <3>1, <3>2, <3>4, ReplacementsKept DEF Replacing
    <2> QED BY <1>7, <2>2, <2>3, <2>4, <2>5, <2>6, <2>7, <2>8 DEF Reconfiguration
  <1> QED BY <1>3, <1>4, <1>5, <1>6, <1>7 DEF FleetNext


LEMMA FleetCorrect == FleetSpec => [](Owned /\ FleetRests /\ ReplacementsKnown)
  <1> DEFINE Inv == Owned /\ FleetRests /\ ReplacementsKnown
  <1>1. FleetInit => Inv
    BY OwnedInit
  <1>2. Inv /\ [FleetNext]_fleetSystem => Inv'
    <2>1. ASSUME Inv, FleetNext
          PROVE  Inv'
      BY <2>1, OwnedNext, FleetRestsNext, ReplacementsKnownNext
    <2>2. ASSUME Inv, UNCHANGED fleetSystem
          PROVE  Inv'
      BY <2>2, OwnedNext
      DEF FleetRests, ReplacementsKnown, fleetSystem, ownedVars, managerVars
    <2> QED BY <2>1, <2>2
  <1> QED BY <1>1, <1>2, PTL DEF FleetSpec

\* Inference and recording are closed beneath workers of the fleet that rest,
\* for any number of cameras: at the close of the workers nobody could start
\* one any more, and those that had not ended kept the shutdown from going on.
THEOREM DependenciesCloseLast == FleetSpec => []DependenciesLast
  <1>1. FleetRests => DependenciesLast
    BY DEF FleetRests, DependenciesLast, CurrentWorker
  <1> QED BY <1>1, FleetCorrect, PTL

\* A replacement the fleet did not take is closed, or reconfigurations are
\* fenced, wherever the reconfiguration failed and whatever commands, admission
\* and shutdown did meanwhile.
THEOREM ReplacementsAreClosed == FleetSpec => []NoStrayReplacement
  <1>1. ReplacementsKnown => NoStrayReplacement
    BY DEF ReplacementsKnown, NoStrayReplacement, Replacing, Idle
  <1> QED BY <1>1, FleetCorrect, PTL

\* From the moment the workers are being stopped no worker, retired ones
\* included, is started: who could have has ended or is refused.
THEOREM NobodyStartsLate == FleetSpec => NothingStartsLate
  <1> DEFINE Late == TearingDown =>
               \A c \in Camera, v \in Version :
                 workers'[c][v] \in {"starting", "running"} =>
                   workers'[c][v] = workers[c][v]
  <1>1. Owned /\ [FleetNext]_fleetSystem => [Late]_fleetSystem
    <2> SUFFICES ASSUME Owned, FleetNext, TearingDown,
                        NEW c \in Camera, NEW v \in Version,
                        workers'[c][v] \in {"starting", "running"}
                 PROVE  workers'[c][v] = workers[c][v]
      OBVIOUS
    <2>1. CASE ShutdownStops
      BY <2>1, ShutdownStopsWorkers
    <2>2. CASE ShutdownCloses
      <3>1. \/ workers'[c][v] = workers[c][v]
            \/ workers'[c][v] = "closed"
        BY <2>2, ShutdownClosesWorkers
      <3> QED BY <3>1
    <2>3. ASSUME NEW d \in Camera, NEW u \in Version, ThreadsEnd(d, u)
          PROVE  workers'[c][v] = workers[c][v]
      <3>1. Touched(d, u) /\ workers'[d][u] = "stopped"
        BY <2>3, ThreadsEndMoves
      <3> QED BY <3>1 DEF Touched
    <2> QED BY <2>1, <2>2, <2>3, TornDown
  <1>2. FleetSpec => []Owned
    BY FleetCorrect, PTL
  <1> QED BY <1>1, <1>2, PTL DEF FleetSpec, NothingStartsLate


-----------------------------------------------------------------------------
(***************************************************************************)
(* CameraLifecycle: where commands stand, and what holds there.            *)
(***************************************************************************)
\* The steps of a start, up to the capture and after it; those of the detection
\* switch and of a stop.
Leading == {"track", "motion", "capture"}
Growing == {"listener", "creates", "up"}
Starting == Leading \cup Growing \cup {"rollback"}
Detecting == {"detection", "detects", "undetection", "leaves"}
Stopping == {"asking", "waiting", "finishing"}
Steps == Resting \cup Starting \cup Detecting \cup Stopping \cup {"closing"}
Command == [step : Steps, ticket : Nat, final : {"stopped", "failed"}, late : BOOLEAN,
            then : {"idle", "ticket", "closing"}]

LifecycleTyped ==
  /\ op \in [Caller -> Command]
  /\ pending \in [no : Nat, gen : Nat, final : {"stopped", "failed"}]
  /\ gen \in Nat /\ asked \in Nat
  /\ motion \in [MotionWorker -> Nat] /\ ingress \in [Generation -> Nat]
  /\ cap \in [Slot -> [gen : Nat, told : BOOLEAN]]

\* The lock: one command at most is beyond the steps at which it rests.
Busy(c) == op[c].step \notin Resting
Somebody(S) == \E c \in Caller : op[c].step \in S
Exclusive == \A c, d \in Caller : Busy(c) /\ Busy(d) => c = d

\* The stop of this generation was announced; where a command stands, the phase
\* is the one its steps count on.
Pended == pending.no # 0 /\ pending.gen = gen
Place(c) ==
  /\ At(c, "idle") => op[c].ticket = 0
  /\ At(c, "ticket") => c = Fleet /\ op[c].ticket # 0
  /\ op[c].step \in Starting => phase = "starting"
  /\ op[c].step \in Detecting => phase = "running"
  /\ At(c, "closing") => phase \in {"stopped", "failed"}
  /\ At(c, "asking") => /\ phase = "stopping" /\ op[c].ticket # 0
                        /\ op[c].then = "ticket" => c = Fleet
  /\ At(c, "waiting") /\ phase = "stopping" => Pended /\ op[c].ticket \in {0, pending.no}
  /\ At(c, "finishing") => phase = "stopping" /\ Pended
Places == \A c \in Caller : Place(c)

\* A camera that starts or stops has somebody at it, or the fleet's ticket.
Progress ==
  /\ phase = "starting" => Somebody(Starting)
  /\ phase = "stopping" =>
       \/ Somebody(Stopping)
       \/ Pended /\ At(Fleet, "ticket") /\ op[Fleet].ticket = pending.no

\* From the request of a stop until the next start nothing is accepted, and once
\* the broadcast is out everything was told.
Told == ~trackAccepts /\ capStop /\ \A s \in Slot : cap[s].gen = 0 \/ cap[s].told
Silent ==
  phase \in {"stopped", "stopping", "failed", "closed"} =>
    /\ ~acceptingMotion /\ stopSet
    /\ Told \/ Somebody({"asking"})

\* What a start has brought about by its step, and what a running camera keeps.
Moving == clean /\ ~stopSet /\ \A w \in MotionWorker : motion[w] = gen
Capturing ==
  /\ ~capStop /\ observer = "alive"
  /\ cap["live"].gen = gen /\ ~cap["live"].told
  /\ \A s \in Slot : cap[s].gen \in {0, gen}
Grown ==
  /\ phase = "running" \/ Somebody(Leading \cup Growing) =>
       ~stopSet /\ IngressInFlight \subseteq {gen}
  /\ Somebody(Leading) => capStop
  /\ Somebody({"capture"}) => Moving
  /\ phase = "running" \/ Somebody(Growing) => Moving /\ Capturing

Lively == LifecycleTyped /\ Exclusive /\ Places /\ Progress /\ Silent /\ Grown

\* A step of a command changes the command of its caller only.
Commanded(c, r) == op' = [op EXCEPT ![c] = r]

LEMMA GoesToCommand ==
  ASSUME LifecycleTyped, NEW c \in Caller, NEW s, GoesTo(c, s)
  PROVE  Commanded(c, [op[c] EXCEPT !.step = s])
  BY DEF LifecycleTyped, GoesTo, Commanded

\* The fields of a command that goes on.
LEMMA StepFields ==
  ASSUME NEW r \in Command, NEW s \in Steps
  PROVE  LET q == [r EXCEPT !.step = s]
         IN  /\ q \in Command /\ q.step = s /\ q.ticket = r.ticket /\ q.then = r.then
             /\ q.final = r.final
  BY DEF Command
LEMMA NoOpIsOne ==
  NoOp \in Command /\ NoOp.step = "idle" /\ NoOp.ticket = 0
  BY DEF Command, NoOp, Resting, Steps

\* While one caller commands, the others rest: what somebody does, it does.
Rests(c) == \A d \in Caller \ {c} : op[d].step \in Resting
Roles(c) ==
  /\ Somebody(Starting) <=> op[c].step \in Starting
  /\ Somebody(Stopping) <=> op[c].step \in Stopping
  /\ Somebody({"asking"}) <=> op[c].step = "asking"
  /\ Somebody(Leading \cup Growing) <=> op[c].step \in Leading \cup Growing
  /\ Somebody(Leading) <=> op[c].step \in Leading
  /\ Somebody(Growing) <=> op[c].step \in Growing
  /\ Somebody({"capture"}) <=> op[c].step = "capture"

LEMMA RolesAreApart ==
  ASSUME NEW s \in Resting
  PROVE  s \notin Starting \cup Stopping \cup Detecting \cup {"asking", "capture", "closing"}
  BY DEF Resting, Starting, Leading, Growing, Stopping, Detecting

LEMMA RestGivesRoles ==
  ASSUME NEW c \in Caller, Rests(c)
  PROVE  Roles(c)
  <1>1. \A d \in Caller \ {c} :
          op[d].step \notin Starting \cup Stopping \cup {"asking", "capture"}
    BY RolesAreApart DEF Rests
  <1> QED BY <1>1 DEF Roles, Somebody, Starting
LEMMA RestGivesRolesNext ==
  ASSUME NEW c \in Caller, Rests(c)'
  PROVE  Roles(c)'
  <1>1. \A d \in Caller \ {c} :
          op'[d].step \notin Starting \cup Stopping \cup {"asking", "capture"}
    BY RolesAreApart DEF Rests
  <1> QED BY <1>1 DEF Roles, Somebody, Starting

\* A step of one caller under the lock.
Turned(c) ==
  /\ op' \in [Caller -> Command] /\ Exclusive'
  /\ \A d \in Caller \ {c} : op'[d] = op[d]
  /\ Rests(c) /\ Roles(c) /\ Roles(c)'
  /\ \A d \in Caller \ {c} : Place(d)'

LEMMA Turn ==
  ASSUME LifecycleTyped, Exclusive, Places, NEW c \in Caller, NEW r \in Command,
         Commanded(c, r), LockFree \/ Busy(c)
  PROVE  Turned(c) /\ op'[c] = r
  <1>1. /\ op' \in [Caller -> Command]
        /\ op'[c] = r /\ \A d \in Caller \ {c} : op'[d] = op[d]
    BY DEF LifecycleTyped, Commanded
  <1>2. Rests(c)
    BY DEF Rests, LockFree, Busy, Exclusive
  <1>3. Rests(c)' /\ Exclusive'
    BY <1>1, <1>2 DEF Rests, Exclusive, Busy
  <1>4. ASSUME NEW d \in Caller \ {c}
        PROVE  Place(d)'
    <2>1. op'[d] = op[d] /\ op[d].step \in Resting /\ Place(d)
      BY <1>1, <1>2 DEF Rests, Places
    <2>2. op[d].step \notin Starting \cup Stopping \cup Detecting \cup {"closing"}
      BY <2>1, RolesAreApart
    <2> QED BY <2>1, <2>2 DEF Place, At, Stopping
  <1> QED BY <1>1, <1>2, <1>3, <1>4, RestGivesRoles, RestGivesRolesNext DEF Turned

\* A step that only moves its command on.
LEMMA Advance ==
  ASSUME Lively, NEW c \in Caller, NEW s \in Steps, GoesTo(c, s), LockFree \/ Busy(c)
  PROVE  /\ Turned(c) /\ op'[c].step = s
         /\ op'[c].ticket = op[c].ticket /\ op'[c].then = op[c].then
  <1>1. op[c] \in Command
    BY DEF Lively, LifecycleTyped
  <1> DEFINE r == [op[c] EXCEPT !.step = s]
  <1>2. r \in Command /\ r.step = s /\ r.ticket = op[c].ticket /\ r.then = op[c].then
    BY <1>1, StepFields
  <1>3. Commanded(c, r)
    BY GoesToCommand DEF Lively
  <1> HIDE DEF r
  <1> QED BY <1>2, <1>3, Turn DEF Lively
LEMMA Return ==
  ASSUME Lively, NEW c \in Caller, Returns(c), LockFree \/ Busy(c)
  PROVE  Turned(c) /\ op'[c] = NoOp /\ op'[c].step = "idle" /\ op'[c].ticket = 0
  BY NoOpIsOne, Turn DEF Lively, Returns, Commanded

\* The five parts of the invariant, of a state that a turn leads to.
LEMMA TurnKeeps ==
  ASSUME NEW c \in Caller, Turned(c), LifecycleTyped', Place(c)', Progress', Silent', Grown'
  PROVE  Lively'
  BY DEF Turned, Lively, Places

LEMMA BusySteps ==
  ASSUME NEW c \in Caller, op[c].step \in Steps \ Resting
  PROVE  Busy(c)
  BY DEF Busy

-----------------------------------------------------------------------------
(***************************************************************************)
(* CameraLifecycle: the steps of start.                                    *)
(***************************************************************************)
LEMMA StartBeginsKeeps ==
  ASSUME Lively, NEW c \in Caller, StartBegins(c)
  PROVE  Lively'
  <1>1. Turned(c) /\ op'[c].step = "track" /\ op[c].step = "idle"
    BY Advance DEF StartBegins, At, Steps, Starting, Leading
  <1>2. LifecycleTyped'
    BY <1>1 DEF Turned, Lively, LifecycleTyped, StartBegins, stopVars, workerVars,
                motionVars, captureVars
  <1>3. Place(c)'
    BY <1>1 DEF Place, At, StartBegins, Starting, Leading, Detecting
  <1>4. Progress'
    BY <1>1 DEF Turned, Roles, Progress, StartBegins, Starting, Leading
  <1>5. Silent'
    BY DEF Silent, StartBegins
  <1>6. Told /\ IngressInFlight = {}
    BY <1>1 DEF Lively, Silent, Turned, Roles, StartBegins, Residual, MotionResidual
  <1>7. Grown'
    BY <1>1, <1>6
    DEF Turned, Roles, Grown, StartBegins, Told, Leading, Growing, workerVars, captureVars,
        IngressInFlight
  <1> QED BY <1>1, <1>2, <1>3, <1>4, <1>5, <1>7, TurnKeeps

LEMMA StartRefusedKeeps ==
  ASSUME Lively, NEW c \in Caller, StartRefused(c)
  PROVE  Lively'
  <1>1. LockFree /\ op' = op /\ phase \in {"stopped", "failed"} /\ phase' = "failed"
    BY DEF StartRefused
  <1>2. LifecycleTyped' /\ Exclusive' /\ Progress'
    BY DEF Lively, LifecycleTyped, Exclusive, Busy, Progress, StartRefused, stopVars, workerVars,
           motionVars, captureVars
  <1>3. Silent'
    BY <1>1 DEF Lively, Silent, StartRefused, Told, Somebody, workerVars, captureVars, trackVars
  <1>4. ~Somebody(Leading \cup Growing) /\ ~Somebody({"capture"})
    BY <1>1, RolesAreApart DEF LockFree, Somebody, Starting
  <1>5. Grown'
    BY <1>1, <1>4 DEF Grown, Somebody, Starting
  <1>6. ASSUME NEW d \in Caller
        PROVE  Place(d)'
    <2>1. op'[d] = op[d] /\ op[d].step \in Resting /\ Place(d)
      BY <1>1 DEF LockFree, Lively, Places
    <2>2. op[d].step \notin Starting \cup Stopping \cup Detecting \cup {"closing"}
      BY <2>1, RolesAreApart
    <2> QED BY <2>1, <2>2 DEF Place, At, Stopping
  <1> QED BY <1>2, <1>3, <1>5, <1>6 DEF Lively, Places

\* What is left to show of a step of start that does not end it.
LEMMA StartGoesOn ==
  ASSUME Lively, NEW c \in Caller, Turned(c), op[c].step \in Starting,
         op'[c].step \in Starting, phase' = phase, LifecycleTyped', Grown'
  PROVE  Lively'
  <1>1. phase' = "starting"
    BY DEF Lively, Places, Place
  <1>2. Place(c)'
    BY <1>1 DEF Place, At, Starting, Leading, Growing, Detecting
  <1>3. Progress' /\ Silent'
    BY <1>1 DEF Turned, Roles, Progress, Silent
  <1> QED BY <1>2, <1>3, TurnKeeps

LEMMA StartTrackingKeeps ==
  ASSUME Lively, NEW c \in Caller, StartTracking(c)
  PROVE  Lively'
  <1>1. Turned(c) /\ op'[c].step = "motion" /\ op[c].step = "track"
    BY Advance, BusySteps DEF StartTracking, At, Steps, Starting, Leading, Resting
  <1>2. phase' = phase /\ phase # "running"
    BY <1>1 DEF Lively, Places, Place, Starting, Leading, StartTracking, stateVars
  <1>3. LifecycleTyped'
    BY <1>1 DEF Turned, Lively, LifecycleTyped, StartTracking, stateVars, stopVars,
                motionVars, captureVars
  <1>4. Grown'
    BY <1>1, <1>2 DEF Turned, Roles, Lively, Grown, StartTracking, Leading, Growing,
                      stateVars, captureVars, IngressInFlight
  <1> QED BY <1>1, <1>2, <1>3, <1>4, StartGoesOn DEF Starting, Leading

LEMMA StartMotionKeeps ==
  ASSUME Lively, NEW c \in Caller, StartMotion(c)
  PROVE  Lively'
  <1>1. /\ Turned(c) /\ op[c].step = "motion"
        /\ \/ op'[c].step = "rollback"
           \/ /\ op'[c].step = "capture"
              /\ MotionMayStart /\ MotionStarted(gen) /\ UNCHANGED stopSet
    BY Advance, BusySteps DEF StartMotion, At, Steps, Starting, Leading, Resting
  <1>2. phase' = phase /\ phase # "running"
    BY <1>1 DEF Lively, Places, Place, Starting, Leading, StartMotion
  <1>3. LifecycleTyped'
    <2>1. motion' \in [MotionWorker -> Nat]
      BY DEF Lively, LifecycleTyped, StartMotion, MotionStarted, MotionRolledBack, motionVars
    <2> QED BY <1>1, <2>1 DEF Turned, Lively, LifecycleTyped, StartMotion, stopVars,
                              captureVars
  <1>4. CASE op'[c].step = "rollback"
    <2>1. Grown'
      BY <1>1, <1>2, <1>4 DEF Turned, Roles, Grown, Leading, Growing
    <2> QED BY <1>1, <1>2, <1>3, <1>4, <2>1, StartGoesOn DEF Starting, Leading
  <1>5. CASE op'[c].step = "capture"
    <2>1. Grown'
      BY <1>1, <1>2, <1>5
      DEF Turned, Roles, Lively, LifecycleTyped, Grown, StartMotion, Leading, Growing,
          captureVars, IngressInFlight, Moving, MotionMayStart, MotionStarted
    <2> QED BY <1>1, <1>2, <1>3, <1>5, <2>1, StartGoesOn DEF Starting, Leading
  <1> QED BY <1>1, <1>4, <1>5

LEMMA StartCaptureKeeps ==
  ASSUME Lively, NEW c \in Caller, StartCapture(c)
  PROVE  Lively'
  <1>1. /\ Turned(c) /\ op[c].step = "capture"
        /\ \/ op'[c].step = "rollback"
           \/ op'[c].step \in {"listener", "up"} /\ CaptureMayStart /\ CaptureStarted(gen)
    BY Advance, BusySteps
    DEF StartCapture, At, Steps, Starting, Leading, Growing, Resting
  <1>2. phase' = phase /\ phase # "running"
    BY <1>1 DEF Lively, Places, Place, Starting, Leading, StartCapture, stateVars
  <1>3. LifecycleTyped'
    <2>1. cap' \in [Slot -> [gen : Nat, told : BOOLEAN]]
      <3>1. cap' = cap \/ cap' = [cap EXCEPT !["live"] = [gen |-> gen, told |-> FALSE]]
        BY DEF StartCapture, CaptureStarted, CaptureHalfStarted, captureVars
      <3>2. [gen |-> gen, told |-> FALSE] \in [gen : Nat, told : BOOLEAN]
        BY DEF Lively, LifecycleTyped
      <3> QED BY <3>1, <3>2 DEF Lively, LifecycleTyped
    <2> QED BY <1>1, <2>1 DEF Turned, Lively, LifecycleTyped, StartCapture, stateVars,
                              stopVars, motionVars
  <1>4. CASE op'[c].step = "rollback"
    <2>1. Grown'
      BY <1>1, <1>2, <1>4 DEF Turned, Roles, Grown, Leading, Growing
    <2> QED BY <1>1, <1>2, <1>3, <1>4, <2>1, StartGoesOn DEF Starting, Leading
  <1>5. CASE op'[c].step \in {"listener", "up"}
    <2>1. /\ Moving /\ capStop /\ IngressInFlight \subseteq {gen}
          /\ CaptureMayStart /\ CaptureStarted(gen)
      BY <1>1, <1>5 DEF Lively, Turned, Roles, Grown, Leading
    <2>2. Capturing'
      <3>1. \A s \in Slot : cap[s].gen = 0
        BY <2>1 DEF CaptureMayStart, CaptureLingers, CaptureAlive
      <3>2. /\ cap' = [cap EXCEPT !["live"] = [gen |-> gen, told |-> FALSE]]
            /\ observer' = "alive" /\ ~capStop'
        BY <2>1, <3>1 DEF CaptureStarted, Slot
      <3>3. /\ cap'["live"].gen = gen /\ ~cap'["live"].told
            /\ \A s \in Slot : s # "live" => cap'[s] = cap[s]
        BY <3>2 DEF Lively, LifecycleTyped, Slot
      <3> QED BY <3>1, <3>2, <3>3 DEF Capturing, StartCapture, stateVars
    <2>3. Moving' /\ (IngressInFlight \subseteq {gen})' /\ ~stopSet'
      BY <2>1 DEF StartCapture, stateVars, motionVars, Moving, IngressInFlight
    <2>4. Grown'
      BY <1>1, <1>2, <1>5, <2>2, <2>3 DEF Turned, Roles, Grown, Leading, Growing
    <2> QED BY <1>1, <1>2, <1>3, <1>5, <2>4, StartGoesOn DEF Starting, Leading, Growing
  <1> QED BY <1>1, <1>4, <1>5

LEMMA StartListenerKeeps ==
  ASSUME Lively, NEW c \in Caller, StartListener(c) \/ StartListens(c)
  PROVE  Lively'
  <1>1. /\ Turned(c) /\ op[c].step \in Growing
        /\ op'[c].step \in Growing \cup {"rollback"}
    BY Advance, BusySteps
    DEF StartListener, StartListens, At, Steps, Starting, Growing, Resting
  <1>2. /\ UNCHANGED <<stateVars, stopVars, motionVars, ingress, captureVars>>
        /\ phase # "running"
    BY <1>1 DEF Lively, Places, Place, Starting, StartListener, StartListens, stateVars,
                workerVars
  <1>3. LifecycleTyped'
    BY <1>1, <1>2 DEF Turned, Lively, LifecycleTyped, stateVars, stopVars, motionVars,
                      captureVars
  <1>4. ~stopSet /\ IngressInFlight \subseteq {gen} /\ Moving /\ Capturing
    BY <1>1 DEF Lively, Turned, Roles, Grown
  <1>5. Grown'
    BY <1>1, <1>2, <1>4
    DEF Turned, Roles, Grown, Leading, Growing, stateVars, motionVars, captureVars,
        IngressInFlight, Moving, Capturing
  <1> QED BY <1>1, <1>2, <1>3, <1>5, StartGoesOn DEF Starting, stateVars

LEMMA StartEndsKeeps ==
  ASSUME Lively, NEW c \in Caller, StartEnds(c)
  PROVE  Lively'
  <1>1. /\ Turned(c) /\ op[c].step = "up" /\ phase' = "running"
        /\ op'[c].step = "idle" /\ op'[c].ticket = 0
    BY Return, BusySteps DEF StartEnds, At, Steps, Starting, Growing, Resting
  <1>2. LifecycleTyped'
    BY <1>1 DEF Turned, Lively, LifecycleTyped, StartEnds, stopVars, workerVars, motionVars,
                captureVars
  <1>3. Place(c)' /\ Progress' /\ Silent'
    BY <1>1
    DEF Place, At, Starting, Leading, Growing, Detecting, Turned, Roles, Progress, Silent
  <1>4. ~stopSet /\ IngressInFlight \subseteq {gen} /\ Moving /\ Capturing
    BY <1>1 DEF Lively, Turned, Roles, Grown, Growing
  <1>5. Grown'
    BY <1>1, <1>4
    DEF Turned, Roles, Grown, Leading, Growing, StartEnds, workerVars, motionVars,
        captureVars, IngressInFlight, Moving, Capturing
  <1> QED BY <1>1, <1>2, <1>3, <1>5, TurnKeeps

-----------------------------------------------------------------------------
(***************************************************************************)
(* CameraLifecycle: the steps of a stop, of close and of the detection     *)
(* switch.                                                                 *)
(***************************************************************************)
\* Outside of a start and of a running camera nothing is left to show of Grown.
LEMMA NothingGrows ==
  ASSUME NEW c \in Caller, Turned(c), op'[c].step \notin Leading \cup Growing,
         phase' # "running"
  PROVE  Grown'
  BY DEF Turned, Roles, Grown, Leading, Growing

\* A request shares the stop in progress or begins one.
Shares(c) ==
  /\ phase = "stopping" /\ op'[c].step \in {"ticket", "waiting"}
  /\ op'[c].ticket = pending.no
  /\ UNCHANGED <<phase, acceptingMotion, stopSet, asked>>
Asks(c) ==
  /\ phase # "stopping" /\ phase' = "stopping" /\ ~acceptingMotion' /\ stopSet'
  /\ op'[c].step = "asking" /\ op'[c].ticket = asked + 1 /\ asked' = asked + 1

LEMMA RequestTurns ==
  ASSUME Lively, NEW c \in Caller, LockFree \/ Busy(c),
         NEW final \in {"stopped", "failed"}, NEW then \in {"idle", "ticket", "closing"},
         Requests(c, final, then)
  PROVE  /\ Turned(c) /\ op'[c].then = then
         /\ \/ Shares(c) /\ (op'[c].step = "ticket" => then = "ticket")
            \/ Asks(c)
  <1>1. asked + 1 \in Nat /\ pending.no \in Nat
    BY DEF Lively, LifecycleTyped
  <1>2. {"ticket", "waiting", "asking"} \subseteq Steps
    BY DEF Steps, Resting, Stopping
  <1>3. CASE phase = "stopping"
    <2> DEFINE step == IF then = "ticket" THEN then ELSE "waiting"
               r == [NoOp EXCEPT !.step = step, !.ticket = pending.no, !.then = then]
    <2>1. step \in {"ticket", "waiting"} /\ (step = "ticket" => then = "ticket")
      OBVIOUS
    <2> HIDE DEF step
    <2>2. r \in Command /\ r.step = step /\ r.ticket = pending.no /\ r.then = then
      BY <1>1, <1>2, <2>1, NoOpIsOne DEF Command
    <2>3. Commanded(c, r) /\ UNCHANGED <<phase, acceptingMotion, stopSet, asked>>
      BY <1>3 DEF Requests, Commanded, step
    <2> HIDE DEF r
    <2> QED BY <1>3, <2>1, <2>2, <2>3, Turn DEF Lively, Shares
  <1>4. CASE phase # "stopping"
    <2> DEFINE r == [NoOp EXCEPT !.step = "asking", !.ticket = asked + 1, !.final = final,
                                 !.then = then]
    <2>2. r \in Command /\ r.step = "asking" /\ r.ticket = asked + 1 /\ r.then = then
      BY <1>1, <1>2, NoOpIsOne DEF Command
    <2>3. /\ Commanded(c, r) /\ asked' = asked + 1
          /\ phase' = "stopping" /\ ~acceptingMotion' /\ stopSet'
      BY <1>4 DEF Requests, Commanded
    <2> HIDE DEF r
    <2> QED BY <1>4, <2>2, <2>3, Turn DEF Lively, Asks
  <1> QED BY <1>3, <1>4

\* Only the fleet asks for a ticket; whoever shares a stop finds it pending.
LEMMA RequestKeeps ==
  ASSUME Lively, NEW c \in Caller, LockFree \/ op[c].step = "rollback",
         NEW final \in {"stopped", "failed"}, NEW then \in {"idle", "ticket", "closing"},
         Requests(c, final, then), then = "ticket" => c = Fleet
  PROVE  Lively'
  <1>1. /\ Turned(c) /\ op'[c].then = then
        /\ \/ Shares(c) /\ (op'[c].step = "ticket" => then = "ticket")
           \/ Asks(c)
    BY RequestTurns, BusySteps DEF Steps, Starting, Leading, Growing, Resting
  <1>2. LifecycleTyped'
    BY <1>1
    DEF Turned, Lively, LifecycleTyped, Shares, Asks, Requests, workerVars, motionVars,
        captureVars
  <1>3. CASE Shares(c)
    <2>1. LockFree
      BY <1>3 DEF Shares, Lively, Places, Place, Starting
    <2>2. op[c].step \in Resting /\ ~Somebody(Stopping) /\ ~Somebody({"asking"})
      BY <1>1, <2>1, RolesAreApart DEF LockFree, Turned, Roles
    <2>3. Pended /\ At(Fleet, "ticket") /\ op[Fleet].ticket = pending.no
      BY <1>3, <2>2 DEF Shares, Lively, Progress
    <2>4. Pended' /\ pending' = pending /\ phase' = "stopping" /\ pending.no # 0
      BY <1>3, <2>3 DEF Shares, Requests, Pended
    <2>5. Place(c)'
      BY <1>1, <1>3, <2>4
      DEF Shares, Asks, Place, At, Starting, Leading, Growing, Detecting
    <2>6. Progress'
      BY <1>1, <1>3, <2>3, <2>4
      DEF Shares, Progress, Turned, Roles, Stopping, At, Caller
    <2>7. Silent'
      BY <1>3, <2>2
      DEF Shares, Lively, Silent, Told, Requests, workerVars, captureVars, trackVars
    <2>8. Grown'
      BY <1>1, <1>3, <2>4, NothingGrows DEF Shares, Leading, Growing
    <2> QED BY <1>1, <1>2, <2>5, <2>6, <2>7, <2>8, TurnKeeps
  <1>4. CASE Asks(c)
    <2>1. Place(c)'
      BY <1>1, <1>4
      DEF Asks, Place, At, Starting, Leading, Growing, Detecting, Lively, LifecycleTyped
    <2>2. Progress' /\ Silent'
      BY <1>1, <1>4 DEF Asks, Progress, Silent, Turned, Roles, Stopping
    <2>3. Grown'
      BY <1>1, <1>4, NothingGrows DEF Asks, Leading, Growing
    <2> QED BY <1>1, <1>2, <2>1, <2>2, <2>3, TurnKeeps
  <1> QED BY <1>1, <1>3, <1>4

LEMMA BroadcastsKeeps ==
  ASSUME Lively, NEW c \in Caller, Broadcasts(c)
  PROVE  Lively'
  <1>1. /\ Turned(c) /\ op[c].step = "asking" /\ op'[c].step \in {"ticket", "waiting"}
        /\ op'[c].ticket = op[c].ticket /\ op'[c].then = op[c].then
        /\ op'[c].step = "ticket" => op[c].then = "ticket"
    BY Advance, BusySteps DEF Broadcasts, At, Steps, Stopping, Resting
  <1>2. /\ phase = "stopping" /\ op[c].ticket # 0 /\ op[c].ticket \in Nat
        /\ op[c].then = "ticket" => c = Fleet
    BY <1>1 DEF Lively, LifecycleTyped, Command, Places, Place, At
  <1>3. /\ UNCHANGED <<stateVars, asked, motionVars, ingress>>
        /\ pending' = [no |-> op[c].ticket, gen |-> gen, final |-> op[c].final]
        /\ cap' = [s \in Slot |-> [cap[s] EXCEPT !.told = cap[s].gen # 0]]
        /\ capStop' /\ ~trackAccepts'
    BY DEF Broadcasts, CaptureTold, TrackTold, TrackAccepting
  <1>4. LifecycleTyped'
    <2>1. op[c].final \in {"stopped", "failed"}
      BY DEF Lively, LifecycleTyped, Command
    <2> QED BY <1>1, <1>2, <1>3, <2>1
        DEF Turned, Lively, LifecycleTyped, stateVars, motionVars
  <1>5. Pended' /\ phase' = "stopping" /\ pending'.no = op[c].ticket
    BY <1>2, <1>3 DEF Pended, stateVars
  <1>6. Place(c)'
    BY <1>1, <1>2, <1>5 DEF Place, At, Starting, Leading, Growing, Detecting
  <1>7. Progress'
    BY <1>1, <1>2, <1>5 DEF Progress, Turned, Roles, Stopping, At
  <1>8. Told'
    <2>1. ASSUME NEW s \in Slot
          PROVE  cap'[s].gen = 0 \/ cap'[s].told
      BY <1>3 DEF Lively, LifecycleTyped
    <2> QED BY <1>3, <2>1 DEF Told
  <1>9. Silent'
    BY <1>2, <1>3, <1>8 DEF Lively, Silent, stateVars
  <1>10. Grown'
    BY <1>1, <1>5, NothingGrows DEF Leading, Growing
  <1> QED BY <1>1, <1>4, <1>6, <1>7, <1>9, <1>10, TurnKeeps

\* A step of a stop that leaves the camera, told as it is, alone.
LEMMA StillSilent ==
  ASSUME Lively, NEW c \in Caller, Turned(c), op[c].step # "asking",
         UNCHANGED <<acceptingMotion, stopSet, capStop, cap, trackAccepts>>,
         phase \in {"stopped", "stopping", "failed", "closed"}
  PROVE  Silent'
  <1>1. ~acceptingMotion /\ stopSet /\ Told
    BY DEF Lively, Silent, Turned, Roles
  <1> QED BY <1>1 DEF Silent, Told

LEMMA WaitStoppedKeeps ==
  ASSUME Lively, NEW c \in Caller, WaitStopped(c)
  PROVE  Lively'
  <1>1. LockFree /\ op[c].step \in {"idle", "ticket"} /\ op[c] \in Command
    BY DEF WaitStopped, Lively, LifecycleTyped
  <1>2. /\ Turned(c) /\ op'[c].step = "waiting" /\ op'[c].ticket = op[c].ticket
        /\ ~Somebody(Stopping) /\ ~Somebody({"asking"}) /\ ~Somebody(Starting)
        /\ ~Somebody(Leading \cup Growing) /\ ~Somebody({"capture"})
    <2> DEFINE r == [op[c] EXCEPT !.step = "waiting", !.then = "idle"]
    <2>1. r \in Command /\ r.step = "waiting" /\ r.ticket = op[c].ticket
      BY <1>1 DEF Command, Steps, Stopping
    <2>2. Commanded(c, r)
      BY DEF WaitStopped, Commanded, Lively, LifecycleTyped
    <2> HIDE DEF r
    <2>3. Turned(c) /\ op'[c] = r
      BY <1>1, <2>1, <2>2, Turn DEF Lively
    <2> QED BY <1>1, <2>1, <2>3 DEF Turned, Roles, Starting, Leading, Growing, Stopping
  <1>3. /\ UNCHANGED <<stateVars, stopVars, workerVars>>
        /\ phase # "starting"
    BY <1>2 DEF WaitStopped, Lively, Progress
  <1>4. LifecycleTyped'
    BY <1>2, <1>3 DEF Turned, Lively, LifecycleTyped, stateVars, stopVars, workerVars,
                      motionVars, captureVars
  <1>5. Place(c)'
    <2>1. phase = "stopping" => Pended /\ op[c].ticket \in {0, pending.no}
      BY <1>1, <1>2 DEF Lively, Progress, Places, Place, At
    <2> QED BY <1>2, <1>3, <2>1
        DEF Place, At, Starting, Leading, Growing, Detecting, Pended, stateVars, stopVars
  <1>6. Progress'
    BY <1>2, <1>3 DEF Progress, Turned, Roles, Stopping, stateVars
  <1>7. Silent'
    BY <1>2, <1>3
    DEF Lively, Silent, Told, stateVars, workerVars, captureVars, trackVars
  <1>8. Grown'
    BY <1>2, <1>3
    DEF Lively, Grown, Turned, Roles, Leading, Growing, Moving, Capturing, IngressInFlight,
        stateVars, workerVars, motionVars, captureVars
  <1> QED BY <1>2, <1>4, <1>5, <1>6, <1>7, <1>8, TurnKeeps

LEMMA AwaitsKeeps ==
  ASSUME Lively, NEW c \in Caller, Awaits(c)
  PROVE  Lively'
  <1>1. op[c].step = "waiting" /\ op[c] \in Command /\ Busy(c)
    BY DEF Awaits, At, Lively, LifecycleTyped, Busy, Resting
  <1>2. UNCHANGED <<stateVars, stopVars, motion, ingress, captureVars, trackVars>>
    BY DEF Awaits, MotionAwaited, motionVars
  <1>3. /\ Turned(c)
        /\ \/ WaitIsVoid(c) /\ op'[c].step = "idle" /\ op'[c].ticket = 0
              /\ UNCHANGED clean
           \/ ~WaitIsVoid(c) /\ op'[c].step = "finishing"
    <2>1. CASE WaitIsVoid(c)
      BY <1>1, <2>1, Return DEF Awaits, motionVars
    <2>2. CASE ~WaitIsVoid(c)
      <3>1. PICK resets \in BOOLEAN :
              op' = [op EXCEPT ![c].step = "finishing",
                               ![c].late = TrackRunning \/ MotionResidual \/ ~resets
                                           \/ CaptureLingers \/ listener # "none"]
        BY <2>2, Zenon DEF Awaits
      <3> DEFINE late == TrackRunning \/ MotionResidual \/ ~resets
                         \/ CaptureLingers \/ listener # "none"
                 r == [op[c] EXCEPT !.step = "finishing", !.late = late]
      <3>2. late \in BOOLEAN
        OBVIOUS
      <3>3. op' = [op EXCEPT ![c].step = "finishing", ![c].late = late]
        BY <3>1, Zenon
      <3> HIDE DEF late
      <3>4. r \in Command /\ r.step = "finishing"
        BY <1>1, <3>2 DEF Command, Steps, Stopping
      <3>5. Commanded(c, r)
        BY <3>3 DEF Commanded, Lively, LifecycleTyped
      <3> HIDE DEF r
      <3> QED BY <1>1, <2>2, <3>4, <3>5, Turn DEF Lively
    <2> QED BY <2>1, <2>2
  <1>4. /\ phase # "starting" /\ (phase = "stopping" => ~WaitIsVoid(c))
        /\ phase = "stopping" => Pended
    BY <1>1, <1>3
    DEF Lively, Progress, Places, Place, At, Turned, Roles, Starting, Leading, Growing,
        WaitIsVoid, Pended, NoStop
  <1>5. LifecycleTyped'
    BY <1>2, <1>3 DEF Turned, Lively, LifecycleTyped, stateVars, stopVars, captureVars
  <1>6. Place(c)'
    BY <1>2, <1>3, <1>4
    DEF Place, At, Starting, Leading, Growing, Detecting, Pended, WaitIsVoid, stateVars,
        stopVars
  <1>7. Progress'
    BY <1>2, <1>3, <1>4 DEF Progress, Turned, Roles, Stopping, stateVars
  <1>8. Silent'
    BY <1>1, <1>2, <1>3
    DEF Lively, Silent, Told, Turned, Roles, stateVars, captureVars, trackVars
  <1>9. Grown'
    BY <1>1, <1>2, <1>3
    DEF Lively, Grown, Turned, Roles, Leading, Growing, Moving, Capturing, IngressInFlight,
        WaitIsVoid, stateVars, captureVars
  <1> QED BY <1>3, <1>5, <1>6, <1>7, <1>8, <1>9, TurnKeeps

LEMMA FinishesKeeps ==
  ASSUME Lively, NEW c \in Caller, Finishes(c)
  PROVE  Lively'
  <1>1. /\ op[c].step = "finishing" /\ op[c] \in Command /\ Busy(c)
        /\ phase = "stopping"
    BY DEF Finishes, At, Lively, LifecycleTyped, Busy, Resting, Places, Place
  <1>2. /\ Turned(c)
        /\ \/ op'[c].step = "closing"
           \/ op'[c].step = "idle" /\ op'[c].ticket = 0
    BY <1>1, Advance, Return DEF Finishes, AfterStop, Steps
  <1>3. /\ phase' \in {"stopped", "failed"}
        /\ pending' \in [no : Nat, gen : Nat, final : {"stopped", "failed"}]
    BY DEF Finishes, Lively, LifecycleTyped, NoStop
  <1>4. LifecycleTyped'
    BY <1>2, <1>3
    DEF Turned, Lively, LifecycleTyped, Finishes, workerVars, motionVars, captureVars
  <1>5. Place(c)' /\ Progress'
    BY <1>2, <1>3
    DEF Place, At, Starting, Leading, Growing, Detecting, Progress
  <1>6. Silent'
    BY <1>1, <1>2, StillSilent DEF Finishes, workerVars, captureVars, trackVars
  <1>7. Grown'
    BY <1>2, <1>3, NothingGrows DEF Leading, Growing
  <1> QED BY <1>2, <1>4, <1>5, <1>6, <1>7, TurnKeeps

LEMMA CloseBeginsKeeps ==
  ASSUME Lively, NEW c \in Caller, CloseBegins(c)
  PROVE  Lively'
  <1>1. CASE Residual
    BY <1>1, RequestKeeps DEF CloseBegins
  <1>2. CASE ~Residual
    <2>1. /\ Turned(c) /\ op'[c].step = "closing" /\ op[c].step = "idle"
          /\ phase \in {"stopped", "failed"}
          /\ UNCHANGED <<stateVars, stopVars, workerVars>>
      BY <1>2, Advance DEF CloseBegins, At, Steps
    <2>2. LifecycleTyped'
      BY <2>1 DEF Turned, Lively, LifecycleTyped, stateVars, stopVars, workerVars,
                  motionVars, captureVars
    <2>3. Place(c)' /\ Progress'
      BY <2>1
      DEF Place, At, Starting, Leading, Growing, Detecting, Progress, stateVars
    <2>4. Silent'
      BY <2>1, StillSilent DEF stateVars, workerVars, captureVars, trackVars
    <2>5. Grown'
      BY <2>1, NothingGrows DEF Leading, Growing, stateVars
    <2> QED BY <2>1, <2>2, <2>3, <2>4, <2>5, TurnKeeps
  <1> QED BY <1>1, <1>2

LEMMA CloseEndsKeeps ==
  ASSUME Lively, NEW c \in Caller, CloseEnds(c)
  PROVE  Lively'
  <1>1. /\ Turned(c) /\ op[c].step = "closing" /\ op'[c].step = "idle" /\ op'[c].ticket = 0
        /\ phase \in {"stopped", "failed"} /\ phase' \in {"failed", "closed"}
    BY Return, BusySteps DEF CloseEnds, At, Steps, Resting, Lively, Places, Place
  <1>2. LifecycleTyped'
    BY <1>1 DEF Turned, Lively, LifecycleTyped, CloseEnds, stopVars, workerVars,
                motionVars, captureVars
  <1>3. Place(c)' /\ Progress'
    BY <1>1
    DEF Place, At, Starting, Leading, Growing, Detecting, Progress
  <1>4. ~acceptingMotion /\ stopSet /\ Told
    BY <1>1 DEF Lively, Silent, Turned, Roles
  <1>5. Silent'
    BY <1>4 DEF Silent, Told, CloseEnds, workerVars, captureVars, trackVars
  <1>6. Grown'
    BY <1>1, NothingGrows DEF Leading, Growing
  <1> QED BY <1>1, <1>2, <1>3, <1>5, <1>6, TurnKeeps

\* The detection switch starts and stops the listener of a running camera; of
\* any other it sets what the tracking session accepts.
LEMMA DetectionKeeps ==
  ASSUME Lively, NEW c \in Caller, Turned(c), op[c].step \in Detecting \cup {"idle"},
         \/ op'[c].step \in Detecting /\ phase = "running"
         \/ op'[c].step = "idle" /\ op'[c].ticket = 0,
         UNCHANGED <<phase, gen, acceptingMotion, stopSet, stopVars, motionVars, ingress,
                     captureVars>>,
         phase = "running" \/ (stopSet => ~trackAccepts')
  PROVE  Lively'
  <1>1. LifecycleTyped'
    BY DEF Turned, Lively, LifecycleTyped, stopVars, motionVars, captureVars
  <1>2. Place(c)'
    BY DEF Place, At, Starting, Leading, Growing, Detecting
  <1>3. /\ op[c].step \notin Starting \cup Stopping \cup {"asking", "capture"}
        /\ op'[c].step \notin Starting \cup Stopping \cup {"asking", "capture"}
    BY DEF Detecting, Starting, Leading, Growing, Stopping
  <1>4. /\ ~Somebody(Starting) /\ ~Somebody(Stopping) /\ ~Somebody({"asking"})
        /\ ~Somebody(Starting)' /\ ~Somebody(Leading \cup Growing)'
        /\ ~Somebody(Leading)' /\ ~Somebody(Growing)' /\ ~Somebody({"capture"})'
    BY <1>3 DEF Turned, Roles, Starting
  <1>5. Progress'
    <2>1. phase = "stopping" =>
            Pended /\ At(Fleet, "ticket") /\ op[Fleet].ticket = pending.no
      BY <1>4 DEF Lively, Progress
    <2>2. phase = "stopping" => op'[Fleet] = op[Fleet]
      BY <2>1 DEF Turned, At, Detecting, Caller
    <2> QED BY <1>4, <2>1, <2>2 DEF Lively, Progress, Pended, At, stopVars
  <1>6. Silent'
    BY <1>4 DEF Lively, Silent, Told, captureVars
  <1>7. Grown'
    BY <1>4
    DEF Lively, Grown, Moving, Capturing, IngressInFlight, motionVars, captureVars
  <1> QED BY <1>1, <1>2, <1>5, <1>6, <1>7, TurnKeeps

LEMMA DetectionSetKeeps ==
  ASSUME Lively, NEW c \in Caller, DetectionSet(c)
  PROVE  Lively'
  <1>1. LockFree /\ op[c].step = "idle" /\ op[c] \in Command /\ op[c].ticket = 0
    BY DEF DetectionSet, At, Lively, LifecycleTyped, Places, Place
  <1>2. /\ Turned(c)
        /\ \/ op'[c].step \in Detecting /\ phase = "running"
           \/ op'[c].step = "idle" /\ op'[c].ticket = 0
    <2>1. CASE phase = "running"
      BY <1>1, <2>1, Advance DEF DetectionSet, Detecting, Steps
    <2>2. CASE phase # "running"
      <3>1. Commanded(c, op[c])
        BY <2>2 DEF DetectionSet, Commanded, Lively, LifecycleTyped
      <3> QED BY <1>1, <3>1, Turn DEF Lively
    <2> QED BY <2>1, <2>2
  <1>3. /\ UNCHANGED <<phase, gen, acceptingMotion, stopSet, stopVars, motionVars, ingress,
                       captureVars>>
        /\ stopSet => ~trackAccepts'
    BY DEF DetectionSet, TrackAccepting
  <1> QED BY <1>1, <1>2, <1>3, DetectionKeeps

LEMMA DetectsKeeps ==
  ASSUME Lively, NEW c \in Caller, Detects(c)
  PROVE  Lively'
  <1>1. /\ op[c].step \in Detecting /\ op[c].step \in Steps \ Resting
        /\ phase = "running"
    BY DEF Detects, DetectionStarts, DetectionListens, DetectionStops, DetectionLeaves, At,
           Detecting, Steps, Resting, Lively, Places, Place
  <1>2. \/ \E s \in Detecting : GoesTo(c, s)
        \/ Returns(c)
    BY DEF Detects, DetectionStarts, DetectionListens, DetectionStops, DetectionLeaves,
           DetectionRefused, Detecting
  <1>3. /\ Turned(c)
        /\ \/ op'[c].step \in Detecting
           \/ op'[c].step = "idle" /\ op'[c].ticket = 0
    BY <1>1, <1>2, Advance, Return, BusySteps DEF Steps
  <1>4. UNCHANGED <<phase, gen, acceptingMotion, stopSet, stopVars, motionVars, ingress,
                    captureVars>>
    BY DEF Detects, DetectionStarts, DetectionListens, DetectionStops, DetectionLeaves,
           stateVars
  <1> QED BY <1>1, <1>3, <1>4, DetectionKeeps

-----------------------------------------------------------------------------
(***************************************************************************)
(* CameraLifecycle: what goes on without the lock, the early release of    *)
(* the subscription and the threads.                                       *)
(***************************************************************************)
LEMMA ReleaseKeeps ==
  ASSUME Lively, ReleaseRequests \/ ReleaseWaits
  PROVE  Lively'
  <1>1. /\ op[Fleet].step \in {"idle", "releasing"} /\ op[Fleet] \in Command
        /\ UNCHANGED <<stateVars, stopVars, motionVars, ingress, captureVars, trackVars>>
    BY DEF ReleaseRequests, ReleaseWaits, At, Lively, LifecycleTyped, Caller
  <1>2. \E r \in Command : /\ r.step = "releasing" \/ r = NoOp
                           /\ op' = [op EXCEPT ![Fleet] = r]
    <2>1. CASE ReleaseRequests
      <3> DEFINE r == [op[Fleet] EXCEPT !.step = "releasing"]
      <3>1. r \in Command /\ r.step = "releasing"
        BY <1>1, StepFields DEF Steps, Resting
      <3>2. op' = [op EXCEPT ![Fleet] = r]
        BY <2>1, GoesToCommand DEF ReleaseRequests, Commanded, Lively, Caller
      <3> HIDE DEF r
      <3> QED BY <3>1, <3>2
    <2>2. CASE ReleaseWaits
      BY <2>2, NoOpIsOne DEF ReleaseWaits, Returns
    <2> QED BY <2>1, <2>2
  <1>3. /\ op' \in [Caller -> Command] /\ \A d \in Caller \ {Fleet} : op'[d] = op[d]
        /\ op'[Fleet].step = "releasing" \/ op'[Fleet] = NoOp
    BY <1>2 DEF Lively, LifecycleTyped, Caller
  <1>4. /\ op'[Fleet].step \in {"idle", "releasing"}
        /\ op'[Fleet].step = "idle" => op'[Fleet].ticket = 0
    BY <1>3, NoOpIsOne
  <1>5. /\ op[Fleet].step \notin
             Starting \cup Stopping \cup Detecting \cup {"asking", "capture"}
        /\ op'[Fleet].step \notin
             Starting \cup Stopping \cup Detecting \cup {"asking", "capture"}
    BY <1>1, <1>4, RolesAreApart DEF Resting
  <1>6. LifecycleTyped' /\ Exclusive'
    BY <1>1, <1>3, <1>4
    DEF Lively, LifecycleTyped, Exclusive, Busy, Resting, stateVars, stopVars, motionVars,
        captureVars
  <1>7. /\ Somebody(Starting)' <=> Somebody(Starting)
        /\ Somebody(Stopping)' <=> Somebody(Stopping)
        /\ Somebody({"asking"})' <=> Somebody({"asking"})
        /\ Somebody(Leading \cup Growing)' <=> Somebody(Leading \cup Growing)
        /\ Somebody(Leading)' <=> Somebody(Leading)
        /\ Somebody(Growing)' <=> Somebody(Growing)
        /\ Somebody({"capture"})' <=> Somebody({"capture"})
    BY <1>3, <1>5 DEF Somebody, Starting
  <1>8. Places'
    <2>1. Place(Fleet)'
      BY <1>4, <1>5 DEF Place, At
    <2>2. ASSUME NEW d \in Caller \ {Fleet}
          PROVE  Place(d)'
      BY <1>1, <1>3 DEF Lively, Places, Place, At, Pended, stateVars, stopVars
    <2> QED BY <2>1, <2>2 DEF Places
  <1>9. Progress'
    BY <1>1, <1>7 DEF Lively, Progress, At, stateVars
  <1>10. Silent'
    BY <1>1, <1>7 DEF Lively, Silent, Told, stateVars, captureVars, trackVars
  <1>11. Grown'
    BY <1>1, <1>7
    DEF Lively, Grown, Moving, Capturing, IngressInFlight, stateVars, motionVars, captureVars
  <1> QED BY <1>6, <1>8, <1>9, <1>10, <1>11 DEF Lively

\* The main source starts beside one that is ending, of the same generation.
LEMMA MainRequestedKeeps ==
  ASSUME LifecycleTyped, MainRequested(gen)
  PROVE  /\ cap' \in [Slot -> [gen : Nat, told : BOOLEAN]]
         /\ ~capStop /\ cap'["live"] = cap["live"]
         /\ \A s \in Slot : cap'[s].gen \in {gen} \cup {cap[t].gen : t \in Slot}
  <1>1. /\ cap \in [Slot -> [gen : Nat, told : BOOLEAN]]
        /\ [gen |-> gen, told |-> FALSE] \in [gen : Nat, told : BOOLEAN]
        /\ [gen |-> gen, told |-> FALSE].gen = gen
    BY DEF LifecycleTyped
  <1> DEFINE new == [gen |-> gen, told |-> FALSE]
  <1>2. new \in [gen : Nat, told : BOOLEAN] /\ new.gen = gen
    BY <1>1
  <1>3. \/ cap' = [cap EXCEPT !["main"] = new]
        \/ cap' = [cap EXCEPT !["main"] = new, !["old"] = cap["main"]]
    BY DEF MainRequested
  <1>4. ~capStop
    BY DEF MainRequested
  <1> HIDE DEF new
  <1>5. /\ cap' \in [Slot -> [gen : Nat, told : BOOLEAN]]
        /\ cap'["live"] = cap["live"]
    BY <1>1, <1>2, <1>3 DEF Slot
  <1>6. \A s \in Slot : cap'[s] \in {new, cap[s], cap["main"]}
    BY <1>1, <1>3 DEF Slot
  <1> QED BY <1>2, <1>4, <1>5, <1>6 DEF Slot

\* Whatever the threads do, those that were told stay so, those of the running
\* generation stay alive and of that generation.
ThreadsMove ==
  /\ motion' \in [MotionWorker -> Nat] /\ ingress' \in [Generation -> Nat]
  /\ cap' \in [Slot -> [gen : Nat, told : BOOLEAN]]
  /\ capStop' = capStop /\ trackAccepts' = trackAccepts /\ clean' = clean
  /\ Told => Told'
  /\ ~stopSet => motion' = motion
  /\ Capturing => Capturing'
  /\ IngressInFlight \subseteq {gen} => IngressInFlight' \subseteq {gen}

LEMMA ThreadsStep ==
  ASSUME LifecycleTyped, WorkersStep, gen' = gen
  PROVE  ThreadsMove
  <1>0. /\ motion \in [MotionWorker -> Nat] /\ ingress \in [Generation -> Nat]
        /\ cap \in [Slot -> [gen : Nat, told : BOOLEAN]] /\ gen \in Nat
    BY DEF LifecycleTyped
  <1>1. CASE IngressBegins(gen)
    <2>1. /\ ingress' \in [Generation -> Nat]
          /\ \A g \in Generation \ {gen} : ingress'[g] = ingress[g]
      <3>1. ingress' = [ingress EXCEPT ![gen] = ingress[gen] + 1]
        BY <1>1 DEF IngressBegins
      <3>2. gen \in Generation => ingress[gen] + 1 \in Nat
        BY <1>0
      <3> QED BY <1>0, <3>1, <3>2
    <2> QED BY <1>0, <1>1, <2>1
        DEF IngressBegins, ThreadsMove, Told, Capturing, IngressInFlight, motionVars,
            captureVars, trackVars
  <1>2. CASE MainRequested(gen)
    <2>1. Capturing => Capturing'
      BY <1>2, MainRequestedKeeps DEF Capturing, MainRequested, Slot
    <2> QED BY <1>0, <1>2, <2>1, MainRequestedKeeps
        DEF MainRequested, ThreadsMove, Told, IngressInFlight, motionVars, trackVars
  <1>3. ASSUME NEW g \in Generation, IngressEnds(g)
        PROVE  ThreadsMove
    <2>1. /\ ingress' \in [Generation -> Nat]
          /\ \A h \in Generation : ingress'[h] > 0 => ingress[h] > 0
      BY <1>0, <1>3 DEF IngressEnds
    <2> QED BY <1>0, <1>3, <2>1
        DEF IngressEnds, ThreadsMove, Told, Capturing, IngressInFlight, motionVars,
            captureVars, trackVars
  <1>4. CASE MainIdles
    <2>1. /\ cap' \in [Slot -> [gen : Nat, told : BOOLEAN]]
          /\ \A s \in Slot : cap'[s].gen = cap[s].gen /\ (cap[s].told => cap'[s].told)
          /\ cap'["live"] = cap["live"]
      BY <1>0, <1>4 DEF MainIdles, Slot
    <2> QED BY <1>0, <1>4, <2>1
        DEF MainIdles, ThreadsMove, Told, Capturing, IngressInFlight, motionVars, trackVars
  <1>5. CASE ObserverEnds
    BY <1>0, <1>5
    DEF ObserverEnds, ThreadsMove, Told, Capturing, IngressInFlight, motionVars, trackVars
  <1>6. CASE ListenerEnds
    BY <1>0, <1>6
    DEF ListenerEnds, ThreadsMove, Told, Capturing, IngressInFlight, motionVars,
        captureVars, trackVars
  <1>7. CASE TrackEnds \/ TrackHandsOver \/ \E w \in MotionWorker : TrackBegins(w)
    BY <1>0, <1>7
    DEF TrackEnds, TrackHandsOver, TrackBegins, ThreadsMove, Told, Capturing,
        IngressInFlight, motionVars, captureVars
  <1>8. ASSUME NEW s \in Slot, CaptureEnds(s)
        PROVE  ThreadsMove
    <2>1. NoCapture \in [gen : Nat, told : BOOLEAN] /\ NoCapture.gen = 0
      BY DEF NoCapture
    <2>2. /\ cap' \in [Slot -> [gen : Nat, told : BOOLEAN]]
          /\ cap'[s].gen = 0 /\ \A t \in Slot \ {s} : cap'[t] = cap[t]
      BY <1>0, <1>8, <2>1 DEF CaptureEnds
    <2>3. Capturing => s # "live"
      BY <1>8 DEF CaptureEnds, Capturing
    <2> QED BY <1>0, <1>8, <2>2, <2>3
        DEF CaptureEnds, ThreadsMove, Told, Capturing, IngressInFlight, motionVars, trackVars,
            Slot
  <1>9. ASSUME NEW w \in MotionWorker, MotionEnds(w, stopSet)
        PROVE  ThreadsMove
    BY <1>0, <1>9
    DEF MotionEnds, ThreadsMove, Told, Capturing, IngressInFlight, captureVars, trackVars
  <1> QED BY <1>1, <1>2, <1>3, <1>4, <1>5, <1>6, <1>7, <1>8, <1>9 DEF WorkersStep

LEMMA WorkersKeep ==
  ASSUME Lively, Workers
  PROVE  Lively'
  <1>1. WorkersStep /\ UNCHANGED <<stateVars, stopVars, op>>
    BY DEF Workers
  <1>2. ThreadsMove
    BY <1>1, ThreadsStep DEF Lively, stateVars
  <1>3. LifecycleTyped'
    BY <1>1, <1>2 DEF Lively, LifecycleTyped, ThreadsMove, stateVars, stopVars
  <1>4. Exclusive' /\ Places' /\ Progress'
    BY <1>1
    DEF Lively, Exclusive, Busy, Places, Place, Progress, Somebody, At, Pended, stateVars,
        stopVars
  <1>5. Silent'
    BY <1>1, <1>2 DEF Lively, Silent, Somebody, ThreadsMove, stateVars
  <1>6. Grown'
    BY <1>1, <1>2 DEF Lively, Grown, Somebody, ThreadsMove, Moving, stateVars, IngressInFlight
  <1> QED BY <1>3, <1>4, <1>5, <1>6 DEF Lively

LEMMA CommandsKeep ==
  ASSUME Lively, NEW c \in Caller,
         Commands(c) \/ Proceeds(c) \/ CloseBegins(c) \/ WaitStopped(c)
  PROVE  Lively'
  <1>1. CASE StartRefused(c) \/ StartBegins(c)
    BY <1>1, StartRefusedKeeps, StartBeginsKeeps
  <1>2. CASE Stop(c)
    BY <1>2, RequestKeeps DEF Stop
  <1>3. CASE CloseBegins(c) \/ DetectionSet(c)
    BY <1>3, CloseBeginsKeeps, DetectionSetKeeps
  <1>4. CASE StartTracking(c) \/ StartMotion(c) \/ StartCapture(c)
    BY <1>4, StartTrackingKeeps, StartMotionKeeps, StartCaptureKeeps
  <1>5. CASE StartListener(c) \/ StartListens(c) \/ StartEnds(c)
    BY <1>5, StartListenerKeeps, StartEndsKeeps
  <1>6. CASE StartRollsBack(c)
    BY <1>6, RequestKeeps DEF StartRollsBack, At
  <1>7. CASE Broadcasts(c) \/ Awaits(c) \/ Finishes(c)
    BY <1>7, BroadcastsKeeps, AwaitsKeeps, FinishesKeeps
  <1>8. CASE CloseEnds(c) \/ Detects(c) \/ WaitStopped(c)
    BY <1>8, CloseEndsKeeps, DetectsKeeps, WaitStoppedKeeps
  <1> QED BY <1>1, <1>2, <1>3, <1>4, <1>5, <1>6, <1>7, <1>8 DEF Commands, Proceeds, Starts

LEMMA LivelyNext == Lively /\ [LifecycleNext]_lifecycleVars => Lively'
  <1>1. ASSUME Lively, LifecycleNext
        PROVE  Lively'
    <2>1. CASE \E c \in Commander : Commands(c)
      BY <1>1, <2>1, CommandsKeep DEF Caller
    <2>2. CASE \E c \in Caller : Proceeds(c)
      BY <1>1, <2>2, CommandsKeep
    <2>3. CASE RequestStop(Fleet)
      BY <1>1, <2>3, RequestKeeps DEF RequestStop, Caller
    <2>4. CASE WaitStopped(Fleet) \/ CloseBegins(Fleet)
      BY <1>1, <2>4, CommandsKeep DEF Caller
    <2> QED BY <1>1, <2>1, <2>2, <2>3, <2>4, ReleaseKeeps, WorkersKeep
        DEF LifecycleNext, Teardown
  <1>2. ASSUME Lively, UNCHANGED lifecycleVars
        PROVE  Lively'
    BY <1>2
    DEF Lively, LifecycleTyped, Exclusive, Busy, Places, Place, Progress, Silent, Grown,
        Somebody, At, Pended, Told, Moving, Capturing, IngressInFlight, lifecycleVars,
        stateVars, stopVars, workerVars, motionVars, captureVars, trackVars
  <1> QED BY <1>1, <1>2

LEMMA LivelyInit == LifecycleInit => Lively
  <1> SUFFICES ASSUME LifecycleInit
               PROVE  Lively
    OBVIOUS
  <1>1. \A c \in Caller : op[c] = NoOp /\ op[c].step = "idle" /\ op[c].ticket = 0
    BY NoOpIsOne DEF LifecycleInit
  <1>2. LifecycleTyped
    BY NoOpIsOne
    DEF LifecycleInit, WorkersInit, LifecycleTyped, NoStop, NoCapture
  <1>3. \A c \in Caller :
          op[c].step \notin Starting \cup Stopping \cup Detecting \cup {"capture", "closing"}
    BY <1>1, RolesAreApart DEF Resting
  <1>4. Exclusive /\ Places
    BY <1>1, <1>3 DEF Exclusive, Busy, Resting, Places, Place, At, Stopping
  <1>5. Progress
    BY DEF Progress, LifecycleInit
  <1>6. Told
    BY DEF Told, LifecycleInit, WorkersInit, NoCapture
  <1>7. Silent
    BY <1>6 DEF Silent, LifecycleInit
  <1>8. Grown
    BY <1>3 DEF Grown, LifecycleInit, Somebody, Starting
  <1> QED BY <1>2, <1>4, <1>5, <1>7, <1>8 DEF Lively

LEMMA LivelyAlways == LifecycleSpec => []Lively
  BY LivelyInit, LivelyNext, PTL DEF LifecycleSpec

\* Whoever commands the camera and however its threads interleave, one that
\* runs consists of threads of its own generation only, and of all of them.
THEOREM OneGenerationRuns == LifecycleSpec => []OneGeneration
  <1>1. Lively => OneGeneration
    BY DEF Lively, Grown, Moving, Capturing, OneGeneration
  <1> QED BY <1>1, LivelyAlways, PTL

\* A camera that is found stopping between commands was told to by the fleet,
\* which holds the ticket of this stop and will wait for it.
THEOREM StopsAreAwaited == LifecycleSpec => []StopHasWaiter
  <1>1. Lively => StopHasWaiter
    <2> SUFFICES ASSUME Lively
                 PROVE  StopHasWaiter
      OBVIOUS
    <2>1. At(Fleet, "ticket") => op[Fleet].ticket # 0
      BY DEF Lively, Places, Place, Caller
    <2>2. ASSUME phase = "stopping", LockFree
          PROVE  Pended /\ At(Fleet, "ticket") /\ op[Fleet].ticket = pending.no
      <3>1. ~Somebody(Stopping)
        BY <2>2, RolesAreApart DEF LockFree, Somebody
      <3> QED BY <2>2, <3>1 DEF Lively, Progress
    <2> QED BY <2>1, <2>2 DEF StopHasWaiter, At, Pended, NoStop
  <1> QED BY <1>1, LivelyAlways, PTL

\* Between commands, nothing feeds a camera that stops or has failed, and no
\* capture thread is left untold.
THEOREM EverybodyIsTold == LifecycleSpec => []ToldToStop
  <1>1. Lively => ToldToStop
    <2> SUFFICES ASSUME Lively, phase \in {"stopping", "failed"}, LockFree
                 PROVE  ~acceptingMotion /\ Told
      BY DEF ToldToStop, Told
    <2>1. ~Somebody({"asking"})
      BY RolesAreApart DEF LockFree, Somebody
    <2> QED BY <2>1 DEF Lively, Silent
  <1> QED BY <1>1, LivelyAlways, PTL

=============================================================================
