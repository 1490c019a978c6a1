------------------------ MODULE MotionDelivery_proofs ------------------------
(***************************************************************************)
(* Theorems of MotionDelivery, for any number of triggers, any lease,      *)
(* queue, retry limit and number of faults: no trigger is held twice, and  *)
(* the ledger and the worker together implement ReliableDelivery.          *)
(***************************************************************************)
EXTENDS MotionDelivery, TLAPS

Given == 1 .. admitted
Batches == [items : SUBSET Given, count : Nat]

Types ==
  /\ admitted \in 0 .. Triggers /\ me \in Nat \ {0}
  /\ putting \subseteq Trigger /\ queue \in Seq(Trigger \cup {Stop})
  /\ batch \in Batches
  /\ todo \subseteq Given /\ decided \subseteq Given

\* A trigger that was not given to enqueue has no row; only a leased row has
\* an owner.
Sound(r) == DOMAIN r = DOMAIN NoRow /\ (r.owner # NoOwner => r.state = "running")
Rows ==
  /\ DOMAIN job = Trigger
  /\ \A t \in Trigger : Sound(job[t]) /\ (t > admitted => job[t].state = "none")

\* The worker completes only what was decided.
DecidedFirst == pc = "complete" => todo \subseteq decided

\* A batch waits for its retry only while the worker holds none.
OneAtATime ==
  /\ pc = "wait" => batch = NoBatch
  /\ \/ retries = <<>>
     \/ /\ pc \in {"wait", "stopped"} /\ batch = NoBatch
        /\ \E b \in Batches : retries = <<b>>

Inv == Types /\ Rows /\ DecidedFirst /\ OneAtATime

LEMMA Fields ==
  /\ DOMAIN NoRow = {"state", "owner", "lease", "delay", "attempts"}
  /\ NoRow.state = "none" /\ NoRow.owner = NoOwner
  BY DEF NoRow

LEMMA NothingHeld == NoBatch \in Batches /\ NoBatch.items = {}
  BY DEF NoBatch, Batches

LEMMA Initially == Init => Inv
  <1> SUFFICES ASSUME Init PROVE Inv
    OBVIOUS
  <1>1. Types
    BY NothingHeld, LedgerAssumption DEF Init, Types, Batches
  <1>2. Rows
    BY Fields DEF Init, LedgerInit, Rows, Sound, Trigger
  <1> QED BY <1>1, <1>2 DEF Inv, Init, DecidedFirst, OneAtATime

\* What the statements of the ledger do to the rows.
LEMMA RowsAfter ==
  /\ Sound(Inserted) /\ Inserted.state = "queued"
  /\ \A r : Sound(r) =>
       /\ \A o : Sound(Claimed(r, o)) /\ Claimed(r, o).state = "running"
       /\ Sound(Released(r)) /\ Released(r).state = "queued"
       /\ Sound(FailedDelivery(r)) /\ FailedDelivery(r).state \in {"queued", "failed"}
       /\ Sound(Aged(r)) /\ Aged(r).state = r.state
  BY Fields DEF Sound, Inserted, Claimed, Released, FailedDelivery, Aged

-----------------------------------------------------------------------------
(* Every step keeps the invariant.                                         *)

\* A step that leaves the rows and what was given alone.
LEMMA ElsewhereKeeps ==
  ASSUME Rows, UNCHANGED <<job, admitted>>
  PROVE  Rows'
  BY DEF Rows, Sound

LEMMA ProducersKeep ==
  ASSUME Inv, Producer
  PROVE  Inv'
  <1> USE DEF Inv, Types, worker
  <1>1. CASE Admit
    <2>1. /\ admitted' = admitted + 1 /\ admitted' \in Trigger
          /\ admitted' \in 0 .. Triggers /\ Given \subseteq Given'
      BY <1>1, LedgerAssumption DEF Admit, Trigger, Given
    <2>2. Batches \subseteq Batches'
      BY <2>1 DEF Batches
    <2>3. Types' /\ OneAtATime' /\ DecidedFirst'
      BY <1>1, <2>1, <2>2 DEF Admit, NoFault, OneAtATime, DecidedFirst
    <2>4. Rows'
      <3>1. \A t \in Trigger : t > admitted' => t > admitted /\ t # admitted'
        BY <2>1 DEF Trigger
      <3> QED BY <1>1, <2>1, <3>1, RowsAfter DEF Admit, enqueue_motion_trigger, Exists, Rows
    <2> QED BY <2>3, <2>4
  <1>2. ASSUME NEW t \in Trigger, NEW e \in BOOLEAN, Put(t, e)
        PROVE  Inv'
    <2>1. queue' \in Seq(Trigger \cup {Stop})
      BY <1>2, DeliveryAssumption DEF Put
    <2>2. UNCHANGED <<job, admitted, retries, stop, me, pc, batch, todo, decided>>
      BY <1>2 DEF Put
    <2>3. putting' \subseteq Trigger
      BY <1>2 DEF Put
    <2> QED BY <2>1, <2>2, <2>3, ElsewhereKeeps DEF Batches, Given, OneAtATime, DecidedFirst
  <1> QED BY <1>1, <1>2 DEF Producer

\* A row that can be claimed was given, and stays leased to someone.
LEMMA ClaimKeeps ==
  ASSUME Inv, NEW t \in Trigger, NEW holder, ReadyFor(t, me), Claim(t, holder)
  PROVE  /\ UNCHANGED admitted => Rows'
         /\ batch'.items \subseteq Given /\ batch' \in Batches
  <1>1. job[t].state \in {"queued", "running"}
    BY DEF ReadyFor, Ready, LeasedBy
  <1>2. t \in Given
    BY <1>1, LedgerAssumption DEF Inv, Types, Rows, Given, Trigger
  <1>3. batch' \in Batches
    BY <1>2 DEF Claim, Inv, Types, Batches
  <1>4. UNCHANGED admitted => Rows'
    BY <1>1, <1>2, RowsAfter DEF Inv, Types, Claim, claim_motion_trigger, Rows, Given, Trigger
  <1> QED BY <1>3, <1>4 DEF Batches

\* next_trigger: retries, wake-ups, rows that are due.
LEMMA TakingKeeps ==
  ASSUME Inv, TakeRetry \/ TakeQueued \/ TakeQueuedFails \/ ClaimAnyDue \/ Exit
  PROVE  Inv'
  <1> USE DEF Inv, Types, coordinator, worker, NoFault
  <1>1. CASE TakeRetry
    <2>1. PICK b \in Batches : retries = <<b>>
      BY <1>1 DEF TakeRetry, OneAtATime
    <2>2. batch' = b /\ retries' = <<>>
      BY <1>1, <2>1 DEF TakeRetry
    <2>3. UNCHANGED <<job, admitted, putting, queue, stop, me, todo, decided>> /\ pc' = "first"
      BY <1>1 DEF TakeRetry
    <2> QED BY <2>2, <2>3, ElsewhereKeeps DEF Batches, Given, OneAtATime, DecidedFirst
  <1>2. CASE TakeQueued
    <2>1. queue # <<>> /\ Head(queue) \in Trigger \cup {Stop}
          /\ queue' = Tail(queue) /\ queue' \in Seq(Trigger \cup {Stop})
      BY <1>2 DEF TakeQueued, Wake
    <2>2. UNCHANGED <<admitted, putting, retries, stop, me, todo, decided>> /\ retries = <<>>
      BY <1>2 DEF TakeQueued, Wake
    <2>3. CASE Head(queue) # Stop /\ ReadyFor(Head(queue), me)
      <3>1. Head(queue) \in Trigger /\ Claim(Head(queue), "first")
        BY <1>2, <2>1, <2>3 DEF TakeQueued
      <3>2. Rows' /\ batch' \in Batches /\ pc' = "first"
        BY <2>2, <2>3, <3>1, ClaimKeeps DEF Claim
      <3> QED BY <2>1, <2>2, <3>2 DEF Batches, Given, OneAtATime, DecidedFirst
    <2>4. CASE Head(queue) = Stop \/ ~ReadyFor(Head(queue), me)
      <3>1. UNCHANGED <<job, batch>> /\ pc' \in {"wait", "stopped"} /\ pc = "wait"
        BY <1>2, <2>4 DEF TakeQueued, Wake
      <3> QED BY <2>1, <2>2, <3>1, ElsewhereKeeps DEF Batches, Given, OneAtATime, DecidedFirst
    <2> QED BY <2>3, <2>4
  <1>3. CASE TakeQueuedFails
    <2>1. queue' \in Seq(Trigger \cup {Stop})
      BY <1>3 DEF TakeQueuedFails, Wake
    <2> QED BY <1>3, <2>1, ElsewhereKeeps
         DEF TakeQueuedFails, Batches, Given, OneAtATime, DecidedFirst
  <1>4. CASE ClaimAnyDue
    <2>1. PICK t \in Trigger : Oldest(t) /\ Claim(t, "first")
      BY <1>4 DEF ClaimAnyDue
    <2>2. ReadyFor(t, me)
      BY <2>1 DEF Oldest, ReadyFor
    <2>3. Rows' /\ batch' \in Batches /\ pc' = "first"
      BY <1>4, <2>1, <2>2, ClaimKeeps DEF Claim, ClaimAnyDue
    <2>4. UNCHANGED <<admitted, putting, queue, retries, me, todo, decided>> /\ retries = <<>>
      BY <1>4 DEF ClaimAnyDue
    <2> QED BY <2>3, <2>4 DEF Batches, Given, OneAtATime, DecidedFirst
  <1>5. CASE Exit
    BY <1>5, ElsewhereKeeps DEF Exit, Batches, Given, OneAtATime, DecidedFirst
  <1> QED BY <1>1, <1>2, <1>3, <1>4, <1>5

\* run_until_error and coalesce: the worker holds a batch, so none is waiting.
LEMMA CoalescingKeeps ==
  ASSUME Inv, \/ StopAfterClaim \/ StartCoalescing \/ CoalesceAgain
              \/ CoalesceQueued \/ CoalesceFails \/ Coalesced
  PROVE  Inv'
  <1> USE DEF Inv, Types, coordinator, worker, NoFault
  <1>1. CASE StopAfterClaim \/ StartCoalescing \/ CoalesceAgain \/ Coalesced
    <2>1. /\ UNCHANGED <<job, admitted, putting, queue, retries, stop, me, batch, decided>>
          /\ pc \notin {"wait", "stopped"} /\ pc' \in {"release", "active", "coalesce", "get"}
          /\ todo' \in {todo, batch.items, {}}
      BY <1>1 DEF StopAfterClaim, StartCoalescing, CoalesceAgain, Coalesced
    <2>2. batch.items \subseteq Given
      BY DEF Batches
    <2> QED BY <2>1, <2>2, ElsewhereKeeps DEF Batches, Given, OneAtATime, DecidedFirst
  <1>2. CASE CoalesceQueued
    <2>1. queue # <<>> /\ Head(queue) \in Trigger \cup {Stop}
          /\ queue' = Tail(queue) /\ queue' \in Seq(Trigger \cup {Stop})
      BY <1>2 DEF CoalesceQueued
    <2>2. UNCHANGED <<admitted, putting, retries, stop, me, todo, decided>> /\ retries = <<>>
      BY <1>2 DEF CoalesceQueued, OneAtATime
    <2>3. CASE Head(queue) # Stop /\ ReadyFor(Head(queue), me)
      <3>1. Head(queue) \in Trigger /\ Claim(Head(queue), "coalesce")
        BY <1>2, <2>1, <2>3 DEF CoalesceQueued
      <3>2. Rows' /\ batch' \in Batches /\ pc' = "coalesce"
        BY <2>2, <2>3, <3>1, ClaimKeeps DEF Claim
      <3> QED BY <2>1, <2>2, <3>2 DEF Batches, Given, OneAtATime, DecidedFirst
    <2>4. CASE Head(queue) = Stop \/ ~ReadyFor(Head(queue), me)
      <3>1. job' = job /\ batch' \in {batch, NoBatch} /\ pc' \in {"stopped", "coalesce"}
        BY <1>2, <2>4 DEF CoalesceQueued
      <3> QED BY <2>1, <2>2, <3>1, ElsewhereKeeps, NothingHeld
           DEF Batches, Given, OneAtATime, DecidedFirst
    <2> QED BY <2>3, <2>4
  <1>3. CASE CoalesceFails
    <2>1. queue' \in Seq(Trigger \cup {Stop})
      BY <1>3 DEF CoalesceFails
    <2> QED BY <1>3, <2>1, ElsewhereKeeps, NothingHeld
         DEF CoalesceFails, Batches, Given, OneAtATime, DecidedFirst
  <1> QED BY <1>1, <1>2, <1>3

\* The decision, and what the handler in run() makes of a failure.
LEMMA DecidingKeeps ==
  ASSUME Inv, StopWhileActive \/ Decide \/ Raise \/ HandleFailure
  PROVE  Inv'
  <1> USE DEF Inv, Types, coordinator, worker, NoFault
  <1>1. batch.items \subseteq Given /\ batch.count \in Nat
    BY DEF Batches
  <1>2. CASE StopWhileActive \/ Decide \/ Raise
    <2>1. /\ UNCHANGED <<job, admitted, putting, queue, retries, stop, me, batch>>
          /\ retries = <<>> /\ pc' \in {"release", "complete", "retry"}
          /\ todo' \in {todo, batch.items} /\ decided' \in {decided, decided \cup batch.items}
          /\ pc' = "complete" => todo' \subseteq decided'
      BY <1>2 DEF StopWhileActive, Decide, Raise, OneAtATime
    <2> QED BY <1>1, <2>1, ElsewhereKeeps DEF Batches, Given, OneAtATime, DecidedFirst
  <1>3. CASE HandleFailure
    <2>1. /\ UNCHANGED <<job, admitted, putting, queue, stop, me, decided>>
          /\ retries = <<>> /\ todo' \in {todo, batch.items}
      BY <1>3 DEF HandleFailure, OneAtATime
    <2>2. \/ retries' = retries /\ batch' = batch /\ pc' \in {"release", "fail"}
          \/ /\ retries' = Append(retries, [batch EXCEPT !.count = @ + 1])
             /\ batch' = NoBatch /\ pc' = "wait"
      BY <1>3 DEF HandleFailure
    <2>3. [batch EXCEPT !.count = @ + 1] \in Batches
      BY <1>1 DEF Batches
    <2>4. Append(retries, [batch EXCEPT !.count = @ + 1]) = <<[batch EXCEPT !.count = @ + 1]>>
      BY <2>1
    <2>5. Batches' = Batches /\ Given' = Given
      BY <2>1 DEF Batches, Given
    <2>6. OneAtATime' /\ batch' \in Batches
      BY <2>1, <2>2, <2>3, <2>4, <2>5, NothingHeld DEF OneAtATime
    <2> QED BY <1>1, <2>1, <2>2, <2>5, <2>6, ElsewhereKeeps DEF DecidedFirst
  <1> QED BY <1>2, <1>3

\* Completing, releasing and failing rows.
LEMMA SettlingKeeps ==
  ASSUME Inv, \/ \E t \in Trigger : Complete(t) \/ Release(t) \/ Fail(t)
              \/ CompleteFails \/ Settled
  PROVE  Inv'
  <1> USE DEF Inv, Types, coordinator, worker, NoFault
  <1>1. ASSUME NEW t \in Trigger, Complete(t) \/ Release(t) \/ Fail(t)
        PROVE  Inv'
    <2>1. /\ UNCHANGED <<admitted, putting, queue, retries, stop, me, pc, batch, decided>>
          /\ todo' \subseteq todo /\ t \in Given
      BY <1>1 DEF Complete, Release, Fail
    <2>2. Sound(NoRow) /\ NoRow.state = "none"
      BY Fields DEF Sound
    <2>3. Rows'
      <3>1. /\ DOMAIN job' = Trigger
            /\ \A s \in Trigger : s # t => job'[s] = job[s]
            /\ job'[t] \in {NoRow, job[t], Released(job[t]), FailedDelivery(job[t])}
        BY <1>1 DEF Complete, Release, Fail, complete_motion_trigger, release_motion_trigger,
                    fail_motion_trigger, Rows
      <3>2. t <= admitted
        BY <2>1 DEF Given
      <3> QED BY <2>1, <2>2, <3>1, <3>2, RowsAfter DEF Rows, Trigger
    <2> QED BY <2>1, <2>3 DEF Batches, Given, OneAtATime, DecidedFirst
  <1>2. CASE CompleteFails \/ Settled
    <2>1. /\ UNCHANGED <<job, admitted, putting, queue, retries, stop, me, decided>>
          /\ retries = <<>> /\ todo' \in {todo, {}}
          /\ \/ pc' \in {"stopped", "wait"} /\ batch' = NoBatch
             \/ pc' = "retry" /\ batch' = batch
      BY <1>2 DEF CompleteFails, Settled, OneAtATime
    <2> QED BY <2>1, ElsewhereKeeps, NothingHeld DEF Batches, Given, OneAtATime, DecidedFirst
  <1> QED BY <1>1, <1>2

\* Stop, restart, crash, and time.
LEMMA LifeKeeps ==
  ASSUME Inv, RequestStop \/ Restart \/ Crash \/ Tick
  PROVE  Inv'
  <1> USE DEF Inv, Types, coordinator, worker, NoFault
  <1>1. CASE RequestStop
    <2>1. queue' \in Seq(Trigger \cup {Stop})
      BY <1>1 DEF RequestStop
    <2> QED BY <1>1, <2>1, ElsewhereKeeps
         DEF RequestStop, Batches, Given, OneAtATime, DecidedFirst
  <1>2. CASE Restart \/ Crash
    <2>1. /\ UNCHANGED <<job, admitted, decided>> /\ me' \in {me, me + 1}
          /\ putting' \in {putting, {}} /\ queue' = <<>> /\ retries' = <<>>
          /\ pc' = "wait" /\ batch' = NoBatch /\ todo' = {}
      BY <1>2 DEF Restart, Crash
    <2> QED BY <2>1, ElsewhereKeeps, NothingHeld DEF Batches, Given, OneAtATime, DecidedFirst
  <1>3. CASE Tick
    <2>1. Rows'
      BY <1>3, RowsAfter DEF Tick, TimePasses, Rows, Trigger
    <2> QED BY <1>3, <2>1 DEF Tick, Batches, Given, OneAtATime, DecidedFirst
  <1> QED BY <1>1, <1>2, <1>3

LEMMA Preserved == Inv /\ [Next]_vars => Inv'
  <1> SUFFICES ASSUME Inv, [Next]_vars PROVE Inv'
    OBVIOUS
  <1>1. CASE UNCHANGED vars
    BY <1>1, ElsewhereKeeps DEF vars, coordinator, worker, Inv, Types, Batches, Given,
                                OneAtATime, DecidedFirst
  <1>2. CASE Next
    BY <1>2, ProducersKeep, TakingKeeps, CoalescingKeeps, DecidingKeeps, SettlingKeeps,
       LifeKeeps DEF Next, Worker, Faulty
  <1> QED BY <1>1, <1>2

LEMMA Invariant == Spec => []Inv
  BY Initially, Preserved, PTL DEF Spec

-----------------------------------------------------------------------------
(* OneCopy.                                                                *)

\* A trigger is never in the batch in hand and in one that waits for a retry,
\* whatever stops, crashes and errors came between.
THEOREM NeverTwoCopies == Spec => []OneCopy
  <1>1. ASSUME Inv PROVE OneCopy
    <2>1. CASE retries = <<>>
      BY <2>1 DEF OneCopy, Retrying
    <2>2. CASE retries # <<>>
      <3>1. batch.items = {} /\ \E b \in Batches : retries = <<b>>
        BY <1>1, <2>2, NothingHeld DEF Inv, OneAtATime
      <3> QED BY <3>1 DEF OneCopy
    <2> QED BY <2>1, <2>2
  <1> QED BY <1>1, Invariant, PTL

-----------------------------------------------------------------------------
(* The refinement.                                                         *)

\* Where every trigger stands, seen by its row, its number and the decisions.
Phases == [t \in Trigger |-> PhaseOf(t)]

\* A step under which the rows keep their kind, and nothing is given or decided,
\* is a stutter of the abstract specification.
LEMMA Stutters ==
  ASSUME UNCHANGED <<admitted, decided>>,
         \A t \in Trigger : /\ Exists(t)' = Exists(t)
                            /\ (job[t].state = "failed")' = (job[t].state = "failed")
  PROVE  Phases' = Phases
  BY DEF Phases, PhaseOf

\* A step that changes the row of one trigger.
LEMMA OneMoves ==
  ASSUME NEW s \in Trigger,
         \A t \in Trigger : t # s => PhaseOf(t)' = PhaseOf(t)
  PROVE  Phases' = [Phases EXCEPT ![s] = PhaseOf(s)']
  BY DEF Phases

LEMMA AdmitImplements ==
  ASSUME Inv, Admit
  PROVE  \E t \in Trigger : Abstract!Admit(t)
  <1>1. PICK n \in Trigger : n = admitted + 1 /\ admitted' = n /\ decided' = decided
    BY LedgerAssumption DEF Admit, Inv, Types, Trigger, worker
  <1>2. ~Exists(n) /\ PhaseOf(n) = "idle" /\ n \notin decided
    BY <1>1 DEF Inv, Types, Rows, Exists, PhaseOf, Given, Trigger
  <1>3. job' = [job EXCEPT ![n] = Inserted] /\ DOMAIN job = Trigger
    BY <1>1, <1>2 DEF Admit, enqueue_motion_trigger, Inv, Rows
  <1>4. PhaseOf(n)' = "admitted"
    BY <1>1, <1>2, <1>3, RowsAfter DEF PhaseOf, Exists, Trigger
  <1>5. \A t \in Trigger : t # n => PhaseOf(t)' = PhaseOf(t)
    <2>1. admitted \in Nat /\ \A t \in Trigger : t \in Nat
      BY LedgerAssumption DEF Inv, Types, Trigger
    <2>2. \A t \in Trigger : t # n => job'[t] = job[t] /\ (t > admitted' <=> t > admitted)
      BY <1>1, <1>3, <2>1
    <2> QED BY <1>1, <2>2 DEF PhaseOf, Exists
  <1>6. Phases' = [Phases EXCEPT ![n] = "admitted"] /\ Phases[n] = "idle"
    BY <1>2, <1>4, <1>5, OneMoves DEF Phases
  <1> QED BY <1>6 DEF Abstract!Admit, Abstract!Move, Phases

LEMMA DecideImplements ==
  ASSUME Inv, Decide
  PROVE  \E B \in SUBSET Trigger : Abstract!Decide(B)
  <1>1. batch.items \subseteq Given /\ Given \subseteq Trigger
    BY LedgerAssumption DEF Inv, Types, Batches, Given, Trigger
  <1>2. decided' = decided \cup batch.items /\ UNCHANGED <<job, admitted>>
    BY DEF Decide, coordinator
  <1>3. \A t \in batch.items : Phases[t] # "idle"
    <2>1. \A t \in batch.items : t \in Trigger /\ ~(t > admitted)
      BY <1>1 DEF Given, Inv, Types
    <2> QED BY <2>1 DEF Phases, PhaseOf
  <1>4. \A t \in Trigger :
          PhaseOf(t)' = IF t \in batch.items /\ PhaseOf(t) = "admitted"
                        THEN "decided" ELSE PhaseOf(t)
    BY <1>1, <1>2 DEF PhaseOf, Exists
  <1>5. Phases' = [t \in Trigger |->
                     IF t \in batch.items /\ Phases[t] = "admitted"
                     THEN "decided" ELSE Phases[t]]
    BY <1>4 DEF Phases
  <1>6. Abstract!Decide(batch.items)
    BY <1>3, <1>5 DEF Abstract!Decide, Phases
  <1> QED BY <1>1, <1>6

\* Only a decided trigger is completed, and only its owner completes it.
LEMMA CompleteImplements ==
  ASSUME Inv, NEW t \in Trigger, Complete(t)
  PROVE  Abstract!Settle(t) \/ Phases' = Phases
  <1>1. t \in decided /\ UNCHANGED <<admitted, decided>> /\ DOMAIN job = Trigger
    BY DEF Inv, DecidedFirst, Rows, Complete, coordinator
  <1>2. t \in Given /\ me # NoOwner
    BY <1>1 DEF Inv, Types, NoOwner
  <1>3. CASE job[t].owner = me
    <2>1. job[t].state = "running" /\ job'[t] = NoRow
          /\ \A s \in Trigger : s # t => job'[s] = job[s]
      BY <1>1, <1>2, <1>3 DEF Inv, Rows, Sound, Complete, complete_motion_trigger
    <2>2. PhaseOf(t) = "decided" /\ PhaseOf(t)' = "settled"
      BY <1>1, <1>2, <2>1, Fields DEF PhaseOf, Exists, Given, Trigger, Inv, Types
    <2>3. \A s \in Trigger : s # t => PhaseOf(s)' = PhaseOf(s)
      BY <1>1, <2>1 DEF PhaseOf, Exists
    <2>4. Phases' = [Phases EXCEPT ![t] = "settled"] /\ Phases[t] = "decided"
      BY <2>2, <2>3, OneMoves DEF Phases
    <2> QED BY <2>4 DEF Abstract!Settle, Abstract!Move, Phases
  <1>4. CASE job[t].owner # me
    <2>1. \A s \in Trigger : job'[s] = job[s]
      BY <1>1, <1>4 DEF Complete, complete_motion_trigger
    <2> QED BY <1>1, <2>1, Stutters DEF Exists
  <1> QED BY <1>3, <1>4

\* A failed delivery is queued again or given up.
LEMMA FailImplements ==
  ASSUME Inv, NEW t \in Trigger, Fail(t)
  PROVE  Abstract!GiveUp(t) \/ Phases' = Phases
  <1>1. t \in Given /\ me # NoOwner /\ UNCHANGED <<admitted, decided>> /\ DOMAIN job = Trigger
    BY DEF Inv, Types, Rows, Fail, coordinator, NoOwner
  <1>2. \A s \in Trigger : s # t => job'[s] = job[s]
    BY <1>1 DEF Fail, fail_motion_trigger
  <1>3. CASE job[t].owner = me
    <2>1. job[t].state = "running" /\ job'[t].state \in {"queued", "failed"}
      BY <1>1, <1>3, RowsAfter DEF Inv, Rows, Sound, Fail, fail_motion_trigger
    <2>2. PhaseOf(t) \in {"admitted", "decided"}
      BY <1>1, <2>1 DEF PhaseOf, Exists, Given, Trigger, Inv, Types
    <2>3. CASE job'[t].state = "queued"
      <3>1. \A s \in Trigger : /\ Exists(s)' = Exists(s)
                               /\ (job[s].state = "failed")' = (job[s].state = "failed")
        BY <1>2, <2>1, <2>3 DEF Exists
      <3> QED BY <1>1, <3>1, Stutters
    <2>4. CASE job'[t].state = "failed"
      <3>1. PhaseOf(t)' = "given up"
        BY <1>1, <2>1, <2>4 DEF PhaseOf, Exists, Given, Trigger, Inv, Types
      <3>2. \A s \in Trigger : s # t => PhaseOf(s)' = PhaseOf(s)
        BY <1>1, <1>2 DEF PhaseOf, Exists
      <3>3. Phases' = [Phases EXCEPT ![t] = "given up"] /\ Phases[t] = PhaseOf(t)
        BY <3>1, <3>2, OneMoves DEF Phases
      <3> QED BY <2>2, <3>3 DEF Abstract!GiveUp, Abstract!Move, Phases
    <2> QED BY <2>1, <2>3, <2>4
  <1>4. CASE job[t].owner # me
    <2>1. \A s \in Trigger : job'[s] = job[s]
      BY <1>1, <1>2, <1>4 DEF Fail, fail_motion_trigger
    <2> QED BY <1>1, <2>1, Stutters DEF Exists
  <1> QED BY <1>3, <1>4

\* A claim and a release move a row between queued and running.
LEMMA ClaimStutters ==
  ASSUME Inv, NEW t \in Trigger, NEW holder, ReadyFor(t, me), Claim(t, holder),
         UNCHANGED <<admitted, decided>>
  PROVE  Phases' = Phases
  <1>1. job[t].state \in {"queued", "running"} /\ DOMAIN job = Trigger /\ Sound(job[t])
    BY DEF ReadyFor, Ready, LeasedBy, Inv, Rows
  <1>2. job'[t].state = "running" /\ \A s \in Trigger : s # t => job'[s] = job[s]
    <2>1. job' = [job EXCEPT ![t] = Claimed(job[t], me)]
      BY DEF Claim, claim_motion_trigger
    <2>2. Claimed(job[t], me).state = "running"
      BY <1>1, RowsAfter
    <2> QED BY <1>1, <2>1, <2>2
  <1>3. \A s \in Trigger : /\ Exists(s)' = Exists(s)
                           /\ (job[s].state = "failed")' = (job[s].state = "failed")
    BY <1>1, <1>2 DEF Exists
  <1> QED BY <1>3, Stutters

LEMMA ReleaseStutters ==
  ASSUME Inv, NEW t \in Trigger, Release(t)
  PROVE  Phases' = Phases
  <1>1. UNCHANGED <<admitted, decided>> /\ DOMAIN job = Trigger
    BY DEF Release, Inv, Rows, coordinator
  <1>2. \A s \in Trigger :
          job'[s] = job[s] \/ (job[s].state = "running" /\ job'[s].state = "queued")
    BY <1>1, RowsAfter DEF Release, release_motion_trigger, LeasedBy, Inv, Rows
  <1>3. \A s \in Trigger : /\ Exists(s)' = Exists(s)
                           /\ (job[s].state = "failed")' = (job[s].state = "failed")
    BY <1>2 DEF Exists
  <1> QED BY <1>1, <1>3, Stutters

LEMMA TickStutters ==
  ASSUME Inv, Tick
  PROVE  Phases' = Phases
  <1>1. UNCHANGED <<admitted, decided>> /\ \A t \in Trigger : job'[t].state = job[t].state
    BY RowsAfter DEF Tick, TimePasses, coordinator, worker, Inv, Rows
  <1> QED BY <1>1, Stutters DEF Exists

\* The steps that leave the rows, what was given and what was decided alone.
LEMMA OthersStutter ==
  ASSUME \/ \E t \in Trigger, e \in BOOLEAN : Put(t, e)
         \/ TakeRetry \/ TakeQueuedFails \/ Exit \/ StopAfterClaim \/ StartCoalescing
         \/ CoalesceAgain \/ CoalesceFails \/ Coalesced \/ StopWhileActive \/ Raise
         \/ HandleFailure \/ CompleteFails \/ Settled \/ RequestStop \/ Restart \/ Crash
  PROVE  Phases' = Phases
  <1>1. UNCHANGED <<job, admitted, decided>>
    BY DEF Put, TakeRetry, TakeQueuedFails, Exit, StopAfterClaim, StartCoalescing,
           CoalesceAgain, CoalesceFails, Coalesced, StopWhileActive, Raise, HandleFailure,
           CompleteFails, Settled, RequestStop, Restart, Crash, coordinator, worker
  <1> QED BY <1>1, Stutters DEF Exists

LEMMA QueuedStutters ==
  ASSUME Inv, TakeQueued \/ CoalesceQueued
  PROVE  Phases' = Phases
  <1>1. UNCHANGED <<admitted, decided>> /\ Head(queue) \in Trigger \cup {Stop}
    BY DEF TakeQueued, CoalesceQueued, Wake, Inv, Types
  <1>2. CASE Head(queue) # Stop /\ ReadyFor(Head(queue), me)
    <2>1. PICK t \in Trigger, holder \in {"first", "coalesce"} :
            ReadyFor(t, me) /\ Claim(t, holder)
      BY <1>1, <1>2 DEF TakeQueued, CoalesceQueued
    <2> QED BY <1>1, <2>1, ClaimStutters
  <1>3. CASE Head(queue) = Stop \/ ~ReadyFor(Head(queue), me)
    <2>1. job' = job
      BY <1>3 DEF TakeQueued, CoalesceQueued
    <2> QED BY <1>1, <2>1, Stutters DEF Exists
  <1> QED BY <1>2, <1>3

LEMMA StepImplements ==
  ASSUME Inv, Next
  PROVE  Abstract!Next \/ Phases' = Phases
  <1>1. CASE Admit
    BY <1>1, AdmitImplements DEF Abstract!Next
  <1>2. CASE Decide
    BY <1>2, DecideImplements DEF Abstract!Next
  <1>3. CASE \E t \in Trigger : Complete(t) \/ Release(t) \/ Fail(t)
    BY <1>3, CompleteImplements, ReleaseStutters, FailImplements DEF Abstract!Next
  <1>4. CASE TakeQueued \/ CoalesceQueued
    BY <1>4, QueuedStutters
  <1>5. CASE ClaimAnyDue
    <2>1. PICK t \in Trigger : Oldest(t) /\ Claim(t, "first")
      BY <1>5 DEF ClaimAnyDue
    <2>2. ReadyFor(t, me) /\ UNCHANGED <<admitted, decided>>
      BY <1>5, <2>1 DEF Oldest, ReadyFor, ClaimAnyDue, coordinator
    <2> QED BY <2>1, <2>2, ClaimStutters
  <1>6. CASE Tick
    BY <1>6, TickStutters
  <1> QED BY <1>1, <1>2, <1>3, <1>4, <1>5, <1>6, OthersStutter
       DEF Next, Producer, Worker, Faulty

\* No admitted trigger is forgotten before it was decided, or lost without a
\* failed row; none comes back: the ledger and the worker implement
\* ReliableDelivery.
THEOREM ImplementsReliableDelivery == Spec => Reliable
  <1>1. Init => Abstract!Init
    <2> SUFFICES ASSUME Init PROVE Phases = [t \in Trigger |-> "idle"]
      BY DEF Abstract!Init, Phases
    <2>1. \A t \in Trigger : PhaseOf(t) = "idle"
      BY DEF Init, PhaseOf, Trigger
    <2> QED BY <2>1 DEF Phases
  <1>2. Inv /\ [Next]_vars => [Abstract!Next]_Phases
    <2>1. ASSUME UNCHANGED vars PROVE Phases' = Phases
      BY <2>1, Stutters DEF vars, coordinator, worker, Exists
    <2> QED BY <2>1, StepImplements
  <1> QED BY <1>1, <1>2, Invariant, PTL DEF Spec, Reliable, Abstract!Spec, Phases

=============================================================================
