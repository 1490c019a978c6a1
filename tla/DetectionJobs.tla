--------------------------- MODULE DetectionJobs ---------------------------
(***************************************************************************)
(* The detection_jobs table of detection-jobs.sqlite3 (event_store/jobs.py)*)
(* as the refinement worker of one camera uses it: at most one row per     *)
(* dedupe key, that is per detection intent, leased while it is refined.   *)
(*                                                                         *)
(* lease and delay are the time left until lease_expires_at and            *)
(* available_at, age is the time since created_at, up to MaxAge; stamp is  *)
(* the place of created_at among the rows.                                 *)
(***************************************************************************)
EXTENDS Naturals, FiniteSets

CONSTANTS Intent,      \* detection intents (dedupe keys)
          Lease,       \* lease_seconds (60)
          MaxAge,      \* DETECTION_JOB_MAXIMUM_AGE_SECONDS (20)
          RetryDelay,  \* retry_delay_seconds (2)
          MaxAttempts  \* maximum_attempts of a failed refinement (5)

\* The lease outlives the maximum age: 60 s against 20 s in the code.
ASSUME JobsAssumption ==
  /\ IsFiniteSet(Intent)
  /\ MaxAge \in Nat \ {0}
  /\ Lease \in Nat /\ Lease >= MaxAge
  /\ RetryDelay \in Nat
  /\ MaxAttempts \in Nat \ {0}

VARIABLES row,    \* the table: intent -> row
          stamps  \* how many rows were inserted

NoOwner == 0

\* existing_event_id: the event the live decision stored, or no event.
Existing == {"none", "live"}

Terminal == {"completed", "failed"}

NoRow == [state |-> "none", owner |-> NoOwner, lease |-> 0, delay |-> 0, age |-> 0,
          attempts |-> 0, stamp |-> 0, existing |-> "none", error |-> "none"]

Row == [state    : {"none", "queued", "running"} \cup Terminal,
        owner    : Nat,
        lease    : 0 .. Lease,
        delay    : 0 .. RetryDelay,
        age      : 0 .. MaxAge,
        attempts : 0 .. MaxAttempts,
        stamp    : Nat,
        existing : Existing,
        error    : {"none", "stale_refinement", "attempts"}]

JobsTypeOK == row \in [Intent -> Row] /\ stamps \in Nat

JobsInit == row = [i \in Intent |-> NoRow] /\ stamps = 0

(***************************************************************************)
(* enqueue_detection_job: queued, coalesced, or an identity collision.     *)
(***************************************************************************)
Insert(i, existing) ==
  /\ row[i].state = "none"
  /\ stamps' = stamps + 1
  /\ row' = [row EXCEPT ![i] = [NoRow EXCEPT !.state = "queued",
                                 !.stamp = stamps', !.existing = existing]]

Coalesces(i, existing) == row[i].state # "none" /\ row[i].existing = existing

Collides(i, existing) == row[i].state # "none" /\ row[i].existing # existing

\* A row that reached its end; what nothing reads any more is dropped.
Ended(r, state, error) ==
  [NoRow EXCEPT !.state = state, !.existing = r.existing, !.error = error]

(***************************************************************************)
(* _expire_stale_detection_jobs_locked, and the claim that begins with it. *)
(***************************************************************************)
\* Faulty variant of Stale, never used.
StaleQueuedOnly(r) == r.age >= MaxAge /\ r.state = "queued"

Stale(r) == /\ r.age >= MaxAge
            /\ \/ r.state = "queued"
               \/ r.state = "running" /\ r.lease = 0

Expired(r) == IF Stale(r) THEN Ended(r, "failed", "stale_refinement") ELSE r

\* Rows a claim takes first, oldest first: expired leases and the owner's own.
Reclaimable(r, o) == r.state = "running" /\ (r.lease = 0 \/ r.owner = o)

Available(r) == r.state = "queued" /\ r.delay = 0

\* Otherwise the newest row that is available.
Chosen(rows, o, i) ==
  \/ /\ Reclaimable(rows[i], o)
     /\ \A j \in Intent : Reclaimable(rows[j], o) => rows[i].stamp <= rows[j].stamp
  \/ /\ Available(rows[i])
     /\ \A j \in Intent : ~Reclaimable(rows[j], o)
     /\ \A j \in Intent : Available(rows[j]) => rows[j].stamp <= rows[i].stamp

Due(o) == \E i \in Intent : Available(row[i]) \/ Reclaimable(row[i], o)

\* attempts is only ever compared with MaxAttempts, so it stops there.
Running(r, o) == [r EXCEPT !.state = "running", !.owner = o, !.lease = Lease,
                           !.attempts = IF @ < MaxAttempts THEN @ + 1 ELSE @]

expire_stale_detection_jobs == row' = [i \in Intent |-> Expired(row[i])]

claim_detection_job(i, o) ==
  /\ Due(o)
  /\ Chosen([j \in Intent |-> Expired(row[j])], o, i)
  /\ row' = [j \in Intent |->
               IF j = i THEN Running(Expired(row[j]), o) ELSE Expired(row[j])]

\* Everything that was due turned out to be stale.
claim_finds_nothing(o) ==
  /\ Due(o)
  /\ \A i \in Intent : ~Chosen([j \in Intent |-> Expired(row[j])], o, i)
  /\ expire_stale_detection_jobs

(***************************************************************************)
(* The end of a lease; each takes effect only for the owner.               *)
(***************************************************************************)
Completed(r) == Ended(r, "completed", "none")

\* With the lease cleared before the row is matched by its owner.
\* Faulty variant of complete_detection_job, never used.
complete_after_release(i, o) ==
  row' = [row EXCEPT ![i] = IF @.owner = NoOwner THEN Completed(@) ELSE @]

complete_detection_job(i, o) ==
  row' = [row EXCEPT ![i] = IF @.owner = o THEN Completed(@) ELSE @]

Requeued(r) == [r EXCEPT !.state = "queued", !.owner = NoOwner, !.lease = 0,
                         !.delay = RetryDelay]

Exhausted(r) == Ended(r, "failed", "attempts")

retry_detection_job(i, o) ==
  row' = [row EXCEPT ![i] = IF @.owner # o THEN @
                            ELSE IF @.attempts < MaxAttempts THEN Requeued(@)
                            ELSE Exhausted(@)]

\* With REFINEMENT_COMPLETION_MAXIMUM_ATTEMPTS (2^31 - 1): always requeued.
retry_completion(i, o) ==
  row' = [row EXCEPT ![i] = IF @.owner # o THEN @ ELSE Requeued(@)]

\* prune_detection_jobs: terminal rows, a week after their last update.
Prune(i) == row[i].state \in Terminal /\ row' = [row EXCEPT ![i] = NoRow]

Decrement(n) == IF n = 0 THEN 0 ELSE n - 1

Aged(r) == IF r.state \in Terminal \cup {"none"} THEN r
           ELSE [r EXCEPT !.lease = Decrement(@), !.delay = Decrement(@),
                          !.age = IF @ < MaxAge THEN @ + 1 ELSE @]

TimePasses == /\ \E i \in Intent : Aged(row[i]) # row[i]
              /\ row' = [i \in Intent |-> Aged(row[i])]
=============================================================================
