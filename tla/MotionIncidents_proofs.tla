----------------------- MODULE MotionIncidents_proofs -----------------------
(***************************************************************************)
(* Theorems of MotionIncidents, for every set of intents, every lease that *)
(* outlives the maximum age, every retry limit and any number of faults.   *)
(***************************************************************************)
EXTENDS MotionIncidents, TLAPS

-----------------------------------------------------------------------------
(***************************************************************************)
(* The rows and statements of the ledger (DetectionJobs), on which all     *)
(* that follows rests.                                                     *)
(***************************************************************************)
\* A lease covers what was left of the row's age when it was claimed: when
\* the lease has run out, so has the age.
LeaseCoversAge ==
  \A i \in Intent : row[i].state = "running" => row[i].lease + row[i].age >= MaxAge

\* Only running rows have an owner.
OwnedRuns == \A i \in Intent : row[i].owner # NoOwner => row[i].state = "running"

\* What every statement of the ledger preserves.
RowsOK == row \in [Intent -> Row] /\ LeaseCoversAge /\ OwnedRuns

\* What a statement that neither inserts nor deletes leaves alone.
SameJobs ==
  \A i \in Intent : /\ row'[i].state = "none" <=> row[i].state = "none"
                    /\ row'[i].existing = row[i].existing

NoneCompletes == \A i \in Intent : row'[i].state = "completed" => row[i].state = "completed"

\* No row passes to another owner, except to o.
OwnersKept(o) == \A i \in Intent : row'[i].owner \in {row[i].owner, NoOwner, o}

-----------------------------------------------------------------------------
(***************************************************************************)
(* Rows.  Each update of a row yields a row, and the facts about its       *)
(* fields that the invariants rest on.                                     *)
(***************************************************************************)
States == {"none", "queued", "running"} \cup Terminal
Errors == {"none", "stale_refinement", "attempts"}

\* One assignment to a row at a time.
LEMMA RowUpdates ==
  ASSUME NEW r \in Row
  PROVE  /\ \A s \in States : [r EXCEPT !.state = s] \in Row
         /\ \A o \in Nat : [r EXCEPT !.owner = o] \in Row
         /\ \A n \in 0 .. Lease : [r EXCEPT !.lease = n] \in Row
         /\ \A n \in 0 .. RetryDelay : [r EXCEPT !.delay = n] \in Row
         /\ \A n \in 0 .. MaxAge : [r EXCEPT !.age = n] \in Row
         /\ \A n \in 0 .. MaxAttempts : [r EXCEPT !.attempts = n] \in Row
         /\ \A n \in Nat : [r EXCEPT !.stamp = n] \in Row
         /\ \A e \in Existing : [r EXCEPT !.existing = e] \in Row
         /\ \A e \in Errors : [r EXCEPT !.error = e] \in Row
  <1> USE DEF Row, Existing, Terminal
  <1>1. \A s \in States : [r EXCEPT !.state = s] \in Row
    BY DEF States
  <1>2. \A o \in Nat : [r EXCEPT !.owner = o] \in Row
    OBVIOUS
  <1>3. \A n \in 0 .. Lease : [r EXCEPT !.lease = n] \in Row
    OBVIOUS
  <1>4. \A n \in 0 .. RetryDelay : [r EXCEPT !.delay = n] \in Row
    OBVIOUS
  <1>5. \A n \in 0 .. MaxAge : [r EXCEPT !.age = n] \in Row
    OBVIOUS
  <1>6. \A n \in 0 .. MaxAttempts : [r EXCEPT !.attempts = n] \in Row
    OBVIOUS
  <1>7. \A n \in Nat : [r EXCEPT !.stamp = n] \in Row
    OBVIOUS
  <1>8. \A e \in Existing : [r EXCEPT !.existing = e] \in Row
    OBVIOUS
  <1>9. \A e \in Errors : [r EXCEPT !.error = e] \in Row
    BY DEF Errors
  <1> HIDE DEF Row, Existing, Terminal
  <1> QED BY <1>1, <1>2, <1>3, <1>4, <1>5, <1>6, <1>7, <1>8, <1>9

\* The empty row is a row.
LEMMA NoRowIsRow == NoRow \in Row
  BY JobsAssumption DEF JobsAssumption, NoRow, Row, NoOwner, Existing, Terminal

\* A claimed row is running, with a fresh lease, as old as it was.
LEMMA RunningRow ==
  ASSUME NEW r \in Row, NEW o \in Nat
  PROVE  /\ Running(r, o) \in Row
         /\ Running(r, o).state = "running" /\ Running(r, o).owner = o
         /\ Running(r, o).lease = Lease /\ Running(r, o).age = r.age
         /\ Running(r, o).existing = r.existing
  <1> DEFINE r1 == [r EXCEPT !.state = "running"]
             r2 == [r1 EXCEPT !.owner = o]
             r3 == [r2 EXCEPT !.lease = Lease]
             n == IF r.attempts < MaxAttempts THEN r.attempts + 1 ELSE r.attempts
  <1>1. r1 \in Row
    BY RowUpdates DEF States
  <1>2. r2 \in Row
    <2> HIDE DEF r1
    <2> QED BY <1>1, RowUpdates
  <1>3. r3 \in Row
    <2> HIDE DEF r2
    <2> QED BY <1>2, RowUpdates, JobsAssumption DEF JobsAssumption
  <1>4. n \in 0 .. MaxAttempts
    BY JobsAssumption DEF JobsAssumption, Row
  <1>5. [r3 EXCEPT !.attempts = n] \in Row
    <2> HIDE DEF r3, n
    <2> QED BY <1>3, <1>4, RowUpdates
  <1>6. Running(r, o) \in Row
    BY <1>5 DEF Running
  <1> QED BY <1>6 DEF Running, Row

\* A row that ends is free of its owner and remembers which event it had.
LEMMA EndedRow ==
  ASSUME NEW r \in Row, NEW s \in Terminal, NEW e \in Errors
  PROVE  /\ Ended(r, s, e) \in Row
         /\ Ended(r, s, e).state = s /\ Ended(r, s, e).owner = NoOwner
         /\ Ended(r, s, e).existing = r.existing
  <1> DEFINE r1 == [NoRow EXCEPT !.state = s]
             r2 == [r1 EXCEPT !.existing = r.existing]
  <1>1. r1 \in Row
    BY NoRowIsRow, RowUpdates DEF States
  <1>2. r.existing \in Existing
    BY DEF Row
  <1>3. r2 \in Row
    <2> HIDE DEF r1
    <2> QED BY <1>1, <1>2, RowUpdates
  <1>4. [r2 EXCEPT !.error = e] \in Row
    <2> HIDE DEF r2
    <2> QED BY <1>3, RowUpdates
  <1>5. Ended(r, s, e) \in Row
    BY <1>4 DEF Ended
  <1> QED BY <1>5 DEF Ended, NoRow

\* A row put back is queued, without an owner.
LEMMA RequeuedRow ==
  ASSUME NEW r \in Row
  PROVE  /\ Requeued(r) \in Row
         /\ Requeued(r).state = "queued" /\ Requeued(r).owner = NoOwner
         /\ Requeued(r).existing = r.existing
  <1> DEFINE r1 == [r EXCEPT !.state = "queued"]
             r2 == [r1 EXCEPT !.owner = NoOwner]
             r3 == [r2 EXCEPT !.lease = 0]
  <1>1. r1 \in Row
    BY RowUpdates DEF States
  <1>2. r2 \in Row
    <2> HIDE DEF r1
    <2> QED BY <1>1, RowUpdates DEF NoOwner
  <1>3. r3 \in Row
    <2> HIDE DEF r2
    <2> QED BY <1>2, RowUpdates, JobsAssumption DEF JobsAssumption
  <1>4. [r3 EXCEPT !.delay = RetryDelay] \in Row
    <2> HIDE DEF r3
    <2> QED BY <1>3, RowUpdates, JobsAssumption DEF JobsAssumption
  <1>5. Requeued(r) \in Row
    BY <1>4 DEF Requeued
  <1> QED BY <1>5 DEF Requeued, Row

\* Time passes on a row: what is left of its lease shrinks by as much as its
\* age grows, so that their sum does not fall below the maximum age.
LEMMA AgedRow ==
  ASSUME NEW r \in Row
  PROVE  /\ Aged(r) \in Row
         /\ Aged(r).state = r.state /\ Aged(r).owner = r.owner
         /\ Aged(r).existing = r.existing
         /\ r.lease + r.age >= MaxAge => Aged(r).lease + Aged(r).age >= MaxAge
  <1>1. CASE r.state \in Terminal \cup {"none"}
    BY <1>1 DEF Aged
  <1>2. CASE ~(r.state \in Terminal \cup {"none"})
    <2> DEFINE r1 == [r EXCEPT !.lease = Decrement(@)]
               r2 == [r1 EXCEPT !.delay = Decrement(@)]
               n == IF r.age < MaxAge THEN r.age + 1 ELSE r.age
    <2>1. /\ Decrement(r.lease) \in 0 .. Lease /\ Decrement(r.delay) \in 0 .. RetryDelay
          /\ n \in 0 .. MaxAge
      BY JobsAssumption DEF JobsAssumption, Row, Decrement
    <2>2. r1 \in Row
      BY <2>1, RowUpdates
    <2>3. r1.delay = r.delay
      BY DEF Row
    <2>4. r2 \in Row
      <3> HIDE DEF r1
      <3> QED BY <2>1, <2>2, <2>3, RowUpdates
    <2>5. [r2 EXCEPT !.age = n] \in Row
      <3> HIDE DEF r2, n
      <3> QED BY <2>1, <2>4, RowUpdates
    <2>6. Aged(r) \in Row
      BY <1>2, <2>5 DEF Aged
    <2>7. /\ Aged(r).state = r.state /\ Aged(r).owner = r.owner
          /\ Aged(r).existing = r.existing
          /\ Aged(r).lease = Decrement(r.lease) /\ Aged(r).age = n
      BY <1>2 DEF Aged, Row
    <2>8. r.lease + r.age >= MaxAge => Decrement(r.lease) + n >= MaxAge
      BY JobsAssumption DEF JobsAssumption, Row, Decrement
    <2> QED BY <2>6, <2>7, <2>8
  <1> QED BY <1>1, <1>2

\* Expiry ends a stale row and leaves any other alone.
LEMMA ExpiredRow ==
  ASSUME NEW r \in Row
  PROVE  /\ Expired(r) \in Row
         /\ Expired(r).existing = r.existing
         /\ Expired(r) = r \/ (Expired(r).state = "failed" /\ Expired(r).owner = NoOwner
                                 /\ Stale(r))
  BY EndedRow DEF Expired, Terminal, Errors

-----------------------------------------------------------------------------
(***************************************************************************)
(* Statements of the ledger.                                               *)
(***************************************************************************)
\* A chosen row is queued and young enough, or it is a lease that its own
\* owner left running: a lease that ran out is stale, so nobody takes it over.
LEMMA ChosenRow ==
  ASSUME RowsOK, NEW o \in Nat, NEW i \in Intent,
         Chosen([j \in Intent |-> Expired(row[j])], o, i)
  PROVE  /\ Expired(row[i]) = row[i]
         /\ \/ row[i].state = "queued" /\ row[i].age < MaxAge
            \/ row[i].state = "running" /\ row[i].owner = o /\ row[i].lease > 0
  <1> DEFINE r == row[i]
  <1>1. r \in Row /\ Expired(r) \in Row
    BY ExpiredRow DEF RowsOK
  <1>2. Available(Expired(r)) \/ Reclaimable(Expired(r), o)
    BY DEF Chosen
  <1>3. Expired(r) = r /\ (r.state = "queued" \/ r.state = "running")
    BY <1>1, <1>2, ExpiredRow DEF Available, Reclaimable
  <1>4. ~Stale(r)
    <2>1. Expired(r).state # "failed"
      BY <1>2 DEF Available, Reclaimable
    <2> QED BY <1>1, <2>1, EndedRow DEF Expired, Terminal, Errors
  <1>5. r.age \in Nat /\ r.age <= MaxAge /\ r.lease \in Nat /\ MaxAge \in Nat
    BY <1>1, JobsAssumption DEF JobsAssumption, Row
  <1>6. CASE r.state = "queued"
    BY <1>3, <1>4, <1>5, <1>6 DEF Stale
  <1>7. CASE r.state = "running"
    <2>1. r.lease + r.age >= MaxAge
      BY <1>7 DEF RowsOK, LeaseCoversAge
    <2>2. r.lease > 0
      BY <1>4, <1>5, <1>7, <2>1 DEF Stale
    <2>3. r.owner = o
      BY <1>2, <1>3, <1>7, <2>2 DEF Available, Reclaimable
    <2> QED BY <1>3, <1>7, <2>2, <2>3
  <1> QED BY <1>3, <1>6, <1>7

\* Expiry ends rows; it completes none, leases none and loses none.
LEMMA ExpireKeeps ==
  ASSUME RowsOK, expire_stale_detection_jobs
  PROVE  RowsOK' /\ SameJobs /\ NoneCompletes /\ OwnersKept(NoOwner)
  <1>1. \A i \in Intent : row[i] \in Row /\ row'[i] = Expired(row[i])
    BY DEF RowsOK, expire_stale_detection_jobs
  <1>2. row' \in [Intent -> Row]
    BY <1>1, ExpiredRow DEF expire_stale_detection_jobs
  <1>3. \A i \in Intent : /\ row'[i].existing = row[i].existing
                          /\ row'[i] = row[i] \/ /\ row'[i].state = "failed"
                                                 /\ row'[i].owner = NoOwner
                                                 /\ row[i].state # "none"
    BY <1>1, ExpiredRow DEF Stale
  <1> QED BY <1>2, <1>3 DEF RowsOK, LeaseCoversAge, OwnedRuns, SameJobs, NoneCompletes, OwnersKept

\* A claim leaves one running row of its owner, besides the rows it expired.
LEMMA ClaimKeeps ==
  ASSUME RowsOK, NEW o \in Nat \ {NoOwner}, NEW i \in Intent, claim_detection_job(i, o)
  PROVE  RowsOK' /\ SameJobs /\ NoneCompletes /\ OwnersKept(o) /\ row'[i].state = "running"
  <1>1. \A j \in Intent : row[j] \in Row
    BY DEF RowsOK
  <1>2. Expired(row[i]) = row[i] /\ row[i].state \in {"queued", "running"}
    BY ChosenRow DEF claim_detection_job
  <1>3. row' = [j \in Intent |-> IF j = i THEN Running(row[i], o) ELSE Expired(row[j])]
    BY <1>2 DEF claim_detection_job
  <1>4. row' \in [Intent -> Row]
    BY <1>1, <1>3, ExpiredRow, RunningRow
  <1>5. /\ row'[i].state = "running" /\ row'[i].owner = o
        /\ row'[i].existing = row[i].existing
        /\ row'[i].lease = Lease /\ row'[i].age = row[i].age
    BY <1>1, <1>3, RunningRow
  <1>6. \A j \in Intent \ {i} :
          /\ row'[j].existing = row[j].existing
          /\ row'[j] = row[j] \/ /\ row'[j].state = "failed" /\ row'[j].owner = NoOwner
                                 /\ row[j].state # "none"
    BY <1>1, <1>3, ExpiredRow DEF Stale
  <1>7. row'[i].lease + row'[i].age >= MaxAge
    <2>1. row[i].age \in Nat
      BY <1>1, JobsAssumption DEF JobsAssumption, Row
    <2> QED BY <1>5, <2>1, JobsAssumption DEF JobsAssumption
  <1>8. LeaseCoversAge'
    BY <1>6, <1>7 DEF RowsOK, LeaseCoversAge
  <1>9. OwnedRuns'
    BY <1>5, <1>6 DEF RowsOK, OwnedRuns
  <1>10. SameJobs /\ NoneCompletes /\ OwnersKept(o)
    BY <1>2, <1>5, <1>6 DEF SameJobs, NoneCompletes, OwnersKept
  <1> QED BY <1>4, <1>5, <1>8, <1>9, <1>10 DEF RowsOK

\* A claim that finds only stale rows is an expiry.
LEMMA NothingFoundKeeps ==
  ASSUME RowsOK, NEW o, claim_finds_nothing(o)
  PROVE  RowsOK' /\ SameJobs /\ NoneCompletes /\ OwnersKept(NoOwner)
  BY ExpireKeeps DEF claim_finds_nothing

\* Only the row of the caller's own lease is completed.
LEMMA CompleteKeeps ==
  ASSUME RowsOK, NEW o \in Nat \ {NoOwner}, NEW i \in Intent, complete_detection_job(i, o)
  PROVE  /\ RowsOK' /\ SameJobs /\ OwnersKept(NoOwner)
         /\ \A j \in Intent \ {i} : row'[j] = row[j]
  <1>1. row[i] \in Row /\ Completed(row[i]) \in Row
    BY EndedRow DEF RowsOK, Completed, Terminal, Errors
  <1>2. /\ row' \in [Intent -> Row]
        /\ \A j \in Intent \ {i} : row'[j] = row[j]
        /\ row'[i] = IF row[i].owner = o THEN Completed(row[i]) ELSE row[i]
    BY <1>1 DEF RowsOK, complete_detection_job
  <1>3. CASE row[i].owner = o
    <2>1. row[i].state = "running"
      BY <1>3 DEF RowsOK, OwnedRuns
    <2>2. /\ row'[i].state = "completed" /\ row'[i].owner = NoOwner
          /\ row'[i].existing = row[i].existing
      BY <1>1, <1>2, <1>3, EndedRow DEF Completed, Terminal, Errors
    <2> QED BY <1>2, <2>1, <2>2 DEF RowsOK, LeaseCoversAge, OwnedRuns, SameJobs, OwnersKept
  <1>4. CASE row[i].owner # o
    <2>1. \A j \in Intent : row'[j] = row[j]
      BY <1>2, <1>4
    <2> QED BY <1>2, <2>1 DEF RowsOK, LeaseCoversAge, OwnedRuns, SameJobs, OwnersKept
  <1> QED BY <1>3, <1>4

\* A statement that puts the caller's leased row back, or ends it as failed.
LEMMA GivenBackKeeps ==
  ASSUME RowsOK, NEW o \in Nat \ {NoOwner}, NEW i \in Intent, NEW s,
         s = Requeued(row[i]) \/ s = Exhausted(row[i]),
         row' = [row EXCEPT ![i] = IF row[i].owner = o THEN s ELSE row[i]]
  PROVE  RowsOK' /\ SameJobs /\ NoneCompletes /\ OwnersKept(NoOwner)
  <1>1. row[i] \in Row
    BY DEF RowsOK
  <1>2. /\ s \in Row /\ s.state \in {"queued", "failed"} /\ s.owner = NoOwner
        /\ s.existing = row[i].existing
    BY <1>1, RequeuedRow, EndedRow DEF Exhausted, Terminal, Errors
  <1>3. /\ row' \in [Intent -> Row]
        /\ \A j \in Intent \ {i} : row'[j] = row[j]
        /\ row'[i] = IF row[i].owner = o THEN s ELSE row[i]
    BY <1>1, <1>2 DEF RowsOK
  <1>4. CASE row[i].owner = o
    <2>1. row[i].state = "running"
      BY <1>4 DEF RowsOK, OwnedRuns
    <2> QED BY <1>2, <1>3, <1>4, <2>1 DEF RowsOK, LeaseCoversAge, OwnedRuns, SameJobs,
                                       NoneCompletes, OwnersKept
  <1>5. CASE row[i].owner # o
    <2>1. \A j \in Intent : row'[j] = row[j]
      BY <1>3, <1>5
    <2> QED BY <1>3, <2>1 DEF RowsOK, LeaseCoversAge, OwnedRuns, SameJobs, NoneCompletes,
                              OwnersKept
  <1> QED BY <1>4, <1>5

\* A retried row goes back to the queue or fails; it is no longer leased.
LEMMA RetryKeeps ==
  ASSUME RowsOK, NEW o \in Nat \ {NoOwner}, NEW i \in Intent, retry_detection_job(i, o)
  PROVE  RowsOK' /\ SameJobs /\ NoneCompletes /\ OwnersKept(NoOwner)
  <1> DEFINE s == IF row[i].attempts < MaxAttempts THEN Requeued(row[i])
                                                   ELSE Exhausted(row[i])
  <1>1. row' = [row EXCEPT ![i] = IF row[i].owner = o THEN s ELSE row[i]]
    BY DEF retry_detection_job
  <1>2. s = Requeued(row[i]) \/ s = Exhausted(row[i])
    OBVIOUS
  <1> HIDE DEF s
  <1> QED BY <1>1, <1>2, GivenBackKeeps

\* A row whose completion is retried goes back to the queue.
LEMMA RetryCompletionKeeps ==
  ASSUME RowsOK, NEW o \in Nat \ {NoOwner}, NEW i \in Intent, retry_completion(i, o)
  PROVE  RowsOK' /\ SameJobs /\ NoneCompletes /\ OwnersKept(NoOwner)
  <1>1. row' = [row EXCEPT ![i] = IF row[i].owner = o THEN Requeued(row[i]) ELSE row[i]]
    BY DEF retry_completion
  <1> QED BY <1>1, GivenBackKeeps

\* Time takes from a lease what it adds to the age, so leases still cover it.
LEMMA TimeKeeps ==
  ASSUME RowsOK, TimePasses
  PROVE  RowsOK' /\ SameJobs /\ NoneCompletes /\ OwnersKept(NoOwner)
  <1>1. \A i \in Intent : row[i] \in Row /\ row'[i] = Aged(row[i])
    BY DEF RowsOK, TimePasses
  <1>2. row' \in [Intent -> Row]
    BY <1>1, AgedRow DEF TimePasses
  <1>3. \A i \in Intent : /\ row'[i].state = row[i].state /\ row'[i].owner = row[i].owner
                          /\ row'[i].existing = row[i].existing
                          /\ row[i].lease + row[i].age >= MaxAge
                               => row'[i].lease + row'[i].age >= MaxAge
    BY <1>1, AgedRow
  <1> QED BY <1>2, <1>3 DEF RowsOK, LeaseCoversAge, OwnedRuns, SameJobs, NoneCompletes,
                            OwnersKept

\* A new row is queued; no other row changes.
LEMMA InsertKeeps ==
  ASSUME RowsOK, stamps \in Nat, NEW i \in Intent, NEW e \in Existing, Insert(i, e)
  PROVE  /\ RowsOK' /\ stamps' \in Nat /\ NoneCompletes /\ OwnersKept(NoOwner)
         /\ \A j \in Intent \ {i} : row'[j] = row[j]
         /\ row[i].state = "none" /\ row'[i].state = "queued" /\ row'[i].existing = e
  <1> DEFINE r1 == [NoRow EXCEPT !.state = "queued"]
             r2 == [r1 EXCEPT !.stamp = stamps']
             r3 == [r2 EXCEPT !.existing = e]
  <1>1. row[i].state = "none" /\ stamps' \in Nat /\ row' = [row EXCEPT ![i] = r3]
    BY DEF Insert
  <1>2. r1 \in Row
    BY NoRowIsRow, RowUpdates DEF States
  <1>3. r2 \in Row
    <2> HIDE DEF r1
    <2> QED BY <1>1, <1>2, RowUpdates
  <1>4. r3 \in Row
    <2> HIDE DEF r2
    <2> QED BY <1>3, RowUpdates
  <1>5. r3.state = "queued" /\ r3.owner = NoOwner /\ r3.existing = e
    BY DEF NoRow
  <1> HIDE DEF r3
  <1>6. /\ row' \in [Intent -> Row]
        /\ \A j \in Intent \ {i} : row'[j] = row[j]
        /\ row'[i] = r3
    BY <1>1, <1>4 DEF RowsOK
  <1> QED BY <1>1, <1>5, <1>6 DEF RowsOK, LeaseCoversAge, OwnedRuns, NoneCompletes, OwnersKept

\* Pruning removes one row and touches no other.
LEMMA PruneKeeps ==
  ASSUME RowsOK, NEW i \in Intent, Prune(i)
  PROVE  /\ RowsOK' /\ NoneCompletes /\ OwnersKept(NoOwner)
         /\ \A j \in Intent \ {i} : row'[j] = row[j]
         /\ row'[i].state = "none"
  <1>1. /\ row' \in [Intent -> Row]
        /\ \A j \in Intent \ {i} : row'[j] = row[j]
        /\ row'[i] = NoRow
    BY NoRowIsRow DEF RowsOK, Prune
  <1>2. NoRow.state = "none" /\ NoRow.owner = NoOwner
    BY DEF NoRow
  <1> QED BY <1>1, <1>2 DEF RowsOK, LeaseCoversAge, OwnedRuns, NoneCompletes, OwnersKept

-----------------------------------------------------------------------------
(***************************************************************************)
(* The composition.                                                        *)
(***************************************************************************)
RefinerWorks == refiner.pc \in {"refining", "finalizing", "completing"}

\* Whoever is not idle works on an intent.
WorkersHaveIntents ==
  /\ ~Idle(live) => live.intent \in Intent
  /\ RefinerWorks => refiner.intent \in Intent

\* The basis of all that follows.
Basis == TypeOK /\ RowsOK /\ WorkersHaveIntents

-----------------------------------------------------------------------------
(***************************************************************************)
(* Types.                                                                  *)
(***************************************************************************)
\* The values the workers take.
LEMMA WorkerValues ==
  /\ IdleLive \in Live /\ IdleRefiner \in Refiner
  /\ \A pc \in {"idle", "refining", "finalizing", "completing", "stopped", "dead"} :
       \A r \in Refiner : [r EXCEPT !.pc = pc] \in Refiner
  /\ \A l \in Live : [l EXCEPT !.pc = "admitted"] \in Live
  BY DEF IdleLive, IdleRefiner, Live, Refiner, Existing

\* The basis holds initially.
LEMMA BasisInit == Init => Basis
  <1> SUFFICES ASSUME Init PROVE Basis
    OBVIOUS
  <1>1. row = [i \in Intent |-> NoRow] /\ stamps = 0 /\ NoRow \in Row
    BY NoRowIsRow DEF Init, JobsInit
  <1>2. NoRow.state = "none" /\ NoRow.owner = NoOwner
    BY DEF NoRow
  <1>3. RowsOK
    BY <1>1, <1>2 DEF RowsOK, LeaseCoversAge, OwnedRuns
  <1>4. TypeOK
    <2>1. JobsTypeOK
      BY <1>1 DEF JobsTypeOK
    <2>2. live \in Live /\ refiner \in Refiner
      BY WorkerValues DEF Init
    <2>3. me \in Nat \ {NoOwner} /\ faults \in 0 .. MaxFaults
      BY IncidentsAssumption DEF IncidentsAssumption, Init, NoOwner
    <2>4. /\ delivery \in [Intent -> {"owed", "done", "failed"}]
          /\ handled \in [Intent -> 0 .. 2]
          /\ events \in [Intent -> SUBSET {"live", "job"}]
      BY DEF Init
    <2> QED BY <2>1, <2>2, <2>3, <2>4 DEF Init, TypeOK
  <1>5. WorkersHaveIntents
    BY DEF Init, WorkersHaveIntents, RefinerWorks, Idle, IdleLive, IdleRefiner
  <1> QED BY <1>3, <1>4, <1>5 DEF Basis

\* The ledger part of a step.
LEMMA LedgerTyped ==
  ASSUME Basis, [Next]_vars
  PROVE  RowsOK' /\ stamps' \in Nat
  <1>1. /\ RowsOK /\ stamps \in Nat /\ me \in Nat \ {NoOwner}
        /\ WorkersHaveIntents /\ live \in Live
    BY DEF Basis, TypeOK, JobsTypeOK
  <1>2. UNCHANGED row => RowsOK'
    BY <1>1 DEF RowsOK, LeaseCoversAge, OwnedRuns
  <1> USE DEF jobs, runtime, decisions
  <1>3. CASE QueueRefinement
    <2>1. live.intent \in Intent /\ live.existing \in Existing
      BY <1>1, <1>3 DEF QueueRefinement, WorkersHaveIntents, Idle, Live
    <2>2. CASE Insert(live.intent, live.existing)
      BY <1>1, <2>1, <2>2, InsertKeeps
    <2>3. CASE UNCHANGED jobs
      BY <1>1, <1>2, <2>3
    <2> QED BY <1>3, <2>2, <2>3 DEF QueueRefinement, Queue
  <1>4. CASE ExpireStale
    BY <1>1, <1>4, ExpireKeeps DEF ExpireStale
  <1>5. ASSUME NEW i \in Intent, ClaimJob(i) PROVE RowsOK' /\ stamps' \in Nat
    BY <1>1, <1>5, ClaimKeeps DEF ClaimJob
  <1>6. CASE ClaimNothing
    BY <1>1, <1>6, NothingFoundKeeps DEF ClaimNothing
  <1>7. CASE RefineInconclusive
    <2>1. refiner.intent \in Intent
      BY <1>1, <1>7 DEF RefineInconclusive, RefinerAt, WorkersHaveIntents, RefinerWorks
    <2> QED BY <1>1, <1>7, <2>1, RetryKeeps DEF RefineInconclusive
  <1>8. CASE DeferCompletion
    <2>1. refiner.intent \in Intent
      BY <1>1, <1>8 DEF DeferCompletion, RefinerAt, WorkersHaveIntents, RefinerWorks
    <2> QED BY <1>1, <1>8, <2>1, RetryCompletionKeeps DEF DeferCompletion
  <1>9. CASE CompleteRaises
    <2>1. refiner.intent \in Intent
      BY <1>1, <1>9 DEF CompleteRaises, RefinerAt, WorkersHaveIntents, RefinerWorks
    <2> QED BY <1>1, <1>9, <2>1, RetryCompletionKeeps DEF CompleteRaises
  <1>10. CASE CompleteJob
    <2>1. refiner.intent \in Intent
      BY <1>1, <1>10 DEF CompleteJob, RefinerAt, WorkersHaveIntents, RefinerWorks
    <2> QED BY <1>1, <1>10, <2>1, CompleteKeeps DEF CompleteJob
  <1>11. ASSUME NEW i \in Intent, PruneJob(i) PROVE RowsOK' /\ stamps' \in Nat
    BY <1>1, <1>11, PruneKeeps DEF PruneJob
  <1>12. CASE Tick
    BY <1>1, <1>12, TimeKeeps DEF Tick
  <1>13. CASE UNCHANGED jobs
    BY <1>1, <1>2, <1>13
  <1> QED
    BY <1>3, <1>4, <1>5, <1>6, <1>7, <1>8, <1>9, <1>10, <1>11, <1>12, <1>13
       DEF Next, DecisionWorker, RefinementWorker, Faulty, Handle, FinishDelivery,
           RefineConcludes, Finalize, RefinerStops, HandleRaises, QueueRaises, FinishRaises,
           ClaimRaises, RetryRaises, RequestStop, Crash, Restart, vars

\* The other variables keep their types, action by action.
LEMMA BasisNext ==
  ASSUME Basis, [Next]_vars
  PROVE  Basis'
  <1> DEFINE Rest == /\ delivery \in [Intent -> {"owed", "done", "failed"}]
                     /\ handled \in [Intent -> 0 .. 2]
                     /\ events \in [Intent -> SUBSET {"live", "job"}]
                     /\ live \in Live /\ refiner \in Refiner
                     /\ finalized \in SUBSET Intent
                     /\ stop \in BOOLEAN /\ me \in Nat \ {NoOwner}
                     /\ faults \in 0 .. MaxFaults
                     /\ WorkersHaveIntents
  <1>1. Rest
    BY DEF Basis, TypeOK
  <1>2. RowsOK' /\ JobsTypeOK'
    BY LedgerTyped DEF RowsOK, JobsTypeOK
  <1>3. SUFFICES Rest'
    BY <1>2 DEF Basis, TypeOK
  <1>4. Fault \/ NoFault => faults' \in 0 .. MaxFaults
    BY <1>1, IncidentsAssumption DEF IncidentsAssumption, Fault, NoFault
  <1>5. \A i \in Intent, k \in {"live", "job"} :
          StoreEvent(i, k) => events' \in [Intent -> SUBSET {"live", "job"}]
    BY <1>1 DEF StoreEvent
  <1>6. \A i \in Intent : DeliveryRaises(i) =>
          /\ delivery' \in [Intent -> {"owed", "done", "failed"}]
          /\ live' \in Live /\ live'.pc = "idle"
    BY <1>1, WorkerValues DEF DeliveryRaises, IdleLive
  <1>7. BackToIdle => refiner' \in Refiner /\ refiner'.pc = "idle"
    BY WorkerValues DEF BackToIdle, IdleRefiner
  <1>8. \A pc \in {"stopped", "dead"} : Leave(pc) => refiner' \in Refiner /\ refiner'.pc = pc
    BY WorkerValues DEF Leave, IdleRefiner
  <1>9. \A pc \in {"finalizing", "completing", "stopped"} :
          Go(pc) => refiner' \in Refiner /\ refiner'.pc = pc /\ refiner'.intent = refiner.intent
    BY <1>1, WorkerValues DEF Go, Refiner
  <1> USE DEF jobs, runtime, decisions, WorkersHaveIntents, RefinerWorks, Idle, RefinerAt
  <1>10. ASSUME NEW i \in Intent, Handle(i) PROVE Rest'
    <2>1. /\ handled' \in [Intent -> 0 .. 2]
          /\ delivery' = delivery /\ refiner' = refiner /\ finalized' = finalized
          /\ stop' = stop /\ me' = me /\ NoFault
      BY <1>1, <1>10 DEF Handle
    <2>2. /\ live' \in Live /\ live'.intent = i
          /\ events' \in [Intent -> SUBSET {"live", "job"}]
      BY <1>1, <1>5, <1>10 DEF Handle, Live, Existing
    <2> QED BY <1>1, <1>4, <2>1, <2>2
  <1>11. ASSUME NEW i \in Intent, HandleRaises(i) PROVE Rest'
    <2>1. /\ handled' \in [Intent -> 0 .. 2]
          /\ refiner' = refiner /\ finalized' = finalized
          /\ stop' = stop /\ me' = me /\ Fault
      BY <1>1, <1>11 DEF HandleRaises
    <2>2. events' \in [Intent -> SUBSET {"live", "job"}]
      BY <1>1, <1>5, <1>11 DEF HandleRaises
    <2>3. /\ delivery' \in [Intent -> {"owed", "done", "failed"}]
          /\ live' \in Live /\ live'.pc = "idle"
      BY <1>6, <1>11 DEF HandleRaises
    <2> QED BY <1>1, <1>4, <2>1, <2>2, <2>3
  <1>12. CASE QueueRefinement
    <2>1. /\ delivery' = delivery /\ handled' = handled /\ events' = events
          /\ refiner' = refiner /\ finalized' = finalized
          /\ stop' = stop /\ me' = me /\ NoFault
      BY <1>12 DEF QueueRefinement
    <2>2. live' \in Live /\ live'.intent = live.intent /\ live.pc = "handled"
      BY <1>1, <1>12, WorkerValues DEF QueueRefinement, Live
    <2> QED BY <1>1, <1>4, <2>1, <2>2
  <1>13. CASE QueueRaises
    BY <1>1, <1>4, <1>6, <1>13 DEF QueueRaises
  <1>14. CASE FinishDelivery
    <2>1. delivery' \in [Intent -> {"owed", "done", "failed"}]
      BY <1>1, <1>14 DEF FinishDelivery
    <2>2. live' \in Live /\ live'.pc = "idle"
      BY <1>14, WorkerValues DEF FinishDelivery, IdleLive
    <2> QED BY <1>1, <1>4, <1>14, <2>1, <2>2 DEF FinishDelivery
  <1>15. CASE FinishRaises
    BY <1>1, <1>4, <1>6, <1>15 DEF FinishRaises
  <1>16. CASE ExpireStale
    BY <1>1, <1>4, <1>16 DEF ExpireStale
  <1>17. ASSUME NEW i \in Intent, ClaimJob(i) PROVE Rest'
    <2>1. refiner' \in Refiner /\ refiner'.intent = i
      BY <1>17 DEF ClaimJob, Refiner
    <2> QED BY <1>1, <1>4, <1>17, <2>1 DEF ClaimJob
  <1>18. CASE ClaimNothing
    BY <1>1, <1>4, <1>18 DEF ClaimNothing
  <1>19. CASE ClaimRaises
    BY <1>1, <1>4, <1>8, <1>19 DEF ClaimRaises
  <1>20. ASSUME RefinerWorks, RefinementStores(refiner.intent)
         PROVE  events' \in [Intent -> SUBSET {"live", "job"}]
    BY <1>1, <1>5, <1>20 DEF RefinementStores
  <1>21. CASE RefineInconclusive
    BY <1>1, <1>4, <1>7, <1>20, <1>21 DEF RefineInconclusive
  <1>22. CASE RefineConcludes
    <2>1. events' \in [Intent -> SUBSET {"live", "job"}]
      BY <1>20, <1>22 DEF RefineConcludes
    <2> QED BY <1>1, <1>4, <1>9, <1>22, <2>1 DEF RefineConcludes
  <1>23. CASE Finalize
    BY <1>1, <1>4, <1>9, <1>23 DEF Finalize
  <1>24. CASE DeferCompletion
    BY <1>1, <1>4, <1>7, <1>24 DEF DeferCompletion
  <1>25. CASE CompleteJob
    BY <1>1, <1>4, <1>7, <1>25 DEF CompleteJob
  <1>26. CASE CompleteRaises
    BY <1>1, <1>4, <1>7, <1>26 DEF CompleteRaises
  <1>27. CASE RetryRaises
    BY <1>1, <1>4, <1>8, <1>27 DEF RetryRaises
  <1>28. CASE RefinerStops
    BY <1>1, <1>4, <1>9, <1>28 DEF RefinerStops
  <1>29. CASE RequestStop
    BY <1>1, <1>4, <1>29 DEF RequestStop
  <1>30. CASE Restart
    BY <1>1, <1>4, <1>7, <1>30 DEF Restart
  <1>31. CASE Crash
    <2>1. live' \in Live /\ live'.pc = "idle"
      BY <1>31, WorkerValues DEF Crash, IdleLive
    <2>2. me' \in Nat \ {NoOwner}
      BY <1>1, <1>31 DEF Crash, NoOwner
    <2> QED BY <1>1, <1>4, <1>7, <1>31, <2>1, <2>2 DEF Crash
  <1>32. ASSUME NEW i \in Intent, PruneJob(i) PROVE Rest'
    BY <1>1, <1>4, <1>32 DEF PruneJob
  <1>33. CASE Tick
    BY <1>1, <1>33 DEF Tick
  <1>34. CASE UNCHANGED vars
    BY <1>1, <1>34 DEF vars
  <1> QED
    BY <1>10, <1>11, <1>12, <1>13, <1>14, <1>15, <1>16, <1>17, <1>18, <1>19, <1>21, <1>22,
       <1>23, <1>24, <1>25, <1>26, <1>27, <1>28, <1>29, <1>30, <1>31, <1>32, <1>33, <1>34
       DEF Next, DecisionWorker, RefinementWorker, Faulty

\* Types hold in every reachable state, and with them what the ledger's
\* statements preserve: a lease never ends before its row is too old.
THEOREM TypeCorrect == Spec => []TypeOK
  <1>1. Init => Basis
    BY BasisInit
  <1>2. Basis /\ [Next]_vars => Basis'
    BY BasisNext
  <1>3. Basis => TypeOK
    BY DEF Basis
  <1> QED BY <1>1, <1>2, <1>3, PTL DEF Spec

\* The basis is an invariant: types, leases that cover the maximum age (60 s
\* against 20 s), owners only on running rows, and workers with an intent.
THEOREM BasisCorrect == Spec => []Basis
  BY BasisInit, BasisNext, PTL DEF Spec

-----------------------------------------------------------------------------
(***************************************************************************)
(* What a step does to the ledger and to the refinement worker.            *)
(***************************************************************************)
\* A step completes no job, keeps every job and hands out no lease, or it is
\* one of the statements that do.
LEMMA LedgerSteps ==
  ASSUME Basis, [Next]_vars
  PROVE  \/ SameJobs /\ NoneCompletes /\ OwnersKept(NoOwner)
         \/ \E i \in Intent : ClaimJob(i)
         \/ CompleteJob
         \/ QueueRefinement /\ Insert(live.intent, live.existing)
         \/ \E i \in Intent : PruneJob(i)
  <1> DEFINE Kept == SameJobs /\ NoneCompletes /\ OwnersKept(NoOwner)
  <1>1. RowsOK /\ me \in Nat \ {NoOwner} /\ WorkersHaveIntents
    BY DEF Basis, TypeOK
  <1>2. UNCHANGED row => Kept
    BY <1>1 DEF SameJobs, NoneCompletes, OwnersKept
  <1>3. RefinerWorks => refiner.intent \in Intent
    BY <1>1 DEF WorkersHaveIntents
  <1> USE DEF RefinerWorks, RefinerAt, jobs
  <1>4. CASE QueueRefinement
    BY <1>2, <1>4 DEF QueueRefinement, Queue
  <1>5. CASE ExpireStale
    BY <1>1, <1>5, ExpireKeeps DEF ExpireStale
  <1>6. CASE ClaimNothing
    BY <1>1, <1>6, NothingFoundKeeps DEF ClaimNothing
  <1>7. CASE RefineInconclusive
    BY <1>1, <1>3, <1>7, RetryKeeps DEF RefineInconclusive
  <1>8. CASE DeferCompletion
    BY <1>1, <1>3, <1>8, RetryCompletionKeeps DEF DeferCompletion
  <1>9. CASE CompleteRaises
    BY <1>1, <1>3, <1>9, RetryCompletionKeeps DEF CompleteRaises
  <1>10. CASE Tick
    BY <1>1, <1>10, TimeKeeps DEF Tick
  <1> QED
    BY <1>2, <1>4, <1>5, <1>6, <1>7, <1>8, <1>9, <1>10
       DEF Next, DecisionWorker, RefinementWorker, Faulty, Handle, FinishDelivery,
           RefineConcludes, Finalize, RefinerStops, HandleRaises, QueueRaises, FinishRaises,
           ClaimRaises, RetryRaises, RequestStop, Crash, Restart, vars

\* How the refinement worker moves, and which step records an outcome.
LEMMA RefinerSteps ==
  ASSUME Basis, [Next]_vars
  PROVE  \/ refiner'.pc \in {"idle", "stopped", "dead"} /\ UNCHANGED finalized
         \/ UNCHANGED <<refiner, finalized>>
         \/ (\E i \in Intent : ClaimJob(i))
         \/ RefineConcludes
         \/ Finalize
  <1>1. BackToIdle => refiner'.pc = "idle"
    BY DEF BackToIdle, IdleRefiner
  <1>2. \A pc \in {"stopped", "dead"} : Leave(pc) => refiner'.pc = pc
    BY DEF Leave, IdleRefiner
  <1>3. \A pc \in {"stopped"} : Go(pc) => refiner'.pc = pc
    BY DEF Basis, TypeOK, Refiner, Go
  <1> QED
    BY <1>1, <1>2, <1>3
       DEF Next, DecisionWorker, RefinementWorker, Faulty, Handle, QueueRefinement,
           FinishDelivery, ExpireStale, ClaimNothing, RefineInconclusive, DeferCompletion,
           CompleteJob, RefinerStops, HandleRaises, QueueRaises, FinishRaises, ClaimRaises,
           CompleteRaises, RetryRaises, RequestStop, Crash, Restart, PruneJob, Tick, vars

-----------------------------------------------------------------------------
(***************************************************************************)
(* A completed job was finalized.                                          *)
(***************************************************************************)
\* The strengthening: the outcome is on record before the job is completed.
OutcomeFirst == RefinerAt("completing") => refiner.intent \in finalized

\* Every step preserves the strengthened form.
LEMMA OutcomeNext ==
  ASSUME Basis, [Next]_vars, OutcomeFirst, CompletedIsFinalized
  PROVE  OutcomeFirst' /\ CompletedIsFinalized'
  <1>1. finalized \subseteq finalized'
    BY RefinerSteps DEF ClaimJob, RefineConcludes, Finalize
  <1>2. OutcomeFirst'
    <2>1. CASE \E i \in Intent : ClaimJob(i)
      BY <2>1 DEF ClaimJob, OutcomeFirst, RefinerAt
    <2>2. CASE RefineConcludes
      BY <2>2 DEF RefineConcludes, Go, OutcomeFirst, RefinerAt, Basis, TypeOK, Refiner
    <2>3. CASE Finalize
      BY <2>3 DEF Finalize, Go, OutcomeFirst, RefinerAt, Basis, TypeOK, Refiner
    <2> QED BY <2>1, <2>2, <2>3, RefinerSteps DEF OutcomeFirst, RefinerAt
  <1>3. CompletedIsFinalized'
    <2>1. RowsOK /\ stamps \in Nat /\ me \in Nat \ {NoOwner} /\ live \in Live
          /\ WorkersHaveIntents
      BY DEF Basis, TypeOK, JobsTypeOK
    <2>2. NoneCompletes => CompletedIsFinalized'
      BY <1>1 DEF NoneCompletes, CompletedIsFinalized
    <2>3. ASSUME NEW i \in Intent, ClaimJob(i) PROVE NoneCompletes
      BY <2>1, <2>3, ClaimKeeps DEF ClaimJob
    <2>4. CASE QueueRefinement /\ Insert(live.intent, live.existing)
      <3>1. live.intent \in Intent /\ live.existing \in Existing
        BY <2>1, <2>4 DEF QueueRefinement, WorkersHaveIntents, Idle, Live
      <3> QED BY <2>1, <2>2, <2>4, <3>1, InsertKeeps
    <2>5. ASSUME NEW i \in Intent, PruneJob(i) PROVE NoneCompletes
      BY <2>1, <2>5, PruneKeeps DEF PruneJob
    <2>6. CASE CompleteJob
      <3>1. refiner.intent \in Intent /\ refiner.intent \in finalized
        BY <2>1, <2>6 DEF CompleteJob, WorkersHaveIntents, RefinerWorks, RefinerAt, OutcomeFirst
      <3>2. \A j \in Intent \ {refiner.intent} : row'[j] = row[j]
        BY <2>1, <2>6, <3>1, CompleteKeeps DEF CompleteJob
      <3> QED BY <1>1, <3>1, <3>2 DEF CompletedIsFinalized
    <2> QED BY <2>2, <2>3, <2>4, <2>5, <2>6, LedgerSteps
  <1> QED BY <1>2, <1>3

\* A job is marked completed only after the completion handler recorded its
\* outcome, whatever stops, crashes, retries and expiries came between.
THEOREM CompletedWasFinalized == Spec => []CompletedIsFinalized
  <1>1. Init => OutcomeFirst /\ CompletedIsFinalized
    BY DEF Init, JobsInit, NoRow, IdleRefiner, RefinerAt, OutcomeFirst, CompletedIsFinalized
  <1>2. Basis /\ OutcomeFirst /\ CompletedIsFinalized /\ [Next]_vars
          => (OutcomeFirst /\ CompletedIsFinalized)'
    BY OutcomeNext
  <1> QED BY <1>1, <1>2, BasisCorrect, PTL DEF Spec

-----------------------------------------------------------------------------
(***************************************************************************)
(* What refinement starts on, and how many leases a coordinator holds.     *)
(***************************************************************************)
LEMMA StartsByClaim ==
  ASSUME Basis, [Next]_vars, NEW i \in Intent, Starts(i)
  PROVE  ClaimJob(i)
  <1>1. refiner'.pc = "refining" /\ refiner'.intent = i /\ refiner.pc = "idle"
    BY DEF Starts, Idle
  <1>2. ~RefineConcludes /\ ~Finalize
    BY <1>1 DEF RefineConcludes, Finalize, RefinerAt
  <1>3. \E j \in Intent : ClaimJob(j)
    BY <1>1, <1>2, RefinerSteps
  <1> QED BY <1>1, <1>3 DEF ClaimJob

\* Refinement starts only on evidence younger than the maximum age, unless
\* the same coordinator resumes a lease it still holds.
THEOREM ClaimsFresh == Spec => ClaimIsFresh
  <1>1. ASSUME Basis, [Next]_vars, NEW i \in Intent, Starts(i)
        PROVE  row[i].age < MaxAge \/ (row[i].owner = me /\ row[i].lease > 0)
    BY <1>1, StartsByClaim, ChosenRow DEF ClaimJob, claim_detection_job, Basis, TypeOK
  <1>2. Basis /\ [Next]_vars
          => [\A i \in Intent : Starts(i) =>
                \/ row[i].age < MaxAge
                \/ row[i].owner = me /\ row[i].lease > 0]_vars
    BY <1>1
  <1> QED BY <1>2, BasisCorrect, PTL DEF Spec, ClaimIsFresh

\* A job is never taken over from another process: it would have to be
\* claimed after its lease ran out, and by then it is stale.
THEOREM NothingTakenOver == Spec => NoTakeOver
  <1>1. ASSUME Basis, [Next]_vars, NEW i \in Intent, Starts(i)
        PROVE  row[i].state = "queued" \/ row[i].owner = me
    BY <1>1, StartsByClaim, ChosenRow DEF ClaimJob, claim_detection_job, Basis, TypeOK
  <1>2. Basis /\ [Next]_vars
          => [\A i \in Intent : Starts(i) =>
                row[i].state = "queued" \/ row[i].owner = me]_vars
    BY <1>1
  <1> QED BY <1>2, BasisCorrect, PTL DEF Spec, NoTakeOver

\* No lease belongs to a coordinator of the future.
OwnersPast == \A i \in Intent : row[i].owner <= me

\* Every step preserves it: a claim takes the owner's own lease first.
LEMMA OneLeaseNext ==
  ASSUME Basis, [Next]_vars, OwnersPast, OneLease
  PROVE  OwnersPast' /\ OneLease'
  <1>1. /\ RowsOK /\ RowsOK' /\ me \in Nat \ {NoOwner} /\ stamps \in Nat /\ live \in Live
        /\ WorkersHaveIntents
    BY BasisNext DEF Basis, TypeOK, JobsTypeOK
  <1>2. me' \in {me, me + 1} /\ (me' # me => row' = row)
    BY DEF Next, DecisionWorker, RefinementWorker, Faulty, Handle, QueueRefinement,
           FinishDelivery, ExpireStale, ClaimJob, ClaimNothing, RefineInconclusive,
           RefineConcludes, Finalize, DeferCompletion, CompleteJob, RefinerStops,
           HandleRaises, QueueRaises, FinishRaises, ClaimRaises, CompleteRaises,
           RetryRaises, RequestStop, Crash, Restart, PruneJob, Tick, vars, jobs, runtime
  <1>3. \A i \in Intent : /\ row[i].owner \in Nat /\ row'[i].owner \in Nat
                          /\ row[i].owner # NoOwner => row[i].state = "running"
                          /\ row'[i].owner # NoOwner => row'[i].state = "running"
    BY <1>1 DEF RowsOK, OwnedRuns, Row
  <1>4. CASE me' # me
    <2>1. me' = me + 1 /\ row' = row
      BY <1>2, <1>4
    <2>2. \A i \in Intent : row[i].owner <= me
      BY DEF OwnersPast
    <2>3. \A i \in Intent : row'[i].owner <= me' /\ row'[i].owner # me'
      BY <1>1, <1>3, <2>1, <2>2
    <2> QED BY <2>3 DEF OwnersPast, OneLease
  <1>5. CASE me' = me
    <2>1. ASSUME OwnersKept(NoOwner) PROVE OwnersPast' /\ OneLease'
      <3>1. \A i \in Intent : row'[i].owner = row[i].owner \/ row'[i].owner = NoOwner
        BY <2>1 DEF OwnersKept
      <3>2. OwnersPast'
        BY <1>1, <1>3, <1>5, <3>1 DEF OwnersPast, NoOwner
      <3>3. \A i \in Intent : row'[i].owner = me => row[i].owner = me /\ row[i].state = "running"
        BY <1>1, <1>3, <3>1
      <3> QED BY <1>5, <3>2, <3>3 DEF OneLease
    <2>2. ASSUME NEW i \in Intent, ClaimJob(i) PROVE OwnersPast' /\ OneLease'
      <3>1. OwnersKept(me) /\ claim_detection_job(i, me)
        BY <1>1, <2>2, ClaimKeeps DEF ClaimJob
      <3>2. OwnersPast'
        BY <1>1, <1>3, <1>5, <3>1 DEF OwnersPast, OwnersKept, NoOwner
      <3>3. \A j \in Intent \ {i} : row'[j] = Expired(row[j])
        BY <3>1 DEF claim_detection_job
      <3>4. \A j \in Intent \ {i} : row'[j].owner # me
        <4> SUFFICES ASSUME NEW j \in Intent \ {i}, row'[j].owner = me PROVE FALSE
          OBVIOUS
        <4>1. row[j] \in Row
          BY <1>1 DEF RowsOK
        <4>2. Expired(row[j]) = row[j] /\ row[j].owner = me
          BY <1>1, <3>3, <4>1, ExpiredRow
        <4>3. row[j].state = "running"
          BY <1>1, <1>3, <4>2
        <4>4. Reclaimable(Expired(row[j]), me)
          BY <4>2, <4>3 DEF Reclaimable
        <4>5. ~Available(Expired(row[i])) \/ Reclaimable(Expired(row[i]), me)
          BY <3>1, <4>4 DEF claim_detection_job, Chosen
        <4>6. row[i].state = "running" /\ row[i].owner = me
          <5>1. /\ Expired(row[i]) = row[i]
                /\ \/ row[i].state = "queued" /\ row[i].age < MaxAge
                   \/ row[i].state = "running" /\ row[i].owner = me /\ row[i].lease > 0
            BY <1>1, <3>1, ChosenRow DEF claim_detection_job
          <5>2. Reclaimable(Expired(row[i]), me)
            BY <3>1, <4>4 DEF claim_detection_job, Chosen
          <5> QED BY <5>1, <5>2 DEF Reclaimable
        <4> QED BY <4>2, <4>3, <4>6 DEF OneLease
      <3> QED BY <1>5, <3>2, <3>4 DEF OneLease
    <2>3. CASE CompleteJob
      <3>1. refiner.intent \in Intent
        BY <1>1, <2>3 DEF CompleteJob, WorkersHaveIntents, RefinerWorks, RefinerAt
      <3> QED BY <1>1, <2>1, <2>3, <3>1, CompleteKeeps DEF CompleteJob
    <2>4. CASE QueueRefinement /\ Insert(live.intent, live.existing)
      <3>1. live.intent \in Intent /\ live.existing \in Existing
        BY <1>1, <2>4 DEF QueueRefinement, WorkersHaveIntents, Idle, Live
      <3> QED BY <1>1, <2>1, <2>4, <3>1, InsertKeeps
    <2>5. ASSUME NEW i \in Intent, PruneJob(i) PROVE OwnersKept(NoOwner)
      BY <1>1, <2>5, PruneKeeps DEF PruneJob
    <2> QED BY <2>1, <2>2, <2>3, <2>4, <2>5, LedgerSteps
  <1> QED BY <1>4, <1>5

\* A coordinator holds one lease at a time, for any number of jobs, lost
\* threads, restarts and crashes.
THEOREM OneLeaseAtATime == Spec => []OneLease
  <1>1. Init => OwnersPast /\ OneLease
    BY DEF Init, JobsInit, NoRow, NoOwner, OwnersPast, OneLease
  <1>2. Basis /\ OwnersPast /\ OneLease /\ [Next]_vars => (OwnersPast /\ OneLease)'
    BY OneLeaseNext
  <1> QED BY <1>1, <1>2, BasisCorrect, PTL DEF Spec

-----------------------------------------------------------------------------
(***************************************************************************)
(* One handling, one incident; and delayed discovery is not forgotten.     *)
(***************************************************************************)
\* The job in refinement is in the ledger: nothing prunes it meanwhile.
JobInRefinement == RefinerWorks => row[refiner.intent].state # "none"

\* A trigger that was not handled yet left no trace.
NoTrace(i) == /\ events[i] = {} /\ row[i].state = "none"
              /\ Idle(live) \/ live.intent # i

\* A trigger whose only handling stored its event: its job knows that event.
JobKnowsEvent(i) ==
  /\ "job" \notin events[i]
  /\ row[i].state # "none" => row[i].existing = "live"
  /\ live.pc = "handled" /\ live.intent = i => live.existing = "live"

Handlings ==
  \A i \in Intent : /\ handled[i] = 0 => NoTrace(i)
                    /\ handled[i] = 1 /\ "live" \in events[i] => JobKnowsEvent(i)

\* Between the insert and the completion of the delivery the job is there.
AdmittedHasJob ==
  (live.pc = "admitted" /\ live.pending /\ delivery[live.intent] = "owed") =>
     row[live.intent].state # "none" /\ row[live.intent].existing = live.existing

\* What a step does to one row.
LEMMA RowSteps ==
  ASSUME Basis, [Next]_vars, NEW i \in Intent
  PROVE  /\ (row[i].state # "none" /\ row'[i].state # "none")
              => row'[i].existing = row[i].existing
         /\ (row[i].state # "none" /\ row'[i].state = "none") => PruneJob(i)
         /\ (row[i].state = "none" /\ row'[i].state # "none")
              => /\ QueueRefinement /\ live.intent = i
                 /\ row'[i].existing = live.existing
  <1>1. /\ RowsOK /\ me \in Nat \ {NoOwner} /\ stamps \in Nat /\ live \in Live
        /\ WorkersHaveIntents
    BY DEF Basis, TypeOK, JobsTypeOK
  <1>2. ASSUME NEW j \in Intent, ClaimJob(j) PROVE SameJobs
    BY <1>1, <1>2, ClaimKeeps DEF ClaimJob
  <1>3. CASE CompleteJob
    <2>1. refiner.intent \in Intent
      BY <1>1, <1>3 DEF CompleteJob, WorkersHaveIntents, RefinerWorks, RefinerAt
    <2>2. SameJobs
      BY <1>1, <1>3, <2>1, CompleteKeeps DEF CompleteJob
    <2> QED BY <2>2 DEF SameJobs
  <1>4. CASE QueueRefinement /\ Insert(live.intent, live.existing)
    <2>1. live.intent \in Intent /\ live.existing \in Existing
      BY <1>1, <1>4 DEF QueueRefinement, WorkersHaveIntents, Idle, Live
    <2>2. /\ \A j \in Intent \ {live.intent} : row'[j] = row[j]
          /\ row[live.intent].state = "none"
          /\ row'[live.intent].state = "queued"
          /\ row'[live.intent].existing = live.existing
      BY <1>1, <1>4, <2>1, InsertKeeps
    <2>3. CASE i = live.intent
      BY <1>4, <2>2, <2>3
    <2>4. CASE i # live.intent
      BY <2>2, <2>4
    <2> QED BY <2>3, <2>4
  <1>5. ASSUME NEW j \in Intent, PruneJob(j) PROVE i = j \/ row'[i] = row[i]
    BY <1>1, <1>5, PruneKeeps DEF PruneJob
  <1>6. ASSUME NEW j \in Intent, PruneJob(j) PROVE row'[j].state = "none" /\ row[j].state # "none"
    BY <1>1, <1>6, PruneKeeps DEF PruneJob, Prune, Terminal
  <1> QED BY <1>2, <1>3, <1>4, <1>5, <1>6, LedgerSteps DEF SameJobs

\* What a step does to the decision worker and its deliveries.
LEMMA LiveSteps ==
  ASSUME Basis, [Next]_vars
  PROVE  \/ UNCHANGED <<live, delivery>>
         \/ Idle(live')
         \/ (\E i \in Intent : Handle(i))
         \/ QueueRefinement
  BY DEF Next, DecisionWorker, RefinementWorker, Faulty,
         FinishDelivery, ExpireStale, ClaimJob, ClaimNothing, RefineInconclusive,
         RefineConcludes, Finalize, DeferCompletion, CompleteJob, RefinerStops,
         HandleRaises, QueueRaises, FinishRaises, ClaimRaises, CompleteRaises,
         RetryRaises, RequestStop, Crash, Restart, PruneJob, Tick, vars, decisions,
         DeliveryRaises, IdleLive, Idle

\* What a step does to the events of an intent.
LEMMA EventSteps ==
  ASSUME Basis, [Next]_vars, NEW i \in Intent
  PROVE  \/ Handle(i) \/ HandleRaises(i)
         \/ handled'[i] = handled[i] /\ events'[i] = events[i]
         \/ /\ RefinerWorks /\ refiner.intent = i /\ row[i].existing = "none"
            /\ handled'[i] = handled[i] /\ events'[i] = events[i] \cup {"job"}
  <1>1. /\ handled \in [Intent -> 0 .. 2]
        /\ events \in [Intent -> SUBSET {"live", "job"}]
    BY DEF Basis, TypeOK
  <1>2. ASSUME NEW j \in Intent, Handle(j) \/ HandleRaises(j), j # i
        PROVE  handled'[i] = handled[i] /\ events'[i] = events[i]
    BY <1>1, <1>2 DEF Handle, HandleRaises, StoreEvent
  <1>3. ASSUME RefinementStores(refiner.intent), RefinerWorks
        PROVE  \/ events'[i] = events[i]
               \/ /\ refiner.intent = i /\ row[i].existing = "none"
                  /\ events'[i] = events[i] \cup {"job"}
    <2>1. CASE UNCHANGED events
      BY <2>1
    <2>2. CASE row[refiner.intent].existing = "none" /\ StoreEvent(refiner.intent, "job")
      <3>1. CASE refiner.intent = i
        BY <1>1, <2>2, <3>1 DEF StoreEvent
      <3>2. CASE refiner.intent # i
        BY <1>1, <2>2, <3>2 DEF StoreEvent
      <3> QED BY <3>1, <3>2
    <2> QED BY <1>3, <2>1, <2>2 DEF RefinementStores
  <1>4. CASE RefineInconclusive
    BY <1>3, <1>4 DEF RefineInconclusive, RefinerAt, RefinerWorks, decisions
  <1>5. CASE RefineConcludes
    BY <1>3, <1>5 DEF RefineConcludes, RefinerAt, RefinerWorks, decisions
  <1>6. UNCHANGED <<handled, events>> => handled'[i] = handled[i] /\ events'[i] = events[i]
    OBVIOUS
  <1> QED
    BY <1>2, <1>4, <1>5, <1>6
       DEF Next, DecisionWorker, RefinementWorker, Faulty, QueueRefinement,
           FinishDelivery, ExpireStale, ClaimJob, ClaimNothing, Finalize,
           DeferCompletion, CompleteJob, RefinerStops, QueueRaises, FinishRaises,
           ClaimRaises, CompleteRaises, RetryRaises, RequestStop, Crash, Restart,
           PruneJob, Tick, vars, decisions

\* Every step preserves it: a job is not pruned while it is refined.
LEMMA JobInRefinementNext ==
  ASSUME Basis, [Next]_vars, JobInRefinement
  PROVE  JobInRefinement'
  <1> SUFFICES ASSUME RefinerWorks' PROVE row'[refiner'.intent].state # "none"
    BY DEF JobInRefinement
  <1>1. \A i \in Intent : (RefinerWorks /\ row[i].state # "none") => row'[i].state # "none"
    BY RowSteps DEF PruneJob, Idle, RefinerWorks
  <1>2. RefinerWorks => refiner.intent \in Intent
    BY DEF Basis, WorkersHaveIntents
  <1>3. RefinerWorks /\ refiner'.intent = refiner.intent => row'[refiner'.intent].state # "none"
    BY <1>1, <1>2 DEF JobInRefinement
  <1>4. ASSUME NEW i \in Intent, ClaimJob(i) PROVE row'[refiner'.intent].state # "none"
    <2>1. RowsOK /\ me \in Nat \ {NoOwner}
      BY DEF Basis, TypeOK
    <2>2. row'[i].state = "running" /\ refiner'.intent = i
      BY <1>4, <2>1, ClaimKeeps DEF ClaimJob
    <2> QED BY <2>2
  <1>5. RefineConcludes \/ Finalize => RefinerWorks /\ refiner'.intent = refiner.intent
    BY DEF RefineConcludes, Finalize, RefinerAt, RefinerWorks, Go, Basis, TypeOK, Refiner
  <1> QED BY <1>3, <1>4, <1>5, RefinerSteps DEF RefinerWorks

\* Every step preserves what a first handling leaves behind.
LEMMA HandlingsNext ==
  ASSUME Basis, [Next]_vars, JobInRefinement, Handlings
  PROVE  Handlings'
  <1> SUFFICES ASSUME NEW i \in Intent
               PROVE  /\ handled'[i] = 0 => NoTrace(i)'
                      /\ handled'[i] = 1 /\ "live" \in events'[i] => JobKnowsEvent(i)'
    BY DEF Handlings
  <1>1. /\ handled[i] \in 0 .. 2 /\ events[i] \in SUBSET {"live", "job"}
        /\ handled \in [Intent -> 0 .. 2] /\ events \in [Intent -> SUBSET {"live", "job"}]
        /\ live \in Live
    BY DEF Basis, TypeOK
  <1>2. /\ handled[i] = 0 => NoTrace(i)
        /\ handled[i] = 1 /\ "live" \in events[i] => JobKnowsEvent(i)
    BY DEF Handlings
  \* What the decision worker holds of i after a step in which it does not
  \* start to handle i.
  <1>3. ASSUME ~Handle(i)
        PROVE  \/ Idle(live') \/ live'.intent # i
               \/ UNCHANGED live
               \/ ~Idle(live) /\ live.intent = i /\ live'.pc = "admitted"
    <2>1. ASSUME NEW j \in Intent, Handle(j) PROVE live'.intent # i
      <3>1. j # i
        BY <1>3, <2>1
      <3>2. live'.intent = j
        BY <2>1 DEF Handle
      <3> QED BY <3>1, <3>2
    <2>2. QueueRefinement => live'.pc = "admitted" /\ live'.intent = live.intent /\ ~Idle(live)
      BY <1>1 DEF QueueRefinement, Live, Idle
    <2> QED BY <2>1, <2>2, LiveSteps
  <1>4. ASSUME handled'[i] = 0 PROVE NoTrace(i)'
    <2>1. handled[i] = 0 /\ ~Handle(i) /\ ~HandleRaises(i)
      BY <1>1, <1>4, EventSteps DEF Handle, HandleRaises
    <2>2. NoTrace(i)
      BY <1>2, <2>1
    <2>3. events'[i] = {}
      BY <2>1, <2>2, EventSteps DEF NoTrace, JobInRefinement
    <2>4. row'[i].state = "none"
      BY <2>2, RowSteps DEF NoTrace, QueueRefinement, Idle
    <2>5. Idle(live') \/ live'.intent # i
      BY <1>3, <2>1, <2>2 DEF NoTrace, Idle
    <2> QED BY <2>3, <2>4, <2>5 DEF NoTrace
  <1>5. ASSUME handled'[i] = 1, "live" \in events'[i] PROVE JobKnowsEvent(i)'
    <2>1. CASE Handle(i) \/ HandleRaises(i)
      <3>1. handled[i] = 0
        BY <1>1, <1>5, <2>1 DEF Handle, HandleRaises
      <3>2. NoTrace(i) /\ row' = row
        BY <1>2, <2>1, <3>1 DEF Handle, HandleRaises, jobs
      <3>3. events'[i] = {"live"}
        BY <1>1, <1>5, <2>1, <3>2 DEF Handle, HandleRaises, StoreEvent, NoTrace
      <3>4. live'.pc = "handled" => live'.existing = "live"
        BY <1>1, <1>5, <2>1, <3>2
           DEF Handle, HandleRaises, NoTrace, DeliveryRaises, IdleLive
      <3> QED BY <3>2, <3>3, <3>4 DEF JobKnowsEvent, NoTrace
    <2>2. CASE ~Handle(i) /\ ~HandleRaises(i)
      <3>1. handled[i] = 1 /\ "live" \in events[i]
        BY <1>5, <2>2, EventSteps
      <3>2. JobKnowsEvent(i)
        BY <1>2, <3>1
      <3>3. "job" \notin events'[i]
        BY <2>2, <3>2, EventSteps DEF JobKnowsEvent, JobInRefinement
      <3>4. row'[i].state # "none" => row'[i].existing = "live"
        BY <3>2, RowSteps DEF JobKnowsEvent, QueueRefinement
      <3>5. live'.pc = "handled" /\ live'.intent = i => live'.existing = "live"
        BY <1>3, <2>2, <3>2 DEF JobKnowsEvent, Idle
      <3> QED BY <3>3, <3>4, <3>5 DEF JobKnowsEvent
    <2> QED BY <2>1, <2>2
  <1> QED BY <1>4, <1>5

\* Two incidents for one intent take a second delivery of its trigger.
THEOREM DuplicatesAreRedeliveries == Spec => []DuplicateNeedsRedelivery
  <1>1. Init => JobInRefinement /\ Handlings
    BY DEF Init, JobsInit, NoRow, IdleLive, IdleRefiner, JobInRefinement, RefinerWorks,
           Handlings, NoTrace, JobKnowsEvent, Idle
  <1>2. Basis /\ JobInRefinement /\ Handlings /\ [Next]_vars => (JobInRefinement /\ Handlings)'
    BY JobInRefinementNext, HandlingsNext
  <1>3. Basis /\ Handlings => DuplicateNeedsRedelivery
    <2> SUFFICES ASSUME Basis, Handlings, NEW i \in Intent, events[i] = {"live", "job"}
                 PROVE  handled[i] > 1
      BY DEF DuplicateNeedsRedelivery
    <2>1. handled[i] \in 0 .. 2
      BY DEF Basis, TypeOK
    <2>2. handled[i] # 0 /\ handled[i] # 1
      BY DEF Handlings, NoTrace, JobKnowsEvent
    <2> QED BY <2>1, <2>2
  <1> QED BY <1>1, <1>2, <1>3, BasisCorrect, PTL DEF Spec

\* Every step preserves it: the insert comes before the delivery's end.
LEMMA AdmittedHasJobNext ==
  ASSUME Basis, [Next]_vars, AdmittedHasJob
  PROVE  AdmittedHasJob'
  <1> SUFFICES ASSUME live'.pc = "admitted", live'.pending, delivery'[live'.intent] = "owed"
               PROVE  /\ row'[live'.intent].state # "none"
                      /\ row'[live'.intent].existing = live'.existing
    BY DEF AdmittedHasJob
  <1>1. live \in Live /\ WorkersHaveIntents /\ RowsOK /\ stamps \in Nat
    BY DEF Basis, TypeOK, JobsTypeOK
  <1>2. CASE UNCHANGED <<live, delivery>>
    <2>1. live.intent \in Intent
      BY <1>1, <1>2 DEF WorkersHaveIntents, Idle
    <2>2. /\ row[live.intent].state # "none" /\ row[live.intent].existing = live.existing
          /\ ~PruneJob(live.intent)
      BY <1>2 DEF AdmittedHasJob, PruneJob
    <2> QED BY <1>2, <2>1, <2>2, RowSteps
  <1>3. CASE QueueRefinement
    <2>1. /\ live'.intent = live.intent /\ live'.existing = live.existing
          /\ live'.pending = live.pending /\ live.pc = "handled"
      BY <1>1, <1>3 DEF QueueRefinement, Live
    <2>2. live.intent \in Intent /\ live.existing \in Existing
      BY <1>1, <2>1 DEF WorkersHaveIntents, Idle, Live
    <2>3. CASE Insert(live.intent, live.existing)
      BY <1>1, <2>1, <2>2, <2>3, InsertKeeps
    <2>4. CASE Coalesces(live.intent, live.existing) /\ UNCHANGED jobs
      BY <2>1, <2>4 DEF Coalesces, jobs
    <2>5. Queue(live.intent)
      BY <1>3, <2>1 DEF QueueRefinement
    <2> QED BY <2>3, <2>4, <2>5 DEF Queue
  <1>4. ASSUME NEW i \in Intent, Handle(i) PROVE FALSE
    BY <1>4 DEF Handle
  <1> QED BY <1>2, <1>3, <1>4, LiveSteps DEF Idle

\* A delivery that announced delayed discovery is completed only with a job
\* of the same occurrence in the ledger.
THEOREM DelayedDiscoveryIsDurable == Spec => DelayedEvidenceAdmitted
  <1>1. Init => AdmittedHasJob
    BY DEF Init, IdleLive, AdmittedHasJob
  <1>2. Basis /\ AdmittedHasJob /\ [Next]_vars => AdmittedHasJob'
    BY AdmittedHasJobNext
  <1>3. ASSUME Basis, AdmittedHasJob, [Next]_vars, NEW i \in Intent,
               delivery[i] = "owed", delivery'[i] = "done", live.pending
        PROVE  row[i].state # "none" /\ row[i].existing = live.existing
    <2>1. delivery \in [Intent -> {"owed", "done", "failed"}]
      BY <1>3 DEF Basis, TypeOK
    <2>2. \A j : DeliveryRaises(j) => delivery'[i] # "done"
      BY <1>3, <2>1 DEF DeliveryRaises
    <2>3. FinishDelivery
      BY <1>3, <2>2
         DEF Next, DecisionWorker, RefinementWorker, Faulty, Handle, QueueRefinement,
             ExpireStale, ClaimJob, ClaimNothing, RefineInconclusive, RefineConcludes,
             Finalize, DeferCompletion, CompleteJob, RefinerStops, HandleRaises,
             QueueRaises, FinishRaises, ClaimRaises, CompleteRaises, RetryRaises,
             RequestStop, Crash, Restart, PruneJob, Tick, vars, decisions
    <2>4. live.pc = "admitted" /\ live.intent = i
      BY <1>3, <2>1, <2>3 DEF FinishDelivery
    <2> QED BY <1>3, <2>4 DEF AdmittedHasJob
  <1>4. Basis /\ AdmittedHasJob /\ [Next]_vars
          => [\A i \in Intent :
                (delivery[i] = "owed" /\ delivery'[i] = "done" /\ live.pending)
                  => row[i].state # "none" /\ row[i].existing = live.existing]_vars
    BY <1>3
  <1> QED BY <1>1, <1>2, <1>4, BasisCorrect, PTL DEF Spec, DelayedEvidenceAdmitted
=============================================================================
