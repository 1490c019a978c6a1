--------------------------- MODULE TriggerLedger ---------------------------
(***************************************************************************)
(* The motion_trigger_jobs table of detection-jobs.sqlite3, as the motion  *)
(* coordinator of one camera uses it (event_store/jobs.py): one row per    *)
(* admitted trigger, leased to a coordinator while it is being decided.    *)
(*                                                                         *)
(* Rows are numbered in the order of created_at, so "order by created_at"  *)
(* is the order of the numbers.  lease and delay are the time that is left *)
(* until lease_expires_at and available_at; Aged lets time pass.           *)
(***************************************************************************)
EXTENDS Naturals, FiniteSets

CONSTANTS Triggers,    \* how many triggers may be admitted
          Lease,       \* length of a lease (60 s in the code)
          Backoff,     \* delay before a failed delivery is due again
          MaxAttempts  \* maximum_attempts of fail_motion_trigger (5)

ASSUME LedgerAssumption ==
  /\ Triggers \in Nat
  /\ Lease \in Nat \ {0}
  /\ Backoff \in Nat
  /\ MaxAttempts \in Nat \ {0}

VARIABLE job  \* the table: trigger number -> row

Trigger == 1 .. Triggers
NoOwner == 0  \* lease_owner = ''

NoRow == [state |-> "none", owner |-> NoOwner, lease |-> 0, delay |-> 0,
          attempts |-> 0]

Row == [state    : {"none", "queued", "running", "failed"},
        owner    : Nat,
        lease    : 0 .. Lease,
        delay    : 0 .. Backoff,
        attempts : Nat]

LedgerInit == job = [t \in Trigger |-> NoRow]

(***************************************************************************)
(* Reads.                                                                  *)
(***************************************************************************)
Exists(t) == job[t].state # "none"

LeasedBy(t, o) == job[t].state = "running" /\ job[t].owner = o

ReadyOnlyQueued(t) == job[t].state = "queued" /\ job[t].delay = 0

\* The condition of claim_motion_trigger without a job id.
Ready(t) == \/ job[t].state = "queued" /\ job[t].delay = 0
            \/ job[t].state = "running" /\ job[t].lease = 0

\* The condition with a job id: the owner may claim its own row again.
ReadyFor(t, o) == Ready(t) \/ LeasedBy(t, o)

\* What a claim without a job id returns: the oldest row that is ready.
Oldest(t) == Ready(t) /\ \A s \in Trigger : Ready(s) => t <= s

(***************************************************************************)
(* Rows after each update.                                                 *)
(***************************************************************************)
Inserted == [NoRow EXCEPT !.state = "queued"]

Claimed(r, o) == [r EXCEPT !.state = "running", !.owner = o, !.lease = Lease,
                           !.attempts = @ + 1]

Released(r) == [r EXCEPT !.state = "queued", !.owner = NoOwner, !.lease = 0]

FailedDelivery(r) ==
  [r EXCEPT !.state = IF r.attempts < MaxAttempts THEN "queued" ELSE "failed",
            !.owner = NoOwner, !.lease = 0, !.delay = Backoff]

Decrement(n) == IF n = 0 THEN 0 ELSE n - 1

Aged(r) == [r EXCEPT !.lease = Decrement(@), !.delay = Decrement(@)]

(***************************************************************************)
(* Statements of the ledger.  An update whose where clause matches no row  *)
(* changes nothing.                                                        *)
(***************************************************************************)
enqueue_motion_trigger(t) ==
  job' = [job EXCEPT ![t] = IF Exists(t) THEN @ ELSE Inserted]

claim_motion_trigger(t, o) == job' = [job EXCEPT ![t] = Claimed(@, o)]

complete_motion_trigger(t, o) ==
  job' = [job EXCEPT ![t] = IF @.owner = o THEN NoRow ELSE @]

release_motion_trigger(t, o) ==
  job' = [job EXCEPT ![t] = IF LeasedBy(t, o) THEN Released(@) ELSE @]

fail_motion_trigger(t, o) ==
  job' = [job EXCEPT ![t] = IF @.owner = o THEN FailedDelivery(@) ELSE @]

TimePasses == /\ \E t \in Trigger : job[t].lease > 0 \/ job[t].delay > 0
              /\ job' = [t \in Trigger |-> Aged(job[t])]
=============================================================================
