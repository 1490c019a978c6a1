---------------------------- MODULE MediaExports ----------------------------
(***************************************************************************)
(* The export library (media_exports.py): a SQLite row per job, a bounded  *)
(* in-memory queue, one worker thread that renders and publishes, clients  *)
(* that create, cancel, protect and delete, a cleanup that runs on the     *)
(* worker and on the thread that starts the manager, and restarts.         *)
(*                                                                         *)
(* Every database call is a transaction of its own, so anything may happen *)
(* between a row that was read and what is then done about it.  A file     *)
(* stands for the published video and its manifest.  Expiry and the        *)
(* storage quota are left open: any unprotected export may be due.         *)
(***************************************************************************)
EXTENDS Naturals, Sequences, FiniteSets

CONSTANTS Job, Client,
          QueueLimit,  \* jobs the queue holds (100 in the code)
          MaxCrashes,  \* bound on crashes and stops
          MaxFaults,   \* bound on failed renders and disk operations
          NoJob

ASSUME ExportAssumption ==
  /\ IsFiniteSet(Job) /\ NoJob \notin Job /\ QueueLimit \in Nat \ {0}
  /\ MaxCrashes \in Nat /\ MaxFaults \in Nat

VARIABLES
  row,       \* job -> its row; status "none" before it is created, "gone" after
  file,      \* the jobs with a published file
  phase,     \* the process: down, or how far it has started
  loading,   \* queued jobs that start has yet to put in the queue
  queue,     \* MediaExportManager._queue
  worker,    \* the worker thread
  sweep,     \* cleaner -> how far its cleanup is
  client,    \* client -> how far its request is
  leftover,  \* files an unlink failed to remove
  torn,      \* jobs whose files a request removed and whose row stayed
  crashes, faults

diskVars == <<row, file, leftover, torn>>
startVars == <<phase, loading>>
vars == <<diskVars, startVars, queue, worker, sweep, client, crashes, faults>>

Cleaner == {"worker", "start"}
Active == {"queued", "running", "cancelling"}   \* ACTIVE_STATUSES
Terminal == {"completed", "failed", "cancelled"}
Exists(j) == row[j].status \notin {"none", "gone"}

NewRow == [status |-> "queued", cancel |-> FALSE, protected |-> FALSE,
           output |-> FALSE, interrupted |-> FALSE]
WorkerOff == [at |-> "off", job |-> NoJob, cancel |-> FALSE]
NotSweeping == [at |-> "off", job |-> NoJob, output |-> FALSE]
NoRequest == [at |-> "idle", job |-> NoJob, output |-> FALSE]

Init ==
  /\ row = [j \in Job |-> [NewRow EXCEPT !.status = "none"]]
  /\ file = {} /\ leftover = {} /\ torn = {}
  /\ phase = "down" /\ loading = <<>> /\ queue = <<>> /\ worker = WorkerOff
  /\ sweep = [c \in Cleaner |-> NotSweeping]
  /\ client = [c \in Client |-> NoRequest]
  /\ crashes = 0 /\ faults = 0

-----------------------------------------------------------------------------
(* The store: an UPDATE of a row that was deleted changes nothing.         *)

Status(j, status) ==
  row' = [row EXCEPT ![j].status = IF Exists(j) THEN status ELSE @]
Erase(j) ==
  row' = [row EXCEPT ![j] = [NewRow EXCEPT !.status = "gone"]]
Fault == faults < MaxFaults /\ faults' = faults + 1
NoFault == UNCHANGED faults

\* An unlink removes the file, or fails and leaves it where it is.
Unlink(j) ==
  \/ file' = file \ {j} /\ NoFault /\ UNCHANGED leftover
  \/ j \in file /\ Fault /\ leftover' = leftover \cup {j} /\ UNCHANGED file

-----------------------------------------------------------------------------
(* The worker: _run, _execute, _publish.  From activate to done its job is *)
(* the active one, whose cancel event a request may set.                   *)

Alive == phase \in {"load", "sweep", "up", "stopping"}
HoldsActive ==
  worker.at \in {"begin", "render", "publish", "manifest", "record",
                 "interrupted", "error"}
Interrupted == worker.cancel \/ phase = "stopping"
\* The loop's condition.
NextLoop == IF phase = "stopping" THEN "off" ELSE "idle"
Goes(at) == worker' = [worker EXCEPT !.at = at]
OfWorker == UNCHANGED <<startVars, client, crashes>>

\* idle stands for the wait of at most a second: the stop may come after the
\* loop's condition was evaluated, and the next job be taken all the same.
Fetch ==
  /\ Alive /\ worker.at = "idle" /\ queue # <<>>
  /\ worker' = [at |-> "look", job |-> Head(queue), cancel |-> FALSE]
  /\ queue' = Tail(queue)
  /\ OfWorker /\ UNCHANGED <<diskVars, sweep, faults>>
Quit ==
  /\ worker.at = "idle" /\ phase = "stopping" /\ Goes("off")
  /\ OfWorker /\ UNCHANGED <<diskVars, queue, sweep, faults>>

\* A job that is no longer waiting is passed over.
Look ==
  /\ worker.at = "look"
  /\ Goes(CASE row[worker.job].status \notin {"queued", "cancelling"} -> NextLoop
            [] row[worker.job].cancel -> "drop"
            [] OTHER -> "activate")
  /\ OfWorker /\ UNCHANGED <<diskVars, queue, sweep, faults>>
Drop ==
  /\ worker.at = "drop" /\ Status(worker.job, "cancelled") /\ Goes(NextLoop)
  /\ OfWorker /\ UNCHANGED <<file, leftover, torn, queue, sweep, faults>>
Activate ==
  /\ worker.at = "activate" /\ Goes("begin")
  /\ OfWorker /\ UNCHANGED <<diskVars, queue, sweep, faults>>
Begin ==
  /\ worker.at = "begin" /\ Status(worker.job, "running") /\ Goes("render")
  /\ OfWorker /\ UNCHANGED <<file, leftover, torn, queue, sweep, faults>>

\* An encoder that a cancellation terminated may be taken for one that failed.
Render ==
  /\ worker.at = "render"
  /\ \/ Interrupted /\ Goes("interrupted") /\ NoFault
     \/ Interrupted /\ Goes("error") /\ NoFault
     \/ ~Interrupted /\ Goes("publish") /\ NoFault
     \/ ~Interrupted /\ Goes("error") /\ Fault
  /\ OfWorker /\ UNCHANGED <<diskVars, queue, sweep>>
Publish ==
  /\ worker.at = "publish"
  /\ \/ Interrupted /\ Goes("interrupted") /\ NoFault /\ UNCHANGED file
     \/ /\ ~Interrupted /\ file' = file \cup {worker.job}
        /\ Goes("manifest") /\ NoFault
     \/ ~Interrupted /\ Goes("error") /\ Fault /\ UNCHANGED file
  /\ OfWorker /\ UNCHANGED <<row, leftover, torn, queue, sweep>>

\* The published file is withdrawn when the job is interrupted or its manifest
\* cannot be written; a file that cannot be withdrawn makes the job a failed one.
Manifest ==
  /\ worker.at = "manifest"
  /\ \/ ~Interrupted /\ Goes("record") /\ NoFault /\ UNCHANGED <<file, leftover>>
     \/ /\ ~Interrupted /\ Goes("error") /\ Fault
        /\ file' = file \ {worker.job} /\ UNCHANGED leftover
     \/ /\ Interrupted /\ Unlink(worker.job)
        /\ Goes(IF worker.job \in file' THEN "error" ELSE "interrupted")
  /\ OfWorker /\ UNCHANGED <<row, torn, queue, sweep>>
\* No check separates this update from a cancellation that comes just before it.
Record ==
  /\ worker.at = "record" /\ Goes("done")
  /\ row' = [row EXCEPT ![worker.job] =
               IF Exists(worker.job)
               THEN [@ EXCEPT !.status = "completed", !.output = TRUE] ELSE @]
  /\ OfWorker /\ UNCHANGED <<file, leftover, torn, queue, sweep, faults>>
EndInterrupted ==
  /\ worker.at = "interrupted" /\ Status(worker.job, "cancelled") /\ Goes("done")
  /\ OfWorker /\ UNCHANGED <<file, leftover, torn, queue, sweep, faults>>
EndError ==
  /\ worker.at = "error" /\ Status(worker.job, "failed") /\ Goes("done")
  /\ OfWorker /\ UNCHANGED <<file, leftover, torn, queue, sweep, faults>>

\* Every job ends with a cleanup; so does a minute without one.
Done ==
  /\ \/ worker.at = "done"
     \/ worker.at = "idle" /\ Alive /\ queue = <<>>
  /\ worker' = [WorkerOff EXCEPT !.at = "clean"]
  /\ sweep' = [sweep EXCEPT !["worker"].at = "pick"]
  /\ OfWorker /\ UNCHANGED <<diskVars, queue, faults>>

-----------------------------------------------------------------------------
(* cleanup, on the worker and on the thread that starts the manager.       *)

OfSweep == UNCHANGED <<queue, client, crashes>>

\* claim_unprotected_cleanup: the list of due exports was read before, the
\* claim looks again.
Due(j) == row[j].status \in Terminal /\ ~row[j].protected
\* Faulty variant of Claim, never used.
ClaimNothing(c) ==
  /\ sweep[c].at = "pick"
  /\ \E j \in Job :
       /\ Due(j)
       /\ sweep' = [sweep EXCEPT ![c] =
                      [at |-> "unlink", job |-> j, output |-> row[j].output]]
  /\ OfSweep
  /\ UNCHANGED <<row, file, leftover, torn, startVars, worker, faults>>
Claim(c) ==
  /\ sweep[c].at = "pick"
  /\ \E j \in Job :
       /\ Due(j) /\ Status(j, "deleting")
       /\ sweep' = [sweep EXCEPT ![c] =
                      [at |-> "unlink", job |-> j, output |-> row[j].output]]
  /\ OfSweep
  /\ UNCHANGED <<file, leftover, torn, startVars, worker, faults>>
SweepFile(c) ==
  /\ sweep[c].at = "unlink"
  /\ IF sweep[c].output THEN Unlink(sweep[c].job)
     ELSE NoFault /\ UNCHANGED <<file, leftover>>
  /\ sweep' = [sweep EXCEPT ![c].at = "erase"]
  /\ OfSweep /\ UNCHANGED <<row, torn, startVars, worker>>
SweepRow(c) ==
  /\ sweep[c].at = "erase" /\ Erase(sweep[c].job)
  /\ sweep' = [sweep EXCEPT ![c] = [NotSweeping EXCEPT !.at = "pick"]]
  /\ OfSweep /\ UNCHANGED <<file, leftover, torn, startVars, worker, faults>>
\* An exception that leaves the cleanup, a manifest that cannot be unlinked say,
\* ends the worker's thread for good, or the start of the process.
SweepFails(c) ==
  /\ sweep[c].at = "erase" /\ Fault
  /\ sweep' = [sweep EXCEPT ![c] = NotSweeping]
  /\ IF c = "worker"
     THEN worker' = [WorkerOff EXCEPT !.at = "dead"] /\ UNCHANGED startVars
     ELSE phase' = "stopping" /\ UNCHANGED <<loading, worker>>
  /\ OfSweep /\ UNCHANGED diskVars
EndSweep(c) ==
  /\ sweep[c].at = "pick"
  /\ sweep' = [sweep EXCEPT ![c] = NotSweeping]
  /\ IF c = "worker"
     THEN worker' = [worker EXCEPT !.at = NextLoop] /\ UNCHANGED startVars
     ELSE /\ phase' = IF phase = "sweep" THEN "up" ELSE phase
          /\ UNCHANGED <<loading, worker>>
  /\ OfSweep /\ UNCHANGED <<diskVars, faults>>

-----------------------------------------------------------------------------
(* Requests.                                                               *)

OfClient == UNCHANGED <<startVars, sweep, crashes>>
Requests(c) == phase = "up" /\ client[c].at = "idle"

\* create: the row first, then its place in the queue.
Create(c) ==
  /\ Requests(c)
  /\ \E j \in Job :
       /\ row[j].status = "none"
       /\ row' = [row EXCEPT ![j] = NewRow]
       /\ client' = [client EXCEPT ![c] = [NoRequest EXCEPT !.at = "enqueue", !.job = j]]
  /\ OfClient /\ UNCHANGED <<file, leftover, torn, queue, worker, faults>>
\* _enqueue: a full queue fails the job.
Enqueue(j) ==
  IF Len(queue) < QueueLimit
  THEN queue' = Append(queue, j) /\ UNCHANGED row
  ELSE Status(j, "failed") /\ UNCHANGED queue
EnqueueCreated(c) ==
  /\ client[c].at = "enqueue" /\ Enqueue(client[c].job)
  /\ client' = [client EXCEPT ![c] = NoRequest]
  /\ OfClient /\ UNCHANGED <<file, leftover, torn, worker, faults>>

\* cancel_or_delete decides by the row it has read.  Forced, it deletes a
\* protected export as well.
CancelOrDelete(c) ==
  /\ Requests(c)
  /\ \E j \in Job :
       /\ Exists(j)
       /\ client' = [client EXCEPT ![c] =
            [at |-> IF row[j].status \in Active THEN "cancel" ELSE "unlink",
             job |-> j, output |-> row[j].output]]
  /\ OfClient /\ UNCHANGED <<diskVars, queue, worker, faults>>
CancelRow(c) ==
  /\ client[c].at = "cancel"
  /\ row' = [row EXCEPT ![client[c].job] =
               IF Exists(client[c].job)
               THEN [@ EXCEPT !.status = "cancelling", !.cancel = TRUE,
                              !.interrupted = FALSE] ELSE @]
  /\ client' = [client EXCEPT ![c].at = "signal"]
  /\ OfClient /\ UNCHANGED <<file, leftover, torn, queue, worker, faults>>
Signal(c) ==
  /\ client[c].at = "signal"
  /\ worker' = [worker EXCEPT !.cancel =
                  @ \/ (HoldsActive /\ worker.job = client[c].job)]
  /\ client' = [client EXCEPT ![c] = NoRequest]
  /\ OfClient /\ UNCHANGED <<diskVars, queue, faults>>
DeleteFile(c) ==
  /\ client[c].at = "unlink"
  /\ IF client[c].output THEN Unlink(client[c].job)
     ELSE NoFault /\ UNCHANGED <<file, leftover>>
  /\ client' = [client EXCEPT ![c].at = "erase"]
  /\ OfClient /\ UNCHANGED <<row, torn, queue, worker>>
DeleteRow(c) ==
  /\ client[c].at = "erase" /\ Erase(client[c].job)
  /\ client' = [client EXCEPT ![c] = NoRequest]
  /\ OfClient /\ UNCHANGED <<file, leftover, torn, queue, worker, faults>>
\* The manifest cannot be unlinked: the row stays and the request fails.
DeleteFails(c) ==
  /\ client[c].at = "erase" /\ Fault
  /\ torn' = torn \cup {client[c].job}
  /\ client' = [client EXCEPT ![c] = NoRequest]
  /\ OfClient /\ UNCHANGED <<row, file, leftover, queue, worker>>

\* Faulty variant of MayProtect, never used.
MayProtectAnyway(j) == Exists(j)
\* set_protected_if_not_deleting.
MayProtect(j) == Exists(j) /\ row[j].status # "deleting"
SetProtected(c) ==
  /\ Requests(c)
  /\ \E j \in Job :
       /\ MayProtect(j)
       /\ row' = [row EXCEPT ![j].protected = ~@]
  /\ OfClient
  /\ UNCHANGED <<client, file, leftover, torn, queue, worker, faults>>

-----------------------------------------------------------------------------
(* Start, stop and crash.                                                  *)

\* MediaExportStore._initialize: what was under way is a failed job now.
MarkInterrupted ==
  /\ phase = "down" /\ phase' = "marked"
  /\ row' = [j \in Job |->
               IF row[j].status \in {"running", "cancelling", "deleting"}
               THEN [row[j] EXCEPT !.status = "failed", !.interrupted = TRUE]
               ELSE row[j]]
  /\ UNCHANGED <<file, leftover, torn, loading, queue, worker, sweep, client,
                 crashes, faults>>
InterruptedFiles == {j \in file : Exists(j) /\ row[j].interrupted}
\* Faulty variant of RemoveArtifacts, never used.
KeepArtifacts == NoFault /\ UNCHANGED <<file, leftover>>
\* _cleanup_interrupted_artifacts: a failed unlink is logged.
RemoveArtifacts ==
  \/ file' = file \ InterruptedFiles /\ NoFault /\ UNCHANGED leftover
  \/ /\ Fault /\ \E j \in InterruptedFiles :
                   /\ leftover' = leftover \cup {j}
                   /\ file' = file \ (InterruptedFiles \ {j})

Orders(S) == {s \in [1 .. Cardinality(S) -> S] : \A j \in S : \E i \in DOMAIN s : s[i] = j}
\* Faulty variant of QueuedIds, never used.
QueuedIdsForgotten == {}
QueuedIds == {j \in Job : row[j].status = "queued"}
\* start: the worker's thread runs before the queued jobs are put back.
Start ==
  /\ phase = "marked" /\ phase' = "load" /\ RemoveArtifacts
  /\ worker' = [WorkerOff EXCEPT !.at = "idle"]
  /\ loading' \in Orders(QueuedIds)
  /\ UNCHANGED <<row, torn, queue, sweep, client, crashes>>
\* A full queue fails the job and the start with it.
Load ==
  /\ phase = "load" /\ loading # <<>>
  /\ Enqueue(Head(loading)) /\ loading' = Tail(loading)
  /\ phase' = IF Len(queue) < QueueLimit THEN phase ELSE "stopping"
  /\ UNCHANGED <<file, leftover, torn, worker, sweep, client, crashes, faults>>
Loaded ==
  /\ phase = "load" /\ loading = <<>> /\ phase' = "sweep"
  /\ sweep' = [sweep EXCEPT !["start"].at = "pick"]
  /\ UNCHANGED <<diskVars, loading, queue, worker, client, crashes, faults>>

\* stop: the flag, the active job's event and the sentinel.
Stop ==
  /\ phase = "up" /\ crashes < MaxCrashes /\ crashes' = crashes + 1
  /\ phase' = "stopping"
  /\ worker' = [worker EXCEPT !.cancel = @ \/ HoldsActive]
  /\ UNCHANGED <<diskVars, loading, queue, sweep, client, faults>>
\* The process ends with the database and the files as they are.
Ends ==
  /\ phase' = "down" /\ loading' = <<>> /\ queue' = <<>> /\ worker' = WorkerOff
  /\ sweep' = [c \in Cleaner |-> NotSweeping]
  /\ client' = [c \in Client |-> NoRequest]
  /\ torn' = torn \cup {client[c].job : c \in {d \in Client : client[d].at = "erase"}}
  /\ UNCHANGED <<row, file, leftover, faults>>
Exit == phase = "stopping" /\ Ends /\ UNCHANGED crashes
Crash ==
  /\ phase \notin {"down", "stopping"} /\ crashes < MaxCrashes
  /\ crashes' = crashes + 1 /\ Ends

-----------------------------------------------------------------------------
Sweeps(c) == Claim(c) \/ SweepFile(c) \/ SweepRow(c) \/ SweepFails(c) \/ EndSweep(c)
Works ==
  \/ Fetch \/ Quit \/ Look \/ Drop \/ Activate \/ Begin \/ Render \/ Publish
  \/ Manifest \/ Record \/ EndInterrupted \/ EndError \/ Done
Finishes(c) ==
  \/ EnqueueCreated(c) \/ CancelRow(c) \/ Signal(c)
  \/ DeleteFile(c) \/ DeleteRow(c) \/ DeleteFails(c)
Begins(c) == Create(c) \/ CancelOrDelete(c) \/ SetProtected(c)
Starts == MarkInterrupted \/ Start \/ Load \/ Loaded

Next ==
  \/ Works \/ Starts \/ Stop \/ Exit \/ Crash
  \/ \E c \in Cleaner : Sweeps(c)
  \/ \E c \in Client : Begins(c) \/ Finishes(c)

Spec == Init /\ [][Next]_vars

\* A started request finishes, the worker and a cleanup go on, the process is
\* started again after it ended, and a stop is not waited for without end.
FairSpec ==
  /\ Spec
  /\ WF_vars(Works) /\ WF_vars(Starts) /\ WF_vars(Exit)
  /\ \A c \in Cleaner : WF_vars(Sweeps(c))
  /\ \A c \in Client : WF_vars(Finishes(c))

-----------------------------------------------------------------------------
(* Properties.                                                             *)

Deletes(c, j) == client[c].job = j /\ client[c].at \in {"unlink", "erase"}

\* What the library shows as completed can be downloaded: a publication, an
\* interruption, a cleanup and a crash between any two of their steps leave no
\* completed row without its file.  Only a request to delete the export does,
\* which claims nothing.
CompletedHasFile ==
  \A j \in Job : row[j].status = "completed" =>
    j \in file \/ j \in torn \/ \E c \in Client : Deletes(c, j)

\* No published file is forgotten: while the process runs, every file is known
\* to a row, through which it can be deleted, or the worker is about to record
\* it; but for files that could not be unlinked.
NoStrayFile ==
  Alive => \A j \in file :
    \/ Exists(j) /\ row[j].output
    \/ worker.job = j /\ worker.at \in {"manifest", "record"}
    \/ j \in leftover

\* claim_unprotected_cleanup: protection wins, or the cleanup does.  A protected
\* export that nobody asked to cancel or delete keeps its file whatever the
\* cleanup and restarts do.
ProtectionWins ==
  [][\A j \in Job :
       /\ row[j].protected /\ row[j].output /\ ~row[j].cancel /\ j \notin leftover
       /\ j \in file /\ j \notin file'
       => \E c \in Client : Deletes(c, j)]_vars

\* A queued job is rendered, cancelled or failed, across stops and crashes,
\* unless a cleanup has ended the worker's thread.
QueuedSettles ==
  \A j \in Job : row[j].status = "queued" ~>
                   row[j].status # "queued" \/ worker.at = "dead"

=============================================================================
