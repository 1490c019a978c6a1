------------------------- MODULE MediaExports_proofs -------------------------
(***************************************************************************)
(* Theorems of MediaExports, for any number of jobs, clients, crashes and  *)
(* faults and a queue of any length: a completed export has its file, no   *)
(* published file is forgotten, and protection wins over the cleanup.      *)
(***************************************************************************)
EXTENDS MediaExports, FiniteSetTheorems, TLAPS

Elems(s) == {s[i] : i \in 1 .. Len(s)}
Distinct(s) == \A i, k \in 1 .. Len(s) : s[i] = s[k] => i = k

\* The worker has a job from look to its last update of the row; the last
\* stages follow the update that made the row a running one.
Ended == {"interrupted", "error"}
Rendering == {"render", "publish", "manifest", "record"} \cup Ended
Holding == {"look", "drop", "activate", "begin"} \cup Rendering
Published == {"manifest", "record"}

\* The jobs that have yet to be worked: each is in one place only.
Waiting == Elems(queue) \cup Elems(loading)
Held == IF worker.at \in Holding THEN {worker.job} ELSE {}
Creating == {client[c].job : c \in {d \in Client : client[d].at = "enqueue"}}
Pending == Waiting \cup Held \cup Creating

AJob == Job \cup {NoJob}
Request == {NoRequest} \cup [at : {"enqueue", "cancel", "signal", "unlink", "erase"},
                             job : Job, output : BOOLEAN]
Statuses == {"none", "gone", "deleting"} \cup Active \cup Terminal
Row == [status : Statuses, cancel : BOOLEAN, protected : BOOLEAN,
        output : BOOLEAN, interrupted : BOOLEAN]
Types ==
  /\ row \in [Job -> Row]
  /\ file \subseteq Job /\ leftover \subseteq Job /\ torn \subseteq AJob
  /\ phase \in {"down", "marked", "load", "sweep", "up", "stopping"}
  /\ worker \in [at : {"off", "idle", "done", "clean", "dead"} \cup Holding,
                 job : AJob, cancel : BOOLEAN]
  /\ sweep \in [Cleaner -> [at : {"off", "pick", "unlink", "erase"},
                            job : AJob, output : BOOLEAN]]
  /\ client \in [Client -> Request]

Places ==
  /\ queue \in Seq(Job) /\ loading \in Seq(Job)
  /\ Distinct(queue) /\ Distinct(loading)
  /\ Elems(queue) \cap Elems(loading) = {}
  /\ Held \subseteq Job /\ Held \cap Waiting = {}
  /\ Creating \subseteq Job /\ Creating \cap (Held \cup Waiting) = {}
  /\ \A c, d \in Client :
       client[c].at = "enqueue" /\ client[d].at = "enqueue" /\ client[c].job = client[d].job
       => c = d
Resting ==
  phase \in {"down", "marked"} =>
    /\ queue = <<>> /\ loading = <<>> /\ worker = WorkerOff
    /\ \A c \in Cleaner : sweep[c] = NotSweeping
    /\ \A c \in Client : client[c] = NoRequest

\* The worker's cleanup is the worker's.
Cleaning == sweep["worker"].at # "off" => worker.at = "clean"

RowOk(r) ==
  /\ r.status \in {"queued", "running", "none", "gone"} => ~r.output
  /\ r.status = "cancelling" => r.cancel
  /\ r.status = "deleting" => ~r.protected
  /\ r.interrupted => r.status \in {"failed", "deleting"}
RowsOk == \A j \in Job : RowOk(row[j])

\* What has yet to be worked is active and has no output.
Begun ==
  /\ \A j \in Pending : row[j].status \in Active /\ ~row[j].output
  /\ worker.at \in Rendering => row[worker.job].status \in {"running", "cancelling"}
  /\ worker.at \in Published => worker.job \in file

\* A request or a cleanup removes what nobody works on, and what it has found
\* to have no output, or has unlinked, has no file.
Absent(j) == j \notin file \/ j \in leftover
Removes(r) ==
  /\ r.job \in Job \ Pending /\ row[r.job].status # "none"
  /\ r.at = "unlink" /\ ~r.output => Absent(r.job)
  /\ r.at = "erase" => Absent(r.job)
Asked == \A c \in Client : client[c].at \in {"unlink", "erase"} => Removes(client[c])
Swept ==
  \A c \in Cleaner : sweep[c].at \in {"unlink", "erase"} =>
    /\ Removes(sweep[c])
    /\ row[sweep[c].job].status \in {"deleting", "cancelling", "gone"}

\* The files of interrupted jobs are removed before anything else starts; those
\* of a protected export are not among them.
Cleared ==
  \A j \in Job :
    row[j].interrupted /\ ~Absent(j) =>
      /\ phase \in {"down", "marked"}
      /\ ~row[j].output \/ row[j].cancel \/ ~row[j].protected

\* A file that no row has recorded is being published, or is dealt with when
\* the process starts again.
Traced ==
  \A j \in file :
    \/ row[j].output \/ j \in leftover
    \/ worker.job = j /\ worker.at \in Published
    \/ phase = "down" /\ row[j].status \in {"running", "cancelling"}
    \/ phase \in {"down", "marked"} /\ row[j].interrupted
Shown ==
  \A j \in Job : row[j].status = "completed" =>
    j \in file \/ j \in torn \/ \E c \in Client : client[c].job = j /\ client[c].at = "erase"

Inv == /\ Types /\ Places /\ Resting /\ Cleaning /\ RowsOk /\ Begun
       /\ Asked /\ Swept /\ Cleared /\ Traced /\ Shown

LEMMA Records ==
  /\ DOMAIN WorkerOff = {"at", "job", "cancel"} /\ WorkerOff.at = "off" /\ WorkerOff.job = NoJob
  /\ DOMAIN NotSweeping = {"at", "job", "output"} /\ NotSweeping.at = "off"
  /\ DOMAIN NoRequest = {"at", "job", "output"} /\ NoRequest.at = "idle"
  BY DEF WorkerOff, NotSweeping, NoRequest

LEMMA Initially == Init => Inv
  <1> SUFFICES ASSUME Init PROVE Inv
    OBVIOUS
  <1>1. Types
    BY DEF Init, Types, Row, Statuses, NewRow, WorkerOff, NotSweeping, Request, AJob
  <1>2. Elems(<<>>) = {} /\ Distinct(<<>>)
    BY DEF Elems, Distinct
  <1>3. Held = {} /\ Creating = {} /\ Waiting = {}
    BY <1>2 DEF Init, Held, Creating, Waiting, WorkerOff, NoRequest, Holding, Rendering, Ended
  <1>4. Places /\ Resting /\ Cleaning
    BY <1>2, <1>3 DEF Init, Places, Resting, NoRequest, Cleaning, Cleaner, NotSweeping
  <1>5. RowsOk /\ Cleared /\ Traced /\ Shown
    BY DEF Init, RowsOk, RowOk, NewRow, Cleared, Traced, Shown
  <1>6. Begun /\ Asked /\ Swept
    BY <1>3 DEF Init, Begun, Asked, Swept, Pending, Rendering, Published, Ended,
                WorkerOff, NoRequest, NotSweeping
  <1> QED BY <1>1, <1>4, <1>5, <1>6 DEF Inv

-----------------------------------------------------------------------------
(* The places of a job.                                                    *)

LEMMA Taken ==
  ASSUME NEW S, NEW s \in Seq(S), s # <<>>, Distinct(s)
  PROVE  /\ Tail(s) \in Seq(S) /\ Distinct(Tail(s)) /\ Head(s) \in S
         /\ Head(s) \in Elems(s) /\ Elems(Tail(s)) = Elems(s) \ {Head(s)}
  <1>1. /\ Tail(s) \in Seq(S) /\ Len(Tail(s)) = Len(s) - 1 /\ Len(s) \in Nat \ {0}
        /\ Head(s) = s[1] /\ s[1] \in S
        /\ \A i \in 1 .. Len(s) - 1 : Tail(s)[i] = s[i + 1]
    OBVIOUS
  <1>2. Distinct(Tail(s))
    BY <1>1 DEF Distinct
  <1>3. \A i \in 1 .. Len(s) : i = 1 \/ i - 1 \in 1 .. Len(s) - 1
    BY <1>1
  <1>4. Elems(Tail(s)) \subseteq Elems(s) \ {Head(s)}
    BY <1>1 DEF Distinct, Elems
  <1>5. Elems(s) \ {Head(s)} \subseteq Elems(Tail(s))
    <2> SUFFICES ASSUME NEW i \in 1 .. Len(s), s[i] # s[1]
                 PROVE  \E k \in 1 .. Len(Tail(s)) : Tail(s)[k] = s[i]
      BY <1>1 DEF Elems
    <2>1. i - 1 \in 1 .. Len(s) - 1 /\ Tail(s)[i - 1] = s[i]
      BY <1>1, <1>3
    <2> QED BY <1>1, <2>1
  <1>6. Head(s) \in Elems(s)
    BY <1>1 DEF Elems
  <1> QED BY <1>1, <1>2, <1>4, <1>5, <1>6

LEMMA Added ==
  ASSUME NEW S, NEW s \in Seq(S), NEW x \in S \ Elems(s), Distinct(s)
  PROVE  /\ Append(s, x) \in Seq(S) /\ Distinct(Append(s, x))
         /\ Elems(Append(s, x)) = Elems(s) \cup {x}
  <1>1. /\ Append(s, x) \in Seq(S) /\ Len(Append(s, x)) = Len(s) + 1 /\ Len(s) \in Nat
        /\ \A i \in 1 .. Len(s) : Append(s, x)[i] = s[i]
        /\ Append(s, x)[Len(s) + 1] = x
    OBVIOUS
  <1>2. \A i \in 1 .. Len(s) : s[i] # x
    BY DEF Elems
  <1>3. \A i \in 1 .. Len(s) + 1 : i \in 1 .. Len(s) \/ i = Len(s) + 1
    BY <1>1
  <1>4. Distinct(Append(s, x))
    BY <1>1, <1>2, <1>3 DEF Distinct
  <1>5. Elems(Append(s, x)) \subseteq Elems(s) \cup {x}
    BY <1>1, <1>3 DEF Elems
  <1>6. Elems(s) \subseteq Elems(Append(s, x)) /\ x \in Elems(Append(s, x))
    BY <1>1 DEF Elems
  <1> QED BY <1>1, <1>4, <1>5, <1>6

LEMMA Nothing == Elems(<<>>) = {} /\ Distinct(<<>>) /\ <<>> \in Seq(Job)
  BY DEF Elems, Distinct

LEMMA PendingJobs == Inv => Pending \subseteq Job
  BY DEF Inv, Places, Pending, Waiting, Elems

-----------------------------------------------------------------------------
(* Steps that change neither rows nor files.                               *)

LEMMA ControlKeeps ==
  ASSUME Inv, Types', Places', Cleaning', UNCHANGED <<row, file, leftover>>, torn \subseteq torn',
         Pending' \subseteq Pending,
         phase \notin {"down", "marked"}, phase' \notin {"down", "marked"},
         worker'.at \in Rendering =>
           row[worker'.job].status \in {"running", "cancelling"},
         worker.at \in Published \/ worker'.at \in Published =>
           worker'.job = worker.job /\ worker.at \in Published /\ worker'.at \in Published,
         \A c \in Cleaner : sweep'[c].at \in {"unlink", "erase"} => sweep'[c] = sweep[c],
         \A c \in Client :
           /\ client'[c].at \in {"unlink", "erase"} => client'[c] = client[c]
           /\ client[c].at = "erase" => client'[c] = client[c] \/ client[c].job \in torn'
  PROVE  Inv'
  <1> USE DEF Inv
  <1>1. Resting' /\ RowsOk' /\ Cleared'
    BY DEF Resting, RowsOk, RowOk, Cleared, Absent
  <1>2. Begun'
    BY DEF Begun
  <1>3. \A r : Removes(r) => Removes(r)'
    BY DEF Removes, Absent
  <1>4. Asked' /\ Swept'
    BY <1>3 DEF Asked, Swept
  <1>5. Traced'
    BY DEF Traced
  <1>6. Shown'
    BY DEF Shown
  <1> QED BY <1>1, <1>2, <1>4, <1>5, <1>6

\* The worker is not at rest in a process that has not started.
LEMMA WorkerRuns ==
  ASSUME Inv, worker.at # "off"
  PROVE  phase \notin {"down", "marked"}
  BY Records DEF Inv, Resting

\* A step of the worker that leaves the queue alone, and keeps its job or none.
LEMMA WorkerPlaces ==
  ASSUME Inv, UNCHANGED <<queue, loading, client>>, Held' \subseteq Held
  PROVE  Places' /\ Pending' \subseteq Pending
  BY DEF Inv, Places, Waiting, Creating, Pending

LEMMA WorkerControlKeeps ==
  ASSUME Inv, Fetch \/ Quit \/ Look \/ Activate \/ Render \/ Done
  PROVE  Inv'
  <1> USE DEF OfWorker, diskVars, startVars
  <1>1. worker.at # "off" /\ phase \notin {"down", "marked"} /\ UNCHANGED <<phase, client>>
    BY WorkerRuns DEF Fetch, Quit, Look, Activate, Render, Done, Alive
  <1>2. CASE Fetch
    <2>1. /\ queue \in Seq(Job) /\ queue # <<>> /\ Distinct(queue)
          /\ worker' = [at |-> "look", job |-> Head(queue), cancel |-> FALSE]
          /\ queue' = Tail(queue) /\ loading' = loading
      BY <1>2 DEF Fetch, Inv, Places
    <2>2. /\ queue' \in Seq(Job) /\ Distinct(queue') /\ Head(queue) \in Job
          /\ Head(queue) \in Elems(queue) /\ Elems(queue') = Elems(queue) \ {Head(queue)}
      BY <2>1, Taken
    <2>3. Held = {} /\ Held' = {Head(queue)}
      BY <1>2, <2>1 DEF Fetch, Held, Holding, Rendering, Ended
    <2>4. Creating' = Creating /\ Waiting' = Waiting \ {Head(queue)} /\ Head(queue) \in Waiting
      BY <1>1, <2>1, <2>2 DEF Creating, Waiting, Inv, Places
    <2>5. Places'
      BY <1>1, <2>1, <2>2, <2>3, <2>4 DEF Places, Inv
    <2>6. Pending' \subseteq Pending
      BY <2>3, <2>4 DEF Pending
    <2>7. Types'
      BY <1>2, <2>1, <2>2 DEF Fetch, Types, Inv, Holding, AJob
    <2> QED BY <1>1, <1>2, <2>1, <2>5, <2>6, <2>7, ControlKeeps
         DEF Fetch, Inv, Cleaning, Rendering, Published, Ended
  <1>3. CASE Quit \/ Look \/ Activate \/ Render
    <2>1. /\ UNCHANGED <<row, file, leftover, torn, queue, loading, sweep>>
          /\ worker' = [worker EXCEPT !.at = worker'.at]
          /\ worker'.at \in {"off", "idle", "drop", "activate", "begin", "interrupted",
                             "error", "publish"}
          /\ worker'.at \in Holding => worker.at \in Holding
          /\ worker'.at \in Rendering => worker.at \in Rendering
      BY <1>3, <1>1 DEF Quit, Look, Activate, Render, Goes, NextLoop, Holding, Rendering, Ended,
                   Inv, Types
    <2>2. worker.at \notin Published /\ worker'.at \notin Published
      BY <1>3, <2>1 DEF Quit, Look, Activate, Render, Published
    <2>3. Types' /\ worker'.job = worker.job
      BY <1>1, <2>1 DEF Types, Inv, Holding, Rendering, Ended
    <2>4. Held' \subseteq Held
      BY <2>1, <2>3 DEF Held
    <2>5. Places' /\ Pending' \subseteq Pending
      BY <1>1, <2>1, <2>4, WorkerPlaces
    <2>6. worker'.at \in Rendering => row[worker'.job].status \in {"running", "cancelling"}
      BY <2>1, <2>3 DEF Inv, Begun
    <2>7. Cleaning'
      BY <1>3, <2>1 DEF Quit, Look, Activate, Render, Inv, Cleaning
    <2> QED BY <1>1, <2>1, <2>2, <2>3, <2>5, <2>6, <2>7, ControlKeeps
  <1>4. CASE Done
    <2>1. /\ UNCHANGED <<row, file, leftover, torn, queue, loading>>
          /\ worker' = [at |-> "clean", job |-> NoJob, cancel |-> FALSE]
          /\ sweep' = [sweep EXCEPT !["worker"].at = "pick"]
          /\ worker.at \in {"done", "idle"}
      BY <1>4 DEF Done, WorkerOff
    <2>2. Types' /\ \A c \in Cleaner : sweep'[c].at \in {"unlink", "erase"} => sweep'[c] = sweep[c]
      BY <1>1, <2>1 DEF Types, Inv, AJob, Cleaner
    <2>3. Held' = {}
      BY <2>1 DEF Held, Holding, Rendering, Ended
    <2>4. Places' /\ Pending' \subseteq Pending
      BY <1>1, <2>1, <2>3, WorkerPlaces
    <2> QED BY <1>1, <2>1, <2>2, <2>4, ControlKeeps DEF Cleaning, Rendering, Published, Ended
  <1> QED BY <1>2, <1>3, <1>4

LEMMA OthersControlKeeps ==
  ASSUME Inv, \/ Loaded \/ Stop
              \/ \E c \in Cleaner : SweepFails(c) \/ EndSweep(c)
              \/ \E c \in Client : Signal(c)
  PROVE  Inv'
  <1> USE DEF diskVars, startVars
  <1>1. ASSUME NEW c \in Cleaner, SweepFails(c) \/ EndSweep(c)
        PROVE  Inv'
    <2>1. /\ UNCHANGED <<row, file, leftover, torn, queue, loading, client>>
          /\ sweep' = [sweep EXCEPT ![c] = NotSweeping]
          /\ sweep[c].at \in {"pick", "erase"}
      BY <1>1 DEF SweepFails, EndSweep, OfSweep
    <2>2. phase \notin {"down", "marked"}
      BY <2>1, Records DEF Inv, Resting
    <2>3. phase' \in {phase, "up", "stopping"}
      BY <1>1 DEF SweepFails, EndSweep
    <2>4. CASE c = "worker"
      <3>1. worker.at = "clean"
        BY <2>1, <2>4 DEF Inv, Cleaning
      <3>2. worker' \in [at : {"off", "idle", "dead"}, job : AJob, cancel : BOOLEAN]
        BY <1>1, <2>4 DEF SweepFails, EndSweep, NextLoop, WorkerOff, Inv, Types, AJob
      <3>3. worker'.at \notin Holding
        BY <3>2 DEF Holding, Rendering, Ended
      <3>4. Types'
        BY <2>1, <2>3, <3>2, Records DEF Inv, Types, Cleaner, NotSweeping, AJob
      <3>5. Places' /\ Pending' \subseteq Pending
        BY <2>1, <3>3, WorkerPlaces DEF Held
      <3>6. Cleaning' /\ \A d \in Cleaner : sweep'[d].at \in {"unlink", "erase"} => sweep'[d] = sweep[d]
        BY <2>1, <2>4, Records DEF Cleaning, Inv, Types
      <3> QED BY <2>1, <2>2, <2>3, <3>1, <3>3, <3>4, <3>5, <3>6, ControlKeeps
           DEF Holding, Rendering, Published, Ended
    <2>5. CASE c # "worker"
      <3>1. worker' = worker
        BY <1>1, <2>5 DEF SweepFails, EndSweep
      <3>2. Types'
        BY <2>1, <2>3, <3>1 DEF Inv, Types, Cleaner, NotSweeping, AJob
      <3>3. Places' /\ Pending' \subseteq Pending
        BY <2>1, <3>1, WorkerPlaces DEF Held
      <3>4. Cleaning' /\ \A d \in Cleaner : sweep'[d].at \in {"unlink", "erase"} => sweep'[d] = sweep[d]
        BY <2>1, <2>5, <3>1, Records DEF Inv, Cleaning, Types, Cleaner
      <3> QED BY <2>1, <2>2, <2>3, <3>1, <3>2, <3>3, <3>4, ControlKeeps DEF Inv, Begun
    <2> QED BY <2>4, <2>5
  <1>2. ASSUME NEW c \in Client, Signal(c)
        PROVE  Inv'
    <2>1. /\ UNCHANGED <<row, file, leftover, torn, queue, loading, sweep, phase>>
          /\ client' = [client EXCEPT ![c] = NoRequest]
          /\ client[c].at = "signal"
      BY <1>2 DEF Signal, OfClient
    <2>2. phase \notin {"down", "marked"}
      BY <2>1, Records DEF Inv, Resting
    <2>3. /\ worker'.at = worker.at /\ worker'.job = worker.job /\ worker'.cancel \in BOOLEAN
          /\ DOMAIN worker' = DOMAIN worker
      BY <1>2 DEF Signal, Inv, Types
    <2>4. Types'
      <3>1. worker' = [at |-> worker'.at, job |-> worker'.job, cancel |-> worker'.cancel]
        BY <1>2, <2>3 DEF Signal, Inv, Types
      <3> QED BY <2>1, <2>3, <3>1 DEF Inv, Types, Request
    <2>5. Held' = Held /\ Waiting' = Waiting /\ Creating' = Creating
      BY <2>1, <2>3, Records DEF Held, Waiting, Creating, Inv, Types
    <2>6. Places' /\ Pending' \subseteq Pending
      BY <2>1, <2>5, Records DEF Places, Pending, Inv, Types
    <2> QED BY <2>1, <2>2, <2>3, <2>4, <2>6, Records, ControlKeeps DEF Inv, Begun, Types, Cleaning
  <1>3. CASE Loaded
    <2>1. /\ UNCHANGED <<row, file, leftover, torn, queue, loading, client, worker>>
          /\ sweep' = [sweep EXCEPT !["start"].at = "pick"]
          /\ phase = "load" /\ phase' = "sweep"
      BY <1>3 DEF Loaded
    <2>2. /\ Types' /\ Cleaning'
          /\ \A c \in Cleaner : sweep'[c].at \in {"unlink", "erase"} => sweep'[c] = sweep[c]
      BY <2>1 DEF Types, Inv, Cleaner, Cleaning
    <2>3. Places' /\ Pending' \subseteq Pending
      BY <2>1, WorkerPlaces DEF Held
    <2> QED BY <2>1, <2>2, <2>3, ControlKeeps DEF Inv, Begun
  <1>4. CASE Stop
    <2>1. /\ UNCHANGED <<row, file, leftover, torn, queue, loading, client, sweep>>
          /\ worker' \in {worker, [worker EXCEPT !.cancel = TRUE]}
          /\ phase = "up" /\ phase' = "stopping"
      BY <1>4 DEF Stop, Inv, Types
    <2>2. worker'.at = worker.at /\ worker'.job = worker.job
      BY <2>1 DEF Inv, Types
    <2>3. Types' /\ Cleaning'
      BY <2>1, <2>2 DEF Types, Inv, Cleaning
    <2>4. Places' /\ Pending' \subseteq Pending
      BY <2>1, <2>2, WorkerPlaces DEF Held
    <2> QED BY <2>1, <2>2, <2>3, <2>4, ControlKeeps DEF Inv, Begun
  <1> QED BY <1>1, <1>2, <1>3, <1>4

-----------------------------------------------------------------------------
(* Steps that update the row of a job that has yet to be worked.           *)

LEMMA UpdateKeeps ==
  ASSUME Inv, NEW j \in Pending, Types', Places', Cleaning',
         UNCHANGED <<file, leftover, torn, sweep>>, Pending' \subseteq Pending,
         phase \notin {"down", "marked"}, phase' \notin {"down", "marked"},
         \A i \in Job \ {j} : row'[i] = row[i],
         row'[j].interrupted = row[j].interrupted,
         row'[j].status \in {"running", "cancelled", "failed", "completed"},
         row'[j].output <=> row'[j].status = "completed",
         row'[j].output => j \in file,
         row'[j].status = "running" \/ j \notin Pending',
         worker'.at \in Rendering =>
           row'[worker'.job].status \in {"running", "cancelling"},
         worker'.at \in Published => worker' = worker,
         worker.at \in Published => worker' = worker \/ (worker.job = j /\ row'[j].output),
         \A c \in Client :
           client'[c].at \in {"unlink", "erase"} \/ client[c].at = "erase" =>
             client'[c] = client[c]
  PROVE  Inv'
  <1> USE DEF Inv
  <1>1. j \in Job /\ ~row[j].interrupted /\ row[j].status \in Active
    BY PendingJobs DEF Begun, RowsOk, RowOk, Active
  <1>2. Resting' /\ RowsOk' /\ Cleared'
    BY <1>1 DEF Resting, RowsOk, RowOk, Cleared, Absent
  <1>3. Begun'
    BY <1>1, PendingJobs DEF Begun, Active
  <1>4. \A r : Removes(r) => r.job # j /\ Removes(r)'
    BY <1>1 DEF Removes, Absent
  <1>5. Asked' /\ Swept'
    BY <1>4 DEF Asked, Swept, Removes
  <1>6. Traced'
    <2> SUFFICES ASSUME NEW i \in file
                 PROVE  \/ row'[i].output \/ i \in leftover
                        \/ worker'.job = i /\ worker'.at \in Published
      BY DEF Traced
    <2>1. i \in Job /\ (row[i].output \/ i \in leftover
                        \/ (worker.job = i /\ worker.at \in Published))
      BY DEF Traced, Types
    <2>2. row[i].output => i # j
      BY <1>1 DEF Begun
    <2> QED BY <2>1, <2>2
  <1>7. Shown'
    BY <1>1 DEF Shown
  <1> QED BY <1>2, <1>3, <1>5, <1>6, <1>7

LEMMA RowUpdated ==
  ASSUME NEW old \in [Job -> Row], NEW new, NEW j \in Job, NEW r \in Row,
         new = [old EXCEPT ![j] = r]
  PROVE  new \in [Job -> Row] /\ new[j] = r /\ \A i \in Job \ {j} : new[i] = old[i]
  OBVIOUS

LEMMA StatusUpdated ==
  ASSUME NEW r \in Row, NEW status \in Statuses
  PROVE  LET q == [r EXCEPT !.status = status] IN
           /\ q \in Row /\ q.status = status /\ q.output = r.output
           /\ q.interrupted = r.interrupted /\ q.protected = r.protected
           /\ q.cancel = r.cancel
  BY DEF Row

\* What holding a job means for its row and its place.
LEMMA HeldIsPending ==
  ASSUME Inv, worker.at \in Holding
  PROVE  /\ worker.job \in Pending /\ worker.job \in Job /\ Exists(worker.job)
         /\ phase \notin {"down", "marked"} /\ Held = {worker.job}
         /\ worker.job \notin Waiting \cup Creating
  <1>1. Held = {worker.job}
    BY DEF Held
  <1>2. worker.job \in Pending /\ worker.job \notin Waiting \cup Creating
    BY <1>1 DEF Inv, Places, Pending
  <1>3. worker.at # "off"
    BY DEF Holding, Rendering, Ended
  <1>4. Exists(worker.job)
    BY <1>2 DEF Inv, Begun, Exists, Active
  <1> QED BY <1>1, <1>2, <1>3, <1>4, WorkerRuns, PendingJobs

LEMMA WorkerUpdates ==
  ASSUME Inv, worker.at \in Holding, NEW r \in Row, NEW at \in {"off", "idle", "render", "done"},
         worker' = [worker EXCEPT !.at = at], row' = [row EXCEPT ![worker.job] = r],
         UNCHANGED <<file, leftover, torn, queue, loading, sweep, client, phase>>,
         r.interrupted = row[worker.job].interrupted,
         r.status \in {"running", "cancelled", "failed", "completed"},
         r.output <=> r.status = "completed",
         r.status = "completed" <=> worker.at \in Published,
         r.status = "running" <=> at = "render"
  PROVE  Inv'
  <1>1. /\ worker.job \in Pending /\ worker.job \in Job
        /\ phase \notin {"down", "marked"} /\ Held = {worker.job}
        /\ worker.job \notin Waiting \cup Creating
    BY HeldIsPending
  <1>2. /\ row' \in [Job -> Row] /\ row'[worker.job] = r
        /\ \A i \in Job \ {worker.job} : row'[i] = row[i]
    BY <1>1, RowUpdated DEF Inv, Types
  <1>3. worker'.at = at /\ worker'.job = worker.job
    BY DEF Inv, Types
  <1>4. Types' /\ Cleaning'
    BY <1>2, <1>3 DEF Inv, Types, Cleaning, Holding, Rendering, Ended
  <1>5. Held' \subseteq Held /\ (at # "render" => Held' = {})
    BY <1>3 DEF Held, Holding, Rendering, Ended
  <1>6. Places' /\ Pending' \subseteq Pending
    BY <1>5, WorkerPlaces
  <1>7. r.status = "running" \/ worker.job \notin Pending'
    BY <1>1, <1>5 DEF Pending, Waiting, Creating
  <1>8. r.output => worker.job \in file
    BY DEF Inv, Begun
  <1>9. /\ worker'.at \notin Published
        /\ worker'.at \in Rendering => row'[worker'.job].status \in {"running", "cancelling"}
    BY <1>2, <1>3 DEF Rendering, Ended, Published
  <1> QED BY <1>1, <1>2, <1>4, <1>6, <1>7, <1>8, <1>9, UpdateKeeps

LEMMA WorkerUpdateKeeps ==
  ASSUME Inv, Drop \/ Begin \/ Record \/ EndInterrupted \/ EndError
  PROVE  Inv'
  <1> USE DEF OfWorker, startVars, Status, Goes, Published, Holding, Rendering, Ended
  <1>1. worker.at \in Holding
    BY DEF Drop, Begin, Record, EndInterrupted, EndError
  <1>2. /\ Exists(worker.job) /\ row[worker.job] \in Row /\ ~row[worker.job].output
        /\ row \in [Job -> Row] /\ worker.job \in Job
    BY <1>1, HeldIsPending DEF Inv, Types, Begun
  <1>3. /\ UNCHANGED <<file, leftover, torn, queue, loading, sweep, client, phase>>
    BY DEF Drop, Begin, Record, EndInterrupted, EndError
  <1>4. ASSUME NEW status \in {"running", "cancelled", "failed"}, Status(worker.job, status),
               NEW at \in {"off", "idle", "render", "done"}, Goes(at),
               worker.at \notin Published, status = "running" <=> at = "render"
        PROVE  Inv'
    <2> DEFINE r == [row[worker.job] EXCEPT !.status = status]
    <2>1. row' = [row EXCEPT ![worker.job] = r]
      BY <1>2, <1>4 DEF Row
    <2>2. r \in Row /\ r.status = status /\ ~r.output /\ r.interrupted = row[worker.job].interrupted
      BY <1>2, StatusUpdated DEF Statuses, Active, Terminal
    <2> HIDE DEF r
    <2> QED BY <1>1, <1>3, <1>4, <2>1, <2>2, WorkerUpdates
  <1>5. CASE Drop
    <2>1. NextLoop \in {"off", "idle"}
      BY DEF NextLoop
    <2> QED BY <1>4, <1>5, <2>1 DEF Drop
  <1>6. CASE Begin
    BY <1>4, <1>6 DEF Begin
  <1>7. CASE EndInterrupted \/ EndError
    BY <1>4, <1>7 DEF EndInterrupted, EndError
  <1>8. CASE Record
    <2> DEFINE r == [row[worker.job] EXCEPT !.status = "completed", !.output = TRUE]
    <2>1. row' = [row EXCEPT ![worker.job] = r]
      BY <1>2, <1>8 DEF Record, Row
    <2>2. /\ r \in Row /\ r.status = "completed" /\ r.output
          /\ r.interrupted = row[worker.job].interrupted
      BY <1>2 DEF Row, Statuses, Terminal
    <2> HIDE DEF r
    <2>3. worker' = [worker EXCEPT !.at = "done"] /\ worker.at \in Published
      BY <1>8 DEF Record
    <2> QED BY <1>1, <1>3, <2>1, <2>2, <2>3, WorkerUpdates
  <1> QED BY <1>5, <1>6, <1>7, <1>8

\* A full queue fails the job it has no room for.
LEMMA Rejected ==
  ASSUME Inv, NEW j \in Pending, Status(j, "failed"), row' \in [Job -> Row] => Types',
         Places', j \notin Pending', Pending' \subseteq Pending, ~(worker.at \in Holding /\ worker.job = j),
         phase \notin {"down", "marked"}, phase' \notin {"down", "marked"},
         UNCHANGED <<file, leftover, torn, sweep, worker>>,
         \A c \in Client :
           client'[c].at \in {"unlink", "erase"} \/ client[c].at = "erase" =>
             client'[c] = client[c]
  PROVE  Inv'
  <1> DEFINE r == [row[j] EXCEPT !.status = "failed"]
  <1>1. j \in Job /\ Exists(j) /\ row \in [Job -> Row] /\ row[j] \in Row /\ ~row[j].output
    BY PendingJobs DEF Inv, Begun, Active, Exists, Types
  <1>2. row' = [row EXCEPT ![j] = r]
    BY <1>1 DEF Status, Row
  <1>3. r \in Row /\ r.status = "failed" /\ ~r.output /\ r.interrupted = row[j].interrupted
    BY <1>1, StatusUpdated DEF Statuses, Terminal
  <1> HIDE DEF r
  <1>4. row' \in [Job -> Row] /\ row'[j] = r /\ \A i \in Job \ {j} : row'[i] = row[i]
    BY <1>1, <1>2, <1>3, RowUpdated
  <1>5. worker.at \in Rendering =>
          worker.job # j /\ row'[worker.job].status \in {"running", "cancelling"}
    BY <1>4, HeldIsPending DEF Holding, Inv, Begun
  <1>6. Cleaning'
    BY DEF Inv, Cleaning
  <1> QED BY <1>3, <1>4, <1>5, <1>6, UpdateKeeps

LEMMA EnqueueKeeps ==
  ASSUME Inv, Load \/ \E c \in Client : EnqueueCreated(c)
  PROVE  Inv'
  <1> USE DEF diskVars, startVars
  <1>1. /\ queue \in Seq(Job) /\ Distinct(queue) /\ loading \in Seq(Job) /\ Distinct(loading)
        /\ Held \cap (Waiting \cup Creating) = {} /\ Creating \cap Waiting = {}
        /\ Elems(queue) \cap Elems(loading) = {}
        /\ Held \subseteq Job /\ Creating \subseteq Job
    BY DEF Inv, Places
  <1>2. CASE Load
    <2> DEFINE j == Head(loading)
    <2>1. /\ loading' = Tail(loading) /\ loading' \in Seq(Job) /\ Distinct(loading')
          /\ j \in Job /\ j \in Elems(loading) /\ Elems(loading') = Elems(loading) \ {j}
      BY <1>1, <1>2, Taken DEF Load
    <2>2. /\ UNCHANGED <<file, leftover, torn, worker, sweep, client>> /\ Enqueue(j)
          /\ phase = "load" /\ phase' \in {"load", "stopping"}
      BY <1>2 DEF Load
    <2> HIDE DEF j
    <2>3. Held' = Held /\ Creating' = Creating /\ j \in Pending /\ j \notin Held \cup Creating
      BY <1>1, <2>1, <2>2 DEF Held, Creating, Pending, Waiting
    <2>4. \A c, d \in Client : client'[c].at = "enqueue" /\ client'[d].at = "enqueue"
                               /\ client'[c].job = client'[d].job => c = d
      BY <2>2 DEF Inv, Places
    <2>5. CASE Len(queue) < QueueLimit
      <3>1. UNCHANGED row /\ queue' = Append(queue, j)
        BY <2>2, <2>5 DEF Enqueue
      <3>2. queue' \in Seq(Job) /\ Distinct(queue') /\ Elems(queue') = Elems(queue) \cup {j}
        BY <1>1, <2>1, <3>1, Added
      <3>3. Waiting' = Waiting
        BY <2>1, <3>2 DEF Waiting
      <3>4. Places' /\ Pending' \subseteq Pending
        BY <1>1, <2>1, <2>3, <2>4, <3>2, <3>3 DEF Places, Pending
      <3>5. Types' /\ Cleaning'
        BY <2>2, <3>1 DEF Inv, Types, Cleaning
      <3> QED BY <2>2, <3>1, <3>4, <3>5, ControlKeeps DEF Inv, Begun
    <2>6. CASE ~(Len(queue) < QueueLimit)
      <3>1. Status(j, "failed") /\ queue' = queue
        BY <2>2, <2>6 DEF Enqueue
      <3>2. Waiting' = Waiting \ {j}
        BY <1>1, <2>1, <3>1 DEF Waiting
      <3>3. Places' /\ Pending' \subseteq Pending /\ j \notin Pending'
        BY <1>1, <2>1, <2>3, <2>4, <3>1, <3>2 DEF Places, Pending
      <3>4. row' \in [Job -> Row] => Types'
        BY <2>2 DEF Inv, Types
      <3>5. ~(worker.at \in Holding /\ worker.job = j)
        BY <2>3 DEF Held
      <3> QED BY <2>2, <2>3, <3>1, <3>3, <3>4, <3>5, Rejected
    <2> QED BY <2>5, <2>6
  <1>3. ASSUME NEW c \in Client, EnqueueCreated(c)
        PROVE  Inv'
    <2> DEFINE j == client[c].job
    <2>1. /\ UNCHANGED <<file, leftover, torn, worker, sweep, phase, loading>> /\ Enqueue(j)
          /\ client[c].at = "enqueue" /\ client' = [client EXCEPT ![c] = NoRequest]
      BY <1>3 DEF EnqueueCreated, OfClient
    <2>2. phase \notin {"down", "marked"}
      BY <2>1, Records DEF Inv, Resting
    <2>3. /\ client'[c] = NoRequest /\ \A d \in Client \ {c} : client'[d] = client[d]
          /\ client' \in [Client -> Request]
      BY <2>1 DEF Inv, Types, Request
    <2>4. /\ j \in Creating /\ Creating' = Creating \ {j}
          /\ \A e, d \in Client : client'[e].at = "enqueue" /\ client'[d].at = "enqueue"
                                  /\ client'[e].job = client'[d].job => e = d
      BY <2>1, <2>3, Records DEF Inv, Places, Creating
    <2>5. \A d \in Client : client'[d].at \in {"unlink", "erase"} \/ client[d].at = "erase" =>
                              client'[d] = client[d]
      BY <2>1, <2>3, Records
    <2> HIDE DEF j
    <2>6. Held' = Held /\ j \in Pending /\ j \notin Held \cup Waiting /\ j \in Job
      BY <1>1, <2>1, <2>4 DEF Held, Pending
    <2>7. CASE Len(queue) < QueueLimit
      <3>1. UNCHANGED row /\ queue' = Append(queue, j)
        BY <2>1, <2>7 DEF Enqueue
      <3>2. queue' \in Seq(Job) /\ Distinct(queue') /\ Elems(queue') = Elems(queue) \cup {j}
        BY <1>1, <2>6, <3>1, Added DEF Waiting
      <3>3. Waiting' = Waiting \cup {j} /\ j \notin Elems(loading)
        BY <2>1, <2>6, <3>2 DEF Waiting
      <3>4. Places' /\ Pending' \subseteq Pending
        BY <1>1, <2>1, <2>4, <2>6, <3>2, <3>3 DEF Places, Pending
      <3>5. Types' /\ Cleaning'
        BY <2>1, <2>3, <3>1 DEF Inv, Types, Cleaning
      <3> QED BY <2>1, <2>2, <2>5, <3>1, <3>4, <3>5, ControlKeeps DEF Inv, Begun
    <2>8. CASE ~(Len(queue) < QueueLimit)
      <3>1. Status(j, "failed") /\ queue' = queue
        BY <2>1, <2>8 DEF Enqueue
      <3>2. Waiting' = Waiting
        BY <2>1, <3>1 DEF Waiting
      <3>3. Places' /\ Pending' \subseteq Pending /\ j \notin Pending'
        BY <1>1, <2>1, <2>4, <2>6, <3>1, <3>2 DEF Places, Pending
      <3>4. row' \in [Job -> Row] => Types'
        BY <2>1, <2>3 DEF Inv, Types
      <3>5. ~(worker.at \in Holding /\ worker.job = j)
        BY <2>6 DEF Held
      <3> QED BY <2>1, <2>2, <2>5, <2>6, <3>1, <3>3, <3>4, <3>5, Rejected
    <2> QED BY <2>7, <2>8
  <1> QED BY <1>2, <1>3

-----------------------------------------------------------------------------
(* The file of the job that is being published.                            *)

LEMMA PublishingKeeps ==
  ASSUME Inv, Publish \/ Manifest
  PROVE  Inv'
  <1> DEFINE j == worker.job
  <1> USE DEF Published
  <1>1. /\ UNCHANGED <<row, torn, queue, loading, sweep, client, phase>>
        /\ worker' = [worker EXCEPT !.at = worker'.at]
        /\ worker'.at \in {"manifest", "record", "interrupted", "error"}
        /\ worker.at \in {"publish", "manifest"}
        /\ file \ {j} = file' \ {j} /\ leftover \subseteq leftover'
        /\ leftover' \subseteq leftover \cup {j}
    BY DEF Publish, Manifest, Unlink, OfWorker, startVars, Goes, Inv, Types
  <1>2. /\ worker.at \in Holding /\ worker.at \in Rendering /\ worker'.at \in Holding
        /\ worker'.at \in Rendering
    BY <1>1 DEF Holding, Rendering, Ended
  <1>3. /\ j \in Pending /\ j \in Job /\ phase \notin {"down", "marked"} /\ Held = {j}
    BY <1>2, HeldIsPending
  <1>4. ~row[j].output /\ ~row[j].interrupted
    BY <1>3 DEF Inv, Begun, RowsOk, RowOk, Active
  <1>5. worker.at = "publish" /\ j \in file => j \in leftover
    BY <1>1, <1>3, <1>4 DEF Inv, Traced
  <1>6. worker'.at \in Published => j \in file'
    BY <1>1, <1>3 DEF Publish, Manifest, Goes, Inv, Begun, Types
  <1>7. j \in file' => worker'.at \in Published \/ j \in leftover'
    BY <1>1, <1>3, <1>5 DEF Publish, Manifest, Unlink, Goes, Inv, Types
  <1> HIDE DEF j
  <1>8. worker'.job = worker.job /\ file' \subseteq Job /\ leftover' \subseteq Job
    BY <1>1, <1>3 DEF Inv, Types
  <1>9. Types' /\ Cleaning'
    BY <1>1, <1>2, <1>8 DEF Inv, Types, Cleaning
  <1>10. Held' = Held
    BY <1>2, <1>8 DEF Held
  <1>11. Places' /\ Pending' = Pending
    BY <1>1, <1>10, WorkerPlaces DEF Pending, Waiting, Creating
  <1>12. \A i \in Job \ {j} : Absent(i) => Absent(i)'
    BY <1>1 DEF Absent
  <1>13. Resting' /\ RowsOk'
    BY <1>1, <1>3 DEF Inv, Resting, RowsOk
  <1>14. Begun'
    BY <1>1, <1>2, <1>6, <1>8, <1>11 DEF Inv, Begun, j
  <1>15. \A r : Removes(r) => Removes(r)'
    BY <1>1, <1>3, <1>11, <1>12 DEF Removes
  <1>16. Asked' /\ Swept'
    BY <1>1, <1>15 DEF Inv, Asked, Swept
  <1>17. Cleared'
    BY <1>1, <1>4, <1>12 DEF Inv, Cleared
  <1>18. Traced'
    BY <1>1, <1>3, <1>7, <1>8 DEF Inv, Traced, j
  <1>19. Shown'
    <2>1. row[j].status # "completed"
      BY <1>3 DEF Inv, Begun, Active
    <2> QED BY <1>1, <2>1 DEF Inv, Shown
  <1> QED BY <1>9, <1>11, <1>13, <1>14, <1>16, <1>17, <1>18, <1>19 DEF Inv

-----------------------------------------------------------------------------
(* Requests and cleanups, at one job.                                      *)

LEMMA AtOneJob ==
  ASSUME Inv, NEW j \in Job, UNCHANGED <<worker, phase, queue, loading>>,
         phase \notin {"down", "marked"}, Types', Places', Cleaning', Pending' = Pending,
         \A i \in Job \ {j} : row'[i] = row[i], RowOk(row'[j]),
         file' \subseteq file, file \ {j} \subseteq file',
         leftover \subseteq leftover', torn \subseteq torn',
         j \in Pending =>
           file' = file /\ row'[j].status \in Active /\ ~row'[j].output
           /\ (row'[j].status = row[j].status \/ row'[j].status = "cancelling"),
         j \in file' /\ row[j].output => row'[j].output \/ j \in leftover',
         row'[j].interrupted => row[j].interrupted,
         row[j].status # "none" => row'[j].status # "none",
         row[j].status \in {"deleting", "cancelling", "gone"} =>
           row'[j].status \in {"deleting", "cancelling", "gone"},
         row'[j].status = "completed" =>
           /\ row[j].status = "completed"
           /\ j \in file \ file' => \E c \in Client : client'[c].job = j /\ client'[c].at = "erase",
         \A c \in Client :
           /\ client'[c].at \in {"unlink", "erase"} =>
                client'[c] = client[c] \/ Removes(client[c])'
           /\ client[c].at = "erase" =>
                \/ client'[c] = client[c] \/ client[c].job \in torn'
                \/ row'[client[c].job].status = "gone",
         \A c \in Cleaner : sweep'[c].at \in {"unlink", "erase"} =>
           \/ sweep'[c] = sweep[c]
           \/ /\ Removes(sweep[c])'
              /\ row'[sweep'[c].job].status \in {"deleting", "cancelling", "gone"}
  PROVE  Inv'
  <1> USE DEF Inv
  <1>1. \A i \in Job : Absent(i) => Absent(i)'
    BY DEF Absent
  <1>2. Resting' /\ RowsOk'
    BY DEF Resting, RowsOk
  <1>3. Begun'
    <2>1. worker.at \in Rendering => worker.job \in Pending /\ worker.job \in Job
      BY HeldIsPending DEF Holding
    <2> QED BY <2>1, PendingJobs DEF Begun, Published, Rendering
  <1>4. \A r : Removes(r) => Removes(r)'
    BY <1>1 DEF Removes
  <1>5. Asked'
    BY <1>4 DEF Asked
  <1>6. Swept'
    BY <1>4 DEF Swept, Removes
  <1>7. Cleared'
    BY <1>1 DEF Cleared
  <1>8. Traced'
    BY DEF Traced, Types
  <1>9. Shown'
    BY DEF Shown
  <1> QED BY <1>2, <1>3, <1>5, <1>6, <1>7, <1>8, <1>9

\* A step of a request: it does not move a job.
LEMMA RequestPlaces ==
  ASSUME Inv, NEW c \in Client, UNCHANGED <<worker, queue, loading>>, client' \in [Client -> Request],
         client[c].at # "enqueue", client'[c].at # "enqueue",
         \A d \in Client \ {c} : client'[d] = client[d]
  PROVE  Places' /\ Pending' = Pending
  <1>1. Held' = Held /\ Waiting' = Waiting
    BY DEF Held, Waiting
  <1>2. Creating' = Creating
    BY DEF Creating
  <1> QED BY <1>1, <1>2 DEF Inv, Places, Pending

\* A job whose row may be deleted or claimed has no hidden file.
LEMMA NoHiddenFile ==
  ASSUME Inv, NEW j \in Job, j \notin Pending, phase \notin {"down", "marked"}, ~row[j].output
  PROVE  Absent(j)
  <1>1. ~(worker.job = j /\ worker.at \in Published)
    BY HeldIsPending DEF Published, Holding, Rendering
  <1> QED BY <1>1 DEF Inv, Traced, Absent

LEMMA ErasedRow ==
  LET r == [NewRow EXCEPT !.status = "gone"] IN
    r \in Row /\ RowOk(r) /\ r.status = "gone" /\ ~r.output /\ ~r.interrupted
  BY DEF Row, Statuses, NewRow, RowOk

LEMMA CleanupKeeps ==
  ASSUME Inv, NEW c \in Cleaner, Claim(c) \/ SweepFile(c) \/ SweepRow(c)
  PROVE  Inv'
  <1> USE DEF OfSweep, startVars
  <1>1. /\ UNCHANGED <<worker, phase, queue, loading, client, torn>>
        /\ sweep[c].at \in {"pick", "unlink", "erase"}
        /\ \A d \in Cleaner \ {c} : sweep'[d] = sweep[d]
    BY DEF Claim, SweepFile, SweepRow, Inv, Types
  <1>2. phase \notin {"down", "marked"}
    BY <1>1, Records DEF Inv, Resting
  <1>3. Places' /\ Pending' = Pending
    BY <1>1, WorkerPlaces DEF Held, Pending, Waiting, Creating
  <1>4. sweep["worker"].at # "off" => worker.at = "clean"
    BY DEF Inv, Cleaning
  <1>5. Cleaning'
    <2>1. c = "worker" => worker.at = "clean"
      BY <1>1, <1>4
    <2> QED BY <1>1, <1>4, <2>1 DEF Cleaning, Cleaner
  <1>6. row \in [Job -> Row]
    BY DEF Inv, Types
  <1>7. CASE Claim(c)
    <2>1. PICK j \in Job :
            /\ Due(j) /\ Status(j, "deleting")
            /\ sweep' = [sweep EXCEPT ![c] = [at |-> "unlink", job |-> j, output |-> row[j].output]]
      BY <1>7 DEF Claim
    <2> DEFINE r == [row[j] EXCEPT !.status = "deleting"]
    <2>2. Exists(j) /\ row[j] \in Row /\ row[j].status \in Terminal /\ ~row[j].protected
          /\ j \notin Pending
      BY <1>6, <2>1 DEF Due, Terminal, Exists, Inv, Begun, Active
    <2>3. row' = [row EXCEPT ![j] = r]
      BY <1>6, <2>1, <2>2 DEF Status, Row
    <2>4. /\ r \in Row /\ r.status = "deleting" /\ ~r.protected /\ r.output = row[j].output
          /\ r.interrupted = row[j].interrupted
      BY <2>2, StatusUpdated DEF Statuses
    <2> HIDE DEF r
    <2>5. row' \in [Job -> Row] /\ row'[j] = r /\ \A i \in Job \ {j} : row'[i] = row[i]
      BY <1>6, <2>3, <2>4, RowUpdated
    <2>6. file' = file /\ leftover' = leftover /\ RowOk(row'[j])
      BY <1>7, <2>4, <2>5 DEF Claim, RowOk
    <2>7. sweep'[c] = [at |-> "unlink", job |-> j, output |-> row[j].output]
      BY <2>1 DEF Inv, Types
    <2>8. row[j].output \in BOOLEAN
      BY <2>2 DEF Row
    <2>9. Types'
      BY <1>1, <2>1, <2>5, <2>6, <2>8 DEF Inv, Types, AJob
    <2>10. Removes(sweep[c])'
      <3>1. ~row[j].output => Absent(j)
        BY <1>2, <2>2, NoHiddenFile
      <3> QED BY <1>3, <2>2, <2>4, <2>5, <2>6, <2>7, <3>1 DEF Removes, Absent
    <2> QED BY <1>1, <1>2, <1>3, <1>5, <2>2, <2>4, <2>5, <2>6, <2>7, <2>9, <2>10, AtOneJob
  <1>8. CASE SweepFile(c) \/ SweepRow(c)
    <2> DEFINE j == sweep[c].job
    <2>1. /\ Removes(sweep[c]) /\ j \in Job \ Pending
          /\ row[j].status \in {"deleting", "cancelling", "gone"}
      BY <1>8 DEF SweepFile, SweepRow, Inv, Swept, Removes
    <2>2. CASE SweepFile(c)
      <3>1. /\ sweep' = [sweep EXCEPT ![c].at = "erase"] /\ row' = row
            /\ file' \subseteq file /\ file \ {j} \subseteq file'
            /\ leftover \subseteq leftover' /\ leftover' \subseteq leftover \cup {j}
        BY <2>2 DEF SweepFile, Unlink
      <3>2. j \in file' => j \in leftover'
        BY <2>1, <2>2 DEF SweepFile, Unlink, Removes, Absent
      <3>3. sweep'[c].job = j /\ sweep'[c].at = "erase"
        BY <3>1 DEF Inv, Types
      <3>4. Types'
        BY <1>1, <2>1, <3>1 DEF Inv, Types
      <3> HIDE DEF j
      <3>5. Removes(sweep[c])'
        BY <1>3, <2>1, <3>1, <3>2, <3>3 DEF Removes, Absent
      <3>6. RowOk(row'[j])
        BY <2>1, <3>1 DEF Inv, RowsOk
      <3> QED BY <1>1, <1>2, <1>3, <1>5, <2>1, <3>1, <3>2, <3>3, <3>4, <3>5, <3>6, AtOneJob
    <2>3. CASE SweepRow(c)
      <3>1. /\ sweep' = [sweep EXCEPT ![c] = [NotSweeping EXCEPT !.at = "pick"]]
            /\ row' = [row EXCEPT ![j] = [NewRow EXCEPT !.status = "gone"]]
            /\ file' = file /\ leftover' = leftover /\ Absent(j)
        BY <2>1, <2>3 DEF SweepRow, Erase, Removes
      <3> HIDE DEF j
      <3>2. /\ row' \in [Job -> Row] /\ row'[j] = [NewRow EXCEPT !.status = "gone"]
            /\ \A i \in Job \ {j} : row'[i] = row[i]
        BY <1>6, <2>1, <3>1, ErasedRow, RowUpdated
      <3>3. sweep'[c].at = "pick" /\ Types'
        BY <1>1, <3>1, <3>2 DEF Inv, Types, NotSweeping, AJob
      <3> QED BY <1>1, <1>2, <1>3, <1>5, <2>1, <3>1, <3>2, <3>3, ErasedRow, AtOneJob DEF Absent
    <2> QED BY <1>8, <2>2, <2>3
  <1> QED BY <1>7, <1>8

LEMMA AnsweredPhase ==
  ASSUME Inv, NEW c \in Client, client[c] # NoRequest
  PROVE  phase \notin {"down", "marked"}
  BY DEF Inv, Resting

LEMMA CreateKeeps ==
  ASSUME Inv, NEW c \in Client, Create(c)
  PROVE  Inv'
  <1> USE DEF OfClient, startVars
  <1>1. PICK j \in Job :
          /\ row[j].status = "none" /\ row' = [row EXCEPT ![j] = NewRow]
          /\ client' = [client EXCEPT ![c] = [NoRequest EXCEPT !.at = "enqueue", !.job = j]]
    BY DEF Create
  <1>2. /\ UNCHANGED <<worker, phase, queue, loading, file, leftover, torn, sweep>>
        /\ phase = "up" /\ client[c].at = "idle" /\ row \in [Job -> Row]
        /\ client \in [Client -> Request]
    BY DEF Create, Requests, Inv, Types
  <1>3. NewRow \in Row /\ NewRow.status = "queued" /\ RowOk(NewRow) /\ ~NewRow.output
        /\ ~NewRow.interrupted
    BY DEF NewRow, Row, Statuses, Active, RowOk
  <1>4. row' \in [Job -> Row] /\ row'[j] = NewRow /\ \A i \in Job \ {j} : row'[i] = row[i]
    BY <1>1, <1>2, <1>3, RowUpdated
  <1>5. LET q == [NoRequest EXCEPT !.at = "enqueue", !.job = j] IN
          q \in Request /\ q.at = "enqueue" /\ q.job = j
    BY DEF NoRequest, Request
  <1>6. /\ client' \in [Client -> Request] /\ client'[c].at = "enqueue" /\ client'[c].job = j
        /\ \A d \in Client \ {c} : client'[d] = client[d]
    BY <1>1, <1>2, <1>5
  <1>7. j \notin Pending /\ ~row[j].output
    BY <1>1 DEF Inv, Begun, Active, RowsOk, RowOk
  <1>8. Held' = Held /\ Waiting' = Waiting /\ Creating' = Creating \cup {j}
    BY <1>2, <1>6 DEF Held, Waiting, Creating
  <1>9. Places' /\ Pending' = Pending \cup {j}
    <2>1. \A d \in Client : client[d].at = "enqueue" => client[d].job # j
      BY <1>7 DEF Pending, Creating
    <2>2. \A e, d \in Client : client'[e].at = "enqueue" /\ client'[d].at = "enqueue"
                               /\ client'[e].job = client'[d].job => e = d
      BY <1>6, <2>1 DEF Inv, Places
    <2> QED BY <1>2, <1>7, <1>8, <2>2 DEF Inv, Places, Pending
  <1>10. Types' /\ Cleaning' /\ Resting'
    BY <1>2, <1>4, <1>6 DEF Inv, Types, Cleaning, Resting
  <1>11. RowsOk' /\ Cleared'
    BY <1>2, <1>3, <1>4 DEF Inv, RowsOk, Cleared, Absent
  <1>12. Begun'
    <2>1. worker.at \in Rendering => worker.job \in Pending /\ worker.job \in Job
      BY HeldIsPending DEF Holding
    <2> QED BY <1>2, <1>3, <1>4, <1>7, <1>9, <2>1, PendingJobs DEF Inv, Begun, Active, Published, Rendering
  <1>13. \A r : Removes(r) => r.job # j /\ Removes(r)'
    BY <1>1, <1>2, <1>4, <1>9 DEF Removes, Absent
  <1>14. Asked' /\ Swept'
    BY <1>2, <1>4, <1>6, <1>13 DEF Inv, Asked, Swept, Removes
  <1>15. Traced'
    BY <1>2, <1>4, <1>7 DEF Inv, Traced, Types
  <1>16. Shown'
    BY <1>2, <1>3, <1>4, <1>6 DEF Inv, Shown
  <1> QED BY <1>9, <1>10, <1>11, <1>12, <1>14, <1>15, <1>16 DEF Inv

LEMMA RequestKeeps ==
  ASSUME Inv, NEW c \in Client,
         CancelOrDelete(c) \/ CancelRow(c) \/ SetProtected(c)
  PROVE  Inv'
  <1> USE DEF OfClient, startVars, diskVars
  <1>1. /\ UNCHANGED <<worker, phase, queue, loading, file, leftover, torn, sweep>>
        /\ row \in [Job -> Row] /\ client \in [Client -> Request]
        /\ client[c].at \in {"idle", "cancel"}
    BY DEF CancelOrDelete, CancelRow, SetProtected, Requests, Inv, Types
  <1>2. phase \notin {"down", "marked"}
    <2>1. CASE CancelRow(c)
      BY <2>1, Records, AnsweredPhase DEF CancelRow
    <2>2. CASE ~CancelRow(c)
      BY <2>2 DEF CancelOrDelete, SetProtected, Requests
    <2> QED BY <2>1, <2>2
  <1>3. Cleaning'
    BY <1>1 DEF Inv, Cleaning
  <1>4. CASE CancelOrDelete(c)
    <2>1. PICK j \in Job :
            /\ Exists(j) /\ row' = row
            /\ client' = [client EXCEPT ![c] =
                 [at |-> IF row[j].status \in Active THEN "cancel" ELSE "unlink",
                  job |-> j, output |-> row[j].output]]
      BY <1>4 DEF CancelOrDelete
    <2>2. /\ client' \in [Client -> Request]
          /\ \A d \in Client \ {c} : client'[d] = client[d]
          /\ client'[c].at = IF row[j].status \in Active THEN "cancel" ELSE "unlink"
          /\ client'[c].job = j /\ client'[c].output = row[j].output
      <3>1. row[j].output \in BOOLEAN
        BY <1>1 DEF Row
      <3> QED BY <1>1, <2>1, <3>1 DEF Request
    <2>3. Places' /\ Pending' = Pending
      BY <1>1, <2>2, RequestPlaces
    <2>4. Types' /\ RowOk(row'[j])
      BY <1>1, <2>1, <2>2 DEF Inv, Types, RowsOk
    <2>5. client'[c].at = "unlink" => Removes(client[c])'
      <3>1. row[j].status \notin Active => j \notin Pending
        BY DEF Inv, Begun
      <3>2. j \notin Pending /\ ~row[j].output => Absent(j)
        BY <1>2, NoHiddenFile
      <3> QED BY <1>1, <2>1, <2>2, <2>3, <3>1, <3>2 DEF Removes, Absent, Exists
    <2>6. client[c].at = "idle" /\ client'[c].at # "erase"
      BY <1>4, <2>2 DEF CancelOrDelete, Requests
    <2> QED BY <1>1, <1>2, <1>3, <2>1, <2>2, <2>3, <2>4, <2>5, <2>6, AtOneJob DEF Inv, Begun
  <1>5. CASE CancelRow(c)
    <2> DEFINE j == client[c].job
    <2>1. j \in Job /\ client[c].at = "cancel" /\ client' = [client EXCEPT ![c].at = "signal"]
      BY <1>1, <1>5, Records DEF CancelRow, Request
    <2>2. /\ client' \in [Client -> Request] /\ client'[c].at = "signal"
          /\ \A d \in Client \ {c} : client'[d] = client[d]
      <3>1. client[c] \in [at : {"enqueue", "cancel", "signal", "unlink", "erase"},
                           job : Job, output : BOOLEAN]
        BY <1>1, <2>1, Records DEF Request
      <3> QED BY <1>1, <2>1, <3>1 DEF Request
    <2>3. Places' /\ Pending' = Pending
      BY <1>1, <2>1, <2>2, RequestPlaces
    <2> DEFINE r == [row[j] EXCEPT !.status = "cancelling", !.cancel = TRUE, !.interrupted = FALSE]
    <2>4. row' = [row EXCEPT ![j] = IF Exists(j) THEN r ELSE row[j]]
      BY <1>5 DEF CancelRow
    <2>5. /\ r \in Row /\ r.status = "cancelling" /\ r.cancel /\ ~r.interrupted
          /\ r.output = row[j].output
      BY <1>1, <2>1 DEF Row, Statuses, Active
    <2> HIDE DEF r, j
    <2>6. /\ row' \in [Job -> Row] /\ row'[j] = IF Exists(j) THEN r ELSE row[j]
          /\ \A i \in Job \ {j} : row'[i] = row[i]
      BY <1>1, <2>1, <2>4, <2>5, RowUpdated
    <2>7. Types'
      BY <1>1, <2>2, <2>6 DEF Inv, Types
    <2>8. CASE Exists(j)
      <3>1. RowOk(row'[j])
        BY <2>5, <2>6, <2>8 DEF RowOk
      <3>2. j \in Pending => ~row'[j].output
        BY <2>5, <2>6, <2>8 DEF Inv, Begun
      <3> QED BY <1>1, <1>2, <1>3, <2>1, <2>2, <2>3, <2>5, <2>6, <2>7, <2>8, <3>1, <3>2, AtOneJob
           DEF Active
    <2>9. CASE ~Exists(j)
      <3>1. RowOk(row'[j]) /\ j \notin Pending
        BY <2>1, <2>6, <2>9 DEF Inv, RowsOk, Begun, Exists, Active
      <3> QED BY <1>1, <1>2, <1>3, <2>1, <2>2, <2>3, <2>6, <2>7, <2>9, <3>1, AtOneJob DEF Exists
    <2> QED BY <2>8, <2>9
  <1>6. CASE SetProtected(c)
    <2>1. PICK j \in Job : MayProtect(j) /\ row' = [row EXCEPT ![j].protected = ~@]
      BY <1>6 DEF SetProtected
    <2>2. client' = client /\ client[c].at # "enqueue"
      BY <1>1, <1>6 DEF SetProtected
    <2>3. Places' /\ Pending' = Pending
      BY <1>1, <2>2, RequestPlaces
    <2> DEFINE r == [row[j] EXCEPT !.protected = ~@]
    <2>4. row' = [row EXCEPT ![j] = r]
      BY <2>1
    <2>5. /\ r \in Row /\ r.status = row[j].status /\ r.cancel = row[j].cancel
          /\ r.interrupted = row[j].interrupted /\ r.output = row[j].output
      BY <1>1 DEF Row
    <2> HIDE DEF r
    <2>6. row' \in [Job -> Row] /\ row'[j] = r /\ \A i \in Job \ {j} : row'[i] = row[i]
      BY <1>1, <2>4, <2>5, RowUpdated
    <2>7. Types'
      BY <1>1, <2>2, <2>6 DEF Inv, Types
    <2>8. RowOk(row'[j])
      BY <2>1, <2>5, <2>6 DEF Inv, RowsOk, RowOk, MayProtect
    <2>9. j \in Pending => row'[j].status \in Active /\ ~row'[j].output
      BY <2>5, <2>6 DEF Inv, Begun
    <2> QED BY <1>1, <1>2, <1>3, <2>2, <2>3, <2>5, <2>6, <2>7, <2>8, <2>9, AtOneJob
  <1> QED BY <1>4, <1>5, <1>6

LEMMA DeletionKeeps ==
  ASSUME Inv, NEW c \in Client, DeleteFile(c) \/ DeleteRow(c) \/ DeleteFails(c)
  PROVE  Inv'
  <1> DEFINE j == client[c].job
  <1> USE DEF OfClient, startVars
  <1>1. /\ UNCHANGED <<worker, phase, queue, loading, sweep>>
        /\ client[c].at \in {"unlink", "erase"} /\ Removes(client[c]) /\ j \in Job \ Pending
        /\ row \in [Job -> Row] /\ client \in [Client -> Request]
    BY DEF DeleteFile, DeleteRow, DeleteFails, Inv, Asked, Removes, Types
  <1>2. phase \notin {"down", "marked"} /\ Cleaning'
    BY <1>1, Records, AnsweredPhase DEF Inv, Cleaning
  <1>3. client[c] \in [at : {"enqueue", "cancel", "signal", "unlink", "erase"},
                       job : Job, output : BOOLEAN]
    BY <1>1, Records DEF Request
  <1>4. CASE DeleteFile(c)
    <2>1. /\ client' = [client EXCEPT ![c].at = "erase"] /\ row' = row /\ torn' = torn
          /\ file' \subseteq file /\ file \ {j} \subseteq file'
          /\ leftover \subseteq leftover' /\ leftover' \subseteq leftover \cup {j}
          /\ client[c].at = "unlink"
      BY <1>4 DEF DeleteFile, Unlink
    <2>2. j \in file' => j \in leftover'
      BY <1>1, <1>4 DEF DeleteFile, Unlink, Removes, Absent
    <2>3. /\ client' \in [Client -> Request] /\ client'[c].job = j /\ client'[c].at = "erase"
          /\ \A d \in Client \ {c} : client'[d] = client[d]
      BY <1>1, <1>3, <2>1 DEF Request
    <2>4. Places' /\ Pending' = Pending
      BY <1>1, <2>3, RequestPlaces
    <2>5. Types'
      BY <1>1, <2>1, <2>3 DEF Inv, Types
    <2> HIDE DEF j
    <2>6. Removes(client[c])'
      BY <1>1, <2>1, <2>2, <2>3, <2>4 DEF Removes, Absent, j
    <2>7. RowOk(row'[j])
      BY <1>1, <2>1 DEF Inv, RowsOk
    <2> QED BY <1>1, <1>2, <2>1, <2>2, <2>3, <2>4, <2>5, <2>6, <2>7, AtOneJob
  <1>5. CASE DeleteRow(c) \/ DeleteFails(c)
    <2>1. /\ client' = [client EXCEPT ![c] = NoRequest] /\ UNCHANGED <<file, leftover>>
          /\ client[c].at = "erase"
      BY <1>5 DEF DeleteRow, DeleteFails
    <2>2. /\ client' \in [Client -> Request] /\ client'[c].at = "idle"
          /\ \A d \in Client \ {c} : client'[d] = client[d]
      BY <1>1, <2>1, Records DEF Request
    <2>3. Places' /\ Pending' = Pending
      BY <1>1, <2>1, <2>2, RequestPlaces
    <2>4. CASE DeleteFails(c)
      <3>1. row' = row /\ torn' = torn \cup {j}
        BY <2>4 DEF DeleteFails
      <3>2. Types'
        BY <1>1, <2>1, <2>2, <3>1 DEF Inv, Types, AJob
      <3> QED BY <1>1, <1>2, <2>1, <2>2, <2>3, <3>1, <3>2, ControlKeeps DEF Inv, Begun
    <2>5. CASE DeleteRow(c)
      <3>1. /\ row' = [row EXCEPT ![j] = [NewRow EXCEPT !.status = "gone"]] /\ torn' = torn
            /\ Absent(j)
        BY <1>1, <2>1, <2>5 DEF DeleteRow, Erase, Removes
      <3>2. /\ row' \in [Job -> Row] /\ row'[j] = [NewRow EXCEPT !.status = "gone"]
            /\ \A i \in Job \ {j} : row'[i] = row[i]
        BY <1>1, <3>1, ErasedRow, RowUpdated
      <3>3. Types'
        BY <1>1, <2>1, <2>2, <3>1, <3>2 DEF Inv, Types
      <3>4. j \in Job \ Pending /\ row'[client[c].job].status = "gone"
        BY <1>1, <3>2, ErasedRow
      <3> HIDE DEF j
      <3> QED BY <1>1, <1>2, <2>1, <2>2, <2>3, <3>1, <3>2, <3>3, <3>4, ErasedRow, AtOneJob DEF Absent
    <2> QED BY <1>5, <2>4, <2>5
  <1> QED BY <1>4, <1>5

-----------------------------------------------------------------------------
(* The process: start, stop, crash.                                        *)

LEMMA DownIsEmpty ==
  ASSUME Inv, phase \in {"down", "marked"}
  PROVE  /\ queue = <<>> /\ loading = <<>> /\ Pending = {}
         /\ Held = {} /\ Creating = {} /\ Waiting = {}
         /\ worker = WorkerOff /\ worker.at = "off"
         /\ \A c \in Client : client[c].at = "idle"
         /\ \A c \in Cleaner : sweep[c].at = "off"
  <1>1. /\ queue = <<>> /\ loading = <<>> /\ worker = WorkerOff
        /\ \A c \in Client : client[c].at = "idle"
        /\ \A c \in Cleaner : sweep[c].at = "off"
    BY Records DEF Inv, Resting
  <1>2. worker.at = "off" /\ worker.at \notin Holding
    BY <1>1, Records DEF Holding, Rendering, Ended
  <1>3. Held = {} /\ Creating = {} /\ Waiting = {}
    BY <1>1, <1>2, Nothing DEF Held, Creating, Waiting
  <1> QED BY <1>1, <1>2, <1>3 DEF Pending

\* A process at rest: what remains to be shown is about rows and files.
LEMMA RestingKeeps ==
  ASSUME Inv, phase' \in {"down", "marked"}, row' \in [Job -> Row],
         queue' = <<>>, loading' = <<>>, worker' = WorkerOff,
         sweep' = [c \in Cleaner |-> NotSweeping], client' = [c \in Client |-> NoRequest],
         UNCHANGED <<file, leftover>>, torn' \subseteq AJob,
         RowsOk', Cleared', Traced', Shown'
  PROVE  Inv'
  <1>1. worker'.at = "off"
    BY Records
  <1>2. Types'
    BY DEF Inv, Types, WorkerOff, NotSweeping, AJob, Request
  <1>3. Resting' /\ Cleaning'
    BY Records DEF Resting, Cleaning, Cleaner
  <1>4. Held' = {} /\ Creating' = {} /\ Waiting' = {}
    BY <1>1, Records, Nothing DEF Held, Creating, Waiting, Holding, Rendering, Ended
  <1>5. Places' /\ Pending' = {}
    BY <1>4, Records, Nothing DEF Places, Pending
  <1>6. Begun' /\ Asked' /\ Swept'
    BY <1>1, <1>5, Records DEF Begun, Asked, Swept, Rendering, Published, Ended
  <1> QED BY <1>2, <1>3, <1>5, <1>6 DEF Inv

LEMMA EndsKeeps ==
  ASSUME Inv, phase # "down", Ends
  PROVE  Inv'
  <1>1. /\ phase' = "down" /\ queue' = <<>> /\ loading' = <<>> /\ worker' = WorkerOff
        /\ sweep' = [c \in Cleaner |-> NotSweeping] /\ client' = [c \in Client |-> NoRequest]
        /\ UNCHANGED <<row, file, leftover>>
        /\ torn' = torn \cup {client[c].job : c \in {d \in Client : client[d].at = "erase"}}
    BY DEF Ends
  <1>2. row' \in [Job -> Row] /\ torn' \subseteq AJob
    BY <1>1, Records DEF Inv, Types, Request, AJob
  <1>3. RowsOk' /\ Cleared'
    BY <1>1 DEF Inv, RowsOk, Cleared, Absent
  <1>4. Traced'
    BY <1>1 DEF Inv, Traced, Begun, Published, Rendering
  <1>5. Shown'
    BY <1>1 DEF Inv, Shown
  <1> QED BY <1>1, <1>2, <1>3, <1>4, <1>5, RestingKeeps

LEMMA MarkKeeps ==
  ASSUME Inv, MarkInterrupted
  PROVE  Inv'
  <1>1. /\ phase = "down" /\ phase' = "marked"
        /\ UNCHANGED <<queue, loading, worker, sweep, client, file, leftover, torn>>
        /\ \A j \in Job :
             row'[j] = IF row[j].status \in {"running", "cancelling", "deleting"}
                       THEN [row[j] EXCEPT !.status = "failed", !.interrupted = TRUE]
                       ELSE row[j]
        /\ row \in [Job -> Row]
    BY DEF MarkInterrupted, Inv, Types
  <1>2. \A r \in Row :
          LET q == [r EXCEPT !.status = "failed", !.interrupted = TRUE] IN
            /\ q \in Row /\ q.status = "failed" /\ q.interrupted
            /\ q.output = r.output /\ q.cancel = r.cancel /\ q.protected = r.protected
    BY DEF Row, Statuses, Terminal
  <1>3. \A j \in Job :
          /\ row'[j] \in Row /\ row'[j].output = row[j].output /\ row'[j].cancel = row[j].cancel
          /\ row'[j].protected = row[j].protected
          /\ row[j].status \notin {"running", "cancelling", "deleting"} => row'[j] = row[j]
          /\ row[j].status \in {"running", "cancelling", "deleting"} =>
               row'[j].status = "failed" /\ row'[j].interrupted
    <2> SUFFICES ASSUME NEW j \in Job PROVE <1>3!(j)
      OBVIOUS
    <2>1. row[j] \in Row
      BY <1>1
    <2>2. CASE row[j].status \in {"running", "cancelling", "deleting"}
      <3>1. row'[j] = [row[j] EXCEPT !.status = "failed", !.interrupted = TRUE]
        BY <1>1, <2>2
      <3> QED BY <1>2, <2>1, <2>2, <3>1
    <2>3. CASE row[j].status \notin {"running", "cancelling", "deleting"}
      BY <1>1, <2>1, <2>3
    <2> QED BY <2>2, <2>3
  <1>4. row' \in [Job -> Row]
    BY <1>3 DEF MarkInterrupted
  <1>5. sweep = [c \in Cleaner |-> NotSweeping] /\ client = [c \in Client |-> NoRequest]
    BY <1>1 DEF Inv, Resting, Types
  <1>6. RowsOk'
    BY <1>3 DEF Inv, RowsOk, RowOk
  <1>7. Cleared'
    BY <1>1, <1>3 DEF Inv, Cleared, RowsOk, RowOk, Absent
  <1>8. Traced'
    BY <1>1, <1>3, DownIsEmpty DEF Inv, Traced, Types, Published
  <1>9. Shown'
    <2>1. \A j \in Job : row'[j].status = "completed" => row[j].status = "completed"
      BY <1>3
    <2>2. \A j \in Job : row[j].status = "completed" => j \in file \/ j \in torn
      BY <1>1, DownIsEmpty DEF Inv, Shown
    <2> QED BY <1>1, <2>1, <2>2 DEF Shown
  <1>10. torn' \subseteq AJob
    BY <1>1 DEF Inv, Types
  <1> QED BY <1>1, <1>4, <1>5, <1>6, <1>7, <1>8, <1>9, <1>10, DownIsEmpty, RestingKeeps

\* An order of a set of jobs names each of them once.
LEMMA Ordered ==
  ASSUME NEW S \in SUBSET Job, NEW s \in Orders(S)
  PROVE  s \in Seq(Job) /\ Distinct(s) /\ Elems(s) = S
  <1>1. IsFiniteSet(S) /\ Cardinality(S) \in Nat
    BY ExportAssumption, FS_Subset, FS_CardinalityType
  <1>2. s \in [1 .. Cardinality(S) -> S] /\ \A j \in S : \E i \in DOMAIN s : s[i] = j
    BY DEF Orders
  <1>3. s \in Seq(Job) /\ Len(s) = Cardinality(S)
    BY <1>1, <1>2
  <1>4. s \in Surjection(1 .. Cardinality(S), S)
    BY <1>2 DEF Surjection
  <1>5. IsFiniteSet(1 .. Cardinality(S)) /\ Cardinality(1 .. Cardinality(S)) = Cardinality(S)
    BY <1>1, FS_Interval
  <1>6. s \in Injection(1 .. Cardinality(S), S)
    BY <1>4, <1>5, FS_SurjSameCardinalityImpliesInj
  <1>7. Distinct(s)
    BY <1>3, <1>6 DEF Injection, IsInjective, Distinct
  <1>8. Elems(s) = S
    BY <1>2, <1>3 DEF Elems
  <1> QED BY <1>3, <1>7, <1>8

LEMMA StartKeeps ==
  ASSUME Inv, Start
  PROVE  Inv'
  <1>1. /\ phase = "marked" /\ phase' = "load" /\ RemoveArtifacts
        /\ worker' = [WorkerOff EXCEPT !.at = "idle"] /\ loading' \in Orders(QueuedIds)
        /\ UNCHANGED <<row, torn, queue, sweep, client>>
    BY DEF Start
  <1>2. /\ worker'.at = "idle" /\ worker' \in [at : {"idle"}, job : AJob, cancel : BOOLEAN]
        /\ worker'.at \notin Holding
    BY <1>1 DEF WorkerOff, AJob, Holding, Rendering, Ended
  <1>3. loading' \in Seq(Job) /\ Distinct(loading') /\ Elems(loading') = QueuedIds
    BY <1>1, Ordered DEF QueuedIds
  <1>4. /\ queue' = <<>> /\ Held' = {} /\ Creating' = {}
        /\ \A c \in Client : client'[c].at = "idle"
        /\ \A c \in Cleaner : sweep'[c].at = "off"
    BY <1>1, <1>2, DownIsEmpty DEF Held, Creating
  <1>5. Waiting' = QueuedIds /\ Pending' = QueuedIds
    BY <1>3, <1>4, Nothing DEF Waiting, Pending
  <1>6. Places'
    BY <1>3, <1>4, <1>5, Nothing DEF Places
  <1>7. /\ file' \subseteq file /\ leftover \subseteq leftover' /\ leftover' \subseteq leftover \cup file
        /\ \A j \in file : j \notin InterruptedFiles => j \in file'
        /\ \A j \in InterruptedFiles : j \notin file' \/ j \in leftover'
    BY <1>1 DEF RemoveArtifacts, NoFault, Fault, InterruptedFiles
  <1>8. \A j \in file : row[j].interrupted => j \in InterruptedFiles
    BY DEF Inv, RowsOk, RowOk, InterruptedFiles, Exists, Types
  <1>9. Types' /\ Resting' /\ Cleaning' /\ RowsOk'
    <2>1. worker' \in [at : {"off", "idle", "done", "clean", "dead"} \cup Holding,
                       job : AJob, cancel : BOOLEAN]
      BY <1>2
    <2>2. file' \subseteq Job /\ leftover' \subseteq Job
      BY <1>7 DEF Inv, Types
    <2>3. Types'
      BY <1>1, <2>1, <2>2 DEF Inv, Types
    <2>4. Resting' /\ RowsOk'
      BY <1>1 DEF Inv, Resting, RowsOk
    <2>5. Cleaning'
      BY <1>4 DEF Cleaning, Cleaner
    <2> QED BY <2>3, <2>4, <2>5
  <1>10. Begun'
    BY <1>1, <1>2, <1>5 DEF Begun, Inv, RowsOk, RowOk, QueuedIds, Active, Holding, Rendering, Published
  <1>11. Asked' /\ Swept'
    BY <1>4 DEF Asked, Swept
  <1>12. Cleared'
    BY <1>1, <1>7, <1>8 DEF Cleared, Absent
  <1>13. Traced'
    BY <1>1, <1>7, <1>8, DownIsEmpty DEF Inv, Traced, Published
  <1>14. Shown'
    <2>1. \A j \in Job : row[j].status = "completed" => j \notin InterruptedFiles
      BY DEF Inv, RowsOk, RowOk, InterruptedFiles
    <2> QED BY <1>1, <1>7, <2>1 DEF Inv, Shown
  <1> QED BY <1>6, <1>9, <1>10, <1>11, <1>12, <1>13, <1>14 DEF Inv

-----------------------------------------------------------------------------
LEMMA Preserved == Inv /\ [Next]_vars => Inv'
  <1> SUFFICES ASSUME Inv, [Next]_vars PROVE Inv'
    OBVIOUS
  <1>1. CASE UNCHANGED vars
    <2>1. Held' = Held /\ Waiting' = Waiting /\ Creating' = Creating /\ Pending' = Pending
      BY <1>1 DEF vars, diskVars, startVars, Held, Waiting, Creating, Pending
    <2>2. Types' /\ Places' /\ Resting' /\ Cleaning' /\ RowsOk' /\ Begun'
      BY <1>1, <2>1 DEF vars, diskVars, startVars, Inv, Types, Places, Resting, Cleaning, RowsOk, Begun
    <2>3. \A r : Removes(r) => Removes(r)'
      BY <1>1, <2>1 DEF vars, diskVars, startVars, Removes, Absent
    <2>4. Asked' /\ Swept' /\ Cleared' /\ Traced' /\ Shown'
      BY <1>1, <2>3 DEF vars, diskVars, startVars, Inv, Asked, Swept, Cleared, Traced, Shown, Absent
    <2> QED BY <2>2, <2>4 DEF Inv
  <1>2. CASE Works
    BY <1>2, WorkerControlKeeps, WorkerUpdateKeeps, PublishingKeeps DEF Works
  <1>3. CASE Starts \/ Stop
    BY <1>3, MarkKeeps, StartKeeps, EnqueueKeeps, OthersControlKeeps DEF Starts
  <1>4. CASE Exit \/ Crash
    BY <1>4, EndsKeeps DEF Exit, Crash
  <1>5. CASE \E c \in Cleaner : Sweeps(c)
    BY <1>5, CleanupKeeps, OthersControlKeeps DEF Sweeps
  <1>6. CASE \E c \in Client : Begins(c) \/ Finishes(c)
    BY <1>6, CreateKeeps, RequestKeeps, EnqueueKeeps, OthersControlKeeps, DeletionKeeps
       DEF Begins, Finishes
  <1> QED BY <1>1, <1>2, <1>3, <1>4, <1>5, <1>6 DEF Next

LEMMA Invariant == Spec => []Inv
  BY Initially, Preserved, PTL DEF Spec

-----------------------------------------------------------------------------
(* The theorems.                                                           *)

\* What the library shows as completed can be downloaded, unless a request
\* deletes it or has failed to: no publication, interruption, cleanup, crash or
\* restart leaves a completed row without its file.
THEOREM CompletedIsThere == Spec => []CompletedHasFile
  <1>1. Inv => CompletedHasFile
    BY DEF Inv, Shown, CompletedHasFile, Deletes
  <1> QED BY <1>1, Invariant, PTL

\* While the process runs, every published file is known to a row, about to be,
\* or one that could not be unlinked.
THEOREM FilesAreKnown == Spec => []NoStrayFile
  <1>1. Inv => NoStrayFile
    BY DEF Inv, Traced, RowsOk, RowOk, Types, NoStrayFile, Alive, Exists, Published
  <1> QED BY <1>1, Invariant, PTL

\* A cleanup removes the files of rows it has claimed and of cancelled ones, a
\* start those of jobs it has interrupted, the worker what it has yet to record:
\* a protected export is none of these.
THEOREM ProtectedIsKept == Spec => ProtectionWins
  <1>1. Inv /\ [Next]_vars =>
          [\A j \in Job :
             /\ row[j].protected /\ row[j].output /\ ~row[j].cancel /\ j \notin leftover
             /\ j \in file /\ j \notin file'
             => \E c \in Client : Deletes(c, j)]_vars
    <2> SUFFICES ASSUME Inv, Next, NEW j \in Job,
                        row[j].protected, row[j].output, ~row[j].cancel, j \notin leftover,
                        j \in file, j \notin file'
                 PROVE  \E c \in Client : Deletes(c, j)
      BY DEF vars, diskVars
    <2>1. \/ Publish \/ Manifest \/ Start
          \/ \E c \in Cleaner : SweepFile(c)
          \/ \E c \in Client : DeleteFile(c)
      BY DEF Next, Works, Starts, Sweeps, Begins, Finishes, Fetch, Quit, Look, Drop, Activate,
             Begin, Render, Record, EndInterrupted, EndError, Done, MarkInterrupted, Load, Loaded,
             Stop, Exit, Crash, Ends, Claim, SweepRow, SweepFails, EndSweep, Create,
             CancelOrDelete, SetProtected, EnqueueCreated, CancelRow, Signal, DeleteRow,
             DeleteFails, diskVars
    <2>2. CASE Publish \/ Manifest
      <3>1. worker.at \in Holding /\ worker.job = j
        BY <2>2 DEF Publish, Manifest, Unlink, Holding, Rendering
      <3> QED BY <3>1, HeldIsPending DEF Inv, Begun
    <2>3. CASE Start
      <3>1. row[j].interrupted
        BY <2>3 DEF Start, RemoveArtifacts, InterruptedFiles
      <3> QED BY <3>1 DEF Inv, Cleared, Absent
    <2>4. ASSUME NEW c \in Cleaner, SweepFile(c) PROVE FALSE
      <3>1. sweep[c].job = j /\ sweep[c].at = "unlink"
        BY <2>4 DEF SweepFile, Unlink
      <3>2. row[j].status \in {"deleting", "cancelling", "gone"}
        BY <3>1 DEF Inv, Swept
      <3> QED BY <3>2 DEF Inv, RowsOk, RowOk
    <2>5. ASSUME NEW c \in Client, DeleteFile(c) PROVE Deletes(c, j)
      BY <2>5 DEF DeleteFile, Unlink, Deletes
    <2> QED BY <2>1, <2>2, <2>3, <2>4, <2>5
  <1> QED BY <1>1, Invariant, PTL DEF ProtectionWins, Spec

=============================================================================
