# SurvNG: a TLA+ model of its concurrent core

SurvNG is a network video recorder. A camera notice or a change in the picture
becomes a trigger, the trigger a decision, the decision an incident, and mandatory
delayed object discovery refines that incident: the *motion path*. Around it
cameras are started, stopped and reconfigured, recorders run and are watched,
inference processes answer every look at a frame, and images, recordings and exports
are written, shared and deleted. All of it runs on many threads over SQLite tables
and files, in a process that may stop, restart or crash at any point. This directory
models that, checks it with TLC and proves what matters most with TLAPS.

## The system

Paths are relative to `src/survng/app/`.

| Component | State | Operations | What makes it correct |
|---|---|---|---|
| Motion trigger ledger, `event_store/jobs.py` | table `motion_trigger_jobs`: state, owner, lease, availability, attempts | enqueue, claim (one id, or any due), complete, release, fail | a row is touched by its owner only, until its lease runs out |
| Event coordinator, `motion_events.py` | bounded wake-up queue with a stop sentinel, retry batches, the active batch, a lease owner per process | enqueue, next_trigger, coalesce, schedule_retry, settlement of deliveries, clear, reset | a wake-up may be lost, its row may not; one copy of a burst at a time |
| Decision worker, `motion_decisions.py` | one thread per camera | run, run_until_error, process a batch, the handler of its exceptions | every admitted trigger is decided or given up in the open |
| Detection job ledger, `event_store/jobs.py` | table `detection_jobs`, one row per intent | enqueue (coalesce, collide), claim (expire first, then own and expired leases, then newest), complete, retry, prune | stale evidence is not refined; nothing is refined twice at once |
| Incidents, `motion_incidents.py`, `motion_pipeline/decision_handler.py` | refinement thread, completion handler | process, queue refinement, refine, finalize, complete | no completion without a recorded outcome; announced discovery is durable |
| Episode controller, `ema_v2.py` | the current episode, its request and follow-up counts, its intent | observe, acknowledge, abort, running, complete, fail, link, reset | one reservation at a time; the follow-up budget balances |
| Motion ingress and analysis, `motion_ingress.py`, `motion_runtime.py`, `motion_analysis_service.py` | callbacks in flight per generation, signal history | begin, handle, end; start and stop of a generation; visual backup | a reservation is enqueued or aborted by the one who holds it |
| Camera lifecycle, `camera_lifecycle.py` with `camera_capture.py`, `onvif_events.py`, `object_track/session.py` | phase, generation, stop ticket; the threads of one camera | start, request and wait for a stop, close, switch detection | no generation starts over the threads of another; a stop that was begun is finished by somebody |
| Fleet, start-up, control, manager, `camera_fleet.py`, `camera_startup.py`, `camera_control.py`, `manager.py` | workers, preferences, admissions, fences | admit, cancel, switch power and recording, replace a worker, stop all | nothing starts beneath a shutdown; dependencies close last |
| Recorder, `recording_process/recorder.py`, `recording_lifecycle.py` | one FFmpeg process per source, keys being started, retry times, rollovers | start, stop, sweep, watch, reconfigure, close | every process is known; what is wanted is recorded |
| Recording index and retention, `recording_process/index.py`, `recording_retention.py` | table `recordings`, files, playback leases, deletions under way | discover, search, repair, lease, plan, delete | rows outlive their files; leased files stay |
| Snapshots, `event_store/store.py`, `event_store/motion_intelligence.py`, `face_store/` | image files; the events, audits and faces that show them; deletion claims | write, replace, pin, claim, unlink, clear, recover | no image is deleted while shown, no reference to a deleted one stays |
| Inference admission, `inference_runtime/supervisor.py`, `inference_lifecycle.py` | counters of waiting and active work by class, a fence | enter, leave; start, retry, replace, close | nothing runs beside what excludes it; security work is not held up; no wake-up is lost |
| Inference pool, `inference_runtime/worker.py`, `supervisor.py` | worker objects: a line of requests, one child process each | request, start, stop, resize, roll back | one process per worker; stopped stays stopped |
| Media exports, `media_exports.py` | table `media_exports`, a bounded queue, published files | create, render, publish, cancel, delete, protect, clean up, restart | what is offered has its file; no file is forgotten |
| Pixel analysis, detection, recognition, search, assistant, configuration, MQTT, telemetry, web API and UI | various | various | numeric, best effort, or input and output around the parts above |

How they interact. Camera callbacks (ONVIF) and the analysis thread *observe* into
the episode controller; the one that gets a reservation *enqueues* a trigger (row
first, wake-up second) and *acknowledges* it. The decision worker *claims* the row,
decides, stores the event with its image, queues the refinement job, links the
incident to the episode, and *completes* the row. The refinement worker *claims* the
job, refines, may replace the image, calls the completion handler, and *completes*
the job. Every look at a frame asks the inference supervisor for the device, then a
worker of the pool for its process. The lifecycle of a camera starts and stops those
threads; the fleet, the control service and the manager command the lifecycles and
the recorders; the recorders write the files which the index lists, playback and
exports read, incidents refer to and retention deletes. Only tables and files
survive a crash; queues, retries, episodes, leases, claims' owners and processes
do not.

The hard behaviour is in the seams: a row committed before its wake-up, a stop
looked at between two steps, deliveries completed one by one, a worker that answers
before the producer has acknowledged, a start that is anywhere between its claim and
its registration while others stop and sweep, a rollback that fails half-way, a file
that goes before its row, a lease taken between choice and deletion.
`PROJECT.json` lists these hazards with their lines.

## Modules

| Module | Models |
|---|---|
| `TriggerLedger` | the table `motion_trigger_jobs` and its statements |
| `MotionDelivery` (extends it) | coordinator, decision worker, stop, restart and crash |
| `ReliableDelivery` | what delivery promises; `MotionDelivery` implements it |
| `DetectionJobs` | the table `detection_jobs` and its statements |
| `MotionIncidents` (extends it) | decision to incident: both workers, redelivery, stop, restart, crash |
| `MotionEpisodes` | the episode controller, its producers and the decision worker |
| `CameraWorkers` | the threads of one camera and the calls that start, tell and await them |
| `CameraLifecycle` (extends it) | the commands on one camera and those who give them |
| `CameraFleet` | admission, commands, replacement and shutdown over several cameras |
| `Recorder` | the FFmpeg process of one source under commands, watchdog and admission |
| `RecordingRetention` | files and rows of one stream: indexer, repairs, playback, retention |
| `SnapshotReferences` | images, who shows them and who deletes them |
| `DeviceAdmission` | the supervisor's condition variable, the calls that wait on it, and the lifecycle that moves its fence |
| `InferencePool` | workers, their processes and the pool's changes |
| `MediaExports` | the export library |
| `MotionDelivery_proofs`, `MotionIncidents_proofs` (with the jobs), `DeviceAdmission_proofs`, `InferencePool_proofs`, `SnapshotReferences_proofs`, `MediaExports_proofs` | theorems about the component of that name |
| `Cameras_proofs` | theorems about `MotionEpisodes`, `CameraFleet` and `CameraLifecycle` |
| `Recording_proofs` | theorems about `Recorder` and `RecordingRetention` |

A definition marked as a faulty variant (`FinalizeUnlessStopping`, `ClaimNothing`,
...), standing before the real one, is not part of the specification; it is the
mistake against which a property was tried.

### MotionDelivery

`job` is the table; `lease` and `delay` are the time left instead of a deadline, and
`Tick` lets it pass. `putting` holds producers between the insert and
`queue.put_nowait` in `enqueue`. `pc` is where the worker is: `wait` (next_trigger),
`first` (the stop check after a claim), `coalesce` and `get` (the loop of `coalesce`,
whose stop check and queue get are separate steps), `active` (`_process_batch`),
`retry` (the handler in `run`), and `complete`, `release`, `fail`, which settle one row
per step. `me` is the lease owner, a new one in each process. A retry wrapper has no
`delivery_job_id`, so a stop after it was taken releases nothing; the rows wait for
their leases. What the detector sees, and whether it raises, is a free choice.
Taking a wake-up and claiming its row are one step, because no other thread
claims rows of the camera.

### MotionIncidents

One step per statement that another party can come between: the live decision
stores its event (`Handle`), queues the refinement (`QueueRefinement`), finishes the
delivery (`FinishDelivery`); the refinement worker claims, refines, finalizes,
completes. `events[i]` holds the keys under which intent `i` has an event: `live`
(the intent id, by the decision) or `job` (the job id, by a refinement that had no
event to enrich). A delivery that was not completed is `owed` again, which is what
`MotionDelivery` provides; how often an intent was handled counts to two. The
refinement thread may be `dead`: its claim and its retry statements are outside
every `try`.

### MotionEpisodes

One episode under one lock, so each call of the controller is a step, but
reserve, enqueue and acknowledge are three. `durable` says whether the coordinator has a
store, as the manager's has; it is chosen at the start. With one, `enqueue` takes the
trigger or raises, a full queue or not (`motion_events.py:306-310`; no producer evicts).
Without one a full queue turns it down (`EnqueueFull`), the row is the wake-up, and
a stop loses it. An answer is given once (`AcknowledgeAdmission`), or by the `finally` of
what raised (`AcknowledgeRefused`); the analysis thread gives it twice to a trigger that
was turned down, with the lock released in between. An intent is <<incarnation, sequence,
request>>. Whether the episode gap has passed, and whether cooldown, rate or
region turn an observation down, is a free choice, so every arithmetic of the
controller is covered. `contexts` are the completion contexts of refinements: they
carry a sequence, survive a crash, and link late.

### CameraWorkers and CameraLifecycle

A thread is known by the camera generation it was started in. A call that waits for
threads either finds them dead or gives up at its deadline, so a stop may end with
threads still there; `CameraWorkers` has one operator per call of the motion runtime,
the capture service, the ONVIF listener and the tracking session. `CameraLifecycle`
puts them into commands: `op` says how far each caller is, `pending` is the stop
ticket, and the operation lock is `LockFree`. The fleet stops a camera in two calls
with anything in between, and releases the ONVIF subscription around the lock.

### CameraFleet

A camera is abstracted to what its lifecycle reports (`stuck` is a stop that gave
up); `workers` is kept per version, since a new motion configuration builds a second
worker beside the first. `task` follows each admission thread from its check to the wait
for a first frame (`TaskRecords` looks at the cancellation once the worker is up, `TaskEnds`
is the end of the wait, by time, readiness or failure), `command` the one
power command that holds the control service's lock, `manager` the one operation that
holds the manager's. Stopping the cameras and closing what they depend on are steps
of `stop_all`, with the other threads between them.

### Recorder

The recorder's lock is held only for single steps, so a thread's `plan` is the list of
steps it has yet to take, popped one by one: a start checks and claims the key, makes
the directory, launches FFmpeg and registers it, each a step; `mine` is what it has
launched and not registered. A sweep kills what runs and is not registered. `noSpace`
remembers that a directory could not be made.

### RecordingRetention

`file` and `row` are the two sides; `age` says who looks at a segment (discovery the
newest two hours, retention not the newest five minutes) and whether its age limit
has passed. What is on disk and what can be found differ: while the filesystem is
away (`mounted`), `is_file()`, a walk and `unlink` find nothing (`Seen`), and everything
is still there when it returns. Searches, playback and the retention worker take what
they do not find for gone, as the code does; a repair takes what lies in a location that
was away when it began for unknown (`MissingFiles`). `outside` are recordings whose
location is no longer configured: nothing walks it, and the retention worker refuses
them without putting them off (`Reject`).

A listing under way is `index`: what it found, and which rows it takes for stale; one is
under way at a time, which is a bound. The retention worker goes through a cycle step
by step (`ret`): choose, mark one file as being deleted unless it is leased, unlink it,
and at the end delete the rows of what it counts as removed; `missed` remembers which of
these were only away. The choice reads a window of the oldest rows (`OldestOf`, `Reach`)
and then passes over those put off after a failure, in that order (`Expired`); what
lack of space asks for is a free choice among the oldest (`Spare`). `hindered` and
`missed` are read by properties only.

### SnapshotReferences

A transaction is one step and so is each file operation, since no lock covers files.
Each writer writes a new image, changes the row that shows it, and then looks whether
anything still shows the old one before it deletes it: look and deletion are two steps.
Retention claims a batch, unlinks and clears; claims survive a crash, and the next
start recovers them. The filesystem may be away (`mounted`): what is not found then
counts as deleted, in a pass and in the recovery, and a pass remembers what it so
missed (`missed`, read by properties only). An image is a number, used once.

### DeviceAdmission

Each thread is `idle`, `active` on the device, `asleep` in `Condition.wait`, or
`notified` and waiting for the lock; `count` holds the seven counters by name. A
step is everything a thread does between taking the lock and letting go of it:
`Enter` from the call to admission or sleep, then `Admit`, `TurnedAway`, `TimeOut`
or `SleepOn` when it has the lock again, and `Leave`, whose `notify_all` makes every
sleeper `notified`. A thread asleep may also reach its deadline, and looks once more.
Calls refused at once change only statistics and are no step. `held` is what the
thread in `InferenceLifecycle`'s lock is doing, so a replacement is two steps with
any calls between.

### InferencePool

`worker` has the fields of each worker object: whether it admits, the line of
waiting requests, whether one is at the process, and the handle it keeps of its
process (`pipe`, or `bare` when the process would not die); `running` counts the processes that
really run. A caller picks a worker by the length of its line, waits in it, talks to
the process, and may go on to another worker when the first fails. `control` is the
one start, stop or resize under way, worker by worker, with what it has done so far
and what a rollback has to undo.

### MediaExports

`row` is the table, `worker` how far the worker thread is with its job, `sweep` how far
the cleanup of the worker and that of a start are, `client` how far each request is: every database call is a step, so
a status that was read may have changed when it is acted upon. `leftover` are files
that could not be unlinked, `torn` exports whose files a request has removed while
the row stayed; both are read by properties only.

## Runs

| Run | Bounds | States | Shows |
|---|---|---|---|
| `motion_delivery` | 2 triggers, a queue of 1, 1 in-process retry, 2 attempts, lease and backoff of 1, 2 faults | 214 thousand | one copy of a burst, refinement of `ReliableDelivery`, every trigger settles |
| `motion_incidents` | 1 intent, lease 3, age 2, retry delay 1, 2 attempts, 3 faults | 77 thousand | outcome before completion, discovery not forgotten, fresh claims, every job settles |
| `motion_episodes` | 2 callbacks and the analysis thread, 1 follow-up, 2 episodes, 1 fault, with a store and without | 500 thousand | budget, exclusive reservations with a store, carried requests end |
| `device_admission` | 3 threads of any workload, a cap of 1 or 2 | 27 thousand | exact counters, no lost wake-up, nothing overtakes, a first look is served |
| `camera_lifecycle` | 1 commander and the fleet, 1 motion worker, 2 generations, 1 callback, 2 stops, 1 fault | 1.0 million | one generation, every stop has somebody who waits, nobody is left untold |
| `camera_fleet` | 2 cameras, commands on one, admission one at a time, 2 faults | 250 thousand | nothing starts late, dependencies last, no stray replacement |
| `recorder` | 3 processes, 1 command, 1 fault, 1 rollover | 777 thousand | no process forgotten, closed is quiet, what is wanted is recorded in the end |
| `recording_retention` | 2 segments, one of them evidence, one watched, one perhaps outside the configuration, batches and windows of 1, 1 failure, stop, crash or absence | 1.2 million | leased files stay, rows outlive files, repairs keep what is unknown, a cleanup asked for ends |
| `snapshot_references` | 2 events, the second with a face, 3 images, batches of 2, 1 failure, crash or absence | 638 thousand | nothing left behind, nothing deleted while shown, references cleared last and healed |
| `inference_pool` | 2 callers, 3 worker objects, a pool of 1 resized to 2, 1 fault, 1 change | 357 thousand | one process each, stopped stays down, nothing outside the pool, no lost wake-up, a stop ends |
| `media_exports` | 2 jobs, a queue of 1, 1 client, 1 crash or stop, 1 fault | 562 thousand | completed has its file, no stray file, protection wins, queued work settles |
| `pinned_face_keeps_file` | 1 event, 1 image | | the first disagreement below |

Why the bounds are enough. Two triggers are the fewest with a batch, an eviction
and a wake-up behind the batch; a queue of one is full after one of them, and
crowds out the stop sentinel. Two attempts and one retry pass both sides of every
comparison. Two faults allow a stop after a crash or a database error during the
retry of another. One intent reaches every row state and every order of fault and
restart, because rows of different intents meet only in the order of claims. Times
are small because only order matters: lease longer than age, as 60 s is to 20 s.
Three threads at the device are one that runs, one that waits and one that comes
between; cap and counters meet at two, and the states of `DeviceAdmission` are finite
without a bound. Two generations are an old and a new one, and the third would treat
the second as the second treats the first. Two cameras are one that is commanded or
replaced and one that is being admitted meanwhile. Three FFmpeg processes are the
registered one, the one about to be registered and the one a sweep finds. Two
segments are the one in hand and the next; batches of one make two of them two
batches, and a window of one hides the second behind the first. `Reach` stands for both
windows of the code (four batches of the expired, two of all). One filesystem stands for
all locations, so a run has no location that is away beside one that is not: files of
different locations meet in the code only in the window of a batch. Three images are the shown one, the one that replaces it and a third
written meanwhile. A pool of one resized to two has a worker that stays and one that
comes, and a rollback for each. Two exports and a queue of one are one that is
rendered and one that finds the queue full.

Every bound is a CONSTANT that its guard names (`MaxFaults`, `MaxSequence`,
`MaxTroubles`, ...); `attempts` of a job stops at its maximum, beyond which nothing is
compared. Deadlock is not checked: each of these systems rests, when every trigger is
settled, a camera or the supervisor is closed, or the bounds are used up.

Fairness. Threads loop for as long as they live, and each loop polls or waits with a
timeout, so weak fairness of a thread that has something to do is what the scheduler
gives:

- `MotionDelivery`, `MotionIncidents`, `MotionEpisodes`: the workers, producers that
  have begun, time, and `Restart`, which says that a stopped camera is started again;
  without it a stop may last, and nothing is promised.
- `DeviceAdmission`: a notified thread gets the lock and a request ends, each having a
  timeout (`Resume`, `Leave`). Deadlines are allowed and not fair, so `InitialServed`
  needs none.
- `CameraLifecycle`: a command goes on (`Proceeds`). `CameraFleet` assumes nothing: all
  it promises is safety.
- `Recorder`: each thread takes its next step (`Proceed`), and the time to retry comes
  (`RetryExpires`). `RecordingRetention`: the worker's cycle (`Cycle`).
- `SnapshotReferences`: retention claims, unlinks, clears and releases what is past an
  hour (`ClaimKeeping({})`, ...).
- `InferencePool`: callers go on, and so does the operation under way, waiting for
  locks that requests hold for a bounded time.
- `MediaExports`: the worker, start-up, a shutdown, cleanups and requests that have
  begun.

Each module states its behaviour without fairness (`Spec`, `FleetSpec`, `LifecycleSpec`,
`RetentionSpec`) and adds the fairness to it (`FairSpec`, `FairRetention`, ...), except
`SnapshotReferences`, which has it in `Spec`. A run that checks liveness uses the fair one; the theorems
need no fairness.

Nothing forces motion to be observed, a request to be made or a fault to occur, and
nothing revives a thread that died: `EveryJobSettles` and `QueuedSettles` allow for it
by name.

## Disagreements

The run `pinned_face_keeps_file` shows one: `docs/storage.md:334` says pinned
face-reference images remain protected. An operator's pin is refused while the image
is claimed for deletion (`face_store/people.py:1299-1328`); the automatic pins of
bootstrap and enrichment (`:79`) do not look at claims, so an image pinned between its
claim and its unlink is deleted.

The models reach the following as well. They have no run of their own, because the
code says, or can be read to say, that it is meant so, or because other properties
say more.

*Motion path.* After a follow-up was aborted, the next camera notice is a reserved
follow-up for which `MotionEventIngressService.handle` neither enqueues nor aborts: the
reservation belongs to nobody until the generation ends or the clock jumps. A durable
completion context carries a sequence that after a restart matches an unrelated
episode. Refinement stores under the job id and the live decision under the intent id,
so a redelivered intent may have two incidents. The expiry in `claim_detection_job`
fails running jobs too, against its comment. Without a durable store the analysis thread
answers a trigger that the full queue turned down twice (`motion_analysis_service.py:1617`,
and the `finally` at `:1647-1656`): the first answer refunds the request, a callback may
reserve the same identity, and the second answer aborts the callback's reservation.
With a store `enqueue` never turns a trigger down, and what raises is answered once.

*Absent locations.* `docs/storage.md:349-354` says of a disk that fails that database and
index entries are preserved and that media is readable again when the filesystem
returns. Repairs keep to it: `_confirm_missing_index_paths` takes what lies under an
unavailable root for unknown (`index.py:955-968`), and storage maintenance asks for the
health of a location before it clears (`storage_maintenance.py:155`). Others take "not
found" for "gone". The retention worker drops the row of a recording whose unlink raises
`FileNotFoundError` (`recording_retention.py:556-559`); playback and searches drop the
rows whose `is_file()` is false (`index.py:403`, `501`, `1282`, `1373`, `1503`); snapshot
retention clears references on `FileNotFoundError` (`store.py:1397`), and the recovery
of claims those whose `exists()` is false (`store.py:1323`). A repair does the same if it
began before the location went away, or if the location is no longer configured. When the filesystem returns, the files are there and nothing refers to them: the
recordings until a search or a full repair lists them again, the images for ever.
`RowOutlivesFile` and `ClearedOnlyMissing` therefore say only what the code does give, with
the absence named in them, and `RepairKeepsUnknown` what the repairs give.

*Inference.* A waiting interactive or offline call looks at the fence only inside its
wait loop (`supervisor.py:196`): woken, and late for the lock, it is admitted during a
replacement. A successful reconfiguration restores the closed fence it found instead
of lifting it. A worker whose stop failed in `reconfigure` keeps its admission closed
while the fence over the pool is lifted (`supervisor.py:348`, `worker.py:130`), and is
not restarted by a resize. `start` on a process that lost its pipe and will not die
reports success, though requests fail until it ends. A replacement that was scrapped
and could not be stopped is only logged.

*Cameras and recording.* A power command in the middle of a motion reconfiguration
starts the old worker again (`manager.py:1158`); closing it is then refused and only
logged, nobody owns it, and a shutdown closes inference and recording beneath it, where
`docs/configuration-application.md:60-64` says dependencies are not closed beneath a
camera. The `mkdir` of a camera's directory stands between the claim of a recorder's
key and the `try` that gives it back (`recorder.py:138`): an error there leaves the key
claimed, and every later start of that source, by the watchdog too, returns at the claim
until something stops it; `tests/test_recorder.py:341` has a start that finds no space
put off and tried again. A sweep may kill a process that another thread has just
launched; the watchdog then starts another. The rollover limit may be passed by one.

*Recordings.* `docs/storage-retention.md` says retention never removes a segment an
incident refers to. It reads the incidents once per batch (`_candidates`) and not again
at the unlink (`index.py:524`), so a refinement that refers to an older segment in
between loses it. A lease is not taken, without a word, on a file whose deletion has
begun, and the manifest lists it all the same (`index.py:487`). A cleanup that was asked
for is given up when a cycle raises (`recording_retention.py:774`), or when the time
budget runs out before the first file of a batch (`:717`). It also ends with expired rows
left over: `_candidates` reads the oldest four batches of a stream and only then
passes over those put off after a failure (`:1107-1117`), so enough of these hide what is
behind them; and a path outside the configured storage is refused without being put
off (`:527-532`), so enough of these fill every batch. A batch that removes nothing ends
the cleanup. `CleanUpFinishes` promises the end of what the window offers, no more. A recording that was never
indexed within two hours of being written, because the process was down, is found by
no background discovery and hence never reclaimed, until somebody searches or repairs.

*Exports.* A cancel that read `running` before the export completed leaves it
`cancelling` (`media_exports.py:493`): it blocks a reload until the restart that deletes
it, and a protected export fares alike. A cancel may overwrite `deleting`, after which
protecting an export that is being deleted succeeds. A cancel between the worker's look
at a row and its activation is lost. A failed unlink still deletes the row (`:1317`), and a
manual delete claims nothing. An exception in the worker's cleanup ends its thread
(`:682`). A start with one more queued job than the queue holds raises (`:411`). A
graceful stop cancels the job it interrupts.

## Proofs

Each proof holds for every value of the constants that the module's named assumption
admits.

**Detection jobs and incidents** (`MotionIncidents_proofs`; every set of intents, any
retries and faults, every lease that is at least the maximum age, as 60 s is to 20 s in
the code): types, `CompletedIsFinalized`, `ClaimIsFresh`,
`NoTakeOver`, `OneLease`, `DuplicateNeedsRedelivery`, `DelayedEvidenceAdmitted`. There is
one lemma per statement of the ledger. The inductive invariant `Basis` is types and
`RowsOK`: a running row's lease plus its age reach the maximum age (`LeaseCoversAge`), and
only running rows have an owner. `LeaseCoversAge` is the heart of the matter: time takes
from one what it adds to the other, so a lease that has run out is stale, the expiry in
front of the claim takes it, and what is left to reclaim is the claimer's own. Freshness
and `NoTakeOver` follow at once. Further strengthenings are inductive over `Basis`:
`OutcomeFirst` (the worker about to complete has an outcome on record), `OwnersPast` (no
owner is from the future, so a crash frees the new coordinator of all leases),
`JobInRefinement` and `Handlings` (what the first handling of an intent leaves behind),
`AdmittedHasJob`.

**Motion delivery** (`MotionDelivery_proofs`; any triggers, lease, queue, retry limit and
faults): `OneCopy` and the refinement `Reliable`. The invariant says that a batch waits
for a retry only while the worker holds none (`OneAtATime`), that only a leased row has an
owner and a trigger not yet admitted has no row (`Rows`), and that what is being
completed was decided (`DecidedFirst`). With it every step is shown to be one of
`ReliableDelivery`'s or a stutter, action by action (`AdmitImplements`,
`DecideImplements`, `CompleteImplements`, `FailImplements`).

**Device admission** (`DeviceAdmission_proofs`; every finite set of threads, every cap): types,
`CountersExact`, `OfflineIsAlone`, `SecurityApartFromOptional`, `SecurityFirst`,
`RefinementsCapped`, `NoLostWakeUp`. The basis is `Counted`, types and exact counters: one
thread moves at a time, and the counters shift by what it held before and holds after
(`ShiftedExact`). With it a counter above zero *is* a thread, so guards on counters become
statements about threads: `WhoStarts` says that a step starts one unblocked thread or
none, from which exclusion, order and cap follow. For `NoLostWakeUp` the hard step is a
waiter that times out and wakes nobody (`TimeOutBlocks`): if nothing runs, only waiting
counters can have blocked it (`BlockedWhenIdle`); a refinement was then blocked by a waiting
first look, which still blocks every other sleeper, and optional work counts for nothing.

**Inference pool** (`InferencePool_proofs`; any callers, workers, faults and changes):
`OneProcess` and `StoppedStaysDown`. `Held` says that a process runs only while its worker
holds on to it; every outcome of ending a process, or of seeing to it that one runs,
keeps to that (`OutcomesSound`), and each step applies one outcome to one worker. For
`StoppedStaysDown`, `Restoring` says that the one step that starts a process without
looking finds the worker no longer stopping. `NothingOutsidePool`: a worker outside the
pool is stopping, has no pipe, or is one a resize is launching or scrapping (`Outside`);
that is inductive with what the operation under way works on (`Targets`), with the
launched ones unknown to every caller (`Unknown`), and with each call in flight at a worker of
the pool or a stopping one (`Reached`), so a request that is late cannot start a
process there. `HeadAwake`: the line of a worker holds the threads that wait at it, each once
(`Lined`), and whoever moves the head, frees the worker or closes its admission has
notified those who must look again (`Awake`).

**Snapshots** (`SnapshotReferences_proofs`; any events, images, faults and batches): types,
`NothingLeftBehind`, `ManualPinUnclaimed`, `NewImage`, `ClearedOnlyMissing`, `ReplacedIsNotShown`. `NewImage` says
that what a thread has just written is known to no row, claim or other thread.
`RemovedIsGone`, with it, says that what a pass counts as removed stays gone or was missed
while it was away, so references are cleared last. `DoomedIsHidden` says that what a writer is about to delete is shown by
no event from its look on, because nobody can show again an image that only the
writer's own row had. For `NothingLeftBehind`, `Accounted` says that without faults each file is
referred to, owed by a writer who has yet to record or to delete it, or what face
ingestion is looking at. A writer looks for references only after its own row has
moved, so of two that let go of an image the second to look finds it unreferenced;
`NewEvents` and `NewFaces` are why storing an event or a face overwrites no reference.

**Recording** (`Recording_proofs`; any processes, commands, faults, segments, batches and
troubles). Of the recorder, `NoneForgotten` and `ClosedIsQuiet`. A plan is coherent: a
launch is followed by its registration, that by a sweep, and what pops by a kill
(`Coherents`; every plan the code makes is one, and so is what is left of one). A
process launched and not registered has its thread at the registration (`LaunchedOnes`), and
one that nobody has registered has a thread that is certain to sweep or to kill (`Covered`).
A sweep anywhere in a plan would not do: a start that is turned away drops the rest of
its plan, hence `Certain`. For the close, no plan but the close's own contains it
(`Opened`), once it has begun only it and a watchdog that was not joined go on (`Closing`), and
each of its steps leaves behind what the next relies on: the watchdog done, nothing
registered, nothing running (`Quiet`).

Of the recordings, `LeasedIsKept`, `RowOutlivesFile` and `RepairKeepsUnknown`. Leases and
deletions under way are disjoint (`Apart`), and the worker unlinks only what it has marked
(`Marked`). What it will delete the rows of is gone or was missed while the filesystem
was away (`Gone`); what is gone does not come back, since it is a segment that was recorded before
(`Listed`) and names are used once. `Retained` is their conjunction. For
`RepairKeepsUnknown`, `Unknown` says that what a repair which began in an absence has
set aside for deletion lies outside the configured locations, whatever the walk found.

**Cameras** (`Cameras_proofs`; any cameras, producers, commanders, generations, stops and faults).
Of the episodes, `FollowupBudget` and `ReservationIsExclusive`. `Balanced` is the budget made
inductive: each request after the first is a follow-up, and an episode that may be
reserved by a camera notice has a follow-up left or has asked nothing, so no
acknowledgement, abort or reset overdraws, a second answer included. `ReservationIsExclusive`
is claimed, and proved, of a coordinator with a durable store. A reservation somebody holds is of this
process and counted in its episode (`HeldAreCounted`), so one that is made now differs
from all that are held.

Of the lifecycle, `OneGeneration`, `StopHasWaiter` and `ToldToStop`, from `Lively`. At most one
caller is beyond rest (`Exclusive`, the operation lock seen from its holders); where a
command stands fixes the phase (`Place`); a camera that starts or stops has somebody at it, or
the fleet's ticket (`Progress`); from the request of a stop to the next start nothing is accepted
and, once the broadcast is out, everything was told (`Silent`); and what a start has brought
about by its step holds until it is told to stop (`Grown`). The last is needed because a
stop may give up with threads still there: a new generation starts only over a clean motion
runtime and empty slots, and `Grown` carries that from the step that checks it to the phase
`running`.

Of the fleet, `DependenciesLast`, `NoStrayReplacement` and `NothingStartsLate`. `Owned` says who may
start a worker: only the admission task of a camera's first worker is ever found in the
middle of a start (`OnlyTasksStart`), a replacement works on workers that exist
(`WorkersExist`), and no command runs once they are refused (`CommandsRefused`); by the time
workers are stopped every task has ended (`NobodyStarts`).
From the close on they rest (`FleetRests`), and a replacement outside the fleet is closed or being
worked on unless reconfigurations are fenced (`ReplacementsKnown`).

**Exports** (`MediaExports_proofs`; any finite set of jobs, any clients, queue, crashes and
faults): `CompletedHasFile`, `NoStrayFile`, `ProtectionWins`. A job that has yet to be
worked is in one place only, among the queue, the list a start has to load, the worker
and the requests that create (`Places`); it is active and has no output (`Begun`). So
what a request or a cleanup removes is nobody's work (`Removes`), and a row under
cleanup stays `deleting`, unless a late cancel makes it `cancelling` or a deletion is
quicker (`Swept`). `Cleared` and `Traced` follow a file through a crash: it is recorded,
or its row is marked when the process starts again and the file removed before
anything else runs.

Out of the provers' reach is liveness under fairness (`EventuallySettled`,
`EveryJobSettles`, `CarriedRequestEnds`, `InitialServed`,
`RecordsInTheEnd`, `EventReferencesHeal`, `StopEnds`, `QueuedSettles`, `CleanUpFinishes`); it
rests on TLC. Every invariant and every action property of the passing runs, and the
refinement of `ReliableDelivery`, is a theorem.

## Not modelled

Pixel analysis, detection, qualification, recognition and search are numeric or
statistical; their verdicts are free choices where the models need them. Publication,
audits' contents, telemetry, MQTT and the web API are best effort or request handling
and are not read back by the parts above. Configuration is staged and validated before
it reaches the manager, which is modelled; its own files are not. The in-memory job
store exists for tests. Schema migrations and the statistics of every part are left out.

Within the modelled parts:

- Standalone route observations (`consider_visual_backup` with a route identity) bypass
  the episode controller. A late acknowledgement can set a request that the worker has
  already completed back to admitted; `CarriedRequestEnds` speaks of requests that are
  still carried, so the state is reachable but nothing is claimed of it.
- An error inside the exception handler of `run` ends the decision worker
  (`motion_decisions.py:210`); to the models it is a crash without a restart.
- Storage maintenance clears references to missing media after asking whether their
  location is healthy; that step, and its race with a location that goes away in
  between, is left out. Errors of a filesystem other than "not found" are failing
  deletions in the models, and never an unknown presence.
- In `SnapshotReferences` an audit may refer to an image that is gone by the time it is
  stored. In `Recorder` the thread that keeps a stopped process's pipe is not modelled.
- In `RecordingRetention` the queue of recordings to validate is left out. It is in
  memory, so a recording hidden for revalidation when the process ends stays hidden until
  a repair.
- In `MediaExports` database errors and the move to another storage generation are left
  out; an export created on a manager that is being retired waits for the next restart.
- The tracking limiter, the child's side of an inference process and the arithmetic of
  quotas, plans and regions hold little or no state worth a model.

## Plan

1. Done: the motion path; device admission; the lifecycle of cameras, the fleet and
   the manager; recorder; snapshots; inference pool; exports; recordings.
2. Proofs. Done: every safety property of the runs. Left: types of `CameraLifecycle`,
   `CameraFleet`, `MotionEpisodes` and `InferencePool` as theorems of their own (the proofs
   have them as parts of their invariants), and abstract specifications of the exports
   and of device admission with their refinements.
3. Models: the application of a configuration (`config_application.py`), the tracking
   limiter, semantic indexing and its queue, updates of the product.
