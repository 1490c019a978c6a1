------------------------- MODULE RecordingRetention -------------------------
(***************************************************************************)
(* The recordings of one stream on disk, their rows in the index, and      *)
(* those who add and remove them: the background indexer, searches and     *)
(* repairs (recording_process/index.py), playback, which leases what it    *)
(* has advertised, and the retention worker (recording_retention.py),      *)
(* which deletes files first and their rows later.                         *)
(*                                                                         *)
(* Segments are numbered in the order they were recorded; a name is never  *)
(* used again.  Sizes, quotas and watermarks are left open: any segment    *)
(* past the newest five minutes may be taken for lack of space.  All       *)
(* locations are one filesystem, which may be away for a while: nothing on *)
(* it is found then, and nothing on it is lost.                            *)
(***************************************************************************)
EXTENDS Naturals, FiniteSets, FiniteSetsExt

CONSTANTS MaxSegment,  \* bound on segments recorded
          Limit,       \* cleanup_batch_files
          Reach,       \* rows of the stream read for a batch: 4 * Limit of the
                       \* expired, 2 * Limit of all; one bound for both here
          Evidence,    \* segments an incident may come to refer to
          Watched,     \* segments a client may come to play
          Foreign,     \* segments whose location may have been removed from the
                       \* configuration since
          MaxTroubles  \* bound on failing deletions and cycles, stops, crashes
                       \* and absences of the filesystem

Segment == 1 .. MaxSegment

ASSUME RetentionAssumption ==
  /\ MaxSegment \in Nat /\ Evidence \cup Watched \subseteq Segment /\ Limit \in Nat \ {0}
  /\ Reach \in Nat /\ Reach >= Limit /\ MaxTroubles \in Nat
  /\ Foreign \subseteq Segment /\ \A s \in Foreign : 1 .. s \subseteq Foreign

VARIABLES
  age,       \* segment -> see below
  file,      \* segments on disk
  mounted,   \* whether their filesystem is there
  outside,   \* segments outside the configured locations
  row,       \* segments in the index
  held,      \* segments an incident refers to
  lease,     \* _playback_leases that have not expired
  deleting,  \* _retention_deletions
  backoff,   \* _delete_retry_after: deletions that failed and are put off
  index,     \* the listing under way: one at a time, which is a bound
  ret,       \* the retention worker
  asked,     \* _requested_apply
  active,    \* _cleanup_active
  hindered,  \* a file was spared or a cycle failed since cleanup was asked for
  phase,     \* the process: up, stopping or down
  troubles

placeVars == <<mounted, outside>>
mediaVars == <<age, file, row, placeVars>>
claimVars == <<held, lease, deleting>>
askVars == <<asked, active>>
retentionVars == <<ret, askVars, backoff, hindered>>
retentionSystem == <<mediaVars, claimVars, index, retentionVars, phase, troubles>>

\* To be recorded; of the newest five minutes; of the current and the previous
\* hour, which discovery looks at; past its age limit.
Later == 0
Recent == 1
Near == 2
Old == 3

NoIndexing == [at |-> "idle", found |-> {}, stale |-> {}, away |-> FALSE]
NoCycle == [at |-> "wait", apply |-> FALSE, full |-> FALSE,
            todo |-> {}, removed |-> {}, missed |-> {}]  \* missed: there, but away

RetentionInit ==
  /\ mounted = TRUE /\ outside \in {{}, Foreign} /\ file = outside /\ row = outside
  /\ age = [s \in Segment |-> IF s \in outside THEN Old ELSE Later]
  /\ held = {} /\ lease = {} /\ deleting = {} /\ backoff = {}
  /\ index = NoIndexing
  /\ ret = NoCycle /\ asked = FALSE /\ active = FALSE /\ hindered = FALSE
  /\ phase = "up" /\ troubles = 0

Trouble == troubles < MaxTroubles /\ troubles' = troubles + 1
NoTrouble == UNCHANGED troubles

\* What is_file(), a walk and unlink() find.
Seen == IF mounted THEN file ELSE {}

-----------------------------------------------------------------------------
(* Recording, time and the filesystem.                                     *)

Record(s) ==
  /\ phase = "up" /\ mounted /\ age[s] = Later /\ \A r \in 1 .. s - 1 : age[r] # Later
  /\ age' = [age EXCEPT ![s] = Recent] /\ file' = file \cup {s}
  /\ UNCHANGED <<row, placeVars, claimVars, index, retentionVars, phase, troubles>>
Grows(s) ==
  /\ age[s] \in {Recent, Near} /\ \A r \in 1 .. s - 1 : age[r] > age[s] \/ age[r] = Old
  /\ age' = [age EXCEPT ![s] = @ + 1]
  /\ UNCHANGED <<file, row, placeVars, claimVars, index, retentionVars, phase, troubles>>
LeaseExpires(s) ==
  /\ s \in lease /\ lease' = lease \ {s}
  /\ UNCHANGED <<mediaVars, held, deleting, index, retentionVars, phase, troubles>>
BackoffEnds(s) ==
  /\ s \in backoff /\ backoff' = backoff \ {s}
  /\ UNCHANGED <<mediaVars, claimVars, index, ret, askVars, hindered, phase, troubles>>
\* The filesystem goes, with all that is on it, and comes back.
Leaves ==
  /\ mounted /\ Trouble /\ mounted' = FALSE
  /\ UNCHANGED <<age, file, row, outside, claimVars, index, retentionVars, phase>>
Returns ==
  /\ ~mounted /\ mounted' = TRUE
  /\ UNCHANGED <<age, file, row, outside, claimVars, index, retentionVars, phase, troubles>>

-----------------------------------------------------------------------------
(* Playback and incidents.                                                 *)

\* A refinement stores an incident with the segment it looked at.
Refer(s) ==
  /\ phase = "up" /\ s \in Evidence \cap row \cap Seen /\ held' = held \cup {s}
  /\ UNCHANGED <<mediaVars, lease, deleting, index, retentionVars, phase, troubles>>
\* discard_missing_recording_rows and the like drop rows whose files they do
\* not find.
Discard ==
  /\ phase = "up" /\ row' = row \cap Seen
  /\ UNCHANGED <<age, file, placeVars, claimVars, index, retentionVars, phase, troubles>>
\* Faulty variant of Leased, never used.
LeasedAll(S) == S
\* A file whose deletion has begun is passed over.
Leased(S) == S \ deleting
\* The rows of a range are read and leased; those a cached manifest lists
\* are, at most, rows that were dropped since.
Lease ==
  /\ phase = "up" /\ \E S \in SUBSET (row \cap Watched) : lease' = lease \cup Leased(S)
  /\ UNCHANGED <<mediaVars, held, deleting, index, retentionVars, phase, troubles>>

-----------------------------------------------------------------------------
(* The index: the files are listed first and their rows stored later.      *)

OfIndex == UNCHANGED <<age, file, placeVars, claimVars, retentionVars, phase, troubles>>
\* Only configured locations are walked.
Walked == Seen \ outside
NearFiles == {s \in Walked : age[s] # Old}

\* refresh_recording_index every ten seconds, in the newest two hours.
Discover ==
  /\ phase = "up" /\ index.at = "idle"
  /\ index' = [NoIndexing EXCEPT !.at = "store", !.found = NearFiles]
  /\ OfIndex /\ UNCHANGED row
\* recording_rows_between with discovery: rows whose files are not found are
\* dropped, and the files of the days listed if one of them has no row.
Search ==
  /\ phase = "up" /\ index.at = "idle" /\ row' = row \cap Seen
  /\ index' = IF Walked \subseteq row THEN NoIndexing
              ELSE [NoIndexing EXCEPT !.at = "store", !.found = Walked]
  /\ OfIndex
Store ==
  /\ index.at = "store" /\ row' = row \cup index.found
  /\ index' = IF index.stale = {} THEN NoIndexing ELSE [index EXCEPT !.at = "delete"]
  /\ OfIndex

\* Faulty variant of MissingFiles, never used.
MissingUnseen(stale, away) == stale \ Seen
\* What a walk did not find is looked for by its name; what lies in a location
\* that was away when the repair began is unknown and not missing.
MissingFiles(stale, away) == IF away THEN (stale \cap outside) \ Seen ELSE stale \ Seen
\* storage_index_health sees first which locations are away.  A full repair
\* reads the index before it walks the storage, a quick one after it.
RepairReadsFirst ==
  /\ phase = "up" /\ index.at = "idle"
  /\ index' = [NoIndexing EXCEPT !.at = "walk", !.stale = row, !.away = ~mounted]
  /\ OfIndex /\ UNCHANGED row
RepairWalks ==
  /\ index.at = "walk"
  /\ index' = [index EXCEPT !.at = "store", !.found = Walked,
                            !.stale = MissingFiles(@, index.away) \ Walked]
  /\ OfIndex /\ UNCHANGED row
RepairWalksFirst ==
  /\ phase = "up" /\ index.at = "idle"
  /\ index' = [NoIndexing EXCEPT !.at = "read", !.found = NearFiles, !.away = ~mounted]
  /\ OfIndex /\ UNCHANGED row
RepairReads ==
  /\ index.at = "read"
  /\ index' = [index EXCEPT !.at = "store",
                            !.stale = MissingFiles(row, index.away) \ index.found]
  /\ OfIndex /\ UNCHANGED row
\* reconcile_storage_index looks for each once more, wherever it lies.
RepairDeletes ==
  /\ index.at = "delete"
  /\ row' = row \ (index.stale \ Seen) /\ index' = NoIndexing
  /\ OfIndex

-----------------------------------------------------------------------------
(* Retention: a cycle of RecordingRetentionService._loop.                  *)

OfRetention == UNCHANGED <<age, placeVars, held, lease, index, phase>>
CycleAt(step) == ret.at = step /\ phase # "down"

\* request_run of the operator.
RequestRun ==
  /\ phase = "up" /\ asked' = TRUE /\ active' = TRUE /\ hindered' = FALSE
  /\ UNCHANGED <<mediaVars, claimVars, index, ret, backoff, phase, troubles>>
\* A plan is made, or taken from the cache.  Automatic cleanup may be on or off,
\* and be switched at any time.
Wake ==
  /\ CycleAt("wait") /\ phase = "up"
  /\ \E automatic \in BOOLEAN :
       LET apply == asked \/ active \/ automatic IN
       ret' = [NoCycle EXCEPT !.at = IF apply THEN "pick" ELSE "end", !.apply = apply]
  /\ asked' = FALSE
  /\ OfRetention /\ UNCHANGED <<file, row, deleting, active, backoff, hindered, troubles>>

\* _candidates: the oldest expired rows, and then the oldest of all for what lack
\* of space asks for.  Protected rows are not read; those put off are read, and
\* passed over.
OldestOf(S, n) == {s \in S : Cardinality({r \in S : r < s}) < n}
Offered == {s \in row : age[s] # Recent /\ s \notin held \cup lease}
Expired == OldestOf({s \in Offered : age[s] = Old}, Reach) \ backoff
Spare == OldestOf(Offered, Reach) \ backoff
Batch == OldestOf(Expired, Limit)
Candidates ==
  {Batch \cup OldestOf(Spare \ Batch, n) : n \in 0 .. Limit - Cardinality(Batch)}
Pick ==
  /\ CycleAt("pick")
  /\ \E S \in Candidates :
       ret' = [ret EXCEPT !.at = "each", !.todo = S, !.full = Cardinality(S) >= Limit]
  /\ OfRetention /\ UNCHANGED <<file, row, deleting, askVars, backoff, hindered, troubles>>

Oldest == Min(ret.todo)
Handled == [ret EXCEPT !.at = "each", !.todo = @ \ {Oldest}]
\* _safe_recording_path refuses what lies outside the configured locations: it
\* is neither removed nor put off.
Reject ==
  /\ CycleAt("each") /\ ret.todo # {} /\ phase = "up" /\ Oldest \in outside
  /\ ret' = Handled
  /\ OfRetention /\ UNCHANGED <<file, row, deleting, askVars, backoff, hindered, troubles>>
\* _delete_recording_for_retention asks for leases again.
ClaimFile ==
  /\ CycleAt("each") /\ ret.todo # {} /\ phase = "up" /\ Oldest \notin outside
  /\ IF Oldest \in lease \cup deleting
     THEN ret' = Handled /\ hindered' = TRUE /\ UNCHANGED deleting
     ELSE /\ ret' = [ret EXCEPT !.at = "unlink"]
          /\ deleting' = deleting \cup {Oldest} /\ UNCHANGED hindered
  /\ OfRetention /\ UNCHANGED <<file, row, askVars, backoff, troubles>>
\* Faulty variant of Removed, never used.
RemovedAnyway == [Handled EXCEPT !.removed = @ \cup {Oldest}]
\* A file that could not be removed keeps its row; one that is not found, be it
\* gone or away, counts as removed.
Removed ==
  [Handled EXCEPT !.removed = IF Oldest \in Seen \cap file' THEN @ ELSE @ \cup {Oldest},
                  !.missed = @ \cup ({Oldest} \cap (file \ Seen))]
Unlink ==
  /\ CycleAt("unlink") /\ deleting' = deleting \ {Oldest}
  /\ \/ /\ file' = file \ (Seen \cap {Oldest}) /\ backoff' = backoff \ {Oldest}
        /\ NoTrouble /\ UNCHANGED hindered
     \/ /\ Oldest \in Seen /\ Trouble /\ UNCHANGED file
        /\ backoff' = backoff \cup {Oldest} /\ hindered' = TRUE
  /\ ret' = Removed
  /\ OfRetention /\ UNCHANGED <<row, askVars>>
\* The batch ends with its files, its time budget, or the process.
Batched ==
  /\ CycleAt("each")
  /\ \/ ret.todo = {} /\ ret' = [ret EXCEPT !.at = "rows"] /\ UNCHANGED hindered
     \/ /\ ret.todo # {} /\ phase = "stopping"
        /\ ret' = [ret EXCEPT !.at = "rows"] /\ UNCHANGED hindered
     \/ /\ ret.todo # {} /\ ret' = [ret EXCEPT !.at = "rows", !.full = TRUE]
        /\ hindered' = (hindered \/ ret.removed = {})
  /\ OfRetention /\ UNCHANGED <<file, row, deleting, askVars, backoff, troubles>>
DeleteRows ==
  /\ CycleAt("rows") /\ row' = row \ ret.removed
  /\ ret' = [ret EXCEPT !.at = "end", !.missed = {}]
  /\ OfRetention /\ UNCHANGED <<file, deleting, askVars, backoff, hindered, troubles>>

\* Faulty variant of Continues, never used.
ContinuesNever == ret.apply /\ ~ret.full /\ ret.removed # {}
Continues == ret.apply /\ ret.full /\ ret.removed # {}
EndCycle ==
  /\ CycleAt("end") /\ active' = Continues /\ ret' = NoCycle
  /\ OfRetention /\ UNCHANGED <<file, row, deleting, asked, backoff, hindered, troubles>>
\* An exception ends the cycle and with it the cleanup that was asked for.
CycleFails ==
  /\ \/ \E step \in {"pick", "rows"} : CycleAt(step)
     \/ CycleAt("end") /\ ret.removed # {} /\ ~Continues  \* the last batch plans anew
  /\ Trouble /\ active' = FALSE /\ hindered' = TRUE /\ ret' = NoCycle
  /\ OfRetention /\ UNCHANGED <<file, row, deleting, asked, backoff>>

-----------------------------------------------------------------------------
(* The end of the process, and its start.                                  *)

Ends ==
  /\ lease' = {} /\ deleting' = {} /\ backoff' = {}
  /\ index' = NoIndexing /\ ret' = NoCycle
  /\ asked' = FALSE /\ active' = FALSE /\ hindered' = FALSE /\ phase' = "down"
  /\ UNCHANGED <<mediaVars, held>>
Stop ==
  /\ phase = "up" /\ Trouble /\ phase' = "stopping"
  /\ UNCHANGED <<mediaVars, claimVars, index, retentionVars>>
Exit == phase = "stopping" /\ Ends /\ NoTrouble
Crash == phase = "up" /\ Trouble /\ Ends
Start ==
  /\ phase = "down" /\ phase' = "up"
  /\ UNCHANGED <<mediaVars, claimVars, index, retentionVars, troubles>>

-----------------------------------------------------------------------------
Indexes ==
  \/ Discover \/ Search \/ Store
  \/ RepairReadsFirst \/ RepairWalks \/ RepairWalksFirst \/ RepairReads
  \/ RepairDeletes
Cycle ==
  \/ Wake \/ Pick \/ Reject \/ ClaimFile \/ Unlink \/ Batched \/ DeleteRows
  \/ EndCycle \/ CycleFails
Reads == Discard \/ Lease
Life == Stop \/ Exit \/ Crash \/ Start

RetentionNext ==
  \/ \E s \in Segment : Record(s) \/ Grows(s) \/ LeaseExpires(s) \/ BackoffEnds(s) \/ Refer(s)
  \/ Leaves \/ Returns \/ Reads \/ Indexes \/ RequestRun \/ Cycle \/ Life

\* The retention worker goes on.
RetentionSpec == RetentionInit /\ [][RetentionNext]_retentionSystem
FairRetention == RetentionSpec /\ WF_retentionSystem(Cycle)

-----------------------------------------------------------------------------
(* Properties.                                                             *)

\* lease_recordings_for_playback: "Keep manifest segments out of retention
\* while clients fetch them."  No file goes while it is leased, although the
\* lease may be taken between any two steps of its deletion.
LeasedIsKept == [][\A s \in file \ file' : s \notin lease]_retentionSystem

\* A recording whose file is there loses its row only while the filesystem is
\* away, or to a retention cycle that did not find the file while it was: without
\* a row nothing plays it, and retention, which knows rows only, never reclaims it.
RowOutlivesFile ==
  [][\A s \in row \ row' : s \notin file \/ ~mounted \/ s \in ret.missed]_retentionSystem

\* A repair that began while the filesystem was away drops no row of a file that
\* is in its configured location, whatever comes and goes while it walks.
RepairKeepsUnknown ==
  [][index.at = "delete" /\ index.away /\ index' # index =>
       \A s \in row \ row' : s \notin file \/ s \in outside]_retentionSystem

\* Clean Up Now goes on, batch after batch, also with automatic cleanup off,
\* until the next batch would hold nothing that may be removed, unless a file
\* was spared or could not be removed, the time budget ran out before the first
\* one, or a cycle failed.
CleanUpFinishes == asked ~> (Batch \subseteq outside \/ hindered \/ phase # "up")

=============================================================================
