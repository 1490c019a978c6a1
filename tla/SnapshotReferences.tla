------------------------- MODULE SnapshotReferences -------------------------
(***************************************************************************)
(* The image files of incidents and the rows that point at them: events,   *)
(* motion audits and face observations.  Three threads replace images      *)
(* (the motion decision, the refinement worker, the object tracker), face  *)
(* ingestion copies an event's path into a row of its own, an operator     *)
(* pins faces, and the retention worker deletes old images under claims    *)
(* that a crash leaves for the next start (event_store/store.py,           *)
(* event_store/motion_intelligence.py, face_store/).                       *)
(*                                                                         *)
(* SQLite runs one writing transaction at a time, so a transaction is one  *)
(* step; a file operation is a step of its own, since no lock covers it.   *)
(* An image file is a number: names are never used twice.  The filesystem  *)
(* of the images may be away for a while: nothing on it is found then, and *)
(* nothing on it is lost.                                                  *)
(***************************************************************************)
EXTENDS Integers, FiniteSets, FiniteSetsExt

CONSTANTS MaxEvent,     \* events are 1..MaxEvent, the oldest first
          MaxImage,     \* bound: image files written in a behaviour
          WithFace,     \* the events whose image shows a face
          Limit,        \* images one retention pass may pick
          MaxFaults     \* bound: crashes, failed operations and absences of
                        \* the filesystem

ASSUME SnapshotAssumption ==
    /\ MaxEvent \in Nat \ {0}
    /\ MaxImage \in Nat
    /\ WithFace \subseteq 1..MaxEvent
    /\ Limit \in Nat \ {0}
    /\ MaxFaults \in Nat

Event == 1..MaxEvent
Image == 1..MaxImage
NoImage == 0
Writer == {"decision", "refiner", "tracker"}

VARIABLES
    file,       \* the image files on disk
    mounted,    \* whether their filesystem is there
    written,    \* how many images were ever written
    admitted,   \* events in the store: 1..admitted
    shown,      \* events.snapshot_path, per event
    audit,      \* motion_audits.snapshot_path of the event's audit
    face,       \* face_observations.snapshot_path of the event's face
    pin,        \* reference_pinned and reference_auto_pinned of that row
    old,        \* events past the age limit of retention: 1..old
    claim,      \* media_deletion_claims
    pass,       \* the retention worker
    work,       \* the threads that replace images
    look,       \* face ingestion, between its file check and its insert
    faults

vars == <<file, mounted, written, admitted, shown, audit, face, pin, old, claim,
          pass, work, look, faults>>
rows == <<shown, audit, face, pin>>
retention == <<old, claim, pass>>

\* missed: what was not found although it is there.
NoPass == [at |-> "idle", picked |-> {}, todo |-> {}, removed |-> {}, missed |-> {}]
Busy(at, e, new, replaced) == [at |-> at, event |-> e, image |-> new, replaced |-> replaced]
NoWork == Busy("idle", 1, NoImage, NoImage)
NoLook == [event |-> 1, image |-> NoImage]

Init ==
    /\ file = {} /\ mounted = TRUE /\ written = 0 /\ admitted = 0
    /\ shown = [e \in Event |-> NoImage]
    /\ audit = [e \in Event |-> NoImage]
    /\ face = [e \in Event |-> NoImage]
    /\ pin = [e \in Event |-> "absent"]
    /\ old = 0 /\ claim = {} /\ pass = NoPass
    /\ work = [w \in Writer |-> NoWork]
    /\ look = NoLook
    /\ faults = 0

Fault == faults < MaxFaults /\ faults' = faults + 1

\* What exists() and unlink() find.
Seen == IF mounted THEN file ELSE {}

Shows(p) == \E e \in Event : shown[e] = p
\* Faulty variant of Referenced, never used.
ReferencedFaulty(p) == \E e \in Event : audit[e] = p \/ face[e] = p
Referenced(p) == Shows(p) \/ \E e \in Event : audit[e] = p \/ face[e] = p
Pinned(p) == \E e \in Event : face[e] = p /\ pin[e] \in {"auto", "manual"}

-----------------------------------------------------------------------------
(* The filesystem goes, with all that is on it, and comes back. *)
Leaves ==
    /\ mounted /\ Fault /\ mounted' = FALSE
    /\ UNCHANGED <<file, written, admitted, rows, retention, work, look>>
Returns ==
    /\ ~mounted /\ mounted' = TRUE
    /\ UNCHANGED <<file, written, admitted, rows, retention, work, look, faults>>

-----------------------------------------------------------------------------
(* Replacing images *)

(* The snapshot writer puts the new image on disk before any row names it. *)
WriteImage(w) ==
    /\ mounted /\ work[w].at = "idle" /\ written < MaxImage
    /\ \E e \in (IF w = "decision" THEN {admitted + 1} \cap Event ELSE 1..admitted) :
           work' = [work EXCEPT ![w] = Busy("written", e, written + 1, NoImage)]
    /\ file' = file \union {written + 1}
    /\ written' = written + 1
    /\ UNCHANGED <<mounted, admitted, rows, retention, look, faults>>

(* What is left to do: the audit of the decision, in the modes that keep one. *)
Rest(me, audits) == IF audits THEN Busy("audit", me.event, me.image, NoImage) ELSE NoWork

(* The image a row pointed at until now is checked first. *)
Replacing(me, image, audits) ==
    IF image \in {NoImage, me.image} THEN Rest(me, audits)
    ELSE IF audits THEN Busy("check", me.event, me.image, image)
    ELSE Busy("check", 1, NoImage, image)

AddEvent ==
    LET me == work["decision"] IN
    /\ me.at = "written"
    /\ shown' = [shown EXCEPT ![me.event] = me.image]
    /\ admitted' = me.event
    /\ \E audits \in BOOLEAN : work' = [work EXCEPT !["decision"] = Rest(me, audits)]
    /\ UNCHANGED <<mounted, file, written, audit, face, pin, retention, look, faults>>

(* refine_event_evidence, promote_refinement_cover, promote_tracking_cover *)
Replace(w) ==
    LET me == work[w] IN
    /\ w # "decision" /\ me.at = "written"
    /\ shown' = [shown EXCEPT ![me.event] = me.image]
    /\ \E audits \in {FALSE, w = "refiner"} :
           work' = [work EXCEPT ![w] = Replacing(me, shown[me.event], audits)]
    /\ UNCHANGED <<mounted, file, written, admitted, audit, face, pin, retention, look, faults>>

(* The tracker drops an image it may not show; the refinement worker leaves *)
(* it to the audit of the rejection.                                        *)
\* Faulty variant of Reject, never used.
RejectFaulty(w) ==
    LET me == work[w] IN
    /\ me.at = "written"
    /\ \/ w = "refiner" /\ work' = [work EXCEPT ![w].at = "audit"]
       \/ w = "tracker" /\ work' = [work EXCEPT ![w] = NoWork]
    /\ UNCHANGED <<mounted, file, written, admitted, rows, retention, look, faults>>
Reject(w) ==
    LET me == work[w] IN
    /\ me.at = "written"
    /\ \/ w = "refiner" /\ work' = [work EXCEPT ![w].at = "audit"]
       \/ w = "tracker" /\ work' = [work EXCEPT ![w] = Busy("check", 1, NoImage, me.image)]
    /\ UNCHANGED <<mounted, file, written, admitted, rows, retention, look, faults>>

(* add_motion_audit finds the audit of the same decision and replaces its image. *)
RecordAudit(w) ==
    LET me == work[w] IN
    /\ me.at = "audit"
    /\ audit' = [audit EXCEPT ![me.event] = me.image]
    /\ work' = [work EXCEPT ![w] = Replacing(me, audit[me.event], FALSE)]
    /\ UNCHANGED <<mounted, file, written, admitted, shown, face, pin, retention, look, faults>>

(* _delete_snapshot_if_unreferenced: the check under the lock ... *)
CheckReplaced(w) ==
    LET me == work[w] IN
    /\ me.at = "check"
    /\ work' = [work EXCEPT ![w] = IF Referenced(me.replaced) THEN Rest(me, me.image # NoImage)
                                   ELSE [me EXCEPT !.at = "unlink"]]
    /\ UNCHANGED <<mounted, file, written, admitted, rows, retention, look, faults>>

(* ... and the deletion after it; an error leaves the file behind, and so does *)
(* a file that is not found because it is away.                                *)
UnlinkReplaced(w) ==
    LET me == work[w] IN
    /\ me.at = "unlink"
    /\ \/ file' = file \ (Seen \intersect {me.replaced}) /\ UNCHANGED faults
       \/ Fault /\ UNCHANGED file
    /\ work' = [work EXCEPT ![w] = Rest(me, me.image # NoImage)]
    /\ UNCHANGED <<mounted, written, admitted, rows, retention, look>>

-----------------------------------------------------------------------------
(* Faces *)

(* ingest_events reads the path of the event and finds the file there ... *)
LookForFace(e) ==
    /\ e \in WithFace /\ look = NoLook /\ pin[e] = "absent"
    /\ shown[e] \in Seen
    /\ look' = [event |-> e, image |-> shown[e]]
    /\ UNCHANGED <<mounted, file, written, admitted, rows, retention, work, faults>>

(* ... and inserts the observation. *)
AddFace ==
    /\ look # NoLook
    /\ face' = [face EXCEPT ![look.event] = look.image]
    /\ pin' = [pin EXCEPT ![look.event] = "none"]
    /\ look' = NoLook
    /\ UNCHANGED <<mounted, file, written, admitted, shown, audit, retention, work, faults>>

(* bootstrap_person_references and enrich_person_gallery choose references; *)
(* they also give up those they chose before.                               *)
AutoPin(e) ==
    /\ \/ pin[e] = "none" /\ pin' = [pin EXCEPT ![e] = "auto"]
       \/ pin[e] = "auto" /\ pin' = [pin EXCEPT ![e] = "none"]
    /\ UNCHANGED <<mounted, file, written, admitted, shown, audit, face, retention, work,
                   look, faults>>

(* set_reference_pinned refuses an image that is being deleted. *)
ManualPin(e) ==
    /\ pin[e] \in {"none", "auto"} /\ face[e] \notin claim
    /\ pin' = [pin EXCEPT ![e] = "manual"]
    /\ UNCHANGED <<mounted, file, written, admitted, shown, audit, face, retention, work,
                   look, faults>>

Unpin(e) ==
    /\ pin[e] \in {"auto", "manual"}
    /\ pin' = [pin EXCEPT ![e] = "none"]
    /\ UNCHANGED <<mounted, file, written, admitted, shown, audit, face, retention, work,
                   look, faults>>

-----------------------------------------------------------------------------
(* Retention *)

Ages == /\ old < admitted
        /\ old' = old + 1
        /\ UNCHANGED <<mounted, file, written, admitted, rows, claim, pass, work, look, faults>>

Expired == {shown[e] : e \in {e \in 1..old : shown[e] # NoImage /\ ~Pinned(shown[e])}}

(* The first Limit of them, the image of the oldest event first. *)
Selected == {p \in Expired :
                \E e \in 1..old : /\ shown[e] = p
                                  /\ Cardinality({shown[f] : f \in 1..e} \cap Expired) =< Limit}

(* apply_snapshot_retention begins: the claims of more than an hour ago are  *)
(* given up, the others kept, and images no pinned face needs are claimed    *)
(* unless a claim on them is kept.                                           *)
\* Faulty variant of ClaimKeeping, never used.
ClaimKeepingFaulty(kept) ==
    LET picked == Selected \ claim
    IN  /\ pass.at = "idle" /\ picked # {}
        /\ claim' = claim \union picked
        /\ pass' = IF picked = {} THEN NoPass
                   ELSE [at |-> "unlink", picked |-> picked, todo |-> picked, removed |-> {},
                         missed |-> {}]
        /\ UNCHANGED <<mounted, file, written, admitted, rows, old, work, look, faults>>
ClaimKeeping(kept) ==
    LET picked == Selected \ kept
    IN  /\ pass.at = "idle" /\ (picked # {} \/ kept # claim)
        /\ claim' = kept \union picked
        /\ pass' = IF picked = {} THEN NoPass
                   ELSE [at |-> "unlink", picked |-> picked, todo |-> picked, removed |-> {},
                         missed |-> {}]
        /\ UNCHANGED <<mounted, file, written, admitted, rows, old, work, look, faults>>

Claim == \E kept \in SUBSET claim : ClaimKeeping(kept)

(* A file that is not found, be it gone or away, counts as removed; one that *)
(* cannot be removed does not.                                               *)
UnlinkClaimed(p) ==
    /\ pass.at = "unlink" /\ p \in pass.todo
    /\ \/ /\ file' = file \ (Seen \intersect {p})
          /\ pass' = [pass EXCEPT !.todo = @ \ {p}, !.removed = @ \union {p},
                                  !.missed = @ \union ({p} \intersect (file \ Seen))]
          /\ UNCHANGED faults
       \/ /\ p \in Seen /\ Fault
          /\ pass' = [pass EXCEPT !.todo = @ \ {p}]
          /\ UNCHANGED file
    /\ UNCHANGED <<mounted, written, admitted, rows, old, claim, work, look>>

Cleared(ref, gone) == [e \in Event |-> IF ref[e] \in gone THEN NoImage ELSE ref[e]]

ClearReferences(gone) ==
    /\ shown' = Cleared(shown, gone)
    /\ audit' = Cleared(audit, gone)
    /\ face' = Cleared(face, gone)
    /\ UNCHANGED pin

(* The references of the removed files go, a batch in one transaction. *)
ClearBatch(p) ==
    /\ pass.at = "unlink" /\ pass.todo = {} /\ p \in pass.removed
    /\ ClearReferences({p})
    /\ pass' = [pass EXCEPT !.removed = @ \ {p}, !.missed = @ \ {p}]
    /\ UNCHANGED <<mounted, file, written, admitted, old, claim, work, look, faults>>
Release ==
    /\ pass.at = "unlink" /\ pass.todo = {} /\ pass.removed = {}
    /\ claim' = claim \ pass.picked
    /\ pass' = NoPass
    /\ UNCHANGED <<mounted, file, written, admitted, rows, old, work, look, faults>>

(* A transaction of the pass raises: the pass ends and its claims stay. *)
PassFails ==
    /\ pass.at = "unlink" /\ pass.todo = {} /\ Fault
    /\ pass' = NoPass
    /\ UNCHANGED <<mounted, file, written, admitted, rows, old, claim, work, look>>

(* The process dies and starts again.  _recover_snapshot_deletion_claims runs *)
(* before any thread: it clears what points at a claimed file that it does    *)
(* not find and releases every claim.                                         *)
\* Faulty variant of Restart, never used.
RestartFaulty ==
    /\ Fault
    /\ ClearReferences(claim)
    /\ claim' = {} /\ pass' = NoPass
    /\ work' = [w \in Writer |-> NoWork] /\ look' = NoLook
    /\ UNCHANGED <<mounted, file, written, admitted, old>>
Restart ==
    /\ Fault
    /\ ClearReferences(claim \ Seen)
    /\ claim' = {} /\ pass' = NoPass
    /\ work' = [w \in Writer |-> NoWork] /\ look' = NoLook
    /\ UNCHANGED <<mounted, file, written, admitted, old>>

-----------------------------------------------------------------------------
Retention == \/ Claim \/ Release
             \/ \E p \in Image : UnlinkClaimed(p) \/ ClearBatch(p)

Next == \/ Leaves \/ Returns \/ AddEvent \/ AddFace \/ Ages \/ Retention \/ PassFails \/ Restart
        \/ \E w \in Writer : \/ WriteImage(w) \/ Replace(w) \/ Reject(w) \/ RecordAudit(w)
                             \/ CheckReplaced(w) \/ UnlinkReplaced(w)
        \/ \E e \in Event : LookForFace(e) \/ AutoPin(e) \/ ManualPin(e) \/ Unpin(e)

(* The retention worker runs again and again (RecordingRetentionService._loop), *)
(* at last an hour after its last failure; nothing else is owed.                *)
Fairness == /\ WF_vars(ClaimKeeping({}))
            /\ WF_vars(\E p \in Image : UnlinkClaimed(p) \/ ClearBatch(p))
            /\ WF_vars(Release)

Spec == Init /\ [][Next]_vars /\ Fairness

-----------------------------------------------------------------------------
(* Type invariant. *)
TypeOK ==
    /\ mounted \in BOOLEAN /\ written \in 0..MaxImage /\ file \subseteq 1..written
    /\ admitted \in 0..MaxEvent /\ old \in 0..MaxEvent
    /\ shown \in [Event -> 0..written]
    /\ audit \in [Event -> 0..written]
    /\ face \in [Event -> 0..written]
    /\ pin \in [Event -> {"absent", "none", "auto", "manual"}]
    /\ claim \subseteq 1..written
    /\ pass \in [at : {"idle", "unlink"}, picked : SUBSET claim,
                 todo : SUBSET claim, removed : SUBSET claim, missed : SUBSET claim]
    /\ work \in [Writer -> [at : {"idle", "written", "audit", "check", "unlink"}, event : Event,
                            image : 0..written, replaced : 0..written]]
    /\ look \in [event : Event, image : 0..written]
    /\ faults \in 0..MaxFaults

(* An image an operator pinned is never under a deletion claim: the pin   *)
(* looks at the claims and the claim looks at the pins, each in one       *)
(* transaction (set_reference_pinned, apply_snapshot_retention).          *)
ManualPinUnclaimed == \A e \in Event : pin[e] = "manual" => face[e] \notin claim

(* A replaced image is deleted only when no event shows it, although the  *)
(* check and the deletion are two steps and two writers may replace the   *)
(* image of one event at the same time (_delete_snapshot_if_unreferenced).*)
ReplacedIsNotShown ==
    [][\A w \in Writer : work[w].at = "unlink" /\ work[w].replaced \in file \ file'
           => ~Shows(work[w].replaced)]_vars

(* Retention, also when it fails or is cut short by a crash, takes from   *)
(* an event an image that is still there only if the filesystem is away,  *)
(* or was when the pass looked for the image                              *)
(* (_clear_snapshot_references, _recover_snapshot_deletion_claims).       *)
ClearedOnlyMissing ==
    [][\A e \in Event : shown[e] # NoImage /\ shown'[e] = NoImage
           => shown[e] \notin file \/ ~mounted \/ shown[e] \in pass.missed]_vars

(* Without faults nothing is left behind: once the writers are at rest,   *)
(* every image on disk is one some row points at.  Each writer looks for  *)
(* references only after its own row has moved, so the last one sees none.*)
NothingLeftBehind ==
    (faults = 0 /\ (\A w \in Writer : work[w].at = "idle"))
        => \A p \in file : Referenced(p) \/ look.image = p

(* An event whose image was deleted by retention stops pointing at it,    *)
(* after failed transactions and crashes too, unless a face has pinned it *)
(* meanwhile (apply_snapshot_retention with the claims of an hour ago).   *)
EventReferencesHeal ==
    \A e \in Event : (shown[e] # NoImage /\ shown[e] \notin file)
                         ~> (shown[e] \in file \union {NoImage} \/ Pinned(shown[e]))

(* docs/storage-retention.md: retention never removes pinned              *)
(* face-reference images.  Contradicted by the automatic pins, which do   *)
(* not look at the claims.                                                *)
RetentionSparesPinned ==
    [][\A p \in pass.todo \ pass'.todo : p \in file \ file' => ~Pinned(p)]_vars
=============================================================================
