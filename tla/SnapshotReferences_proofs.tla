--------------------- MODULE SnapshotReferences_proofs ---------------------
(***************************************************************************)
(* Theorems of SnapshotReferences, for any number of events, images and    *)
(* faults and any limit of a retention pass.                               *)
(***************************************************************************)
EXTENDS SnapshotReferences, TLAPS

\* What a writer may be doing when n images were written.
WorkRecord(n) == [at : {"idle", "written", "audit", "check", "unlink"}, event : Event,
                  image : 0..n, replaced : 0..n]

LEMMA BusyTyped ==
  ASSUME NEW n \in Nat, NEW e \in Event, NEW new \in 0..n, NEW replaced \in 0..n,
         NEW at \in {"idle", "written", "audit", "check", "unlink"}
  PROVE  Busy(at, e, new, replaced) \in WorkRecord(n)
  BY DEF Busy, WorkRecord

LEMMA IdleTyped ==
  ASSUME NEW n \in Nat
  PROVE  NoWork \in WorkRecord(n) /\ NoLook \in [event : Event, image : 0..n] /\ 1 \in Event
  <1>1. 1 \in Event /\ NoImage \in 0..n
    BY SnapshotAssumption DEF SnapshotAssumption, Event, NoImage
  <1> QED BY <1>1, BusyTyped DEF NoWork, NoLook

\* What follows a transaction is a state of a writer.
LEMMA RestTyped ==
  ASSUME NEW n \in Nat, NEW me \in WorkRecord(n), NEW audits \in BOOLEAN
  PROVE  Rest(me, audits) \in WorkRecord(n)
  <1>1. me.event \in Event /\ me.image \in 0..n /\ NoImage \in 0..n
    BY DEF WorkRecord, NoImage
  <1> QED BY <1>1, BusyTyped, IdleTyped DEF Rest

LEMMA ReplacingTyped ==
  ASSUME NEW n \in Nat, NEW me \in WorkRecord(n), NEW image \in 0..n, NEW audits \in BOOLEAN
  PROVE  Replacing(me, image, audits) \in WorkRecord(n)
  <1>1. me.event \in Event /\ me.image \in 0..n /\ NoImage \in 0..n /\ 1 \in Event
    BY IdleTyped DEF WorkRecord, NoImage
  <1>2. Rest(me, audits) \in WorkRecord(n)
    BY RestTyped
  <1> QED BY <1>1, <1>2, BusyTyped DEF Replacing

\* The images retention selects are shown by some event.
LEMMA SelectedShown ==
  ASSUME TypeOK
  PROVE  Selected \subseteq 1..written /\ \A p \in Selected : ~Pinned(p)
  <1>1. 1..old \subseteq Event
    BY SnapshotAssumption DEF SnapshotAssumption, TypeOK, Event
  <1>2. \A p \in Expired : p \in 1..written /\ ~Pinned(p)
    BY <1>1 DEF Expired, TypeOK, NoImage
  <1>3. Selected \subseteq Expired
    BY DEF Selected
  <1> QED BY <1>2, <1>3

-----------------------------------------------------------------------------
(***************************************************************************)
(* The type invariant is inductive.                                        *)
(***************************************************************************)
LEMMA TypeInit == Init => TypeOK
  <1> HAVE Init
  <1>1. work \in [Writer -> WorkRecord(written)]
    BY IdleTyped DEF Init
  <1>2. shown \in [Event -> 0..written] /\ audit \in [Event -> 0..written]
        /\ face \in [Event -> 0..written] /\ look \in [event : Event, image : 0..written]
    BY IdleTyped DEF Init, NoImage
  <1> QED BY <1>1, <1>2, SnapshotAssumption DEF SnapshotAssumption, Init, TypeOK, NoPass, WorkRecord

LEMMA TypeStep == TypeOK /\ [Next]_vars => TypeOK'
  <1> SUFFICES ASSUME TypeOK, [Next]_vars PROVE TypeOK'
    OBVIOUS
  <1> USE SnapshotAssumption DEF SnapshotAssumption
  <1>n. written \in Nat
    BY DEF TypeOK
  <1>w. /\ work \in [Writer -> WorkRecord(written)]
        /\ \A w \in Writer : /\ work[w] \in WorkRecord(written) /\ work[w].event \in Event
                              /\ work[w].image \in 0..written /\ work[w].replaced \in 0..written
                              /\ shown[work[w].event] \in 0..written
                              /\ audit[work[w].event] \in 0..written
    BY DEF TypeOK, WorkRecord
  <1>1. ASSUME NEW w \in Writer, WriteImage(w) PROVE TypeOK'
    <2>1. PICK e \in Event :
            work' = [work EXCEPT ![w] = Busy("written", e, written + 1, NoImage)]
      <3>1. CASE w = "decision"
        BY <1>1, <3>1 DEF WriteImage
      <3>2. CASE w # "decision"
        <4>1. 1..admitted \subseteq Event
          BY DEF TypeOK, Event
        <4> QED BY <1>1, <3>2, <4>1 DEF WriteImage
      <3> QED BY <3>1, <3>2
    <2>2. Busy("written", e, written + 1, NoImage) \in WorkRecord(written + 1)
      BY BusyTyped DEF TypeOK, NoImage
    <2>3. \A v \in Writer : work[v] \in WorkRecord(written + 1)
      BY DEF TypeOK, WorkRecord
    <2>4. work' \in [Writer -> WorkRecord(written + 1)]
      BY <2>1, <2>2, <2>3 DEF TypeOK
    <2> QED BY <1>1, <2>4 DEF WriteImage, TypeOK, WorkRecord, rows, retention
  <1>2. CASE AddEvent
    <2>1. PICK audits \in BOOLEAN :
            work' = [work EXCEPT !["decision"] = Rest(work["decision"], audits)]
      BY <1>2 DEF AddEvent
    <2>2. work' \in [Writer -> WorkRecord(written)] /\ work["decision"] \in WorkRecord(written)
      BY <2>1, <1>w, RestTyped DEF TypeOK, WorkRecord, Writer
    <2>3. shown' \in [Event -> 0..written] /\ admitted' \in 0..MaxEvent
      <3>1. "decision" \in Writer
        BY DEF Writer
      <3>2. /\ work["decision"].image \in 0..written /\ work["decision"].event \in Event
        BY <1>w, <3>1
      <3>3. /\ shown' = [shown EXCEPT ![work["decision"].event] = work["decision"].image]
            /\ admitted' = work["decision"].event
        BY <1>2 DEF AddEvent
      <3>4. shown' \in [Event -> 0..written]
        BY <3>2, <3>3 DEF TypeOK
      <3>5. admitted' \in 0..MaxEvent
        BY <3>2, <3>3 DEF Event
      <3> QED BY <3>4, <3>5
    <2> QED BY <1>2, <2>2, <2>3 DEF AddEvent, TypeOK, WorkRecord, retention
  <1>3. CASE AddFace
    BY <1>3, IdleTyped DEF AddFace, TypeOK, NoLook, NoImage, retention
  <1>4. CASE Ages
    BY <1>4 DEF Ages, TypeOK, rows
  <1>5. CASE Claim
    <2>1. PICK kept \in SUBSET claim : ClaimKeeping(kept)
      BY <1>5 DEF Claim
    <2> QED BY <2>1, SelectedShown DEF ClaimKeeping, TypeOK, rows, NoPass
  <1>6. CASE Release
    BY <1>6 DEF Release, TypeOK, rows, NoPass
  <1>7. ASSUME NEW p \in Image, UnlinkClaimed(p) PROVE TypeOK'
    <2>1. file' \subseteq 1..written /\ faults' \in 0..MaxFaults
      BY <1>7 DEF UnlinkClaimed, TypeOK, Fault
    <2>2. pass' \in [at : {"idle", "unlink"}, picked : SUBSET claim,
                     todo : SUBSET claim, removed : SUBSET claim, missed : SUBSET claim]
      <3> DEFINE todo == pass.todo \ {p}
                 removed == pass.removed \union {p}
                 missed == pass.missed \union ({p} \intersect (file \ Seen))
      <3>1. todo \subseteq claim /\ removed \subseteq claim /\ missed \subseteq claim
        BY <1>7 DEF UnlinkClaimed, TypeOK
      <3>2. \/ pass' = [pass EXCEPT !.todo = todo, !.removed = removed, !.missed = missed]
            \/ pass' = [pass EXCEPT !.todo = todo]
        BY <1>7 DEF UnlinkClaimed
      <3>3. pass \in [at : {"idle", "unlink"}, picked : SUBSET claim,
                      todo : SUBSET claim, removed : SUBSET claim, missed : SUBSET claim]
        BY DEF TypeOK
      <3> HIDE DEF todo, removed, missed
      <3>4. CASE pass' = [pass EXCEPT !.todo = todo, !.removed = removed, !.missed = missed]
        BY <3>1, <3>3, <3>4
      <3>5. CASE pass' = [pass EXCEPT !.todo = todo]
        BY <3>1, <3>3, <3>5
      <3> QED BY <3>2, <3>4, <3>5
    <2> QED BY <1>7, <2>1, <2>2 DEF UnlinkClaimed, TypeOK, rows
  <1>8. ASSUME NEW p \in Image, ClearBatch(p) PROVE TypeOK'
    <2>1. pass' \in [at : {"idle", "unlink"}, picked : SUBSET claim,
                     todo : SUBSET claim, removed : SUBSET claim, missed : SUBSET claim]
      <3>1. pass \in [at : {"idle", "unlink"}, picked : SUBSET claim,
                      todo : SUBSET claim, removed : SUBSET claim, missed : SUBSET claim]
        BY DEF TypeOK
      <3> QED BY <1>8, <3>1 DEF ClearBatch
    <2> QED BY <1>8, <2>1 DEF ClearBatch, ClearReferences, Cleared, TypeOK, NoImage
  <1>9. CASE PassFails
    BY <1>9 DEF PassFails, TypeOK, rows, NoPass, Fault
  <1>10. CASE Restart
    BY <1>10, IdleTyped DEF Restart, ClearReferences, Cleared, TypeOK, WorkRecord, NoImage, NoPass, Fault
  <1>11. ASSUME NEW w \in Writer, Replace(w) PROVE TypeOK'
    <2>1. PICK audits \in BOOLEAN :
            work' = [work EXCEPT ![w] = Replacing(work[w], shown[work[w].event], audits)]
      BY <1>11 DEF Replace
    <2>2. Replacing(work[w], shown[work[w].event], audits) \in WorkRecord(written)
      BY <1>n, <1>w, ReplacingTyped
    <2>3. work' \in [Writer -> WorkRecord(written)]
      BY <2>1, <2>2 DEF TypeOK, WorkRecord
    <2> QED BY <1>11, <2>3, <1>w DEF Replace, TypeOK, WorkRecord, retention
  <1>12. ASSUME NEW w \in Writer, Reject(w) PROVE TypeOK'
    <2>1. Busy("check", 1, NoImage, work[w].image) \in WorkRecord(written)
      BY <1>n, <1>w, IdleTyped, BusyTyped DEF NoImage
    <2>2. [work[w] EXCEPT !.at = "audit"] \in WorkRecord(written)
      BY <1>w DEF WorkRecord
    <2>3. work' \in [Writer -> WorkRecord(written)]
      BY <1>12, <2>1, <2>2 DEF Reject, TypeOK, WorkRecord
    <2> QED BY <1>12, <2>3 DEF Reject, TypeOK, WorkRecord, rows, retention
  <1>13. ASSUME NEW w \in Writer, RecordAudit(w) PROVE TypeOK'
    <2>1. Replacing(work[w], audit[work[w].event], FALSE) \in WorkRecord(written)
      BY <1>n, <1>w, ReplacingTyped
    <2>2. work' \in [Writer -> WorkRecord(written)]
      BY <1>13, <2>1 DEF RecordAudit, TypeOK, WorkRecord
    <2> QED BY <1>13, <2>2, <1>w DEF RecordAudit, TypeOK, WorkRecord, retention
  <1>14. ASSUME NEW w \in Writer, CheckReplaced(w) PROVE TypeOK'
    <2>1. [work[w] EXCEPT !.at = "unlink"] \in WorkRecord(written)
      BY <1>w DEF WorkRecord
    <2>2. Rest(work[w], work[w].image # NoImage) \in WorkRecord(written)
      BY <1>n, <1>w, RestTyped
    <2>3. work' \in [Writer -> WorkRecord(written)]
      BY <1>14, <2>1, <2>2 DEF CheckReplaced, TypeOK, WorkRecord
    <2> QED BY <1>14, <2>3 DEF CheckReplaced, TypeOK, WorkRecord, rows, retention
  <1>15. ASSUME NEW w \in Writer, UnlinkReplaced(w) PROVE TypeOK'
    <2>1. Rest(work[w], work[w].image # NoImage) \in WorkRecord(written)
      BY <1>n, <1>w, RestTyped
    <2>2. work' \in [Writer -> WorkRecord(written)]
      BY <1>15, <2>1 DEF UnlinkReplaced, TypeOK, WorkRecord
    <2>3. file' \subseteq 1..written /\ faults' \in 0..MaxFaults
      <3>1. CASE file' = file \ (Seen \intersect {work[w].replaced}) /\ UNCHANGED faults
        BY <3>1 DEF TypeOK
      <3>2. CASE Fault /\ UNCHANGED file
        BY <3>2 DEF TypeOK, Fault
      <3> QED BY <1>15, <3>1, <3>2 DEF UnlinkReplaced
    <2> QED BY <1>15, <2>2, <2>3 DEF UnlinkReplaced, TypeOK, WorkRecord, rows, retention
  <1>16. ASSUME NEW e \in Event, LookForFace(e) PROVE TypeOK'
    BY <1>16 DEF LookForFace, TypeOK, rows, retention
  <1>17. ASSUME NEW e \in Event, AutoPin(e) \/ ManualPin(e) \/ Unpin(e) PROVE TypeOK'
    BY <1>17 DEF AutoPin, ManualPin, Unpin, TypeOK, retention
  <1>18. CASE UNCHANGED vars
    BY <1>18 DEF vars, TypeOK, rows
  <1>19. CASE Leaves \/ Returns
    <2>1. mounted' \in BOOLEAN /\ faults' \in 0..MaxFaults
      <3>1. mounted' = FALSE \/ mounted' = TRUE
        BY <1>19, Zenon DEF Leaves, Returns
      <3>2. faults' = faults \/ Fault
        BY <1>19, Zenon DEF Leaves, Returns
      <3>3. faults' \in 0..MaxFaults
        BY <3>2 DEF Fault, TypeOK
      <3> QED BY <3>1, <3>3
    <2>2. UNCHANGED <<file, written, admitted, rows, retention, work, look>>
      BY <1>19 DEF Leaves, Returns
    <2> QED BY <2>1, <2>2 DEF TypeOK, rows, retention
  <1> QED
    BY <1>1, <1>2, <1>3, <1>4, <1>5, <1>6, <1>7, <1>8, <1>9, <1>10, <1>11, <1>12, <1>13, <1>14,
       <1>15, <1>16, <1>17, <1>18, <1>19 DEF Next, Retention

\* Every reachable state is well typed: a claim is always on an image that
\* was once written, and a pass works only on what it has claimed.
THEOREM TypeCorrect == Spec => []TypeOK
  BY TypeInit, TypeStep, PTL DEF Spec

-----------------------------------------------------------------------------
(***************************************************************************)
(* Claims and pins.                                                        *)
(***************************************************************************)
\* Clearing takes references away and adds none.
LEMMA ClearedRows ==
  ASSUME TypeOK, NEW gone, ClearReferences(gone), NEW e \in Event
  PROVE  /\ shown'[e] = IF shown[e] \in gone THEN NoImage ELSE shown[e]
         /\ audit'[e] = IF audit[e] \in gone THEN NoImage ELSE audit[e]
         /\ face'[e] = IF face[e] \in gone THEN NoImage ELSE face[e]
         /\ pin' = pin
  BY DEF ClearReferences, Cleared, TypeOK

LEMMA PinStep == TypeOK /\ ManualPinUnclaimed /\ [Next]_vars => ManualPinUnclaimed'
  <1> SUFFICES ASSUME TypeOK, ManualPinUnclaimed, [Next]_vars,
                      NEW e \in Event, pin'[e] = "manual"
               PROVE  face'[e] \notin claim'
    BY DEF ManualPinUnclaimed
  <1> USE DEF ManualPinUnclaimed
  <1>1. NoImage \notin claim
    BY DEF TypeOK, NoImage
  <1>2. ASSUME UNCHANGED <<face, claim>>, pin[e] = "manual" PROVE face'[e] \notin claim'
    BY <1>2
  <1>3. CASE AddFace
    <2>1. e # look.event
      BY <1>3 DEF AddFace, TypeOK
    <2> QED BY <1>3, <2>1 DEF AddFace, TypeOK, retention
  <1>4. CASE Claim
    <2>1. PICK kept \in SUBSET claim : ClaimKeeping(kept)
      BY <1>4 DEF Claim
    <2>2. face' = face /\ pin' = pin /\ claim' = kept \union (Selected \ kept)
      BY <2>1 DEF ClaimKeeping, rows
    <2>3. face[e] \notin Selected
      BY <2>2, SelectedShown DEF Pinned
    <2> QED BY <2>2, <2>3
  <1>5. CASE Release
    BY <1>5 DEF Release, rows
  <1>6. ASSUME NEW p \in Image, ClearBatch(p) PROVE face'[e] \notin claim'
    BY <1>1, <1>6, ClearedRows DEF ClearBatch
  <1>7. CASE Restart
    BY <1>7 DEF Restart
  <1>8. ASSUME NEW f \in Event, ManualPin(f) PROVE face'[e] \notin claim'
    BY <1>8 DEF ManualPin, TypeOK, retention
  <1>9. ASSUME NEW f \in Event, AutoPin(f) \/ Unpin(f) PROVE face'[e] \notin claim'
    BY <1>9 DEF AutoPin, Unpin, TypeOK, retention
  <1>10. ASSUME NEW p \in Image, UnlinkClaimed(p) PROVE face'[e] \notin claim'
    BY <1>10 DEF UnlinkClaimed, rows
  <1>11. CASE Leaves \/ Returns \/ AddEvent \/ Ages \/ PassFails \/ UNCHANGED vars
    BY <1>11, <1>2 DEF Leaves, Returns, AddEvent, Ages, PassFails, vars, rows, retention
  <1>12. ASSUME NEW w \in Writer, \/ WriteImage(w) \/ Replace(w) \/ Reject(w) \/ RecordAudit(w)
                                  \/ CheckReplaced(w) \/ UnlinkReplaced(w)
         PROVE  face'[e] \notin claim'
    BY <1>12, <1>2 DEF WriteImage, Replace, Reject, RecordAudit, CheckReplaced, UnlinkReplaced,
                       rows, retention
  <1>13. ASSUME NEW f \in Event, LookForFace(f) PROVE face'[e] \notin claim'
    BY <1>13, <1>2 DEF LookForFace, rows, retention
  <1> QED BY <1>3, <1>4, <1>5, <1>6, <1>7, <1>8, <1>9, <1>10, <1>11, <1>12, <1>13 DEF Next, Retention

\* An image an operator pinned is never under a deletion claim.
THEOREM PinnedByHandIsUnclaimed == Spec => []ManualPinUnclaimed
  <1>1. Init => ManualPinUnclaimed
    BY DEF Init, ManualPinUnclaimed
  <1> QED BY <1>1, TypeCorrect, PinStep, PTL DEF Spec

-----------------------------------------------------------------------------
(***************************************************************************)
(* An image a writer has put on disk is known to that writer alone until   *)
(* its transaction.                                                        *)
(***************************************************************************)
Apart(p, sh, au, fa, lo) ==
  /\ p # NoImage /\ lo.image # p
  /\ \A e \in Event : sh[e] # p /\ au[e] # p /\ fa[e] # p

NewImage ==
  /\ \A w \in Writer : work[w].at = "written" =>
       /\ Apart(work[w].image, shown, audit, face, look)
       /\ \A v \in Writer : /\ work[v].replaced # work[w].image
                            /\ v # w => work[v].image # work[w].image
  /\ \A w \in Writer : work[w].at \in {"check", "unlink"} => work[w].replaced # NoImage

\* A step after which writer w is at new leaves the new images of the others alone.
LeavesOthers(w, new) ==
  \A v \in Writer \ {w} : work[v].at = "written" =>
     /\ Apart(work[v].image, shown', audit', face', look')
     /\ new.image # work[v].image /\ new.replaced # work[v].image

LEMMA MovesOn ==
  ASSUME NewImage, TypeOK, NEW w \in Writer, NEW new,
         work' = [work EXCEPT ![w] = new],
         new.at # "written",
         new.at \in {"check", "unlink"} => new.replaced # NoImage,
         LeavesOthers(w, new)
  PROVE  NewImage'
  <1>1. \A v \in Writer : v # w => work'[v] = work[v]
    BY DEF TypeOK
  <1>2. work'[w] = new
    BY DEF TypeOK
  <1> QED BY <1>1, <1>2 DEF NewImage, LeavesOthers

LEMMA NewImageStep == TypeOK /\ NewImage /\ [Next]_vars => NewImage'
  <1> SUFFICES ASSUME TypeOK, NewImage, [Next]_vars PROVE NewImage'
    OBVIOUS
  <1>t. /\ written \in Nat
        /\ \A v \in Writer : work[v].image \in 0..written /\ work[v].replaced \in 0..written
        /\ look.image \in 0..written
        /\ \A e \in Event : shown[e] \in 0..written /\ audit[e] \in 0..written
                            /\ face[e] \in 0..written
    BY DEF TypeOK
  <1>1. ASSUME UNCHANGED work, \A p : Apart(p, shown, audit, face, look) => Apart(p, shown', audit', face', look') PROVE NewImage'
    BY <1>1 DEF NewImage
  <1>2. ASSUME NEW w \in Writer, WriteImage(w) PROVE NewImage'
    <2>1. PICK e : work' = [work EXCEPT ![w] = Busy("written", e, written + 1, NoImage)]
      BY <1>2 DEF WriteImage
    <2>2. \A v \in Writer : v # w => work'[v] = work[v]
      BY <2>1 DEF TypeOK
    <2>3. work'[w].at = "written" /\ work'[w].image = written + 1 /\ work'[w].replaced = NoImage
      BY <2>1 DEF TypeOK, Busy
    <2>4. UNCHANGED <<shown, audit, face, look>>
      BY <1>2 DEF WriteImage, rows
    <2>5. Apart(written + 1, shown', audit', face', look') /\ \A p : Apart(p, shown, audit, face, look) => Apart(p, shown', audit', face', look')
      BY <1>t, <2>4 DEF Apart, NoImage
    <2>6. \A v \in Writer : work[v].at = "written" => work[v].image # NoImage
      BY DEF NewImage, Apart
    <2> QED BY <1>t, <2>2, <2>3, <2>5, <2>6 DEF NewImage, NoImage
  <1>3. CASE AddEvent
    <2>1. "decision" \in Writer
      BY DEF Writer
    <2>2. PICK audits \in BOOLEAN :
            work' = [work EXCEPT !["decision"] = Rest(work["decision"], audits)]
      BY <1>3 DEF AddEvent
    <2> DEFINE new == Rest(work["decision"], audits)
    <2>3. /\ new.at \notin {"written", "check", "unlink"} /\ new.replaced = NoImage
          /\ new.image \in {NoImage, work["decision"].image}
      BY DEF Rest, Busy, NoWork
    <2>4. /\ shown' = [shown EXCEPT ![work["decision"].event] = work["decision"].image]
          /\ UNCHANGED <<audit, face, look>>
      BY <1>3 DEF AddEvent
    <2>5. \A p : Apart(p, shown, audit, face, look) /\ p # work["decision"].image => Apart(p, shown', audit', face', look')
      BY <2>4 DEF Apart, TypeOK
    <2>6. \A v \in Writer \ {"decision"} : work[v].at = "written" =>
             Apart(work[v].image, shown, audit, face, look) /\ work["decision"].image # work[v].image
      BY <2>1 DEF NewImage
    <2> HIDE DEF new
    <2>7. \A v \in Writer \ {"decision"} : work[v].at = "written" =>
             new.image # work[v].image /\ new.replaced # work[v].image
      BY <2>3, <2>6 DEF Apart
    <2>8. work' = [work EXCEPT !["decision"] = new]
      BY <2>2 DEF new
    <2>9. LeavesOthers("decision", new)
      BY <2>5, <2>6, <2>7 DEF LeavesOthers
    <2> QED BY <2>1, <2>3, <2>8, <2>9, MovesOn
  <1>4. CASE AddFace
    BY <1>1, <1>4 DEF AddFace, Apart, TypeOK, NoLook
  <1>5. ASSUME NEW e \in Event, LookForFace(e) PROVE NewImage'
    BY <1>1, <1>5 DEF LookForFace, Apart, rows
  <1>6. ASSUME NEW p \in Image, ClearBatch(p) PROVE NewImage'
    <2>1. UNCHANGED <<work, look>> /\ ClearReferences({p})
      BY <1>6 DEF ClearBatch
    <2> QED BY <2>1, <1>1, ClearedRows DEF Apart
  <1>7. CASE Restart
    <2>1. work' = [w \in Writer |-> NoWork]
      BY <1>7 DEF Restart
    <2> QED BY <2>1 DEF NewImage, NoWork, Busy
  <1>8. ASSUME NEW w \in Writer, Replace(w) PROVE NewImage'
    <2>1. PICK audits \in BOOLEAN :
            work' = [work EXCEPT ![w] = Replacing(work[w], shown[work[w].event], audits)]
      BY <1>8 DEF Replace
    <2> DEFINE new == Replacing(work[w], shown[work[w].event], audits)
    <2>2. /\ new.at # "written"
          /\ new.at \in {"check", "unlink"} => new.replaced # NoImage
          /\ new.replaced \in {NoImage, shown[work[w].event]}
          /\ new.image \in {NoImage, work[w].image}
      BY DEF Replacing, Rest, Busy, NoWork
    <2>3. /\ shown' = [shown EXCEPT ![work[w].event] = work[w].image]
          /\ UNCHANGED <<audit, face, look>>
      BY <1>8 DEF Replace
    <2>4. \A p : Apart(p, shown, audit, face, look) /\ p # work[w].image => Apart(p, shown', audit', face', look')
      BY <2>3 DEF Apart, TypeOK
    <2>5. \A v \in Writer \ {w} : work[v].at = "written" =>
             Apart(work[v].image, shown, audit, face, look) /\ work[w].image # work[v].image
      BY DEF NewImage
    <2>6. work[w].event \in Event
      BY DEF TypeOK
    <2>7. work' = [work EXCEPT ![w] = new]
      BY <2>1
    <2> HIDE DEF new
    <2>8. \A v \in Writer \ {w} : work[v].at = "written" =>
             new.image # work[v].image /\ new.replaced # work[v].image
      BY <2>2, <2>5, <2>6 DEF Apart
    <2>9. LeavesOthers(w, new)
      BY <2>4, <2>5, <2>8 DEF LeavesOthers
    <2> QED BY <2>2, <2>7, <2>9, MovesOn
  <1>9. ASSUME NEW w \in Writer, Reject(w) PROVE NewImage'
    <2>1. /\ work[w].at = "written" /\ UNCHANGED <<shown, audit, face, look>>
      BY <1>9 DEF Reject, rows
    <2>2. /\ Apart(work[w].image, shown, audit, face, look) /\ \A p : Apart(p, shown, audit, face, look) => Apart(p, shown', audit', face', look')
          /\ \A v \in Writer \ {w} : work[v].at = "written" =>
               /\ Apart(work[v].image, shown, audit, face, look) /\ work[w].image # work[v].image
               /\ work[w].replaced # work[v].image
      BY <2>1 DEF NewImage, Apart
    <2>3. CASE work' = [work EXCEPT ![w].at = "audit"]
      <3> DEFINE new == [work[w] EXCEPT !.at = "audit"]
      <3>1. new.at = "audit" /\ new.image = work[w].image /\ new.replaced = work[w].replaced
        BY DEF TypeOK
      <3>2. work' = [work EXCEPT ![w] = new]
        BY <2>3
      <3> HIDE DEF new
      <3>3. LeavesOthers(w, new)
        BY <2>2, <3>1 DEF LeavesOthers
      <3> QED BY <3>1, <3>2, <3>3, MovesOn
    <2>4. CASE work' = [work EXCEPT ![w] = Busy("check", 1, NoImage, work[w].image)]
      <3> DEFINE new == Busy("check", 1, NoImage, work[w].image)
      <3>1. new.at = "check" /\ new.image = NoImage /\ new.replaced = work[w].image
        BY DEF Busy
      <3>2. work' = [work EXCEPT ![w] = new]
        BY <2>4
      <3> HIDE DEF new
      <3>3. work[w].image # NoImage /\ \A v \in Writer \ {w} : work[v].at = "written" =>
               work[v].image # NoImage
        BY <2>2 DEF Apart
      <3>4. LeavesOthers(w, new)
        BY <2>2, <3>1, <3>3 DEF LeavesOthers
      <3> QED BY <3>1, <3>2, <3>3, <3>4, MovesOn
    <2> QED BY <1>9, <2>3, <2>4 DEF Reject
  <1>10. ASSUME NEW w \in Writer, RecordAudit(w) PROVE NewImage'
    <2> DEFINE new == Replacing(work[w], audit[work[w].event], FALSE)
    <2>1. /\ new.at # "written"
          /\ new.at \in {"check", "unlink"} => new.replaced # NoImage
          /\ new.replaced \in {NoImage, audit[work[w].event]}
          /\ new.image = NoImage
      BY DEF Replacing, Rest, Busy, NoWork
    <2>2. /\ audit' = [audit EXCEPT ![work[w].event] = work[w].image]
          /\ UNCHANGED <<shown, face, look>>
          /\ work' = [work EXCEPT ![w] = new]
      BY <1>10 DEF RecordAudit
    <2>3. \A p : Apart(p, shown, audit, face, look) /\ p # work[w].image => Apart(p, shown', audit', face', look')
      BY <2>2 DEF Apart, TypeOK
    <2>4. \A v \in Writer \ {w} : work[v].at = "written" =>
             Apart(work[v].image, shown, audit, face, look) /\ work[w].image # work[v].image
      BY DEF NewImage
    <2>5. work[w].event \in Event
      BY DEF TypeOK
    <2> HIDE DEF new
    <2>6. \A v \in Writer \ {w} : work[v].at = "written" =>
             new.image # work[v].image /\ new.replaced # work[v].image
      BY <2>1, <2>4, <2>5 DEF Apart
    <2>7. LeavesOthers(w, new)
      BY <2>3, <2>4, <2>6 DEF LeavesOthers
    <2> QED BY <2>1, <2>2, <2>7, MovesOn
  <1>11. ASSUME NEW w \in Writer, CheckReplaced(w) \/ UnlinkReplaced(w) PROVE NewImage'
    <2>1. work[w].at \in {"check", "unlink"} /\ UNCHANGED <<shown, audit, face, look>>
      BY <1>11 DEF CheckReplaced, UnlinkReplaced, rows
    <2>2. PICK new \in {Rest(work[w], work[w].image # NoImage), [work[w] EXCEPT !.at = "unlink"]} :
            work' = [work EXCEPT ![w] = new]
      BY <1>11 DEF CheckReplaced, UnlinkReplaced
    <2>3. /\ new.at # "written"
          /\ new.at \in {"check", "unlink"} => new.replaced # NoImage
          /\ new.replaced \in {NoImage, work[w].replaced} /\ new.image \in {NoImage, work[w].image}
      <3>1. CASE new = Rest(work[w], work[w].image # NoImage)
        BY <3>1 DEF Rest, Busy, NoWork
      <3>2. CASE new = [work[w] EXCEPT !.at = "unlink"]
        BY <2>1, <3>2 DEF NewImage, TypeOK
      <3> QED BY <2>2, <3>1, <3>2
    <2>4. \A v \in Writer \ {w} : work[v].at = "written" =>
             /\ Apart(work[v].image, shown, audit, face, look) /\ work[w].image # work[v].image
             /\ work[w].replaced # work[v].image
      BY DEF NewImage
    <2>5. \A v \in Writer \ {w} : work[v].at = "written" =>
             new.image # work[v].image /\ new.replaced # work[v].image
      BY <2>3, <2>4 DEF Apart
    <2>6. \A p : Apart(p, shown, audit, face, look) => Apart(p, shown', audit', face', look')
      BY <2>1 DEF Apart
    <2>7. LeavesOthers(w, new)
      BY <2>4, <2>5, <2>6 DEF LeavesOthers
    <2> QED BY <2>2, <2>3, <2>7, MovesOn
  <1>12. CASE Leaves \/ Returns \/ Ages \/ Claim \/ Release \/ PassFails \/ UNCHANGED vars
    BY <1>1, <1>12 DEF Leaves, Returns, Ages, Claim, ClaimKeeping, Release, PassFails, Apart, vars, rows
  <1>13. ASSUME NEW p \in Image, UnlinkClaimed(p) PROVE NewImage'
    BY <1>1, <1>13 DEF UnlinkClaimed, Apart, rows
  <1>14. ASSUME NEW e \in Event, AutoPin(e) \/ ManualPin(e) \/ Unpin(e) PROVE NewImage'
    BY <1>1, <1>14 DEF AutoPin, ManualPin, Unpin, Apart
  <1> QED BY <1>2, <1>3, <1>4, <1>5, <1>6, <1>7, <1>8, <1>9, <1>10, <1>11, <1>12, <1>13, <1>14
          DEF Next, Retention

\* Nobody else knows the image a writer is about to give a row.
THEOREM NewImages == Spec => []NewImage
  <1>1. Init => NewImage
    BY DEF Init, NewImage, NoWork, Busy
  <1> QED BY <1>1, TypeCorrect, NewImageStep, PTL DEF Spec

-----------------------------------------------------------------------------
(***************************************************************************)
(* What a pass counts as removed is gone, and stays gone, since a new      *)
(* image has a number of its own, or was not found while the filesystem    *)
(* was away.                                                               *)
(***************************************************************************)
RemovedIsGone == pass.removed \cap file \subseteq pass.missed

LEMMA GoneStep == TypeOK /\ RemovedIsGone /\ [Next]_vars => RemovedIsGone'
  <1> SUFFICES ASSUME TypeOK, RemovedIsGone, [Next]_vars PROVE RemovedIsGone'
    OBVIOUS
  <1> USE DEF RemovedIsGone
  <1>1. ASSUME file' \subseteq file,
               pass'.removed = {} \/ UNCHANGED pass
        PROVE  RemovedIsGone'
    BY <1>1
  <1>2. ASSUME NEW w \in Writer, WriteImage(w) PROVE RemovedIsGone'
    <2>1. pass.removed \subseteq 1..written
      BY DEF TypeOK
    <2>2. written + 1 \notin 1..written /\ pass' = pass /\ file' = file \union {written + 1}
      BY <1>2 DEF WriteImage, TypeOK, retention
    <2>3. pass'.removed \cap file \subseteq pass'.missed /\ written + 1 \notin pass'.removed
      BY <2>1, <2>2
    <2>4. \A n : n \in file' => n \in file \/ n = written + 1
      BY <2>2
    <2> QED BY <2>3, <2>4 DEF RemovedIsGone
  <1>3. ASSUME NEW p \in Image, UnlinkClaimed(p) PROVE RemovedIsGone'
    <2> DEFINE removed == pass.removed \union {p}
    <2>1. \/ /\ pass'.removed = removed /\ file' = file \ (Seen \intersect {p})
             /\ pass'.missed = pass.missed \union ({p} \intersect (file \ Seen))
          \/ pass'.removed = pass.removed /\ pass'.missed = pass.missed /\ file' = file
      BY <1>3 DEF UnlinkClaimed, TypeOK
    <2> QED BY <2>1
  <1>4. ASSUME NEW p \in Image, ClearBatch(p) PROVE RemovedIsGone'
    <2>1. /\ file' = file /\ pass'.removed = pass.removed \ {p}
          /\ pass'.missed = pass.missed \ {p}
      BY <1>4 DEF ClearBatch, TypeOK
    <2> QED BY <2>1
  <1>5. CASE Claim \/ Release \/ PassFails \/ Restart
    BY <1>5, <1>1 DEF Claim, ClaimKeeping, Release, PassFails, Restart, NoPass
  <1>6. CASE Leaves \/ Returns \/ AddEvent \/ AddFace \/ Ages \/ UNCHANGED vars
    BY <1>6, <1>1 DEF Leaves, Returns, AddEvent, AddFace, Ages, vars, retention
  <1>7. ASSUME NEW w \in Writer, \/ Replace(w) \/ Reject(w) \/ RecordAudit(w)
                                 \/ CheckReplaced(w) \/ UnlinkReplaced(w)
        PROVE  RemovedIsGone'
    BY <1>7, <1>1 DEF Replace, Reject, RecordAudit, CheckReplaced, UnlinkReplaced, retention
  <1>8. ASSUME NEW e \in Event, LookForFace(e) \/ AutoPin(e) \/ ManualPin(e) \/ Unpin(e)
        PROVE  RemovedIsGone'
    BY <1>8, <1>1 DEF LookForFace, AutoPin, ManualPin, Unpin, retention
  <1> QED BY <1>2, <1>3, <1>4, <1>5, <1>6, <1>7, <1>8 DEF Next, Retention

\* An event loses its image reference only when the file is gone or was not found
\* because the filesystem was away: after clearing, failed passes and recovery
\* alike.
THEOREM ReferencesAreClearedLast == Spec => ClearedOnlyMissing
  <1> DEFINE Step(e) == shown[e] # NoImage /\ shown'[e] = NoImage
                          => shown[e] \notin file \/ ~mounted \/ shown[e] \in pass.missed
  <1>1. ASSUME TypeOK, RemovedIsGone, NewImage, [Next]_vars, NEW e \in Event PROVE Step(e)
    <2>1. ASSUME UNCHANGED shown PROVE Step(e)
      BY <2>1
    <2>2. ASSUME NEW p \in Image, ClearBatch(p) PROVE Step(e)
      BY <1>1, <2>2, ClearedRows DEF ClearBatch, RemovedIsGone
    <2>3. CASE Restart
      BY <1>1, <2>3, ClearedRows DEF Restart, Seen
    <2>4. CASE AddEvent
      <3>1. "decision" \in Writer
        BY DEF Writer
      <3> QED BY <1>1, <2>4, <3>1 DEF AddEvent, TypeOK, NewImage, Apart
    <2>5. ASSUME NEW w \in Writer, Replace(w) PROVE Step(e)
      BY <1>1, <2>5 DEF Replace, TypeOK, NewImage, Apart
    <2>6. CASE \/ Leaves \/ Returns \/ AddFace \/ Ages \/ Claim \/ Release \/ PassFails
               \/ UNCHANGED vars
      BY <2>1, <2>6 DEF Leaves, Returns, AddFace, Ages, Claim, ClaimKeeping, Release, PassFails, vars, rows
    <2>7. ASSUME NEW p \in Image, UnlinkClaimed(p) PROVE Step(e)
      BY <2>1, <2>7 DEF UnlinkClaimed, rows
    <2>8. ASSUME NEW w \in Writer, \/ WriteImage(w) \/ Reject(w) \/ RecordAudit(w)
                                   \/ CheckReplaced(w) \/ UnlinkReplaced(w)
          PROVE  Step(e)
      BY <2>1, <2>8 DEF WriteImage, Reject, RecordAudit, CheckReplaced, UnlinkReplaced, rows
    <2>9. ASSUME NEW f \in Event, LookForFace(f) \/ AutoPin(f) \/ ManualPin(f) \/ Unpin(f)
          PROVE  Step(e)
      BY <2>1, <2>9 DEF LookForFace, AutoPin, ManualPin, Unpin, rows
    <2> HIDE DEF Step
    <2> QED BY <1>1, <2>2, <2>3, <2>4, <2>5, <2>6, <2>7, <2>8, <2>9 DEF Next, Retention
  <1>2. TypeOK /\ RemovedIsGone /\ NewImage /\ [Next]_vars => [\A e \in Event : Step(e)]_vars
    BY <1>1
  <1>3. Init => RemovedIsGone
    BY DEF Init, NoPass, RemovedIsGone
  <1>4. ClearedOnlyMissing <=> [][\A e \in Event : Step(e)]_vars
    BY DEF ClearedOnlyMissing
  <1> HIDE DEF Step
  <1> QED BY <1>2, <1>3, <1>4, TypeCorrect, NewImages, GoneStep, PTL DEF Spec

-----------------------------------------------------------------------------
(***************************************************************************)
(* Between the check and the deletion no event comes to show the image.    *)
(***************************************************************************)
DoomedIsHidden ==
  \A w \in Writer : work[w].at = "unlink" => \A e \in Event : shown[e] # work[w].replaced

LEMMA DoomedStep == TypeOK /\ NewImage /\ DoomedIsHidden /\ [Next]_vars => DoomedIsHidden'
  <1> SUFFICES ASSUME TypeOK, NewImage, DoomedIsHidden, [Next]_vars PROVE DoomedIsHidden'
    OBVIOUS
  <1>1. ASSUME NEW w \in Writer, NEW new, work' = [work EXCEPT ![w] = new],
               new.at = "unlink" => \A e \in Event : shown'[e] # new.replaced,
               \/ UNCHANGED shown
               \/ \E e \in Event : /\ work[w].at = "written"
                                   /\ shown' = [shown EXCEPT ![e] = work[w].image]
        PROVE  DoomedIsHidden'
    <2>1. work'[w] = new /\ \A v \in Writer : v # w => work'[v] = work[v]
      BY <1>1 DEF TypeOK
    <2>2. ASSUME NEW v \in Writer, v # w, work[v].at = "unlink", NEW f \in Event
          PROVE  shown'[f] # work[v].replaced
      <3>1. shown'[f] \in {shown[f], work[w].image}
        BY <1>1 DEF TypeOK
      <3>2. shown[f] # work[v].replaced
        BY <2>2 DEF DoomedIsHidden
      <3>3. work[w].at = "written" => work[v].replaced # work[w].image
        BY DEF NewImage
      <3>4. work[w].at # "written" => shown' = shown
        BY <1>1
      <3> QED BY <3>1, <3>2, <3>3, <3>4
    <2> QED BY <1>1, <2>1, <2>2 DEF DoomedIsHidden
  <1>2. ASSUME UNCHANGED work, \A e \in Event : shown'[e] \in {NoImage, shown[e]}
        PROVE  DoomedIsHidden'
    BY <1>2 DEF DoomedIsHidden, NewImage
  <1>3. ASSUME UNCHANGED <<work, shown>> PROVE DoomedIsHidden'
    BY <1>3 DEF DoomedIsHidden
  <1>4. ASSUME NEW w \in Writer, WriteImage(w) PROVE DoomedIsHidden'
    <2>1. PICK e : work' = [work EXCEPT ![w] = Busy("written", e, written + 1, NoImage)]
      BY <1>4 DEF WriteImage
    <2>2. Busy("written", e, written + 1, NoImage).at = "written" /\ UNCHANGED shown
      BY <1>4 DEF Busy, WriteImage, rows
    <2> QED BY <1>1, <2>1, <2>2
  <1>5. CASE AddEvent
    <2>1. PICK audits \in BOOLEAN :
            work' = [work EXCEPT !["decision"] = Rest(work["decision"], audits)]
      BY <1>5 DEF AddEvent
    <2>2. Rest(work["decision"], audits).at # "unlink"
      BY DEF Rest, Busy, NoWork
    <2>3. /\ "decision" \in Writer /\ work["decision"].at = "written"
          /\ shown' = [shown EXCEPT ![work["decision"].event] = work["decision"].image]
      BY <1>5 DEF AddEvent, Writer
    <2>4. work["decision"].event \in Event
      BY <2>3 DEF TypeOK
    <2> QED BY <1>1, <2>1, <2>2, <2>3, <2>4
  <1>6. ASSUME NEW w \in Writer, Replace(w) PROVE DoomedIsHidden'
    <2>1. PICK audits \in BOOLEAN :
            work' = [work EXCEPT ![w] = Replacing(work[w], shown[work[w].event], audits)]
      BY <1>6 DEF Replace
    <2>2. Replacing(work[w], shown[work[w].event], audits).at # "unlink"
      BY DEF Replacing, Rest, Busy, NoWork
    <2>3. /\ work[w].at = "written" /\ work[w].event \in Event
          /\ shown' = [shown EXCEPT ![work[w].event] = work[w].image]
      BY <1>6 DEF Replace, TypeOK
    <2> QED BY <1>1, <2>1, <2>2, <2>3
  <1>7. ASSUME NEW w \in Writer, Reject(w) PROVE DoomedIsHidden'
    <2>1. PICK new \in {[work[w] EXCEPT !.at = "audit"], Busy("check", 1, NoImage, work[w].image)} :
            work' = [work EXCEPT ![w] = new]
      BY <1>7 DEF Reject
    <2>2. new.at # "unlink" /\ UNCHANGED shown
      BY <1>7, <2>1 DEF Busy, Reject, rows, TypeOK
    <2> QED BY <1>1, <2>1, <2>2
  <1>8. ASSUME NEW w \in Writer, RecordAudit(w) PROVE DoomedIsHidden'
    <2> DEFINE new == Replacing(work[w], audit[work[w].event], FALSE)
    <2>1. work' = [work EXCEPT ![w] = new] /\ UNCHANGED shown
      BY <1>8 DEF RecordAudit
    <2>2. new.at # "unlink"
      BY DEF Replacing, Rest, Busy, NoWork
    <2> HIDE DEF new
    <2> QED BY <1>1, <2>1, <2>2
  <1>9. ASSUME NEW w \in Writer, CheckReplaced(w) PROVE DoomedIsHidden'
    <2>1. UNCHANGED shown
      BY <1>9 DEF CheckReplaced, rows
    <2>2. CASE Referenced(work[w].replaced)
      <3> DEFINE new == Rest(work[w], work[w].image # NoImage)
      <3>1. work' = [work EXCEPT ![w] = new]
        BY <1>9, <2>2 DEF CheckReplaced
      <3>2. new.at # "unlink"
        BY DEF Rest, Busy, NoWork
      <3> HIDE DEF new
      <3> QED BY <1>1, <2>1, <3>1, <3>2
    <2>3. CASE ~Referenced(work[w].replaced)
      <3> DEFINE new == [work[w] EXCEPT !.at = "unlink"]
      <3>1. work' = [work EXCEPT ![w] = new]
        BY <1>9, <2>3 DEF CheckReplaced
      <3>2. \A e \in Event : shown'[e] # new.replaced
        BY <2>1, <2>3 DEF Referenced, Shows, TypeOK
      <3> HIDE DEF new
      <3> QED BY <1>1, <2>1, <3>1, <3>2
    <2> QED BY <2>2, <2>3
  <1>10. ASSUME NEW w \in Writer, UnlinkReplaced(w) PROVE DoomedIsHidden'
    <2> DEFINE new == Rest(work[w], work[w].image # NoImage)
    <2>1. work' = [work EXCEPT ![w] = new] /\ UNCHANGED shown
      BY <1>10 DEF UnlinkReplaced, rows
    <2>2. new.at # "unlink"
      BY DEF Rest, Busy, NoWork
    <2> HIDE DEF new
    <2> QED BY <1>1, <2>1, <2>2
  <1>11. ASSUME NEW p \in Image, ClearBatch(p) PROVE DoomedIsHidden'
    <2>1. UNCHANGED work /\ ClearReferences({p})
      BY <1>11 DEF ClearBatch
    <2> QED BY <2>1, <1>2, ClearedRows
  <1>12. CASE Restart
    BY <1>12 DEF Restart, DoomedIsHidden, NoWork, Busy
  <1>13. CASE \/ Leaves \/ Returns \/ AddFace \/ Ages \/ Claim \/ Release \/ PassFails
              \/ UNCHANGED vars
    BY <1>3, <1>13 DEF Leaves, Returns, AddFace, Ages, Claim, ClaimKeeping, Release, PassFails, vars, rows
  <1>14. ASSUME NEW p \in Image, UnlinkClaimed(p) PROVE DoomedIsHidden'
    BY <1>3, <1>14 DEF UnlinkClaimed, rows
  <1>15. ASSUME NEW e \in Event, LookForFace(e) \/ AutoPin(e) \/ ManualPin(e) \/ Unpin(e)
         PROVE  DoomedIsHidden'
    BY <1>3, <1>15 DEF LookForFace, AutoPin, ManualPin, Unpin, rows
  <1> QED BY <1>4, <1>5, <1>6, <1>7, <1>8, <1>9, <1>10, <1>11, <1>12, <1>13, <1>14, <1>15
          DEF Next, Retention

\* A replaced image is deleted only when no event shows it, whatever the other
\* writers, retention and restarts do between the check and the deletion.
THEOREM DeletedIsNotShown == Spec => ReplacedIsNotShown
  <1> DEFINE Step == \A w \in Writer : work[w].at = "unlink" /\ work[w].replaced \in file \ file'
                        => ~Shows(work[w].replaced)
  <1>1. DoomedIsHidden /\ [Next]_vars => [Step]_vars
    BY DEF DoomedIsHidden, Shows
  <1>2. Init => DoomedIsHidden
    BY DEF Init, DoomedIsHidden, NoWork, Busy
  <1>3. ReplacedIsNotShown <=> [][Step]_vars
    BY DEF ReplacedIsNotShown
  <1> HIDE DEF Step
  <1> QED BY <1>1, <1>2, <1>3, TypeCorrect, NewImages, DoomedStep, PTL DEF Spec

-----------------------------------------------------------------------------
(***************************************************************************)
(* Without faults no image is left behind.                                 *)
(***************************************************************************)

\* An event gets its first image when it is stored, and only the decision
\* stores events; the other writers replace images of stored ones.
NewEvents ==
  /\ \A e \in Event : e > admitted => shown[e] = NoImage
  /\ \A w \in Writer : work[w].at = "written" =>
       IF w = "decision" THEN work[w].event = admitted + 1
                         ELSE work[w].event <= admitted

\* Face ingestion inserts a row where there is none.
NewFaces ==
  /\ \A e \in Event : pin[e] = "absent" => face[e] = NoImage
  /\ look # NoLook => pin[look.event] = "absent"

\* What a writer still has to record, or to delete once nothing refers to it.
Owed(w, p) ==
  \/ work[w].at # "idle" /\ work[w].image = p
  \/ work[w].at \in {"check", "unlink"} /\ work[w].replaced = p

Known(p) == Referenced(p) \/ look.image = p \/ \E w \in Writer : Owed(w, p)
Accounted == faults = 0 => \A p \in file : Known(p)

\* An absence is a fault.
Present == faults = 0 => mounted /\ pass.missed = {}

LEMMA NewEventsStep == TypeOK /\ NewEvents /\ [Next]_vars => NewEvents'
  <1> SUFFICES ASSUME TypeOK, NewEvents, [Next]_vars PROVE NewEvents'
    OBVIOUS
  <1>t. /\ admitted \in Nat /\ "decision" \in Writer
        /\ \A e \in Event : e \in Nat
        /\ \A w \in Writer : work[w].event \in Event
    <2>1. \A w \in Writer : work[w].event \in Event
      BY DEF TypeOK
    <2> QED BY <2>1, SnapshotAssumption DEF SnapshotAssumption, TypeOK, Event, Writer
  <1>1. ASSUME NEW w \in Writer, NEW new, work' = [work EXCEPT ![w] = new],
               new.at # "written", UNCHANGED <<admitted, shown>>
        PROVE  NewEvents'
    BY <1>1 DEF NewEvents, TypeOK
  <1>2. ASSUME UNCHANGED <<admitted, work>>, \A e \in Event : shown'[e] \in {NoImage, shown[e]}
        PROVE  NewEvents'
    BY <1>2 DEF NewEvents
  <1>3. ASSUME NEW w \in Writer, WriteImage(w) PROVE NewEvents'
    <2>1. PICK e \in (IF w = "decision" THEN {admitted + 1} \cap Event ELSE 1..admitted) :
            work' = [work EXCEPT ![w] = Busy("written", e, written + 1, NoImage)]
      BY <1>3 DEF WriteImage
    <2>2. Busy("written", e, written + 1, NoImage).event = e
      BY DEF Busy
    <2>3. UNCHANGED <<admitted, shown>>
      BY <1>3 DEF WriteImage, rows
    <2> QED BY <1>t, <2>1, <2>2, <2>3 DEF NewEvents, TypeOK
  <1>4. CASE AddEvent
    <2>1. PICK audits \in BOOLEAN :
            work' = [work EXCEPT !["decision"] = Rest(work["decision"], audits)]
      BY <1>4 DEF AddEvent
    <2>2. Rest(work["decision"], audits).at # "written"
      BY DEF Rest, Busy, NoWork
    <2>3. /\ admitted' = work["decision"].event /\ work["decision"].event = admitted + 1
          /\ shown' = [shown EXCEPT ![work["decision"].event] = work["decision"].image]
      BY <1>4, <1>t DEF AddEvent, NewEvents
    <2>4. \A e \in Event : e > admitted' => shown'[e] = NoImage
      BY <1>t, <2>3 DEF NewEvents, TypeOK
    <2>5. ASSUME NEW w \in Writer, work'[w].at = "written"
          PROVE  w # "decision" /\ work'[w].event <= admitted'
      <3>1. w # "decision" /\ work'[w] = work[w]
        BY <1>t, <2>1, <2>2, <2>5 DEF TypeOK
      <3>2. work[w].event <= admitted /\ work[w].event \in Nat
        BY <1>t, <2>5, <3>1 DEF NewEvents
      <3> QED BY <1>t, <2>3, <3>1, <3>2
    <2> QED BY <2>4, <2>5 DEF NewEvents
  <1>5. ASSUME NEW w \in Writer, Replace(w) PROVE NewEvents'
    <2> DEFINE e0 == work[w].event
    <2>1. PICK audits \in BOOLEAN :
            work' = [work EXCEPT ![w] = Replacing(work[w], shown[e0], audits)]
      BY <1>5 DEF Replace
    <2>2. Replacing(work[w], shown[e0], audits).at # "written"
      BY DEF Replacing, Rest, Busy, NoWork
    <2>3. /\ shown' = [shown EXCEPT ![e0] = work[w].image] /\ UNCHANGED admitted
          /\ e0 \in Nat /\ e0 <= admitted
      BY <1>5, <1>t DEF Replace, NewEvents
    <2>4. \A e \in Event : e > admitted' => shown'[e] = NoImage
      <3> HIDE DEF e0
      <3> QED BY <1>t, <2>3 DEF NewEvents, TypeOK
    <2>5. \A v \in Writer : work'[v].at = "written" => work'[v] = work[v]
      <3> HIDE DEF e0
      <3> QED BY <2>1, <2>2 DEF TypeOK
    <2> QED BY <2>3, <2>4, <2>5 DEF NewEvents
  <1>6. ASSUME NEW w \in Writer, Reject(w) \/ RecordAudit(w) \/ CheckReplaced(w) \/ UnlinkReplaced(w)
        PROVE  NewEvents'
    <2> DEFINE rest == Rest(work[w], work[w].image # NoImage)
               next == Replacing(work[w], audit[work[w].event], FALSE)
               audits == [work[w] EXCEPT !.at = "audit"]
               drops == Busy("check", 1, NoImage, work[w].image)
               unlinks == [work[w] EXCEPT !.at = "unlink"]
    <2>1. \E new \in {rest, next, audits, drops, unlinks} : work' = [work EXCEPT ![w] = new]
      <3> HIDE DEF rest, next, audits, drops, unlinks
      <3>1. CASE Reject(w)
        BY <3>1 DEF Reject, audits, drops
      <3>2. CASE RecordAudit(w)
        BY <3>2 DEF RecordAudit, next
      <3>3. CASE CheckReplaced(w)
        BY <3>3 DEF CheckReplaced, rest, unlinks
      <3>4. CASE UnlinkReplaced(w)
        BY <3>4 DEF UnlinkReplaced, rest
      <3> QED BY <1>6, <3>1, <3>2, <3>3, <3>4
    <2>2. rest.at # "written" /\ next.at # "written" /\ drops.at # "written"
      BY DEF Replacing, Rest, Busy, NoWork
    <2>3. audits.at # "written" /\ unlinks.at # "written"
      BY DEF TypeOK
    <2>4. UNCHANGED <<admitted, shown>>
      BY <1>6 DEF Reject, RecordAudit, CheckReplaced, UnlinkReplaced, rows
    <2> HIDE DEF rest, next, audits, drops, unlinks
    <2> QED BY <1>1, <2>1, <2>2, <2>3, <2>4
  <1>7. ASSUME NEW p \in Image, ClearBatch(p) PROVE NewEvents'
    BY <1>2, <1>7, ClearedRows DEF ClearBatch
  <1>8. CASE Restart
    <2>1. \A e \in Event : shown'[e] \in {NoImage, shown[e]}
      BY <1>8, ClearedRows DEF Restart
    <2> QED BY <1>8, <2>1 DEF Restart, NewEvents, NoWork, Busy
  <1>9. CASE \/ Leaves \/ Returns \/ AddFace \/ Ages \/ Claim \/ Release \/ PassFails
             \/ UNCHANGED vars
    BY <1>2, <1>9 DEF Leaves, Returns, AddFace, Ages, Claim, ClaimKeeping, Release, PassFails, vars, rows
  <1>10. ASSUME NEW p \in Image, UnlinkClaimed(p) PROVE NewEvents'
    BY <1>2, <1>10 DEF UnlinkClaimed, rows
  <1>11. ASSUME NEW e \in Event, LookForFace(e) \/ AutoPin(e) \/ ManualPin(e) \/ Unpin(e)
         PROVE  NewEvents'
    BY <1>2, <1>11 DEF LookForFace, AutoPin, ManualPin, Unpin, rows
  <1> QED BY <1>3, <1>4, <1>5, <1>6, <1>7, <1>8, <1>9, <1>10, <1>11 DEF Next, Retention

LEMMA NewFacesStep == TypeOK /\ NewFaces /\ [Next]_vars => NewFaces'
  <1> SUFFICES ASSUME TypeOK, NewFaces, [Next]_vars PROVE NewFaces'
    OBVIOUS
  <1>1. ASSUME UNCHANGED <<face, pin, look>> PROVE NewFaces'
    BY <1>1 DEF NewFaces
  <1>2. CASE AddFace
    BY <1>2 DEF AddFace, NewFaces, TypeOK
  <1>3. ASSUME NEW e \in Event, LookForFace(e) PROVE NewFaces'
    BY <1>3 DEF LookForFace, NewFaces, rows
  <1>4. ASSUME NEW e \in Event, AutoPin(e) \/ ManualPin(e) \/ Unpin(e) PROVE NewFaces'
    BY <1>4 DEF AutoPin, ManualPin, Unpin, NewFaces, TypeOK
  <1>5. ASSUME NEW p \in Image, ClearBatch(p) PROVE NewFaces'
    <2>1. UNCHANGED <<pin, look>> /\ \A e \in Event : face'[e] \in {NoImage, face[e]}
      BY <1>5, ClearedRows DEF ClearBatch, ClearReferences
    <2> QED BY <2>1 DEF NewFaces
  <1>6. CASE Restart
    <2>1. UNCHANGED pin /\ \A e \in Event : face'[e] \in {NoImage, face[e]}
      BY <1>6, ClearedRows DEF Restart, ClearReferences
    <2> QED BY <1>6, <2>1 DEF Restart, NewFaces
  <1>7. ASSUME NEW w \in Writer,
               \/ WriteImage(w) \/ Replace(w) \/ Reject(w) \/ RecordAudit(w)
               \/ CheckReplaced(w) \/ UnlinkReplaced(w)
        PROVE  NewFaces'
    BY <1>1, <1>7
    DEF WriteImage, Replace, Reject, RecordAudit, CheckReplaced, UnlinkReplaced, rows
  <1>8. CASE \/ Leaves \/ Returns \/ AddEvent \/ Ages \/ Claim \/ Release \/ PassFails
             \/ UNCHANGED vars
    BY <1>1, <1>8 DEF Leaves, Returns, AddEvent, Ages, Claim, ClaimKeeping, Release, PassFails, vars, rows
  <1>9. ASSUME NEW p \in Image, UnlinkClaimed(p) PROVE NewFaces'
    BY <1>1, <1>9 DEF UnlinkClaimed, rows
  <1> QED BY <1>2, <1>3, <1>4, <1>5, <1>6, <1>7, <1>8, <1>9 DEF Next, Retention

LEMMA PresentStep == TypeOK /\ Present /\ [Next]_vars => Present'
  <1> SUFFICES ASSUME TypeOK, Present, [Next]_vars PROVE Present'
    OBVIOUS
  <1>f. faults \in Nat /\ (Fault => faults' # 0)
    BY SnapshotAssumption DEF SnapshotAssumption, TypeOK, Fault
  <1>1. ASSUME UNCHANGED <<mounted, pass>>, faults' = faults \/ Fault PROVE Present'
    BY <1>f, <1>1 DEF Present
  <1>2. CASE Leaves \/ PassFails \/ Restart
    BY <1>f, <1>2 DEF Leaves, PassFails, Restart, Present
  <1>3. CASE AddEvent \/ AddFace \/ Ages \/ UNCHANGED vars
    BY <1>1, <1>3 DEF AddEvent, AddFace, Ages, vars, retention
  <1>9. CASE Returns
    <2>1. mounted' = TRUE /\ pass' = pass /\ faults' = faults
      BY <1>9, Zenon DEF Returns, retention
    <2> QED BY <2>1 DEF Present
  <1>4. CASE Claim \/ Release
    BY <1>4 DEF Claim, ClaimKeeping, Release, NoPass, Present
  <1>5. ASSUME NEW p \in Image, UnlinkClaimed(p) PROVE Present'
    <2>1. mounted' = mounted /\ (Fault \/ faults' = faults)
      BY <1>5, Zenon DEF UnlinkClaimed
    <2>2. CASE faults' = 0
      <3>1. faults = 0 /\ mounted /\ pass.missed = {}
        BY <1>f, <2>1, <2>2 DEF Present
      <3>2. Seen = file
        BY <3>1 DEF Seen
      <3>3. pass'.missed = {}
        <4>1. pass' = [pass EXCEPT !.todo = @ \ {p}, !.removed = @ \union {p},
                                   !.missed = @ \union ({p} \intersect (file \ Seen))]
          BY <1>f, <1>5, <2>2, Zenon DEF UnlinkClaimed
        <4> QED BY <3>1, <3>2, <4>1 DEF TypeOK
      <3> QED BY <2>1, <3>1, <3>3 DEF Present
    <2> QED BY <2>2 DEF Present
  <1>6. ASSUME NEW p \in Image, ClearBatch(p) PROVE Present'
    BY <1>6 DEF ClearBatch, Present, TypeOK
  <1>7. ASSUME NEW w \in Writer,
               \/ WriteImage(w) \/ Replace(w) \/ Reject(w) \/ RecordAudit(w)
               \/ CheckReplaced(w) \/ UnlinkReplaced(w)
        PROVE  Present'
    BY <1>1, <1>7
    DEF WriteImage, Replace, Reject, RecordAudit, CheckReplaced, UnlinkReplaced, retention
  <1>8. ASSUME NEW e \in Event, LookForFace(e) \/ AutoPin(e) \/ ManualPin(e) \/ Unpin(e)
        PROVE  Present'
    BY <1>1, <1>8 DEF LookForFace, AutoPin, ManualPin, Unpin, retention
  <1> QED BY <1>2, <1>3, <1>4, <1>5, <1>6, <1>7, <1>8, <1>9 DEF Next, Retention

\* A step of one writer keeps the account when what a row pointed at, and what
\* this writer owed, is still known or gone.
LEMMA HandedOn ==
  ASSUME TypeOK, Accounted, NEW w \in Writer, NEW new,
         work' = [work EXCEPT ![w] = new], faults' = 0 => faults = 0, UNCHANGED look,
         \A p \in file' : /\ p \in file
                          /\ Referenced(p) => Known(p)'
                          /\ Owed(w, p) => Known(p)'
  PROVE  Accounted'
  <1> SUFFICES ASSUME faults' = 0, NEW p \in file' PROVE Known(p)'
    BY DEF Accounted
  <1>1. p \in file /\ Known(p)
    BY DEF Accounted
  <1>2. CASE Referenced(p) \/ Owed(w, p)
    BY <1>2
  <1>3. CASE look.image = p
    BY <1>3 DEF Known
  <1>4. ASSUME NEW v \in Writer, v # w, Owed(v, p) PROVE Known(p)'
    <2>1. work'[v] = work[v]
      BY <1>4 DEF TypeOK
    <2> QED BY <1>4, <2>1 DEF Known, Owed
  <1> QED BY <1>1, <1>2, <1>3, <1>4 DEF Known

\* So does a step of anybody else that leaves every file referred to.
LEMMA StillReferenced ==
  ASSUME Accounted, UNCHANGED <<work, look>>, faults' = 0 => faults = 0,
         file' \subseteq file, \A p \in file' : Referenced(p) => Referenced(p)'
  PROVE  Accounted'
  BY DEF Accounted, Known, Owed

\* An image a row pointed at until now is checked.
LEMMA ReplacedIsChecked ==
  ASSUME NEW me, NEW p, NEW audits, p # NoImage, p # me.image
  PROVE  Replacing(me, p, audits).at = "check" /\ Replacing(me, p, audits).replaced = p
  <1>1. Replacing(me, p, audits) = IF audits THEN Busy("check", me.event, me.image, p)
                                             ELSE Busy("check", 1, NoImage, p)
    BY DEF Replacing
  <1>2. CASE audits
    BY <1>1, <1>2 DEF Busy
  <1>3. CASE ~audits
    BY <1>1, <1>3 DEF Busy
  <1> QED BY <1>2, <1>3

LEMMA AccountedStep ==
  TypeOK /\ NewEvents /\ NewFaces /\ RemovedIsGone /\ Present /\ Accounted /\ [Next]_vars
    => Accounted'
  <1> SUFFICES ASSUME TypeOK, NewEvents, NewFaces, RemovedIsGone, Present, Accounted,
                      [Next]_vars
               PROVE  Accounted'
    OBVIOUS
  <1>t. /\ faults \in Nat /\ "decision" \in Writer /\ NoImage \notin file
        /\ \A w \in Writer : work[w].event \in Event
    <2>1. \A w \in Writer : work[w].event \in Event
      BY DEF TypeOK
    <2> QED BY <2>1, SnapshotAssumption DEF SnapshotAssumption, TypeOK, Writer, NoImage
  <1>1. ASSUME NEW w \in Writer, WriteImage(w) PROVE Accounted'
    <2>1. PICK e : work' = [work EXCEPT ![w] = Busy("written", e, written + 1, NoImage)]
      BY <1>1 DEF WriteImage
    <2>2. /\ work[w].at = "idle" /\ file' = file \union {written + 1}
          /\ UNCHANGED <<shown, audit, face, look, faults>>
      BY <1>1 DEF WriteImage, rows
    <2>3. \A p : p = written + 1 => Owed(w, p)'
      BY <2>1 DEF Owed, Busy, TypeOK
    <2>4. \A v \in Writer, p \in file : Owed(v, p) => Owed(v, p)'
      BY <2>1, <2>2 DEF Owed, TypeOK
    <2>5. \A p : Referenced(p) => Referenced(p)'
      BY <2>2 DEF Referenced, Shows
    <2> QED BY <2>2, <2>3, <2>4, <2>5 DEF Accounted, Known
  <1>2. CASE AddEvent
    <2> DEFINE me == work["decision"]
    <2>1. PICK audits \in BOOLEAN : work' = [work EXCEPT !["decision"] = Rest(me, audits)]
      BY <1>2 DEF AddEvent
    <2>2. /\ me.at = "written" /\ shown' = [shown EXCEPT ![me.event] = me.image]
          /\ UNCHANGED <<file, audit, face, look, faults>>
      BY <1>2 DEF AddEvent, retention
    <2>3. me.event \in Event /\ shown[me.event] = NoImage
      <3>1. me.event = admitted + 1 /\ admitted \in Nat
        BY <1>t, <2>2, SnapshotAssumption DEF SnapshotAssumption, NewEvents, TypeOK
      <3> QED BY <1>t, <3>1 DEF NewEvents
    <2>4. ASSUME NEW p \in file PROVE Referenced(p) => Referenced(p)'
      BY <1>t, <2>2, <2>3 DEF Referenced, Shows, TypeOK
    <2>5. ASSUME NEW p \in file, Owed("decision", p) PROVE Referenced(p)'
      BY <2>2, <2>3, <2>5 DEF Owed, Referenced, Shows, TypeOK
    <2> HIDE DEF me
    <2> QED BY <1>t, <2>1, <2>2, <2>4, <2>5, HandedOn DEF Known
  <1>3. ASSUME NEW w \in Writer, Replace(w) PROVE Accounted'
    <2> DEFINE me == work[w]
    <2>1. PICK audits \in BOOLEAN : work' = [work EXCEPT ![w] = Replacing(me, shown[me.event], audits)]
      BY <1>3 DEF Replace
    <2>2. /\ me.at = "written" /\ shown' = [shown EXCEPT ![me.event] = me.image]
          /\ me.event \in Event /\ UNCHANGED <<file, audit, face, look, faults>>
      BY <1>3, <1>t DEF Replace, retention
    <2>3. shown'[me.event] = me.image /\ \A e \in Event : e # me.event => shown'[e] = shown[e]
      BY <2>2 DEF TypeOK
    <2>4. ASSUME NEW p \in file, Owed(w, p) PROVE Referenced(p)'
      BY <2>2, <2>3, <2>4 DEF Owed, Referenced, Shows
    <2>5. ASSUME NEW p \in file, Referenced(p) PROVE Known(p)'
      <3>1. CASE p = shown[me.event] /\ p # me.image
        <4>1. p # NoImage
          BY <1>t
        <4>2. work'[w] = Replacing(me, p, audits)
          BY <2>1, <3>1 DEF TypeOK
        <4>3. work'[w].at = "check" /\ work'[w].replaced = p
          BY <3>1, <4>1, <4>2, ReplacedIsChecked
        <4> QED BY <4>3 DEF Known, Owed
      <3>2. CASE p = me.image
        BY <2>2, <2>3, <3>2 DEF Known, Referenced, Shows
      <3>3. CASE p # shown[me.event]
        BY <2>2, <2>3, <2>5, <3>3 DEF Known, Referenced, Shows
      <3> QED BY <3>1, <3>2, <3>3
    <2> HIDE DEF me
    <2> QED BY <2>1, <2>2, <2>4, <2>5, HandedOn DEF Known
  <1>4. ASSUME NEW w \in Writer, Reject(w) PROVE Accounted'
    <2>1. PICK new \in {[work[w] EXCEPT !.at = "audit"], Busy("check", 1, NoImage, work[w].image)} :
            work' = [work EXCEPT ![w] = new]
      BY <1>4 DEF Reject
    <2>2. work[w].at = "written" /\ UNCHANGED <<file, shown, audit, face, look, faults>>
      BY <1>4 DEF Reject, rows
    <2>3. ASSUME NEW p \in file, Owed(w, p) PROVE Owed(w, p)'
      BY <2>1, <2>2, <2>3 DEF Owed, Busy, TypeOK
    <2> QED BY <2>1, <2>2, <2>3, HandedOn DEF Known, Referenced, Shows
  <1>5. ASSUME NEW w \in Writer, RecordAudit(w) PROVE Accounted'
    <2> DEFINE me == work[w]
    <2>1. /\ work' = [work EXCEPT ![w] = Replacing(me, audit[me.event], FALSE)]
          /\ me.at = "audit" /\ audit' = [audit EXCEPT ![me.event] = me.image]
          /\ me.event \in Event /\ UNCHANGED <<file, shown, face, look, faults>>
      BY <1>5, <1>t DEF RecordAudit, retention
    <2>2. audit'[me.event] = me.image /\ \A e \in Event : e # me.event => audit'[e] = audit[e]
      BY <2>1 DEF TypeOK
    <2>3. ASSUME NEW p \in file, Owed(w, p) PROVE Referenced(p)'
      BY <2>1, <2>2, <2>3 DEF Owed, Referenced, Shows
    <2>4. ASSUME NEW p \in file, Referenced(p) PROVE Known(p)'
      <3>1. CASE p = audit[me.event] /\ p # me.image
        <4>1. p # NoImage
          BY <1>t
        <4>2. work'[w] = Busy("check", 1, NoImage, p)
          <5>1. work'[w] = Replacing(me, p, FALSE)
            BY <2>1, <3>1 DEF TypeOK
          <5>2. Replacing(me, p, FALSE) = Busy("check", 1, NoImage, p)
            BY <3>1, <4>1 DEF Replacing
          <5> QED BY <5>1, <5>2
        <4>3. work'[w].at = "check" /\ work'[w].replaced = p
          BY <4>2 DEF Busy
        <4> QED BY <4>3 DEF Known, Owed
      <3>2. CASE p = me.image
        BY <2>1, <2>2, <3>2 DEF Known, Referenced, Shows
      <3>3. CASE p # audit[me.event]
        BY <2>1, <2>2, <2>4, <3>3 DEF Known, Referenced, Shows
      <3> QED BY <3>1, <3>2, <3>3
    <2> HIDE DEF me
    <2> QED BY <2>1, <2>3, <2>4, HandedOn DEF Known
  <1>6. ASSUME NEW w \in Writer, CheckReplaced(w) PROVE Accounted'
    <2> DEFINE rest == Rest(work[w], work[w].image # NoImage)
               unlinks == [work[w] EXCEPT !.at = "unlink"]
    <2>1. /\ work[w].at = "check" /\ UNCHANGED <<file, shown, audit, face, look, faults>>
      BY <1>6 DEF CheckReplaced, rows
    <2>2. CASE Referenced(work[w].replaced)
      <3>1. work' = [work EXCEPT ![w] = rest]
        BY <1>6, <2>2 DEF CheckReplaced
      <3>2. ASSUME NEW p \in file, Owed(w, p) PROVE Referenced(p) \/ Owed(w, p)'
        BY <1>t, <2>1, <2>2, <3>1, <3>2 DEF Owed, Rest, Busy, TypeOK
      <3> HIDE DEF rest
      <3> QED BY <2>1, <3>1, <3>2, HandedOn DEF Known, Referenced, Shows
    <2>3. CASE ~Referenced(work[w].replaced)
      <3>1. work' = [work EXCEPT ![w] = unlinks]
        BY <1>6, <2>3 DEF CheckReplaced
      <3>2. ASSUME NEW p \in file, Owed(w, p) PROVE Owed(w, p)'
        BY <2>1, <3>1, <3>2 DEF Owed, TypeOK
      <3> HIDE DEF unlinks
      <3> QED BY <2>1, <3>1, <3>2, HandedOn DEF Known, Referenced, Shows
    <2> QED BY <2>2, <2>3
  <1>7. ASSUME NEW w \in Writer, UnlinkReplaced(w) PROVE Accounted'
    <2> DEFINE rest == Rest(work[w], work[w].image # NoImage)
    <2>1. /\ work' = [work EXCEPT ![w] = rest] /\ work[w].at = "unlink"
          /\ UNCHANGED <<shown, audit, face, look>>
      BY <1>7 DEF UnlinkReplaced, rows
    <2>2. CASE faults' = 0
      <3>1. file' = file \ {work[w].replaced} /\ UNCHANGED faults
        BY <1>7, <1>t, <2>2 DEF UnlinkReplaced, Fault, Present, Seen
      <3>2. ASSUME NEW p \in file', Owed(w, p) PROVE Owed(w, p)'
        BY <1>t, <2>1, <3>1, <3>2 DEF Owed, Rest, Busy, TypeOK
      <3> HIDE DEF rest
      <3> QED BY <2>1, <3>1, <3>2, HandedOn DEF Known, Referenced, Shows
    <2> QED BY <2>2 DEF Accounted
  <1>8. CASE AddFace
    <2>1. /\ look # NoLook /\ look.event \in Event /\ face[look.event] = NoImage
          /\ face' = [face EXCEPT ![look.event] = look.image]
          /\ UNCHANGED <<file, shown, audit, work, faults>>
      BY <1>8 DEF AddFace, NewFaces, TypeOK
    <2>2. \A p \in file : Referenced(p) => Referenced(p)'
      BY <1>t, <2>1 DEF Referenced, Shows, TypeOK
    <2>3. \A p : p = look.image => Referenced(p)'
      BY <2>1 DEF Referenced, TypeOK
    <2> QED BY <2>1, <2>2, <2>3 DEF Accounted, Known, Owed
  <1>9. ASSUME NEW e \in Event, LookForFace(e) PROVE Accounted'
    <2>1. look = NoLook /\ UNCHANGED <<file, shown, audit, face, work, faults>>
      BY <1>9 DEF LookForFace, rows
    <2>2. look.image \notin file
      BY <1>t, <2>1 DEF NoLook
    <2> QED BY <2>1, <2>2 DEF Accounted, Known, Referenced, Shows, Owed
  <1>10. ASSUME NEW p \in Image, ClearBatch(p) PROVE Accounted'
    <2>1. /\ faults = 0 => p \notin file
          /\ ClearReferences({p}) /\ UNCHANGED <<file, work, look, faults>>
      BY <1>10 DEF ClearBatch, RemovedIsGone, Present
    <2>2. CASE faults = 0
      <3>1. \A q \in file : Referenced(q) => Referenced(q)'
        BY <2>1, <2>2, ClearedRows DEF Referenced, Shows
      <3> QED BY <2>1, <3>1, StillReferenced
    <2> QED BY <2>1, <2>2 DEF Accounted
  <1>11. ASSUME NEW p \in Image, UnlinkClaimed(p) PROVE Accounted'
    BY <1>t, <1>11, StillReferenced DEF UnlinkClaimed, rows, Fault, Referenced, Shows
  <1>12. CASE Leaves \/ PassFails \/ Restart
    BY <1>t, <1>12 DEF Leaves, PassFails, Restart, Fault, Accounted
  <1>13. CASE Returns \/ Ages \/ Claim \/ Release \/ UNCHANGED vars
    BY <1>13, StillReferenced
    DEF Returns, Ages, Claim, ClaimKeeping, Release, vars, rows, Referenced, Shows
  <1>14. ASSUME NEW e \in Event, AutoPin(e) \/ ManualPin(e) \/ Unpin(e) PROVE Accounted'
    BY <1>14, StillReferenced DEF AutoPin, ManualPin, Unpin, Referenced, Shows
  <1> QED BY <1>1, <1>2, <1>3, <1>4, <1>5, <1>6, <1>7, <1>8, <1>9, <1>10, <1>11, <1>12,
             <1>13, <1>14 DEF Next, Retention

\* Without faults every image on disk is one that some row points at once the
\* writers are at rest (_delete_snapshot_if_unreferenced runs after the row of
\* its caller has moved).
THEOREM NoImageIsLost == Spec => []NothingLeftBehind
  <1>1. Init => NewEvents /\ NewFaces /\ RemovedIsGone /\ Present /\ Accounted
    BY DEF Init, NewEvents, NewFaces, RemovedIsGone, Present, Accounted, NoWork, NoPass, Busy
  <1>2. Accounted => NothingLeftBehind
    BY DEF Accounted, NothingLeftBehind, Known, Owed
  <1> QED BY <1>1, <1>2, TypeCorrect, NewEventsStep, NewFacesStep, GoneStep,
             PresentStep, AccountedStep, PTL DEF Spec

=============================================================================
