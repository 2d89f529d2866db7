---------------------------- MODULE Wget_proofs ----------------------------
(* Proofs about Wget, for every number of downloads, faults and changes by   *)
(* another party, on both kinds of file systems.                             *)
EXTENDS Wget, FiniteSetTheorems, TLAPS

\* Names for one condition or one constant each.
USE DEF Goto, Return, Fault, FailTo, Failed, Saved, Unlinked, IsEmpty, RestoreEnds

(***************************************************************************)
(* The inductive invariant.  Shape says what the staging directory of the  *)
(* current download holds at each call, and that nothing has been done for *)
(* later downloads; Outcome relates the flag `failed`, the value returned  *)
(* and the downloads that reached the path.                                *)
(***************************************************************************)
Shape ==
  /\ \A d \in Downloads : d > cur => /\ old[d] = Nothing
                                     /\ d \notin dirs
  /\ pc = "mkdir" => old[cur] = Nothing /\ cur \notin dirs
  /\ pc \notin {"idle", "mkdir"} => cur \in dirs
  /\ pc \in {"create", "request", "close", "publish", "backup"} => old[cur] = Nothing
  /\ pc \in {"publish", "backup", "inspect", "replace", "restore"} =>
       new[cur] = Downloaded(cur, TRUE)
  /\ pc = "create" => new[cur] = Nothing
  /\ pc \in {"inspect", "replace", "restore"} => old[cur] # Nothing
  /\ pc \in {"replace", "dropOld"} => old[cur].kind = "file"

Outcome ==
  /\ \A d \in Downloads : d > cur => d \notin put /\ result[d] = "none"
  /\ pc # "idle" => result[cur] = "none"
  /\ pc \notin {"idle", "dropOld", "unlink", "rmdir"} => cur \notin put
  /\ pc \in {"publish", "backup", "inspect", "replace", "restore"} => ~failed
  /\ pc = "dropOld" => ~failed /\ cur \in put
  /\ pc \in {"unlink", "rmdir"} => (failed <=> cur \notin put)
  /\ ExitCodeHonest

\* The old output that was moved away and not replaced is where `saved` says.
SavedInv ==
  /\ pc \in {"inspect", "replace", "restore"} => saved = cur
  /\ pc \in {"mkdir", "create", "request", "close", "publish", "backup"} => saved # cur
  /\ saved <= cur
  /\ saved # 0 => old[saved] # Nothing /\ saved \notin put

IInv == TypeOK /\ Shape /\ Outcome /\ SavedInv

LEMMA ObjectTypes ==
  /\ \A d \in Downloads, w \in BOOLEAN : Downloaded(d, w) \in Objects
  /\ \A k \in {"file", "dir"}, n \in Nat : Others(k, n) \in Objects
  /\ Nothing \notin Objects
BY DEF Downloads, Downloaded, Objects, Others, Nothing

LEMMA InitInv == Init => IInv
<1> SUFFICES ASSUME Init PROVE IInv
  OBVIOUS
<1> USE BoundsAssumption, ObjectTypes
<1>1. TypeOK
  <2>1. path \in Objects \cup {Nothing}
    BY DEF Init
  <2>2. /\ cur \in 0 .. MaxDownloads /\ touched \in 0 .. MaxTouches /\ faults \in 0 .. MaxFaults
        /\ pc \in Pcs /\ pc = "idle"
    BY DEF Init, Pcs
  <2>3. QED
    BY <2>1, <2>2 DEF Init, TypeOK
<1>2. Shape /\ Outcome /\ SavedInv
  BY DEF Init, Shape, Outcome, ExitCodeHonest, SavedInv
<1>3. QED
  BY <1>1, <1>2 DEF IInv

\* No call leaves the type.
LEMMA TypeStep == IInv /\ [Next]_vars => TypeOK'
<1> SUFFICES ASSUME IInv, [Next]_vars PROVE TypeOK'
  OBVIOUS
<1> USE BoundsAssumption, ObjectTypes
<1> USE DEF IInv, TypeOK, Shape, Pcs, Downloads, locals, files
<1>1. CASE Start
  <2>1. cur' \in Downloads /\ cur' \in 0 .. MaxDownloads
    BY <1>1 DEF Start
  <2>2. QED
    BY <1>1, <2>1 DEF Start
<1>2. CASE MakeStaging
  BY <1>2 DEF MakeStaging
<1>3. CASE MakeStagingFails
  BY <1>3 DEF MakeStagingFails
<1>4. CASE CreateTemporary
  BY <1>4 DEF CreateTemporary
<1>5. CASE CreateTemporaryFails
  BY <1>5 DEF CreateTemporaryFails
<1>6. CASE WriteFails
  BY <1>6 DEF WriteFails
<1>7. CASE Close
  <2>1. PICK flush \in BOOLEAN :
          /\ pc = "close"
          /\ IF flush THEN Fault ELSE UNCHANGED faults
          /\ new' = [new EXCEPT ![cur] = Downloaded(cur, ~bad /\ ~output /\ ~flush)]
          /\ failed' = Failed(output \/ flush)
          /\ pc' = IF Failed(output \/ flush) THEN "unlink" ELSE "publish"
          /\ UNCHANGED <<replacing, cur, output, bad, result, path, dirs, old, put, saved, touched>>
    BY <1>7 DEF Close
  <2>2. faults' \in 0 .. MaxFaults
    BY <2>1
  <2>3. failed' \in BOOLEAN /\ pc' \in Pcs
    BY <2>1
  <2>4. new' \in [Downloads -> Objects \cup {Nothing}]
    BY <2>1
  <2>5. \A d \in Downloads \ dirs : new'[d] = Nothing /\ old'[d] = Nothing
    BY <2>1
  <2>6. /\ UNCHANGED <<replacing, cur, output, bad, result, path, dirs, old, put, saved, touched>>
        /\ cur \in Downloads
    BY <2>1
  <2>7. QED
    BY <2>2, <2>3, <2>4, <2>5, <2>6
<1>8. CASE Publish
  BY <1>8 DEF Publish, MoveToPath
<1>9. CASE PublishExists
  BY <1>9 DEF PublishExists
<1>10. CASE PublishFails
  BY <1>10 DEF PublishFails
<1>11. CASE Backup
  BY <1>11 DEF Backup
<1>12. CASE BackupFails
  BY <1>12 DEF BackupFails
<1>13. CASE Inspect
  BY <1>13 DEF Inspect
<1>14. CASE InspectFails
  BY <1>14 DEF InspectFails
<1>15. CASE Replace
  BY <1>15 DEF Replace, MoveToPath
<1>16. CASE ReplaceFails
  BY <1>16 DEF ReplaceFails
<1>17. CASE DropOld
  BY <1>17 DEF DropOld
<1>18. CASE DropOldFails
  BY <1>18 DEF DropOldFails
<1>19. CASE Restore
  BY <1>19 DEF Restore
<1>20. CASE RestoreFails
  BY <1>20 DEF RestoreFails
<1>21. CASE UnlinkTemporary
  BY <1>21 DEF UnlinkTemporary
<1>22. CASE UnlinkTemporaryFails
  BY <1>22 DEF UnlinkTemporaryFails
<1>23. CASE RemoveStaging
  BY <1>23 DEF RemoveStaging
<1>24. CASE RemoveStagingFails
  BY <1>24 DEF RemoveStagingFails
<1>25. ASSUME NEW isBad \in BOOLEAN, Respond(isBad) PROVE TypeOK'
  BY <1>25 DEF Respond
<1>26. CASE PowerLoss
  BY <1>26 DEF PowerLoss
<1>27. ASSUME NEW kind \in {"file", "dir"}, OtherMakes(kind) PROVE TypeOK'
  BY <1>27 DEF OtherMakes
<1>28. CASE OtherRemoves
  BY <1>28 DEF OtherRemoves
<1>29. CASE UNCHANGED vars
  BY <1>29 DEF vars
<1>30. QED
  BY <1>1, <1>2, <1>3, <1>4, <1>5, <1>6, <1>7, <1>8, <1>9, <1>10, <1>11, <1>12, <1>13, <1>14, <1>15, <1>16, <1>17, <1>18, <1>19, <1>20, <1>21, <1>22, <1>23, <1>24, <1>25, <1>26, <1>27, <1>28, <1>29
     DEF Next, Call

\* No call leaves the shape.
LEMMA ShapeStep == IInv /\ [Next]_vars => Shape'
<1> SUFFICES ASSUME IInv, [Next]_vars PROVE Shape'
  OBVIOUS
<1> USE BoundsAssumption, ObjectTypes
<1> USE DEF IInv, TypeOK, Shape, Outcome, Pcs, Downloads, locals, files
<1>1. CASE Start
  BY <1>1 DEF Start
<1>2. CASE MakeStaging
  BY <1>2 DEF MakeStaging
<1>3. CASE MakeStagingFails
  BY <1>3 DEF MakeStagingFails
<1>4. CASE CreateTemporary
  BY <1>4 DEF CreateTemporary
<1>5. CASE CreateTemporaryFails
  BY <1>5 DEF CreateTemporaryFails
<1>6. CASE WriteFails
  BY <1>6 DEF WriteFails
<1>7. CASE Close
  BY <1>7 DEF Close
<1>8. CASE Publish
  BY <1>8 DEF Publish, MoveToPath
<1>9. CASE PublishExists
  BY <1>9 DEF PublishExists
<1>10. CASE PublishFails
  BY <1>10 DEF PublishFails
<1>11. CASE Backup
  BY <1>11 DEF Backup
<1>12. CASE BackupFails
  BY <1>12 DEF BackupFails
<1>13. CASE Inspect
  BY <1>13 DEF Inspect
<1>14. CASE InspectFails
  BY <1>14 DEF InspectFails
<1>15. CASE Replace
  BY <1>15 DEF Replace, MoveToPath
<1>16. CASE ReplaceFails
  BY <1>16 DEF ReplaceFails
<1>17. CASE DropOld
  BY <1>17 DEF DropOld
<1>18. CASE DropOldFails
  BY <1>18 DEF DropOldFails
<1>19. CASE Restore
  BY <1>19 DEF Restore
<1>20. CASE RestoreFails
  BY <1>20 DEF RestoreFails
<1>21. CASE UnlinkTemporary
  BY <1>21 DEF UnlinkTemporary
<1>22. CASE UnlinkTemporaryFails
  BY <1>22 DEF UnlinkTemporaryFails
<1>23. CASE RemoveStaging
  BY <1>23 DEF RemoveStaging
<1>24. CASE RemoveStagingFails
  BY <1>24 DEF RemoveStagingFails
<1>25. ASSUME NEW isBad \in BOOLEAN, Respond(isBad) PROVE Shape'
  BY <1>25 DEF Respond
<1>26. CASE PowerLoss
  BY <1>26 DEF PowerLoss
<1>27. ASSUME NEW kind \in {"file", "dir"}, OtherMakes(kind) PROVE Shape'
  BY <1>27 DEF OtherMakes
<1>28. CASE OtherRemoves
  BY <1>28 DEF OtherRemoves
<1>29. CASE UNCHANGED vars
  BY <1>29 DEF vars
<1>30. QED
  BY <1>1, <1>2, <1>3, <1>4, <1>5, <1>6, <1>7, <1>8, <1>9, <1>10, <1>11, <1>12, <1>13, <1>14, <1>15, <1>16, <1>17, <1>18, <1>19, <1>20, <1>21, <1>22, <1>23, <1>24, <1>25, <1>26, <1>27, <1>28, <1>29
     DEF Next, Call

\* No call leaves the outcome.
LEMMA OutcomeStep == IInv /\ [Next]_vars => Outcome'
<1> SUFFICES ASSUME IInv, [Next]_vars PROVE Outcome'
  OBVIOUS
<1> USE BoundsAssumption
<1> USE DEF IInv, TypeOK, Outcome, ExitCodeHonest, Pcs, Downloads, locals, files
<1>1. CASE Start
  BY <1>1 DEF Start
<1>2. CASE MakeStaging
  BY <1>2 DEF MakeStaging
<1>3. CASE MakeStagingFails
  BY <1>3 DEF MakeStagingFails
<1>4. CASE CreateTemporary
  BY <1>4 DEF CreateTemporary
<1>5. CASE CreateTemporaryFails
  BY <1>5 DEF CreateTemporaryFails
<1>6. CASE WriteFails
  BY <1>6 DEF WriteFails
<1>7. CASE Close
  BY <1>7 DEF Close
<1>8. CASE Publish
  BY <1>8 DEF Publish, MoveToPath
<1>9. CASE PublishExists
  BY <1>9 DEF PublishExists
<1>10. CASE PublishFails
  BY <1>10 DEF PublishFails
<1>11. CASE Backup
  BY <1>11 DEF Backup
<1>12. CASE BackupFails
  BY <1>12 DEF BackupFails
<1>13. CASE Inspect
  BY <1>13 DEF Inspect
<1>14. CASE InspectFails
  BY <1>14 DEF InspectFails
<1>15. CASE Replace
  BY <1>15 DEF Replace, MoveToPath
<1>16. CASE ReplaceFails
  BY <1>16 DEF ReplaceFails
<1>17. CASE DropOld
  BY <1>17 DEF DropOld
<1>18. CASE DropOldFails
  BY <1>18 DEF DropOldFails
<1>19. CASE Restore
  BY <1>19 DEF Restore
<1>20. CASE RestoreFails
  BY <1>20 DEF RestoreFails
<1>21. CASE UnlinkTemporary
  BY <1>21 DEF UnlinkTemporary
<1>22. CASE UnlinkTemporaryFails
  BY <1>22 DEF UnlinkTemporaryFails
<1>23. CASE RemoveStaging
  BY <1>23 DEF RemoveStaging
<1>24. CASE RemoveStagingFails
  BY <1>24 DEF RemoveStagingFails
<1>25. ASSUME NEW isBad \in BOOLEAN, Respond(isBad) PROVE Outcome'
  BY <1>25 DEF Respond
<1>26. CASE PowerLoss
  BY <1>26 DEF PowerLoss
<1>27. ASSUME NEW kind \in {"file", "dir"}, OtherMakes(kind) PROVE Outcome'
  BY <1>27 DEF OtherMakes
<1>28. CASE OtherRemoves
  BY <1>28 DEF OtherRemoves
<1>29. CASE UNCHANGED vars
  BY <1>29 DEF vars
<1>30. QED
  BY <1>1, <1>2, <1>3, <1>4, <1>5, <1>6, <1>7, <1>8, <1>9, <1>10, <1>11, <1>12, <1>13, <1>14, <1>15, <1>16, <1>17, <1>18, <1>19, <1>20, <1>21, <1>22, <1>23, <1>24, <1>25, <1>26, <1>27, <1>28, <1>29
     DEF Next, Call

\* No call leaves the record of the saved output.
LEMMA SavedInvStep == IInv /\ [Next]_vars => SavedInv'
<1> SUFFICES ASSUME IInv, [Next]_vars PROVE SavedInv'
  OBVIOUS
<1> USE BoundsAssumption
<1> USE DEF IInv, TypeOK, SavedInv, Outcome, Pcs, Downloads, locals, files
<1>1. CASE Start
  BY <1>1 DEF Start
<1>2. CASE MakeStaging
  BY <1>2 DEF MakeStaging
<1>3. CASE MakeStagingFails
  BY <1>3 DEF MakeStagingFails
<1>4. CASE CreateTemporary
  BY <1>4 DEF CreateTemporary
<1>5. CASE CreateTemporaryFails
  BY <1>5 DEF CreateTemporaryFails
<1>6. CASE WriteFails
  BY <1>6 DEF WriteFails
<1>7. CASE Close
  BY <1>7 DEF Close
<1>8. CASE Publish
  BY <1>8 DEF Publish, MoveToPath
<1>9. CASE PublishExists
  BY <1>9 DEF PublishExists
<1>10. CASE PublishFails
  BY <1>10 DEF PublishFails
<1>11. CASE Backup
  BY <1>11 DEF Backup
<1>12. CASE BackupFails
  BY <1>12 DEF BackupFails
<1>13. CASE Inspect
  BY <1>13 DEF Inspect
<1>14. CASE InspectFails
  BY <1>14 DEF InspectFails
<1>15. CASE Replace
  BY <1>15 DEF Replace, MoveToPath
<1>16. CASE ReplaceFails
  BY <1>16 DEF ReplaceFails
<1>17. CASE DropOld
  BY <1>17 DEF DropOld
<1>18. CASE DropOldFails
  BY <1>18 DEF DropOldFails
<1>19. CASE Restore
  BY <1>19 DEF Restore
<1>20. CASE RestoreFails
  BY <1>20 DEF RestoreFails
<1>21. CASE UnlinkTemporary
  BY <1>21 DEF UnlinkTemporary
<1>22. CASE UnlinkTemporaryFails
  BY <1>22 DEF UnlinkTemporaryFails
<1>23. CASE RemoveStaging
  BY <1>23 DEF RemoveStaging
<1>24. CASE RemoveStagingFails
  BY <1>24 DEF RemoveStagingFails
<1>25. ASSUME NEW isBad \in BOOLEAN, Respond(isBad) PROVE SavedInv'
  BY <1>25 DEF Respond
<1>26. CASE PowerLoss
  BY <1>26 DEF PowerLoss
<1>27. ASSUME NEW kind \in {"file", "dir"}, OtherMakes(kind) PROVE SavedInv'
  BY <1>27 DEF OtherMakes
<1>28. CASE OtherRemoves
  BY <1>28 DEF OtherRemoves
<1>29. CASE UNCHANGED vars
  BY <1>29 DEF vars
<1>30. QED
  BY <1>1, <1>2, <1>3, <1>4, <1>5, <1>6, <1>7, <1>8, <1>9, <1>10, <1>11, <1>12, <1>13, <1>14, <1>15, <1>16, <1>17, <1>18, <1>19, <1>20, <1>21, <1>22, <1>23, <1>24, <1>25, <1>26, <1>27, <1>28, <1>29
     DEF Next, Call

LEMMA Safe == Spec => []IInv
<1>1. IInv /\ [Next]_vars => IInv'
  BY TypeStep, ShapeStep, OutcomeStep, SavedInvStep DEF IInv
<1>2. QED
  BY <1>1, InitInv, PTL DEF Spec

\* Files and staging directories stay consistent whatever fails.
THEOREM TypeCorrect == Spec => []TypeOK
<1>1. IInv => TypeOK
  BY DEF IInv
<1>2. QED
  BY <1>1, Safe, PTL

\* wget_download() returns 0 exactly if its download has been moved to the path, through
\* every failure of publish_download() and its way back.
THEOREM ExitCode == Spec => []ExitCodeHonest
<1>1. IInv => ExitCodeHonest
  BY DEF IInv, Outcome
<1>2. QED
  BY <1>1, Safe, PTL

-----------------------------------------------------------------------------
(* What wget never destroys. *)

\* The calls that move nothing.
Quiet == path' = path /\ old' = old /\ saved' = saved /\ touched' = touched

LEMMA QuietCalls ==
  Next => \/ Quiet
          \/ Publish \/ Backup \/ Replace \/ DropOld \/ Restore
          \/ \E kind \in {"file", "dir"} : OtherMakes(kind)
          \/ OtherRemoves
<1> SUFFICES ASSUME Next, ~(Publish \/ Backup \/ Replace \/ DropOld \/ Restore),
                    ~ \E kind \in {"file", "dir"} : OtherMakes(kind), ~OtherRemoves
             PROVE  Quiet
  OBVIOUS
<1> USE DEF Quiet, files
<1>1. CASE Start
  BY <1>1 DEF Start
<1>2. CASE MakeStaging \/ MakeStagingFails \/ CreateTemporary \/ CreateTemporaryFails
  BY <1>2 DEF MakeStaging, MakeStagingFails, CreateTemporary, CreateTemporaryFails
<1>3. CASE WriteFails \/ (\E isBad \in BOOLEAN : Respond(isBad)) \/ Close
  BY <1>3 DEF WriteFails, Respond, Close
<1>4. CASE PublishExists \/ PublishFails \/ BackupFails \/ Inspect \/ InspectFails
  BY <1>4 DEF PublishExists, PublishFails, BackupFails, Inspect, InspectFails
<1>5. CASE ReplaceFails \/ DropOldFails \/ RestoreFails
  BY <1>5 DEF ReplaceFails, DropOldFails, RestoreFails
<1>6. CASE UnlinkTemporary \/ UnlinkTemporaryFails \/ RemoveStaging \/ RemoveStagingFails
  BY <1>6 DEF UnlinkTemporary, UnlinkTemporaryFails, RemoveStaging, RemoveStagingFails
<1>7. CASE PowerLoss
  BY <1>7 DEF PowerLoss
<1>8. QED
  BY <1>1, <1>2, <1>3, <1>4, <1>5, <1>6, <1>7 DEF Next, Call

\* An object is held iff it is at the path or an `old` file.
LEMMA HeldMeans ==
  \A o : o \in Held <=> o # Nothing /\ (o = path \/ \E d \in Downloads : o = old[d])
BY DEF Held

\* A file is given up only by the call that puts the download at the path, or after it.
LossOf(o) == o.kind = "file" /\ cur \in put'

LEMMA LossStep ==
  IInv /\ Next /\ touched' = touched => \A o \in Held \ Held' : LossOf(o)
<1> SUFFICES ASSUME IInv, Next, touched' = touched, NEW o \in Held, o \notin Held'
             PROVE  LossOf(o)
  OBVIOUS
<1> USE DEF IInv, TypeOK
<1>1. o # Nothing /\ (o = path \/ \E d \in Downloads : o = old[d])
  BY HeldMeans
<1>2. o # path' /\ \A d \in Downloads : o # old'[d]
  BY <1>1 DEF Held
<1>3. pc # "idle" => cur \in Downloads
  OBVIOUS
<1>4. CASE Quiet
  BY <1>1, <1>2, <1>4 DEF Quiet
<1>5. CASE Publish
  <2>1. o = path /\ cur \in put'
    BY <1>1, <1>2, <1>5 DEF Publish, MoveToPath
  <2>2. path.kind = "file"
    BY <1>1, <1>5, <2>1 DEF Publish
  <2>3. QED
    BY <2>1, <2>2 DEF LossOf
<1>6. CASE Backup
  <2>1. old[cur] = Nothing
    BY <1>6 DEF Backup, Shape
  <2>2. old'[cur] = path /\ \A d \in Downloads : d # cur => old'[d] = old[d]
    BY <1>3, <1>6 DEF Backup
  <2>3. cur \in Downloads
    BY <1>3, <1>6 DEF Backup
  <2>4. QED
    BY <1>1, <1>2, <2>1, <2>2, <2>3
<1>7. CASE Replace
  BY <1>1, <1>2, <1>7 DEF Replace, MoveToPath
<1>8. CASE DropOld
  <2>1. o = old[cur]
    BY <1>1, <1>2, <1>8 DEF DropOld
  <2>2. old[cur].kind = "file" /\ cur \in put /\ put' = put
    BY <1>8 DEF DropOld, Shape, Outcome
  <2>3. QED
    BY <2>1, <2>2 DEF LossOf
<1>9. CASE Restore
  <2>1. /\ path = Nothing /\ path' = old[cur]
        /\ \A d \in Downloads : d # cur => old'[d] = old[d]
    BY <1>9 DEF Restore
  <2>2. QED
    BY <1>1, <1>2, <2>1
<1>10. CASE (\E kind \in {"file", "dir"} : OtherMakes(kind)) \/ OtherRemoves
  BY <1>10 DEF OtherMakes, OtherRemoves
<1>11. QED
  BY <1>4, <1>5, <1>6, <1>7, <1>8, <1>9, <1>10, QuietCalls

\* publish_download() destroys only a regular file, and only once its own download has
\* been at the path: a directory, and any output of a download that did not succeed in
\* its place, stays at the path or in a staging directory, whatever fails.
THEOREM NothingIsLost == Spec => NothingLost
<1>1. IInv /\ [Next]_vars => [touched' = touched => \A o \in Held \ Held' : LossOf(o)]_vars
  BY LossStep
<1>2. Spec => [][touched' = touched => \A o \in Held \ Held' : LossOf(o)]_vars
  BY <1>1, Safe, PTL DEF Spec
<1>3. QED
  BY <1>2 DEF NothingLost, LossOf

-----------------------------------------------------------------------------
(* wget implements KeptFile. *)

Whole == {Downloaded(d, TRUE) : d \in Downloads}

LEMMA InitKept == Init => Promise!Init
<1> SUFFICES ASSUME Init PROVE Kept \notin Whole /\ touched = 0
  BY DEF Promise!Init, Whole
<1>1. Kept = path
  BY DEF Init, Kept
<1>2. path.maker = "other"
  BY DEF Init, Nothing, Others
<1>3. \A o \in Whole : o.maker = "wget"
  BY DEF Whole, Downloaded
<1>4. QED
  BY <1>1, <1>2, <1>3 DEF Init

\* Moving a download to the path keeps a whole one.
LEMMA MoveKeeps ==
  ASSUME IInv, pc \in {"publish", "replace"}, MoveToPath
  PROVE  Kept' \in Whole
<1>1. new[cur] = Downloaded(cur, TRUE) /\ cur \in Downloads
  BY DEF IInv, Shape, TypeOK
<1>2. Kept' = new[cur]
  BY DEF MoveToPath, Kept
<1>3. QED
  BY <1>1, <1>2 DEF Whole

LEMMA KeptStep == IInv /\ [Next]_vars => [Promise!Next]_<<Kept, touched>>
<1> SUFFICES ASSUME IInv, Next
             PROVE  \/ Kept' \in Whole /\ touched' = touched
                    \/ touched' = touched + 1
                    \/ Kept' = Kept /\ touched' = touched
  BY DEF Promise!Next, Promise!Download, Promise!OtherParty, Whole, vars, files, Kept
<1> USE DEF IInv, TypeOK
<1>1. CASE Quiet
  BY <1>1 DEF Quiet, Kept
<1>2. CASE Publish
  BY <1>2, MoveKeeps DEF Publish
<1>3. CASE Replace
  BY <1>3, MoveKeeps DEF Replace
<1>4. CASE Backup
  <2>1. path # Nothing /\ path' = Nothing /\ saved' = cur /\ old'[cur] = path /\ cur # 0
    BY <1>4 DEF Backup, Downloads
  <2>2. Kept' = path /\ Kept = path
    BY <2>1 DEF Kept
  <2>3. QED
    BY <1>4, <2>2 DEF Backup
<1>5. CASE DropOld
  <2>1. saved' = saved /\ path' = path /\ saved # cur
    BY <1>5 DEF DropOld, SavedInv, Outcome, Downloads
  <2>2. saved # 0 => old'[saved] = old[saved]
    BY <1>5, <2>1 DEF DropOld
  <2>3. QED
    BY <1>5, <2>1, <2>2 DEF DropOld, Kept
<1>6. CASE Restore
  <2>1. /\ path = Nothing /\ path' = old[cur] /\ old[cur] # Nothing
        /\ saved = cur /\ saved # 0
    BY <1>6 DEF Restore, SavedInv, Shape, Downloads
  <2>2. Kept' = old[cur] /\ Kept = old[cur]
    BY <2>1 DEF Kept
  <2>3. QED
    BY <1>6, <2>2 DEF Restore
<1>7. CASE (\E kind \in {"file", "dir"} : OtherMakes(kind)) \/ OtherRemoves
  BY <1>7 DEF OtherMakes, OtherRemoves
<1>8. QED
  BY <1>1, <1>2, <1>3, <1>4, <1>5, <1>6, <1>7, QuietCalls

\* wget_download() implements KeptFile: at every moment the old output can be got back,
\* until a whole download has taken its place.
THEOREM WgetKeepsOldOrNew == Spec => OldOrNew
<1>1. QED
  BY InitKept, KeptStep, Safe, PTL DEF Spec, OldOrNew, Promise!Spec

-----------------------------------------------------------------------------
(* What wget leaves behind. *)

\* The other staging directories have been paid for; that of the current download is
\* emptied on every way to its end.  The path stays free while the old output is in it.
OwnStaging ==
  /\ pc # "idle"
  /\ pc \in {"inspect", "replace", "restore"} => path = Nothing
  /\ pc = "dropOld" => new[cur] = Nothing
  /\ pc = "unlink" => old[cur] = Nothing /\ (~failed => new[cur] = Nothing)
  /\ pc = "rmdir" => old[cur] = Nothing /\ new[cur] = Nothing

Disturbances == faults + touched

CleanInv ==
  \/ Cardinality(dirs) <= Disturbances
  \/ Cardinality(dirs \ {cur}) <= Disturbances /\ OwnStaging

\* Sizes of the set of directories.
LEMMA DirsSize ==
  ASSUME dirs \subseteq Downloads, NEW T, T \subseteq dirs, NEW c
  PROVE  /\ Cardinality(dirs) \in Nat /\ Cardinality(T) \in Nat
         /\ Cardinality(T) <= Cardinality(dirs)
         /\ Cardinality(dirs \ {c}) \in Nat
         /\ Cardinality(dirs) <= Cardinality(dirs \ {c}) + 1
         /\ Cardinality(dirs \ {c}) <= Cardinality(dirs)
<1>1. IsFiniteSet(Downloads)
  BY FS_Interval, BoundsAssumption DEF Downloads
<1>2. IsFiniteSet(dirs)
  BY <1>1, FS_Subset
<1>3. IsFiniteSet(T) /\ Cardinality(T) <= Cardinality(dirs)
  BY <1>2, FS_Subset
<1>4. /\ IsFiniteSet(dirs \ {c})
      /\ Cardinality(dirs \ {c}) = IF c \in dirs THEN Cardinality(dirs) - 1 ELSE Cardinality(dirs)
  BY <1>2, FS_RemoveElement
<1>5. Cardinality(dirs) \in Nat /\ Cardinality(T) \in Nat /\ Cardinality(dirs \ {c}) \in Nat
  BY <1>2, <1>3, <1>4, FS_CardinalityType
<1>6. QED
  BY <1>3, <1>4, <1>5

\* One step makes a directory.
LEMMA DirsStep == [Next]_vars => dirs' \subseteq dirs \/ MakeStaging
<1> SUFFICES ASSUME [Next]_vars, ~MakeStaging PROVE dirs' \subseteq dirs
  OBVIOUS
<1>1. CASE CreateTemporaryFails \/ RemoveStaging
  BY <1>1 DEF CreateTemporaryFails, RemoveStaging
<1>2. CASE \/ Start \/ MakeStagingFails \/ CreateTemporary \/ WriteFails
           \/ (\E isBad \in BOOLEAN : Respond(isBad)) \/ Close
  BY <1>2 DEF Start, MakeStagingFails, CreateTemporary, WriteFails, Respond, Close, files
<1>3. CASE \/ Publish \/ PublishExists \/ PublishFails \/ Backup \/ BackupFails \/ Inspect
           \/ InspectFails \/ Replace \/ ReplaceFails
  BY <1>3 DEF Publish, PublishExists, PublishFails, Backup, BackupFails, Inspect,
     InspectFails, Replace, ReplaceFails, files
<1>4. CASE \/ DropOld \/ DropOldFails \/ Restore \/ RestoreFails \/ UnlinkTemporary
           \/ UnlinkTemporaryFails \/ RemoveStagingFails
  BY <1>4 DEF DropOld, DropOldFails, Restore, RestoreFails, UnlinkTemporary,
     UnlinkTemporaryFails, RemoveStagingFails, files
<1>5. CASE \/ PowerLoss \/ (\E kind \in {"file", "dir"} : OtherMakes(kind)) \/ OtherRemoves
           \/ UNCHANGED vars
  BY <1>5 DEF PowerLoss, OtherMakes, OtherRemoves, vars, files
<1>6. QED
  BY <1>1, <1>2, <1>3, <1>4, <1>5 DEF Next, Call

\* No step counts more than one fault or change.
LEMMA Counts ==
  [Next]_vars => \/ UNCHANGED <<faults, touched>>
                 \/ (faults' = faults + 1 /\ touched' = touched)
                 \/ (faults' = faults /\ touched' = touched + 1)
<1> SUFFICES ASSUME [Next]_vars
             PROVE  \/ UNCHANGED <<faults, touched>>
                    \/ (faults' = faults + 1 /\ touched' = touched)
                    \/ (faults' = faults /\ touched' = touched + 1)
  OBVIOUS
<1>1. CASE \/ Start \/ MakeStaging \/ MakeStagingFails \/ CreateTemporary
           \/ CreateTemporaryFails \/ WriteFails
  BY <1>1 DEF Start, MakeStaging, MakeStagingFails, CreateTemporary, CreateTemporaryFails,
     WriteFails
<1>2. CASE (\E isBad \in BOOLEAN : Respond(isBad)) \/ Close
  BY <1>2 DEF Respond, Close
<1>3. CASE \/ Publish \/ PublishExists \/ PublishFails \/ Backup \/ BackupFails \/ Inspect
           \/ InspectFails \/ Replace \/ ReplaceFails
  BY <1>3 DEF Publish, PublishExists, PublishFails, Backup, BackupFails, Inspect,
     InspectFails, Replace, ReplaceFails
<1>4. CASE \/ DropOld \/ DropOldFails \/ Restore \/ RestoreFails \/ UnlinkTemporary
           \/ UnlinkTemporaryFails \/ RemoveStaging \/ RemoveStagingFails
  BY <1>4 DEF DropOld, DropOldFails, Restore, RestoreFails, UnlinkTemporary,
     UnlinkTemporaryFails, RemoveStaging, RemoveStagingFails
<1>5. CASE \/ PowerLoss \/ (\E kind \in {"file", "dir"} : OtherMakes(kind)) \/ OtherRemoves
           \/ UNCHANGED vars
  BY <1>5 DEF PowerLoss, OtherMakes, OtherRemoves, vars
<1>6. QED
  BY <1>1, <1>2, <1>3, <1>4, <1>5 DEF Next, Call

\* Only an undisturbed step of the current download keeps its promise; it ends by
\* removing the directory.
LEMMA OwnStep ==
  ASSUME IInv, OwnStaging, [Next]_vars, faults' = faults, touched' = touched
  PROVE  \/ OwnStaging' /\ cur' = cur
         \/ RemoveStaging /\ IsEmpty(cur)
<1>a. faults \in Nat /\ touched \in Nat
  BY BoundsAssumption DEF IInv, TypeOK
<1>b. cur \in Downloads
  BY DEF IInv, TypeOK, OwnStaging
<1>c. new \in [Downloads -> Objects \cup {Nothing}] /\ old \in [Downloads -> Objects \cup {Nothing}]
  BY DEF IInv, TypeOK
<1>d. ~(faults' = faults + 1) /\ ~(touched' = touched + 1)
  BY <1>a
<1>e. ~Fault
  BY <1>d
<1>f. OwnStaging
  OBVIOUS
<1> DEFINE Goal == (OwnStaging' /\ cur' = cur) \/ (RemoveStaging /\ IsEmpty(cur))
<1> USE DEF OwnStaging
<1>1. CASE Start
  BY <1>f, <1>1 DEF Start
<1>2. CASE MakeStaging
  BY <1>f, <1>2 DEF MakeStaging
<1>3. CASE \/ MakeStagingFails \/ CreateTemporaryFails \/ WriteFails \/ InspectFails
           \/ DropOldFails \/ UnlinkTemporaryFails \/ RemoveStagingFails \/ PowerLoss
  BY <1>3, <1>e DEF MakeStagingFails, CreateTemporaryFails, WriteFails, InspectFails,
       DropOldFails, UnlinkTemporaryFails, RemoveStagingFails, PowerLoss
<1>4. CASE CreateTemporary
  BY <1>f, <1>4 DEF CreateTemporary
<1>5. ASSUME NEW isBad \in BOOLEAN, Respond(isBad) PROVE Goal
  BY <1>f, <1>5 DEF Respond, files
<1>6. CASE Close
  <2>1. /\ pc = "close" /\ faults' = faults /\ pc' \in {"unlink", "publish"}
        /\ (pc' = "unlink" => failed' = TRUE)
        /\ UNCHANGED <<cur, dirs, old, path, touched>>
    BY <1>6, <1>e DEF Close
  <2>2. old[cur] = Nothing
    BY <2>1 DEF IInv, Shape
  <2>3. QED
    BY <1>f, <2>1, <2>2
<1>7. CASE Publish
  <2>1. /\ pc = "publish" /\ pc' = "unlink" /\ new' = [new EXCEPT ![cur] = Nothing]
        /\ UNCHANGED <<cur, dirs, old, faults, touched>>
    BY <1>7 DEF Publish, MoveToPath
  <2>2. old[cur] = Nothing /\ new'[cur] = Nothing
    BY <1>b, <1>c, <2>1 DEF IInv, Shape
  <2>3. QED
    BY <1>f, <2>1, <2>2
<1>8. CASE PublishExists
  BY <1>f, <1>8 DEF PublishExists, files
<1>9. CASE PublishFails \/ BackupFails
  <2>1. /\ pc \in {"publish", "backup"} /\ pc' = "unlink" /\ failed' = TRUE
        /\ UNCHANGED <<cur, dirs, old, new, path, touched, faults>>
    BY <1>9, <1>e DEF PublishFails, BackupFails, files
  <2>2. old[cur] = Nothing
    BY <2>1 DEF IInv, Shape
  <2>3. QED
    BY <1>f, <2>1, <2>2
<1>10. CASE Backup
  BY <1>f, <1>10 DEF Backup
<1>11. CASE Inspect
  BY <1>f, <1>11 DEF Inspect, files
<1>12. CASE Replace
  <2>1. /\ pc = "replace" /\ pc' = "dropOld" /\ new' = [new EXCEPT ![cur] = Nothing]
        /\ UNCHANGED <<cur, dirs, faults, touched>>
    BY <1>12 DEF Replace, MoveToPath
  <2>2. new'[cur] = Nothing
    BY <1>b, <1>c, <2>1
  <2>3. QED
    BY <1>f, <2>1, <2>2
<1>13. CASE ReplaceFails
  BY <1>f, <1>13, <1>e DEF ReplaceFails, files
<1>14. CASE DropOld
  <2>1. /\ pc = "dropOld" /\ pc' = "unlink" /\ old' = [old EXCEPT ![cur] = Nothing]
        /\ UNCHANGED <<cur, dirs, new, faults, touched>>
    BY <1>14 DEF DropOld
  <2>2. old'[cur] = Nothing
    BY <1>b, <1>c, <2>1
  <2>3. QED
    BY <1>f, <2>1, <2>2
<1>15. CASE Restore
  <2>1. /\ pc = "restore" /\ pc' = "unlink" /\ failed' = TRUE
        /\ old' = [old EXCEPT ![cur] = Nothing]
        /\ UNCHANGED <<cur, dirs, new, faults, touched>>
    BY <1>15 DEF Restore
  <2>2. old'[cur] = Nothing
    BY <1>b, <1>c, <2>1
  <2>3. QED
    BY <1>f, <2>1, <2>2
<1>16. CASE RestoreFails
  BY <1>f, <1>16, <1>e DEF RestoreFails
<1>17. CASE UnlinkTemporary
  <2>1. /\ pc = "unlink" /\ pc' = "rmdir"
        /\ new' = [new EXCEPT ![cur] = IF failed THEN Nothing ELSE new[cur]]
        /\ UNCHANGED <<cur, dirs, old, faults, touched>>
    BY <1>17 DEF UnlinkTemporary
  <2>2. new'[cur] = IF failed THEN Nothing ELSE new[cur]
    BY <1>b, <1>c, <2>1
  <2>3. QED
    BY <1>f, <2>1, <2>2
<1>18. CASE RemoveStaging
  <2>1. pc = "rmdir"
    BY <1>18 DEF RemoveStaging
  <2>2. QED
    BY <1>f, <1>18, <2>1
<1>19. ASSUME NEW kind \in {"file", "dir"}, OtherMakes(kind) PROVE Goal
  BY <1>19, <1>d DEF OtherMakes
<1>20. CASE OtherRemoves
  BY <1>20, <1>d DEF OtherRemoves
<1>21. CASE UNCHANGED vars
  BY <1>f, <1>21 DEF vars, locals, files
<1>22. Goal
  BY <1>1, <1>2, <1>3, <1>4, <1>5, <1>6, <1>7, <1>8, <1>9, <1>10, <1>11, <1>12, <1>13, <1>14,
     <1>15, <1>16, <1>17, <1>18, <1>19, <1>20, <1>21 DEF Next, Call
<1>23. QED
  BY <1>22

LEMMA CleanStep == IInv /\ CleanInv /\ [Next]_vars => CleanInv'
<1> SUFFICES ASSUME IInv, CleanInv, [Next]_vars PROVE CleanInv'
  OBVIOUS
<1>a. faults \in Nat /\ touched \in Nat /\ dirs \subseteq Downloads
  BY BoundsAssumption DEF IInv, TypeOK
<1>b. /\ Cardinality(dirs) \in Nat /\ Cardinality(dirs \ {cur}) \in Nat
      /\ Cardinality(dirs) <= Cardinality(dirs \ {cur}) + 1
      /\ Cardinality(dirs \ {cur}) <= Cardinality(dirs)
  BY <1>a, DirsSize
<1>c. dirs' \subseteq dirs => Cardinality(dirs') \in Nat /\ Cardinality(dirs') <= Cardinality(dirs)
  BY <1>a, DirsSize
<1>d. \/ UNCHANGED <<faults, touched>>
      \/ (faults' = faults + 1 /\ touched' = touched)
      \/ (faults' = faults /\ touched' = touched + 1)
  BY Counts
<1>1. CASE MakeStaging
  <2>1. /\ pc = "mkdir" /\ pc' = "create" /\ dirs' = dirs \cup {cur}
        /\ UNCHANGED <<cur, faults, touched>>
    BY <1>1 DEF MakeStaging
  <2>2. dirs' \ {cur'} = dirs \ {cur}
    BY <2>1
  <2>3. Cardinality(dirs \ {cur}) <= Disturbances
    BY <1>a, <1>b DEF CleanInv, Disturbances
  <2>4. QED
    BY <2>1, <2>2, <2>3 DEF CleanInv, OwnStaging, Disturbances
<1>2. CASE ~MakeStaging /\ ~UNCHANGED <<faults, touched>>
  <2>1. Cardinality(dirs) <= Disturbances + 1
    BY <1>a, <1>b DEF CleanInv, Disturbances
  <2>2. Disturbances' = Disturbances + 1
    BY <1>a, <1>d, <1>2 DEF Disturbances
  <2>3. QED
    BY <1>a, <1>b, <1>c, <1>2, <2>1, <2>2, DirsStep DEF CleanInv, Disturbances
<1>3. CASE ~MakeStaging /\ UNCHANGED <<faults, touched>>
  <2>1. Disturbances' = Disturbances /\ Disturbances \in Nat
    BY <1>a, <1>3 DEF Disturbances
  <2>2. dirs' \subseteq dirs
    BY <1>3, DirsStep
  <2>3. CASE Cardinality(dirs) <= Disturbances
    BY <1>b, <1>c, <2>1, <2>2, <2>3 DEF CleanInv
  <2>4. CASE Cardinality(dirs \ {cur}) <= Disturbances /\ OwnStaging
    <3>1. CASE OwnStaging' /\ cur' = cur
      <4>1. dirs' \ {cur} \subseteq dirs \ {cur}
        BY <2>2
      <4>2. Cardinality(dirs' \ {cur}) <= Cardinality(dirs \ {cur})
            /\ Cardinality(dirs' \ {cur}) \in Nat
        <5>1. dirs \ {cur} \subseteq Downloads
          BY <1>a
        <5>2. IsFiniteSet(dirs \ {cur})
          <6>1. IsFiniteSet(Downloads)
            BY FS_Interval, BoundsAssumption DEF Downloads
          <6>2. QED
            BY <5>1, <6>1, FS_Subset
        <5>3. QED
          BY <4>1, <5>2, FS_Subset, FS_CardinalityType
      <4>3. QED
        BY <1>b, <2>1, <2>4, <3>1, <4>2 DEF CleanInv
    <3>2. CASE RemoveStaging /\ IsEmpty(cur)
      <4>1. dirs' = dirs \ {cur}
        BY <3>2 DEF RemoveStaging
      <4>2. QED
        BY <2>1, <2>4, <4>1 DEF CleanInv
    <3>3. QED
      BY <1>3, <2>4, <3>1, <3>2, OwnStep
  <2>5. QED
    BY <2>3, <2>4 DEF CleanInv
<1>4. QED
  BY <1>1, <1>2, <1>3

\* There are never more staging directories left behind than faults and changes by other
\* parties: whichever way a download goes, it removes its own unless it was disturbed.
THEOREM LeavesNothing == Spec => []StagingClean
<1>1. Init => CleanInv
  BY FS_EmptySet DEF Init, CleanInv, Disturbances
<1>2. IInv /\ CleanInv => StagingClean
  BY DEF CleanInv, Disturbances, OwnStaging, StagingClean
<1>3. QED
  BY Safe, CleanStep, <1>1, <1>2, PTL DEF Spec
=============================================================================
