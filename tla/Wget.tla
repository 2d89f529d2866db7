-------------------------------- MODULE Wget --------------------------------
(***************************************************************************)
(* wget.c: wget_download() streams an HTTP response into a file inside a   *)
(* staging directory of its own and moves it to the output path once it is *)
(* complete.  The shell runs one download at a time; another party may     *)
(* change the path between any two calls, any call may fail, and the power *)
(* may go.  Output to stdout touches no file and is left out.              *)
(***************************************************************************)
EXTENDS Naturals, FiniteSets

CONSTANTS MaxDownloads, \* bound: downloads in one behaviour
          MaxTouches,   \* bound: changes of the path by another party
          MaxFaults     \* bound: failed calls and power losses

ASSUME BoundsAssumption ==
  MaxDownloads \in Nat /\ MaxTouches \in Nat /\ MaxFaults \in Nat

Downloads == 1 .. MaxDownloads

(***************************************************************************)
(* Files and directories, told apart by who made them and when.  A file is *)
(* whole when it has all the bytes it should have.                         *)
(***************************************************************************)
Objects == [kind : {"file", "dir"}, maker : {"wget", "other"}, no : Nat, whole : BOOLEAN]
Nothing == [kind |-> "none", maker |-> "other", no |-> 0, whole |-> TRUE]
Others(kind, no) == [kind |-> kind, maker |-> "other", no |-> no, whole |-> TRUE]
Downloaded(d, whole) == [kind |-> "file", maker |-> "wget", no |-> d, whole |-> whole]

VARIABLES
  replacing, \* TRUE iff rename replaces a file (LittleFS); FAT refuses
  pc,        \* the next call of wget_download
  cur,       \* the number of this download, the last one if pc is "idle"
  path,      \* what the output path names
  dirs,      \* the staging directories that exist, by download
  new,       \* the `new` file of each staging directory
  old,       \* the `old` file of each staging directory
  output,    \* TRUE once a write of the response has failed (output.failed)
  bad,       \* TRUE iff the request failed
  failed,    \* the flag `failed`
  result,    \* the value each download returned
  put,       \* history: downloads that reached the path
  saved,     \* history: the download that moved the last old output away, and 0
             \* once that output is back or replaced
  touched,   \* history: changes by another party
  faults     \* history: faults

locals == <<pc, cur, output, bad, failed, result>>
files == <<path, dirs, new, old>>
vars == <<replacing, locals, files, put, saved, touched, faults>>

Init ==
  /\ replacing \in BOOLEAN
  /\ pc = "idle"
  /\ cur = 0
  /\ path \in {Nothing, Others("file", 0), Others("dir", 0)}
  /\ dirs = {}
  /\ new = [d \in Downloads |-> Nothing]
  /\ old = [d \in Downloads |-> Nothing]
  /\ output = FALSE
  /\ bad = FALSE
  /\ failed = FALSE
  /\ result = [d \in Downloads |-> "none"]
  /\ put = {}
  /\ saved = 0
  /\ touched = 0
  /\ faults = 0

Fault == faults < MaxFaults /\ faults' = faults + 1

Goto(l) == pc' = l

Return(r) == pc' = "idle" /\ result' = [result EXCEPT ![cur] = r]

-----------------------------------------------------------------------------
(* Before the request: create_staging_directory() and the output file. *)

Start ==
  /\ pc = "idle"
  /\ cur < MaxDownloads
  /\ cur' = cur + 1
  /\ Goto("mkdir")
  /\ output' = FALSE
  /\ bad' = FALSE
  /\ failed' = FALSE
  /\ UNCHANGED <<replacing, result, files, put, saved, touched, faults>>

\* Each attempt draws a new name, so an earlier directory is never used again.
MakeStaging ==
  /\ pc = "mkdir"
  /\ dirs' = dirs \cup {cur}
  /\ Goto("create")
  /\ UNCHANGED <<replacing, cur, output, bad, failed, result, path, new, old, put, saved, touched, faults>>

MakeStagingFails ==
  /\ pc = "mkdir"
  /\ Fault
  /\ Return("1")
  /\ UNCHANGED <<replacing, cur, output, bad, failed, files, put, saved, touched>>

CreateTemporary ==
  /\ pc = "create"
  /\ new' = [new EXCEPT ![cur] = Downloaded(cur, FALSE)]
  /\ Goto("request")
  /\ UNCHANGED <<replacing, cur, output, bad, failed, result, path, dirs, old, put, saved, touched, faults>>

\* open() fails, or fdopen() fails and the file is unlinked again.
CreateTemporaryFails ==
  /\ pc = "create"
  /\ Fault
  /\ dirs' = dirs \ {cur}
  /\ Return("1")
  /\ UNCHANGED <<replacing, cur, output, bad, failed, path, new, old, put, saved, touched>>

-----------------------------------------------------------------------------
(* The request: download_event() and what perform() and cleanup() say. *)

\* A write of a part of the body fails; later parts are not written.
WriteFails ==
  /\ pc = "request"
  /\ ~output
  /\ Fault
  /\ output' = TRUE
  /\ UNCHANGED <<replacing, pc, cur, bad, failed, result, files, put, saved, touched>>

\* The response ends, whole or not: an error, another status than 2xx, or a body
\* that stops early.
Respond(isBad) ==
  /\ pc = "request"
  /\ bad' = isBad
  /\ Goto("close")
  /\ UNCHANGED <<replacing, cur, output, failed, result, files, put, saved, touched, faults>>

\* Mutant: a failed write or flush does not fail the download.
IgnoresWrites(writeFailed) == bad

Failed(writeFailed) == bad \/ writeFailed

\* fclose flushes what is buffered, and may fail to.
Close ==
  \E flushFails \in BOOLEAN :
    /\ pc = "close"
    /\ IF flushFails THEN Fault ELSE UNCHANGED faults
    /\ new' = [new EXCEPT ![cur] = Downloaded(cur, ~bad /\ ~output /\ ~flushFails)]
    /\ failed' = Failed(output \/ flushFails)
    /\ Goto(IF Failed(output \/ flushFails) THEN "unlink" ELSE "publish")
    /\ UNCHANGED <<replacing, cur, output, bad, result, path, dirs, old, put, saved, touched>>

-----------------------------------------------------------------------------
(* publish_download() *)

FailTo(l) == failed' = TRUE /\ Goto(l)

MoveToPath ==
  /\ path' = new[cur]
  /\ new' = [new EXCEPT ![cur] = Nothing]
  /\ put' = put \cup {cur}
  /\ saved' = 0

\* The first rename succeeds: the path is free, or a file that may be replaced.
Publish ==
  /\ pc = "publish"
  /\ path = Nothing \/ (replacing /\ path.kind = "file")
  /\ MoveToPath
  /\ Goto("unlink")
  /\ UNCHANGED <<replacing, cur, output, bad, failed, result, dirs, old, touched, faults>>

\* FAT answers EEXIST, and the old output has to be moved away first.
PublishExists ==
  /\ pc = "publish"
  /\ path # Nothing /\ ~replacing
  /\ Goto("backup")
  /\ UNCHANGED <<replacing, cur, output, bad, failed, result, files, put, saved, touched, faults>>

\* A directory in the way, or an I/O error.
PublishFails ==
  /\ pc = "publish"
  /\ IF replacing /\ path.kind = "dir" THEN UNCHANGED faults ELSE Fault
  /\ FailTo("unlink")
  /\ UNCHANGED <<replacing, cur, output, bad, result, files, put, saved, touched>>

\* Mutant: the old output is deleted and not moved.
NotSaved(o) == Nothing

Saved(o) == o

Backup ==
  /\ pc = "backup"
  /\ path # Nothing
  /\ old' = [old EXCEPT ![cur] = Saved(path)]
  /\ path' = Nothing
  /\ saved' = cur
  /\ Goto("inspect")
  /\ UNCHANGED <<replacing, cur, output, bad, failed, result, dirs, new, put, touched, faults>>

\* Another party has taken the old output away, or an I/O error.
BackupFails ==
  /\ pc = "backup"
  /\ IF path = Nothing THEN UNCHANGED faults ELSE Fault
  /\ FailTo("unlink")
  /\ UNCHANGED <<replacing, cur, output, bad, result, files, put, saved, touched>>

\* open, fstat and close on the object that was moved.
Inspect ==
  /\ pc = "inspect"
  /\ Goto(IF old[cur].kind = "file" THEN "replace" ELSE "restore")
  /\ UNCHANGED <<replacing, cur, output, bad, failed, result, files, put, saved, touched, faults>>

InspectFails ==
  /\ pc = "inspect"
  /\ Fault
  /\ Goto("restore")
  /\ UNCHANGED <<replacing, cur, output, bad, failed, result, files, put, saved, touched>>

Replace ==
  /\ pc = "replace"
  /\ path = Nothing
  /\ MoveToPath
  /\ Goto("dropOld")
  /\ UNCHANGED <<replacing, cur, output, bad, failed, result, dirs, old, touched, faults>>

\* Another party has taken the path, or an I/O error.
ReplaceFails ==
  /\ pc = "replace"
  /\ IF path # Nothing THEN UNCHANGED faults ELSE Fault
  /\ Goto("restore")
  /\ UNCHANGED <<replacing, cur, output, bad, failed, result, files, put, saved, touched>>

DropOld ==
  /\ pc = "dropOld"
  /\ old' = [old EXCEPT ![cur] = Nothing]
  /\ Goto("unlink")
  /\ UNCHANGED <<replacing, cur, output, bad, failed, result, path, dirs, new, put, saved, touched, faults>>

DropOldFails ==
  /\ pc = "dropOld"
  /\ Fault
  /\ Goto("unlink")
  /\ UNCHANGED <<replacing, cur, output, bad, failed, result, files, put, saved, touched>>

\* Mutant: a download that was rolled back counts as done.
RestoreSucceeds == failed' = FALSE /\ Goto("unlink")

RestoreEnds == FailTo("unlink")

Restore ==
  /\ pc = "restore"
  /\ path = Nothing
  /\ path' = old[cur]
  /\ old' = [old EXCEPT ![cur] = Nothing]
  /\ saved' = 0
  /\ RestoreEnds
  /\ UNCHANGED <<replacing, cur, output, bad, result, dirs, new, put, touched, faults>>

\* The old output stays in the staging directory.
RestoreFails ==
  /\ pc = "restore"
  /\ IF path # Nothing THEN UNCHANGED faults ELSE Fault
  /\ RestoreEnds
  /\ UNCHANGED <<replacing, cur, output, bad, result, files, put, saved, touched>>

-----------------------------------------------------------------------------
(* The end of wget_download(). *)

\* Mutant: a failed download leaves its file behind.
KeepsTemporary(o) == o

Unlinked(o) == Nothing

UnlinkTemporary ==
  /\ pc = "unlink"
  /\ new' = [new EXCEPT ![cur] = IF failed THEN Unlinked(@) ELSE @]
  /\ Goto("rmdir")
  /\ UNCHANGED <<replacing, cur, output, bad, failed, result, path, dirs, old, put, saved, touched, faults>>

UnlinkTemporaryFails ==
  /\ pc = "unlink"
  /\ failed
  /\ Fault
  /\ Goto("rmdir")
  /\ UNCHANGED <<replacing, cur, output, bad, failed, result, files, put, saved, touched>>

IsEmpty(d) == new[d] = Nothing /\ old[d] = Nothing

\* rmdir removes an empty directory only.
RemoveStaging ==
  /\ pc = "rmdir"
  /\ dirs' = IF IsEmpty(cur) THEN dirs \ {cur} ELSE dirs
  /\ Return(IF failed THEN "1" ELSE "0")
  /\ UNCHANGED <<replacing, cur, output, bad, failed, path, new, old, put, saved, touched, faults>>

RemoveStagingFails ==
  /\ pc = "rmdir"
  /\ Fault
  /\ Return(IF failed THEN "1" ELSE "0")
  /\ UNCHANGED <<replacing, cur, output, bad, failed, files, put, saved, touched>>

-----------------------------------------------------------------------------
(* The environment *)

\* The board restarts with what is on its file systems.
PowerLoss ==
  /\ pc # "idle"
  /\ Fault
  /\ Goto("idle")
  /\ UNCHANGED <<replacing, cur, output, bad, failed, result, files, put, saved, touched>>

OtherMakes(kind) ==
  /\ path = Nothing
  /\ touched < MaxTouches
  /\ touched' = touched + 1
  /\ path' = Others(kind, touched + 1)
  /\ UNCHANGED <<replacing, locals, dirs, new, old, put, saved, faults>>

OtherRemoves ==
  /\ path # Nothing
  /\ touched < MaxTouches
  /\ touched' = touched + 1
  /\ path' = Nothing
  /\ UNCHANGED <<replacing, locals, dirs, new, old, put, saved, faults>>

Call ==
  \/ MakeStaging \/ MakeStagingFails \/ CreateTemporary \/ CreateTemporaryFails
  \/ WriteFails \/ (\E isBad \in BOOLEAN : Respond(isBad)) \/ Close
  \/ Publish \/ PublishExists \/ PublishFails \/ Backup \/ BackupFails
  \/ Inspect \/ InspectFails \/ Replace \/ ReplaceFails \/ DropOld \/ DropOldFails
  \/ Restore \/ RestoreFails \/ UnlinkTemporary \/ UnlinkTemporaryFails
  \/ RemoveStaging \/ RemoveStagingFails

Next ==
  \/ Start
  \/ Call
  \/ PowerLoss
  \/ \E kind \in {"file", "dir"} : OtherMakes(kind)
  \/ OtherRemoves

Spec == Init /\ [][Next]_vars

-----------------------------------------------------------------------------

Pcs == {"idle", "mkdir", "create", "request", "close", "publish", "backup", "inspect",
        "replace", "dropOld", "restore", "unlink", "rmdir"}

\* Every variable has its type, and files lie in directories that exist only.
TypeOK ==
  /\ replacing \in BOOLEAN
  /\ pc \in Pcs
  /\ cur \in 0 .. MaxDownloads
  /\ pc # "idle" => cur \in Downloads
  /\ path \in Objects \cup {Nothing}
  /\ dirs \subseteq Downloads
  /\ new \in [Downloads -> Objects \cup {Nothing}]
  /\ old \in [Downloads -> Objects \cup {Nothing}]
  /\ \A d \in Downloads \ dirs : new[d] = Nothing /\ old[d] = Nothing
  /\ output \in BOOLEAN /\ bad \in BOOLEAN /\ failed \in BOOLEAN
  /\ result \in [Downloads -> {"none", "0", "1"}]
  /\ put \subseteq Downloads
  /\ saved \in Downloads \cup {0}
  /\ touched \in 0 .. MaxTouches
  /\ faults \in 0 .. MaxFaults

\* What exists under the path or as the `old` file of a staging directory.
Held == ({path} \cup {old[d] : d \in Downloads}) \ {Nothing}

\* wget never destroys what it did not download, whatever fails in whatever order: the
\* only thing it gives up is a regular file, once its own download has been at the path.
NothingLost ==
  [][touched' = touched =>
       \A o \in Held \ Held' : o.kind = "file" /\ cur \in put']_vars

\* wget returns 0 exactly for the downloads that reached the path.
ExitCodeHonest ==
  \A d \in Downloads : result[d] # "none" => (result[d] = "0" <=> d \in put)

\* A staging directory that is left behind has its reason: a fault or a change by another
\* party, and never are there more of them than of those.
StagingClean == pc = "idle" => Cardinality(dirs) <= faults + touched

\* What the path holds, or else the old output that was moved away from it.
Kept == IF path # Nothing \/ saved = 0 THEN path ELSE old[saved]

Promise == INSTANCE KeptFile
  WITH WholeDownloads <- {Downloaded(d, TRUE) : d \in Downloads}, kept <- Kept

\* At every moment, in the middle of a publication and after a power loss included,
\* the old output is at the path or in a staging directory, until a whole download has
\* taken its place: publish_download() moves, and never deletes first.
OldOrNew == Promise!Spec
=============================================================================
