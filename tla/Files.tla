------------------------------- MODULE Files -------------------------------
(***************************************************************************)
(* The file commands of the shell (main.c): cd, write, cp, rm and mkdir,   *)
(* on the card (FAT, which ignores case in names) and on the internal      *)
(* flash (LittleFS, which does not).  The shell is one task and runs one   *)
(* command at a time; a call may fail and the power may go between any two *)
(* changes of a file.  ls, tree, cat, pwd and df only read.                *)
(***************************************************************************)
EXTENDS Paths, FiniteSets

CONSTANTS Fold,        \* a name with its case folded
          Places,      \* the files and directories the model follows, names folded on FAT
          Inputs,      \* the arguments a command may be given
          Chunks,      \* what a buffer of one read holds
          Texts,       \* what write may be given: sequences of chunks
          PathSize,    \* size of the buffers for paths
          CwdSize,     \* sizeof s_cwd
          MaxCommands, \* bound: commands in one behaviour
          MaxFaults    \* bound: failed calls and power losses

Card == "sdcard"
Flash == "data"
SHELL_HOME == <<Card>>
Mounts == {<<Card>>, <<Flash>>}

ASSUME FilesAssumption ==
  /\ Fold \in [Names -> Names] /\ Fold[Card] = Card
  /\ Places \subseteq Seq(Names) \ {<<>>} /\ Mounts \subseteq Places
  /\ Inputs \subseteq Arguments /\ Texts \subseteq Seq(Chunks)
  /\ PathSize \in Nat /\ CwdSize \in Nat
  /\ MaxCommands \in Nat /\ MaxFaults \in Nat

File(data) == [kind |-> "file", data |-> data]
Directory == [kind |-> "dir", data |-> <<>>]
Nothing == [kind |-> "none", data |-> <<>>]
Contents == [kind : {"none", "dir", "file"}, data : Seq(Chunks)]

VARIABLES
  phase,    \* "off", "starting" (app_main before its shell) or "shell"
  fs,       \* what each place holds
  s_cwd,    \* the working directory
  cmd,      \* the command under way
  said,     \* what the last command said of its result
  commands, \* commands so far
  faults    \* faults so far

fileVars == <<phase, fs, s_cwd, cmd, said, commands, faults>>

\* dst is what the command fills, src what it reads, pos the chunks done; old is
\* what dst held before, and wanted, as history, what it is to hold.
Idle == [name |-> "none", dst |-> <<>>, src |-> <<>>, pos |-> 0, old |-> Nothing, wanted |-> Nothing]

InitFiles ==
  /\ phase = "shell"
  /\ s_cwd = SHELL_HOME
  /\ cmd = Idle
  /\ said = "nothing"
  /\ commands = 0
  /\ faults = 0

Fault == faults < MaxFaults /\ faults' = faults + 1

\* The place a path names.
Key(path) ==
  IF path # <<>> /\ path[1] = Card THEN [i \in DOMAIN path |-> Fold[path[i]]] ELSE path

At(path) == IF Key(path) \in Places THEN fs[Key(path)] ELSE Nothing
IsDir(path) == At(path).kind = "dir"
IsFile(path) == At(path).kind = "file"

Above(path) == SubSeq(path, 1, Len(path) - 1)
Basename(path) == IF path = <<>> THEN <<>> ELSE <<path[Len(path)]>>

\* fopen for writing finds the directory, and no directory of that name.
CanCreate(path) == Key(path) \in Places /\ Len(path) > 1 /\ IsDir(Above(path)) /\ ~IsDir(path)

resolve(in) == path_resolve(s_cwd, in, PathSize)

-----------------------------------------------------------------------------
(* How a command begins and ends. *)

Ready == phase = "shell"

Begins == Ready /\ cmd = Idle /\ commands < MaxCommands /\ commands' = commands + 1

Says(result) == said' = result

\* The command returns at once and has changed nothing.
Refuses == Says("failed") /\ UNCHANGED <<fs, s_cwd, cmd>>

Returns(result) == Says(result) /\ cmd' = Idle

\* fopen(path, "w"): the file is empty from here on.
Opens(name, path, src, wanted) ==
  /\ fs' = [fs EXCEPT ![Key(path)] = File(<<>>)]
  /\ cmd' = [name |-> name, dst |-> Key(path), src |-> src, pos |-> 0,
             old |-> At(path), wanted |-> wanted]
  /\ Says("nothing")
  /\ UNCHANGED s_cwd

\* What is in a file whose writing is cut.
Prefixes(data) == {SubSeq(data, 1, n) : n \in 0 .. Len(data)}

-----------------------------------------------------------------------------
(* The commands. *)

\* Without an argument it goes to SHELL_HOME.
cmd_cd(in) ==
  LET target == path_resolve(s_cwd, in, CwdSize) IN
  /\ Begins
  /\ s_cwd' = IF target.ok /\ IsDir(target.path) THEN target.path ELSE s_cwd
  /\ Says("nothing")
  /\ UNCHANGED <<phase, fs, cmd, faults>>

cmd_write(in, text) ==
  LET p == resolve(in) IN
  /\ Begins
  /\ IF p.ok /\ CanCreate(p.path) THEN Opens("write", p.path, <<>>, File(text)) ELSE Refuses
  /\ UNCHANGED <<phase, faults>>

\* A directory as destination stands for a file of the source's name in it.
Destination(src, path) == IF IsDir(path) THEN path \o Basename(src) ELSE path

\* Mutant: source and destination are not compared.
NeverSameFile(src, dst) == FALSE

SameFile(src, dst) == src = dst

\* CONFIG_FATFS_FS_LOCK: FatFs refuses to write through another name to a file that
\* is open.
Locked(src, dst) == Key(src) = Key(dst) /\ src[1] = Card

cmd_cp(from, to) ==
  LET s == resolve(from)
      t == resolve(to)
      dst == Destination(s.path, t.path)
  IN
  /\ Begins
  /\ IF /\ s.ok /\ t.ok /\ PathLength(dst) < PathSize
        /\ ~SameFile(s.path, dst)
        /\ IsFile(s.path)
        /\ CanCreate(dst) /\ ~Locked(s.path, dst)
     THEN Opens("cp", dst, Key(s.path), At(s.path))
     ELSE Refuses
  /\ UNCHANGED <<phase, faults>>

\* Any of the first calls fails.
OpenFails ==
  /\ Begins
  /\ Fault
  /\ Refuses
  /\ UNCHANGED phase

\* What a command that fills a file writes.
Source == IF cmd.name = "cp" THEN fs[cmd.src].data ELSE cmd.wanted.data

Fill ==
  /\ cmd.name \in {"write", "cp"}
  /\ cmd.pos < Len(Source)
  /\ fs' = [fs EXCEPT ![cmd.dst].data = Append(@, Source[cmd.pos + 1])]
  /\ cmd' = [cmd EXCEPT !.pos = @ + 1]
  /\ UNCHANGED <<phase, s_cwd, said, commands, faults>>

\* A read or a write fails, or fclose does: part of the data is in the file.
FillFails ==
  /\ cmd.name \in {"write", "cp"}
  /\ Fault
  /\ \E part \in Prefixes(fs[cmd.dst].data) : fs' = [fs EXCEPT ![cmd.dst].data = part]
  /\ Returns("failed")
  /\ UNCHANGED <<phase, s_cwd, commands>>

\* fclose succeeds.
Close ==
  /\ cmd.name \in {"write", "cp"}
  /\ cmd.pos >= Len(Source)
  /\ Returns("done")
  /\ UNCHANGED <<phase, fs, s_cwd, commands, faults>>

\* FatFs removes an empty directory too.
Removable(path) ==
  \/ IsFile(path)
  \/ /\ IsDir(path) /\ path \notin Mounts /\ path[1] = Card
     /\ \A k \in Places : Len(k) > 1 /\ Above(k) = Key(path) => fs[k] = Nothing

cmd_rm(in) ==
  LET p == resolve(in) IN
  /\ Begins
  /\ IF p.ok /\ Removable(p.path)
     THEN /\ fs' = [fs EXCEPT ![Key(p.path)] = Nothing]
          /\ Says("done")
          /\ UNCHANGED <<s_cwd, cmd>>
     ELSE Refuses
  /\ UNCHANGED <<phase, faults>>

cmd_mkdir(in) ==
  LET p == resolve(in) IN
  /\ Begins
  /\ IF p.ok /\ CanCreate(p.path) /\ At(p.path) = Nothing
     THEN /\ fs' = [fs EXCEPT ![Key(p.path)] = Directory]
          /\ Says("done")
          /\ UNCHANGED <<s_cwd, cmd>>
     ELSE Refuses
  /\ UNCHANGED <<phase, faults>>

FileStep ==
  \/ \E in \in Inputs \cup {[abs |-> TRUE, segs |-> SHELL_HOME]} : cmd_cd(in)
  \/ \E in \in Inputs :
       \/ \E text \in Texts : cmd_write(in, text)
       \/ \E to \in Inputs : cmd_cp(in, to)
       \/ cmd_rm(in)
       \/ cmd_mkdir(in)
  \/ OpenFails
  \/ Fill
  \/ FillFails
  \/ Close

\* What the power leaves of the file that is being filled: the old file, or part of
\* the new one.
Torn ==
  IF cmd.dst \in Places
  THEN \E left \in {cmd.old} \cup {File(part) : part \in Prefixes(fs[cmd.dst].data)} :
         fs' = [fs EXCEPT ![cmd.dst] = left]
  ELSE UNCHANGED fs
=============================================================================
