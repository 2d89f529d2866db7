---------------------------- MODULE Shell_proofs ----------------------------
(***************************************************************************)
(* Proofs about Shell: the types, that an update always leaves an image    *)
(* that has run, that the commands implement FileStore, and that a path is *)
(* resolved to its meaning, for names, buffers and tables of every size.   *)
(***************************************************************************)
EXTENDS PathMeaning, TLAPS, SequenceTheorems, FiniteSetTheorems, WellFoundedInduction

(* The inductive invariant. *)

Filling == cmd.name \in {"write", "cp"}
Updating == cmd.name \in {"ota_update", "ota_switch"}

\* What is done of the data that is wanted.
Done == SubSeq(cmd.wanted.data, 1, cmd.pos)

\* No command: the record is the idle one.
NoCommand == cmd.name = "none" => cmd = Idle

\* The data of a command is a file, and pos says how far into it the command is.
InData ==
  cmd.name # "none" => cmd.wanted.kind = "file" /\ cmd.pos \in 0 .. Len(cmd.wanted.data)

\* write and cp have written just the part before pos.
FilledSoFar == Filling => cmd.dst \in Places /\ fs[cmd.dst] = File(Done)

\* The source of cp is another file, and neither it nor that of ota_update changes.
SourceKept ==
  /\ cmd.name \in {"cp", "ota_update"} => cmd.src \in Places /\ fs[cmd.src] = cmd.wanted
  /\ cmd.name = "cp" => cmd.src # cmd.dst

\* An update is for the other slot, and begins only off trial.
UpdateOfOther == Updating => cmd.dst = Other(running) /\ state[running] # "pending"

\* ota_update has written just the part before pos, once it has begun.
SlotSoFar ==
  /\ cmd.name = "ota_update" =>
       cmd.wanted.data # <<>> /\ (cmd.pos > 0 => slot[cmd.dst] = Done)
  /\ cmd.name = "ota_switch" => slot[cmd.dst] = cmd.wanted.data

CommandInv == NoCommand /\ InData /\ FilledSoFar /\ SourceKept /\ UpdateOfOther /\ SlotSoFar

\* What runs has been started, or can be.
RunningGood ==
  /\ phase = "shell" => slot[running] \in proven
  /\ phase = "starting" => slot[running] \in Images

\* A new image is the one to boot next, and waits beside a running one that has run.
NewIsNext ==
  \A s \in Slots : state[s] = "new" =>
    s = boot /\ s = Other(running) /\ slot[Other(s)] \in proven

\* Only the image that boots next is on trial.
TrialIsNext == \A s \in Slots : state[s] = "pending" => s = boot

SlotInv == KeepsAGood /\ RunningGood /\ NewIsNext /\ TrialIsNext

Inv == TypeOK /\ CommandInv /\ SlotInv

AbstractStep == [Abstract!Next]_<<store, job, said>>

-----------------------------------------------------------------------------
(* Slots and places. *)

LEMMA OtherSlot ==
  /\ \A s \in Slots : Other(s) \in Slots /\ Other(s) # s /\ Other(Other(s)) = s
  /\ \A s, t \in Slots : t # s => t = Other(s)
  BY DEF Slots, Other

LEMMA ApartStores ==
  /\ <<>> \notin Stores
  /\ \A s \in Slots : s \notin Places
  BY FilesAssumption, OtaAssumption DEF Stores, Slots

LEMMA StoreNow ==
  /\ \A p \in Places : store[p] = fs[p]
  /\ \A s \in Slots : store[s] = File(slot[s])
  BY ApartStores DEF store, Stores

LEMMA StoreNext ==
  /\ \A p \in Places : store'[p] = fs'[p]
  /\ \A s \in Slots : store'[s] = File(slot'[s])
  BY ApartStores DEF store, Stores

\* A place or a slot alone changes.
LEMMA OnePlace ==
  ASSUME NEW p \in Places, \A q \in Places \ {p} : fs'[q] = fs[q], slot' = slot
  PROVE  Abstract!Spares(p)
  BY StoreNow, StoreNext DEF Abstract!Spares, Stores

LEMMA OneSlot ==
  ASSUME NEW s \in Slots, \A t \in Slots \ {s} : slot'[t] = slot[t], fs' = fs
  PROVE  Abstract!Spares(s)
  BY StoreNow, StoreNext DEF Abstract!Spares, Stores

LEMMA SameStore ==
  ASSUME fs' = fs, slot' = slot
  PROVE  store' = store
  BY DEF store

\* No command is no job, and a command has one.
LEMMA IdleJob ==
  ASSUME cmd = Idle
  PROVE  job = Abstract!NoJob
  BY DEF job, Abstract!NoJob

LEMMA BusyJob ==
  ASSUME Inv, cmd.name # "none"
  PROVE  /\ cmd # Idle /\ phase = "shell"
         /\ job = [place |-> cmd.dst, wanted |-> cmd.wanted]
         /\ cmd.dst \in Stores
         /\ job # Abstract!NoJob
  <1>a. cmd.name \in Commands /\ running \in Slots /\ (cmd # Idle => phase = "shell")
    BY DEF Inv, TypeOK
  <1>1. cmd # Idle BY DEF Idle
  <1>2. cmd.dst \in Stores
    BY <1>a, OtherSlot DEF Inv, CommandInv, FilledSoFar, UpdateOfOther, Filling, Updating,
       Commands, Stores
  <1>3. job = [place |-> cmd.dst, wanted |-> cmd.wanted] BY <1>1 DEF job
  <1>4. job.place # <<>> BY <1>2, <1>3, ApartStores
  <1>5. job # Abstract!NoJob BY <1>4 DEF Abstract!NoJob
  <1> QED BY <1>a, <1>1, <1>2, <1>3, <1>5

\* While a command stays what it is, so does its job.
LEMMA SameJob ==
  ASSUME Inv, cmd.name # "none", cmd'.name # "none", cmd'.dst = cmd.dst, cmd'.wanted = cmd.wanted
  PROVE  job' = job
  <1>1. cmd' # Idle BY DEF Idle
  <1>2. job' = [place |-> cmd'.dst, wanted |-> cmd'.wanted] BY <1>1 DEF job, Idle, Nothing
  <1> QED BY <1>2, BusyJob

-----------------------------------------------------------------------------
(* How an action begins and ends. *)

\* A command that changes no store and says nothing of it, or that it failed.
LEMMA Refusing ==
  ASSUME cmd = Idle, cmd' = cmd, fs' = fs, slot' = slot, said' \in {"nothing", "failed"}
  PROVE  AbstractStep
  <1>1. job' = job BY DEF job, Idle, Nothing
  <1>2. Abstract!Refuse BY <1>1, IdleJob, SameStore DEF Abstract!Refuse
  <1> QED BY <1>2 DEF AbstractStep, Abstract!Next

\* A command that fills a place or a slot.
LEMMA Beginning ==
  ASSUME cmd = Idle, cmd'.name # "none", cmd'.dst \in Stores, said' = "nothing",
         Abstract!Spares(cmd'.dst),
         \/ cmd'.wanted \in {File(text) : text \in Texts}
         \/ \E q \in Places : cmd'.wanted = fs[q]
  PROVE  AbstractStep
  <1>1. cmd' # Idle BY DEF Idle
  <1>2. job' = [place |-> cmd'.dst, wanted |-> cmd'.wanted] BY <1>1 DEF job, Idle, Nothing
  <1>3. cmd'.wanted \in {File(text) : text \in Texts} \cup {store[q] : q \in Stores}
    BY StoreNow DEF Stores
  <1>4. Abstract!Begin(cmd'.dst) BY <1>2, <1>3, IdleJob DEF Abstract!Begin
  <1> QED BY <1>4 DEF AbstractStep, Abstract!Next

LEMMA Changing ==
  ASSUME Inv, cmd.name # "none", cmd'.name # "none", cmd'.dst = cmd.dst,
         cmd'.wanted = cmd.wanted, said' = said, Abstract!Spares(cmd.dst)
  PROVE  AbstractStep
  <1>1. job' = job /\ job # Abstract!NoJob /\ job.place = cmd.dst BY SameJob, BusyJob
  <1>2. Abstract!Change BY <1>1 DEF Abstract!Change
  <1> QED BY <1>2 DEF AbstractStep, Abstract!Next

LEMMA Finishing ==
  ASSUME Inv, cmd.name # "none", cmd' = Idle, Abstract!Spares(cmd.dst),
         said' = "done" => store'[cmd.dst] = cmd.wanted
  PROVE  AbstractStep
  <1>1. job # Abstract!NoJob /\ job.place = cmd.dst /\ job.wanted = cmd.wanted BY BusyJob
  <1>2. job' = Abstract!NoJob BY DEF job, Idle, Nothing, Abstract!NoJob
  <1>3. Abstract!Finish BY <1>1, <1>2 DEF Abstract!Finish
  <1> QED BY <1>3 DEF AbstractStep, Abstract!Next

\* Without a command nothing is asked of cmd.
LEMMA IdleCommand == Idle.name = "none" /\ Idle \in [name : Commands, dst : Stores \cup {<<>>},
    src : Places \cup {<<>>}, pos : Nat, old : Contents, wanted : Contents]
  BY DEF Idle, Commands, Contents, Nothing

LEMMA NothingAsked ==
  ASSUME cmd' = Idle
  PROVE  CommandInv'
  BY IdleCommand DEF CommandInv, NoCommand, InData, FilledSoFar, SourceKept, UpdateOfOther,
     SlotSoFar, Filling, Updating, Idle, Nothing

\* The slots, their states and what runs are as before.
LEMMA SameSlots ==
  ASSUME SlotInv, phase' = phase, UNCHANGED otaVars
  PROVE  SlotInv'
  BY DEF SlotInv, KeepsAGood, RunningGood, NewIsNext, TrialIsNext, otaVars

\* Without a power loss nothing is started.
LEMMA SwitchedOff ==
  ASSUME SlotInv, phase' = "off", UNCHANGED otaVars
  PROVE  SlotInv'
  BY DEF SlotInv, KeepsAGood, RunningGood, NewIsNext, TrialIsNext, otaVars

\* What a place holds.
LEMMA Holding ==
  ASSUME TypeOK, NEW path
  PROVE  /\ At(path) \in Contents
         /\ IsFile(path) => Key(path) \in Places /\ At(path) = fs[Key(path)]
         /\ IsDir(path) => Key(path) \in Places
  <1>a. fs \in [Places -> Contents] BY DEF TypeOK
  <1> QED BY <1>a DEF At, IsFile, IsDir, Nothing, Contents

-----------------------------------------------------------------------------
(* The file commands. *)

\* The command is refused.
LEMMA RefusesStep ==
  ASSUME Inv, Begins, Refuses, phase' = phase, faults' \in 0 .. MaxFaults, UNCHANGED otaVars
  PROVE  Inv' /\ AbstractStep
  <1>a. /\ cmd = Idle /\ cmd' = cmd /\ fs' = fs /\ said' = "failed" /\ slot' = slot
        /\ commands' \in 0 .. MaxCommands
    BY FilesAssumption DEF Begins, Refuses, Says, otaVars, Inv, TypeOK
  <1>1. TypeOK' BY <1>a DEF Inv, TypeOK, otaVars
  <1>2. CommandInv' BY <1>a, NothingAsked
  <1>3. SlotInv' BY SameSlots DEF Inv
  <1>4. AbstractStep BY <1>a, Refusing
  <1> QED BY <1>1, <1>2, <1>3, <1>4 DEF Inv

LEMMA CdStep ==
  ASSUME Inv, NEW in, cmd_cd(in), UNCHANGED otaVars
  PROVE  Inv' /\ AbstractStep
  <1>a. /\ cmd = Idle /\ cmd' = cmd /\ fs' = fs /\ said' = "nothing" /\ slot' = slot
        /\ phase' = phase /\ faults' = faults /\ commands' \in 0 .. MaxCommands
    BY FilesAssumption DEF cmd_cd, Begins, Says, otaVars, Inv, TypeOK
  <1>1. TypeOK' BY <1>a DEF Inv, TypeOK, otaVars
  <1>2. CommandInv' BY <1>a, NothingAsked
  <1>3. SlotInv' BY <1>a, SameSlots DEF Inv
  <1>4. AbstractStep BY <1>a, Refusing
  <1> QED BY <1>1, <1>2, <1>3, <1>4 DEF Inv

\* A file is opened to be filled, from its first chunk on.
LEMMA OpensStep ==
  ASSUME Inv, NEW name \in {"write", "cp"}, NEW path, NEW src \in Places \cup {<<>>},
         NEW wanted \in Contents,
         Begins, Opens(name, path, src, wanted), phase' = phase, faults' = faults,
         UNCHANGED otaVars,
         Key(path) \in Places, wanted.kind = "file",
         \/ wanted \in {File(text) : text \in Texts}
         \/ \E q \in Places : wanted = fs[q],
         name = "cp" => src \in Places /\ src # Key(path) /\ wanted = fs[src]
  PROVE  Inv' /\ AbstractStep
  <1>a. /\ cmd = Idle /\ phase = "shell" /\ said' = "nothing" /\ slot' = slot
        /\ commands' \in 0 .. MaxCommands
        /\ fs' = [fs EXCEPT ![Key(path)] = File(<<>>)]
        /\ cmd' = [name |-> name, dst |-> Key(path), src |-> src, pos |-> 0,
                   old |-> At(path), wanted |-> wanted]
    BY FilesAssumption DEF Begins, Opens, Says, Ready, otaVars, Inv, TypeOK
  <1>b. fs \in [Places -> Contents] /\ At(path) \in Contents
    BY Holding DEF Inv, TypeOK
  <1>c. /\ cmd'.name = name /\ cmd'.dst = Key(path) /\ cmd'.src = src /\ cmd'.pos = 0
        /\ cmd'.wanted = wanted
    BY <1>a
  <1>d. File(<<>>) \in Contents BY DEF File, Contents
  <1>e. wanted.data \in Seq(Chunks) BY DEF Contents
  <1>f. SubSeq(wanted.data, 1, 0) = <<>> BY <1>e
  <1>1. TypeOK'
    <2>1. fs' \in [Places -> Contents] BY <1>a, <1>b, <1>d
    <2>2. cmd' \in [name : Commands, dst : Stores \cup {<<>>}, src : Places \cup {<<>>}, pos : Nat,
                    old : Contents, wanted : Contents]
      BY <1>a, <1>b DEF Commands, Stores
    <2> QED BY <1>a, <2>1, <2>2 DEF Inv, TypeOK, otaVars
  <1>2. CommandInv'
    <2>1. NoCommand' /\ UpdateOfOther' /\ SlotSoFar' BY <1>c DEF NoCommand, UpdateOfOther, SlotSoFar, Updating
    <2>2. InData' BY <1>c, <1>e DEF InData
    <2>3. FilledSoFar' BY <1>a, <1>b, <1>c, <1>f DEF FilledSoFar, Done
    <2>4. SourceKept' BY <1>a, <1>b, <1>c DEF SourceKept
    <2> QED BY <2>1, <2>2, <2>3, <2>4 DEF CommandInv
  <1>3. SlotInv' BY SameSlots DEF Inv
  <1>4. AbstractStep
    <2>1. Abstract!Spares(Key(path)) BY <1>a, <1>b, OnePlace
    <2>2. cmd'.dst \in Stores BY <1>c DEF Stores
    <2>3. Abstract!Spares(cmd'.dst) BY <1>c, <2>1
    <2> QED BY <1>a, <1>c, <2>2, <2>3, Beginning
  <1> QED BY <1>1, <1>2, <1>3, <1>4 DEF Inv

LEMMA WriteStep ==
  ASSUME Inv, NEW in, NEW text \in Texts, cmd_write(in, text), UNCHANGED otaVars
  PROVE  Inv' /\ AbstractStep
  <1> DEFINE p == resolve(in)
  <1>a. Begins /\ phase' = phase /\ faults' = faults BY DEF cmd_write
  <1>b. faults' \in 0 .. MaxFaults BY <1>a DEF Inv, TypeOK
  <1>c. File(text) \in Contents /\ File(text).kind = "file"
    BY FilesAssumption DEF File, Contents
  <1>1. CASE p.ok /\ CanCreate(p.path)
    <2>1. Opens("write", p.path, <<>>, File(text)) BY <1>1 DEF cmd_write
    <2>2. Key(p.path) \in Places BY <1>1 DEF CanCreate
    <2> HIDE DEF p
    <2> QED BY <1>a, <1>c, <2>1, <2>2, OpensStep
  <1>2. CASE ~(p.ok /\ CanCreate(p.path))
    <2>1. Refuses BY <1>2 DEF cmd_write
    <2> QED BY <1>a, <1>b, <2>1, RefusesStep
  <1> QED BY <1>1, <1>2

\* Two names of one file are refused: the same by cp, others by FatFs.
LEMMA OtherFile ==
  ASSUME NEW src, NEW dst, src # dst, Key(src) \in Places, Key(dst) \in Places,
         ~Locked(src, dst)
  PROVE  Key(src) # Key(dst)
  <1> SUFFICES ASSUME Key(src) = Key(dst) PROVE FALSE OBVIOUS
  <1>a. Key(src) \in Seq(Names) \ {<<>>} /\ Fold[Card] = Card BY FilesAssumption
  <1>1. src[1] # Card BY DEF Locked
  <1>2. Key(src) = src BY <1>1 DEF Key
  <1>3. dst # <<>> /\ dst[1] = Card BY <1>2 DEF Key
  <1>4. src = [i \in DOMAIN dst |-> Fold[dst[i]]] BY <1>2, <1>3 DEF Key
  <1>5. 1 \in DOMAIN src BY <1>a, <1>2
  <1>6. src[1] = Fold[dst[1]] BY <1>4, <1>5
  <1> QED BY <1>a, <1>1, <1>3, <1>6

LEMMA CpStep ==
  ASSUME Inv, NEW from, NEW to, cmd_cp(from, to), UNCHANGED otaVars
  PROVE  Inv' /\ AbstractStep
  <1> DEFINE s == resolve(from)
             t == resolve(to)
             dst == Destination(s.path, t.path)
             Good == /\ s.ok /\ t.ok /\ PathLength(dst) < PathSize
                     /\ ~SameFile(s.path, dst)
                     /\ IsFile(s.path)
                     /\ CanCreate(dst) /\ ~Locked(s.path, dst)
  <1>a. Begins /\ phase' = phase /\ faults' = faults BY DEF cmd_cp
  <1>b. faults' \in 0 .. MaxFaults BY <1>a DEF Inv, TypeOK
  <1>1. CASE Good
    <2>1. Opens("cp", dst, Key(s.path), At(s.path)) BY <1>1 DEF cmd_cp
    <2>2. s.path # dst /\ IsFile(s.path) /\ Key(dst) \in Places /\ ~Locked(s.path, dst)
      BY <1>1 DEF SameFile, CanCreate
    <2> HIDE DEF s, dst
    <2>3. /\ Key(s.path) \in Places /\ At(s.path) = fs[Key(s.path)] /\ At(s.path) \in Contents
          /\ At(s.path).kind = "file"
      BY <2>2, Holding DEF Inv, IsFile
    <2>4. Key(s.path) # Key(dst) BY <2>2, <2>3, OtherFile
    <2> QED BY <1>a, <2>1, <2>2, <2>3, <2>4, OpensStep
  <1>2. CASE ~Good
    <2>1. Refuses BY <1>2 DEF cmd_cp
    <2> QED BY <1>a, <1>b, <2>1, RefusesStep
  <1> QED BY <1>1, <1>2

LEMMA OpenFailsStep ==
  ASSUME Inv, OpenFails, UNCHANGED otaVars
  PROVE  Inv' /\ AbstractStep
  <1>1. Begins /\ Refuses /\ phase' = phase BY DEF OpenFails
  <1>2. faults' \in 0 .. MaxFaults BY FilesAssumption DEF OpenFails, Fault, Inv, TypeOK
  <1> QED BY <1>1, <1>2, RefusesStep

\* What write and cp are at, in one place.
LEMMA AtFilling ==
  ASSUME Inv, Filling
  PROVE  /\ phase = "shell" /\ cmd.name # "none" /\ ~Updating
         /\ cmd.dst \in Places /\ fs \in [Places -> Contents] /\ slot \in [Slots -> Seq(Chunks)]
         /\ cmd \in [name : Commands, dst : Stores \cup {<<>>}, src : Places \cup {<<>>}, pos : Nat,
                     old : Contents, wanted : Contents]
         /\ cmd.wanted.data \in Seq(Chunks) /\ cmd.wanted = File(cmd.wanted.data)
         /\ cmd.pos \in 0 .. Len(cmd.wanted.data)
         /\ fs[cmd.dst] = File(Done)
         /\ cmd.name = "cp" => cmd.src \in Places /\ cmd.src # cmd.dst /\ fs[cmd.src] = cmd.wanted
         /\ Source = cmd.wanted.data
         /\ job.place = cmd.dst
  <1>1. cmd.name # "none" BY DEF Filling
  <1>a. /\ phase = "shell" /\ ~Updating
        /\ cmd.dst \in Places /\ fs \in [Places -> Contents] /\ slot \in [Slots -> Seq(Chunks)]
        /\ cmd \in [name : Commands, dst : Stores \cup {<<>>}, src : Places \cup {<<>>}, pos : Nat,
                    old : Contents, wanted : Contents]
    BY <1>1, BusyJob DEF Inv, TypeOK, Filling, Updating, CommandInv, FilledSoFar
  <1>2. /\ cmd.wanted.kind = "file" /\ cmd.pos \in 0 .. Len(cmd.wanted.data)
        /\ fs[cmd.dst] = File(Done)
        /\ cmd.name = "cp" => cmd.src \in Places /\ cmd.src # cmd.dst /\ fs[cmd.src] = cmd.wanted
    BY <1>1 DEF Inv, CommandInv, InData, FilledSoFar, SourceKept
  <1>3. cmd.wanted.data \in Seq(Chunks) /\ cmd.wanted = File(cmd.wanted.data)
    <2>1. cmd.wanted \in Contents BY <1>a
    <2> QED BY <1>2, <2>1 DEF Contents, File
  <1>4. Source = cmd.wanted.data BY <1>2 DEF Source
  <1>5. job.place = cmd.dst BY <1>1, BusyJob
  <1> QED BY <1>1, <1>a, <1>2, <1>3, <1>4, <1>5

\* One more chunk of a sequence.
LEMMA OneMore ==
  ASSUME NEW S, NEW q \in Seq(S), NEW n \in Nat, n < Len(q)
  PROVE  /\ q[n + 1] \in S
         /\ SubSeq(q, 1, n) \in Seq(S)
         /\ Append(SubSeq(q, 1, n), q[n + 1]) = SubSeq(q, 1, n + 1)
  OBVIOUS

LEMMA FillStep ==
  ASSUME Inv, Fill, UNCHANGED otaVars
  PROVE  Inv' /\ AbstractStep
  <1> DEFINE w == cmd.wanted.data
             n == cmd.pos
  <1>0. Filling BY DEF Fill, Filling
  <1>a. /\ phase' = phase /\ said' = said /\ commands' = commands /\ faults' = faults
        /\ slot' = slot /\ state' = state /\ running' = running /\ boot' = boot /\ proven' = proven
    BY DEF Fill, otaVars
  <1>b. /\ n \in Nat /\ n < Len(w) /\ w \in Seq(Chunks)
        /\ cmd' = [cmd EXCEPT !.pos = n + 1]
        /\ fs' = [fs EXCEPT ![cmd.dst].data = Append(@, w[n + 1])]
    <2>1. cmd.pos < Len(Source) /\ Source = w BY <1>0, AtFilling DEF Fill
    <2>2. fs' = [fs EXCEPT ![cmd.dst].data = Append(@, Source[cmd.pos + 1])] BY DEF Fill
    <2>3. cmd' = [cmd EXCEPT !.pos = n + 1] BY DEF Fill
    <2> QED BY <1>0, <2>1, <2>2, <2>3, AtFilling
  <1>c. /\ cmd'.name = cmd.name /\ cmd'.dst = cmd.dst /\ cmd'.src = cmd.src /\ cmd'.pos = n + 1
        /\ cmd'.old = cmd.old /\ cmd'.wanted = cmd.wanted
    BY <1>0, <1>b, AtFilling
  <1>d. Done' = SubSeq(w, 1, n + 1) /\ Done = SubSeq(w, 1, n) BY <1>c DEF Done
  <1>e. Append(Done, w[n + 1]) = Done' /\ Done' \in Seq(Chunks)
    <2> HIDE DEF w, n
    <2>1. /\ SubSeq(w, 1, n) \in Seq(Chunks) /\ w[n + 1] \in Chunks
          /\ Append(SubSeq(w, 1, n), w[n + 1]) = SubSeq(w, 1, n + 1)
      BY <1>b, OneMore
    <2> QED BY <1>d, <2>1
  <1>f. fs'[cmd.dst] = File(Done')
    <2>1. fs[cmd.dst] = File(Done) /\ cmd.dst \in Places /\ fs \in [Places -> Contents]
      BY <1>0, AtFilling
    <2>2. fs'[cmd.dst] = [fs[cmd.dst] EXCEPT !.data = Append(@, w[n + 1])] BY <1>b, <2>1
    <2>3. fs'[cmd.dst] = File(Append(Done, w[n + 1])) BY <2>1, <2>2 DEF File
    <2> QED BY <1>e, <2>3
  <1>g. \A q \in Places \ {cmd.dst} : fs'[q] = fs[q] BY <1>0, <1>b, AtFilling
  <1>1. TypeOK'
    <2>1. fs' \in [Places -> Contents]
      <3>1. File(Done') \in Contents BY <1>e DEF File, Contents
      <3>2. DOMAIN fs' = Places /\ fs' = [q \in Places |-> fs'[q]] BY <1>0, <1>b, AtFilling
      <3>3. \A q \in Places : fs'[q] \in Contents BY <1>0, <1>f, <1>g, <3>1, AtFilling
      <3> QED BY <3>2, <3>3
    <2>2. cmd' \in [name : Commands, dst : Stores \cup {<<>>}, src : Places \cup {<<>>}, pos : Nat,
                    old : Contents, wanted : Contents]
      <3>1. n + 1 \in Nat BY <1>b
      <3>2. cmd' = [cmd EXCEPT !.pos = n + 1] BY <1>b
      <3> HIDE DEF n, w
      <3> QED BY <1>0, <3>1, <3>2, AtFilling
    <2>3. phase = "shell" BY <1>0, AtFilling
    <2> QED BY <1>a, <2>1, <2>2, <2>3 DEF Inv, TypeOK
  <1>2. CommandInv'
    <2>1. NoCommand' /\ UpdateOfOther' /\ SlotSoFar'
      BY <1>0, <1>c DEF NoCommand, UpdateOfOther, SlotSoFar, Updating, Filling
    <2>2. InData' BY <1>0, <1>b, <1>c, AtFilling DEF InData, File
    <2>3. FilledSoFar' BY <1>0, <1>c, <1>f, AtFilling DEF FilledSoFar
    <2>4. SourceKept' BY <1>0, <1>c, <1>g, AtFilling DEF SourceKept, Filling
    <2> QED BY <2>1, <2>2, <2>3, <2>4 DEF CommandInv
  <1>3. SlotInv' BY <1>a, SameSlots DEF Inv
  <1>4. AbstractStep
    <2>1. Abstract!Spares(cmd.dst) BY <1>0, <1>a, <1>g, AtFilling, OnePlace
    <2>2. cmd.name # "none" BY <1>0, AtFilling
    <2> QED BY <1>a, <1>c, <2>1, <2>2, Changing
  <1> QED BY <1>1, <1>2, <1>3, <1>4 DEF Inv

LEMMA FillFailsStep ==
  ASSUME Inv, FillFails, UNCHANGED otaVars
  PROVE  Inv' /\ AbstractStep
  <1>0. Filling BY DEF FillFails, Filling
  <1>a. /\ phase' = phase /\ said' = "failed" /\ cmd' = Idle /\ commands' = commands
        /\ faults' \in 0 .. MaxFaults /\ slot' = slot
    BY FilesAssumption DEF FillFails, Fault, Returns, Says, otaVars, Inv, TypeOK
  <1>b. PICK part \in Prefixes(fs[cmd.dst].data) : fs' = [fs EXCEPT ![cmd.dst].data = part]
    BY DEF FillFails
  <1>c. part \in Seq(Chunks)
    <2>1. fs[cmd.dst].data \in Seq(Chunks) BY <1>0, AtFilling DEF Contents
    <2>2. PICK n \in 0 .. Len(fs[cmd.dst].data) : part = SubSeq(fs[cmd.dst].data, 1, n)
      BY <1>b DEF Prefixes
    <2> QED BY <2>1, <2>2
  <1>1. TypeOK'
    <2>1. fs' \in [Places -> Contents]
      BY <1>0, <1>b, <1>c, AtFilling DEF Contents
    <2> QED BY <1>a, <2>1, IdleCommand DEF Inv, TypeOK, otaVars
  <1>2. CommandInv' BY <1>a, NothingAsked
  <1>3. SlotInv' BY <1>a, SameSlots DEF Inv
  <1>4. AbstractStep
    <2>1. \A q \in Places \ {cmd.dst} : fs'[q] = fs[q] BY <1>0, <1>b, AtFilling
    <2>2. Abstract!Spares(cmd.dst) BY <1>0, <1>a, <2>1, AtFilling, OnePlace
    <2>3. cmd.name # "none" BY <1>0, AtFilling
    <2> QED BY <1>a, <2>2, <2>3, Finishing
  <1> QED BY <1>1, <1>2, <1>3, <1>4 DEF Inv

LEMMA CloseStep ==
  ASSUME Inv, Close, UNCHANGED otaVars
  PROVE  Inv' /\ AbstractStep
  <1>0. Filling BY DEF Close, Filling
  <1>a. /\ phase' = phase /\ said' = "done" /\ cmd' = Idle /\ commands' = commands
        /\ faults' = faults /\ slot' = slot /\ fs' = fs
    BY DEF Close, Returns, Says, otaVars
  <1>1. TypeOK' BY <1>a, IdleCommand DEF Inv, TypeOK, otaVars
  <1>2. CommandInv' BY <1>a, NothingAsked
  <1>3. SlotInv' BY <1>a, SameSlots DEF Inv
  <1>4. AbstractStep
    <2>1. cmd.pos >= Len(cmd.wanted.data) BY <1>0, AtFilling DEF Close
    <2>2. cmd.pos = Len(cmd.wanted.data) BY <1>0, <2>1, AtFilling
    <2>3. Done = cmd.wanted.data BY <1>0, <2>2, AtFilling DEF Done
    <2>4. fs[cmd.dst] = cmd.wanted BY <1>0, <2>3, AtFilling
    <2>5. store'[cmd.dst] = cmd.wanted BY <1>0, <1>a, <2>4, AtFilling, StoreNext
    <2>6. Abstract!Spares(cmd.dst) BY <1>0, <1>a, AtFilling, OnePlace
    <2>7. cmd.name # "none" BY <1>0, AtFilling
    <2> QED BY <1>a, <2>5, <2>6, <2>7, Finishing
  <1> QED BY <1>1, <1>2, <1>3, <1>4 DEF Inv

\* rm and mkdir change one place at once.
LEMMA OnePlaceStep ==
  ASSUME Inv, Begins, NEW k \in Places, NEW left \in {Nothing, Directory},
         fs' = [fs EXCEPT ![k] = left], said' = "done", cmd' = cmd, phase' = phase,
         faults' = faults, UNCHANGED otaVars,
         left = Directory => fs[k] = Nothing
  PROVE  Inv' /\ AbstractStep
  <1>a. /\ cmd = Idle /\ cmd' = Idle /\ slot' = slot /\ commands' \in 0 .. MaxCommands
    BY FilesAssumption DEF Begins, otaVars, Inv, TypeOK
  <1>b. fs \in [Places -> Contents] /\ Nothing \in Contents /\ Directory \in Contents
    BY DEF Inv, TypeOK, Nothing, Directory, Contents
  <1>1. TypeOK'
    <2>1. fs' \in [Places -> Contents] BY <1>b
    <2> QED BY <1>a, <2>1 DEF Inv, TypeOK, otaVars
  <1>2. CommandInv' BY <1>a, NothingAsked
  <1>3. SlotInv' BY SameSlots DEF Inv
  <1>4. AbstractStep
    <2>1. job = Abstract!NoJob /\ job' = job BY <1>a, IdleJob DEF job, Idle, Nothing
    <2>2. Abstract!Spares(k) BY <1>a, <1>b, OnePlace
    <2>3. store'[k] = left /\ store[k] = fs[k] BY <1>b, StoreNow, StoreNext
    <2>4. Abstract!Remove(k) \/ Abstract!MakeDirectory(k)
      BY <2>1, <2>2, <2>3 DEF Abstract!Remove, Abstract!MakeDirectory
    <2>5. k \in Stores BY DEF Stores
    <2> QED BY <2>4, <2>5 DEF AbstractStep, Abstract!Next
  <1> QED BY <1>1, <1>2, <1>3, <1>4 DEF Inv

LEMMA RmStep ==
  ASSUME Inv, NEW in, cmd_rm(in), UNCHANGED otaVars
  PROVE  Inv' /\ AbstractStep
  <1> DEFINE p == resolve(in)
  <1>a. Begins /\ phase' = phase /\ faults' = faults BY DEF cmd_rm
  <1>b. faults' \in 0 .. MaxFaults BY <1>a DEF Inv, TypeOK
  <1>1. CASE p.ok /\ Removable(p.path)
    <2>1. /\ fs' = [fs EXCEPT ![Key(p.path)] = Nothing]
          /\ said' = "done" /\ cmd' = cmd
      BY <1>1 DEF cmd_rm, Says
    <2> HIDE DEF p
    <2>2. Key(p.path) \in Places BY <1>1, Holding DEF Inv, Removable
    <2> QED BY <1>a, <2>1, <2>2, OnePlaceStep DEF Directory, Nothing
  <1>2. CASE ~(p.ok /\ Removable(p.path))
    <2>1. Refuses BY <1>2 DEF cmd_rm
    <2> QED BY <1>a, <1>b, <2>1, RefusesStep
  <1> QED BY <1>1, <1>2

LEMMA MkdirStep ==
  ASSUME Inv, NEW in, cmd_mkdir(in), UNCHANGED otaVars
  PROVE  Inv' /\ AbstractStep
  <1> DEFINE p == resolve(in)
             Good == p.ok /\ CanCreate(p.path) /\ At(p.path) = Nothing
  <1>a. Begins /\ phase' = phase /\ faults' = faults BY DEF cmd_mkdir
  <1>b. faults' \in 0 .. MaxFaults BY <1>a DEF Inv, TypeOK
  <1>1. CASE Good
    <2>1. /\ fs' = [fs EXCEPT ![Key(p.path)] = Directory]
          /\ said' = "done" /\ cmd' = cmd
      BY <1>1 DEF cmd_mkdir, Says
    <2> HIDE DEF p
    <2>2. Key(p.path) \in Places BY <1>1 DEF CanCreate
    <2>3. fs[Key(p.path)] = Nothing BY <1>1, <2>2 DEF At
    <2> QED BY <1>a, <2>1, <2>2, <2>3, OnePlaceStep
  <1>2. CASE ~Good
    <2>1. Refuses BY <1>2 DEF cmd_mkdir
    <2> QED BY <1>a, <1>b, <2>1, RefusesStep
  <1> QED BY <1>1, <1>2

LEMMA FileSteps ==
  ASSUME Inv, FileStep, UNCHANGED otaVars
  PROVE  Inv' /\ AbstractStep
  BY CdStep, WriteStep, CpStep, RmStep, MkdirStep, OpenFailsStep, FillStep, FillFailsStep,
     CloseStep DEF FileStep

-----------------------------------------------------------------------------
(* The firmware update. *)

LEMMA OtaOpenStep ==
  ASSUME Inv, NEW in, OtaOpen(in)
  PROVE  Inv' /\ AbstractStep
  <1> DEFINE p == resolve(in)
             Good == /\ p.ok /\ IsFile(p.path)
                     /\ At(p.path).data # <<>> /\ Len(At(p.path).data) <= Capacity
                     /\ ota_begin
  <1>a. Begins /\ phase' = phase /\ faults' = faults /\ UNCHANGED otaVars BY DEF OtaOpen
  <1>b. faults' \in 0 .. MaxFaults BY <1>a DEF Inv, TypeOK
  <1>1. CASE Good
    <2>1. /\ cmd' = [name |-> "ota_update", dst |-> UpdateTarget, src |-> Key(p.path),
                     pos |-> 0, old |-> Nothing, wanted |-> At(p.path)]
          /\ said' = "nothing" /\ fs' = fs
      BY <1>1 DEF OtaOpen, Says
    <2>2. IsFile(p.path) /\ At(p.path).data # <<>> /\ ota_begin BY <1>1
    <2> HIDE DEF p
    <2>3. /\ Key(p.path) \in Places /\ At(p.path) = fs[Key(p.path)] /\ At(p.path) \in Contents
          /\ At(p.path).kind = "file"
      BY <2>2, Holding DEF Inv, IsFile
    <2>4. /\ cmd = Idle /\ phase = "shell" /\ slot' = slot /\ commands' \in 0 .. MaxCommands
          /\ running \in Slots /\ running' = running /\ state' = state
      BY <1>a, FilesAssumption DEF Begins, Ready, otaVars, Inv, TypeOK
    <2>5. UpdateTarget = Other(running) /\ UpdateTarget \in Slots
      BY <2>4, OtherSlot DEF UpdateTarget
    <2>6. /\ cmd'.name = "ota_update" /\ cmd'.dst = Other(running) /\ cmd'.src = Key(p.path)
          /\ cmd'.pos = 0 /\ cmd'.wanted = At(p.path)
      BY <2>1, <2>5
    <2>7. At(p.path).data \in Seq(Chunks) BY <2>3 DEF Contents
    <2>8. TypeOK'
      <3>1. Nothing \in Contents BY DEF Nothing, Contents
      <3>2. cmd' \in [name : Commands, dst : Stores \cup {<<>>}, src : Places \cup {<<>>},
                      pos : Nat, old : Contents, wanted : Contents]
        BY <2>1, <2>3, <2>5, <3>1 DEF Commands, Stores
      <3> QED BY <1>a, <2>1, <2>4, <3>2 DEF Inv, TypeOK, otaVars
    <2>9. CommandInv'
      <3>1. NoCommand' /\ FilledSoFar' BY <2>6 DEF NoCommand, FilledSoFar, Filling
      <3>2. InData' BY <2>3, <2>6, <2>7 DEF InData
      <3>3. SourceKept' BY <2>1, <2>3, <2>6 DEF SourceKept
      <3>4. UpdateOfOther' BY <2>2, <2>4, <2>6 DEF UpdateOfOther, ota_begin
      <3>5. SlotSoFar' BY <2>2, <2>6 DEF SlotSoFar
      <3> QED BY <3>1, <3>2, <3>3, <3>4, <3>5 DEF CommandInv
    <2>10. SlotInv' BY <1>a, SameSlots DEF Inv
    <2>11. AbstractStep
      <3>1. Abstract!Spares(cmd'.dst) BY <2>1, <2>4, <2>5, <2>6, OneSlot
      <3>2. cmd'.dst \in Stores BY <2>5, <2>6 DEF Stores
      <3>3. \E q \in Places : cmd'.wanted = fs[q] BY <2>3, <2>6
      <3> QED BY <2>1, <2>4, <2>6, <3>1, <3>2, <3>3, Beginning
    <2> QED BY <2>8, <2>9, <2>10, <2>11 DEF Inv
  <1>2. CASE ~Good
    <2>1. Refuses BY <1>2 DEF OtaOpen
    <2> QED BY <1>a, <1>b, <2>1, RefusesStep
  <1> QED BY <1>1, <1>2

\* What ota_update is at, in one place.
LEMMA AtUpdating ==
  ASSUME Inv, Updating
  PROVE  /\ phase = "shell" /\ cmd.name # "none" /\ ~Filling
         /\ cmd.dst = Other(running) /\ cmd.dst \in Slots /\ running \in Slots
         /\ cmd.dst # running
         /\ state[running] # "pending" /\ slot[running] \in proven
         /\ slot \in [Slots -> Seq(Chunks)] /\ state \in [Slots -> States]
         /\ cmd \in [name : Commands, dst : Stores \cup {<<>>}, src : Places \cup {<<>>}, pos : Nat,
                     old : Contents, wanted : Contents]
         /\ cmd.wanted.data \in Seq(Chunks) /\ cmd.wanted = File(cmd.wanted.data)
         /\ cmd.pos \in 0 .. Len(cmd.wanted.data)
         /\ cmd.name = "ota_update" => cmd.src \in Places /\ fs[cmd.src] = cmd.wanted
         /\ cmd.name = "ota_update" /\ cmd.pos > 0 => slot[cmd.dst] = Done
         /\ cmd.name = "ota_update" => cmd.wanted.data # <<>>
         /\ cmd.name = "ota_switch" => slot[cmd.dst] = cmd.wanted.data
  <1>1. cmd.name # "none" BY DEF Updating
  <1>a. /\ phase = "shell" /\ running \in Slots
        /\ slot \in [Slots -> Seq(Chunks)] /\ state \in [Slots -> States]
        /\ cmd \in [name : Commands, dst : Stores \cup {<<>>}, src : Places \cup {<<>>}, pos : Nat,
                    old : Contents, wanted : Contents]
    BY <1>1, BusyJob DEF Inv, TypeOK
  <1>2. ~Filling BY DEF Filling, Updating
  <1>3. cmd.dst = Other(running) /\ state[running] # "pending"
    BY DEF Inv, CommandInv, UpdateOfOther
  <1>4. cmd.dst \in Slots /\ cmd.dst # running BY <1>a, <1>3, OtherSlot
  <1>5. slot[running] \in proven BY <1>a DEF Inv, SlotInv, RunningGood
  <1>6. cmd.wanted.kind = "file" /\ cmd.pos \in 0 .. Len(cmd.wanted.data)
    BY <1>1 DEF Inv, CommandInv, InData
  <1>7. cmd.wanted.data \in Seq(Chunks) /\ cmd.wanted = File(cmd.wanted.data)
    <2>1. cmd.wanted \in Contents BY <1>a
    <2> QED BY <1>6, <2>1 DEF Contents, File
  <1>8. /\ cmd.name = "ota_update" => cmd.src \in Places /\ fs[cmd.src] = cmd.wanted
        /\ cmd.name = "ota_update" /\ cmd.pos > 0 => slot[cmd.dst] = Done
        /\ cmd.name = "ota_update" => cmd.wanted.data # <<>>
        /\ cmd.name = "ota_switch" => slot[cmd.dst] = cmd.wanted.data
    BY DEF Inv, CommandInv, SourceKept, SlotSoFar
  <1> QED BY <1>1, <1>a, <1>2, <1>3, <1>4, <1>5, <1>6, <1>7, <1>8

\* The slot that is written is neither the one that runs nor one to fall back to.
LEMMA OtherSlotWritten ==
  ASSUME Inv, Updating, \A t \in Slots \ {cmd.dst} : slot'[t] = slot[t],
         phase' \in {phase, "off"}, state' = state, boot' = boot, running' = running,
         proven' = proven
  PROVE  SlotInv'
  <1>1. /\ phase = "shell" /\ running \in Slots /\ cmd.dst = Other(running) /\ cmd.dst # running
        /\ state[running] # "pending" /\ slot[running] \in proven
    BY AtUpdating
  <1>2. slot'[running] = slot[running] BY <1>1
  <1>3. KeepsAGood' BY <1>1, <1>2 DEF KeepsAGood
  <1>4. RunningGood' BY <1>1, <1>2 DEF RunningGood
  <1>5. NewIsNext'
    <2> SUFFICES ASSUME NEW s \in Slots, state[s] = "new"
                 PROVE  s = boot /\ s = Other(running) /\ slot'[Other(s)] \in proven
      BY DEF NewIsNext
    <2>1. s = boot /\ s = Other(running) BY DEF Inv, SlotInv, NewIsNext
    <2>2. Other(s) = running BY <1>1, <2>1, OtherSlot
    <2> QED BY <1>1, <1>2, <2>1, <2>2
  <1>6. TrialIsNext' BY DEF Inv, SlotInv, TrialIsNext
  <1> QED BY <1>3, <1>4, <1>5, <1>6 DEF SlotInv

LEMMA OtaWriteStep ==
  ASSUME Inv, OtaWrite
  PROVE  Inv' /\ AbstractStep
  <1> DEFINE w == cmd.wanted.data
             n == cmd.pos
             before == IF n = 0 THEN <<>> ELSE slot[cmd.dst]
  <1>0. Updating /\ cmd.name = "ota_update" BY DEF OtaWrite, Updating
  <1>a. /\ phase' = phase /\ said' = said /\ commands' = commands /\ faults' = faults
        /\ fs' = fs /\ state' = state /\ running' = running /\ boot' = boot /\ proven' = proven
    BY DEF OtaWrite
  <1>b. /\ n \in Nat /\ n < Len(w) /\ w \in Seq(Chunks)
        /\ cmd' = [cmd EXCEPT !.pos = n + 1]
        /\ slot' = [slot EXCEPT ![cmd.dst] = Append(before, w[n + 1])]
    <2>1. fs[cmd.src].data = w BY <1>0, AtUpdating
    <2>2. slot' = [slot EXCEPT ![cmd.dst] =
                     Append(IF cmd.pos = 0 THEN <<>> ELSE @, fs[cmd.src].data[cmd.pos + 1])]
      BY DEF OtaWrite
    <2>3. cmd' = [cmd EXCEPT !.pos = n + 1] /\ n < Len(fs[cmd.src].data) BY DEF OtaWrite
    <2> QED BY <1>0, <2>1, <2>2, <2>3, AtUpdating
  <1>c. /\ cmd'.name = cmd.name /\ cmd'.dst = cmd.dst /\ cmd'.src = cmd.src /\ cmd'.pos = n + 1
        /\ cmd'.old = cmd.old /\ cmd'.wanted = cmd.wanted
    BY <1>0, <1>b, AtUpdating
  <1>d. Done' = SubSeq(w, 1, n + 1) BY <1>c DEF Done
  <1>e. before = SubSeq(w, 1, n)
    <2>1. CASE n = 0 BY <1>b, <2>1
    <2>2. CASE n # 0 BY <1>0, <1>b, <2>2, AtUpdating DEF Done
    <2> QED BY <2>1, <2>2
  <1>f. Append(before, w[n + 1]) = Done' /\ Done' \in Seq(Chunks)
    <2> HIDE DEF w, n, before
    <2>1. /\ SubSeq(w, 1, n) \in Seq(Chunks) /\ w[n + 1] \in Chunks
          /\ Append(SubSeq(w, 1, n), w[n + 1]) = SubSeq(w, 1, n + 1)
      BY <1>b, OneMore
    <2> QED BY <1>d, <1>e, <2>1
  <1>g. slot' = [slot EXCEPT ![cmd.dst] = Done'] BY <1>b, <1>f
  <1>h. slot'[cmd.dst] = Done' /\ \A t \in Slots \ {cmd.dst} : slot'[t] = slot[t]
    BY <1>0, <1>g, AtUpdating
  <1>1. TypeOK'
    <2>1. slot' \in [Slots -> Seq(Chunks)] BY <1>0, <1>f, <1>g, AtUpdating
    <2>2. cmd' \in [name : Commands, dst : Stores \cup {<<>>}, src : Places \cup {<<>>}, pos : Nat,
                    old : Contents, wanted : Contents]
      <3>1. n + 1 \in Nat BY <1>b
      <3>2. cmd' = [cmd EXCEPT !.pos = n + 1] BY <1>b
      <3> HIDE DEF n, w
      <3> QED BY <1>0, <3>1, <3>2, AtUpdating
    <2>3. phase = "shell" BY <1>0, AtUpdating
    <2> QED BY <1>a, <2>1, <2>2, <2>3 DEF Inv, TypeOK
  <1>2. CommandInv'
    <2>1. NoCommand' /\ FilledSoFar' BY <1>0, <1>c DEF NoCommand, FilledSoFar, Filling
    <2>2. InData' BY <1>0, <1>b, <1>c, AtUpdating DEF InData, File
    <2>3. SourceKept' BY <1>0, <1>a, <1>c, AtUpdating DEF SourceKept
    <2>4. UpdateOfOther' BY <1>0, <1>a, <1>c, AtUpdating DEF UpdateOfOther
    <2>5. SlotSoFar' BY <1>0, <1>c, <1>h, AtUpdating DEF SlotSoFar
    <2> QED BY <2>1, <2>2, <2>3, <2>4, <2>5 DEF CommandInv
  <1>3. SlotInv' BY <1>0, <1>a, <1>h, OtherSlotWritten
  <1>4. AbstractStep
    <2>1. Abstract!Spares(cmd.dst) BY <1>0, <1>a, <1>h, AtUpdating, OneSlot
    <2>2. cmd.name # "none" BY <1>0
    <2> QED BY <1>0, <1>a, <1>c, <2>1, <2>2, Changing
  <1> QED BY <1>1, <1>2, <1>3, <1>4 DEF Inv

LEMMA OtaWriteFailsStep ==
  ASSUME Inv, OtaWriteFails
  PROVE  Inv' /\ AbstractStep
  <1>0. Updating BY DEF OtaWriteFails, Updating
  <1>a. /\ phase' = phase /\ said' = "failed" /\ cmd' = Idle /\ commands' = commands
        /\ faults' \in 0 .. MaxFaults
        /\ fs' = fs /\ state' = state /\ running' = running /\ boot' = boot /\ proven' = proven
    BY FilesAssumption DEF OtaWriteFails, Fault, Returns, Says, Inv, TypeOK
  <1>b. PICK left \in {slot[cmd.dst]} \cup (IF cmd.pos = 0 THEN {<<>>} ELSE {}) :
          slot' = [slot EXCEPT ![cmd.dst] = left]
    BY DEF OtaWriteFails
  <1>c. left \in Seq(Chunks)
    <2>1. left = slot[cmd.dst] \/ left = <<>> BY <1>b
    <2>2. slot[cmd.dst] \in Seq(Chunks) BY <1>0, AtUpdating
    <2>3. <<>> \in Seq(Chunks) BY EmptySeq
    <2> QED BY <2>1, <2>2, <2>3
  <1>1. TypeOK'
    <2>1. slot' \in [Slots -> Seq(Chunks)] BY <1>0, <1>b, <1>c, AtUpdating
    <2> QED BY <1>a, <2>1, IdleCommand DEF Inv, TypeOK
  <1>d. \A t \in Slots \ {cmd.dst} : slot'[t] = slot[t] BY <1>0, <1>b, AtUpdating
  <1>2. CommandInv' BY <1>a, NothingAsked
  <1>3. SlotInv' BY <1>0, <1>a, <1>d, OtherSlotWritten
  <1>4. AbstractStep
    <2>1. Abstract!Spares(cmd.dst) BY <1>0, <1>a, <1>d, AtUpdating, OneSlot
    <2>2. cmd.name # "none" BY <1>0, AtUpdating
    <2> QED BY <1>a, <2>1, <2>2, Finishing
  <1> QED BY <1>1, <1>2, <1>3, <1>4 DEF Inv

LEMMA OtaEndStep ==
  ASSUME Inv, OtaEnd
  PROVE  Inv' /\ AbstractStep
  <1>0. Updating /\ cmd.name = "ota_update" BY DEF OtaEnd, Updating
  <1>a. /\ phase' = phase /\ commands' = commands /\ faults' = faults /\ fs' = fs
        /\ UNCHANGED otaVars /\ slot' = slot /\ running' = running /\ state' = state
    BY DEF OtaEnd, otaVars
  <1>b. slot[cmd.dst] = cmd.wanted.data
    <2>1. fs[cmd.src].data = cmd.wanted.data BY <1>0, AtUpdating
    <2>2. cmd.pos = Len(cmd.wanted.data) /\ cmd.wanted.data \in Seq(Chunks)
      BY <1>0, <2>1, AtUpdating DEF OtaEnd
    <2>3. cmd.pos > 0 BY <1>0, <2>2, AtUpdating, EmptySeq
    <2>4. Done = cmd.wanted.data BY <2>2 DEF Done
    <2> QED BY <1>0, <2>3, <2>4, AtUpdating
  <1>c. \A t \in Slots \ {cmd.dst} : slot'[t] = slot[t] BY <1>a
  <1>d. Abstract!Spares(cmd.dst) BY <1>0, <1>a, <1>c, AtUpdating, OneSlot
  <1>e. cmd.name # "none" BY <1>0
  <1>f. SlotInv' BY <1>a, SameSlots DEF Inv
  <1>1. CASE slot[cmd.dst] \in Images
    <2>1. cmd' = [cmd EXCEPT !.name = "ota_switch"] /\ said' = said BY <1>1 DEF OtaEnd
    <2>2. /\ cmd'.name = "ota_switch" /\ cmd'.dst = cmd.dst /\ cmd'.pos = cmd.pos
          /\ cmd'.wanted = cmd.wanted
      BY <1>0, <2>1, AtUpdating
    <2>3. TypeOK'
      <3>1. cmd' \in [name : Commands, dst : Stores \cup {<<>>}, src : Places \cup {<<>>},
                      pos : Nat, old : Contents, wanted : Contents]
        BY <1>0, <2>1, AtUpdating DEF Commands
      <3>2. phase = "shell" BY <1>0, AtUpdating
      <3> QED BY <1>a, <2>1, <3>1, <3>2 DEF Inv, TypeOK, otaVars
    <2>4. CommandInv'
      <3>1. NoCommand' /\ FilledSoFar' /\ SourceKept'
        BY <2>2 DEF NoCommand, FilledSoFar, SourceKept, Filling
      <3>2. InData' BY <1>0, <2>2, AtUpdating DEF InData, File
      <3>3. UpdateOfOther' BY <1>0, <1>a, <2>2, AtUpdating DEF UpdateOfOther
      <3>4. SlotSoFar' BY <1>a, <1>b, <2>2 DEF SlotSoFar
      <3> QED BY <3>1, <3>2, <3>3, <3>4 DEF CommandInv
    <2>5. AbstractStep BY <1>d, <1>e, <2>1, <2>2, Changing
    <2> QED BY <1>f, <2>3, <2>4, <2>5 DEF Inv
  <1>2. CASE slot[cmd.dst] \notin Images
    <2>1. cmd' = Idle /\ said' = "failed" BY <1>2 DEF OtaEnd, Returns, Says
    <2>2. TypeOK' BY <1>a, <2>1, IdleCommand DEF Inv, TypeOK, otaVars
    <2>3. CommandInv' BY <2>1, NothingAsked
    <2>4. AbstractStep BY <1>d, <1>e, <2>1, Finishing
    <2> QED BY <1>f, <2>2, <2>3, <2>4 DEF Inv
  <1> QED BY <1>1, <1>2

LEMMA OtaSwitchStep ==
  ASSUME Inv, OtaSwitch
  PROVE  Inv' /\ AbstractStep
  <1>0. Updating /\ cmd.name = "ota_switch" BY DEF OtaSwitch, Updating
  <1>a. /\ phase' = phase /\ said' = "done" /\ cmd' = Idle /\ commands' = commands
        /\ faults' = faults /\ fs' = fs /\ slot' = slot /\ running' = running
        /\ proven' = proven /\ boot' = cmd.dst
        /\ state' = [state EXCEPT ![cmd.dst] = "new"]
    BY DEF OtaSwitch, Returns, Says
  <1>b. /\ running \in Slots /\ cmd.dst \in Slots /\ cmd.dst = Other(running)
        /\ cmd.dst # running /\ state[running] # "pending" /\ slot[running] \in proven
        /\ phase = "shell" /\ state \in [Slots -> States]
    BY <1>0, AtUpdating
  <1>c. \A s \in Slots : s = running \/ s = cmd.dst BY <1>b, OtherSlot
  <1>d. state'[cmd.dst] = "new" /\ state'[running] = state[running] BY <1>a, <1>b
  <1>1. TypeOK'
    <2>1. state' \in [Slots -> States] BY <1>a, <1>b DEF States
    <2> QED BY <1>a, <1>b, <2>1, IdleCommand DEF Inv, TypeOK
  <1>2. CommandInv' BY <1>a, NothingAsked
  <1>3. SlotInv'
    <2>1. KeepsAGood' BY <1>a, <1>b, <1>d DEF KeepsAGood
    <2>2. RunningGood' BY <1>a, <1>b DEF RunningGood
    <2>3. NewIsNext'
      <3> SUFFICES ASSUME NEW s \in Slots, state'[s] = "new"
                   PROVE  s = boot' /\ s = Other(running') /\ slot'[Other(s)] \in proven'
        BY DEF NewIsNext
      <3>1. s # running
        <4> SUFFICES ASSUME s = running PROVE FALSE OBVIOUS
        <4>1. state[running] = "new" BY <1>d
        <4>2. running = Other(running) BY <1>b, <4>1 DEF Inv, SlotInv, NewIsNext
        <4> QED BY <1>b, <4>2
      <3>2. s = cmd.dst BY <1>c, <3>1
      <3>3. Other(s) = running BY <1>b, <3>2, OtherSlot
      <3> QED BY <1>a, <1>b, <3>2, <3>3
    <2>4. TrialIsNext' BY <1>a, <1>b, <1>c, <1>d DEF TrialIsNext
    <2> QED BY <2>1, <2>2, <2>3, <2>4 DEF SlotInv
  <1>4. AbstractStep
    <2>1. slot[cmd.dst] = cmd.wanted.data /\ cmd.wanted = File(cmd.wanted.data)
      BY <1>0, AtUpdating
    <2>2. store'[cmd.dst] = cmd.wanted BY <1>a, <1>b, <2>1, StoreNext
    <2>3. Abstract!Spares(cmd.dst) BY <1>a, <1>b, OneSlot
    <2> QED BY <1>0, <1>a, <2>2, <2>3, Finishing
  <1> QED BY <1>1, <1>2, <1>3, <1>4 DEF Inv

LEMMA OtaSwitchFailsStep ==
  ASSUME Inv, OtaSwitchFails
  PROVE  Inv' /\ AbstractStep
  <1>0. Updating BY DEF OtaSwitchFails, Updating
  <1>a. /\ phase' = phase /\ said' = "failed" /\ cmd' = Idle /\ commands' = commands
        /\ faults' \in 0 .. MaxFaults /\ fs' = fs /\ UNCHANGED otaVars /\ slot' = slot
    BY FilesAssumption DEF OtaSwitchFails, Fault, Returns, Says, Inv, TypeOK, otaVars
  <1>1. TypeOK' BY <1>a, IdleCommand DEF Inv, TypeOK, otaVars
  <1>2. CommandInv' BY <1>a, NothingAsked
  <1>3. SlotInv' BY <1>a, SameSlots DEF Inv
  <1>4. AbstractStep
    <2>1. Abstract!Spares(cmd.dst) BY <1>0, <1>a, AtUpdating, OneSlot
    <2>2. cmd.name # "none" BY <1>0, AtUpdating
    <2> QED BY <1>a, <2>1, <2>2, Finishing
  <1> QED BY <1>1, <1>2, <1>3, <1>4 DEF Inv

\* What is known of the slots when none is being written.
LEMMA SlotTypes ==
  ASSUME Inv
  PROVE  /\ boot \in Slots /\ running \in Slots /\ state \in [Slots -> States]
         /\ slot \in [Slots -> Seq(Chunks)] /\ proven \subseteq Images
         /\ fs \in [Places -> Contents]
         /\ phase # "shell" => cmd = Idle
         /\ \A s \in Slots : state[s] = "new" =>
              s = boot /\ s = Other(running) /\ slot[Other(s)] \in proven
         /\ \A s \in Slots : state[s] = "pending" => s = boot
         /\ \E s \in Slots : slot[s] \in proven
         /\ phase # "off" /\ state[running] = "pending" => slot[Other(running)] \in proven
  BY DEF Inv, TypeOK, SlotInv, NewIsNext, TrialIsNext, KeepsAGood

\* Only the state of the slot that boots next changes, to one off trial.
LEMMA SettledSlot ==
  ASSUME Inv, slot' = slot, running' = running, proven \subseteq proven',
         state' = state \/ \E v \in {"valid", "invalid", "undefined"} :
                             state' = [state EXCEPT ![boot] = v],
         boot' = boot \/ state'[boot] \in {"valid", "invalid"},
         \/ phase' \in {phase, "off"}
         \/ phase' = "shell" /\ phase # "off" /\ slot[running] \in proven',
         proven' \subseteq Images
  PROVE  SlotInv' /\ state' \in [Slots -> States]
  <1>1. state' \in [Slots -> States] BY SlotTypes DEF States
  <1>2. \A s \in Slots : state'[s] \in {"new", "pending"} => state'[s] = state[s]
    BY SlotTypes
  <1>3. \A s \in Slots : state'[s] \in {"new", "pending"} => s = boot /\ boot' = boot
    BY <1>2, SlotTypes
  <1>4. KeepsAGood'
    <2>1. \E s \in Slots : slot'[s] \in proven' BY SlotTypes
    <2>2. ASSUME phase' # "off", state'[running'] = "pending"
          PROVE  slot'[Other(running')] \in proven'
      BY <1>2, <2>2, SlotTypes
    <2> QED BY <2>1, <2>2 DEF KeepsAGood
  <1>5. RunningGood' BY DEF RunningGood, Inv, SlotInv
  <1>6. NewIsNext' BY <1>2, <1>3, SlotTypes DEF NewIsNext
  <1>7. TrialIsNext' BY <1>3 DEF TrialIsNext
  <1> QED BY <1>1, <1>4, <1>5, <1>6, <1>7 DEF SlotInv

\* MarkValid settles the slot that boots next.
LEMMA MarksValid ==
  ASSUME Inv, MarkValid
  PROVE  state' = state \/ \E v \in {"valid", "invalid", "undefined"} :
                             state' = [state EXCEPT ![boot] = v]
  BY DEF MarkValid

\* A command that is only about the slots' states.
LEMMA StateCommand ==
  ASSUME Inv, Begins, said' = "nothing", fs' = fs, cmd' = cmd, slot' = slot,
         faults' = faults, running' = running, proven' = proven, boot' \in Slots,
         phase' \in {phase, "off"}, SlotInv', state' \in [Slots -> States]
  PROVE  Inv' /\ AbstractStep
  <1>a. cmd = Idle /\ cmd' = Idle /\ commands' \in 0 .. MaxCommands
    BY FilesAssumption DEF Begins, Inv, TypeOK
  <1>1. TypeOK' BY <1>a, IdleCommand DEF Inv, TypeOK
  <1>2. CommandInv' BY <1>a, NothingAsked
  <1>3. AbstractStep BY <1>a, Refusing
  <1> QED BY <1>1, <1>2, <1>3 DEF Inv

LEMMA ConfirmStep ==
  ASSUME Inv, cmd_ota_confirm
  PROVE  Inv' /\ AbstractStep
  <1>a. /\ Begins /\ said' = "nothing" /\ phase' = phase /\ fs' = fs /\ cmd' = cmd
        /\ faults' = faults /\ slot' = slot /\ boot' = boot /\ running' = running
        /\ proven' = proven /\ boot' \in Slots
    BY SlotTypes DEF cmd_ota_confirm, Says
  <1>1. state' = state \/ \E v \in {"valid", "invalid", "undefined"} :
                            state' = [state EXCEPT ![boot] = v]
    BY MarksValid DEF cmd_ota_confirm
  <1>b. proven \subseteq proven' /\ proven' \subseteq Images /\ phase' \in {phase, "off"}
    BY <1>a, SlotTypes
  <1>2. SlotInv' /\ state' \in [Slots -> States] BY <1>a, <1>b, <1>1, SettledSlot
  <1> QED BY <1>a, <1>2, StateCommand

LEMMA RollbackStep ==
  ASSUME Inv, cmd_ota_rollback
  PROVE  Inv' /\ AbstractStep
  <1>a. /\ Begins /\ said' = "nothing" /\ fs' = fs /\ cmd' = cmd
        /\ faults' = faults /\ slot' = slot /\ running' = running /\ proven' = proven
        /\ boot \in Slots /\ state \in [Slots -> States] /\ Other(boot) \in Slots
        /\ proven' \subseteq Images
    BY SlotTypes, OtherSlot DEF cmd_ota_rollback, Says
  <1>1. CASE RollbackPossible
    <2>1. /\ state' = [state EXCEPT ![boot] = "invalid"] /\ boot' = Other(boot)
          /\ phase' = "off"
      BY <1>1 DEF cmd_ota_rollback
    <2>2. /\ \E v \in {"valid", "invalid", "undefined"} : state' = [state EXCEPT ![boot] = v]
          /\ state'[boot] \in {"valid", "invalid"} /\ phase' \in {phase, "off"}
          /\ proven \subseteq proven' /\ boot' \in Slots
      BY <1>a, <2>1
    <2>3. SlotInv' /\ state' \in [Slots -> States] BY <1>a, <2>2, SettledSlot
    <2> QED BY <1>a, <2>2, <2>3, StateCommand
  <1>2. CASE ~RollbackPossible
    <2>1. state' = state /\ boot' = boot /\ phase' = phase BY <1>2 DEF cmd_ota_rollback
    <2>2. proven \subseteq proven' /\ phase' \in {phase, "off"} /\ boot' \in Slots
      BY <1>a, <2>1
    <2>3. SlotInv' /\ state' \in [Slots -> States] BY <1>a, <2>1, <2>2, SettledSlot
    <2> QED BY <1>a, <2>1, <2>2, <2>3, StateCommand
  <1> QED BY <1>1, <1>2

LEMMA RebootStep ==
  ASSUME Inv, cmd_reboot
  PROVE  Inv' /\ AbstractStep
  <1>a. /\ Begins /\ said' = "nothing" /\ fs' = fs /\ cmd' = cmd /\ phase' = "off"
        /\ faults' = faults /\ UNCHANGED otaVars /\ slot' = slot /\ running' = running
        /\ proven' = proven /\ boot' \in Slots /\ state' \in [Slots -> States]
    BY SlotTypes DEF cmd_reboot, Says, otaVars
  <1>1. SlotInv' BY <1>a, SwitchedOff DEF Inv
  <1> QED BY <1>a, <1>1, StateCommand

-----------------------------------------------------------------------------
(* The boot loader and app_main. *)

\* A step outside the commands.
LEMMA OutsideCommands ==
  ASSUME Inv, cmd = Idle, cmd' = cmd, fs' = fs, slot' = slot, said' = said,
         commands' = commands, faults' \in 0 .. MaxFaults,
         phase' \in {"off", "starting", "shell"}, boot' \in Slots, running' \in Slots,
         proven' \subseteq Images, state' \in [Slots -> States], SlotInv'
  PROVE  Inv' /\ AbstractStep
  <1>1. TypeOK' BY DEF Inv, TypeOK
  <1>2. CommandInv' BY NothingAsked
  <1>3. job' = job BY DEF job, Idle, Nothing
  <1>4. AbstractStep BY <1>3, SameStore DEF AbstractStep
  <1> QED BY <1>1, <1>2, <1>4 DEF Inv

LEMMA BootStep ==
  ASSUME Inv, Boot
  PROVE  Inv' /\ AbstractStep
  <1> DEFINE choice == IF state[boot] = "pending" THEN Other(boot) ELSE boot
             left == IF state[boot] = "pending" THEN [state EXCEPT ![boot] = "aborted"]
                     ELSE state
             start == IF slot[choice] \in Images THEN choice ELSE Other(choice)
  <1>a. /\ phase = "off" /\ phase' = "starting" /\ fs' = fs /\ cmd' = cmd /\ said' = said
        /\ commands' = commands /\ faults' = faults /\ slot' = slot /\ proven' = proven
    BY DEF Boot
  <1>b. /\ slot[start] \in Images /\ boot' = choice /\ running' = start
        /\ state' = IF left[choice] = "new" THEN [left EXCEPT ![choice] = "pending"] ELSE left
    BY DEF Boot
  <1>c. choice \in Slots /\ start \in Slots BY SlotTypes, OtherSlot
  <1>d. left \in [Slots -> States] /\ \A s \in Slots : left[s] = state[s] \/ left[s] = "aborted"
    BY SlotTypes DEF States
  <1>e. \A s \in Slots : left[s] # "pending"
    <2> SUFFICES ASSUME NEW s \in Slots, left[s] = "pending" PROVE FALSE OBVIOUS
    <2>1. state[s] = "pending" BY <1>d
    <2>2. s = boot BY <2>1, SlotTypes
    <2> QED BY <2>1, <2>2, SlotTypes
  <1>f. \A s \in Slots : left[s] = "new" => s = choice /\ slot[Other(s)] \in proven
    <2> SUFFICES ASSUME NEW s \in Slots, left[s] = "new"
                 PROVE  s = choice /\ slot[Other(s)] \in proven
      OBVIOUS
    <2>1. state[s] = "new" BY <1>d
    <2>2. s = boot /\ slot[Other(s)] \in proven BY <2>1, SlotTypes
    <2> QED BY <2>1, <2>2
  <1> HIDE DEF choice, left, start
  <1>g. state' \in [Slots -> States] BY <1>b, <1>c, <1>d DEF States
  <1>h. \A s \in Slots : /\ state'[s] # "new"
                         /\ state'[s] = "pending" => s = choice /\ slot[Other(s)] \in proven
    BY <1>b, <1>c, <1>d, <1>e, <1>f
  <1>1. SlotInv'
    <2>1. KeepsAGood'
      <3>1. \E s \in Slots : slot'[s] \in proven' BY <1>a, SlotTypes
      <3>2. state'[start] = "pending" => slot[Other(start)] \in proven BY <1>c, <1>h
      <3> QED BY <1>a, <1>b, <3>1, <3>2 DEF KeepsAGood
    <2>2. RunningGood' BY <1>a, <1>b DEF RunningGood
    <2>3. NewIsNext' BY <1>h DEF NewIsNext
    <2>4. TrialIsNext' BY <1>b, <1>h DEF TrialIsNext
    <2> QED BY <2>1, <2>2, <2>3, <2>4 DEF SlotInv
  <1>2. cmd = Idle /\ faults' \in 0 .. MaxFaults /\ proven' \subseteq Images
    BY <1>a, SlotTypes DEF Inv, TypeOK
  <1> QED BY <1>1, <1>2, <1>a, <1>b, <1>c, <1>g, OutsideCommands

LEMMA CrashStep ==
  ASSUME Inv, Crash
  PROVE  Inv' /\ AbstractStep
  <1>a. /\ phase = "starting" /\ phase' = "off" /\ fs' = fs /\ cmd' = cmd /\ said' = said
        /\ commands' = commands /\ faults' = faults /\ slot' = slot /\ proven' = proven
        /\ boot' = boot /\ running' = running /\ state' = state
    BY DEF Crash, AtCrash
  <1>1. SlotInv' BY <1>a, SwitchedOff DEF Inv, otaVars
  <1>2. /\ cmd = Idle /\ faults' \in 0 .. MaxFaults /\ proven' \subseteq Images
        /\ boot' \in Slots /\ running' \in Slots /\ state' \in [Slots -> States]
    BY <1>a, SlotTypes DEF Inv, TypeOK
  <1> QED BY <1>1, <1>2, <1>a, OutsideCommands

\* The shell starts, its image settled or still on trial.
LEMMA ShellStartsStep ==
  ASSUME Inv, ShellStarts, faults' \in 0 .. MaxFaults,
         state' = state \/ \E v \in {"valid", "invalid", "undefined"} :
                             state' = [state EXCEPT ![boot] = v]
  PROVE  Inv' /\ AbstractStep
  <1>a. /\ phase = "starting" /\ phase' = "shell" /\ fs' = fs /\ cmd' = cmd /\ said' = said
        /\ commands' = commands /\ slot' = slot /\ proven' = proven \cup {slot[running]}
        /\ boot' = boot /\ running' = running
    BY DEF ShellStarts
  <1>b. slot[running] \in Images BY <1>a DEF Inv, SlotInv, RunningGood
  <1>c. proven' \subseteq Images /\ proven \subseteq proven' BY <1>a, <1>b, SlotTypes
  <1>1. SlotInv' /\ state' \in [Slots -> States] BY <1>a, <1>c, SettledSlot
  <1>2. cmd = Idle /\ boot' \in Slots /\ running' \in Slots BY <1>a, SlotTypes
  <1> QED BY <1>1, <1>2, <1>a, <1>c, OutsideCommands

LEMMA AppMainStep ==
  ASSUME Inv, app_main
  PROVE  Inv' /\ AbstractStep
  <1>1. ShellStarts /\ faults' \in 0 .. MaxFaults BY DEF app_main, Inv, TypeOK
  <1>2. state' = state \/ \E v \in {"valid", "invalid", "undefined"} :
                            state' = [state EXCEPT ![boot] = v]
    BY MarksValid DEF app_main
  <1> QED BY <1>1, <1>2, ShellStartsStep

LEMMA UnconfirmedStep ==
  ASSUME Inv, app_main_unconfirmed
  PROVE  Inv' /\ AbstractStep
  <1>1. ShellStarts /\ state' = state BY DEF app_main_unconfirmed
  <1>2. faults' \in 0 .. MaxFaults
    BY FilesAssumption DEF app_main_unconfirmed, Fault, Inv, TypeOK
  <1> QED BY <1>1, <1>2, ShellStartsStep

\* A power loss while nothing is under way.
LEMMA IdlePowerLoss ==
  ASSUME Inv, PowerLoss, cmd.name = "none"
  PROVE  Inv' /\ AbstractStep
  <1>a. cmd = Idle BY DEF Inv, CommandInv, NoCommand
  <1>b. cmd.dst = <<>> /\ cmd.dst \notin Places BY <1>a, ApartStores DEF Idle, Stores
  <1>c. /\ phase' = "off" /\ cmd' = Idle /\ said' = "nothing" /\ fs' = fs /\ slot' = slot
        /\ faults' \in 0 .. MaxFaults /\ commands' = commands /\ UNCHANGED otaVars
    BY <1>b, FilesAssumption DEF PowerLoss, Fault, Torn, Says, Inv, TypeOK, otaVars
  <1>1. TypeOK' BY <1>c, IdleCommand DEF Inv, TypeOK, otaVars
  <1>2. CommandInv' BY <1>c, NothingAsked
  <1>3. SlotInv' BY <1>c, SwitchedOff DEF Inv
  <1>4. AbstractStep BY <1>a, <1>c, Refusing
  <1> QED BY <1>1, <1>2, <1>3, <1>4 DEF Inv

\* Part of a file is a file.
LEMMA PartOfFile ==
  ASSUME NEW data \in Seq(Chunks), NEW part \in Prefixes(data)
  PROVE  File(part) \in Contents
  <1>1. PICK n \in 0 .. Len(data) : part = SubSeq(data, 1, n) BY DEF Prefixes
  <1>2. part \in Seq(Chunks) BY <1>1
  <1> QED BY <1>2 DEF File, Contents

LEMMA FillingPowerLoss ==
  ASSUME Inv, PowerLoss, Filling
  PROVE  Inv' /\ AbstractStep
  <1>a. /\ phase' = "off" /\ cmd' = Idle /\ said' = "nothing" /\ slot' = slot
        /\ faults' \in 0 .. MaxFaults /\ commands' = commands /\ UNCHANGED otaVars
    BY FilesAssumption DEF PowerLoss, Fault, Says, Inv, TypeOK, otaVars, Filling
  <1>b. /\ cmd.dst \in Places /\ fs \in [Places -> Contents] /\ cmd.old \in Contents
        /\ fs[cmd.dst].data \in Seq(Chunks) /\ cmd.name # "none"
    BY AtFilling DEF Contents
  <1>c. PICK left \in {cmd.old} \cup {File(part) : part \in Prefixes(fs[cmd.dst].data)} :
          fs' = [fs EXCEPT ![cmd.dst] = left]
    BY <1>b DEF PowerLoss, Torn
  <1>d. left \in Contents BY <1>b, <1>c, PartOfFile
  <1>1. TypeOK'
    <2>1. fs' \in [Places -> Contents] BY <1>b, <1>c, <1>d
    <2> QED BY <1>a, <2>1, IdleCommand DEF Inv, TypeOK, otaVars
  <1>2. CommandInv' BY <1>a, NothingAsked
  <1>3. SlotInv' BY <1>a, SwitchedOff DEF Inv
  <1>4. AbstractStep
    <2>1. \A q \in Places \ {cmd.dst} : fs'[q] = fs[q] BY <1>b, <1>c
    <2>2. Abstract!Spares(cmd.dst) BY <1>a, <1>b, <2>1, OnePlace
    <2> QED BY <1>a, <1>b, <2>2, Finishing
  <1> QED BY <1>1, <1>2, <1>3, <1>4 DEF Inv

LEMMA UpdatingPowerLoss ==
  ASSUME Inv, PowerLoss, Updating
  PROVE  Inv' /\ AbstractStep
  <1>a. /\ phase' = "off" /\ cmd' = Idle /\ said' = "nothing"
        /\ faults' \in 0 .. MaxFaults /\ commands' = commands
        /\ state' = state /\ boot' = boot /\ running' = running /\ proven' = proven
    BY FilesAssumption DEF PowerLoss, Fault, Says, Inv, TypeOK
  <1>b. /\ cmd.dst \in Slots /\ slot \in [Slots -> Seq(Chunks)] /\ cmd.name # "none"
        /\ cmd.dst \notin Places
    BY AtUpdating, ApartStores
  <1>c. fs' = fs BY <1>b DEF PowerLoss, Torn
  <1>d. slot' = slot \/ slot' = [slot EXCEPT ![cmd.dst] = <<>>] BY DEF PowerLoss
  <1>e. \A t \in Slots \ {cmd.dst} : slot'[t] = slot[t] BY <1>b, <1>d
  <1>1. TypeOK'
    <2>1. <<>> \in Seq(Chunks) BY EmptySeq
    <2>2. slot' \in [Slots -> Seq(Chunks)] BY <1>b, <1>d, <2>1
    <2> QED BY <1>a, <1>c, <2>2, IdleCommand DEF Inv, TypeOK
  <1>2. CommandInv' BY <1>a, NothingAsked
  <1>3. SlotInv' BY <1>a, <1>e, OtherSlotWritten
  <1>4. AbstractStep
    <2>1. Abstract!Spares(cmd.dst) BY <1>b, <1>c, <1>e, OneSlot
    <2> QED BY <1>a, <1>b, <2>1, Finishing
  <1> QED BY <1>1, <1>2, <1>3, <1>4 DEF Inv

LEMMA PowerLossStep ==
  ASSUME Inv, PowerLoss
  PROVE  Inv' /\ AbstractStep
  <1>1. cmd.name \in Commands BY DEF Inv, TypeOK
  <1>2. cmd.name = "none" \/ Filling \/ Updating BY <1>1 DEF Commands, Filling, Updating
  <1> QED BY <1>2, IdlePowerLoss, FillingPowerLoss, UpdatingPowerLoss

LEMMA OtaSteps ==
  ASSUME Inv, OtaStep
  PROVE  Inv' /\ AbstractStep
  BY OtaOpenStep, OtaWriteStep, OtaWriteFailsStep, OtaEndStep, OtaSwitchStep,
     OtaSwitchFailsStep, ConfirmStep, RollbackStep, RebootStep, BootStep, CrashStep,
     AppMainStep, UnconfirmedStep, PowerLossStep DEF OtaStep

-----------------------------------------------------------------------------
(* The theorems. *)

LEMMA InitInv == Init => Inv /\ Abstract!Init
  <1> SUFFICES ASSUME Init PROVE Inv /\ Abstract!Init OBVIOUS
  <1>a. /\ phase = "shell" /\ cmd = Idle /\ said = "nothing" /\ commands = 0 /\ faults = 0
        /\ fs \in [Places -> Contents]
    BY ShellAssumption DEF Init, InitFiles
  <1>b. PICK own \in Images \ Crashing :
          /\ slot = [s \in Slots |-> IF s = <<"ota_0">> THEN own ELSE <<>>]
          /\ proven = {own}
    BY DEF Init, InitOta
  <1>c. PICK known \in {"undefined", "valid"} :
          state = [s \in Slots |-> IF s = <<"ota_0">> THEN known ELSE "undefined"]
    BY DEF Init, InitOta
  <1>d. boot = <<"ota_0">> /\ running = <<"ota_0">> /\ <<"ota_0">> \in Slots
    BY DEF Init, InitOta, Slots
  <1>e. own \in Images /\ own \in Seq(Chunks) /\ <<>> \in Seq(Chunks)
    BY <1>b, OtaAssumption, EmptySeq
  <1>f. slot[running] \in proven BY <1>b, <1>d
  <1>g. \A s \in Slots : state[s] \in {"undefined", "valid"} BY <1>c
  <1>1. TypeOK
    <2>1. slot \in [Slots -> Seq(Chunks)] /\ proven \subseteq Images BY <1>b, <1>e
    <2>2. state \in [Slots -> States] BY <1>c DEF States
    <2>3. 0 \in 0 .. MaxCommands /\ 0 \in 0 .. MaxFaults BY FilesAssumption
    <2> QED BY <1>a, <1>d, <2>1, <2>2, <2>3, IdleCommand DEF TypeOK
  <1>2. CommandInv
    BY <1>a, IdleCommand DEF CommandInv, NoCommand, InData, FilledSoFar, SourceKept,
       UpdateOfOther, SlotSoFar, Filling, Updating
  <1>3. SlotInv
    BY <1>a, <1>d, <1>f, <1>g DEF SlotInv, KeepsAGood, RunningGood, NewIsNext, TrialIsNext
  <1>4. Abstract!Init BY <1>a, IdleJob DEF Abstract!Init
  <1> QED BY <1>1, <1>2, <1>3, <1>4 DEF Inv

LEMMA NextInv == Inv /\ [Next]_vars => Inv' /\ AbstractStep
  <1> SUFFICES ASSUME Inv, [Next]_vars PROVE Inv' /\ AbstractStep OBVIOUS
  <1>1. CASE FileStep /\ UNCHANGED otaVars BY <1>1, FileSteps
  <1>2. CASE OtaStep BY <1>2, OtaSteps
  <1>3. CASE UNCHANGED vars
    <2>1. /\ phase' = phase /\ fs' = fs /\ cmd' = cmd /\ said' = said /\ commands' = commands
          /\ faults' = faults /\ slot' = slot /\ state' = state /\ running' = running
          /\ UNCHANGED otaVars
      BY <1>3 DEF vars, fileVars, otaVars
    <2>2. TypeOK' BY <2>1 DEF Inv, TypeOK, otaVars
    <2>3. CommandInv'
      BY <2>1 DEF Inv, CommandInv, NoCommand, InData, FilledSoFar, SourceKept,
         UpdateOfOther, SlotSoFar, Filling, Updating, Done
    <2>4. SlotInv' BY <2>1, SameSlots DEF Inv
    <2>5. job' = job BY <2>1 DEF job, Idle, Nothing
    <2>6. AbstractStep BY <2>1, <2>5, SameStore DEF AbstractStep
    <2> QED BY <2>2, <2>3, <2>4, <2>6 DEF Inv
  <1> QED BY <1>1, <1>2, <1>3 DEF Next

\* The invariant holds whatever fails.
THEOREM InvHolds == Spec => []Inv
  <1>1. Init => Inv BY InitInv
  <1>2. Inv /\ [Next]_vars => Inv' BY NextInv
  <1> QED BY <1>1, <1>2, PTL DEF Spec

\* Every variable but s_cwd has its type, and a command under way belongs to a running
\* shell.
THEOREM TypeCorrect == Spec => []TypeOK
  <1>1. Inv => TypeOK BY DEF Inv
  <1> QED BY <1>1, InvHolds, PTL

\* Whatever fails or loses its power, one slot holds an image whose shell has started,
\* and while the running image is on trial that is the other slot.
THEOREM AlwaysAGood == Spec => []KeepsAGood
  <1>1. Inv => KeepsAGood BY DEF Inv, SlotInv
  <1> QED BY <1>1, InvHolds, PTL

\* A command changes the one place or slot it names, and when it says it is done that
\* holds what it should: write, cp, rm, mkdir and ota_update implement FileStore.
THEOREM ShellKeepsPromise == Spec => OnlyWhatIsNamed
  <1>1. Init => Abstract!Init BY InitInv
  <1>2. Inv /\ [Next]_vars => [Abstract!Next]_<<store, job, said>>
    BY NextInv DEF AbstractStep
  <1> QED BY <1>1, <1>2, InvHolds, PTL DEF Spec, OnlyWhatIsNamed, Abstract!Spec

-----------------------------------------------------------------------------
(* Induction on numbers. *)

\* A set of numbers has a least one.
LEMMA Least ==
  ASSUME NEW T, T \subseteq Nat, T # {}
  PROVE  \E n \in T : \A m \in T : n <= m
  <1>1. PICK n \in T : \A m \in T : <<m, n>> \notin OpToRel(<, Nat)
    BY NatLessThanWellFounded, WFMin
  <1>2. ASSUME NEW m \in T
        PROVE  n <= m
    <2>1. m \in Nat /\ n \in Nat
      BY <1>1, <1>2
    <2>2. m < n => <<m, n>> \in OpToRel(<, Nat)
      BY <2>1, Zenon DEF OpToRel
    <2>3. ~(m < n)
      BY <1>1, <2>2, Zenon
    <2> QED
      BY ONLY <2>1, <2>3
  <1> QED
    BY <1>2

\* A set of numbers up to a bound has a largest one.
LEMMA Largest ==
  ASSUME NEW T, NEW b \in Nat, T \subseteq 0 .. b, T # {}
  PROVE  \E n \in T : \A m \in T : m <= n
  <1> DEFINE U == {d \in Nat : b - d \in T}
  <1>1. \A t \in T : t \in 0 .. b /\ b - t \in Nat /\ b - (b - t) = t
    OBVIOUS
  <1>2. U \subseteq Nat /\ U # {}
    BY <1>1
  <1>3. PICK d \in U : \A e \in U : d <= e
    BY <1>2, Least
  <1>4. d \in Nat /\ b - d \in T
    OBVIOUS
  <1>5. ASSUME NEW m \in T
        PROVE  m <= b - d
    <2>1. b - m \in U
      BY <1>1
    <2>2. d <= b - m
      BY <1>3, <2>1
    <2> QED
      BY <1>1, <1>4, <2>2
  <1> QED
    BY <1>4, <1>5

\* What holds at 0 and from each number to the next holds at all.
LEMMA Induction ==
  ASSUME NEW S, 0 \in S, \A n \in Nat : n \in S => n + 1 \in S
  PROVE  \A n \in Nat : n \in S
  <1> DEFINE T == Nat \ S
  <1> SUFFICES ASSUME T # {} PROVE FALSE
    OBVIOUS
  <1>1. PICK m \in T : \A k \in T : m <= k
    BY Least
  <1>2. m \in Nat /\ m # 0 /\ m \notin S
    OBVIOUS
  <1>3. m - 1 \in Nat /\ ~(m <= m - 1)
    BY <1>2
  <1>4. m - 1 \in S
    BY <1>1, <1>3
  <1>5. (m - 1) + 1 \in S
    BY <1>3, <1>4
  <1> QED
    BY <1>2, <1>5

-----------------------------------------------------------------------------
(* Numbers in their order. *)

\* The numbers of S up to i.
Rank(S, i) == Cardinality({j \in S : j <= i})

Finite(S) == S \subseteq Nat /\ IsFiniteSet(S)

\* There are not more ranks than numbers.
LEMMA RankIs ==
  ASSUME NEW S, Finite(S), NEW i \in S
  PROVE  Rank(S, i) \in 1 .. Cardinality(S)
  <1> DEFINE T == {j \in S : j <= i}
  <1>1. i \in T /\ T \in SUBSET S
    BY DEF Finite
  <1>2. IsFiniteSet(T) /\ Cardinality(T) <= Cardinality(S)
    BY <1>1, FS_Subset DEF Finite
  <1>3. Cardinality(T) \in Nat /\ Cardinality(S) \in Nat /\ Cardinality(T) # 0
    BY <1>1, <1>2, FS_CardinalityType, FS_EmptySet DEF Finite
  <1>4. Rank(S, i) = Cardinality(T)
    BY DEF Rank
  <1> HIDE DEF T
  <1> QED
    BY <1>2, <1>3, <1>4

\* A larger number has a higher rank.
LEMMA RankGrows ==
  ASSUME NEW S, Finite(S), NEW i \in S, NEW k \in S, i < k
  PROVE  Rank(S, i) # Rank(S, k)
  <1> DEFINE T == {j \in S : j <= i}
             U == {j \in S : j <= k}
  <1>1. \A j \in S : j \in Nat
    BY DEF Finite
  <1>2. T \in SUBSET U /\ k \in U /\ k \notin T
    BY <1>1
  <1>3. IsFiniteSet(U)
    <2>1. U \in SUBSET S
      OBVIOUS
    <2> QED
      BY <2>1, FS_Subset DEF Finite
  <1>4. Cardinality(T) # Cardinality(U)
    <2>1. T # U
      BY <1>2
    <2> HIDE DEF T, U
    <2> QED
      BY <1>2, <1>3, <2>1, FS_Subset
  <1> QED
    BY <1>4 DEF Rank

\* Each number has a rank of its own, ...
LEMMA RankIsOwn ==
  ASSUME NEW S, Finite(S), NEW i \in S, NEW k \in S, Rank(S, i) = Rank(S, k)
  PROVE  i = k
  <1>1. i \in Nat /\ k \in Nat
    BY DEF Finite
  <1>2. ~(i < k) /\ ~(k < i)
    BY RankGrows
  <1> QED
    BY ONLY <1>1, <1>2

\* ... and each rank a number.
LEMMA RankIsTaken ==
  ASSUME NEW S, Finite(S), NEW n \in 1 .. Cardinality(S)
  PROVE  \E i \in S : Rank(S, i) = n
  <1> DEFINE T == 1 .. Cardinality(S)
             f == [i \in S |-> Rank(S, i)]
  <1>1. Cardinality(S) \in Nat /\ IsFiniteSet(S)
    BY FS_CardinalityType DEF Finite
  <1>2. IsFiniteSet(T) /\ Cardinality(T) = Cardinality(S)
    <2>1. Cardinality(S) \in Int /\ 1 \in Int
      BY <1>1
    <2>2. IsFiniteSet(T) /\ Cardinality(T) = IF 1 > Cardinality(S) THEN 0 ELSE Cardinality(S) - 1 + 1
      BY <2>1, FS_Interval
    <2> HIDE DEF T
    <2> QED
      BY <1>1, <2>2
  <1>3. f \in [S -> T]
    BY RankIs
  <1>4. \A i, k \in S : f[i] = f[k] => i = k
    BY RankIsOwn
  <1>5. f \in Injection(S, T)
    BY <1>3, <1>4 DEF Injection, IsInjective
  <1> HIDE DEF f, T
  <1>6. f \in Surjection(S, T)
    BY <1>1, <1>2, <1>5, FS_Injection
  <1>7. \A t \in T : \E i \in S : f[i] = t
    BY <1>6 DEF Surjection
  <1>8. n \in T
    BY DEF T
  <1> QED
    BY <1>7, <1>8 DEF f

\* The number of a rank.
LEMMA NthIs ==
  ASSUME NEW S, Finite(S), NEW n \in 1 .. Cardinality(S)
  PROVE  Nth(S, n) \in S /\ Rank(S, Nth(S, n)) = n
  <1>1. \E i \in S : Cardinality({j \in S : j <= i}) = n
    BY RankIsTaken DEF Rank
  <1> QED
    BY <1>1, Zenon DEF Nth, Rank

\* The number of the rank of a number is that number.
LEMMA NthOfRank ==
  ASSUME NEW S, Finite(S), NEW i \in S
  PROVE  Nth(S, Rank(S, i)) = i
  <1>1. Rank(S, i) \in 1 .. Cardinality(S)
    BY RankIs
  <1>2. Nth(S, Rank(S, i)) \in S /\ Rank(S, Nth(S, Rank(S, i))) = Rank(S, i)
    BY <1>1, NthIs
  <1> QED
    BY <1>2, RankIsOwn

AddsLast(S, x, T) == Finite(S) /\ x \in Nat /\ (\A i \in S : i < x) /\ T = S \cup {x}

\* One more number, larger than the others, is the last of them.
LEMMA OneMoreNumber ==
  ASSUME NEW S, NEW x, NEW T, AddsLast(S, x, T)
  PROVE  /\ Cardinality(S) \in Nat
         /\ Cardinality(T) = Cardinality(S) + 1
         /\ \A n \in 1 .. Cardinality(S) : Nth(T, n) = Nth(S, n)
         /\ Nth(T, Cardinality(S) + 1) = x
  <1>0. Finite(S) /\ x \in Nat /\ (\A i \in S : i < x) /\ T = S \cup {x}
    BY DEF AddsLast
  <1>1. x \notin S /\ \A i \in S : i \in Nat /\ ~(x <= i)
    BY <1>0 DEF Finite
  <1>2. Cardinality(S) \in Nat /\ IsFiniteSet(T) /\ Cardinality(T) = Cardinality(S) + 1
    BY <1>0, <1>1, FS_CardinalityType, FS_AddElement DEF Finite
  <1>3. Finite(T)
    BY <1>0, <1>2 DEF Finite
  <1>4. \A i \in S : Rank(T, i) = Rank(S, i)
    <2> TAKE i \in S
    <2>1. {j \in T : j <= i} = {j \in S : j <= i}
      BY <1>0, <1>1
    <2> QED
      BY <2>1 DEF Rank
  <1>5. Rank(T, x) = Cardinality(S) + 1
    <2>1. \A j \in S : j <= x
      BY <1>0, <1>1
    <2>2. x <= x
      BY <1>0
    <2>3. {j \in T : j <= x} = T
      BY <1>0, <2>1, <2>2
    <2> QED
      BY <1>2, <2>3 DEF Rank
  <1>6. Nth(T, Cardinality(S) + 1) = x
    <2>1. x \in T
      BY <1>0
    <2> QED
      BY <1>3, <1>5, <2>1, NthOfRank
  <1>7. \A n \in 1 .. Cardinality(S) : Nth(T, n) = Nth(S, n)
    <2> TAKE n \in 1 .. Cardinality(S)
    <2>1. Nth(S, n) \in S /\ Rank(S, Nth(S, n)) = n
      BY <1>0, NthIs
    <2>2. Nth(S, n) \in T /\ Rank(T, Nth(S, n)) = n
      BY <1>0, <1>4, <2>1
    <2> QED
      BY <1>3, <2>2, NthOfRank
  <1> QED
    BY <1>2, <1>6, <1>7
-----------------------------------------------------------------------------
(* Names and `..` between two segments. *)

Segments == Names \cup {".", ".."}

\* They are counted in natural numbers.
LEMMA CountType ==
  ASSUME NEW s, NEW i \in Nat, NEW j \in Nat, NEW S
  PROVE  Count(s, i, j, S) \in Nat
  <1> DEFINE T == {k \in i .. j : s[k] \in S}
  <1>1. IsFiniteSet(i .. j)
    BY FS_Interval
  <1>2. T \in SUBSET (i .. j)
    OBVIOUS
  <1> HIDE DEF T
  <1>3. Cardinality(T) \in Nat
    BY <1>1, <1>2, FS_Subset, FS_CardinalityType
  <1> QED
    BY <1>3 DEF Count, T

\* None between no segments.
LEMMA CountNone ==
  ASSUME NEW s, NEW i \in Nat, NEW j \in Nat, j < i, NEW S
  PROVE  Count(s, i, j, S) = 0
  <1>1. {k \in i .. j : s[k] \in S} = {}
    OBVIOUS
  <1> QED
    BY <1>1, FS_EmptySet DEF Count

\* One segment more, at the end.
LEMMA CountLast ==
  ASSUME NEW s, NEW i \in Nat, NEW j \in Nat, i <= j + 1, NEW S
  PROVE  Count(s, i, j + 1, S) = Count(s, i, j, S) + (IF s[j + 1] \in S THEN 1 ELSE 0)
  <1> DEFINE T == {k \in i .. j : s[k] \in S}
             U == {k \in i .. j + 1 : s[k] \in S}
  <1>1. IsFiniteSet(T)
    <2>1. IsFiniteSet(i .. j)
      BY FS_Interval
    <2>2. T \in SUBSET (i .. j)
      OBVIOUS
    <2> HIDE DEF T
    <2> QED
      BY <2>1, <2>2, FS_Subset
  <1>2. j + 1 \notin T
    OBVIOUS
  <1>3. Cardinality(T \cup {j + 1}) = Cardinality(T) + 1 /\ Cardinality(T) \in Nat
    <2> HIDE DEF T
    <2> QED
      BY <1>1, <1>2, FS_AddElement, FS_CardinalityType
  <1>4. CASE s[j + 1] \in S
    <2>1. U = T \cup {j + 1}
      BY <1>4
    <2> HIDE DEF T, U
    <2>2. Cardinality(U) = Cardinality(T) + 1
      BY <1>3, <2>1
    <2> QED
      BY <1>4, <2>2 DEF Count, T, U
  <1>5. CASE s[j + 1] \notin S
    <2>1. U = T
      BY <1>5
    <2>2. Cardinality(U) = Cardinality(T) + 0
      BY <1>3, <2>1
    <2> QED
      BY <1>5, <2>2 DEF Count
  <1> QED
    BY <1>4, <1>5

\* Two stretches, one after the other.
LEMMA CountTwo ==
  ASSUME NEW s, NEW i \in Nat, NEW j \in Nat, NEW n \in Nat, i <= j + 1, j <= n, NEW S
  PROVE  Count(s, i, n, S) = Count(s, i, j, S) + Count(s, j + 1, n, S)
  <1> DEFINE T == {k \in i .. j : s[k] \in S}
             U == {k \in j + 1 .. n : s[k] \in S}
             V == {k \in i .. n : s[k] \in S}
  <1>1. V = T \cup U /\ T \cap U = {}
    OBVIOUS
  <1>2. IsFiniteSet(T) /\ IsFiniteSet(U)
    <2>1. IsFiniteSet(i .. j) /\ IsFiniteSet(j + 1 .. n)
      BY FS_Interval
    <2>2. T \in SUBSET (i .. j) /\ U \in SUBSET (j + 1 .. n)
      OBVIOUS
    <2> HIDE DEF T, U
    <2> QED
      BY <2>1, <2>2, FS_Subset
  <1> HIDE DEF T, U, V
  <1>3. Cardinality(T \cup U) = Cardinality(T) + Cardinality(U) - Cardinality(T \cap U)
    BY <1>2, FS_Union
  <1>4. Cardinality(T \cap U) = 0 /\ Cardinality(T) \in Nat /\ Cardinality(U) \in Nat
    BY <1>1, <1>2, FS_EmptySet, FS_CardinalityType
  <1>5. Cardinality(V) = Cardinality(T) + Cardinality(U)
    BY <1>1, <1>3, <1>4
  <1> QED
    BY <1>5 DEF Count, T, U, V

\* One segment more, at the front.
LEMMA CountFirst ==
  ASSUME NEW s, NEW i \in Nat, NEW n \in Nat, i <= n, NEW S
  PROVE  Count(s, i, n, S) = (IF s[i] \in S THEN 1 ELSE 0) + Count(s, i + 1, n, S)
  <1>1. Count(s, i, n, S) = Count(s, i, i, S) + Count(s, i + 1, n, S)
    BY CountTwo
  <1>2. Count(s, i, i, S) = IF s[i] \in S THEN 1 ELSE 0
    <2>1. CASE s[i] \in S
      <3>1. {k \in i .. i : s[k] \in S} = {i}
        BY <2>1
      <3> QED
        BY <2>1, <3>1, FS_Singleton DEF Count
    <2>2. CASE s[i] \notin S
      <3>1. {k \in i .. i : s[k] \in S} = {}
        BY <2>2
      <3> QED
        BY <2>2, <3>1, FS_EmptySet DEF Count
    <2> QED
      BY <2>1, <2>2
  <1> QED
    BY <1>1, <1>2

\* No stretch from i on holds more `..` than names.
Balanced(s, i, n) == \A j \in i .. n : Count(s, i, j, {".."}) <= Count(s, i, j, Names)

\* A name that is left is one with a balanced rest of the path.
LEMMA LeftIs ==
  ASSUME NEW s \in Seq(Segments)
  PROVE  \A i : i \in Left(s) <=> i \in 1 .. Len(s) /\ s[i] \in Names /\ Balanced(s, i + 1, Len(s))
  <1>1. DOMAIN s = 1 .. Len(s)
    BY LenProperties
  <1> QED
    BY <1>1 DEF Left, Survives, Balanced

\* The names that are left are finite in number.
LEMMA LeftFinite ==
  ASSUME NEW s \in Seq(Segments)
  PROVE  Finite(Left(s)) /\ Cardinality(Left(s)) \in Nat /\ \A i \in Left(s) : s[i] \in Names
  <1>1. Len(s) \in Nat
    BY LenProperties
  <1>2. \A i \in Left(s) : i \in 1 .. Len(s) /\ s[i] \in Names
    BY LeftIs
  <1>3. IsFiniteSet(1 .. Len(s))
    BY <1>1, FS_Interval
  <1>4. Left(s) \in SUBSET (1 .. Len(s))
    BY <1>2
  <1>5. IsFiniteSet(Left(s)) /\ Cardinality(Left(s)) \in Nat
    BY <1>3, <1>4, FS_Subset, FS_CardinalityType
  <1>6. Left(s) \subseteq Nat
    BY <1>2
  <1> QED
    BY <1>2, <1>5, <1>6 DEF Finite

\* With one segment more at the end.
LEMMA BalancedLast ==
  ASSUME NEW s, NEW t, NEW i \in Nat, NEW n \in Nat, i <= n + 1, \A k \in 1 .. n : t[k] = s[k], i > 0
  PROVE  Balanced(t, i, n + 1) <=>
           /\ Balanced(s, i, n)
           /\ Count(s, i, n, {".."}) + (IF t[n + 1] = ".." THEN 1 ELSE 0)
                <= Count(s, i, n, Names) + (IF t[n + 1] \in Names THEN 1 ELSE 0)
  <1>1. \A j \in i .. n : \A S : Count(t, i, j, S) = Count(s, i, j, S)
    <2> TAKE j \in i .. n
    <2> TAKE S
    <2>1. {k \in i .. j : t[k] \in S} = {k \in i .. j : s[k] \in S}
      OBVIOUS
    <2> QED
      BY <2>1 DEF Count
  <1>2. \A S : Count(t, i, n + 1, S) = Count(s, i, n, S) + (IF t[n + 1] \in S THEN 1 ELSE 0)
    <2> TAKE S
    <2>1. Count(t, i, n, S) = Count(s, i, n, S)
      <3>1. {k \in i .. n : t[k] \in S} = {k \in i .. n : s[k] \in S}
        OBVIOUS
      <3> QED
        BY <3>1 DEF Count
    <2> QED
      BY <2>1, CountLast
  <1>3. \A j : j \in i .. n + 1 <=> j \in i .. n \/ j = n + 1
    OBVIOUS
  <1>4. t[n + 1] \in {".."} <=> t[n + 1] = ".."
    OBVIOUS
  <1> DEFINE Fits(r, j) == Count(r, i, j, {".."}) <= Count(r, i, j, Names)
  <1>5. \A j \in i .. n : Fits(t, j) <=> Fits(s, j)
    BY <1>1
  <1>6. Fits(t, n + 1) <=> Count(s, i, n, {".."}) + (IF t[n + 1] = ".." THEN 1 ELSE 0)
                             <= Count(s, i, n, Names) + (IF t[n + 1] \in Names THEN 1 ELSE 0)
    BY <1>2, <1>4
  <1>7. Balanced(s, i, n) <=> \A j \in i .. n : Fits(s, j)
    BY DEF Balanced
  <1>8. Balanced(t, i, n + 1) <=> \A j \in i .. n + 1 : Fits(t, j)
    BY DEF Balanced
  <1>9. n + 1 \in i .. n + 1
    OBVIOUS
  <1> HIDE DEF Fits
  <1> QED
    BY ONLY <1>3, <1>5, <1>6, <1>7, <1>8, <1>9
\* Between the last name that is left and the end there are no more names than `..`.
LEMMA NoneLeft ==
  ASSUME NEW s \in Seq(Segments), NEW m \in Nat, m <= Len(s), \A i \in Left(s) : i <= m
  PROVE  Count(s, m + 1, Len(s), Names) <= Count(s, m + 1, Len(s), {".."})
  <1> DEFINE n == Len(s)
             N(i, j) == Count(s, i, j, Names)
             D(i, j) == Count(s, i, j, {".."})
             T == {j \in m + 1 .. n : ~(N(j, n) <= D(j, n))}
  <1>1. n \in Nat
    BY LenProperties
  <1> HIDE DEF n
  <1>2. \A i, j \in Nat : N(i, j) \in Nat /\ D(i, j) \in Nat
    BY CountType
  <1>3. N(n + 1, n) = 0 /\ D(n + 1, n) = 0
    <2>1. n + 1 \in Nat /\ n < n + 1
      BY <1>1
    <2> QED
      BY <1>1, <2>1, CountNone
  <1>4. SUFFICES ASSUME T # {} PROVE FALSE
    <2>1. CASE m = n
      BY <1>3, <2>1 DEF n
    <2>2. CASE m # n
      <3>1. m + 1 \in m + 1 .. n
        BY <1>1, <2>2 DEF n
      <3> QED
        BY <3>1 DEF n
    <2> QED
      BY <2>1, <2>2
  <1>5. PICK j \in T : \A k \in T : k <= j
    <2>1. T \subseteq 0 .. n
      BY <1>1
    <2> HIDE DEF T
    <2> QED
      BY <1>1, <1>4, <2>1, Largest
  <1>6. j \in 1 .. n /\ j \in Nat /\ j + 1 \in Nat /\ m < j /\ ~(N(j, n) <= D(j, n))
    BY <1>1, <1>5
  <1>7. \A k \in j + 1 .. n + 1 : N(k, n) <= D(k, n)
    <2> TAKE k \in j + 1 .. n + 1
    <2>1. CASE k = n + 1
      BY <1>3, <2>1
    <2>2. CASE k # n + 1
      <3>1. k \in m + 1 .. n /\ ~(k <= j)
        BY <1>1, <1>6, <2>2
      <3> QED
        BY <1>5, <3>1
    <2> QED
      BY <2>1, <2>2
  <1>8. /\ N(j, n) = (IF s[j] \in Names THEN 1 ELSE 0) + N(j + 1, n)
        /\ D(j, n) = (IF s[j] \in {".."} THEN 1 ELSE 0) + D(j + 1, n)
    BY <1>1, <1>6, CountFirst
  <1>9. s[j] \in Names /\ s[j] \notin {".."} /\ N(j + 1, n) <= D(j + 1, n) /\ D(j + 1, n) <= N(j + 1, n)
    <2>1. N(j + 1, n) <= D(j + 1, n)
      BY <1>1, <1>6, <1>7
    <2>2. N(j + 1, n) \in Nat /\ D(j + 1, n) \in Nat
      BY <1>1, <1>2, <1>6
    <2>3. ".." \notin Names
      BY NamesAssumption
    <2> HIDE DEF N, D
    <2> QED
      BY <1>6, <1>8, <2>1, <2>2, <2>3
  <1>10. \A k \in j + 1 .. n : D(j + 1, k) <= N(j + 1, k)
    <2> TAKE k \in j + 1 .. n
    <2>1. k \in Nat /\ k + 1 \in Nat /\ j + 1 <= k + 1 /\ k <= n /\ k + 1 \in j + 1 .. n + 1
      BY <1>1, <1>6
    <2>2. N(j + 1, n) = N(j + 1, k) + N(k + 1, n) /\ D(j + 1, n) = D(j + 1, k) + D(k + 1, n)
      BY <1>1, <1>6, <2>1, CountTwo
    <2>3. N(k + 1, n) <= D(k + 1, n)
      BY <1>7, <2>1
    <2>4. /\ N(j + 1, k) \in Nat /\ D(j + 1, k) \in Nat /\ N(k + 1, n) \in Nat /\ D(k + 1, n) \in Nat
          /\ N(j + 1, n) \in Nat /\ D(j + 1, n) \in Nat
      BY <1>1, <1>2, <1>6, <2>1
    <2> HIDE DEF N, D
    <2> QED
      BY <1>9, <2>2, <2>3, <2>4
  <1>11. j \in Left(s)
    <2>1. Balanced(s, j + 1, n)
      BY <1>10 DEF Balanced
    <2> QED
      BY <1>6, <1>9, <2>1, LeftIs DEF n
  <1> QED
    BY <1>6, <1>11

\* What is left when there is one segment more.
LEMMA LeftLast ==
  ASSUME NEW s \in Seq(Segments), NEW x \in Segments
  PROVE  /\ \A i \in 1 .. Len(s) : i \in Left(Append(s, x)) <=>
              /\ i \in Left(s)
              /\ Count(s, i + 1, Len(s), {".."}) + (IF x = ".." THEN 1 ELSE 0)
                   <= Count(s, i + 1, Len(s), Names) + (IF x \in Names THEN 1 ELSE 0)
         /\ Len(s) + 1 \in Left(Append(s, x)) <=> x \in Names
         /\ \A i \in Left(Append(s, x)) : i \in 1 .. Len(s) + 1
  <1> DEFINE t == Append(s, x)
             n == Len(s)
  <1>1. n \in Nat
    BY LenProperties
  <1>2. t \in Seq(Segments) /\ Len(t) = n + 1 /\ t[n + 1] = x /\ \A k \in 1 .. n : t[k] = s[k]
    BY AppendProperties
  <1> HIDE DEF n, t
  <1>3. \A i : i \in Left(t) <=> i \in 1 .. n + 1 /\ t[i] \in Names /\ Balanced(t, i + 1, n + 1)
    BY <1>2, LeftIs
  <1>4. \A i : i \in Left(s) <=> i \in 1 .. n /\ s[i] \in Names /\ Balanced(s, i + 1, n)
    BY LeftIs DEF n
  <1>5. \A i \in 1 .. n : i \in Left(t) <=>
              /\ i \in Left(s)
              /\ Count(s, i + 1, n, {".."}) + (IF x = ".." THEN 1 ELSE 0)
                   <= Count(s, i + 1, n, Names) + (IF x \in Names THEN 1 ELSE 0)
    <2> TAKE i \in 1 .. n
    <2>1. i + 1 \in Nat /\ i + 1 <= n + 1 /\ i + 1 > 0 /\ i \in 1 .. n + 1
      BY <1>1
    <2>2. Balanced(t, i + 1, n + 1) <=>
           /\ Balanced(s, i + 1, n)
           /\ Count(s, i + 1, n, {".."}) + (IF t[n + 1] = ".." THEN 1 ELSE 0)
                <= Count(s, i + 1, n, Names) + (IF t[n + 1] \in Names THEN 1 ELSE 0)
      BY <1>1, <1>2, <2>1, BalancedLast
    <2>3. t[n + 1] = x /\ t[i] = s[i]
      BY <1>2
    <2> QED
      BY <1>3, <1>4, <2>1, <2>2, <2>3
  <1>6. n + 1 \in Left(t) <=> x \in Names
    <2>1. Balanced(t, (n + 1) + 1, n + 1)
      BY <1>1 DEF Balanced
    <2>2. n + 1 \in 1 .. n + 1
      BY <1>1
    <2> QED
      BY <1>2, <1>3, <2>1, <2>2
  <1> QED
    BY <1>3, <1>5, <1>6 DEF n, t

\* After a name that is left there are as many names as `..`, or more.
LEMMA LeftBalance ==
  ASSUME NEW s \in Seq(Segments), NEW i \in Left(s)
  PROVE  /\ i \in 1 .. Len(s) /\ s[i] \in Names /\ Balanced(s, i + 1, Len(s))
         /\ Count(s, i + 1, Len(s), {".."}) <= Count(s, i + 1, Len(s), Names)
  <1>1. i \in 1 .. Len(s) /\ s[i] \in Names /\ Balanced(s, i + 1, Len(s)) /\ Len(s) \in Nat
    BY LeftIs, LenProperties
  <1>2. CASE i = Len(s)
    <2>1. i + 1 \in Nat /\ Len(s) < i + 1
      BY <1>1, <1>2
    <2>2. Count(s, i + 1, Len(s), {".."}) = 0 /\ Count(s, i + 1, Len(s), Names) = 0
      BY <1>1, <2>1, CountNone
    <2> QED
      BY <1>1, <2>2
  <1>3. CASE i # Len(s)
    <2>1. Len(s) \in i + 1 .. Len(s)
      BY <1>1, <1>3
    <2> QED
      BY <1>1, <2>1 DEF Balanced
  <1> QED
    BY <1>2, <1>3

\* `..` takes back the last name that is left.
LEMMA LeftBack ==
  ASSUME NEW s \in Seq(Segments), NEW m \in Left(s), \A i \in Left(s) : i <= m
  PROVE  Left(Append(s, "..")) = Left(s) \ {m}
  <1> DEFINE t == Append(s, "..")
             n == Len(s)
             N(i, j) == Count(s, i, j, Names)
             D(i, j) == Count(s, i, j, {".."})
  <1>1. n \in Nat
    BY LenProperties
  <1>2. ".." \in Segments /\ ".." \notin Names
    BY NamesAssumption DEF Segments
  <1>3. /\ \A i \in 1 .. n : i \in Left(t) <=> i \in Left(s) /\ D(i + 1, n) + 1 <= N(i + 1, n)
        /\ \A i \in Left(t) : i \in 1 .. n
    <2>1. /\ \A i \in 1 .. n : i \in Left(t) <=>
              /\ i \in Left(s)
              /\ D(i + 1, n) + (IF ".." = ".." THEN 1 ELSE 0)
                   <= N(i + 1, n) + (IF ".." \in Names THEN 1 ELSE 0)
          /\ n + 1 \in Left(t) <=> ".." \in Names
          /\ \A i \in Left(t) : i \in 1 .. n + 1
      BY <1>2, LeftLast
    <2>2. \A i \in 1 .. n : N(i + 1, n) \in Nat
      BY <1>1, CountType
    <2> HIDE DEF t, n, N, D
    <2> QED
      BY <1>1, <1>2, <2>1, <2>2
  <1>4. \A i \in Left(s) : i \in 1 .. n /\ D(i + 1, n) <= N(i + 1, n)
    BY LeftBalance
  <1>5. m \notin Left(t)
    <2>1. m \in Nat /\ m <= n /\ m + 1 \in Nat
      BY <1>1, <1>4
    <2>2. N(m + 1, n) <= D(m + 1, n)
      BY <2>1, NoneLeft
    <2>3. N(m + 1, n) \in Nat /\ D(m + 1, n) \in Nat
      BY <1>1, <2>1, CountType
    <2>4. ~(D(m + 1, n) + 1 <= N(m + 1, n))
      <3> HIDE DEF N, D
      <3> QED
        BY <2>2, <2>3
    <2> QED
      BY <1>3, <2>4
  <1>6. ASSUME NEW i \in Left(s), i # m
        PROVE  D(i + 1, n) + 1 <= N(i + 1, n)
    <2>1. i \in Nat /\ m \in Nat /\ i < m /\ m <= n /\ i + 1 \in Nat /\ m + 1 \in Nat /\ m - 1 \in Nat
      BY <1>1, <1>4, <1>6
    <2>2. i + 1 <= (m - 1) + 1 /\ m - 1 <= n /\ (m - 1) + 1 = m
      BY <2>1
    <2>3. /\ N(i + 1, n) = N(i + 1, m - 1) + N(m, n)
          /\ D(i + 1, n) = D(i + 1, m - 1) + D(m, n)
      <3> DEFINE l == m - 1
                 h == i + 1
      <3>1. l \in Nat /\ h \in Nat /\ h <= l + 1 /\ l <= n /\ l + 1 = m
        BY <2>1, <2>2
      <3> HIDE DEF l, h
      <3>2. /\ Count(s, h, n, Names) = Count(s, h, l, Names) + Count(s, l + 1, n, Names)
            /\ Count(s, h, n, {".."}) = Count(s, h, l, {".."}) + Count(s, l + 1, n, {".."})
        BY <1>1, <3>1, CountTwo
      <3> QED
        BY <3>1, <3>2 DEF l, h
    <2>4. D(i + 1, m - 1) <= N(i + 1, m - 1)
      <3>1. CASE i + 1 = m
        <4>1. m - 1 < i + 1
          BY <2>1, <3>1
        <4>2. D(i + 1, m - 1) = 0 /\ N(i + 1, m - 1) = 0
          BY <2>1, <4>1, CountNone
        <4> QED
          BY <4>2
      <3>2. CASE i + 1 # m
        <4>1. m - 1 \in i + 1 .. n
          BY <1>1, <2>1, <3>2
        <4>2. Balanced(s, i + 1, n)
          BY LeftBalance
        <4> QED
          BY <4>1, <4>2 DEF Balanced
      <3> QED
        BY <3>1, <3>2
    <2>5. N(m, n) = 1 + N(m + 1, n) /\ D(m, n) = D(m + 1, n)
      <3>1. s[m] \in Names /\ s[m] \notin {".."}
        BY <1>2, LeftBalance
      <3>2. /\ N(m, n) = (IF s[m] \in Names THEN 1 ELSE 0) + N(m + 1, n)
            /\ D(m, n) = (IF s[m] \in {".."} THEN 1 ELSE 0) + D(m + 1, n)
        BY <1>1, <2>1, CountFirst
      <3>3. D(m + 1, n) \in Nat
        BY <1>1, <2>1, CountType
      <3> HIDE DEF N, D
      <3> QED
        BY <3>1, <3>2, <3>3
    <2>6. D(m + 1, n) <= N(m + 1, n)
      BY <1>4
    <2>7. /\ N(i + 1, m - 1) \in Nat /\ D(i + 1, m - 1) \in Nat
          /\ N(m + 1, n) \in Nat /\ D(m + 1, n) \in Nat
      BY <1>1, <2>1, CountType
    <2> HIDE DEF N, D
    <2> QED
      BY <2>3, <2>4, <2>5, <2>6, <2>7
  <1>7. \A i : i \in Left(t) <=> i \in Left(s) /\ i # m
    <2> HIDE DEF N, D, t, n
    <2> QED
      BY <1>3, <1>4, <1>5, <1>6
  <1> QED
    BY <1>7
-----------------------------------------------------------------------------
(* The meaning of a path, segment by segment. *)

\* A meaning is a path of names, each from a place of its own in the argument.
LEMMA MeaningIs ==
  ASSUME NEW s \in Seq(Segments)
  PROVE  /\ Meaning(s) \in Seq(Names)
         /\ Len(Meaning(s)) = Cardinality(Left(s))
         /\ \A n \in 1 .. Cardinality(Left(s)) :
              /\ Meaning(s)[n] = s[Nth(Left(s), n)]
              /\ Nth(Left(s), n) \in Left(s) /\ Nth(Left(s), n) \in 1 .. Len(s)
  <1> DEFINE c == Cardinality(Left(s))
             f == [n \in 1 .. c |-> s[Nth(Left(s), n)]]
  <1>1. Finite(Left(s)) /\ c \in Nat /\ \A i \in Left(s) : s[i] \in Names /\ i \in 1 .. Len(s)
    BY LeftFinite, LeftIs
  <1>2. \A n \in 1 .. c : Nth(Left(s), n) \in Left(s)
    BY <1>1, NthIs
  <1>3. Meaning(s) = f
    BY DEF Meaning
  <1>4. f \in [1 .. c -> Names]
    BY <1>1, <1>2
  <1>5. f \in Seq(Names) /\ Len(f) = c
    <2> HIDE DEF f, c
    <2> QED
      BY <1>1, <1>4
  <1> QED
    BY <1>1, <1>2, <1>3, <1>5

\* A name more.
LEMMA MeaningOfName ==
  ASSUME NEW s \in Seq(Segments), NEW x \in Names
  PROVE  Meaning(Append(s, x)) = Append(Meaning(s), x)
  <1> DEFINE t == Append(s, x)
             n == Len(s)
             c == Cardinality(Left(s))
             a == Append(Meaning(s), x)
  <1>1. n \in Nat /\ x \in Segments /\ x # ".."
    BY LenProperties, NamesAssumption DEF Segments
  <1>2. t \in Seq(Segments) /\ Len(t) = n + 1 /\ t[n + 1] = x /\ \A k \in 1 .. n : t[k] = s[k]
    BY <1>1, AppendProperties
  <1>3. Left(t) = Left(s) \cup {n + 1}
    <2>1. \A i \in Left(s) : /\ i \in 1 .. n /\ Count(s, i + 1, n, {".."}) <= Count(s, i + 1, n, Names)
                             /\ Count(s, i + 1, n, {".."}) \in Nat /\ Count(s, i + 1, n, Names) \in Nat
      BY <1>1, LeftBalance, CountType
    <2>2. /\ \A i \in 1 .. n : i \in Left(t) <=>
              /\ i \in Left(s)
              /\ Count(s, i + 1, n, {".."}) + 0 <= Count(s, i + 1, n, Names) + 1
          /\ n + 1 \in Left(t)
          /\ \A i \in Left(t) : i \in 1 .. n + 1
      BY <1>1, LeftLast
    <2>3. \A i \in Left(s) : Count(s, i + 1, n, {".."}) + 0 <= Count(s, i + 1, n, Names) + 1
      BY <2>1
    <2>4. \A i \in 1 .. n + 1 : i \in 1 .. n \/ i = n + 1
      BY <1>1
    <2> HIDE DEF t, n
    <2> QED
      BY <2>1, <2>2, <2>3, <2>4
  <1>4. Finite(Left(s)) /\ n + 1 \in Nat /\ \A i \in Left(s) : i \in 1 .. n /\ i < n + 1
    BY <1>1, LeftFinite, LeftIs
  <1>5. /\ c \in Nat /\ Cardinality(Left(t)) = c + 1
        /\ \A k \in 1 .. c : Nth(Left(t), k) = Nth(Left(s), k)
        /\ Nth(Left(t), c + 1) = n + 1
    <2> HIDE DEF n, t, c, a
    <2>1. c = Cardinality(Left(s))
      BY DEF c
    <2>2. AddsLast(Left(s), n + 1, Left(t))
      BY <1>3, <1>4 DEF AddsLast
    <2> QED
      BY <2>1, <2>2, OneMoreNumber
  <1>6. /\ Meaning(s) \in Seq(Names) /\ Len(Meaning(s)) = c
        /\ \A k \in 1 .. c : Meaning(s)[k] = s[Nth(Left(s), k)] /\ Nth(Left(s), k) \in 1 .. n
    BY MeaningIs
  <1>7. /\ Meaning(t) \in Seq(Names) /\ Len(Meaning(t)) = c + 1
        /\ \A k \in 1 .. c + 1 : Meaning(t)[k] = t[Nth(Left(t), k)]
    <2> HIDE DEF t, c
    <2> QED
      BY <1>2, <1>5, MeaningIs
  <1>8. a \in Seq(Names) /\ Len(a) = c + 1 /\ a[c + 1] = x /\ \A k \in 1 .. c : a[k] = Meaning(s)[k]
    BY <1>6, AppendProperties
  <1>9. \A k \in 1 .. c + 1 : Meaning(t)[k] = a[k]
    <2> TAKE k \in 1 .. c + 1
    <2> HIDE DEF t, n, c, a
    <2>1. CASE k \in 1 .. c
      BY <1>2, <1>5, <1>6, <1>7, <1>8, <2>1
    <2>2. CASE k = c + 1
      BY <1>2, <1>5, <1>7, <1>8, <2>2
    <2> QED
      BY <1>5, <2>1, <2>2
  <1> HIDE DEF t, a, c
  <1>10. Meaning(t) = a
    BY <1>7, <1>8, <1>9, SeqEqual
  <1> QED
    BY <1>10 DEF t, a

\* A dot more.
LEMMA MeaningOfDot ==
  ASSUME NEW s \in Seq(Segments)
  PROVE  Meaning(Append(s, ".")) = Meaning(s)
  <1> DEFINE t == Append(s, ".")
             n == Len(s)
             c == Cardinality(Left(s))
  <1>1. n \in Nat /\ "." \in Segments /\ "." \notin Names
    BY LenProperties, NamesAssumption DEF Segments
  <1>2. t \in Seq(Segments) /\ Len(t) = n + 1 /\ \A k \in 1 .. n : t[k] = s[k]
    BY <1>1, AppendProperties
  <1>3. Left(t) = Left(s)
    <2>1. \A i \in Left(s) : /\ i \in 1 .. n /\ Count(s, i + 1, n, {".."}) <= Count(s, i + 1, n, Names)
                             /\ Count(s, i + 1, n, {".."}) \in Nat /\ Count(s, i + 1, n, Names) \in Nat
      BY <1>1, LeftBalance, CountType
    <2>2. /\ \A i \in 1 .. n : i \in Left(t) <=>
              /\ i \in Left(s)
              /\ Count(s, i + 1, n, {".."}) + 0 <= Count(s, i + 1, n, Names) + 0
          /\ n + 1 \notin Left(t)
          /\ \A i \in Left(t) : i \in 1 .. n + 1
      BY <1>1, LeftLast
    <2>3. \A i \in Left(s) : Count(s, i + 1, n, {".."}) + 0 <= Count(s, i + 1, n, Names) + 0
      BY <2>1
    <2>4. \A i \in 1 .. n + 1 : i \in 1 .. n \/ i = n + 1
      BY <1>1
    <2> HIDE DEF t, n
    <2> QED
      BY <2>1, <2>2, <2>3, <2>4
  <1>4. \A k \in 1 .. c : t[Nth(Left(s), k)] = s[Nth(Left(s), k)]
    BY <1>2, MeaningIs
  <1>5. Meaning(t) = [k \in 1 .. c |-> t[Nth(Left(s), k)]]
    BY <1>3 DEF Meaning
  <1>6. Meaning(s) = [k \in 1 .. c |-> s[Nth(Left(s), k)]]
    BY DEF Meaning
  <1> QED
    BY <1>4, <1>5, <1>6

\* A `..` more.
LEMMA MeaningOfBack ==
  ASSUME NEW s \in Seq(Segments)
  PROVE  Meaning(Append(s, "..")) = Back(Meaning(s))
  <1> DEFINE t == Append(s, "..")
             n == Len(s)
             c == Cardinality(Left(t))
             a == Meaning(s)
             b == SubSeq(a, 1, c)
  <1>1. n \in Nat /\ ".." \in Segments /\ ".." \notin Names
    BY LenProperties, NamesAssumption DEF Segments
  <1>2. t \in Seq(Segments) /\ Len(t) = n + 1 /\ \A k \in 1 .. n : t[k] = s[k]
    BY <1>1, AppendProperties
  <1>3. /\ Meaning(t) \in Seq(Names) /\ Len(Meaning(t)) = c
        /\ \A k \in 1 .. c : Meaning(t)[k] = t[Nth(Left(t), k)]
    <2> HIDE DEF t
    <2> QED
      BY <1>2, MeaningIs
  <1>4. /\ a \in Seq(Names) /\ Len(a) = Cardinality(Left(s))
        /\ \A k \in 1 .. Cardinality(Left(s)) : a[k] = s[Nth(Left(s), k)] /\ Nth(Left(s), k) \in 1 .. n
    BY MeaningIs
  <1>5. CASE Left(s) = {}
    <2>1. Left(t) = {}
      <3>1. \A i \in Left(t) : i \in 1 .. n + 1 /\ i # n + 1 /\ (i \in 1 .. n => i \in Left(s))
        BY <1>1, LeftLast
      <3> HIDE DEF t, n
      <3> QED
        BY <1>1, <1>5, <3>1
    <2>2. Len(a) = 0 /\ Len(Meaning(t)) = 0
      BY <1>3, <1>4, <1>5, <2>1, FS_EmptySet
    <2>3. a = << >> /\ Meaning(t) = << >>
      <3> HIDE DEF a, t
      <3> QED
        BY <1>3, <1>4, <2>2, EmptySeq
    <2> QED
      BY <2>3 DEF Back
  <1>6. CASE Left(s) # {}
    <2>1. PICK m \in Left(s) : \A i \in Left(s) : i <= m
      <3>1. Left(s) \subseteq 0 .. n
        BY <1>1, LeftIs
      <3> QED
        BY <1>1, <1>6, <3>1, Largest
    <2>2. Left(t) = Left(s) \ {m}
      BY <2>1, LeftBack
    <2>3. Finite(Left(t)) /\ m \in Nat /\ \A i \in Left(t) : i < m
      <3>1. Finite(Left(t)) /\ Finite(Left(s))
        <4> HIDE DEF t
        <4> QED
          BY <1>2, LeftFinite
      <3>2. \A i \in Left(s) : i \in Nat
        BY <3>1 DEF Finite
      <3> HIDE DEF t
      <3> QED
        BY <2>1, <2>2, <3>1, <3>2
    <2>4. Left(s) = Left(t) \cup {m}
      BY <2>2
    <2>5. /\ c \in Nat /\ Cardinality(Left(s)) = c + 1
          /\ \A k \in 1 .. c : Nth(Left(s), k) = Nth(Left(t), k)
      <3>1. c = Cardinality(Left(t))
        OBVIOUS
      <3> HIDE DEF t, c
      <3>2. AddsLast(Left(t), m, Left(s))
        BY <2>3, <2>4 DEF AddsLast
      <3> QED
        BY <3>1, <3>2, OneMoreNumber
    <2>6. b \in Seq(Names) /\ Len(b) = c /\ \A k \in 1 .. c : b[k] = a[k]
      <3>1. \A k \in 1 .. c : a[k] \in Names
        <4> HIDE DEF a, c
        <4> QED
          BY <1>4, <2>5, ElementOfSeq
      <3>2. c \in Int /\ 1 \in Int
        BY <2>5
      <3> HIDE DEF a, c
      <3>3. /\ b \in Seq(Names) /\ Len(b) = IF 1 <= c THEN c - 1 + 1 ELSE 0
            /\ \A k \in 1 .. c - 1 + 1 : b[k] = a[1 + k - 1]
        BY <3>1, <3>2, SubSeqProperties
      <3> HIDE DEF b
      <3> QED
        BY <2>5, <3>3
    <2>7. \A k \in 1 .. c : Meaning(t)[k] = b[k]
      <3> TAKE k \in 1 .. c
      <3> HIDE DEF t, n, c, a, b
      <3>1. k \in 1 .. Cardinality(Left(s))
        BY <2>5
      <3>2. a[k] = s[Nth(Left(s), k)] /\ Nth(Left(s), k) \in 1 .. n
        BY <1>4, <3>1
      <3>3. Meaning(t)[k] = t[Nth(Left(s), k)] /\ b[k] = a[k]
        BY <1>3, <2>5, <2>6
      <3> QED
        BY <1>2, <3>2, <3>3
    <2>8. Meaning(t) = b
      <3> HIDE DEF t, c, b
      <3> QED
        BY <1>3, <2>6, <2>7, SeqEqual
    <2>9. Back(a) = b
      <3>1. Len(a) - 1 = c /\ a # << >>
        <4> HIDE DEF a, c
        <4> QED
          BY <1>4, <2>5
      <3> HIDE DEF a, c
      <3> QED
        BY <3>1 DEF Back
    <2> QED
      BY <2>8, <2>9
  <1> QED
    BY <1>5, <1>6

\* The meaning with one segment more is what Walk makes of the meaning so far.
LEMMA MeaningWalks ==
  ASSUME NEW s \in Seq(Segments), NEW x \in Segments
  PROVE  Meaning(Append(s, x)) = Walk(Meaning(s), x)
  <1>1. CASE x = ".."
    BY <1>1, MeaningOfBack DEF Walk
  <1>2. CASE x = "."
    BY <1>2, MeaningOfDot DEF Walk
  <1>3. CASE x \in Names
    BY <1>3, MeaningOfName, NamesAssumption DEF Walk
  <1> QED
    BY <1>1, <1>2, <1>3 DEF Segments
-----------------------------------------------------------------------------
(* path_resolve gives the meaning. *)

\* A path, one segment after another.
LEMMA PrefixIs ==
  ASSUME NEW s \in Seq(Segments)
  PROVE  /\ \A i \in 0 .. Len(s) : Prefix(s, i) \in Seq(Segments)
         /\ \A i \in 1 .. Len(s) : Prefix(s, i) = Append(Prefix(s, i - 1), s[i]) /\ s[i] \in Segments
         /\ Prefix(s, 0) = << >> /\ Prefix(s, Len(s)) = s
  <1>1. Len(s) \in Nat
    BY LenProperties
  <1>2. ASSUME NEW i \in 0 .. Len(s)
        PROVE  Prefix(s, i) \in Seq(Segments)
    <2>1. i \in Int /\ 1 \in Int /\ \A k \in 1 .. i : s[k] \in Segments
      BY <1>1, ElementOfSeq
    <2>2. SubSeq(s, 1, i) \in Seq(Segments)
      BY <2>1, SubSeqProperties
    <2> QED
      BY <2>2 DEF Prefix
  <1>3. ASSUME NEW i \in 1 .. Len(s)
        PROVE  Prefix(s, i) = Append(Prefix(s, i - 1), s[i]) /\ s[i] \in Segments
    <2>1. s[i] \in Segments /\ i - 1 \in 0 .. Len(s) /\ 1 \in 1 .. Len(s) /\ i \in 1 .. Len(s)
      BY <1>1, ElementOfSeq
    <2>2. Prefix(s, i) = Prefix(s, i - 1) \o <<s[i]>>
      BY <2>1, SubSeqRecursiveSecond DEF Prefix
    <2>3. Append(Prefix(s, i - 1), s[i]) = Prefix(s, i - 1) \o <<s[i]>>
      BY <1>2, <2>1, AppendIsConcat
    <2> QED
      BY <2>1, <2>2, <2>3
  <1>4. Prefix(s, 0) = << >>
    BY SubSeqEmpty DEF Prefix
  <1>5. Prefix(s, Len(s)) = s
    BY SubSeqFull DEF Prefix
  <1> QED
    BY <1>2, <1>3, <1>4, <1>5

\* No segments mean the root.
LEMMA NoMeaning == Meaning(<< >>) = << >>
  <1>1. << >> \in Seq(Segments) /\ Len(<< >>) = 0
    BY EmptySeq
  <1>2. Left(<< >>) = {}
    <2> DEFINE none == << >>
    <2>1. none \in Seq(Segments) /\ Len(none) = 0
      BY <1>1
    <2> HIDE DEF none
    <2>2. \A i \in Left(none) : i \in 1 .. 0
      BY <2>1, LeftIs
    <2>3. Left(none) = {}
      BY <2>2
    <2> QED
      BY <2>3 DEF none
  <1>3. Meaning(<< >>) \in Seq(Names) /\ Len(Meaning(<< >>)) = 0
    BY <1>1, <1>2, MeaningIs, FS_EmptySet
  <1> QED
    BY <1>3, EmptySeq

\* The meaning of a path so far is a walk of the one before.
LEMMA MeaningOfPrefix ==
  ASSUME NEW s \in Seq(Segments), NEW i \in 1 .. Len(s)
  PROVE  Meaning(Prefix(s, i)) = Walk(Meaning(Prefix(s, i - 1)), s[i])
  <1>1. Len(s) \in Nat
    BY LenProperties
  <1>2. i - 1 \in 0 .. Len(s)
    BY <1>1
  <1>3. Prefix(s, i - 1) \in Seq(Segments) /\ s[i] \in Segments
        /\ Prefix(s, i) = Append(Prefix(s, i - 1), s[i])
    BY <1>2, PrefixIs
  <1> QED
    BY <1>3, MeaningWalks

\* What path_resolve keeps after each segment is the meaning so far.
LEMMA KeptIs ==
  ASSUME NEW s \in Seq(Segments)
  PROVE  Kept(s) = [i \in 0 .. Len(s) |-> Meaning(Prefix(s, i))]
  <1> DEFINE n == Len(s)
             Step(f) == [i \in 0 .. n |-> IF i = 0 THEN << >> ELSE Walk(f[i - 1], s[i])]
             g == [i \in 0 .. n |-> Meaning(Prefix(s, i))]
  <1>1. n \in Nat
    BY LenProperties
  <1>2. g[0] = << >>
    BY <1>1, PrefixIs, NoMeaning
  <1>3. \A i \in 1 .. n : g[i] = Walk(g[i - 1], s[i])
    <2> TAKE i \in 1 .. n
    <2>1. i - 1 \in 0 .. n /\ i \in 0 .. n
      BY <1>1
    <2>2. Meaning(Prefix(s, i)) = Walk(Meaning(Prefix(s, i - 1)), s[i])
      BY MeaningOfPrefix
    <2> QED
      BY <2>1, <2>2
  <1>4. g = Step(g)
    <2>1. \A i \in 0 .. n : g[i] = IF i = 0 THEN << >> ELSE Walk(g[i - 1], s[i])
      <3> TAKE i \in 0 .. n
      <3>1. i = 0 \/ i \in 1 .. n
        BY <1>1
      <3> HIDE DEF g, n
      <3> QED
        BY <1>2, <1>3, <3>1
    <2> HIDE DEF n
    <2> QED
      BY <2>1
  <1>5. ASSUME NEW f, f = Step(f)
        PROVE  f = g
    <2> DEFINE S == {i \in Nat : i <= n => f[i] = g[i]}
    <2>0. /\ f = [i \in 0 .. n |-> f[i]]
          /\ \A i \in 0 .. n : f[i] = IF i = 0 THEN << >> ELSE Walk(f[i - 1], s[i])
      BY <1>5
    <2> HIDE DEF g
    <2>1. 0 \in S
      <3>1. f[0] = << >>
        BY <1>1, <2>0
      <3> QED
        BY <1>2, <3>1
    <2>2. ASSUME NEW i \in Nat, i \in S
          PROVE  i + 1 \in S
      <3> SUFFICES ASSUME i + 1 <= n PROVE f[i + 1] = g[i + 1]
        OBVIOUS
      <3>1. i + 1 \in 1 .. n /\ i + 1 \in 0 .. n /\ (i + 1) - 1 = i /\ i + 1 # 0 /\ i <= n
        BY <1>1
      <3>2. f[i] = g[i]
        BY <2>2, <3>1
      <3>3. f[i + 1] = Walk(f[i], s[i + 1])
        BY <2>0, <3>1
      <3>4. g[i + 1] = Walk(g[i], s[i + 1])
        BY <1>3, <3>1
      <3> QED
        BY <3>2, <3>3, <3>4
    <2>3. \A i \in Nat : i \in S
      <3> HIDE DEF S
      <3> QED
        BY <2>1, <2>2, Induction
    <2>4. \A i \in 0 .. n : f[i] = g[i]
      BY <1>1, <2>3
    <2> QED
      BY <2>0, <2>4 DEF g
  <1>6. Kept(s) = CHOOSE f : f = Step(f)
    BY DEF Kept
  <1> HIDE DEF g, Step
  <1>7. Kept(s) = Step(Kept(s))
    BY <1>4, <1>6
  <1>8. Kept(s) = g
    BY <1>5, <1>7
  <1> QED
    BY <1>8 DEF g, n

\* The names of a path without dots are all left.
LEMMA MeaningOfNames ==
  ASSUME NEW s \in Seq(Names)
  PROVE  s \in Seq(Segments) /\ Meaning(s) = s
  <1> DEFINE S == {i \in Nat : i <= Len(s) => Meaning(Prefix(s, i)) = Prefix(s, i)}
  <1>1. s \in Seq(Segments) /\ Len(s) \in Nat /\ \A i \in 1 .. Len(s) : s[i] \in Names
    <2>1. Names \subseteq Segments
      BY DEF Segments
    <2> QED
      BY <2>1, SeqMonotonic, LenProperties, ElementOfSeq
  <1>2. 0 \in S
    BY <1>1, PrefixIs, NoMeaning
  <1>3. ASSUME NEW i \in Nat, i \in S
        PROVE  i + 1 \in S
    <2> SUFFICES ASSUME i + 1 <= Len(s) PROVE Meaning(Prefix(s, i + 1)) = Prefix(s, i + 1)
      OBVIOUS
    <2>1. i + 1 \in 1 .. Len(s) /\ (i + 1) - 1 = i /\ i <= Len(s)
      BY <1>1
    <2>2. Meaning(Prefix(s, i)) = Prefix(s, i)
      BY <1>3, <2>1
    <2> DEFINE k == i + 1
    <2>3. k \in 1 .. Len(s) /\ k - 1 = i /\ s[k] \in Names
      BY <1>1, <2>1
    <2> HIDE DEF k
    <2>4. Meaning(Prefix(s, k)) = Walk(Meaning(Prefix(s, k - 1)), s[k])
      BY <1>1, <2>3, MeaningOfPrefix
    <2>5. Prefix(s, k) = Append(Prefix(s, k - 1), s[k])
      BY <1>1, <2>3, PrefixIs
    <2>6. s[k] # ".." /\ s[k] # "."
      BY <2>3, NamesAssumption
    <2>7. Walk(Meaning(Prefix(s, k - 1)), s[k]) = Append(Meaning(Prefix(s, k - 1)), s[k])
      BY <2>6 DEF Walk
    <2> QED
      BY <2>2, <2>3, <2>4, <2>5, <2>7 DEF k
  <1>4. Len(s) \in S
    <2> HIDE DEF S
    <2> QED
      BY <1>1, <1>2, <1>3, Induction
  <1>5. Prefix(s, Len(s)) = s
    BY <1>1, PrefixIs
  <1> QED
    BY <1>1, <1>4, <1>5

\* What the local function of Characters does at one step.
SumStep(s, f, i) == IF i = 0 THEN 0 ELSE f[i - 1] + Length(s[i])

\* A segment has a character at least.
LEMMA LengthType ==
  ASSUME NEW x \in Segments
  PROVE  Length(x) \in Nat /\ Length(x) >= 1
  <1>1. CASE x \in Names
    <2>1. x # ".." /\ x # "." /\ NameLength[x] \in Nat \ {0}
      BY <1>1, NamesAssumption
    <2> QED
      BY <2>1 DEF Length
  <1>2. CASE x \notin Names
    BY <1>2 DEF Segments, Length
  <1> QED
    BY <1>1, <1>2

SumsUpto(s, n) == \E f \in [0 .. n -> Nat] : \A i \in 0 .. n : f[i] = SumStep(s, f, i)

\* The sum of Characters exists.
LEMMA SumDefined ==
  ASSUME NEW s \in Seq(Segments)
  PROVE  SumsUpto(s, Len(s))
  <1> DEFINE S == {n \in Nat : n <= Len(s) => SumsUpto(s, n)}
  <1>1. Len(s) \in Nat /\ \A i \in 1 .. Len(s) : Length(s[i]) \in Nat
    BY LenProperties, ElementOfSeq, LengthType
  <1>2. 0 \in S
    <2> DEFINE f == [i \in 0 .. 0 |-> 0]
    <2>1. f \in [0 .. 0 -> Nat] /\ \A i \in 0 .. 0 : f[i] = SumStep(s, f, i)
      BY DEF SumStep
    <2> QED
      BY <2>1 DEF SumsUpto
  <1>3. ASSUME NEW n \in Nat, n \in S
        PROVE  n + 1 \in S
    <2> SUFFICES ASSUME n + 1 <= Len(s) PROVE SumsUpto(s, n + 1)
      OBVIOUS
    <2>1. PICK f \in [0 .. n -> Nat] : \A i \in 0 .. n : f[i] = SumStep(s, f, i)
      <3>1. SumsUpto(s, n)
        BY <1>1, <1>3
      <3> QED
        BY <3>1 DEF SumsUpto
    <2> DEFINE g == [i \in 0 .. n + 1 |-> IF i <= n THEN f[i] ELSE f[n] + Length(s[n + 1])]
    <2>2. n + 1 \in 1 .. Len(s) /\ f[n] + Length(s[n + 1]) \in Nat
      BY <1>1
    <2>3. g \in [0 .. n + 1 -> Nat]
      BY <2>2
    <2>4. \A i \in 0 .. n : g[i] = f[i]
      OBVIOUS
    <2>5. \A i \in 0 .. n : g[i] = SumStep(s, g, i)
      <3> TAKE i \in 0 .. n
      <3>1. i # 0 => i - 1 \in 0 .. n
        OBVIOUS
      <3>2. SumStep(s, g, i) = SumStep(s, f, i)
        BY <2>4, <3>1 DEF SumStep
      <3> HIDE DEF g
      <3> QED
        BY <2>1, <2>4, <3>2
    <2>6. g[n + 1] = SumStep(s, g, n + 1)
      <3>1. g[n + 1] = f[n] + Length(s[n + 1]) /\ n + 1 # 0 /\ (n + 1) - 1 = n /\ g[n] = f[n]
        OBVIOUS
      <3> HIDE DEF g
      <3> QED
        BY <3>1 DEF SumStep
    <2>7. \A i \in 0 .. n + 1 : g[i] = SumStep(s, g, i)
      <3>1. \A i \in 0 .. n + 1 : i \in 0 .. n \/ i = n + 1
        OBVIOUS
      <3> HIDE DEF g
      <3> QED
        BY <2>5, <2>6, <3>1
    <2> HIDE DEF g
    <2> QED
      BY <2>3, <2>7 DEF SumsUpto
  <1> HIDE DEF S
  <1>4. Len(s) \in S
    BY <1>1, <1>2, <1>3, Induction
  <1> QED
    BY <1>1, <1>4 DEF S

\* Every segment has a character at least.
LEMMA CharactersAre ==
  ASSUME NEW s \in Seq(Segments)
  PROVE  Characters(s) \in Nat /\ Characters(s) >= Len(s) /\ (Len(s) = 0 => Characters(s) = 0)
  <1> DEFINE n == Len(s)
             Step(f) == [i \in 0 .. n |-> IF i = 0 THEN 0 ELSE f[i - 1] + Length(s[i])]
             h == CHOOSE f : f = Step(f)
             S == {i \in Nat : i <= n => h[i] \in Nat /\ h[i] >= i}
  <1>1. n \in Nat /\ \A i \in 1 .. n : Length(s[i]) \in Nat /\ Length(s[i]) >= 1
    BY LenProperties, ElementOfSeq, LengthType
  <1>2. Characters(s) = h[n]
    BY DEF Characters
  <1>3. \E f : f = Step(f)
    <2>1. PICK f \in [0 .. n -> Nat] : \A i \in 0 .. n : f[i] = SumStep(s, f, i)
      BY SumDefined DEF SumsUpto
    <2>2. f = [i \in 0 .. n |-> f[i]]
      OBVIOUS
    <2>3. f = Step(f)
      BY <2>1, <2>2 DEF SumStep
    <2> HIDE DEF Step
    <2> QED
      BY <2>3
  <1>4. h = Step(h)
    <2> HIDE DEF Step
    <2> QED
      BY <1>3
  <1>5. \A i \in 0 .. n : h[i] = IF i = 0 THEN 0 ELSE h[i - 1] + Length(s[i])
    <2> HIDE DEF h, n
    <2> QED
      BY <1>4
  <1> HIDE DEF h, n
  <1>6. h[0] = 0
    BY <1>1, <1>5
  <1>7. 0 \in S
    BY <1>6
  <1>8. ASSUME NEW i \in Nat, i \in S
        PROVE  i + 1 \in S
    <2> SUFFICES ASSUME i + 1 <= n PROVE h[i + 1] \in Nat /\ h[i + 1] >= i + 1
      OBVIOUS
    <2>1. i + 1 \in 1 .. n /\ i + 1 \in 0 .. n /\ i + 1 # 0 /\ (i + 1) - 1 = i /\ i <= n
      BY <1>1
    <2>2. h[i + 1] = h[i] + Length(s[i + 1])
      BY <1>5, <2>1
    <2>3. h[i] \in Nat /\ h[i] >= i
      BY <1>8, <2>1
    <2>4. Length(s[i + 1]) \in Nat /\ Length(s[i + 1]) >= 1
      BY <1>1, <2>1
    <2> QED
      BY <2>2, <2>3, <2>4
  <1>9. n \in S
    <2> HIDE DEF S
    <2> QED
      BY <1>1, <1>7, <1>8, Induction
  <1> QED
    BY <1>1, <1>2, <1>6, <1>9 DEF n

\* The length of a path is a number.
LEMMA PathLengthType ==
  ASSUME NEW s \in Seq(Names)
  PROVE  PathLength(s) \in Nat
  <1>1. s \in Seq(Segments) /\ Len(s) \in Nat
    BY MeaningOfNames, LenProperties
  <1>2. Characters(s) \in Nat
    BY <1>1, CharactersAre
  <1> QED
    BY <1>1, <1>2 DEF PathLength

\* The empty argument alone has no characters.
LEMMA NoCharacters ==
  ASSUME NEW in \in Arguments
  PROVE  /\ ArgumentLength(in) \in Nat /\ in.segs \in Seq(Segments)
         /\ ArgumentLength(in) = 0 <=> in.segs = << >> /\ ~in.abs
  <1>1. in.segs \in Seq(Segments) /\ in.abs \in BOOLEAN
    BY DEF Arguments, Segments
  <1>2. Len(in.segs) \in Nat /\ (Len(in.segs) = 0 <=> in.segs = << >>)
    BY <1>1, EmptySeq, LenProperties
  <1>3. /\ Characters(in.segs) \in Nat /\ Characters(in.segs) >= Len(in.segs)
        /\ (Len(in.segs) = 0 => Characters(in.segs) = 0)
    BY <1>1, CharactersAre
  <1> QED
    BY <1>1, <1>2, <1>3 DEF ArgumentLength

\* What is joined, and what is kept of it.
LEMMA JoinedIs ==
  ASSUME NEW cwd \in Seq(Names), NEW in \in Arguments, NEW segs,
         segs = IF in.abs THEN in.segs ELSE cwd \o in.segs
  PROVE  segs \in Seq(Segments) /\ (ArgumentLength(in) = 0 => segs = cwd)
  <1>1. cwd \in Seq(Segments) /\ in.segs \in Seq(Segments)
    BY MeaningOfNames, NoCharacters
  <1>2. cwd \o in.segs \in Seq(Segments)
    BY <1>1, ConcatProperties
  <1>3. ASSUME ArgumentLength(in) = 0
        PROVE  segs = cwd
    <2>1. in.segs = << >> /\ ~in.abs
      BY <1>3, NoCharacters
    <2>2. cwd \o << >> = cwd
      BY ConcatEmptySeq
    <2> QED
      BY <2>1, <2>2
  <1> QED
    BY <1>1, <1>2, <1>3

\* The segments kept on the way fit the table exactly when their meanings do.
LEMMA TableFits ==
  ASSUME NEW s \in Seq(Segments)
  PROVE  /\ (\A i \in 0 .. Len(s) : Len(Kept(s)[i]) <= MaxSegments) <=>
              ~ \E n \in 1 .. Len(s) : Len(Meaning(Prefix(s, n))) > MaxSegments
         /\ Kept(s)[Len(s)] = Meaning(s)
         /\ Meaning(s) \in Seq(Names)
  <1>1. Len(s) \in Nat /\ MaxSegments \in Nat
    BY LenProperties, NamesAssumption
  <1>2. \A i \in 0 .. Len(s) : Kept(s)[i] = Meaning(Prefix(s, i))
    BY KeptIs
  <1>3. \A i \in 0 .. Len(s) : Len(Meaning(Prefix(s, i))) \in Nat
    <2> TAKE i \in 0 .. Len(s)
    <2>1. Prefix(s, i) \in Seq(Segments)
      BY PrefixIs
    <2>2. Meaning(Prefix(s, i)) \in Seq(Names)
      BY <2>1, MeaningIs
    <2> QED
      BY <2>2, LenProperties
  <1>4. Len(Meaning(Prefix(s, 0))) = 0
    BY PrefixIs, NoMeaning, EmptySeq
  <1>5. Kept(s)[Len(s)] = Meaning(s)
    <2>1. Len(s) \in 0 .. Len(s)
      BY <1>1
    <2> QED
      BY <1>2, <2>1, PrefixIs
  <1>6. \A i \in 0 .. Len(s) : i = 0 \/ i \in 1 .. Len(s)
    BY <1>1
  <1>7. \A i \in 1 .. Len(s) : i \in 0 .. Len(s)
    BY <1>1
  <1> DEFINE l(i) == Len(Meaning(Prefix(s, i)))
  <1>8. (\A i \in 0 .. Len(s) : l(i) <= MaxSegments) <=> ~ \E n \in 1 .. Len(s) : l(n) > MaxSegments
    <2>1. \A i \in 0 .. Len(s) : l(i) \in Nat
      BY <1>3
    <2>2. l(0) = 0
      BY <1>4
    <2> HIDE DEF l
    <2> QED
      BY <1>1, <1>6, <1>7, <2>1, <2>2
  <1> QED
    BY <1>2, <1>5, <1>8, MeaningIs

\* path_resolve gives the meaning or, for one of its limits, nothing.
LEMMA ResolvesOne ==
  ASSUME NEW cwd \in Seq(Names), NEW in \in Arguments, NEW room \in Nat
  PROVE  Right(cwd, in, room) /\ path_resolve(cwd, in, room).path \in Seq(Names)
  <1> DEFINE segs == IF in.abs THEN in.segs ELSE cwd \o in.segs
             meant == Meaning(segs)
             got == path_resolve(cwd, in, room)
             long == (IF in.abs THEN 0 ELSE PathLength(cwd) + 1) + ArgumentLength(in)
             length == IF in.abs THEN ArgumentLength(in) ELSE PathLength(cwd) + 1 + ArgumentLength(in)
             path == IF ArgumentLength(in) = 0 THEN cwd ELSE Kept(segs)[Len(segs)]
             table == \A i \in 0 .. Len(segs) : Len(Kept(segs)[i]) <= MaxSegments
             deep == \E n \in 1 .. Len(segs) : Len(Meaning(Prefix(segs, n))) > MaxSegments
             fits == /\ PathLength(path) < room
                     /\ ArgumentLength(in) = 0 \/ (length < CombinedSize /\ table)
  <1>1. got = IF fits THEN [ok |-> TRUE, path |-> path] ELSE Failed
    BY DEF path_resolve
  <1>2. TooMuch(cwd, in, segs) <=> (in.segs # << >> \/ in.abs) /\ (long >= CombinedSize \/ deep)
    BY DEF TooMuch
  <1>3. Right(cwd, in, room) <=> IF TooMuch(cwd, in, segs) \/ PathLength(meant) >= room
                                 THEN ~got.ok
                                 ELSE got.ok /\ got.path = meant
    BY DEF Right
  <1>4. segs \in Seq(Segments) /\ (ArgumentLength(in) = 0 => segs = cwd)
    BY JoinedIs
  <1> HIDE DEF segs, got
  <1>5. (table <=> ~deep) /\ Kept(segs)[Len(segs)] = meant /\ meant \in Seq(Names)
    BY <1>4, TableFits
  <1>6. path = meant
    BY <1>4, <1>5, MeaningOfNames
  <1> HIDE DEF meant, path, table, deep
  <1>7. PathLength(meant) \in Nat /\ PathLength(cwd) \in Nat /\ CombinedSize \in Nat
    BY <1>5, PathLengthType, NamesAssumption
  <1>8. /\ ArgumentLength(in) \in Nat
        /\ ArgumentLength(in) = 0 <=> ~(in.segs # << >> \/ in.abs)
    BY NoCharacters
  <1>9. length = long /\ length \in Nat
    BY <1>7, <1>8
  <1> HIDE DEF length, long
  <1>10. fits <=> ~(TooMuch(cwd, in, segs) \/ PathLength(meant) >= room)
    BY <1>2, <1>5, <1>6, <1>7, <1>8, <1>9
  <1> HIDE DEF fits
  <1>11. << >> \in Seq(Names)
    BY EmptySeq
  <1> QED
    BY <1>1, <1>3, <1>5, <1>6, <1>10, <1>11 DEF got, Failed

AllRight(cwd) ==
  \A in \in Inputs \cup MoreInputs, room \in {CwdSize, PathSize} : Right(cwd, in, room)

\* What ResolvesRight says of a working directory holds of each one that is a path.
LEMMA ResolvesEach ==
  ASSUME NEW cwd \in Seq(Names)
  PROVE  AllRight(cwd)
  <1>1. (\A in \in Inputs \cup MoreInputs : in \in Arguments) /\ CwdSize \in Nat /\ PathSize \in Nat
    <2>1. Inputs \cup MoreInputs \subseteq Arguments
      BY InputsAssumption, Zenon DEF InputsAssumption
    <2>2. CwdSize \in Nat /\ PathSize \in Nat
      BY FilesAssumption
    <2> HIDE DEF Arguments
    <2> QED
      BY <2>1, <2>2
  <1>2. \A in \in Inputs \cup MoreInputs, room \in {CwdSize, PathSize} : Right(cwd, in, room)
    <2> TAKE in \in Inputs \cup MoreInputs, room \in {CwdSize, PathSize}
    <2>1. in \in Arguments /\ room \in Nat
      BY <1>1
    <2> QED
      BY <2>1, ResolvesOne
  <1> QED
    BY <1>2 DEF AllRight

-----------------------------------------------------------------------------
(* The working directory. *)

\* SHELL_HOME is a path.
LEMMA HomeIsPath == SHELL_HOME \in Seq(Names)
  BY FilesAssumption DEF Mounts, SHELL_HOME

\* The working directory stays a path: cd takes what path_resolve gives it, and the
\* shell starts at home.
LEMMA CwdStep ==
  ASSUME s_cwd \in Seq(Names), [Next]_vars
  PROVE  s_cwd' \in Seq(Names)
  <1>1. ASSUME NEW in \in Inputs \cup {[abs |-> TRUE, segs |-> SHELL_HOME]}, cmd_cd(in)
        PROVE  s_cwd' \in Seq(Names)
    <2> DEFINE target == path_resolve(s_cwd, in, CwdSize)
    <2>1. s_cwd' = IF target.ok /\ IsDir(target.path) THEN target.path ELSE s_cwd
      BY <1>1 DEF cmd_cd
    <2>2. in \in Arguments
      <3>1. Names \subseteq Names \cup {".", ".."}
        OBVIOUS
      <3>2. SHELL_HOME \in Seq(Names \cup {".", ".."})
        BY <3>1, HomeIsPath, SeqMonotonic
      <3>3. [abs |-> TRUE, segs |-> SHELL_HOME] \in Arguments
        BY <3>2 DEF Arguments
      <3> QED
        BY <3>3, FilesAssumption
    <2>3. target.path \in Seq(Names)
      <3>1. CwdSize \in Nat
        BY FilesAssumption
      <3> QED
        BY <2>2, <3>1, ResolvesOne
    <2> HIDE DEF target
    <2> QED
      BY <2>1, <2>3
  <1>2. ASSUME ShellStarts
        PROVE  s_cwd' \in Seq(Names)
    BY <1>2, HomeIsPath DEF ShellStarts
  <1>3. CASE UNCHANGED s_cwd
    BY <1>3
  <1>4. CASE FileStep
    BY <1>1, <1>3, <1>4 DEF FileStep, cmd_write, cmd_cp, cmd_rm, cmd_mkdir, OpenFails, Fill,
       FillFails, Close, Refuses, Opens
  <1>5. CASE OtaStep
    BY <1>2, <1>3, <1>5 DEF OtaStep, OtaOpen, OtaWrite, OtaWriteFails, OtaEnd, OtaSwitch,
       OtaSwitchFails, cmd_ota_confirm, cmd_ota_rollback, cmd_reboot, Boot, Crash, app_main,
       app_main_unconfirmed, PowerLoss, Refuses
  <1>6. CASE UNCHANGED vars
    BY <1>3, <1>6 DEF vars, fileVars
  <1> QED
    BY <1>4, <1>5, <1>6 DEF Next

\* In every working directory that cd comes to, path_resolve gives each argument its
\* meaning, never a name below the root or a dot, and refuses it only for a limit.
THEOREM ResolvesAll == Spec => ResolvesRight
  <1> DEFINE CwdIsPath == s_cwd \in Seq(Names)
  <1>1. Init => CwdIsPath
    BY HomeIsPath DEF Init, InitFiles
  <1>2. CwdIsPath /\ [Next]_vars => CwdIsPath'
    BY CwdStep
  <1>3. CwdIsPath' => [s_cwd' # s_cwd =>
                         \A in \in Inputs \cup MoreInputs, room \in {CwdSize, PathSize} :
                           Right(s_cwd', in, room)]_s_cwd
    <2> SUFFICES ASSUME CwdIsPath' PROVE AllRight(s_cwd')
      BY DEF AllRight
    <2> QED
      BY ResolvesEach
  <1> HIDE DEF CwdIsPath
  <1> QED
    BY <1>1, <1>2, <1>3, PTL DEF Spec, ResolvesRight
=============================================================================
