# TLA+ models of the microcontroller playground

This directory holds TLA+ models of the parts of this repository that keep state, the
TLC configurations that check them on small instances, and TLAPS proofs of their main
invariants for every value of their constants. `PROJECT.json` maps every definition to
the source lines it stands for.

    tlc -workers 2 -config MCFaceHook.cfg MCFaceHook     # a run
    tlapm FaceHook_proofs.tla                            # the proofs of a module

## 1. The system

The repository holds two programs with real state and some tools around them; the other
experiments are bring-up programs of one screen.

    coding agent --event--> face-hook.py --spool file--> pusher --USB--> board (pico-face)
                                                           |            NuttX shell
                            board-mcp.py  --------USB------+            `face <word>` --/tmp--> render loop

    user --UART--> espidf-sdcard: one shell task, runs one command at a time
                      files, wget, ota_update on FAT and LittleFS; editor; Wi-Fi
                      event loop's task: Wi-Fi and IP events

| Component | State it keeps | Operations | Talks to |
| --- | --- | --- | --- |
| Agent hook, `tools/face-hook.py` | spool file, temporary files, lock file | one process per agent event; a detached pusher per event | board through the console bridge |
| Console bridge, `tools/board-mcp.py` | lock of the port; bytes in flight | `nsh`, `face`, `status`, `show` | NuttX shell |
| Face commands, `face_main.c` | `/tmp/face`, `/tmp/face_preset` | `face <state>`, `face <preset>`, `face quit` | render loop, through the two files |
| Render loop, `face_main.c`, `face_input.c`, `face_preset.c` | settings, last buttons, expression | poll of buttons, state file, preset file; draw | panel |
| Animation, `face.c`, and change detection, `face_dirty.c` | pose and clock; hashes of the last frame | set state, tick, scan, push | render loop, benchmark, panel |
| wget, `wget.c` | staging directory, temporary file, output path | download and publish | file system, HTTP client |
| Wi-Fi shell, `main.c` | flag, semaphore, credentials in NVS | `wifi_connect`, `wifi_disconnect`, `wifi_forget`, boot | driver, event loop's task |
| Editor, `editor.c` | rows, cursor, window, modified mark, the file | every key, load, save | file system |
| OTA, `main.c` | two slots, boot choice, image states | `ota_update`, `ota_confirm`, `ota_rollback`, boot | boot loader |
| File commands and paths, `main.c`, `path_util.c` | working directory, the two file systems | `cd`, `cp`, `write`, `rm`, `mkdir`, ... | file system |
| Ping, `main.c` | a session and its semaphore | `ping`, three callbacks | task of the ping library |

What is hard about them, and what makes each of them right:

- **Agent hook.** Hooks and pushers of one session overlap freely, are killed by time
  limits and coordinate through a file, a rename and a lock. Right if the board is never
  set back to an older word, and shows the newest one in the end.
- **Face commands and loop.** Every open, write, read and unlink is a separate step, and
  several loops and commands may run. Right if each word does its work once, quit stops
  what runs and not what starts later, and settings stay in their tables.
- **Console bridge.** Servers and hooks share one port; a wait may run out of time and the
  answer come later, into somebody else's conversation; `face()` looks whether a loop runs
  and starts one in two conversations. Right if a conversation returns its own command's
  output and leaves nothing behind, and a second loop is started only for a reason.
- **wget.** Each file operation may fail, the supply may be cut between two, and the card
  may be changed by somebody else. Right if the old file or the whole new one is always
  there, nothing that is not wget's is deleted, and the exit code tells which.
- **Wi-Fi shell.** The shell and the event handler share a flag and a semaphore, and an
  event is handled long after it happened. Right if the flag tells the link's state once
  events are handled, a command answers for its own attempt, and NVS holds a pair that worked.
- **Editor.** One task, but a long sequence of keys moves four indexes about, and reads,
  writes and allocations fail half way. Right if the indexes stay inside the text, each
  key is the edit it should be, and no text is given up without a question.

- **File commands and paths.** A command may fail or lose its power half way; the card ignores
  case and the flash does not, so two paths may name one file. Right if a command changes
  the place it names and no other, says *done* only of a place that holds what it should,
  and a path means what it says in every working directory.
- **OTA.** Two slots, a boot choice, a state for each slot, a boot loader that gives an image up on its
  own, and a power loss between any two writes. Right if one slot always holds a
  firmware that has run, and a trial ends in a shell.
- **Animation and change detection.** Settings, speed and state change in the middle of a
  blend, the clock wraps, and two loops may share a tracker that was made for one. Right
  if the panel misses no change and pushes no more than it must, and the face neither jumps nor
  is left between two states.
- **Ping.** The last callback gives a semaphore that the command deletes. Right if it
  never gives a deleted one, no way out of the command leaves something behind, and the command
  always returns.

`PROJECT.json` lists the hazards with their lines and the properties that cover them.

## 2. Modules

| Module | Models | Checked by | Proved in |
| --- | --- | --- | --- |
| `LatestWord` | the promise of the hook: the board goes only to newer words | refined by `FaceHook` | |
| `FaceHook` | `face-hook.py`, all of it | `MCFaceHook.cfg` | `FaceHook_proofs` |
| `BoardConsole` | `board-mcp.py`, conversations and `face()` | `MCBoardConsole.cfg` | `BoardConsole_proofs` |
| `FaceInput` | pure part of the loop: bindings, presets, `apply()` | through `FaceLoop` | `FaceLoop_proofs` |
| `FaceLoop` | render loop and commands over `/tmp` | `MCFaceLoop.cfg`, `FaceLoopQuit.cfg` | `FaceLoop_proofs` |
| `FaceAnim` | `face.c`: poses, waves, blinks, blends | through `FaceFrame` | `FaceFrame_proofs` |
| `FaceDirty` | `face_dirty.c`: the scan | through `FaceFrame` | `FaceFrame_proofs` |
| `FaceFrame` | frames and pushes of loops and benchmarks on one framebuffer | `MCFaceFrame.cfg` | `FaceFrame_proofs` |
| `KeptFile` | the promise of wget: the old output or the whole new one | refined by `Wget` | |
| `Wget` | `wget.c`, downloads into a file | `MCWget.cfg` | `Wget_proofs` |
| `WifiShell` | Wi-Fi commands, handler, boot, NVS | `WifiShellStaleEvent.cfg`, through `NetShell` | `WifiShell_proofs` |
| `NetShell` | ping, composed with `WifiShell` | `MCNetShell.cfg` | `WifiShell_proofs` |
| `Paths` | `path_util.c` | through `Shell` | `Shell_proofs` |
| `PathMeaning` | what a path means, without a walk | `MCShell.cfg` | `Shell_proofs` |
| `FileStore` | the promise of the commands: one place changes, *done* is true | refined by `Shell` | |
| `Files` | `cd`, `write`, `cp`, `rm`, `mkdir` on the card and the flash | through `Shell` | `Shell_proofs` |
| `Ota` | `ota_*`, `reboot`, boot loader, `app_main` | through `Shell` | `Shell_proofs` |
| `Shell` | `Files` and `Ota` over the same files | `MCShell.cfg`, `ShellRollback.cfg` | `Shell_proofs` |
| `TextBuffer` | one text with a cursor: what each key of an editor means | refined by `Editor` | |
| `Editor` | `editor.c` without drawing | `MCEditor.cfg`, `EditorQuit.cfg` | `Editor_proofs` |

`MCFaceHook`, `MCFaceLoop`, `MCFaceFrame`, `MCBoardConsole`, `MCShell` and `MCEditor` hold the
sets the configurations need. Definitions below the comment `Mutant:` are faulty forms of
the definition after them; no specification uses them. They show what each property would
catch.

### FaceHook

`hookPc` is the place of a hook process in `main()` and `spool()`: *created* once
`mkstemp` has made its temporary file, *written*, *spooled* after the rename. A hook slot
can be used again, so `Hooks` bounds the hooks alive at a time, `MaxEvents` those of a
behaviour. `pushPc` is the place of a pusher in `push()`, where *reading* and *sending* are the
two ends of the loop at lines 166-177. `spool` and `temp` are the files, `lock` the
flock, which the kernel releases when its holder dies. `history`, `raced` and the
number in each stamp are history variables. Faults are kills of a hook or a pusher and a
pulled cable. Formatting, the log and the JSON answer are left out.

### BoardConsole

`pc` is the place of each process in `_converse()` and `_exchange()`, one step per call that
the port or the lock can order: waiting for the *lock*, about to *open*, waiting for the
prompt (*sync*), *reading* the answer, *close*, *unlock*. `script` is what a tool still has
to send, so that `face()` is up to four conversations with the lock free between them.
A line and what it causes carry the number of their conversation, by which the properties
tell whose output a process has read; the code sees only the text. Output arrives in chunks
of any length, a wait ends with the prompt at the end of a chunk or, at any moment, by
its time limit, and opening the port or sending drops any part of what is on its
way. The shell takes one line after the other. It is external, and so are the board's power,
its boot prompt and a terminal program that does not know the lock. Three assumptions are
made of it: one prompt for each line, no prompt text in a command's output, and a quit word
ends the loops at once (what it may miss is `FaceLoop`'s subject). `FaceHook` has this
module's conversation as its single step `PushSend`.

### FaceLoop

`pc` is the place of each loop in `run()`, one step per file operation. An iteration that
does not poll changes nothing modelled and is skipped. Opening and reading a file is one
step of the loop (the file may be unlinked between the two, which reads the same word);
truncating and writing are two steps of a command, and a word written over a longer one
is garbled. A write may fail at once or be cut off, and what a cut leaves over other text is no word (`Cut`;
that a second cut could by chance complete a word again is left out). A task that has an unlinked file open goes on with a file without a name
(`linked`). `up`, `taken`, `bootNo`, `quitNo`, `written`, `owed` are history.

### FaceFrame

Drawing a frame and scanning it is one step, `Frame`: nothing in between waits, and NuttX
switches between tasks of one priority only where one waits. A push is one step per
row, since the bus is given up between rows, and copies what is in the framebuffer at
that moment, which may be another task's frame. `FaceAnim` is the arithmetic of
`face.c` with its C division and its clock modulo `ClockSize`; the sine table, the rest
poses and the waves are constants. `FaceDirty` lets a hash stand for what it was taken of: two
rows of one hash are taken to be equal, which is the assumption `PanelFollows` rests on.
`Render` is a constant too, any function from a look, a state, a pose and a time to a frame.
`age` and `wrapped` (how long a face has been in its state, and whether its clock has wrapped since) and
`lost` (pixels whose push failed) are history.

### Wget

`pc` walks through `wget_download()` and `publish_download()`. A path holds an object
with a kind and a maker, so that a property can tell the user's file from a download and
from another party's. Whether `rename` replaces an existing file (LittleFS) or refuses
(FAT) is chosen per behaviour. Every file operation may fail up to `MaxFaults` times; a power
loss is possible between any two steps; another party makes or removes objects up to
`MaxTouches` times. A download to the console changes no file and is left out.

### WifiShell

The shell's place in `cmd_wifi_connect()` and `save_wifi_credentials()`, the handler's
place in `wifi_event_handler()`, the driver's link, the queue of events between them, the
flag, the semaphore, and the two strings in NVS with their own step each. The driver is
external: it raises and loses a link when it likes and posts its events in the order
in which they happened, which is the assumption the flag's property rests on. Tokens
carry the attempt and the command they were given in; these are history.

### NetShell

`step` is the place in `cmd_ping()`: name resolution, semaphore, session, start, the wait
without a time limit, deletion. Each ping has a number, which names its semaphore and its session, so that
a callback of one cannot be taken for one of another. The shell runs no other command
meanwhile, while the driver and the event loop go on. The library's task is external:
it calls one callback per request and `ping_on_end` after the last, whether there is an answer
or not.

### Shell: Files, Ota and Paths

A path is a sequence of names; of their characters only the number counts, for the buffers
(`CombinedSize`, `PathSize`, `CwdSize`) and the table of segments (`MaxSegments`).
`path_resolve` walks the segments as the code does; `PathMeaning` says which names survive
without a walk, by counting, and `ResolvesRight` compares the two in every directory that
`cd` comes to.

`fs` maps each of the `Places` to nothing, a directory or a file of chunks. `Key` folds the
case of names on the card. `cmd` is the command under way: where it writes, from where it reads, how
many chunks are done. A command that fills a file is one step for its opening, one
(`Fill`) for each buffer, and `Close`; a call that fails (`OpenFails`, `FillFails`) or a power loss
(`Torn`) may come between any two and leave any part of the data. Those that change the
directory in one call (`rm`, `mkdir`) and `cd` are one step. `Locked` is FatFs's refusal to open a file twice
(`CONFIG_FATFS_FS_LOCK`), by which `cp` is safe where two spellings name one file. `cmd.wanted` is
history. Places outside `Places` are not followed: a command finds nothing there and cannot create
one.

`Ota` adds the two slots, the boot record of each (`state`), the one to boot next, the one that
runs and, as history, the images whose shell has started. `ota_update` runs step by step over
the same files: open, one write per buffer (the first erases the slot), `esp_ota_end`, which
verifies the image, `esp_ota_set_boot_partition`. `Boot` is the boot loader, external as is the app_update
library: it puts a new image on trial, gives up one whose trial did not end in a
confirmation, and passes over one that does not verify. `Crash` is an image that resets the board
before `app_main` confirms it.

`store`, `job` and `said` map the state to `FileStore`, where files and slots are the same thing: a
place that one command at a time may change.

### Editor

`E` is `struct editorConfig`; a key is one action with the scroll of the refresh after
it. Loading goes chunk by chunk, as `fgets` fills its fixed buffer (`ChunkSize`); saving goes row by row and may fail at each. Allocation failures are a choice in
the edits that allocate. `Buffer` maps the rows and the two-dimensional cursor to
`TextBuffer`'s single text and single position.

## 3. Runs

| Run | Instance | Distinct states | Shows |
| --- | --- | --- | --- |
| `hook` | 2 hooks, 3 events, 1 fault, fair | 94,545 | pushers exclude each other; the spool is whole; the board never goes back; a covered word is shown; a stale board without faults comes only from one race |
| `loops` | 2 loops, 1 command, state, preset and quit words, hold; 2 writes, each of which may be cut after 1 byte, 2 starts, fair | 260,855 | types; no stale quit, no preset twice, one press one action; quit stops every loop; a loop settles on the word that stays |
| `loop_quit` | 2 loops, 1 command | violation | a starting loop takes quit from a running one |
| `frame` | 2 loops, 1 benchmark, panel 4 x 2, 2 starts, 1 failed push | 661,361 | types; the panel misses no change, pushes no more than it must, a blend neither snaps nor lasts |
| `wget` | 3 downloads, 2 touches, 2 faults | 156,585 | exit code, nothing lost, old or new, no more staging left than went wrong |
| `wifi` | 2 networks, open or not, 2 commands, 1 ping of 2 requests, 1 fault, fair | 756,857 | fresh tokens, flag, saved pair; ping gives a living semaphore and leaves nothing; every command ends |
| `wifi_stale_event` | the same without ping | violation | success may be an earlier attempt's |
| `shell` | 3 commands, 1 fault, card and flash, a good image and one that crashes, fair | 31,367 | one slot always boots; a command changes what it names and *done* is true; paths mean what they say; a trial ends |
| `ota_rollback` | 4 commands, 1 fault, two updates | violation | a rollback boots an image that has never run |
| `editor` | 1 letter, window 2 x 2, chunks of 2, up to 3 characters and line ends, 8 files | 62,470 | indexes, window, mark, loading, each key |
| `editor_quit` | 1 file | violation | a failed save, then quit without the question |
| `console` | 2 processes, 2 calls, 1 reset or terminal, symmetry | 794,367 | nobody opens a taken port; quiet between conversations; a reply is its own; a second loop has a reason |

**Bounds.** Two processes of a kind are enough for the races, which are all between a pair (a
holder and one who gives up; a loop that starts and one that runs; a handler and the
shell). A third event lets a race happen and then be repaired; two starts let one
loop start while another runs, and the proofs cover any number of both. One byte stands
for every cut of a write (`Cuts`): with one command at a time no reader can tell two cuts apart, and
the proofs cover all of them. `loops` presses hold
alone; `FaceLoop_proofs` covers every button and binding. Two calls of the console bridge
make up to six conversations, enough for the output of one that gave up to arrive in the
next. Wget needs three downloads to meet the leftovers of two failed ones, and two faults to
fail the rollback too. Two Wi-Fi commands allow a connection and one that meets its late
events; the ping may come before, between or after. The editor needs a text of two rows with
one wider than its window and a line split between two chunks; both occur with three
symbols. The letters are alike to the code, so one is enough.

`shell` has two spellings of one name, a name on both file systems, a directory on the card, a text and images of
two chunks, so that a copy and an update can each be cut half way; three commands make an
update, a rollback and an overwritten source. Six arguments are given to
the commands and fourteen more only resolved; with buffers of 20 and 10 characters and a table of 4
segments, some of them meet each limit. The whole board of `ota_rollback` needs
three images and four commands: an update that runs, one that is cut, the rollback. `frame` has a
clock of 6 ms, a blend of 3 ms and three speeds, so that the clock wraps inside a
blend and a second state comes inside another; one loop changes its state and one is at
rest, and a pose has one field, as the fields do not meet.

**Deadlock** is checked for `editor`. The other models may stop for good: their hooks,
writes, downloads, starts and commands are used up by the bounds, and all tasks of `frame`
may have stopped.

**Fairness.** `FaceHook` and `FaceLoop` have weak fairness of each process that has
begun its work: both run on preemptive schedulers, and all their steps end (file
operations without locks, `LOCK_NB`, a serial exchange with a time limit). Nothing
makes an agent send an event or a user start a loop or a command, so those actions have
no fairness. `BoardConsole` has none either: its reads have time limits, but writing to a
board that has hung may block for good, with the lock held. The fairness of `FaceHook`'s
`PushSend` excludes that: `CoveredWordShown` is about boards that take what is written.
`Shell` has weak fairness of the boot loader, of an image's crash and of `app_main`: none of
them waits for anybody. `NetShell` has it of a command under way, whose waits have time limits
but for ping's, and of the library's task, which gives up each request in its time; nobody has
to type a command or to raise the link. Symmetry is used only where no temporal property is
checked.

## 4. What the runs found

Four runs disagree with what the repository says of itself (`findings` in `PROJECT.json`
quotes each place):

1. *Quit may miss a running loop* (`QuitReachesEveryLoop`). A loop that starts unlinks the
   word before one that runs has polled it, which `face_main.c:545-548` means to exclude.
2. *A Wi-Fi success may not be its own* (`SuccessIsOwn`). The drain empties the semaphore,
   not the queue of events, and the pair saved is then one that never connected.
3. *A text may be lost without a question* (`AsksBeforeLoss`). A save that fails leaves an
   empty file and the mark as it was, after the message `Error: Write failed, file is incomplete!`
   (`editor.c:332`).
4. *A rollback may boot what has never run* (`RollbackIsPrevious`). An update overwrites the
   older slot and leaves that slot's boot record valid until its last call. When that call
   fails or the power goes before it, `ota_rollback` finds a whole image behind a valid
   record and boots it without a trial.

Other things the models show, of which no text of the repository says otherwise or which
the code handles:

- The last event of a session may stay unshown: a pusher gives up on a lock whose holder has
  read the spool for the last time and not yet let go. `StaleOnlyIfRaced` says that without
  faults this is the only way.
- A preset word may be lost when a poll comes between the truncation and the write of its
  command. Two loops that both read it before either unlinks it both take it; `PresetOnce` is
  about each loop by itself.
- When the animation's clock wraps, after 49 days, a face in a state entered before the wrap goes back to the pose
  its blend began from and stays there until the clock has come to that time again or the
  state changes (`face.c:288-294`). `Blended` leaves this case out (`wrapped`).
- `path_resolve` also refuses what its header does not mention: an argument of more than 511
  characters with its directory, and a path that passes through more than 64 segments, even
  when what is left would fit.
- `app_main` confirms an image without a test of its own: to have come so far is the test. A
  card or a flash file system that cannot be mounted is only logged (`main.c:2162-2186`).
- `Smoothstep` rounds and may step back by one thousandth; a blend still ends exactly.
- Two loops in one address space share the tracker. They repaint more, but `PanelFollows` and
  `PushesNoMore` hold for them too.

Hazards that were seen and are not modelled: the temporary file of a hook that is killed, a
connection that comes after the fifteen seconds and is not saved, NVS erased at boot when it
cannot be read, a save in place cut by the power, a NUL byte in a file that is edited.

## 5. Proofs

All eight `_proofs` modules follow one pattern: an inductive invariant, its three facts
(`Init => Inv`, `Inv` and a step give `Inv'`, `Inv` gives the property), one step
per action, then PTL. The constants' assumptions are the named `ASSUME`s of the modules:
bounds are natural numbers, sets are nonempty or sentinels lie outside them where this matters.
No theorem depends on a bound's value.

| Module | Theorem | Property | Why the invariant is needed |
| --- | --- | --- | --- |
| `FaceHook_proofs` | `TypeCorrect`, `TalkersExclude`, `SpoolNeverTorn`, `HookKeepsPromise`, `OnlyTheRaceLosesWords` | `TypeOK`, `OneTalker`, `SpoolWhole`, `NeverOlder`, `StaleOnlyIfRaced` | the lock's holder is the only pusher between *locked* and *leaving*; what it has sent is not newer than what it read, nor that than the spool; a temporary file has its own hook's word. The refinement of `LatestWord` needs that the holder's word is no older than the board's |
| `FaceLoop_proofs` | `TypeCorrect`, `NoStaleQuit`, `NoPresetTwice`, `PressActsOnce` | `TypeOK`, `StaleQuitHarmless`, `PresetOnce`, `OnePressOneAction` | every stamp in a file or a loop's hands is at most `written`; a quit word in the file is newer than the start of each loop that polls; a button not in the last mask has been seen up |
| `BoardConsole_proofs` | `TypeCorrect`, `NoCollision`, `QuietAfterEach`, `OwnReply`, `SecondLoopHasReason` | `TypeOK`, `NobodyCollides`, `QuietBetween`, `ReplyIsOwn`, `SecondLoopExplained` | the lock's holder is the process between *open* and *unlock*, the port's owner the one between *sync* and *close* (`Owned`); on a console that was quiet the present line is in exactly one place: on its way, with the shell, or its output partly on its way back and partly read (`Calm`). For the second loop: what bears a conversation's number was caused by it (`NumberInv`); and where no calls overlap and no `ps` is unanswered, only one process at a time is between its `ps` and its start, and while it is, no loop runs or is on its way (`StartInv`) |
| `Wget_proofs` | `TypeCorrect`, `ExitCode`, `NothingIsLost`, `WgetKeepsOldOrNew`, `LeavesNothing` | `TypeOK`, `ExitCodeHonest`, `NothingLost`, `OldOrNew`, `StagingClean` | what is known of the path, the `old` file and the temporary file at each `pc`; each directory left beside the present one is paid for by a fault or a touch (`CleanInv`) |
| `WifiShell_proofs` | `TypeCorrect`, `TokensAreFresh`, `FlagTellsTruth`, `SavedPair` | `TypeOK`, `NoOldToken`, `FlagSettles`, `SavedPairWorked` | the newest event on its way says what the link is; with none the flag does; a token's command is the present one once the semaphore is drained |
| | `PingDisturbsNothing`, `NetTypeCorrect`, `PingGivesLiving`, `PingCleansUp` | `GivesLiving`, `PingLeavesNothing` | each step of `NetSpec` is one of `Spec` or leaves its variables alone, so that what is proved of `Spec` holds of `NetSpec`; a session belongs to the step of the command that waits for it (`PingInv`) |
| `Editor_proofs` | `TypeCorrect`, `IndexesStayInside`, `CursorIsVisible` | `TypeOK`, `IndexesInside`, `CursorVisible` | the cursor is inside its row and the window around it after each key, with a loop's own counters while it loads and saves (`IInv`) |
| | `KeysEditAtCursor` | `EditsAtCursor` | the refinement of `TextBuffer`: each key's change of the rows is one change of the joined text, for which the cursor must be where `IInv` has it |
| | `LoadsLines`, `CleanIsSaved` | `LoadsTheLines`, `CleanMeansSaved` | while a file is read, the rows so far and the line end of each give back the part that was read, and a row goes on exactly if its last chunk had no line end (`Reading`); while it is written, the file holds the first `i` rows (`Writing`); the question of a quit comes only with the mark (`Asking`) |
| | `LinesAreUnique`, `LoadsNothingElse`, `ReadsBack` | the reference definition `LinesOf`, and `LoadsTheLines` with it | the last line of a text is its part after the last line end but one (`CutOnce`), and gives its row (`LineOnce`); induction over the rows from the end. The rows of `ReadsBack` end with no CR: reading takes such a CR off, so a row that has one (from a line that ended with CR CR LF, or a last line that ended with CR and no LF) is not read back as it was saved |
| `FaceFrame_proofs` | `TypeCorrect`, `NoChangeMissed`, `BlendNeverSnaps`, `BlendEnds`, `NoMoreThanChanged` | `TypeOK`, `PanelFollows`, `NoSnap`, `Blended`, `PushesNoMore` | the tracker, once primed, holds the framebuffer (`TrackerInv`); a wave, a blink and a mix stay in the range of their field; until the clock wraps, a face is in its state at least as long as its age says (`BlendInv`) |
| `Shell_proofs` | `TypeCorrect`, `AlwaysAGood`, `ShellKeepsPromise` | `KeepsAGood`, `OnlyWhatIsNamed` | a command's place holds just the part before `pos` and its source what it held (`CommandInv`); a new image is the next to boot and waits beside one that has run, and only the next to boot is on trial (`SlotInv`). The refinement of `FileStore` has one lemma per action |
| | `ResolvesAll` | `ResolvesRight` | the working directory is a path of names; one segment more changes the meaning of an argument as `Walk` does (`MeaningWalks`) |

Four of these are about data of any length. The library's induction theorems take an operator
as a parameter, which no prover can instantiate here; these proofs use instead that a set of
numbers has a least one (`Least`, from the well-foundedness of `<`), applied to the set of
those up to which a fact holds (`Induction`). In `Editor_proofs` it shows that
`FlattenSeq` exists for every sequence of rows, is unique and adds a row as a concatenation
(`FlatDefined` and the lemmas after it), by which `Joined` can be cut at the cursor's row; `ReadOnce` is by the same induction. In
`Shell_proofs` it does the same for the functions of `path_resolve`, `Kept` and `Characters`. The
step of `MeaningWalks` that is not induction is `..`: the largest name that is left has as many
`..` as names behind it (`NoneLeft`), and each smaller one has more names than that
(`LeftBack`), so that one `..` more takes back the largest alone.

**Model-checked only.** Liveness (`CoveredWordShown`, `QuitStops`, `SettlesOnWord`,
`TrialEnds`, `CommandEnds`) needs fairness and `ENABLED`, which are beyond the prover. Every
invariant and every action property of the passing runs is proved.

**Taken as given**, in the models and so in the proofs: what the vendor libraries and the
boot loader do, as far as the code relies on it (each is marked external in
`PROJECT.json`); the order in which the driver posts its events; one callback of the ping library
per request and `ping_on_end` last; that hashes of different rows differ; that tasks of one
priority switch only where they wait.

## 6. Not modelled

| Part | Why not |
| --- | --- |
| retawq (`components/retawq/`) | a vendored third-party browser; about 24,000 of the repository's 34,600 lines of code, so that most lines belong to no model |
| completion (`main.c:1732-1856`) | a conversion of a line into candidates; it changes no state |
| `ls`, `tree`, `cat`, `pwd`, `df`, `ps`, `top`, `free`, `cpuinfo`, `uname`, `ifconfig`, `ota_status`, `wifi_scan` | they read and print |
| network time (SNTP) | the clock belongs to the SDK's client |
| password input, reset of the radio chip | a loop over characters, and a straight line of pin changes |
| renderers of the face, host tools | pixels without state; what they draw is a matter of looks, which the host tests compare |
| flash tools, other experiments | straight-line programs over vendor calls |
| log lines, messages, JSON, escape sequences | wording, in every module |

What is left of the program is either without state of its own or not this repository's; the
components with state are all modelled.
