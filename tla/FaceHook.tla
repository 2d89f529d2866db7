------------------------------ MODULE FaceHook ------------------------------
(***************************************************************************)
(* tools/face-hook.py: the lifecycle hook that turns agent events into a   *)
(* word in a spool file, and the detached pusher that takes a lock and     *)
(* sends the newest spooled word to the board.                             *)
(*                                                                         *)
(* Hooks run concurrently, each in a process of its own.  Every spooled    *)
(* word starts one pusher process, so pusher n is the one started for the  *)
(* n-th word.  A kill, a failed serial conversation and an unplugged board *)
(* are faults; MaxFaults bounds them and MaxEvents bounds the words.       *)
(***************************************************************************)
EXTENDS Naturals, Sequences, FiniteSets

CONSTANTS Hooks,      \* hook processes that may run at the same time
          Events,     \* the agent events the environment produces
          MaxEvents,  \* bound: words spooled in one behaviour
          MaxFaults   \* bound: faults in one behaviour

EventNames == {"SessionStart", "SessionEnd", "PreToolUse", "PostToolUse", "PreInvocation",
               "Notification", "Stop", "SubagentStop", "PostInvocation", "Unknown"}

ToolKinds == {"board", "edit", "ask", "other"}

ASSUME BoundsAssumption == MaxEvents \in Nat /\ MaxFaults \in Nat

ASSUME EventsAssumption ==
  Events \subseteq [name : EventNames, tool : ToolKinds, failed : BOOLEAN]

ASSUME HooksAssumption == IsFiniteSet(Hooks)

Words == {"idle", "working", "editing", "waiting", "failed", "done"}

NoWord == "none"   \* word_for returned None
Empty == "empty"   \* a file that holds no text yet
Absent == "absent" \* no such file

Pushers == 1 .. MaxEvents
Nobody == 0

(***************************************************************************)
(* The word an event stands for.  A tool that talks to the board changes   *)
(* nothing, and neither does a tool that succeeded.                        *)
(***************************************************************************)
word_for(e) ==
  CASE e.name \in {"SessionStart", "SessionEnd"} -> "idle"
    [] e.name = "PreToolUse" -> CASE e.tool = "board" -> NoWord
                                  [] e.tool = "edit" -> "editing"
                                  [] e.tool = "ask" -> "waiting"
                                  [] OTHER -> "working"
    [] e.name = "PostToolUse" -> IF e.failed THEN "failed" ELSE NoWord
    [] e.name = "PreInvocation" -> "working"
    [] e.name = "Notification" -> "waiting"
    [] e.name \in {"Stop", "SubagentStop", "PostInvocation"} -> "done"
    [] OTHER -> NoWord

\* main() spools and detaches for a word only.
Speaks(e) == word_for(e) # NoWord

VARIABLES
  hookPc,    \* where each hook process is
  hookWord,  \* the word it is spooling
  hookNo,    \* the number of the word it spooled
  temp,      \* text of each hook's temporary file
  spool,     \* text of SPOOL and, as history, the number of that word
  lock,      \* the pusher that holds LOCK, or Nobody
  pushPc,    \* where each pusher process is
  sent,      \* the word a pusher sent last
  taken,     \* what a pusher read from SPOOL and is about to send
  port,      \* TRUE iff the serial device exists
  board,     \* the word on the LCD and, as history, its number
  history,   \* history: every word moved into SPOOL, in order
  raced,     \* history: a pusher gave up on a holder that had done its last read
  faults     \* history: faults so far

hookVars == <<hookPc, hookWord, hookNo, temp>>
pushVars == <<lock, pushPc, sent, taken>>
vars == <<hookVars, pushVars, spool, port, board, history, raced, faults>>

Init ==
  /\ hookPc = [h \in Hooks |-> "idle"]
  /\ hookWord = [h \in Hooks |-> NoWord]
  /\ hookNo = [h \in Hooks |-> 0]
  /\ temp = [h \in Hooks |-> Absent]
  /\ spool = [word |-> Absent, no |-> 0]
  /\ lock = Nobody
  /\ pushPc = [p \in Pushers |-> "unborn"]
  /\ sent = [p \in Pushers |-> NoWord]
  /\ taken = [p \in Pushers |-> [word |-> NoWord, no |-> 0]]
  /\ port = TRUE
  /\ board = [word |-> NoWord, no |-> 0]
  /\ history = << >>
  /\ raced = FALSE
  /\ faults = 0

Fault == faults < MaxFaults /\ faults' = faults + 1

-----------------------------------------------------------------------------
(* The hook: main() without --push, spool() and detach(). *)

\* Mutant: all writers share one temporary file, as an older version did.
SharedTempName(h) == CHOOSE g \in Hooks : TRUE

\* Each writer has a temporary file of its own.
TempName(h) == h

\* The words still on their way to SPOOL count against the bound.
InFlight == {h \in Hooks : hookPc[h] \in {"created", "written"}}

\* The process is gone and its memory with it.
HookEnds(h) ==
  /\ hookPc' = [hookPc EXCEPT ![h] = "idle"]
  /\ hookWord' = [hookWord EXCEPT ![h] = NoWord]
  /\ hookNo' = [hookNo EXCEPT ![h] = 0]

\* NamedTemporaryFile creates an empty file.
HookEvent(h, e) ==
  /\ hookPc[h] = "idle"
  /\ Speaks(e)
  /\ Len(history) + Cardinality(InFlight) < MaxEvents
  /\ hookPc' = [hookPc EXCEPT ![h] = "created"]
  /\ hookWord' = [hookWord EXCEPT ![h] = word_for(e)]
  /\ temp' = [temp EXCEPT ![TempName(h)] = Empty]
  /\ UNCHANGED <<hookNo, pushVars, spool, port, board, history, raced, faults>>

HookWrite(h) ==
  /\ hookPc[h] = "created"
  /\ hookPc' = [hookPc EXCEPT ![h] = "written"]
  /\ temp' = [temp EXCEPT ![TempName(h)] = hookWord[h]]
  /\ UNCHANGED <<hookWord, hookNo, pushVars, spool, port, board, history, raced, faults>>

\* os.replace moves the temporary file over SPOOL in one step.
HookReplace(h) ==
  /\ hookPc[h] = "written"
  /\ temp[TempName(h)] # Absent
  /\ spool' = [word |-> temp[TempName(h)], no |-> Len(history) + 1]
  /\ history' = Append(history, hookWord[h])
  /\ temp' = [temp EXCEPT ![TempName(h)] = Absent]
  /\ hookPc' = [hookPc EXCEPT ![h] = "spooled"]
  /\ hookNo' = [hookNo EXCEPT ![h] = Len(history) + 1]
  /\ UNCHANGED <<hookWord, pushVars, port, board, raced, faults>>

\* The write or the replace raises: the temporary file is unlinked, no pusher
\* starts, and main() swallows the exception.
HookFail(h) ==
  /\ hookPc[h] \in {"created", "written"}
  /\ Fault
  /\ HookEnds(h)
  /\ temp' = [temp EXCEPT ![TempName(h)] = Absent]
  /\ UNCHANGED <<pushVars, spool, port, board, history, raced>>

HookDetach(h) ==
  /\ hookPc[h] = "spooled"
  /\ pushPc' = [pushPc EXCEPT ![hookNo[h]] = "start"]
  /\ HookEnds(h)
  /\ UNCHANGED <<temp, lock, sent, taken, spool, port, board, history, raced, faults>>

\* The agent kills a hook that is in its way; its temporary file stays behind.
HookKilled(h) ==
  /\ hookPc[h] # "idle"
  /\ Fault
  /\ HookEnds(h)
  /\ UNCHANGED <<temp, pushVars, spool, port, board, history, raced>>

-----------------------------------------------------------------------------
(* The pusher: push(). *)

\* Mutant: flock(LOCK_SH), which several pushers can hold.
LockShared == TRUE

LockFree == lock = Nobody

\* flock(LOCK_EX | LOCK_NB) succeeds at once or the process ends.
PushLock(p) ==
  /\ pushPc[p] = "start"
  /\ LockFree
  /\ lock' = p
  /\ pushPc' = [pushPc EXCEPT ![p] = "locked"]
  /\ UNCHANGED <<hookVars, sent, taken, spool, port, board, history, raced, faults>>

PushGiveUp(p) ==
  /\ pushPc[p] = "start"
  /\ ~LockFree
  /\ pushPc' = [pushPc EXCEPT ![p] = "gone"]
  /\ raced' = (raced \/ pushPc[lock] = "leaving")
  /\ UNCHANGED <<hookVars, lock, sent, taken, spool, port, board, history, faults>>

PushPort(p) ==
  /\ pushPc[p] = "locked"
  /\ pushPc' = [pushPc EXCEPT ![p] = IF port THEN "reading" ELSE "leaving"]
  /\ UNCHANGED <<hookVars, lock, sent, taken, spool, port, board, history, raced, faults>>

\* Nothing new in SPOOL ends the loop.
PushRead(p) ==
  /\ pushPc[p] = "reading"
  /\ IF spool.word \in {Absent, Empty, sent[p]}
     THEN /\ pushPc' = [pushPc EXCEPT ![p] = "leaving"]
          /\ UNCHANGED taken
     ELSE /\ pushPc' = [pushPc EXCEPT ![p] = "sending"]
          /\ taken' = [taken EXCEPT ![p] = spool]
  /\ UNCHANGED <<hookVars, lock, sent, spool, port, board, history, raced, faults>>

\* Mutant: one send and no second look at SPOOL.
SendOnce == "leaving"

AfterSend == "reading"

\* board.face(word) reports a failure in its return value, which is dropped:
\* the word counts as sent either way.
PushSend(p) ==
  /\ pushPc[p] = "sending"
  /\ \/ /\ port
        /\ board' = taken[p]
        /\ UNCHANGED faults
     \/ /\ IF port THEN Fault ELSE UNCHANGED faults
        /\ UNCHANGED board
  /\ sent' = [sent EXCEPT ![p] = taken[p].word]
  /\ pushPc' = [pushPc EXCEPT ![p] = AfterSend]
  /\ UNCHANGED <<hookVars, lock, taken, spool, port, history, raced>>

PushLeave(p) ==
  /\ pushPc[p] = "leaving"
  /\ lock' = Nobody
  /\ pushPc' = [pushPc EXCEPT ![p] = "gone"]
  /\ UNCHANGED <<hookVars, sent, taken, spool, port, board, history, raced, faults>>

\* The kernel drops the lock of a process that dies.
PushKilled(p) ==
  /\ pushPc[p] \notin {"unborn", "gone"}
  /\ Fault
  /\ lock' = IF lock = p THEN Nobody ELSE lock
  /\ pushPc' = [pushPc EXCEPT ![p] = "gone"]
  /\ UNCHANGED <<hookVars, sent, taken, spool, port, board, history, raced>>

-----------------------------------------------------------------------------
(* The cable.  The board is powered over it. *)

Unplug ==
  /\ port
  /\ Fault
  /\ port' = FALSE
  /\ board' = [word |-> NoWord, no |-> 0]
  /\ UNCHANGED <<hookVars, pushVars, spool, history, raced>>

Plug ==
  /\ ~port
  /\ port' = TRUE
  /\ UNCHANGED <<hookVars, pushVars, spool, board, history, raced, faults>>

-----------------------------------------------------------------------------
Hook(h) == \/ \E e \in Events : HookEvent(h, e)
           \/ HookWrite(h) \/ HookReplace(h) \/ HookFail(h)
           \/ HookDetach(h) \/ HookKilled(h)

Push(p) == \/ PushLock(p) \/ PushGiveUp(p) \/ PushPort(p) \/ PushRead(p)
           \/ PushSend(p) \/ PushLeave(p) \/ PushKilled(p)

Next == \/ \E h \in Hooks : Hook(h)
        \/ \E p \in Pushers : Push(p)
        \/ Unplug
        \/ Plug

Spec == Init /\ [][Next]_vars

\* The operating system runs every live process; events, faults and the cable
\* are the environment's.
Fairness ==
  /\ \A h \in Hooks : WF_vars(HookWrite(h) \/ HookReplace(h) \/ HookDetach(h))
  /\ \A p \in Pushers : WF_vars(\/ PushLock(p) \/ PushGiveUp(p) \/ PushPort(p)
                                \/ PushRead(p) \/ PushSend(p) \/ PushLeave(p))

FairSpec == Spec /\ Fairness
-----------------------------------------------------------------------------
FileText == Words \cup {Empty, Absent}
Stamped == [word : Words \cup {NoWord}, no : Nat]

TypeOK ==
  /\ hookPc \in [Hooks -> {"idle", "created", "written", "spooled"}]
  /\ hookWord \in [Hooks -> Words \cup {NoWord}]
  /\ hookNo \in [Hooks -> Nat]
  /\ temp \in [Hooks -> FileText]
  /\ spool \in [word : FileText, no : Nat]
  /\ lock \in Pushers \cup {Nobody}
  /\ pushPc \in [Pushers -> {"unborn", "start", "locked", "reading", "sending", "leaving",
                             "gone"}]
  /\ sent \in [Pushers -> Words \cup {NoWord}]
  /\ taken \in [Pushers -> Stamped]
  /\ port \in BOOLEAN
  /\ board \in Stamped
  /\ history \in Seq(Words)
  /\ raced \in BOOLEAN
  /\ faults \in 0 .. MaxFaults

Holding(p) == pushPc[p] \in {"locked", "reading", "sending", "leaving"}

\* One pusher at a time is past the lock, so a backlog of serial conversations
\* cannot build up however many events arrive (face-hook.py:13-16).
OneTalker == \A p, q \in Pushers : Holding(p) /\ Holding(q) => p = q

\* A pusher that opens SPOOL finds the whole word of its newest writer, never
\* an unfinished one, however the hooks overlap (spool(), face-hook.py:103-120).
SpoolWhole ==
  Len(history) > 0 => spool = [word |-> history[Len(history)], no |-> Len(history)]

\* The board shows words that were spooled, and never goes back to an older one.
Promise == INSTANCE LatestWord
NeverOlder == Promise!Spec

Quiet == /\ \A h \in Hooks : hookPc[h] = "idle"
         /\ \A p \in Pushers : pushPc[p] \in {"unborn", "gone"}

\* "the copy that has it will read whatever the newest word is, so the last
\* event wins" (face-hook.py:14-16): without faults, the one way to end with a
\* stale board is a pusher that gave up on a holder which had already done its last
\* read of SPOOL.
StaleOnlyIfRaced ==
  Quiet /\ faults = 0 /\ ~raced /\ Len(history) > 0 => board.word = spool.word

\* A word spooled while the holder is still sending is shown in the end, even
\* if its own pusher gave up: the loop reads SPOOL again after every send.
CoveredWordShown ==
  \A n \in 1 .. MaxEvents :
    (spool.no = n /\ \E p \in Pushers : pushPc[p] = "sending")
      ~> (board.no >= n \/ (spool.no >= n /\ board.word = spool.word) \/ faults > 0)
=============================================================================
