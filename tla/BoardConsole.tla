---------------------------- MODULE BoardConsole ----------------------------
(***************************************************************************)
(* board-mcp.py: processes that talk to the shell of the board, one        *)
(* conversation at a time: take the lock, open the port, send an empty     *)
(* line and wait for the prompt, send a command and wait for the prompt.   *)
(* nsh() is one conversation, face() up to four.                           *)
(*                                                                         *)
(* The board's shell, its console and a terminal program on the same port  *)
(* are the environment.  A wait may run out of time at any moment, and     *)
(* what the board says after that arrives in a later conversation.         *)
(***************************************************************************)
EXTENDS Integers, Sequences

CONSTANTS Callers,           \* processes that use the tools
          Calls,             \* the calls they make: a subset of the domain of Script
          Nobody, Terminal,  \* other values of lock and port
          MaxCalls,          \* bound: calls in one behaviour
          MaxFaults          \* bound: resets of the board and uses of a terminal

\* The commands of each tool.  Between "ps" and the rest face() may start the loop.  A
\* report of the port's state and a word of the agent's hook look like nsh and preset.
Script == [nsh |-> <<"run">>, preset |-> <<"set">>, quit |-> <<"quit">>,
           face |-> <<"ps", "set">>, look |-> <<"ps", "set", "set">>,
           quitlook |-> <<"set", "quit">>]

ASSUME BoundsAssumption == MaxCalls \in Nat /\ MaxFaults \in Nat
ASSUME CallsAssumption == Calls \subseteq DOMAIN Script
ASSUME NamesAssumption == {Nobody, Terminal} \cap Callers = {} /\ Nobody # Terminal

VARIABLES
  pc,       \* where each process is
  script,   \* its commands still to send
  number,   \* the number of its last conversation
  reply,    \* how that ended: ready, late, silent, busy or broken
  got,      \* what it has read
  lock,     \* the holder of the lock file
  port,     \* who has the port open
  calls,    \* calls so far
  no,       \* conversations so far
  up,       \* FALSE while the board boots
  lost,     \* TRUE iff the board went away while a process had the port open
  installed,\* TRUE iff the image has the face command
  input,    \* lines on their way to the shell
  running,  \* the line the shell works on
  output,   \* what is on its way back
  loops,    \* render loops on the board
  faults,
  clean,    \* history: the console was quiet when the present conversation began
  late,     \* history: a conversation gave up before its prompt, or the board was reset
  overlap,  \* history: two calls of face() overlapped
  blind     \* history: face() started a loop although its ps was not answered

hostVars == <<pc, script, number, reply, got, lock, port, lost, calls, no>>
boardVars == <<up, installed, input, running, output, loops>>
history == <<clean, late, overlap, blind>>
vars == <<hostVars, boardVars, faults, history>>

(* A line carries the number of its conversation, and so does what it causes. *)
Line(command, n) == [command |-> command, no |-> n]
Nothing == Line("none", 0)
Token(text, n) == [text |-> text, no |-> n]

Quiet == input = << >> /\ running = Nothing /\ output = << >>

Init ==
  /\ pc = [c \in Callers |-> "idle"]
  /\ script = [c \in Callers |-> << >>]
  /\ number = [c \in Callers |-> 0]
  /\ reply = [c \in Callers |-> "none"]
  /\ got = [c \in Callers |-> << >>]
  /\ lock = Nobody
  /\ port = Nobody
  /\ calls = 0
  /\ no = 0
  /\ up = TRUE
  /\ lost = FALSE
  /\ installed \in BOOLEAN
  /\ input = << >>
  /\ running = Nothing
  /\ output = << >>
  /\ loops = 0
  /\ faults = 0
  /\ clean = FALSE
  /\ late = FALSE
  /\ overlap = FALSE
  /\ blind = FALSE

-----------------------------------------------------------------------------
(* A conversation: _converse() and _exchange(). *)

\* A process that may start the loop.
MayStart(c) == pc[c] # "idle" /\ Head(script[c]) \in {"ps", "start"}

Call(c, tool) ==
  /\ pc[c] = "idle"
  /\ calls < MaxCalls
  /\ calls' = calls + 1
  /\ pc' = [pc EXCEPT ![c] = "lock"]
  /\ script' = [script EXCEPT ![c] = Script[tool]]
  /\ overlap' = (overlap \/ (Script[tool][1] = "ps" /\ \E d \in Callers : MayStart(d)))
  /\ UNCHANGED <<number, reply, got, lock, port, lost, no, boardVars, faults, clean, late,
                 blind>>

\* Mutant: the lock can be shared.
LockShared == TRUE

LockFree == lock = Nobody

\* flock(LOCK_EX) waits for the lock.
Lock(c) ==
  /\ pc[c] = "lock"
  /\ LockFree
  /\ lock' = c
  /\ no' = no + 1
  /\ number' = [number EXCEPT ![c] = no + 1]
  /\ pc' = [pc EXCEPT ![c] = "open"]
  /\ UNCHANGED <<script, reply, got, port, lost, calls, boardVars, faults, history>>

\* What has arrived is dropped; the rest is still on its way.
Flush == \E k \in 0 .. Len(output) : output' = SubSeq(output, k + 1, Len(output))

\* The port is opened for this process alone, which drops what has arrived before, and
\* an empty line is sent.  The board's steps between the two commute with them.
Open(c) ==
  /\ pc[c] = "open"
  /\ port = Nobody
  /\ up
  /\ port' = c
  /\ pc' = [pc EXCEPT ![c] = "sync"]
  /\ Flush
  /\ clean' = (input = << >> /\ running = Nothing /\ output' = << >>)
  /\ input' = Append(input, Line("", number[c]))
  /\ UNCHANGED <<script, number, reply, got, lock, lost, calls, no, up, installed, running,
                 loops, faults, late, overlap, blind>>

\* Somebody else has the port open, or there is no board.
OpenFails(c) ==
  /\ pc[c] = "open"
  /\ port # Nobody \/ ~up
  /\ pc' = [pc EXCEPT ![c] = "unlock"]
  /\ reply' = [reply EXCEPT ![c] = "busy"]
  /\ UNCHANGED <<script, number, got, lock, port, lost, calls, no, boardVars, faults, history>>

Holds(c) == port = c /\ ~lost

\* Mutant: the wait ends with the first bytes.
EndsAtOnce(s) == s # << >>

\* The text read so far ends in the prompt.
Ends(s) == s # << >> /\ s[Len(s)].text = "prompt"

\* A chunk of what has arrived, of any length.
Chunk(c, k) == got[c] \o SubSeq(output, 1, k)

ReadOn(c) ==
  /\ pc[c] \in {"sync", "reading"}
  /\ Holds(c)
  /\ \E k \in 1 .. Len(output) :
       /\ ~Ends(Chunk(c, k))
       /\ got' = [got EXCEPT ![c] = Chunk(c, k)]
       /\ output' = SubSeq(output, k + 1, Len(output))
  /\ UNCHANGED <<pc, script, number, reply, lock, port, lost, calls, no, up, installed, input,
                 running, loops, faults, history>>

\* The prompt is there: what has arrived is dropped, and the command is sent.
Send(c) ==
  /\ pc[c] = "sync"
  /\ Holds(c)
  /\ \E k \in 1 .. Len(output), m \in 1 .. Len(output) :
       /\ Ends(Chunk(c, k))
       /\ k <= m
       /\ output' = SubSeq(output, m + 1, Len(output))
  /\ got' = [got EXCEPT ![c] = << >>]
  /\ input' = Append(input, Line(Head(script[c]), number[c]))
  /\ pc' = [pc EXCEPT ![c] = "reading"]
  /\ UNCHANGED <<script, number, reply, lock, port, lost, calls, no, up, installed, running,
                 loops, faults, history>>

ReadReply(c) ==
  /\ pc[c] = "reading"
  /\ Holds(c)
  /\ \E k \in 1 .. Len(output) :
       /\ Ends(Chunk(c, k))
       /\ got' = [got EXCEPT ![c] = Chunk(c, k)]
       /\ output' = SubSeq(output, k + 1, Len(output))
  /\ pc' = [pc EXCEPT ![c] = "close"]
  /\ reply' = [reply EXCEPT ![c] = "ready"]
  /\ UNCHANGED <<script, number, lock, port, lost, calls, no, up, installed, input, running,
                 loops, faults, history>>

\* What was read before the prompt that did not come is returned by the second wait alone.
TimeOut(c) ==
  /\ pc[c] \in {"sync", "reading"}
  /\ Holds(c)
  /\ pc' = [pc EXCEPT ![c] = "close"]
  /\ reply' = [reply EXCEPT ![c] = IF pc[c] = "sync" THEN "silent" ELSE "late"]
  /\ late' = TRUE
  /\ UNCHANGED <<script, number, got, lock, port, lost, calls, no, boardVars, faults, clean,
                 overlap, blind>>

\* The board is gone: an OSError, which closes the port and releases the lock.
Breaks(c) ==
  /\ pc[c] \in {"sync", "reading"}
  /\ port = c
  /\ lost
  /\ pc' = [pc EXCEPT ![c] = "close"]
  /\ reply' = [reply EXCEPT ![c] = "broken"]
  /\ UNCHANGED <<script, number, got, lock, port, lost, calls, no, boardVars, faults, history>>

Close(c) ==
  /\ pc[c] = "close"
  /\ port' = Nobody
  /\ lost' = FALSE
  /\ pc' = [pc EXCEPT ![c] = "unlock"]
  /\ UNCHANGED <<script, number, reply, got, lock, calls, no, boardVars, faults, history>>

-----------------------------------------------------------------------------
(* The end of a conversation: nsh() returns, face() goes on. *)

\* The text a conversation returned.  An error message holds none of the words.
Says(c, texts) ==
  reply[c] \in {"ready", "late"} /\ \E i \in DOMAIN got[c] : got[c][i].text \in texts

\* Mutant: the answer of ps is not looked at.
StartsAlways(c) == Head(script[c]) = "ps"

\* "face" is not in what ps said.
Starts(c) == Head(script[c]) = "ps" /\ ~Says(c, {"face", "notfound"})

\* face() returns early if the image has no such command.
Rest(c) ==
  IF Starts(c) THEN <<"start">> \o Tail(script[c])
  ELSE IF Head(script[c]) = "start" /\ Says(c, {"notfound"}) THEN << >>
  ELSE Tail(script[c])

Goes(rest) == IF rest = << >> THEN "idle" ELSE "lock"

\* The conversation returned what its own command printed.
Answered(c) ==
  /\ reply[c] = "ready"
  /\ \E i \in DOMAIN got[c] : got[c][i].text # "prompt" /\ got[c][i].no = number[c]

Unlock(c) ==
  /\ pc[c] = "unlock"
  /\ lock' = Nobody
  /\ script' = [script EXCEPT ![c] = Rest(c)]
  /\ pc' = [pc EXCEPT ![c] = Goes(Rest(c))]
  /\ number' = [number EXCEPT ![c] = 0]
  /\ reply' = [reply EXCEPT ![c] = "none"]
  /\ got' = [got EXCEPT ![c] = << >>]
  /\ clean' = FALSE
  /\ blind' = (blind \/ (Starts(c) /\ ~Answered(c)))
  /\ UNCHANGED <<port, lost, calls, no, boardVars, faults, late, overlap>>

-----------------------------------------------------------------------------
(* The environment: the shell, the console and a terminal program.  The shell takes the *)
(* two characters that end a line for one end, and a word ends the loops at once.       *)

\* What a command prints, its echo included, as far as face() looks at it.
Printed(command) ==
  IF command \in {"start", "set", "quit"} THEN (IF installed THEN "face" ELSE "notfound")
  ELSE IF command = "ps" /\ loops > 0 THEN "face" ELSE "plain"

ShellRuns ==
  /\ up
  /\ running = Nothing
  /\ input # << >>
  /\ running' = Head(input)
  /\ input' = Tail(input)
  /\ output' = IF Head(input).command = "" THEN output
               ELSE Append(output, Token(Printed(Head(input).command), Head(input).no))
  /\ loops' = IF Head(input).command = "start" /\ installed THEN loops + 1
              ELSE IF Head(input).command = "quit" THEN 0 ELSE loops
  /\ UNCHANGED <<hostVars, up, installed, faults, history>>

ShellPrompts ==
  /\ up
  /\ running # Nothing
  /\ running' = Nothing
  /\ output' = Append(output, Token("prompt", running.no))
  /\ UNCHANGED <<hostVars, up, installed, input, loops, faults, history>>

\* The board is reset or unplugged, and its console goes with it.
Reset ==
  /\ up
  /\ faults < MaxFaults
  /\ faults' = faults + 1
  /\ up' = FALSE
  /\ input' = << >>
  /\ running' = Nothing
  /\ output' = << >>
  /\ loops' = 0
  /\ lost' = (port \in Callers)
  /\ port' = IF port = Terminal THEN Nobody ELSE port
  /\ late' = TRUE
  /\ UNCHANGED <<pc, script, number, reply, got, lock, calls, no, installed, clean, overlap,
                 blind>>

\* The board comes up with a prompt nobody asked for.
Boot ==
  /\ ~up
  /\ up' = TRUE
  /\ output' = <<Token("prompt", 0)>>
  /\ UNCHANGED <<hostVars, installed, input, running, loops, faults, history>>

\* A terminal does not know the lock.  What it types is left out.
TerminalOpens ==
  /\ up
  /\ port = Nobody
  /\ faults < MaxFaults
  /\ faults' = faults + 1
  /\ port' = Terminal
  /\ UNCHANGED <<pc, script, number, reply, got, lock, lost, calls, no, boardVars, history>>

TerminalCloses ==
  /\ port = Terminal
  /\ port' = Nobody
  /\ UNCHANGED <<pc, script, number, reply, got, lock, lost, calls, no, boardVars, faults,
                 history>>

-----------------------------------------------------------------------------

Step(c) ==
  \/ Lock(c) \/ Open(c) \/ OpenFails(c) \/ ReadOn(c) \/ Send(c) \/ ReadReply(c)
  \/ TimeOut(c) \/ Breaks(c) \/ Close(c) \/ Unlock(c)

Next ==
  \/ \E c \in Callers : (\E tool \in Calls : Call(c, tool)) \/ Step(c)
  \/ ShellRuns
  \/ ShellPrompts
  \/ Reset
  \/ Boot
  \/ TerminalOpens
  \/ TerminalCloses

Spec == Init /\ [][Next]_vars
-----------------------------------------------------------------------------

Pcs == {"idle", "lock", "open", "sync", "reading", "close", "unlock"}
Commands == {"run", "set", "quit", "ps", "start"}
Texts == {"prompt", "plain", "face", "notfound"}
Lines == [command : Commands \cup {""}, no : Nat]
Tokens == [text : Texts, no : Nat]

TypeOK ==
  /\ pc \in [Callers -> Pcs]
  /\ script \in [Callers -> Seq(Commands)]
  /\ \A c \in Callers : pc[c] # "idle" => script[c] # << >>
  /\ number \in [Callers -> Nat]
  /\ reply \in [Callers -> {"none", "ready", "late", "silent", "busy", "broken"}]
  /\ got \in [Callers -> Seq(Tokens)]
  /\ lock \in Callers \cup {Nobody}
  /\ port \in Callers \cup {Nobody, Terminal}
  /\ calls \in 0 .. MaxCalls
  /\ no \in Nat
  /\ up \in BOOLEAN
  /\ lost \in BOOLEAN
  /\ installed \in BOOLEAN
  /\ input \in Seq(Lines)
  /\ running \in Lines \cup {Nothing}
  /\ output \in Seq(Tokens)
  /\ loops \in Nat
  /\ faults \in 0 .. MaxFaults
  /\ clean \in BOOLEAN
  /\ late \in BOOLEAN
  /\ overlap \in BOOLEAN
  /\ blind \in BOOLEAN

\* A process never finds the port taken by another one of its kind: the lock is held for
\* the whole conversation, opening and closing included (docs/board-mcp.md:46).
NobodyCollides == \A c \in Callers : pc[c] = "open" => port \notin Callers

\* As long as no conversation gives up and the board is not reset, each conversation
\* leaves the console as quiet as it found it: no output is on its way into the next one.
QuietBetween == ~late /\ port \notin Callers => Quiet

\* A conversation that begins on a quiet console and ends with its prompt returns what its
\* own command printed, all of it and nothing else, whatever went wrong before.
ReplyIsOwn ==
  \A c \in Callers : pc[c] \in {"close", "unlock"} /\ reply[c] = "ready" /\ clean =>
    \E text \in Texts \ {"prompt"} :
      got[c] = <<Token(text, number[c]), Token("prompt", number[c])>>

\* face() starts a second loop only if two calls of it overlapped, or if its ps was not
\* answered: the check and the start are two conversations.
SecondLoopExplained == loops > 1 => overlap \/ blind
=============================================================================
