------------------------ MODULE BoardConsole_proofs ------------------------
(* Proofs about BoardConsole, for any processes, calls, bounds and times.    *)
EXTENDS BoardConsole, SequenceTheorems, TLAPS

\* Names for one condition each.
USE DEF LockFree, Goes, Holds

-----------------------------------------------------------------------------
(* Sequences. *)

\* The first line and the rest.
LEMMA HeadType == \A s \in Seq(Lines) : s # << >> => Head(s) \in Lines /\ Tail(s) \in Seq(Lines)
OBVIOUS

\* What is left of the output when some of it has been read.
LEMMA RestType ==
  \A s \in Seq(Tokens) : \A k \in 0 .. Len(s) : SubSeq(s, k + 1, Len(s)) \in Seq(Tokens)
<1> SUFFICES ASSUME NEW s \in Seq(Tokens), NEW k \in 0 .. Len(s)
             PROVE  SubSeq(s, k + 1, Len(s)) \in Seq(Tokens)
  OBVIOUS
<1>1. \A i \in k + 1 .. Len(s) : s[i] \in Tokens
  OBVIOUS
<1>2. QED
  BY <1>1

\* What has been read, with the beginning of the output behind it.
LEMMA ChunkType ==
  \A s, t \in Seq(Tokens) : \A k \in 1 .. Len(s) : t \o SubSeq(s, 1, k) \in Seq(Tokens)
<1> SUFFICES ASSUME NEW s \in Seq(Tokens), NEW t \in Seq(Tokens), NEW k \in 1 .. Len(s)
             PROVE  t \o SubSeq(s, 1, k) \in Seq(Tokens)
  OBVIOUS
<1>1. \A i \in 1 .. k : s[i] \in Tokens
  OBVIOUS
<1>2. SubSeq(s, 1, k) \in Seq(Tokens)
  BY <1>1
<1>3. QED
  BY <1>2

\* The scripts are sequences of commands.
LEMMA ScriptType == \A tool \in Calls : Script[tool] \in Seq(Commands) /\ Script[tool] # << >>
<1> DEFINE Good(s) == s \in Seq(Commands) /\ s # << >>
<1>1. \A a \in Commands : Good(<<a>>)
  OBVIOUS
<1>2. \A a, b \in Commands : Good(<<a, b>>)
  OBVIOUS
<1>3. \A a, b, c \in Commands : Good(<<a, b, c>>)
  OBVIOUS
<1>4. {"run", "set", "quit", "ps"} \subseteq Commands
  BY DEF Commands
<1> HIDE DEF Good
<1>5. /\ Good(Script["nsh"]) /\ Good(Script["preset"]) /\ Good(Script["quit"])
      /\ Good(Script["face"]) /\ Good(Script["look"]) /\ Good(Script["quitlook"])
  BY <1>1, <1>2, <1>3, <1>4 DEF Script
<1>6. Calls \subseteq {"nsh", "preset", "quit", "face", "look", "quitlook"}
  BY CallsAssumption DEF Script
<1>7. \A tool \in Calls : Good(Script[tool])
  BY <1>5, <1>6
<1>8. QED
  BY <1>7 DEF Good

-----------------------------------------------------------------------------
(* Type correctness. *)

\* A script goes on with commands.
LEMMA RestOfScript ==
  ASSUME TypeOK, NEW c \in Callers, pc[c] # "idle"
  PROVE  Rest(c) \in Seq(Commands)
<1>1. script[c] \in Seq(Commands) /\ script[c] # << >>
  BY DEF TypeOK
<1>2. Tail(script[c]) \in Seq(Commands)
  BY <1>1
<1>3. <<"start">> \o Tail(script[c]) \in Seq(Commands)
  BY <1>2 DEF Commands
<1>4. QED
  BY <1>2, <1>3 DEF Rest

\* What the shell prints is one of the texts.
LEMMA PrintedType == \A command \in Commands : Printed(command) \in Texts \ {"prompt"}
BY DEF Printed, Texts, Commands

\* No action leaves the type.
LEMMA TypeStep == TypeOK /\ [Next]_vars => TypeOK'
<1> SUFFICES ASSUME TypeOK, [Next]_vars PROVE TypeOK'
  OBVIOUS
<1> USE BoundsAssumption, NamesAssumption
<1>a. /\ output \in Seq(Tokens) /\ input \in Seq(Lines) /\ got \in [Callers -> Seq(Tokens)]
      /\ number \in [Callers -> Nat] /\ script \in [Callers -> Seq(Commands)]
      /\ pc \in [Callers -> Pcs] /\ running \in Lines \cup {Nothing} /\ loops \in Nat
      /\ \A c \in Callers : pc[c] # "idle" => script[c] # << >>
  BY DEF TypeOK
<1>1. ASSUME NEW c \in Callers, NEW tool \in Calls, Call(c, tool) PROVE TypeOK'
  <2>1. Script[tool] \in Seq(Commands) /\ Script[tool] # << >>
    BY ScriptType
  <2>2. QED
    BY <1>1, <2>1 DEF Call, Pcs, TypeOK, boardVars, history
<1>2. ASSUME NEW c \in Callers, Lock(c) \/ OpenFails(c) \/ TimeOut(c) \/ Breaks(c) \/ Close(c)
      PROVE  TypeOK'
  <2>1. CASE Lock(c)
    BY <2>1 DEF Lock, Pcs, TypeOK, boardVars, history
  <2>2. CASE OpenFails(c)
    BY <2>2 DEF OpenFails, Pcs, TypeOK, boardVars, history
  <2>3. CASE TimeOut(c)
    BY <2>3 DEF TimeOut, Pcs, TypeOK, boardVars, history
  <2>4. CASE Breaks(c)
    BY <2>4 DEF Breaks, Pcs, TypeOK, boardVars, history
  <2>5. CASE Close(c)
    BY <2>5 DEF Close, Pcs, TypeOK, boardVars, history
  <2>6. QED
    BY <1>2, <2>1, <2>2, <2>3, <2>4, <2>5
<1>3. ASSUME NEW c \in Callers, Open(c) PROVE TypeOK'
  <2>1. output' \in Seq(Tokens)
    <3>1. PICK k \in 0 .. Len(output) : output' = SubSeq(output, k + 1, Len(output))
      BY <1>3 DEF Open, Flush
    <3>2. QED
      BY <1>a, <3>1, RestType
  <2>2. input' \in Seq(Lines)
    <3>1. Line("", number[c]) \in Lines
      BY <1>a DEF Line, Lines
    <3>2. input' = Append(input, Line("", number[c]))
      BY <1>3 DEF Open
    <3>3. \A line \in Lines : Append(input, line) \in Seq(Lines)
      BY <1>a
    <3>4. QED
      BY <3>1, <3>2, <3>3
  <2>3. clean' \in BOOLEAN
    BY <1>3 DEF Open
  <2>4. QED
    BY <1>3, <2>1, <2>2, <2>3 DEF Open, Pcs, TypeOK
<1>4. ASSUME NEW c \in Callers, ReadOn(c) \/ ReadReply(c) PROVE TypeOK'
  <2>1. PICK k \in 1 .. Len(output) :
          /\ got' = [got EXCEPT ![c] = Chunk(c, k)]
          /\ output' = SubSeq(output, k + 1, Len(output))
    BY <1>4 DEF ReadOn, ReadReply
  <2>2. Chunk(c, k) \in Seq(Tokens)
    BY <1>a, ChunkType DEF Chunk
  <2>3. output' \in Seq(Tokens)
    BY <1>a, <2>1, RestType
  <2>4. got' \in [Callers -> Seq(Tokens)]
    BY <1>a, <2>1, <2>2
  <2>5. CASE ReadOn(c)
    BY <2>3, <2>4, <2>5 DEF ReadOn, Pcs, TypeOK, history
  <2>6. CASE ReadReply(c)
    BY <2>3, <2>4, <2>6 DEF ReadReply, Pcs, TypeOK, history
  <2>7. QED
    BY <1>4, <2>5, <2>6
<1>5. ASSUME NEW c \in Callers, Send(c) PROVE TypeOK'
  <2>1. PICK m \in 1 .. Len(output) : output' = SubSeq(output, m + 1, Len(output))
    BY <1>5 DEF Send
  <2>2. output' \in Seq(Tokens)
    BY <1>a, <2>1, RestType
  <2>3. Head(script[c]) \in Commands
    BY <1>a, <1>5 DEF Send
  <2>4. input' \in Seq(Lines)
    <3>1. Line(Head(script[c]), number[c]) \in Lines
      BY <1>a, <2>3 DEF Line, Lines
    <3>2. input' = Append(input, Line(Head(script[c]), number[c]))
      BY <1>5 DEF Send
    <3>3. \A line \in Lines : Append(input, line) \in Seq(Lines)
      BY <1>a
    <3>4. QED
      BY <3>1, <3>2, <3>3
  <2>5. got' \in [Callers -> Seq(Tokens)]
    BY <1>a, <1>5 DEF Send
  <2>6. QED
    BY <1>5, <2>2, <2>4, <2>5 DEF Send, Pcs, TypeOK, history
<1>6. ASSUME NEW c \in Callers, Unlock(c) PROVE TypeOK'
  <2>1. Rest(c) \in Seq(Commands)
    BY <1>6, RestOfScript DEF Unlock
  <2>2. blind' \in BOOLEAN /\ got' \in [Callers -> Seq(Tokens)]
    BY <1>6, <1>a DEF Unlock
  <2>3. QED
    BY <1>6, <2>1, <2>2 DEF Unlock, Pcs, TypeOK, boardVars
<1>7. CASE ShellRuns
  <2>1. Head(input) \in Lines /\ Tail(input) \in Seq(Lines)
    BY <1>7, <1>a, HeadType DEF ShellRuns
  <2>2. output' \in Seq(Tokens)
    <3>1. CASE Head(input).command = ""
      BY <1>7, <1>a, <3>1 DEF ShellRuns
    <3>2. CASE Head(input).command # ""
      <4>1. Head(input).command \in Commands /\ Head(input).no \in Nat
        BY <2>1, <3>2 DEF Lines
      <4>2. Token(Printed(Head(input).command), Head(input).no) \in Tokens
        BY <4>1, PrintedType DEF Token, Tokens
      <4>3. output' = Append(output, Token(Printed(Head(input).command), Head(input).no))
        BY <1>7, <3>2 DEF ShellRuns
      <4>4. QED
        BY <1>a, <4>2, <4>3
    <3>3. QED
      BY <3>1, <3>2
  <2>3. loops' \in Nat
    <3>1. loops' \in {loops + 1, 0, loops}
      BY <1>7 DEF ShellRuns
    <3>2. QED
      BY <1>a, <3>1
  <2>4. QED
    BY <1>7, <2>1, <2>2, <2>3 DEF ShellRuns, TypeOK, hostVars, history
<1>8. CASE ShellPrompts
  <2>1. running.no \in Nat
    <3>1. Nothing.no \in Nat
      BY DEF Nothing, Line
    <3>2. \A line \in Lines : line.no \in Nat
      BY DEF Lines
    <3>3. QED
      BY <1>a, <3>1, <3>2
  <2>2. output' \in Seq(Tokens)
    <3>1. Token("prompt", running.no) \in Tokens
      BY <2>1 DEF Token, Tokens, Texts
    <3>2. QED
      BY <1>8, <1>a, <3>1 DEF ShellPrompts
  <2>3. QED
    BY <1>8, <2>2 DEF ShellPrompts, TypeOK, hostVars, history
<1>9. CASE Reset
  <2>1. lost' \in BOOLEAN /\ up' \in BOOLEAN /\ late' \in BOOLEAN
    <3>1. lost' = (port \in Callers)
      BY <1>9 DEF Reset
    <3>2. up' = FALSE /\ late' = TRUE
      BY <1>9 DEF Reset
    <3>3. (port \in Callers) \in BOOLEAN
      OBVIOUS
    <3>4. QED
      BY <3>1, <3>2, <3>3, Zenon
  <2>2. /\ faults' \in 0 .. MaxFaults /\ loops' \in Nat
        /\ input' \in Seq(Lines) /\ output' \in Seq(Tokens)
    BY <1>9 DEF Reset, TypeOK
  <2>3. port' \in Callers \cup {Nobody, Terminal}
    BY <1>9 DEF Reset, TypeOK
  <2>4. QED
    BY <1>9, <2>1, <2>2, <2>3 DEF Reset, TypeOK
<1>10. CASE Boot
  <2>1. output' \in Seq(Tokens)
    BY <1>10 DEF Boot, Token, Tokens, Texts
  <2>2. QED
    BY <1>10, <2>1 DEF Boot, TypeOK, hostVars, history
<1>11. CASE TerminalOpens \/ TerminalCloses
  BY <1>11 DEF TerminalOpens, TerminalCloses, TypeOK, boardVars, history
<1>12. CASE UNCHANGED vars
  BY <1>12 DEF TypeOK, vars, hostVars, boardVars, history
<1>13. QED
  BY <1>1, <1>2, <1>3, <1>4, <1>5, <1>6, <1>7, <1>8, <1>9, <1>10, <1>11, <1>12
     DEF Next, Step

\* The initial states are in the type.
LEMMA TypeInit == Init => TypeOK
<1> SUFFICES ASSUME Init PROVE TypeOK
  OBVIOUS
<1>1. /\ pc \in [Callers -> Pcs] /\ script \in [Callers -> Seq(Commands)]
      /\ \A c \in Callers : pc[c] # "idle" => script[c] # << >>
      /\ number \in [Callers -> Nat] /\ got \in [Callers -> Seq(Tokens)]
      /\ reply \in [Callers -> {"none", "ready", "late", "silent", "busy", "broken"}]
  BY DEF Init, Pcs
<1>2. /\ lock \in Callers \cup {Nobody} /\ port \in Callers \cup {Nobody, Terminal}
      /\ running \in Lines \cup {Nothing}
  BY DEF Init
<1>3. /\ calls \in 0 .. MaxCalls /\ faults \in 0 .. MaxFaults
      /\ no \in Nat /\ loops \in Nat /\ input \in Seq(Lines) /\ output \in Seq(Tokens)
  BY BoundsAssumption DEF Init
<1>4. /\ up \in BOOLEAN /\ lost \in BOOLEAN /\ installed \in BOOLEAN /\ clean \in BOOLEAN
      /\ late \in BOOLEAN /\ overlap \in BOOLEAN /\ blind \in BOOLEAN
  BY DEF Init
<1>5. QED
  BY <1>1, <1>2, <1>3, <1>4 DEF TypeOK

\* Every reachable state is in the type invariant (all of board-mcp.py's conversations).
THEOREM TypeCorrect == Spec => []TypeOK
BY TypeInit, TypeStep, PTL DEF Spec

-----------------------------------------------------------------------------
(* The lock and the port. *)

\* The lock is held from before the port is opened until after it is closed.
Owned ==
  /\ \A c \in Callers : pc[c] \in {"open", "sync", "reading", "close", "unlock"} <=> lock = c
  /\ \A c \in Callers : pc[c] \in {"sync", "reading", "close"} <=> port = c
  /\ lost => port \in Callers

\* Only a step of a process moves the lock, and only with that process.
LEMMA OwnedStep == TypeOK /\ Owned /\ [Next]_vars => Owned'
<1> SUFFICES ASSUME TypeOK, Owned, [Next]_vars PROVE Owned'
  OBVIOUS
<1> USE NamesAssumption DEF Owned, hostVars
<1>a. pc \in [Callers -> Pcs] /\ lock \in Callers \cup {Nobody}
  BY DEF TypeOK
<1>1. ASSUME NEW c \in Callers, NEW tool \in Calls, Call(c, tool) PROVE Owned'
  BY <1>1, <1>a DEF Call
<1>2. ASSUME NEW c \in Callers, Lock(c) PROVE Owned'
  BY <1>2, <1>a DEF Lock
<1>3. ASSUME NEW c \in Callers, Open(c) PROVE Owned'
  BY <1>3, <1>a DEF Open
<1>4. ASSUME NEW c \in Callers, OpenFails(c) PROVE Owned'
  BY <1>4, <1>a DEF OpenFails
<1>5. ASSUME NEW c \in Callers, ReadOn(c) PROVE Owned'
  BY <1>5 DEF ReadOn
<1>6. ASSUME NEW c \in Callers, Send(c) PROVE Owned'
  BY <1>6, <1>a DEF Send
<1>7. ASSUME NEW c \in Callers, ReadReply(c) PROVE Owned'
  BY <1>7, <1>a DEF ReadReply
<1>8. ASSUME NEW c \in Callers, TimeOut(c) PROVE Owned'
  BY <1>8, <1>a DEF TimeOut
<1>9. ASSUME NEW c \in Callers, Breaks(c) PROVE Owned'
  BY <1>9, <1>a DEF Breaks
<1>10. ASSUME NEW c \in Callers, Close(c) PROVE Owned'
  BY <1>10, <1>a DEF Close
<1>11. ASSUME NEW c \in Callers, Unlock(c) PROVE Owned'
  BY <1>11, <1>a DEF Unlock
<1>12. CASE ShellRuns \/ ShellPrompts \/ Boot
  <2>1. UNCHANGED <<pc, lock, port, lost>>
    BY <1>12 DEF ShellRuns, ShellPrompts, Boot
  <2>2. QED
    BY <2>1
<1>13. CASE Reset
  <2>1. pc' = pc /\ lock' = lock /\ lost' = (port \in Callers)
    BY <1>13 DEF Reset
  <2>2. \A c \in Callers : port' = c <=> port = c
    BY <1>13 DEF Reset
  <2>3. port \in Callers => port' \in Callers
    BY <2>2
  <2>4. lost' => port' \in Callers
    BY <2>1, <2>3, Zenon
  <2>5. QED
    BY <2>1, <2>2, <2>4
<1>14. CASE TerminalOpens \/ TerminalCloses
  BY <1>14, <1>a DEF TerminalOpens, TerminalCloses
<1>15. CASE UNCHANGED vars
  BY <1>15 DEF vars
<1>16. QED
  BY <1>1, <1>2, <1>3, <1>4, <1>5, <1>6, <1>7, <1>8, <1>9, <1>10, <1>11, <1>12, <1>13, <1>14, <1>15
     DEF Next, Step

\* No lock and no port at the start.
LEMMA OwnedInit == Init => Owned
BY NamesAssumption DEF Init, Owned

\* No process finds the port taken by another one (board-mcp.py:145: the lock is held
\* for the whole conversation).
THEOREM NoCollision == Spec => []NobodyCollides
<1>1. Owned => NobodyCollides
  BY DEF Owned, NobodyCollides
<1>2. Init => TypeOK
  BY TypeInit
<1>3. QED
  BY <1>1, <1>2, OwnedInit, TypeStep, OwnedStep, PTL DEF Spec

-----------------------------------------------------------------------------
(* Conversations that begin on a quiet console. *)

\* The sequences of one element that a conversation meets, read and taken apart.
LEMMA OneElement ==
  ASSUME NEW x
  PROVE  /\ Len(<<x>>) = 1 /\ Head(<<x>>) = x /\ Tail(<<x>>) = << >> /\ <<x>> # << >>
         /\ << >> \o <<x>> = <<x>> /\ Append(<< >>, x) = <<x>>
         /\ SubSeq(<<x>>, 1, 1) = <<x>> /\ SubSeq(<<x>>, 2, 1) = << >>
<1>1. <<x>> \in Seq({x}) /\ Len(<<x>>) = 1
  OBVIOUS
<1>2. SubSeq(<<x>>, 1, 1) = <<x>>
  BY <1>1, SubSeqFull
<1>3. Head(<<x>>) = x /\ Tail(<<x>>) = << >> /\ Append(<< >>, x) = <<x>> /\ << >> \o <<x>> = <<x>>
  OBVIOUS
<1>4. SubSeq(<<x>>, 2, 1) = << >>
  OBVIOUS
<1>5. QED
  BY <1>1, <1>2, <1>3, <1>4

\* The same for two.
LEMMA TwoElements ==
  ASSUME NEW x, NEW y
  PROVE  /\ Len(<<x, y>>) = 2 /\ << >> \o <<x, y>> = <<x, y>>
         /\ <<x>> \o <<y>> = <<x, y>> /\ Append(<<x>>, y) = <<x, y>>
         /\ SubSeq(<<x, y>>, 1, 1) = <<x>> /\ SubSeq(<<x, y>>, 2, 2) = <<y>>
         /\ SubSeq(<<x, y>>, 1, 2) = <<x, y>> /\ SubSeq(<<x, y>>, 3, 2) = << >>
<1> DEFINE S == {x, y}
<1>1. /\ <<x, y>> \in Seq(S) /\ Len(<<x, y>>) = 2 /\ <<x, y>>[1] = x /\ <<x, y>>[2] = y
      /\ <<x>> \in Seq(S) /\ <<y>> \in Seq(S) /\ Len(<<x>>) = 1 /\ Len(<<y>>) = 1
      /\ <<x>>[1] = x /\ <<y>>[1] = y
  OBVIOUS
<1> HIDE DEF S
<1>2. SubSeq(<<x, y>>, 1, 2) = <<x, y>>
  BY <1>1, SubSeqFull
<1>3. SubSeq(<<x, y>>, 3, 2) = << >>
  OBVIOUS
<1>a. \A s, t \in Seq(S) : Len(s) = 1 /\ Len(t) = 1 /\ s[1] = t[1] => s = t
  <2>1. SUFFICES ASSUME NEW s \in Seq(S), NEW t \in Seq(S), Len(s) = 1, Len(t) = 1, s[1] = t[1]
                 PROVE  s = t
    OBVIOUS
  <2>2. \A i \in 1 .. Len(s) : s[i] = t[i]
    BY <2>1
  <2>3. QED
    BY <2>1, <2>2, SeqEqual
<1>b. \A s, t \in Seq(S) : Len(s) = 2 /\ Len(t) = 2 /\ s[1] = t[1] /\ s[2] = t[2] => s = t
  <2>1. SUFFICES ASSUME NEW s \in Seq(S), NEW t \in Seq(S), Len(s) = 2, Len(t) = 2,
                        s[1] = t[1], s[2] = t[2]
                 PROVE  s = t
    OBVIOUS
  <2>2. \A i \in 1 .. Len(s) : s[i] = t[i]
    BY <2>1
  <2>3. QED
    BY <2>1, <2>2, SeqEqual
<1>c. x \in S /\ y \in S
  BY DEF S
<1>4. SubSeq(<<x, y>>, 1, 1) = <<x>>
  <2>1. \A i \in 1 .. 1 : <<x, y>>[i] \in S
    BY <1>1, <1>c
  <2>2. /\ SubSeq(<<x, y>>, 1, 1) \in Seq(S) /\ Len(SubSeq(<<x, y>>, 1, 1)) = 1
        /\ SubSeq(<<x, y>>, 1, 1)[1] = x
    BY <1>1, <2>1, SubSeqProperties
  <2>3. QED
    BY <1>1, <1>a, <2>2
<1>5. SubSeq(<<x, y>>, 2, 2) = <<y>>
  <2>1. \A i \in 2 .. 2 : <<x, y>>[i] \in S
    BY <1>1, <1>c
  <2>2. /\ SubSeq(<<x, y>>, 2, 2) \in Seq(S) /\ Len(SubSeq(<<x, y>>, 2, 2)) = 1
        /\ SubSeq(<<x, y>>, 2, 2)[1] = y
    BY <1>1, <2>1, SubSeqProperties
  <2>3. QED
    BY <1>1, <1>a, <2>2
<1>6. <<x>> \o <<y>> = <<x, y>>
  <2>1. /\ <<x>> \o <<y>> \in Seq(S) /\ Len(<<x>> \o <<y>>) = 2
        /\ (<<x>> \o <<y>>)[1] = x /\ (<<x>> \o <<y>>)[2] = y
    BY <1>1, ConcatProperties
  <2>2. QED
    BY <1>1, <1>b, <2>1
<1>7. Append(<<x>>, y) = <<x, y>>
  <2>1. /\ Append(<<x>>, y) \in Seq(S) /\ Len(Append(<<x>>, y)) = 2
        /\ Append(<<x>>, y)[1] = x /\ Append(<<x>>, y)[2] = y
    BY <1>1, <1>c
  <2>2. QED
    BY <1>1, <1>b, <2>1
<1>8. << >> \o <<x, y>> = <<x, y>>
  BY <1>1, ConcatEmptySeq
<1>9. QED
  BY <1>1, <1>2, <1>3, <1>4, <1>5, <1>6, <1>7, <1>8

Answers == Texts \ {"prompt"}

\* The empty line is on its way to the shell, with it, or its prompt is on its way back.
Nudged(c) ==
  /\ got[c] = << >>
  /\ \/ input = <<Line("", number[c])>> /\ running = Nothing /\ output = << >>
     \/ input = << >> /\ running = Line("", number[c]) /\ output = << >>
     \/ input = << >> /\ running = Nothing /\ output = <<Token("prompt", number[c])>>

\* So is the command, and what it printed is on its way back or read.
Asked(c) ==
  \/ /\ input = <<Line(Head(script[c]), number[c])>> /\ running = Nothing
     /\ got[c] = << >> /\ output = << >>
  \/ /\ input = << >> /\ running = Line(Head(script[c]), number[c])
     /\ \E text \in Answers :
          \/ got[c] = << >> /\ output = <<Token(text, number[c])>>
          \/ got[c] = <<Token(text, number[c])>> /\ output = << >>
  \/ /\ input = << >> /\ running = Nothing
     /\ \E text \in Answers :
          \/ /\ got[c] = << >>
             /\ output = <<Token(text, number[c]), Token("prompt", number[c])>>
          \/ /\ got[c] = <<Token(text, number[c])>>
             /\ output = <<Token("prompt", number[c])>>

\* All of it is read.
Complete(c) ==
  \E text \in Answers : got[c] = <<Token(text, number[c]), Token("prompt", number[c])>>

\* What is known of one process.
Part(c) ==
  /\ pc[c] \in {"idle", "lock", "open"} => got[c] = << >>
  /\ port = c /\ ~lost => up
  /\ port = c /\ ~late => clean
  /\ port = c /\ ~late /\ pc[c] = "close" => reply[c] = "ready"
  /\ port = c /\ clean /\ ~lost /\ pc[c] = "sync" => Nudged(c)
  /\ port = c /\ clean /\ ~lost /\ pc[c] = "reading" => Asked(c)
  /\ port = c /\ clean /\ ~lost /\ pc[c] = "close" /\ reply[c] = "ready" => Quiet
  /\ pc[c] \in {"close", "unlock"} /\ reply[c] = "ready" /\ clean => Complete(c)

Calm ==
  /\ ~late => up /\ ~lost
  /\ ~late /\ port \notin Callers => Quiet
  /\ \A c \in Callers : Part(c)

\* While one process has the lock, nothing changes for the others.
LEMMA OthersCalm ==
  ASSUME TypeOK, TypeOK', Owned, Owned', Calm, NEW c \in Callers, lock = c,
         NEW d \in Callers, d # c, pc'[d] = pc[d], got'[d] = got[d]
  PROVE  Part(d)'
<1>1. pc[d] \in {"idle", "lock"}
  BY DEF Owned, TypeOK, Pcs
<1>2. got[d] = << >>
  BY <1>1 DEF Calm, Part
<1>3. pc'[d] \in {"idle", "lock"} /\ got'[d] = << >>
  BY <1>1, <1>2
<1>4. port' # d
  BY <1>3 DEF Owned
<1>5. QED
  BY <1>3, <1>4 DEF Part

\* The shell's two steps take a line through its places.
LEMMA LinesDiffer ==
  ASSUME NEW n
  PROVE  /\ Line("", n) # Nothing /\ Line("", n).command = "" /\ Line("", n).no = n
         /\ \A command \in Commands :
              /\ Line(command, n) # Nothing /\ Line(command, n).command = command
              /\ Line(command, n).no = n /\ command # ""
<1>1. \A a, m : Line(a, m).command = a /\ Line(a, m).no = m
  BY DEF Line
<1>2. Nothing.command = "none"
  BY <1>1 DEF Nothing
<1>3. "none" \notin Commands /\ "" \notin Commands /\ "" # "none"
  BY DEF Commands
<1>4. \A a : a # "none" => Line(a, n) # Nothing
  BY <1>1, <1>2
<1>5. \A command \in Commands : command # "none" /\ command # ""
  BY <1>3
<1>6. QED
  BY <1>1, <1>3, <1>4, <1>5

\* Only the prompt ends a wait.
LEMMA PromptEnds ==
  ASSUME NEW n
  PROVE  /\ Ends(<<Token("prompt", n)>>)
         /\ \A text \in Answers :
              /\ ~Ends(<<Token(text, n)>>)
              /\ Ends(<<Token(text, n), Token("prompt", n)>>)
<1>1. \A text : Token(text, n).text = text
  BY DEF Token
<1>2. "prompt" \notin Answers
  BY DEF Answers
<1>3. \A x : <<x>>[Len(<<x>>)] = x /\ <<x>> # << >>
  OBVIOUS
<1>4. \A x, y : <<x, y>>[Len(<<x, y>>)] = y /\ <<x, y>> # << >>
  OBVIOUS
<1>5. QED
  BY <1>1, <1>2, <1>3, <1>4 DEF Ends

-----------------------------------------------------------------------------
(* Each action keeps the conversations calm. *)

\* A process takes up a conversation.
LEMMA BeginCalm ==
  ASSUME TypeOK, TypeOK', Owned, Owned', Calm, NEW c \in Callers,
         Lock(c) \/ \E tool \in Calls : Call(c, tool)
  PROVE  Calm'
<1>a. UNCHANGED <<port, got, reply, late, lost, clean, input, running, output, up>>
  BY DEF Lock, Call, boardVars, history
<1>b. pc \in [Callers -> Pcs] /\ script \in [Callers -> Seq(Commands)] /\ number \in [Callers -> Nat]
  BY DEF TypeOK
<1>1. (~late => up /\ ~lost)' /\ (~late /\ port \notin Callers => Quiet)'
  BY <1>a DEF Calm, Quiet
<1>2. pc[c] \in {"idle", "lock"} /\ pc'[c] \in {"lock", "open"}
  BY <1>b DEF Lock, Call
<1>3. port # c /\ port' # c
  BY <1>2 DEF Owned
<1>4. Part(c)'
  BY <1>2, <1>3, <1>a DEF Part, Calm
<1>5. ASSUME NEW d \in Callers, d # c PROVE Part(d)'
  <2>1. pc'[d] = pc[d] /\ script'[d] = script[d] /\ number'[d] = number[d]
    BY <1>5, <1>b DEF Lock, Call
  <2>2. Part(d)
    BY DEF Calm
  <2>3. Nudged(d) => Nudged(d)'
    BY <2>1, <1>a DEF Nudged
  <2>4. Asked(d) => Asked(d)'
    BY <2>1, <1>a DEF Asked
  <2>5. Complete(d) => Complete(d)'
    BY <2>1, <1>a DEF Complete
  <2>6. Quiet => Quiet'
    BY <1>a DEF Quiet
  <2> HIDE DEF Nudged, Asked, Complete, Quiet
  <2>7. QED
    BY <2>1, <2>2, <2>3, <2>4, <2>5, <2>6, <1>a DEF Part
<1>6. QED
  BY <1>1, <1>4, <1>5 DEF Calm

\* A process opens the port: the empty line is all there is, if the console was quiet.
LEMMA OpenCalm ==
  ASSUME TypeOK, TypeOK', Owned, Owned', Calm, NEW c \in Callers, Open(c)
  PROVE  Calm'
<1>b. /\ pc \in [Callers -> Pcs] /\ output \in Seq(Tokens) /\ port' = c /\ pc[c] = "open"
      /\ pc'[c] = "sync" /\ lock = c /\ up /\ up' = up /\ lost' = lost /\ late' = late
      /\ got' = got /\ number' = number /\ running' = running
  BY DEF TypeOK, Owned, Open
<1>1. clean' => Nudged(c)'
  <2>1. got'[c] = << >>
    BY <1>b DEF Calm, Part
  <2>2. clean' => input = << >> /\ running = Nothing /\ output' = << >>
    BY DEF Open
  <2>3. input' = Append(input, Line("", number[c]))
    BY DEF Open
  <2>4. clean' => input' = <<Line("", number[c])>>
    BY <2>2, <2>3, OneElement
  <2>5. QED
    BY <2>1, <2>2, <2>4, <1>b DEF Nudged
<1>2. ~late => clean'
  <2>1. port \notin Callers
    BY NamesAssumption DEF Open
  <2>2. ~late => input = << >> /\ running = Nothing /\ output = << >>
    BY <2>1 DEF Calm, Quiet
  <2>3. PICK k \in 0 .. Len(output) : output' = SubSeq(output, k + 1, Len(output))
    BY DEF Open, Flush
  <2>4. ~late => output' = << >>
    BY <2>2, <2>3
  <2>5. QED
    BY <2>2, <2>4 DEF Open
<1>3. Part(c)'
  BY <1>1, <1>2, <1>b DEF Part
<1>4. ASSUME NEW d \in Callers, d # c PROVE Part(d)'
  BY <1>4, <1>b, OthersCalm DEF Open
<1>5. (~late => up /\ ~lost)' /\ port' \in Callers
  BY <1>b DEF Calm
<1>6. QED
  BY <1>3, <1>4, <1>5 DEF Calm

\* What a chunk of the output can be.
LEMMA OneChunk ==
  ASSUME NEW c \in Callers, NEW x, output = <<x>>, NEW k \in 1 .. Len(output)
  PROVE  /\ SubSeq(output, k + 1, Len(output)) = << >>
         /\ got[c] = << >> => Chunk(c, k) = <<x>>
         /\ \A y : got[c] = <<y>> => Chunk(c, k) = <<y, x>>
<1>1. Len(output) = 1 /\ k = 1
  BY OneElement
<1>2. SubSeq(output, 1, 1) = <<x>> /\ SubSeq(output, 2, 1) = << >>
  BY OneElement
<1>3. SubSeq(output, k + 1, Len(output)) = << >>
  BY <1>1, <1>2
<1>4. Chunk(c, k) = got[c] \o <<x>>
  BY <1>1, <1>2 DEF Chunk
<1>5. << >> \o <<x>> = <<x>>
  BY OneElement
<1>6. \A y : <<y>> \o <<x>> = <<y, x>>
  BY TwoElements
<1>7. QED
  BY <1>3, <1>4, <1>5, <1>6

\* The same for two pieces of output.
LEMMA TwoChunk ==
  ASSUME NEW c \in Callers, NEW x, NEW y, output = <<x, y>>, got[c] = << >>,
         NEW k \in 1 .. Len(output)
  PROVE  \/ Chunk(c, k) = <<x>> /\ SubSeq(output, k + 1, Len(output)) = <<y>>
         \/ Chunk(c, k) = <<x, y>> /\ SubSeq(output, k + 1, Len(output)) = << >>
<1>1. Len(output) = 2
  BY TwoElements
<1>2. k = 1 \/ k = 2
  BY <1>1
<1>3. CASE k = 1
  <2>0. SubSeq(<<x, y>>, 2, 2) = <<y>>
    BY TwoElements
  <2>1. SubSeq(output, k + 1, Len(output)) = <<y>>
    BY <1>1, <1>3, <2>0
  <2>2. Chunk(c, k) = << >> \o <<x>>
    BY <1>3, TwoElements DEF Chunk
  <2>3. Chunk(c, k) = <<x>>
    BY <2>2, OneElement
  <2>4. QED
    BY <2>1, <2>3
<1>4. CASE k = 2
  <2>1. SubSeq(output, k + 1, Len(output)) = << >>
    BY <1>1, <1>4, TwoElements
  <2>2. Chunk(c, k) = << >> \o <<x, y>>
    BY <1>4, TwoElements DEF Chunk
  <2>3. Chunk(c, k) = <<x, y>>
    BY <2>2, TwoElements
  <2>4. QED
    BY <2>1, <2>3
<1>5. QED
  BY <1>2, <1>3, <1>4

\* A process reads on only before the prompt.
LEMMA ReadOnCalm ==
  ASSUME TypeOK, TypeOK', Owned, Owned', Calm, NEW c \in Callers, ReadOn(c)
  PROVE  Calm'
<1>b. /\ got \in [Callers -> Seq(Tokens)] /\ port = c /\ ~lost /\ pc[c] \in {"sync", "reading"}
      /\ lock = c
      /\ UNCHANGED <<pc, script, number, reply, port, lost, up, clean, late, input, running>>
  BY DEF TypeOK, Owned, ReadOn, history
<1>k. PICK k \in 1 .. Len(output) :
        /\ ~Ends(Chunk(c, k))
        /\ got' = [got EXCEPT ![c] = Chunk(c, k)]
        /\ output' = SubSeq(output, k + 1, Len(output))
  BY DEF ReadOn
<1>p. Part(c)
  BY DEF Calm
<1>0. got'[c] = Chunk(c, k)
  BY <1>b, <1>k
<1>n. output # << >>
  BY <1>k
<1>1. clean => pc[c] # "sync"
  <2> SUFFICES ASSUME clean, pc[c] = "sync" PROVE FALSE
    OBVIOUS
  <2>1. Nudged(c)
    BY <1>b, <1>p DEF Part
  <2>2. got[c] = << >> /\ output = <<Token("prompt", number[c])>>
    BY <2>1, <1>n DEF Nudged
  <2>3. Chunk(c, k) = <<Token("prompt", number[c])>>
    BY <2>2, OneChunk
  <2>4. QED
    BY <2>3, <1>k, PromptEnds
<1>2. clean /\ pc[c] = "reading" => Asked(c)'
  <2> SUFFICES ASSUME clean, pc[c] = "reading" PROVE Asked(c)'
    OBVIOUS
  <2>1. Asked(c)
    BY <1>b, <1>p DEF Part
  <2>2. CASE /\ input = << >> /\ running = Line(Head(script[c]), number[c])
             /\ \E text \in Answers :
                  \/ got[c] = << >> /\ output = <<Token(text, number[c])>>
                  \/ got[c] = <<Token(text, number[c])>> /\ output = << >>
    <3>1. PICK text \in Answers : got[c] = << >> /\ output = <<Token(text, number[c])>>
      BY <2>2, <1>n
    <3>2. got'[c] = <<Token(text, number[c])>> /\ output' = << >>
      BY <3>1, <1>0, <1>k, OneChunk
    <3>3. QED
      BY <2>2, <3>2, <1>b DEF Asked
  <2>3. CASE /\ input = << >> /\ running = Nothing
             /\ \E text \in Answers :
                  \/ /\ got[c] = << >>
                     /\ output = <<Token(text, number[c]), Token("prompt", number[c])>>
                  \/ /\ got[c] = <<Token(text, number[c])>>
                     /\ output = <<Token("prompt", number[c])>>
    <3>1. PICK text \in Answers :
            \/ /\ got[c] = << >>
               /\ output = <<Token(text, number[c]), Token("prompt", number[c])>>
            \/ /\ got[c] = <<Token(text, number[c])>>
               /\ output = <<Token("prompt", number[c])>>
      BY <2>3
    <3>2. CASE got[c] = << >> /\ output = <<Token(text, number[c]), Token("prompt", number[c])>>
      <4>0. Chunk(c, k) # <<Token(text, number[c]), Token("prompt", number[c])>>
        BY PromptEnds, <1>k
      <4>1. /\ Chunk(c, k) = <<Token(text, number[c])>>
            /\ SubSeq(output, k + 1, Len(output)) = <<Token("prompt", number[c])>>
        BY <3>2, <4>0, TwoChunk
      <4>2. got'[c] = <<Token(text, number[c])>> /\ output' = <<Token("prompt", number[c])>>
        BY <4>1, <1>0, <1>k
      <4>3. QED
        BY <2>3, <4>2, <1>b DEF Asked
    <3>3. CASE got[c] = <<Token(text, number[c])>> /\ output = <<Token("prompt", number[c])>>
      <4>1. Chunk(c, k) = <<Token(text, number[c]), Token("prompt", number[c])>>
        BY <3>3, OneChunk
      <4>2. QED
        BY <4>1, <1>k, PromptEnds
    <3>4. QED
      BY <3>1, <3>2, <3>3
  <2>4. QED
    BY <2>1, <2>2, <2>3, <1>n DEF Asked
<1>3. Part(c)'
  BY <1>1, <1>2, <1>b, <1>p DEF Part
<1>4. ASSUME NEW d \in Callers, d # c PROVE Part(d)'
  <2>1. pc'[d] = pc[d] /\ got'[d] = got[d]
    BY <1>4, <1>b, <1>k
  <2>2. QED
    BY <1>4, <2>1, <1>b, OthersCalm
<1>5. QED
  BY <1>3, <1>4, <1>b DEF Calm

\* A process sends its command when all of the answer to the empty line is read.
LEMMA SendCalm ==
  ASSUME TypeOK, TypeOK', Owned, Owned', Calm, NEW c \in Callers, Send(c)
  PROVE  Calm'
<1>b. /\ got \in [Callers -> Seq(Tokens)] /\ pc \in [Callers -> Pcs]
      /\ port = c /\ ~lost /\ pc[c] = "sync" /\ pc'[c] = "reading" /\ lock = c
      /\ got' = [got EXCEPT ![c] = << >>]
      /\ UNCHANGED <<script, number, reply, port, lost, up, clean, late, running>>
  BY DEF TypeOK, Owned, Send, history
<1>m. PICK m \in 1 .. Len(output) : output' = SubSeq(output, m + 1, Len(output))
  BY DEF Send
<1>n. output # << >>
  BY <1>m
<1>p. Part(c)
  BY DEF Calm
<1>1. clean => Asked(c)'
  <2> SUFFICES ASSUME clean PROVE Asked(c)'
    OBVIOUS
  <2>1. Nudged(c)
    BY <1>b, <1>p DEF Part
  <2>2. input = << >> /\ running = Nothing /\ output = <<Token("prompt", number[c])>>
    BY <2>1, <1>n DEF Nudged
  <2>3. output' = << >>
    BY <2>2, <1>m, OneChunk
  <2>4. input' = Append(input, Line(Head(script[c]), number[c]))
    BY DEF Send
  <2>5. input' = <<Line(Head(script[c]), number[c])>>
    BY <2>2, <2>4, OneElement
  <2>6. got'[c] = << >>
    BY <1>b
  <2>7. QED
    BY <2>2, <2>3, <2>5, <2>6, <1>b DEF Asked
<1>2. Part(c)'
  BY <1>1, <1>b, <1>p DEF Part
<1>3. ASSUME NEW d \in Callers, d # c PROVE Part(d)'
  <2>1. pc'[d] = pc[d] /\ got'[d] = got[d]
    BY <1>3, <1>b DEF Send
  <2>2. QED
    BY <1>3, <2>1, <1>b, OthersCalm
<1>4. QED
  BY <1>2, <1>3, <1>b DEF Calm

\* A process has its answer with the prompt: the console is quiet again.
LEMMA ReadReplyCalm ==
  ASSUME TypeOK, TypeOK', Owned, Owned', Calm, NEW c \in Callers, ReadReply(c)
  PROVE  Calm'
<1>b. /\ got \in [Callers -> Seq(Tokens)] /\ pc \in [Callers -> Pcs]
      /\ reply \in [Callers -> {"none", "ready", "late", "silent", "busy", "broken"}]
      /\ port = c /\ ~lost /\ pc[c] = "reading" /\ pc'[c] = "close" /\ lock = c
      /\ reply' = [reply EXCEPT ![c] = "ready"]
      /\ UNCHANGED <<script, number, port, lost, up, clean, late, input, running>>
  BY DEF TypeOK, Owned, ReadReply, history
<1>k. PICK k \in 1 .. Len(output) :
        /\ Ends(Chunk(c, k))
        /\ got' = [got EXCEPT ![c] = Chunk(c, k)]
        /\ output' = SubSeq(output, k + 1, Len(output))
  BY DEF ReadReply
<1>p. Part(c)
  BY DEF Calm
<1>0. got'[c] = Chunk(c, k)
  BY <1>b, <1>k
<1>n. output # << >>
  BY <1>k
<1>1. clean => Complete(c)' /\ Quiet'
  <2> SUFFICES ASSUME clean PROVE Complete(c)' /\ Quiet'
    OBVIOUS
  <2>1. Asked(c)
    BY <1>b, <1>p DEF Part
  <2>2. ~ \E text \in Answers : got[c] = << >> /\ output = <<Token(text, number[c])>>
    <3> SUFFICES ASSUME NEW text \in Answers, got[c] = << >>, output = <<Token(text, number[c])>>
                 PROVE  FALSE
      OBVIOUS
    <3>1. Chunk(c, k) = <<Token(text, number[c])>>
      BY OneChunk
    <3>2. QED
      BY <3>1, <1>k, PromptEnds
  <2>3. /\ input = << >> /\ running = Nothing
        /\ \E text \in Answers :
             \/ /\ got[c] = << >>
                /\ output = <<Token(text, number[c]), Token("prompt", number[c])>>
             \/ /\ got[c] = <<Token(text, number[c])>>
                /\ output = <<Token("prompt", number[c])>>
    BY <2>1, <2>2, <1>n DEF Asked
  <2>4. PICK text \in Answers :
          \/ /\ got[c] = << >>
             /\ output = <<Token(text, number[c]), Token("prompt", number[c])>>
          \/ /\ got[c] = <<Token(text, number[c])>>
             /\ output = <<Token("prompt", number[c])>>
    BY <2>3
  <2>5. CASE got[c] = << >> /\ output = <<Token(text, number[c]), Token("prompt", number[c])>>
    <3>0. Chunk(c, k) # <<Token(text, number[c])>>
      BY PromptEnds, <1>k
    <3>1. /\ Chunk(c, k) = <<Token(text, number[c]), Token("prompt", number[c])>>
          /\ SubSeq(output, k + 1, Len(output)) = << >>
      BY <2>5, <3>0, TwoChunk
    <3>2. QED
      BY <2>3, <3>1, <1>0, <1>k, <1>b DEF Complete, Quiet
  <2>6. CASE got[c] = <<Token(text, number[c])>> /\ output = <<Token("prompt", number[c])>>
    <3>1. /\ Chunk(c, k) = <<Token(text, number[c]), Token("prompt", number[c])>>
          /\ SubSeq(output, k + 1, Len(output)) = << >>
      BY <2>6, OneChunk
    <3>2. QED
      BY <2>3, <3>1, <1>0, <1>k, <1>b DEF Complete, Quiet
  <2>7. QED
    BY <2>4, <2>5, <2>6
<1>2. reply'[c] = "ready"
  BY <1>b
<1>3. Part(c)'
  BY <1>1, <1>2, <1>b, <1>p DEF Part
<1>4. ASSUME NEW d \in Callers, d # c PROVE Part(d)'
  <2>1. pc'[d] = pc[d] /\ got'[d] = got[d]
    BY <1>4, <1>b, <1>k DEF ReadReply
  <2>2. QED
    BY <1>4, <2>1, <1>b, OthersCalm
<1>5. QED
  BY <1>3, <1>4, <1>b DEF Calm

\* A conversation that fails promises nothing.
LEMMA FailCalm ==
  ASSUME TypeOK, TypeOK', Owned, Owned', Calm, NEW c \in Callers,
         OpenFails(c) \/ TimeOut(c) \/ Breaks(c)
  PROVE  Calm'
<1>b. /\ pc \in [Callers -> Pcs] /\ lock = c /\ lock' = c
      /\ reply \in [Callers -> {"none", "ready", "late", "silent", "busy", "broken"}]
      /\ UNCHANGED <<got, port, lost, up, clean, input, running, output>>
  BY DEF TypeOK, Owned, OpenFails, TimeOut, Breaks, boardVars, history
<1>1. reply'[c] # "ready" /\ pc'[c] \in {"close", "unlock"}
  BY <1>b DEF OpenFails, TimeOut, Breaks
<1>2. ~late' => ~late
  BY DEF OpenFails, TimeOut, Breaks, history
<1>3. pc'[c] = "close" => late'
  <2>1. CASE OpenFails(c)
    BY <2>1, <1>b DEF OpenFails
  <2>2. CASE TimeOut(c)
    BY <2>2 DEF TimeOut
  <2>3. CASE Breaks(c)
    BY <2>3, <1>2 DEF Breaks, Calm, history
  <2>4. QED
    BY <2>1, <2>2, <2>3
<1>4. Part(c)'
  BY <1>1, <1>2, <1>3, <1>b DEF Part, Calm
<1>5. ASSUME NEW d \in Callers, d # c PROVE Part(d)'
  <2>1. pc'[d] = pc[d] /\ got'[d] = got[d]
    BY <1>5, <1>b DEF OpenFails, TimeOut, Breaks
  <2>2. QED
    BY <1>5, <2>1, <1>b, OthersCalm
<1>6. (~late => up /\ ~lost)' /\ (~late /\ port \notin Callers => Quiet)'
  BY <1>2, <1>b DEF Calm, Quiet
<1>7. QED
  BY <1>4, <1>5, <1>6 DEF Calm

\* A process closes the port: what it leaves is quiet, or somebody gave up.
LEMMA CloseCalm ==
  ASSUME TypeOK, TypeOK', Owned, Owned', Calm, NEW c \in Callers, Close(c)
  PROVE  Calm'
<1>b. /\ pc \in [Callers -> Pcs] /\ lock = c /\ port = c /\ port' = Nobody
      /\ pc[c] = "close" /\ pc' = [pc EXCEPT ![c] = "unlock"] /\ ~lost'
      /\ UNCHANGED <<got, number, reply, late, up, clean, input, running, output>>
  BY DEF TypeOK, Owned, Close, boardVars, history
<1>p. Part(c)
  BY DEF Calm
<1>1. ~late => Quiet
  <2>1. ~late => clean /\ ~lost /\ reply[c] = "ready"
    BY <1>b, <1>p DEF Part, Calm
  <2>2. QED
    BY <2>1, <1>b, <1>p DEF Part
<1>2. (~late => up /\ ~lost)' /\ (~late /\ port \notin Callers => Quiet)'
  BY <1>1, <1>b DEF Calm, Quiet
<1>3. Complete(c) => Complete(c)'
  BY <1>b DEF Complete
<1>4. port' # c /\ pc'[c] = "unlock"
  BY <1>b, NamesAssumption
<1>5. Part(c)'
  BY <1>3, <1>4, <1>b, <1>p DEF Part
<1>6. ASSUME NEW d \in Callers, d # c PROVE Part(d)'
  BY <1>6, <1>b, OthersCalm
<1>7. QED
  BY <1>2, <1>5, <1>6 DEF Calm

\* A process lets go of the lock, and what it has read is forgotten.
LEMMA UnlockCalm ==
  ASSUME TypeOK, TypeOK', Owned, Owned', Calm, NEW c \in Callers, Unlock(c)
  PROVE  Calm'
<1>b. /\ pc \in [Callers -> Pcs] /\ got \in [Callers -> Seq(Tokens)] /\ lock = c
      /\ pc[c] = "unlock" /\ pc' = [pc EXCEPT ![c] = Goes(Rest(c))]
      /\ got' = [got EXCEPT ![c] = << >>]
      /\ UNCHANGED <<port, lost, late, up, input, running, output>>
  BY DEF TypeOK, Owned, Unlock, boardVars
<1>1. port # c /\ port \notin Callers
  BY <1>b DEF Owned
<1>2. pc'[c] \in {"idle", "lock"} /\ got'[c] = << >>
  BY <1>b
<1>3. Part(c)'
  BY <1>1, <1>2, <1>b DEF Part
<1>4. ASSUME NEW d \in Callers, d # c PROVE Part(d)'
  <2>1. pc'[d] = pc[d] /\ got'[d] = got[d]
    BY <1>4, <1>b
  <2>2. QED
    BY <1>4, <2>1, <1>b, OthersCalm
<1>5. (~late => up /\ ~lost)' /\ (~late /\ port \notin Callers => Quiet)'
  BY <1>b DEF Calm, Quiet
<1>6. QED
  BY <1>3, <1>4, <1>5 DEF Calm

\* The shell takes a line and prints what its command says.
LEMMA RunsCalm ==
  ASSUME TypeOK, Calm, ShellRuns
  PROVE  Calm'
<1>b. /\ input # << >> /\ running = Nothing /\ running' = Head(input) /\ input' = Tail(input)
      /\ UNCHANGED <<pc, script, number, reply, got, port, lost, late, up, clean>>
  BY DEF ShellRuns, hostVars, history
<1>o. output' = IF Head(input).command = "" THEN output
                ELSE Append(output, Token(Printed(Head(input).command), Head(input).no))
  BY DEF ShellRuns
<1>q. ~Quiet
  BY <1>b DEF Quiet
<1>1. (~late => up /\ ~lost)' /\ (~late /\ port \notin Callers => Quiet)'
  BY <1>b, <1>q DEF Calm
<1>2. ASSUME NEW c \in Callers PROVE Part(c)'
  <2>p. Part(c)
    BY DEF Calm
  <2>1. Nudged(c) => Nudged(c)'
    <3> SUFFICES ASSUME Nudged(c) PROVE Nudged(c)'
      OBVIOUS
    <3>1. got[c] = << >> /\ input = <<Line("", number[c])>> /\ output = << >>
      BY <1>b, LinesDiffer DEF Nudged
    <3>2. Head(input) = Line("", number[c]) /\ Tail(input) = << >>
      BY <3>1, OneElement
    <3>3. output' = << >>
      BY <1>o, <3>1, <3>2, LinesDiffer
    <3>4. QED
      BY <1>b, <3>1, <3>2, <3>3 DEF Nudged
  <2>2. pc[c] = "reading" /\ Asked(c) => Asked(c)'
    <3> SUFFICES ASSUME pc[c] = "reading", Asked(c) PROVE Asked(c)'
      OBVIOUS
    <3>0. Head(script[c]) \in Commands
      BY DEF TypeOK
    <3>1. /\ got[c] = << >> /\ output = << >>
          /\ input = <<Line(Head(script[c]), number[c])>>
      BY <1>b, <3>0, LinesDiffer DEF Asked
    <3>2. Head(input) = Line(Head(script[c]), number[c]) /\ Tail(input) = << >>
      BY <3>1, OneElement
    <3>a. /\ Head(input).command = Head(script[c]) /\ Head(input).no = number[c]
          /\ Head(input).command # ""
      <4>1. \A command \in Commands : LET line == Line(command, number[c]) IN
              line.command = command /\ line.no = number[c] /\ command # ""
        BY LinesDiffer
      <4>2. QED
        BY <3>0, <3>2, <4>1
    <3>b. output' = Append(output, Token(Printed(Head(input).command), Head(input).no))
      BY <1>o, <3>a
    <3>3. output' = Append(<< >>, Token(Printed(Head(script[c])), number[c]))
      BY <3>1, <3>a, <3>b
    <3>4. output' = <<Token(Printed(Head(script[c])), number[c])>>
      BY <3>3, OneElement
    <3>5. Printed(Head(script[c])) \in Answers
      BY <3>0, PrintedType DEF Answers
    <3>6. QED
      BY <1>b, <3>1, <3>2, <3>4, <3>5 DEF Asked
  <2>3. Complete(c) => Complete(c)'
    BY <1>b DEF Complete
  <2>4. QED
    BY <1>b, <1>q, <2>p, <2>1, <2>2, <2>3 DEF Part
<1>3. QED
  BY <1>1, <1>2 DEF Calm

\* The shell prompts.
LEMMA PromptsCalm ==
  ASSUME TypeOK, Calm, ShellPrompts
  PROVE  Calm'
<1>b. /\ running # Nothing /\ running' = Nothing
      /\ output' = Append(output, Token("prompt", running.no))
      /\ UNCHANGED <<pc, script, number, reply, got, port, lost, late, up, clean, input>>
  BY DEF ShellPrompts, hostVars, history
<1>q. ~Quiet
  BY <1>b DEF Quiet
<1>1. (~late => up /\ ~lost)' /\ (~late /\ port \notin Callers => Quiet)'
  BY <1>b, <1>q DEF Calm
<1>2. ASSUME NEW c \in Callers PROVE Part(c)'
  <2>p. Part(c)
    BY DEF Calm
  <2>1. Nudged(c) => Nudged(c)'
    <3> SUFFICES ASSUME Nudged(c) PROVE Nudged(c)'
      OBVIOUS
    <3>1. got[c] = << >> /\ input = << >> /\ running = Line("", number[c]) /\ output = << >>
      BY <1>b DEF Nudged
    <3>2. output' = Append(<< >>, Token("prompt", number[c]))
      BY <1>b, <3>1, LinesDiffer
    <3>3. output' = <<Token("prompt", number[c])>>
      BY <3>2, OneElement
    <3>4. QED
      BY <1>b, <3>1, <3>3 DEF Nudged
  <2>2. pc[c] = "reading" /\ Asked(c) => Asked(c)'
    <3> SUFFICES ASSUME pc[c] = "reading", Asked(c) PROVE Asked(c)'
      OBVIOUS
    <3>0. Head(script[c]) \in Commands
      BY DEF TypeOK
    <3>1. /\ input = << >> /\ running = Line(Head(script[c]), number[c])
          /\ \E text \in Answers :
               \/ got[c] = << >> /\ output = <<Token(text, number[c])>>
               \/ got[c] = <<Token(text, number[c])>> /\ output = << >>
      BY <1>b DEF Asked
    <3>2. output' = Append(output, Token("prompt", number[c]))
      BY <1>b, <3>0, <3>1, LinesDiffer
    <3>3. PICK text \in Answers :
            \/ got[c] = << >> /\ output = <<Token(text, number[c])>>
            \/ got[c] = <<Token(text, number[c])>> /\ output = << >>
      BY <3>1
    <3>4. CASE got[c] = << >> /\ output = <<Token(text, number[c])>>
      <4>1. output' = <<Token(text, number[c]), Token("prompt", number[c])>>
        BY <3>2, <3>4, TwoElements
      <4>2. QED
        BY <1>b, <3>1, <3>4, <4>1 DEF Asked
    <3>5. CASE got[c] = <<Token(text, number[c])>> /\ output = << >>
      <4>1. output' = <<Token("prompt", number[c])>>
        BY <3>2, <3>5, OneElement
      <4>2. QED
        BY <1>b, <3>1, <3>5, <4>1 DEF Asked
    <3>6. QED
      BY <3>3, <3>4, <3>5
  <2>3. Complete(c) => Complete(c)'
    BY <1>b DEF Complete
  <2>4. QED
    BY <1>b, <1>q, <2>p, <2>1, <2>2, <2>3 DEF Part
<1>3. QED
  BY <1>1, <1>2 DEF Calm

\* The board goes and comes, and a terminal does, while no conversation is told so.
LEMMA OutsideCalm ==
  ASSUME TypeOK, Owned, Calm, Reset \/ Boot \/ TerminalOpens \/ TerminalCloses
  PROVE  Calm'
<1>b. UNCHANGED <<pc, script, number, reply, got, clean>>
  BY DEF Reset, Boot, TerminalOpens, TerminalCloses, hostVars, history
<1>0. \A c \in Callers : (Complete(c) => Complete(c)') /\ Part(c)
  BY <1>b DEF Complete, Calm
<1>1. CASE Reset
  <2>1. late' /\ (port' \in Callers => lost')
    BY <1>1, NamesAssumption DEF Reset
  <2>2. \A c \in Callers : Part(c)'
    BY <1>b, <1>0, <2>1 DEF Part
  <2>3. QED
    BY <2>1, <2>2 DEF Calm
<1>2. CASE Boot
  <2>1. ~up /\ up' /\ late /\ late' /\ port' = port /\ lost' = lost
    BY <1>2 DEF Boot, Calm, hostVars, history
  <2>2. \A c \in Callers : Part(c)'
    BY <1>b, <1>0, <2>1 DEF Part
  <2>3. QED
    BY <2>1, <2>2 DEF Calm
<1>3. CASE TerminalOpens \/ TerminalCloses
  <2>1. /\ port \notin Callers /\ port' \notin Callers
        /\ UNCHANGED <<lost, late, up, input, running, output>>
    BY <1>3, NamesAssumption DEF TerminalOpens, TerminalCloses, boardVars, history
  <2>2. \A c \in Callers : Part(c)'
    BY <1>b, <1>0, <2>1 DEF Part
  <2>3. (~late => up /\ ~lost)' /\ (~late => Quiet)'
    BY <2>1 DEF Calm, Quiet
  <2>4. QED
    BY <2>2, <2>3 DEF Calm
<1>4. QED
  BY <1>1, <1>2, <1>3

\* A step that changes nothing.
LEMMA StutterCalm ==
  ASSUME Calm, UNCHANGED vars
  PROVE  Calm'
<1>1. UNCHANGED <<pc, script, number, reply, got, port, lost, late, up, clean, input, running,
                  output>>
  BY DEF vars, hostVars, boardVars, history
<1>2. \A c \in Callers : Part(c)'
  BY <1>1 DEF Calm, Part, Nudged, Asked, Complete, Quiet
<1>3. QED
  BY <1>1, <1>2 DEF Calm, Quiet

\* The three invariants hold together.
LEMMA CalmStep == TypeOK /\ Owned /\ Calm /\ [Next]_vars => Calm'
<1> SUFFICES ASSUME TypeOK, Owned, Calm, [Next]_vars PROVE Calm'
  OBVIOUS
<1>1. TypeOK' /\ Owned'
  BY TypeStep, OwnedStep
<1>2. ASSUME NEW c \in Callers, (\E tool \in Calls : Call(c, tool)) \/ Lock(c) PROVE Calm'
  BY <1>1, <1>2, BeginCalm
<1>3. ASSUME NEW c \in Callers, Open(c) PROVE Calm'
  BY <1>1, <1>3, OpenCalm
<1>4. ASSUME NEW c \in Callers, ReadOn(c) PROVE Calm'
  BY <1>1, <1>4, ReadOnCalm
<1>5. ASSUME NEW c \in Callers, Send(c) PROVE Calm'
  BY <1>1, <1>5, SendCalm
<1>6. ASSUME NEW c \in Callers, ReadReply(c) PROVE Calm'
  BY <1>1, <1>6, ReadReplyCalm
<1>7. ASSUME NEW c \in Callers, OpenFails(c) \/ TimeOut(c) \/ Breaks(c) PROVE Calm'
  BY <1>1, <1>7, FailCalm
<1>8. ASSUME NEW c \in Callers, Close(c) PROVE Calm'
  BY <1>1, <1>8, CloseCalm
<1>9. ASSUME NEW c \in Callers, Unlock(c) PROVE Calm'
  BY <1>1, <1>9, UnlockCalm
<1>10. ShellRuns \/ ShellPrompts => Calm'
  BY RunsCalm, PromptsCalm
<1>11. Reset \/ Boot \/ TerminalOpens \/ TerminalCloses => Calm'
  BY OutsideCalm
<1>12. UNCHANGED vars => Calm'
  BY StutterCalm
<1>13. QED
  BY <1>2, <1>3, <1>4, <1>5, <1>6, <1>7, <1>8, <1>9, <1>10, <1>11, <1>12 DEF Next, Step

\* The console is quiet and nobody speaks at the start.
LEMMA CalmInit == Init => Calm
<1> SUFFICES ASSUME Init PROVE Calm
  OBVIOUS
<1>1. \A c \in Callers : pc[c] = "idle" /\ got[c] = << >> /\ port # c
  BY NamesAssumption DEF Init
<1>2. \A c \in Callers : Part(c)
  BY <1>1 DEF Part
<1>3. up /\ ~lost /\ Quiet
  BY DEF Init, Quiet
<1>4. QED
  BY <1>2, <1>3 DEF Calm

\* As long as nothing gives up, no output of one conversation is left for the next
\* (board-mcp.py:118-122, 183-191).
THEOREM QuietAfterEach == Spec => []QuietBetween
<1>1. Calm => QuietBetween
  BY DEF Calm, QuietBetween
<1>2. QED
  BY <1>1, TypeInit, OwnedInit, CalmInit, TypeStep, OwnedStep, CalmStep, PTL DEF Spec

\* A conversation that begins on a quiet console returns its own command's output, the
\* whole of it, for any processes, resets and losses around it (board-mcp.py:184-190).
THEOREM OwnReply == Spec => []ReplyIsOwn
<1>1. Calm => ReplyIsOwn
  BY DEF Calm, Part, Complete, Answers, ReplyIsOwn
<1>2. QED
  BY <1>1, TypeInit, OwnedInit, CalmInit, TypeStep, OwnedStep, CalmStep, PTL DEF Spec
-----------------------------------------------------------------------------
(* Why a second loop is started. *)

Elements(q) == {q[i] : i \in 1 .. Len(q)}

LEMMA ElementsOf ==
  ASSUME NEW S, NEW q \in Seq(S)
  PROVE  /\ Elements(q) \subseteq S
         /\ \A x \in S : Elements(Append(q, x)) = Elements(q) \cup {x}
         /\ q # << >> => Head(q) \in Elements(q) /\ Elements(Tail(q)) \subseteq Elements(q)
         /\ \A k \in 0 .. Len(q) : Elements(SubSeq(q, k + 1, Len(q))) \subseteq Elements(q)
         /\ \A k \in 1 .. Len(q) : \A g \in Seq(S) :
              Elements(g \o SubSeq(q, 1, k)) \subseteq Elements(g) \cup Elements(q)
<1> USE DEF Elements
<1>1. Elements(q) \subseteq S
  OBVIOUS
<1>2. ASSUME NEW x \in S PROVE Elements(Append(q, x)) = Elements(q) \cup {x}
  <2>1. /\ Len(Append(q, x)) = Len(q) + 1 /\ Append(q, x)[Len(q) + 1] = x
        /\ \A i \in 1 .. Len(q) : Append(q, x)[i] = q[i]
    OBVIOUS
  <2>2. Elements(Append(q, x)) \subseteq Elements(q) \cup {x}
    <3> SUFFICES ASSUME NEW i \in 1 .. Len(q) + 1 PROVE Append(q, x)[i] \in Elements(q) \cup {x}
      BY <2>1
    <3>1. CASE i \in 1 .. Len(q)
      BY <2>1, <3>1
    <3>2. CASE i = Len(q) + 1
      BY <2>1, <3>2
    <3>3. QED
      BY <3>1, <3>2
  <2>3. Elements(q) \cup {x} \subseteq Elements(Append(q, x))
    <3>1. \A i \in 1 .. Len(q) : i \in 1 .. Len(q) + 1
      OBVIOUS
    <3>2. Len(q) + 1 \in 1 .. Len(q) + 1
      OBVIOUS
    <3>3. QED
      BY <2>1, <3>1, <3>2
  <2>4. QED
    BY <2>2, <2>3
<1>3. ASSUME q # << >> PROVE Head(q) \in Elements(q) /\ Elements(Tail(q)) \subseteq Elements(q)
  <2>1. /\ Head(q) = q[1] /\ 1 \in 1 .. Len(q) /\ Len(Tail(q)) = Len(q) - 1
        /\ \A i \in 1 .. Len(Tail(q)) : Tail(q)[i] = q[i + 1] /\ i + 1 \in 1 .. Len(q)
    BY <1>3
  <2>2. QED
    BY <2>1
<1>4. ASSUME NEW k \in 0 .. Len(q)
      PROVE  Elements(SubSeq(q, k + 1, Len(q))) \subseteq Elements(q)
  <2>1. /\ k + 1 \in Int /\ Len(q) \in Int /\ \A i \in k + 1 .. Len(q) : q[i] \in S
    OBVIOUS
  <2>2. /\ Len(SubSeq(q, k + 1, Len(q))) = IF k + 1 <= Len(q) THEN Len(q) - k ELSE 0
        /\ \A i \in 1 .. Len(q) - k : SubSeq(q, k + 1, Len(q))[i] = q[k + i]
    BY <2>1, SubSeqProperties
  <2>3. \A i \in 1 .. Len(SubSeq(q, k + 1, Len(q))) :
          SubSeq(q, k + 1, Len(q))[i] = q[k + i] /\ k + i \in 1 .. Len(q)
    BY <2>2
  <2>4. QED
    BY <2>3
<1>5. ASSUME NEW k \in 1 .. Len(q), NEW g \in Seq(S)
      PROVE  Elements(g \o SubSeq(q, 1, k)) \subseteq Elements(g) \cup Elements(q)
  <2> DEFINE h == SubSeq(q, 1, k)
  <2>1. /\ h \in Seq(S) /\ Len(h) = k /\ \A i \in 1 .. k : h[i] = q[i] /\ i \in 1 .. Len(q)
    <3>1. \A i \in 1 .. k : q[i] \in S
      OBVIOUS
    <3>2. QED
      BY <3>1, SubSeqProperties
  <2> HIDE DEF h
  <2>2. Elements(h) \subseteq Elements(q)
    BY <2>1
  <2>3. /\ Len(g \o h) = Len(g) + Len(h)
        /\ \A i \in 1 .. Len(g) + Len(h) :
             (g \o h)[i] = IF i <= Len(g) THEN g[i] ELSE h[i - Len(g)]
    BY <2>1, ConcatProperties
  <2>4. ASSUME NEW i \in 1 .. Len(g \o h) PROVE (g \o h)[i] \in Elements(g) \cup Elements(h)
    <3>1. CASE i <= Len(g)
      BY <2>3, <3>1
    <3>2. CASE ~(i <= Len(g))
      <4>1. i - Len(g) \in 1 .. Len(h)
        BY <2>1, <2>3, <3>2
      <4>2. QED
        BY <2>3, <3>2, <4>1
    <3>3. QED
      BY <3>1, <3>2
  <2>5. Elements(g \o h) \subseteq Elements(g) \cup Elements(h)
    BY <2>4
  <2>6. QED
    BY <2>2, <2>5 DEF h
<1>6. QED
  BY <1>1, <1>2, <1>3, <1>4, <1>5

\* The lines on their way that start a loop: none of them, one at most, and none behind
\* the ps of a conversation.
NoStart(q) == \A i \in 1 .. Len(q) : q[i].command # "start"
OneStart(q) ==
  \A i, j \in 1 .. Len(q) : i < j => ~(q[i].command = "start" /\ q[j].command = "start")
NoneAfter(q, n) ==
  \A i, j \in 1 .. Len(q) : i < j /\ q[i] = Line("ps", n) => q[j].command # "start"

LEMMA StartsSent ==
  ASSUME NEW q \in Seq(Lines), NEW x \in Lines, NEW n
  PROVE  /\ NoStart(q) => OneStart(Append(q, x))
         /\ x.command # "start" => /\ NoStart(q) => NoStart(Append(q, x))
                                   /\ OneStart(q) => OneStart(Append(q, x))
                                   /\ NoneAfter(q, n) => NoneAfter(Append(q, x), n)
<1>1. /\ Len(q) \in Nat /\ Len(Append(q, x)) = Len(q) + 1 /\ Append(q, x)[Len(q) + 1] = x
      /\ \A i \in 1 .. Len(q) : Append(q, x)[i] = q[i]
  OBVIOUS
<1>2. \A i \in 1 .. Len(q) + 1 : i \in 1 .. Len(q) \/ i = Len(q) + 1
  BY <1>1
<1>3. NoStart(q) => OneStart(Append(q, x))
  BY <1>1, <1>2 DEF NoStart, OneStart
<1>4. ASSUME x.command # "start"
      PROVE  /\ NoStart(q) => NoStart(Append(q, x))
             /\ OneStart(q) => OneStart(Append(q, x))
             /\ NoneAfter(q, n) => NoneAfter(Append(q, x), n)
  <2>1. NoStart(q) => NoStart(Append(q, x))
    BY <1>1, <1>2, <1>4 DEF NoStart
  <2>2. OneStart(q) => OneStart(Append(q, x))
    BY <1>1, <1>2, <1>4 DEF OneStart
  <2>3. NoneAfter(q, n) => NoneAfter(Append(q, x), n)
    BY <1>1, <1>2, <1>4 DEF NoneAfter
  <2>4. QED
    BY <2>1, <2>2, <2>3
<1>5. QED
  BY <1>3, <1>4

LEMMA StartsTaken ==
  ASSUME NEW q \in Seq(Lines), q # << >>, NEW n
  PROVE  /\ NoStart(q) => NoStart(Tail(q)) /\ Head(q).command # "start"
         /\ OneStart(q) => OneStart(Tail(q))
         /\ OneStart(q) /\ Head(q).command = "start" => NoStart(Tail(q))
         /\ NoneAfter(q, n) => NoneAfter(Tail(q), n)
         /\ NoneAfter(q, n) /\ Head(q) = Line("ps", n) => NoStart(Tail(q))
<1>1. /\ Len(q) \in Nat \ {0} /\ Len(Tail(q)) = Len(q) - 1 /\ Head(q) = q[1]
      /\ \A i \in 1 .. Len(Tail(q)) : Tail(q)[i] = q[i + 1]
  OBVIOUS
<1>2. \A i \in 1 .. Len(Tail(q)) : i + 1 \in 1 .. Len(q) /\ 1 < i + 1
  BY <1>1
<1>3. 1 \in 1 .. Len(q)
  BY <1>1
<1>4. \A i, j \in 1 .. Len(Tail(q)) : i < j => i + 1 < j + 1
  OBVIOUS
<1>5. NoStart(q) => NoStart(Tail(q)) /\ Head(q).command # "start"
  BY <1>1, <1>2, <1>3 DEF NoStart
<1>6. OneStart(q) => OneStart(Tail(q))
  BY <1>1, <1>2, <1>4 DEF OneStart
<1>7. OneStart(q) /\ Head(q).command = "start" => NoStart(Tail(q))
  BY <1>1, <1>2, <1>3 DEF OneStart, NoStart
<1>8. NoneAfter(q, n) => NoneAfter(Tail(q), n)
  BY <1>1, <1>2, <1>4 DEF NoneAfter
<1>9. NoneAfter(q, n) /\ Head(q) = Line("ps", n) => NoStart(Tail(q))
  BY <1>1, <1>2, <1>3 DEF NoneAfter, NoStart
<1>10. QED
  BY <1>5, <1>6, <1>7, <1>8, <1>9

LEMMA NoLines ==
  \A n : NoStart(<< >>) /\ OneStart(<< >>) /\ NoneAfter(<< >>, n) /\ Elements(<< >>) = {}
BY DEF NoStart, OneStart, NoneAfter, Elements

-----------------------------------------------------------------------------
(* Which conversation a line and its output belong to. *)

Active(c) == pc[c] \in {"open", "sync", "reading", "close", "unlock"}

\* Nothing bears the number of a conversation that has not begun.
Numbered ==
  /\ \A line \in Elements(input) : line.no <= no
  /\ \A t \in Elements(output) : t.text # "prompt" => t.no <= no
  /\ \A c \in Callers : number[c] <= no

\* But for the empty line, a conversation has sent its one command and nothing else, and
\* before it has, nothing else bears its number.
Own(c) ==
  Active(c) =>
    /\ \A line \in Elements(input) : line.no = number[c] /\ line.command # "" =>
         pc[c] \notin {"open", "sync"} /\ line.command = Head(script[c])
    /\ \A t \in Elements(output) : t.no = number[c] /\ t.text # "prompt" =>
         pc[c] \notin {"open", "sync"}

\* ps and start come at the head of a script only.
PlainTail(s) == \A i \in 2 .. Len(s) : s[i] \in {"run", "set", "quit"}

NumberInv == Numbered /\ \A c \in Callers : Own(c) /\ PlainTail(script[c])

\* A step that begins no conversation and sends no command.
LEMMA NumberFrame ==
  ASSUME NumberInv, no' = no, number' = number, script' = script,
         \A line \in Elements(input') : line \in Elements(input) \/ (line.command = "" /\ line.no <= no),
         \A t \in Elements(output') : t \in Elements(output) \/ t.text = "prompt",
         \A c \in Callers : Active(c)' =>
           Active(c) /\ (pc'[c] \in {"open", "sync"} => pc[c] \in {"open", "sync"})
  PROVE  NumberInv'
<1>1. Numbered'
  BY DEF NumberInv, Numbered
<1>2. ASSUME NEW c \in Callers PROVE Own(c)'
  BY DEF NumberInv, Own
<1>3. \A c \in Callers : PlainTail(script[c])'
  BY DEF NumberInv
<1>4. QED
  BY <1>1, <1>2, <1>3 DEF NumberInv

\* The first scripts, and what is left of one.
LEMMA ScriptTails ==
  \A tool \in Calls : PlainTail(Script[tool]) /\ Script[tool][1] # "start"
<1> DEFINE Good(s) == PlainTail(s) /\ s[1] # "start"
<1>1. \A a \in {"run", "set", "quit", "ps"} : Good(<<a>>)
  BY DEF PlainTail
<1>2. \A a \in {"run", "set", "quit", "ps"} : \A b \in {"run", "set", "quit"} : Good(<<a, b>>)
  <2> SUFFICES ASSUME NEW a \in {"run", "set", "quit", "ps"}, NEW b \in {"run", "set", "quit"}
               PROVE  Good(<<a, b>>)
    OBVIOUS
  <2>1. Len(<<a, b>>) = 2 /\ <<a, b>>[1] = a /\ <<a, b>>[2] = b
    OBVIOUS
  <2>2. \A i \in 2 .. 2 : i = 2
    OBVIOUS
  <2>3. QED
    BY <2>1, <2>2 DEF PlainTail
<1>3. \A a \in {"run", "set", "quit", "ps"} : \A b, c \in {"run", "set", "quit"} : Good(<<a, b, c>>)
  <2> SUFFICES ASSUME NEW a \in {"run", "set", "quit", "ps"}, NEW b \in {"run", "set", "quit"},
                      NEW c \in {"run", "set", "quit"}
               PROVE  Good(<<a, b, c>>)
    OBVIOUS
  <2>1. Len(<<a, b, c>>) = 3 /\ <<a, b, c>>[1] = a /\ <<a, b, c>>[2] = b /\ <<a, b, c>>[3] = c
    OBVIOUS
  <2>2. \A i \in 2 .. 3 : i = 2 \/ i = 3
    OBVIOUS
  <2>3. QED
    BY <2>1, <2>2 DEF PlainTail
<1> HIDE DEF Good
<1>4. /\ Good(Script["nsh"]) /\ Good(Script["preset"]) /\ Good(Script["quit"])
      /\ Good(Script["face"]) /\ Good(Script["look"]) /\ Good(Script["quitlook"])
  BY <1>1, <1>2, <1>3 DEF Script
<1>5. Calls \subseteq {"nsh", "preset", "quit", "face", "look", "quitlook"}
  BY CallsAssumption DEF Script
<1>6. \A tool \in Calls : Good(Script[tool])
  BY <1>4, <1>5
<1>7. QED
  BY <1>6 DEF Good

LEMMA RestTails ==
  ASSUME TypeOK, NEW c \in Callers, pc[c] # "idle", PlainTail(script[c])
  PROVE  /\ PlainTail(Rest(c))
         /\ Rest(c) # << >> /\ ~Starts(c) => Head(Rest(c)) \in {"run", "set", "quit"}
         /\ Starts(c) => Rest(c) # << >> /\ Head(Rest(c)) = "start"
<1> DEFINE s == script[c]
<1>1. s \in Seq(Commands) /\ s # << >>
  BY DEF TypeOK
<1>2. /\ Len(s) \in Nat \ {0} /\ Tail(s) \in Seq(Commands) /\ Len(Tail(s)) = Len(s) - 1
      /\ \A i \in 1 .. Len(Tail(s)) : Tail(s)[i] = s[i + 1] /\ i + 1 \in 2 .. Len(s)
  BY <1>1
<1>3. \A i \in 1 .. Len(Tail(s)) : Tail(s)[i] \in {"run", "set", "quit"}
  BY <1>2 DEF PlainTail
<1> HIDE DEF s
<1>4. /\ <<"start">> \o Tail(s) # << >> /\ Head(<<"start">> \o Tail(s)) = "start"
      /\ Len(<<"start">> \o Tail(s)) = Len(Tail(s)) + 1
      /\ \A i \in 2 .. Len(Tail(s)) + 1 : (<<"start">> \o Tail(s))[i] = Tail(s)[i - 1]
  BY <1>2
<1>5. PlainTail(<<"start">> \o Tail(s))
  <2> SUFFICES ASSUME NEW i \in 2 .. Len(Tail(s)) + 1
               PROVE  (<<"start">> \o Tail(s))[i] \in {"run", "set", "quit"}
    BY <1>4 DEF PlainTail
  <2>1. i - 1 \in 1 .. Len(Tail(s))
    BY <1>2
  <2>2. QED
    BY <1>3, <1>4, <2>1
<1>6. PlainTail(Tail(s))
  BY <1>2, <1>3 DEF PlainTail
<1>7. Tail(s) # << >> => Head(Tail(s)) \in {"run", "set", "quit"}
  BY <1>2, <1>3
<1>8. PlainTail(<< >>)
  BY DEF PlainTail
<1>9. Starts(c) => Rest(c) = <<"start">> \o Tail(s)
  BY DEF Rest, s
<1>10. ~Starts(c) => Rest(c) \in {<< >>, Tail(s)}
  BY DEF Rest, s
<1>11. CASE Starts(c)
  BY <1>4, <1>5, <1>9, <1>11
<1>12. CASE ~Starts(c)
  BY <1>6, <1>7, <1>8, <1>10, <1>12
<1>13. QED
  BY <1>11, <1>12

LEMMA NumberStep == TypeOK /\ Owned /\ NumberInv /\ [Next]_vars => NumberInv'
<1> SUFFICES ASSUME TypeOK, Owned, NumberInv, [Next]_vars PROVE NumberInv'
  OBVIOUS
<1>a. /\ input \in Seq(Lines) /\ output \in Seq(Tokens) /\ no \in Nat
      /\ pc \in [Callers -> Pcs] /\ number \in [Callers -> Nat]
      /\ script \in [Callers -> Seq(Commands)]
  BY DEF TypeOK
<1>b. /\ \A line \in Elements(input) : line.no <= no
      /\ \A t \in Elements(output) : t.text # "prompt" => t.no <= no
      /\ \A c \in Callers : number[c] <= no
  BY DEF NumberInv, Numbered
<1>c. \A c \in Callers : Active(c) <=> lock = c
  BY DEF Owned, Active
<1>d. \A c \in Callers : Active(c)' <=> lock' = c
  BY OwnedStep DEF Owned, Active
<1>1. ASSUME NEW c \in Callers, NEW tool \in Calls, Call(c, tool) PROVE NumberInv'
  <2>1. /\ pc[c] = "idle" /\ pc' = [pc EXCEPT ![c] = "lock"]
        /\ script' = [script EXCEPT ![c] = Script[tool]]
        /\ UNCHANGED <<number, no, input, output>>
    BY <1>1 DEF Call, boardVars
  <2>2. Numbered'
    BY <1>b, <2>1 DEF Numbered
  <2>3. ASSUME NEW d \in Callers PROVE (Own(d) /\ PlainTail(script[d]))'
    <3>1. CASE d = c
      <4>1. pc'[d] = "lock" /\ script'[d] = Script[tool]
        BY <1>a, <2>1, <3>1
      <4>2. ~Active(d)'
        BY <4>1 DEF Active
      <4>3. PlainTail(script'[d])
        BY <4>1, ScriptTails
      <4>4. QED
        BY <4>2, <4>3 DEF Own
    <3>2. CASE d # c
      <4>1. pc'[d] = pc[d] /\ script'[d] = script[d]
        BY <1>a, <2>1, <3>2
      <4>2. QED
        BY <2>1, <4>1 DEF NumberInv, Own, Active
    <3>3. QED
      BY <3>1, <3>2
  <2>4. QED
    BY <2>2, <2>3 DEF NumberInv
<1>2. ASSUME NEW c \in Callers, Lock(c) PROVE NumberInv'
  <2>1. /\ lock' = c /\ no' = no + 1 /\ number' = [number EXCEPT ![c] = no + 1]
        /\ UNCHANGED <<script, input, output>>
    BY <1>2 DEF Lock, boardVars
  <2>2. number'[c] = no + 1 /\ \A d \in Callers : d # c => number'[d] = number[d]
    BY <1>a, <2>1
  <2>3. Elements(input) \subseteq Lines /\ Elements(output) \subseteq Tokens
    BY <1>a, ElementsOf
  <2>4. /\ \A line \in Elements(input) : line.no \in Nat /\ line.no <= no
        /\ \A t \in Elements(output) : t.no \in Nat /\ (t.text # "prompt" => t.no <= no)
    BY <1>b, <2>3 DEF Lines, Tokens
  <2>5. /\ \A line \in Elements(input) : line.no <= no + 1 /\ line.no # no + 1
        /\ \A t \in Elements(output) : t.text # "prompt" => t.no <= no + 1 /\ t.no # no + 1
    BY <1>a, <2>4
  <2>6. ASSUME NEW d \in Callers PROVE number'[d] <= no + 1
    <3>1. number[d] \in Nat /\ number[d] <= no
      BY <1>a, <1>b
    <3>2. number'[d] \in {no + 1, number[d]}
      BY <2>2
    <3>3. QED
      BY <1>a, <3>1, <3>2
  <2>7. Numbered'
    BY <2>1, <2>5, <2>6 DEF Numbered
  <2>8. ASSUME NEW d \in Callers PROVE Own(d)'
    <3>1. CASE d = c
      BY <2>1, <2>2, <2>5, <3>1 DEF Own
    <3>2. CASE d # c
      BY <1>d, <2>1, <3>2 DEF Own
    <3>3. QED
      BY <3>1, <3>2
  <2>9. QED
    BY <2>1, <2>7, <2>8 DEF NumberInv
<1>3. ASSUME NEW c \in Callers, Send(c) PROVE NumberInv'
  <2> DEFINE sent == Line(Head(script[c]), number[c])
  <2>1. /\ pc[c] = "sync" /\ pc' = [pc EXCEPT ![c] = "reading"] /\ lock' = lock
        /\ input' = Append(input, sent)
        /\ UNCHANGED <<script, number, no>>
    BY <1>3 DEF Send
  <2>2. PICK m \in 1 .. Len(output) : output' = SubSeq(output, m + 1, Len(output))
    BY <1>3 DEF Send
  <2>3. lock = c /\ pc'[c] = "reading"
    BY <1>a, <2>1 DEF Owned
  <2>4. sent \in Lines /\ sent.no = number[c] /\ sent.command = Head(script[c])
    <3>1. Head(script[c]) \in Commands
      BY <1>a, <2>1 DEF TypeOK
    <3>2. QED
      BY <1>a, <3>1 DEF Line, Lines
  <2> HIDE DEF sent
  <2>5. Elements(input') = Elements(input) \cup {sent}
    BY <1>a, <2>1, <2>4, ElementsOf
  <2>6. Elements(output') \subseteq Elements(output)
    BY <1>a, <2>2, ElementsOf
  <2>7. Numbered'
    BY <1>b, <2>1, <2>4, <2>5, <2>6 DEF Numbered
  <2>8. Own(c)
    BY DEF NumberInv
  <2>9. Own(c)'
    <3>1. \A line \in Elements(input) : ~(line.no = number[c] /\ line.command # "")
      BY <1>c, <2>1, <2>3, <2>8 DEF Own
    <3>2. QED
      BY <2>1, <2>3, <2>4, <2>5, <3>1 DEF Own
  <2>10. \A d \in Callers : d # c => Own(d)'
    BY <1>d, <2>1, <2>3 DEF Own
  <2>11. QED
    BY <2>1, <2>7, <2>9, <2>10 DEF NumberInv
<1>4. ASSUME NEW c \in Callers, Unlock(c) PROVE NumberInv'
  <2>1. /\ pc[c] = "unlock" /\ lock' = Nobody /\ number' = [number EXCEPT ![c] = 0]
        /\ script' = [script EXCEPT ![c] = Rest(c)]
        /\ UNCHANGED <<no, input, output>>
    BY <1>4 DEF Unlock, boardVars
  <2>2. \A d \in Callers : number'[d] <= no
    BY <1>a, <1>b, <2>1
  <2>3. Numbered'
    BY <1>b, <2>1, <2>2 DEF Numbered
  <2>4. \A d \in Callers : Own(d)'
    BY <1>d, <2>1, NamesAssumption DEF Own
  <2>5. PlainTail(Rest(c))
    BY <2>1, RestTails DEF NumberInv
  <2>6. \A d \in Callers : PlainTail(script[d])'
    BY <1>a, <2>1, <2>5 DEF NumberInv
  <2>7. QED
    BY <2>3, <2>4, <2>6 DEF NumberInv
<1>5. CASE ShellRuns
  <2> DEFINE line == Head(input)
             t == Token(Printed(line.command), line.no)
  <2>1. /\ input # << >> /\ input' = Tail(input)
        /\ output' = IF line.command = "" THEN output ELSE Append(output, t)
        /\ UNCHANGED <<pc, script, number, no>>
    BY <1>5 DEF ShellRuns, hostVars
  <2>2. line \in Elements(input) /\ line \in Lines /\ Elements(input') \subseteq Elements(input)
    BY <1>a, <2>1, ElementsOf, HeadType
  <2>3. line.command # "" => t \in Tokens
    BY <2>2, PrintedType DEF Lines, Token, Tokens
  <2>4. t.no = line.no
    BY DEF Token
  <2> HIDE DEF line, t
  <2>5. \A u \in Elements(output') : u \in Elements(output) \/ (u = t /\ line.command # "")
    <3>1. line.command # "" => Elements(Append(output, t)) = Elements(output) \cup {t}
      BY <1>a, <2>3, ElementsOf
    <3>2. QED
      BY <2>1, <3>1
  <2>6. Numbered'
    BY <1>b, <2>1, <2>2, <2>4, <2>5 DEF Numbered
  <2>7. ASSUME NEW d \in Callers PROVE Own(d)'
    BY <2>1, <2>2, <2>4, <2>5 DEF NumberInv, Own, Active
  <2>8. QED
    BY <2>1, <2>6, <2>7 DEF NumberInv
<1>6. ASSUME NEW c \in Callers, Open(c) PROVE NumberInv'
  <2> DEFINE empty == Line("", number[c])
  <2>1. /\ pc[c] = "open" /\ pc' = [pc EXCEPT ![c] = "sync"] /\ input' = Append(input, empty)
        /\ UNCHANGED <<script, number, no>>
    BY <1>6 DEF Open
  <2>2. PICK k \in 0 .. Len(output) : output' = SubSeq(output, k + 1, Len(output))
    BY <1>6 DEF Open, Flush
  <2>3. empty \in Lines /\ empty.command = "" /\ empty.no = number[c]
    BY <1>a DEF Line, Lines
  <2> HIDE DEF empty
  <2>4. Elements(input') = Elements(input) \cup {empty} /\ Elements(output') \subseteq Elements(output)
    BY <1>a, <2>1, <2>2, <2>3, ElementsOf
  <2>5. \A d \in Callers : Active(d)' =>
          Active(d) /\ (pc'[d] \in {"open", "sync"} => pc[d] \in {"open", "sync"})
    BY <1>a, <2>1 DEF Active
  <2>6. \A l \in Elements(input') : l \in Elements(input) \/ (l.command = "" /\ l.no <= no)
    BY <1>b, <2>3, <2>4
  <2>7. \A t \in Elements(output') : t \in Elements(output) \/ t.text = "prompt"
    BY <2>4
  <2>8. QED
    BY <2>1, <2>5, <2>6, <2>7, NumberFrame
<1>7. ASSUME NEW c \in Callers, ReadOn(c) \/ ReadReply(c) PROVE NumberInv'
  <2>1. /\ pc[c] \in {"sync", "reading"} /\ (pc' = pc \/ pc' = [pc EXCEPT ![c] = "close"])
        /\ UNCHANGED <<input, script, number, no>>
    BY <1>7 DEF ReadOn, ReadReply
  <2>2. PICK k \in 1 .. Len(output) : output' = SubSeq(output, k + 1, Len(output))
    BY <1>7 DEF ReadOn, ReadReply
  <2>3. Elements(output') \subseteq Elements(output)
    BY <1>a, <2>2, ElementsOf
  <2>4. \A d \in Callers : Active(d)' =>
          Active(d) /\ (pc'[d] \in {"open", "sync"} => pc[d] \in {"open", "sync"})
    BY <1>a, <2>1 DEF Active
  <2>5. QED
    BY <2>1, <2>3, <2>4, NumberFrame
<1>8. ASSUME NEW c \in Callers, OpenFails(c) \/ TimeOut(c) \/ Breaks(c) \/ Close(c)
      PROVE  NumberInv'
  <2>1. /\ pc[c] \in {"open", "sync", "reading", "close"}
        /\ (pc' = [pc EXCEPT ![c] = "close"] \/ pc' = [pc EXCEPT ![c] = "unlock"])
        /\ UNCHANGED <<input, output, script, number, no>>
    BY <1>8 DEF OpenFails, TimeOut, Breaks, Close, boardVars
  <2>2. \A d \in Callers : Active(d)' =>
          Active(d) /\ (pc'[d] \in {"open", "sync"} => pc[d] \in {"open", "sync"})
    BY <1>a, <2>1 DEF Active
  <2>3. QED
    BY <2>1, <2>2, NumberFrame
<1>9. CASE ShellPrompts
  <2> DEFINE t == Token("prompt", running.no)
  <2>1. /\ output' = Append(output, t) /\ UNCHANGED <<input, pc, script, number, no>>
    BY <1>9 DEF ShellPrompts, hostVars
  <2>2. \A x : Elements(Append(output, x)) = Elements(output) \cup {x}
    <3> SUFFICES ASSUME NEW x PROVE Elements(Append(output, x)) = Elements(output) \cup {x}
      OBVIOUS
    <3>1. output \in Seq(Tokens \cup {x})
      BY <1>a
    <3>2. QED
      BY <3>1, ElementsOf
  <2>3. t.text = "prompt"
    BY DEF Token
  <2> HIDE DEF t
  <2>4. \A u \in Elements(output') : u \in Elements(output) \/ u.text = "prompt"
    BY <2>1, <2>2, <2>3
  <2>5. QED
    BY <2>1, <2>4, NumberFrame DEF Active
<1>10. CASE Reset
  BY <1>10, NoLines, NumberFrame DEF Reset, Active
<1>11. CASE Boot
  <2>1. output' = <<Token("prompt", 0)>> /\ UNCHANGED <<input, pc, script, number, no>>
    BY <1>11 DEF Boot, hostVars
  <2>2. \A u \in Elements(output') : u = Token("prompt", 0)
    BY <2>1 DEF Elements
  <2>3. \A u \in Elements(output') : u.text = "prompt"
    BY <2>2 DEF Token
  <2>4. QED
    BY <2>1, <2>3, NumberFrame DEF Active
<1>12. CASE TerminalOpens \/ TerminalCloses \/ UNCHANGED vars
  <2>1. UNCHANGED <<input, output, pc, script, number, no>>
    BY <1>12 DEF TerminalOpens, TerminalCloses, vars, hostVars, boardVars
  <2>2. QED
    BY <2>1, NumberFrame DEF Active
<1>13. QED
  BY <1>1, <1>2, <1>3, <1>4, <1>5, <1>6, <1>7, <1>8, <1>9, <1>10, <1>11, <1>12 DEF Next, Step

LEMMA NumberInit == Init => NumberInv
<1> SUFFICES ASSUME Init PROVE NumberInv
  OBVIOUS
<1>1. Elements(input) = {} /\ Elements(output) = {}
  BY NoLines DEF Init
<1>2. \A c \in Callers : number[c] = 0 /\ no = 0 /\ pc[c] = "idle" /\ script[c] = << >>
  BY DEF Init
<1>3. QED
  BY <1>1, <1>2 DEF NumberInv, Numbered, Own, Active, PlainTail

\* No loop runs and none is on its way; one at most.
NoLoopYet == loops = 0 /\ NoStart(input)
OneAtMost == \/ loops \in {0, 1} /\ NoStart(input)
             \/ loops = 0 /\ OneStart(input)

\* What face() reads when no loop runs.
Plain(c) == Token("plain", number[c])
Heard(c) ==
  /\ pc[c] = "reading" \/ (pc[c] \in {"close", "unlock"} /\ reply[c] = "ready")
  /\ Plain(c) \in Elements(got[c])

\* A process that is about to start a loop, and one that has asked whether one runs.
Starter(c) == pc[c] \in {"lock", "open", "sync"} /\ Head(script[c]) = "start"
Asker(c) == Active(c) /\ Head(script[c]) = "ps"

\* Between the ps that finds no loop and the start, no other process may start one.
Starting ==
  /\ OneAtMost
  /\ \A c, d \in Callers : MayStart(c) /\ MayStart(d) => c = d
  /\ \A c \in Callers : Starter(c) => NoLoopYet
  /\ \A c \in Callers : Asker(c) =>
       /\ NoneAfter(input, number[c])
       /\ Plain(c) \in Elements(output) \/ Heard(c) => NoLoopYet

StartInv == ~overlap /\ ~blind => Starting

\* A step that starts no loop and changes no script.
LEMMA StartFrame ==
  ASSUME Starting, script' = script, number' = number,
         OneAtMost', NoLoopYet => NoLoopYet',
         \A n : NoneAfter(input, n) => NoneAfter(input', n),
         \A c \in Callers : pc'[c] # "idle" => pc[c] # "idle",
         \A c \in Callers : pc'[c] \in {"lock", "open", "sync"} => pc[c] \in {"lock", "open", "sync"},
         \A c \in Callers : Active(c)' => Active(c),
         \A c \in Callers : Asker(c) /\ Plain(c) \in Elements(output') =>
           Plain(c) \in Elements(output) \/ NoLoopYet',
         \A c \in Callers : Heard(c)' => Heard(c) \/ Plain(c) \in Elements(output)
  PROVE  Starting'
<1>1. \A c \in Callers : MayStart(c)' => MayStart(c)
  BY DEF MayStart
<1>2. \A c \in Callers : Starter(c)' => Starter(c)
  BY DEF Starter
<1>3. \A c \in Callers : (Asker(c)' => Asker(c)) /\ Plain(c)' = Plain(c)
  BY DEF Asker, Plain
<1>4. ASSUME NEW c \in Callers, Asker(c)'
      PROVE  /\ NoneAfter(input', number'[c])
             /\ Plain(c)' \in Elements(output') \/ Heard(c)' => NoLoopYet'
  <2>1. /\ NoneAfter(input, number[c])
        /\ Plain(c) \in Elements(output) \/ Heard(c) => NoLoopYet
    BY <1>3, <1>4 DEF Starting
  <2>2. NoneAfter(input', number'[c])
    BY <2>1
  <2>3. Heard(c)' => NoLoopYet'
    BY <2>1
  <2>4. Plain(c)' \in Elements(output') => NoLoopYet'
    BY <1>3, <1>4, <2>1
  <2>5. QED
    BY <2>2, <2>3, <2>4
<1>5. \A c, d \in Callers : MayStart(c)' /\ MayStart(d)' => c = d
  BY <1>1 DEF Starting
<1>6. \A c \in Callers : Starter(c)' => NoLoopYet'
  BY <1>2 DEF Starting
<1>7. QED
  BY <1>4, <1>5, <1>6 DEF Starting

\* The same, when the console is as it was but for a line that is no start.
LEMMA StartQuiet ==
  ASSUME Starting, script' = script, number' = number, loops' = loops,
         \/ input' = input
         \/ \E x : input' = Append(input, x) /\ x \in Lines /\ x.command # "start",
         input \in Seq(Lines),
         \A c \in Callers : pc'[c] # "idle" => pc[c] # "idle",
         \A c \in Callers : pc'[c] \in {"lock", "open", "sync"} => pc[c] \in {"lock", "open", "sync"},
         \A c \in Callers : Active(c)' => Active(c),
         \A t \in Elements(output') : t \in Elements(output) \/ t.text = "prompt",
         \A c \in Callers : Heard(c)' => Heard(c) \/ Plain(c) \in Elements(output)
  PROVE  Starting'
<1>1. /\ NoStart(input) => NoStart(input')
      /\ OneStart(input) => OneStart(input')
      /\ \A n : NoneAfter(input, n) => NoneAfter(input', n)
  <2>1. CASE input' = input
    BY <2>1
  <2>2. ASSUME NEW x, input' = Append(input, x) /\ x \in Lines /\ x.command # "start"
        PROVE  /\ NoStart(input) => NoStart(input')
               /\ OneStart(input) => OneStart(input')
               /\ \A n : NoneAfter(input, n) => NoneAfter(input', n)
    BY <2>2, StartsSent
  <2>3. QED
    BY <2>1, <2>2
<1>2. OneAtMost' /\ (NoLoopYet => NoLoopYet')
  BY <1>1 DEF Starting, OneAtMost, NoLoopYet
<1>3. \A c \in Callers : Plain(c).text # "prompt"
  BY DEF Plain, Token
<1>4. \A c \in Callers : Asker(c) /\ Plain(c) \in Elements(output') =>
        Plain(c) \in Elements(output) \/ NoLoopYet'
  BY <1>3
<1>5. QED
  BY <1>1, <1>2, <1>4, StartFrame

\* A process that has read that no loop runs, or is about to, is not misled.
LEMMA StartsHeard ==
  ASSUME TypeOK, NEW c \in Callers, pc[c] = "unlock", Starts(c), Answered(c)
  PROVE  Asker(c) /\ Heard(c)
<1>1. Head(script[c]) = "ps" /\ reply[c] = "ready" /\ ~Says(c, {"face", "notfound"})
  BY DEF Starts, Answered
<1>2. PICK i \in DOMAIN got[c] : got[c][i].text # "prompt" /\ got[c][i].no = number[c]
  BY DEF Answered
<1>3. got[c] \in Seq(Tokens)
  BY DEF TypeOK
<1>4. i \in 1 .. Len(got[c]) /\ got[c][i] \in Tokens
  BY <1>2, <1>3
<1>5. got[c][i].text \notin {"face", "notfound"}
  BY <1>1, <1>2 DEF Says
<1>6. got[c][i].text = "plain"
  BY <1>2, <1>4, <1>5 DEF Tokens, Texts
<1>7. got[c][i] = Plain(c)
  BY <1>2, <1>4, <1>6 DEF Tokens, Plain, Token
<1>8. Plain(c) \in Elements(got[c])
  BY <1>4, <1>7 DEF Elements
<1>9. QED
  BY <1>1, <1>8 DEF Asker, Heard, Active

LEMMA CallStarts ==
  ASSUME TypeOK, Starting, NEW c \in Callers, NEW tool \in Calls, Call(c, tool), ~overlap'
  PROVE  Starting'
<1>1. /\ pc[c] = "idle" /\ pc' = [pc EXCEPT ![c] = "lock"]
      /\ script' = [script EXCEPT ![c] = Script[tool]]
      /\ UNCHANGED <<number, reply, got, input, output, loops>>
      /\ Script[tool][1] = "ps" => \A d \in Callers : ~MayStart(d)
  BY DEF Call, boardVars
<1>2. pc \in [Callers -> Pcs] /\ script \in [Callers -> Seq(Commands)]
  BY DEF TypeOK
<1>3. pc'[c] = "lock" /\ script'[c] = Script[tool] /\ Head(Script[tool]) = Script[tool][1]
  BY <1>1, <1>2, ScriptType
<1>4. \A d \in Callers : d # c => pc'[d] = pc[d] /\ script'[d] = script[d]
  BY <1>1, <1>2
<1>5. Head(script'[c]) # "start"
  BY <1>3, ScriptTails
<1>6. ASSUME NEW d \in Callers, NEW e \in Callers, MayStart(d)', MayStart(e)' PROVE d = e
  <2>1. \A f \in Callers : f # c /\ MayStart(f)' => MayStart(f)
    BY <1>4 DEF MayStart
  <2>2. MayStart(c)' => \A f \in Callers : ~MayStart(f)
    BY <1>1, <1>3, <1>5 DEF MayStart
  <2>3. QED
    BY <1>6, <2>1, <2>2 DEF Starting
<1>7. ~Starter(c)' /\ ~Asker(c)'
  BY <1>3, <1>5 DEF Starter, Asker, Active
<1>8. \A d \in Callers : d # c => /\ Starter(d)' = Starter(d) /\ Asker(d)' = Asker(d)
                                  /\ Heard(d)' = Heard(d) /\ Plain(d)' = Plain(d)
  BY <1>1, <1>4 DEF Starter, Asker, Active, Heard, Plain
<1>9. OneAtMost' = OneAtMost /\ NoLoopYet' = NoLoopYet
  BY <1>1 DEF OneAtMost, NoLoopYet
<1>10. QED
  BY <1>1, <1>6, <1>7, <1>8, <1>9 DEF Starting

LEMMA LockStarts ==
  ASSUME TypeOK, Owned, NumberInv, Starting, NEW c \in Callers, Lock(c)
  PROVE  Starting'
<1>1. /\ pc[c] = "lock" /\ lock = Nobody /\ pc' = [pc EXCEPT ![c] = "open"]
      /\ number' = [number EXCEPT ![c] = no + 1]
      /\ UNCHANGED <<script, reply, got, input, output, loops>>
  BY DEF Lock, boardVars
<1>2. /\ pc \in [Callers -> Pcs] /\ number \in [Callers -> Nat] /\ no \in Nat
      /\ input \in Seq(Lines) /\ output \in Seq(Tokens)
  BY DEF TypeOK
<1>3. pc'[c] = "open" /\ number'[c] = no + 1
  BY <1>1, <1>2
<1>4. \A d \in Callers : ~Active(d)
  BY <1>1, NamesAssumption DEF Owned, Active
<1>5. \A d \in Callers : d # c => pc'[d] = pc[d]
  BY <1>1, <1>2
<1>6. ASSUME NEW d \in Callers, Asker(d)'
      PROVE  /\ NoneAfter(input', number'[d])
             /\ Plain(d)' \in Elements(output') \/ Heard(d)' => NoLoopYet'
  <2>1. d = c
    BY <1>4, <1>5, <1>6 DEF Asker, Active
  <2>2. ~Heard(d)'
    BY <1>3, <2>1 DEF Heard
  <2>3. \A i \in 1 .. Len(input) : input[i] \in Lines /\ input[i].no <= no
    BY <1>2 DEF NumberInv, Numbered, Elements
  <2>4. ASSUME NEW i \in 1 .. Len(input) PROVE input[i] # Line("ps", no + 1)
    <3>1. input[i].no \in Nat /\ input[i].no <= no
      BY <2>3 DEF Lines
    <3>2. input[i].no # no + 1
      BY <1>2, <3>1
    <3>3. Line("ps", no + 1).no = no + 1
      BY DEF Line
    <3>4. QED
      BY <3>2, <3>3
  <2>5. NoneAfter(input, no + 1)
    BY <2>4 DEF NoneAfter
  <2>6. Token("plain", no + 1).text # "prompt" /\ Token("plain", no + 1).no = no + 1
    BY DEF Token
  <2>7. Token("plain", no + 1) \notin Elements(output)
    BY <1>2, <2>6 DEF NumberInv, Numbered
  <2>8. QED
    BY <1>1, <1>3, <2>1, <2>2, <2>5, <2>7 DEF Plain
<1>7. \A d \in Callers : MayStart(d)' => MayStart(d)
  BY <1>1, <1>5 DEF MayStart
<1>8. \A d \in Callers : Starter(d)' => Starter(d)
  BY <1>1, <1>5 DEF Starter
<1>9. OneAtMost' = OneAtMost /\ NoLoopYet' = NoLoopYet
  BY <1>1 DEF OneAtMost, NoLoopYet
<1>10. QED
  BY <1>6, <1>7, <1>8, <1>9 DEF Starting

LEMMA UnlockStarts ==
  ASSUME TypeOK, Owned, NumberInv, Starting, NEW c \in Callers, Unlock(c), ~blind'
  PROVE  Starting'
<1>1. /\ pc[c] = "unlock" /\ pc' = [pc EXCEPT ![c] = Goes(Rest(c))]
      /\ script' = [script EXCEPT ![c] = Rest(c)]
      /\ number' = [number EXCEPT ![c] = 0]
      /\ reply' = [reply EXCEPT ![c] = "none"]
      /\ got' = [got EXCEPT ![c] = << >>]
      /\ UNCHANGED <<input, output, loops>>
      /\ Starts(c) => Answered(c)
  BY DEF Unlock, boardVars
<1>2. /\ pc \in [Callers -> Pcs] /\ script \in [Callers -> Seq(Commands)]
      /\ number \in [Callers -> Nat] /\ DOMAIN reply = Callers /\ DOMAIN got = Callers
      /\ \A d \in Callers : reply[d] \in {"none", "ready", "late", "silent", "busy", "broken"}
  BY DEF TypeOK
<1>3. /\ pc'[c] = (IF Rest(c) = << >> THEN "idle" ELSE "lock") /\ script'[c] = Rest(c)
  BY <1>1, <1>2
<1>4. \A d \in Callers : d # c => /\ pc'[d] = pc[d] /\ script'[d] = script[d]
                                  /\ number'[d] = number[d]
  BY <1>1, <1>2
<1>5. \A d \in Callers : d # c => reply'[d] = reply[d] /\ got'[d] = got[d]
  <2>1. reply \in [Callers -> {"none", "ready", "late", "silent", "busy", "broken"}]
        /\ got \in [Callers -> Seq(Tokens)]
    BY DEF TypeOK
  <2>2. QED
    BY <1>1, <2>1
<1>6. /\ Rest(c) # << >> /\ ~Starts(c) => Head(Rest(c)) \in {"run", "set", "quit"}
      /\ Starts(c) => Rest(c) # << >> /\ Head(Rest(c)) = "start"
  BY <1>1, RestTails DEF NumberInv
<1>7. Starts(c) => MayStart(c) /\ NoLoopYet
  <2>1. Starts(c) => MayStart(c)
    BY <1>1 DEF Starts, MayStart
  <2>2. Starts(c) => NoLoopYet
    BY <1>1, StartsHeard DEF Starting
  <2>3. QED
    BY <2>1, <2>2
<1>8. (MayStart(c)' => MayStart(c)) /\ (Starter(c)' => NoLoopYet) /\ ~Asker(c)'
  BY <1>3, <1>6, <1>7 DEF MayStart, Starter, Asker, Active
<1>9. \A d \in Callers : d # c => /\ MayStart(d)' = MayStart(d)
                                  /\ Starter(d)' = Starter(d) /\ Asker(d)' = Asker(d)
                                  /\ Heard(d)' = Heard(d) /\ Plain(d)' = Plain(d)
  BY <1>1, <1>4, <1>5 DEF MayStart, Starter, Asker, Active, Heard, Plain
<1>10. OneAtMost' = OneAtMost /\ NoLoopYet' = NoLoopYet
  BY <1>1 DEF OneAtMost, NoLoopYet
<1>11. QED
  BY <1>1, <1>4, <1>8, <1>9, <1>10 DEF Starting

\* The line start goes out only while no loop runs and none is on its way.
LEMMA SendStarts ==
  ASSUME TypeOK, Owned, NumberInv, Starting, NEW c \in Callers, Send(c)
  PROVE  Starting'
<1> DEFINE x == Line(Head(script[c]), number[c])
<1>1. /\ pc[c] = "sync" /\ pc' = [pc EXCEPT ![c] = "reading"]
      /\ got' = [got EXCEPT ![c] = << >>] /\ input' = Append(input, x)
      /\ UNCHANGED <<script, number, reply, loops>>
  BY DEF Send
<1>2. /\ pc \in [Callers -> Pcs] /\ got \in [Callers -> Seq(Tokens)]
      /\ input \in Seq(Lines) /\ output \in Seq(Tokens)
  BY DEF TypeOK
<1>3. x \in Lines /\ x.command = Head(script[c])
  <2>1. script[c] \in Seq(Commands) /\ script[c] # << >> /\ number[c] \in Nat
    BY <1>1 DEF TypeOK
  <2>2. Head(script[c]) \in Commands
    BY <2>1
  <2>3. QED
    BY <2>1, <2>2 DEF Line, Lines
<1> HIDE DEF x
<1>4. PICK m \in 1 .. Len(output) : output' = SubSeq(output, m + 1, Len(output))
  BY DEF Send
<1>5. Elements(output') \subseteq Elements(output)
  BY <1>2, <1>4, ElementsOf
<1>6. pc'[c] = "reading" /\ got'[c] = << >>
  BY <1>1, <1>2
<1>7. \A d \in Callers : d # c => pc'[d] = pc[d] /\ got'[d] = got[d]
  BY <1>1, <1>2
<1>8. ~Heard(c)'
  BY <1>6, NoLines DEF Heard
<1>9. \A d \in Callers : Heard(d)' => Heard(d)
  BY <1>1, <1>7, <1>8 DEF Heard, Plain
<1>10. \A d \in Callers : /\ pc'[d] # "idle" => pc[d] # "idle"
                          /\ pc'[d] \in {"lock", "open", "sync"} => pc[d] \in {"lock", "open", "sync"}
                          /\ Active(d)' => Active(d)
  BY <1>1, <1>6, <1>7 DEF Active
<1>11. CASE x.command # "start"
  BY <1>1, <1>2, <1>3, <1>5, <1>9, <1>10, <1>11, StartQuiet
<1>12. CASE x.command = "start"
  <2>1. MayStart(c) /\ Starter(c)
    BY <1>1, <1>3, <1>12 DEF MayStart, Starter
  <2>2. loops = 0 /\ NoStart(input)
    BY <2>1 DEF Starting, NoLoopYet
  <2>3. OneAtMost'
    BY <1>1, <1>2, <1>3, <2>2, StartsSent DEF OneAtMost
  <2>4. \A d \in Callers : MayStart(d)' => MayStart(d)
    BY <1>1, <1>10 DEF MayStart
  <2>5. \A d \in Callers : MayStart(d) => d = c
    BY <2>1 DEF Starting
  <2>6. \A d \in Callers : Starter(d)' => d = c
    BY <2>4, <2>5 DEF Starter, MayStart
  <2>7. ~Starter(c)'
    BY <1>6 DEF Starter
  <2>8. \A d \in Callers : Asker(d)' => d = c
    BY <2>4, <2>5 DEF Asker, Active, MayStart
  <2>9. ~Asker(c)'
    BY <1>1, <1>3, <1>12 DEF Asker
  <2>10. QED
    BY <2>3, <2>4, <2>5, <2>6, <2>7, <2>8, <2>9 DEF Starting
<1>13. QED
  BY <1>11, <1>12

\* The shell takes a line: ps says that no loop runs only if none is started behind it.
LEMMA RunsStarts ==
  ASSUME TypeOK, NumberInv, Starting, ShellRuns
  PROVE  Starting'
<1> DEFINE line == Head(input)
           t == Token(Printed(line.command), line.no)
<1>1. /\ input # << >> /\ input' = Tail(input)
      /\ output' = IF line.command = "" THEN output ELSE Append(output, t)
      /\ loops' = IF line.command = "start" /\ installed THEN loops + 1
                  ELSE IF line.command = "quit" THEN 0 ELSE loops
      /\ UNCHANGED <<pc, script, number, reply, got>>
  BY DEF ShellRuns, hostVars
<1>2. input \in Seq(Lines) /\ output \in Seq(Tokens) /\ loops \in Nat
  BY DEF TypeOK
<1>3. line \in Elements(input) /\ line \in Lines
  BY <1>1, <1>2, ElementsOf, HeadType
<1>4. line.command # "" => t \in Tokens
  BY <1>3, PrintedType DEF Lines, Token, Tokens
<1>5. /\ NoStart(input) => NoStart(input') /\ line.command # "start"
      /\ OneStart(input) => OneStart(input')
      /\ OneStart(input) /\ line.command = "start" => NoStart(input')
      /\ \A n : NoneAfter(input, n) => NoneAfter(input', n)
      /\ \A n : NoneAfter(input, n) /\ line = Line("ps", n) => NoStart(input')
  <2>1. ASSUME NEW n
        PROVE  /\ NoStart(input) => NoStart(Tail(input)) /\ Head(input).command # "start"
               /\ OneStart(input) => OneStart(Tail(input))
               /\ OneStart(input) /\ Head(input).command = "start" => NoStart(Tail(input))
               /\ NoneAfter(input, n) => NoneAfter(Tail(input), n)
               /\ NoneAfter(input, n) /\ Head(input) = Line("ps", n) => NoStart(Tail(input))
    BY <1>1, <1>2, StartsTaken
  <2>2. QED
    BY <1>1, <2>1
<1>6. t.text = Printed(line.command) /\ t.no = line.no
  BY DEF Token
<1>7. (line.command = "ps" /\ t.text = "plain") => loops = 0
  BY <1>2, <1>6 DEF Printed
<1> HIDE DEF line, t
<1>8. OneAtMost'
  <2>1. CASE line.command = "start"
    <3>1. loops = 0 /\ NoStart(input')
      BY <1>5, <2>1 DEF Starting, OneAtMost
    <3>2. loops' \in {0, 1}
      BY <1>1, <2>1, <3>1
    <3>3. QED
      BY <3>1, <3>2 DEF OneAtMost
  <2>2. CASE line.command # "start"
    <3>1. loops' \in {0, loops}
      BY <1>1, <2>2
    <3>2. QED
      BY <1>5, <3>1 DEF Starting, OneAtMost
  <2>3. QED
    BY <2>1, <2>2
<1>9. NoLoopYet => NoLoopYet'
  BY <1>1, <1>5 DEF NoLoopYet
<1>10. ASSUME NEW c \in Callers, Asker(c), Plain(c) \in Elements(output')
       PROVE  Plain(c) \in Elements(output) \/ NoLoopYet'
  <2>1. line.command # "" => Elements(Append(output, t)) = Elements(output) \cup {t}
    BY <1>2, <1>4, ElementsOf
  <2>2. CASE Plain(c) \in Elements(output)
    BY <2>2
  <2>3. CASE Plain(c) \notin Elements(output)
    <3>1. line.command # "" /\ t = Plain(c)
      BY <1>1, <1>10, <2>1, <2>3
    <3>2. line.no = number[c] /\ t.text = "plain"
      BY <1>6, <3>1 DEF Plain, Token
    <3>3. line.command = "ps"
      BY <1>3, <1>10, <3>1, <3>2 DEF NumberInv, Own, Asker
    <3>4. line = Line("ps", number[c])
      BY <1>3, <3>2, <3>3 DEF Line, Lines
    <3>5. NoStart(input')
      BY <1>5, <1>10, <3>4 DEF Starting
    <3>6. loops' = 0
      BY <1>1, <1>7, <3>2, <3>3
    <3>7. QED
      BY <3>5, <3>6 DEF NoLoopYet
  <2>4. QED
    BY <2>2, <2>3
<1>11. \A c \in Callers : Heard(c)' => Heard(c)
  BY <1>1 DEF Heard, Plain
<1>12. \A c \in Callers : Active(c)' => Active(c)
  BY <1>1 DEF Active
<1>13. QED
  BY <1>1, <1>5, <1>8, <1>9, <1>10, <1>11, <1>12, StartFrame

\* What a process reads is what it had and what was on its way.
LEMMA ReadStarts ==
  ASSUME TypeOK, Starting, NEW c \in Callers, ReadOn(c) \/ ReadReply(c)
  PROVE  Starting'
<1>1. PICK k \in 1 .. Len(output) :
        /\ got' = [got EXCEPT ![c] = Chunk(c, k)]
        /\ output' = SubSeq(output, k + 1, Len(output))
  BY DEF ReadOn, ReadReply
<1>2. /\ \/ pc' = pc /\ reply' = reply
         \/ pc[c] = "reading" /\ pc' = [pc EXCEPT ![c] = "close"]
            /\ reply' = [reply EXCEPT ![c] = "ready"]
      /\ UNCHANGED <<script, number, input, loops>>
  BY DEF ReadOn, ReadReply
<1>3. /\ pc \in [Callers -> Pcs] /\ got \in [Callers -> Seq(Tokens)]
      /\ input \in Seq(Lines) /\ output \in Seq(Tokens)
  BY DEF TypeOK
<1>4. reply \in [Callers -> {"none", "ready", "late", "silent", "busy", "broken"}]
  BY DEF TypeOK
<1>5. Elements(Chunk(c, k)) \subseteq Elements(got[c]) \cup Elements(output)
  BY <1>3, ElementsOf DEF Chunk
<1>6. Elements(output') \subseteq Elements(output)
  BY <1>1, <1>3, ElementsOf
<1>7. got'[c] = Chunk(c, k) /\ \A d \in Callers : d # c => got'[d] = got[d]
  BY <1>1, <1>3
<1>8. \A d \in Callers : d # c => pc'[d] = pc[d] /\ reply'[d] = reply[d]
  BY <1>2, <1>3, <1>4
<1>9. pc'[c] = "reading" \/ (pc'[c] \in {"close", "unlock"} /\ reply'[c] = "ready") =>
        pc[c] = "reading" \/ (pc[c] \in {"close", "unlock"} /\ reply[c] = "ready")
  BY <1>2
<1>10. ASSUME NEW d \in Callers, Heard(d)' PROVE Heard(d) \/ Plain(d) \in Elements(output)
  <2>1. Plain(d)' = Plain(d)
    BY <1>2 DEF Plain
  <2>2. CASE d = c
    BY <1>5, <1>7, <1>9, <1>10, <2>1, <2>2 DEF Heard
  <2>3. CASE d # c
    BY <1>7, <1>8, <1>10, <2>1, <2>3 DEF Heard
  <2>4. QED
    BY <2>2, <2>3
<1>11. \A d \in Callers : /\ pc'[d] # "idle" => pc[d] # "idle"
                          /\ pc'[d] \in {"lock", "open", "sync"} => pc[d] \in {"lock", "open", "sync"}
                          /\ Active(d)' => Active(d)
  <2>1. pc' = pc \/ pc' = [pc EXCEPT ![c] = "close"]
    BY <1>2
  <2>2. CASE pc' = pc
    BY <2>2 DEF Active
  <2>3. CASE pc[c] = "reading" /\ pc' = [pc EXCEPT ![c] = "close"]
    BY <1>3, <2>3 DEF Active
  <2>4. QED
    BY <1>2, <2>2, <2>3
<1>12. QED
  BY <1>2, <1>3, <1>6, <1>10, <1>11, StartQuiet

\* A conversation that ends otherwise has not heard the answer.
LEMMA FailStarts ==
  ASSUME TypeOK, Starting, NEW c \in Callers,
         OpenFails(c) \/ TimeOut(c) \/ Breaks(c) \/ Close(c)
  PROVE  Starting'
<1>1. /\ \/ /\ pc[c] \in {"open", "sync", "reading"}
            /\ pc' = [pc EXCEPT ![c] = "unlock"] \/ pc' = [pc EXCEPT ![c] = "close"]
            /\ \E r \in {"silent", "late", "busy", "broken"} : reply' = [reply EXCEPT ![c] = r]
         \/ /\ pc[c] = "close" /\ pc' = [pc EXCEPT ![c] = "unlock"] /\ reply' = reply
      /\ UNCHANGED <<script, number, got, input, output, loops>>
  <2>1. CASE OpenFails(c)
    BY <2>1 DEF OpenFails, boardVars
  <2>2. CASE TimeOut(c)
    BY <2>2 DEF TimeOut, boardVars
  <2>3. CASE Breaks(c)
    BY <2>3 DEF Breaks, boardVars
  <2>4. CASE Close(c)
    BY <2>4 DEF Close, boardVars
  <2>5. QED
    BY <2>1, <2>2, <2>3, <2>4
<1>2. /\ pc \in [Callers -> Pcs] /\ input \in Seq(Lines)
      /\ reply \in [Callers -> {"none", "ready", "late", "silent", "busy", "broken"}]
  BY DEF TypeOK
<1>3. \A d \in Callers : d # c => pc'[d] = pc[d] /\ reply'[d] = reply[d]
  <2>1. \A d \in Callers : d # c => pc'[d] = pc[d]
    BY <1>1, <1>2
  <2>2. reply' = reply \/ \E r \in {"silent", "late", "busy", "broken"} :
                             reply' = [reply EXCEPT ![c] = r]
    BY <1>1
  <2>3. \A d \in Callers : d # c => reply'[d] = reply[d]
    BY <1>2, <2>2
  <2>4. QED
    BY <2>1, <2>3
<1>4. pc[c] \in {"open", "sync", "reading", "close"} /\ pc'[c] \in {"close", "unlock"}
  BY <1>1, <1>2
<1>5. reply'[c] = "ready" => reply'[c] = reply[c] /\ pc[c] = "close"
  <2>1. CASE pc[c] = "close" /\ reply' = reply
    BY <2>1
  <2>2. CASE \E r \in {"silent", "late", "busy", "broken"} : reply' = [reply EXCEPT ![c] = r]
    <3>1. PICK r \in {"silent", "late", "busy", "broken"} : reply' = [reply EXCEPT ![c] = r]
      BY <2>2
    <3>2. reply'[c] = r
      BY <1>2, <3>1
    <3>3. QED
      BY <3>2
  <2>3. QED
    BY <1>1, <2>1, <2>2
<1>6. \A d \in Callers : Heard(d)' => Heard(d)
  BY <1>1, <1>3, <1>4, <1>5 DEF Heard, Plain
<1>7. \A d \in Callers : /\ pc'[d] # "idle" => pc[d] # "idle"
                         /\ pc'[d] \in {"lock", "open", "sync"} => pc[d] \in {"lock", "open", "sync"}
                         /\ Active(d)' => Active(d)
  BY <1>3, <1>4 DEF Active
<1>8. QED
  BY <1>1, <1>2, <1>6, <1>7, StartQuiet

\* The port is opened, and an empty line goes out.
LEMMA OpenStarts ==
  ASSUME TypeOK, Starting, NEW c \in Callers, Open(c)
  PROVE  Starting'
<1>1. /\ pc[c] = "open" /\ pc' = [pc EXCEPT ![c] = "sync"]
      /\ input' = Append(input, Line("", number[c]))
      /\ UNCHANGED <<script, number, reply, got, loops>>
  BY DEF Open
<1>2. PICK k \in 0 .. Len(output) : output' = SubSeq(output, k + 1, Len(output))
  BY DEF Open, Flush
<1>3. /\ pc \in [Callers -> Pcs] /\ input \in Seq(Lines) /\ output \in Seq(Tokens)
      /\ number \in [Callers -> Nat]
  BY DEF TypeOK
<1>4. Line("", number[c]) \in Lines /\ Line("", number[c]).command # "start"
  BY <1>3 DEF Line, Lines
<1>5. Elements(output') \subseteq Elements(output)
  BY <1>2, <1>3, ElementsOf
<1>6. \A d \in Callers : /\ pc'[d] # "idle" => pc[d] # "idle"
                         /\ pc'[d] \in {"lock", "open", "sync"} => pc[d] \in {"lock", "open", "sync"}
                         /\ Active(d)' => Active(d)
                         /\ Heard(d)' => Heard(d)
  BY <1>1, <1>3 DEF Active, Heard, Plain
<1>7. QED
  BY <1>1, <1>3, <1>4, <1>5, <1>6, StartQuiet

\* The board prompts or boots, a terminal comes and goes, nothing happens.
LEMMA OutsideStarts ==
  ASSUME TypeOK, Starting,
         ShellPrompts \/ Reset \/ Boot \/ TerminalOpens \/ TerminalCloses \/ UNCHANGED vars
  PROVE  Starting'
<1>1. UNCHANGED <<pc, script, number, reply, got>>
  BY DEF ShellPrompts, Reset, Boot, TerminalOpens, TerminalCloses, vars, hostVars
<1>2. input \in Seq(Lines) /\ output \in Seq(Tokens)
  BY DEF TypeOK
<1>3. \A d \in Callers : /\ pc'[d] # "idle" => pc[d] # "idle"
                         /\ pc'[d] \in {"lock", "open", "sync"} => pc[d] \in {"lock", "open", "sync"}
                         /\ Active(d)' => Active(d)
                         /\ Heard(d)' => Heard(d)
  BY <1>1 DEF Active, Heard, Plain
<1>4. CASE ShellPrompts
  <2> DEFINE t == Token("prompt", running.no)
  <2>1. output' = Append(output, t) /\ UNCHANGED <<input, loops>>
    BY <1>4 DEF ShellPrompts
  <2>2. t.text = "prompt"
    BY DEF Token
  <2> HIDE DEF t
  <2>3. output \in Seq(Tokens \cup {t})
    BY <1>2
  <2>4. Elements(Append(output, t)) = Elements(output) \cup {t}
    BY <2>3, ElementsOf
  <2>5. \A u \in Elements(output') : u \in Elements(output) \/ u.text = "prompt"
    BY <2>1, <2>2, <2>4
  <2>6. QED
    BY <1>1, <1>2, <1>3, <2>1, <2>5, StartQuiet
<1>5. CASE Reset
  <2>1. input' = << >> /\ output' = << >> /\ loops' = 0
    BY <1>5 DEF Reset
  <2>2. OneAtMost' /\ NoLoopYet' /\ \A n : NoneAfter(input', n)
    BY <2>1, NoLines DEF OneAtMost, NoLoopYet
  <2>3. \A c \in Callers : Plain(c) \notin Elements(output')
    BY <2>1, NoLines
  <2>4. QED
    BY <1>1, <1>3, <2>2, <2>3, StartFrame
<1>6. CASE Boot
  <2>1. output' = <<Token("prompt", 0)>> /\ UNCHANGED <<input, loops>>
    BY <1>6 DEF Boot, hostVars
  <2>2. \A u \in Elements(output') : u = Token("prompt", 0)
    BY <2>1 DEF Elements
  <2>3. \A u \in Elements(output') : u.text = "prompt"
    BY <2>2 DEF Token
  <2>4. QED
    BY <1>1, <1>2, <1>3, <2>1, <2>3, StartQuiet
<1>7. CASE TerminalOpens \/ TerminalCloses \/ UNCHANGED vars
  <2>1. UNCHANGED <<input, output, loops>>
    BY <1>7 DEF TerminalOpens, TerminalCloses, vars, boardVars
  <2>2. QED
    BY <1>1, <1>2, <1>3, <2>1, StartQuiet
<1>8. QED
  BY <1>4, <1>5, <1>6, <1>7

\* History is never taken back.
LEMMA HistoryStays == TypeOK /\ [Next]_vars => (overlap => overlap') /\ (blind => blind')
<1> SUFFICES ASSUME TypeOK, [Next]_vars PROVE (overlap => overlap') /\ (blind => blind')
  OBVIOUS
<1>1. ASSUME NEW c \in Callers, NEW tool \in Calls, Call(c, tool)
      PROVE  (overlap => overlap') /\ (blind => blind')
  <2>1. overlap => overlap'
    BY <1>1, Zenon DEF Call
  <2>2. blind' = blind
    BY <1>1 DEF Call
  <2>3. QED
    BY <2>1, <2>2
<1>2. ASSUME NEW c \in Callers, Step(c) PROVE (overlap => overlap') /\ (blind => blind')
  <2>1. CASE Unlock(c)
    <3>1. blind => blind'
      BY <2>1, Zenon DEF Unlock
    <3>2. overlap' = overlap
      BY <2>1 DEF Unlock
    <3>3. QED
      BY <3>1, <3>2
  <2>2. CASE ~Unlock(c)
    <3>1. UNCHANGED <<overlap, blind>>
      BY <1>2, <2>2 DEF Step, Lock, Open, OpenFails, ReadOn, Send, ReadReply, TimeOut,
         Breaks, Close, history
    <3>2. QED
      BY <3>1
  <2>3. QED
    BY <2>1, <2>2
<1>3. CASE UNCHANGED vars \/ ShellRuns \/ ShellPrompts \/ Reset \/ Boot \/ TerminalOpens
           \/ TerminalCloses
  <2>1. UNCHANGED <<overlap, blind>>
    BY <1>3 DEF vars, history, ShellRuns, ShellPrompts, Reset, Boot, TerminalOpens,
       TerminalCloses
  <2>2. QED
    BY <2>1
<1>4. QED
  BY <1>1, <1>2, <1>3 DEF Next

LEMMA StartStep == TypeOK /\ Owned /\ NumberInv /\ StartInv /\ [Next]_vars => StartInv'
<1> SUFFICES ASSUME TypeOK, Owned, NumberInv, StartInv, [Next]_vars, ~overlap', ~blind'
             PROVE  Starting'
  BY DEF StartInv
<1>1. Starting
  BY HistoryStays DEF StartInv
<1>2. ASSUME NEW c \in Callers, NEW tool \in Calls, Call(c, tool) PROVE Starting'
  BY <1>1, <1>2, CallStarts
<1>3. ASSUME NEW c \in Callers, Step(c) PROVE Starting'
  <2>1. CASE Lock(c)
    BY <1>1, <2>1, LockStarts
  <2>2. CASE Open(c)
    BY <1>1, <2>2, OpenStarts
  <2>3. CASE Send(c)
    BY <1>1, <2>3, SendStarts
  <2>4. CASE ReadOn(c) \/ ReadReply(c)
    BY <1>1, <2>4, ReadStarts
  <2>5. CASE OpenFails(c) \/ TimeOut(c) \/ Breaks(c) \/ Close(c)
    BY <1>1, <2>5, FailStarts
  <2>6. CASE Unlock(c)
    BY <1>1, <2>6, UnlockStarts
  <2>7. QED
    BY <1>3, <2>1, <2>2, <2>3, <2>4, <2>5, <2>6 DEF Step
<1>4. CASE ShellRuns
  BY <1>1, <1>4, RunsStarts
<1>5. CASE ShellPrompts \/ Reset \/ Boot \/ TerminalOpens \/ TerminalCloses \/ UNCHANGED vars
  BY <1>1, <1>5, OutsideStarts
<1>6. QED
  BY <1>2, <1>3, <1>4, <1>5 DEF Next

LEMMA StartInit == Init => StartInv
<1> SUFFICES ASSUME Init PROVE Starting
  BY DEF StartInv
<1>1. loops = 0 /\ input = << >> /\ \A c \in Callers : pc[c] = "idle"
  BY DEF Init
<1>2. OneAtMost
  BY <1>1, NoLines DEF OneAtMost
<1>3. \A c \in Callers : ~MayStart(c) /\ ~Starter(c) /\ ~Asker(c)
  BY <1>1 DEF MayStart, Starter, Asker, Active
<1>4. QED
  BY <1>2, <1>3 DEF Starting

\* A second loop means that two calls of face() overlapped or that a ps was not answered:
\* whatever the calls, the times out and the resets, there is no other way to one.
THEOREM SecondLoopHasReason == Spec => []SecondLoopExplained
<1>1. TypeOK /\ StartInv => SecondLoopExplained
  <2> SUFFICES ASSUME TypeOK, StartInv, ~overlap, ~blind PROVE ~(loops > 1)
    BY DEF SecondLoopExplained
  <2>1. loops = 0 \/ loops = 1
    BY DEF StartInv, Starting, OneAtMost
  <2>2. QED
    BY <2>1
<1>2. Init => TypeOK /\ Owned /\ NumberInv /\ StartInv
  BY TypeInit, OwnedInit, NumberInit, StartInit
<1>3. TypeOK /\ Owned /\ NumberInv /\ StartInv /\ [Next]_vars
        => TypeOK' /\ Owned' /\ NumberInv' /\ StartInv'
  BY TypeStep, OwnedStep, NumberStep, StartStep
<1>4. QED
  BY <1>1, <1>2, <1>3, PTL DEF Spec
=============================================================================
