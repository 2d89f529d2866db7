--------------------------- MODULE FaceHook_proofs ---------------------------
(* Proofs about FaceHook, for every number of hooks, events and faults.      *)
EXTENDS FaceHook, FiniteSetTheorems, TLAPS

\* Names for one condition or one constant each.
USE DEF Speaks, LockFree, AfterSend

\* The word of an event is one of the six, or none.
LEMMA WordForType == \A e \in Events : word_for(e) \in Words \cup {NoWord}
BY EventsAssumption DEF word_for, Words, EventNames, ToolKinds

\* A hook that is spooling has a word, and its own file holds that word once it
\* is written: no other hook can have touched the file.
HookWords ==
  \A h \in Hooks : /\ hookPc[h] \in {"created", "written"} => hookWord[h] \in Words
                   /\ hookPc[h] = "written" => temp[h] = hookWord[h]

\* No action leaves the type.
LEMMA TypeStep == TypeOK /\ HookWords /\ [Next]_vars => TypeOK'
<1> SUFFICES ASSUME TypeOK, HookWords, [Next]_vars PROVE TypeOK'
  OBVIOUS
<1> USE BoundsAssumption DEF TypeOK, hookVars, pushVars
<1>1. ASSUME NEW h \in Hooks, NEW e \in Events, HookEvent(h, e) PROVE TypeOK'
  BY <1>1, WordForType DEF HookEvent, TempName, FileText
<1>2. ASSUME NEW h \in Hooks, HookWrite(h) PROVE TypeOK'
  BY <1>2 DEF HookWords, HookWrite, TempName, FileText
<1>3. ASSUME NEW h \in Hooks, HookReplace(h) PROVE TypeOK'
  BY <1>3 DEF HookWords, HookReplace, TempName, FileText
<1>4. ASSUME NEW h \in Hooks, HookFail(h) PROVE TypeOK'
  BY <1>4 DEF HookFail, HookEnds, TempName, Fault, FileText
<1>5. ASSUME NEW h \in Hooks, HookDetach(h) PROVE TypeOK'
  BY <1>5 DEF HookDetach, HookEnds
<1>6. ASSUME NEW h \in Hooks, HookKilled(h) PROVE TypeOK'
  BY <1>6 DEF HookKilled, HookEnds, Fault
<1>7. ASSUME NEW p \in Pushers, PushLock(p) \/ PushGiveUp(p) \/ PushPort(p) \/ PushLeave(p)
      PROVE  TypeOK'
  BY <1>7 DEF PushLock, PushGiveUp, PushPort, PushLeave
<1>8. ASSUME NEW p \in Pushers, PushRead(p) PROVE TypeOK'
  <2>1. CASE pushPc' = [pushPc EXCEPT ![p] = "leaving"] /\ UNCHANGED taken
    BY <1>8, <2>1 DEF PushRead
  <2>2. CASE spool.word \notin {Absent, Empty, sent[p]}
    <3>1. spool \in Stamped
      BY <2>2 DEF FileText, Stamped
    <3>2. QED
      BY <1>8, <2>2, <3>1 DEF PushRead
  <2>3. QED
    BY <1>8, <2>1, <2>2 DEF PushRead
<1>9. ASSUME NEW p \in Pushers, PushSend(p) PROVE TypeOK'
  <2>1. faults' \in 0 .. MaxFaults
    BY <1>9 DEF PushSend, Fault
  <2>2. board' \in Stamped
    BY <1>9 DEF PushSend
  <2>3. sent' \in [Pushers -> Words \cup {NoWord}]
    BY <1>9 DEF PushSend, Stamped
  <2>4. QED
    BY <1>9, <2>1, <2>2, <2>3 DEF PushSend
<1>10. ASSUME NEW p \in Pushers, PushKilled(p) PROVE TypeOK'
  <2>1. faults' \in 0 .. MaxFaults
    BY <1>10 DEF PushKilled, Fault
  <2>2. lock' \in Pushers \cup {Nobody}
    BY <1>10 DEF PushKilled
  <2>3. QED
    BY <1>10, <2>1, <2>2 DEF PushKilled
<1>11. CASE Unplug \/ Plug
  <2>1. faults' \in 0 .. MaxFaults
    BY <1>11 DEF Unplug, Plug, Fault
  <2>2. board' \in Stamped
    BY <1>11 DEF Unplug, Plug, Stamped
  <2>3. port' \in BOOLEAN
    BY <1>11 DEF Unplug, Plug
  <2>4. QED
    BY <1>11, <2>1, <2>2, <2>3 DEF Unplug, Plug
<1>12. CASE UNCHANGED vars
  BY <1>12 DEF vars
<1>13. QED
  BY <1>1, <1>2, <1>3, <1>4, <1>5, <1>6, <1>7, <1>8, <1>9, <1>10, <1>11, <1>12
     DEF Next, Hook, Push

-----------------------------------------------------------------------------
(* The inductive invariant behind the safety theorems. *)

\* The pusher past the lock is the one the lock names.
LockInv == \A p \in Pushers : Holding(p) <=> lock = p

\* Before the first word there is no spool file.
SpoolInit == Len(history) = 0 => spool = [word |-> Absent, no |-> 0]

\* What the board shows was published under the number it carries.
BoardInv == \/ board = [word |-> NoWord, no |-> 0]
            \/ /\ board.no \in 1 .. Len(history)
               /\ board = [word |-> history[board.no], no |-> board.no]

\* What is about to be sent was published, and nothing newer is on the board.
SendInv ==
  \A p \in Pushers : pushPc[p] = "sending" =>
    /\ taken[p].no \in 1 .. Len(history)
    /\ taken[p] = [word |-> history[taken[p].no], no |-> taken[p].no]
    /\ board.no <= taken[p].no

\* A spooled word has a number of its own, and its pusher is not born yet.
NumberInv ==
  /\ \A h \in Hooks : hookPc[h] = "spooled" =>
       /\ hookNo[h] \in 1 .. Len(history)
       /\ hookNo[h] \in Pushers => pushPc[hookNo[h]] = "unborn"
  /\ \A g, h \in Hooks :
       hookPc[g] = "spooled" /\ hookPc[h] = "spooled" /\ hookNo[g] = hookNo[h] => g = h
  /\ \A p \in Pushers : p > Len(history) => pushPc[p] = "unborn"

SafeInv == TypeOK /\ HookWords /\ NumberInv /\ LockInv /\ SpoolWhole /\ SpoolInit /\ BoardInv /\ SendInv

LEMMA SafeInit == Init => SafeInv
<1> SUFFICES ASSUME Init PROVE SafeInv
  OBVIOUS
<1> USE BoundsAssumption DEF Init
<1>1. TypeOK
  <2>1. history \in Seq(Words) /\ faults \in 0 .. MaxFaults /\ lock \in Pushers \cup {Nobody}
    OBVIOUS
  <2>2. spool \in [word : FileText, no : Nat] /\ board \in Stamped /\ port \in BOOLEAN
    BY DEF FileText, Stamped
  <2>3. /\ temp \in [Hooks -> FileText]
        /\ taken \in [Pushers -> Stamped]
        /\ sent \in [Pushers -> Words \cup {NoWord}]
    BY DEF FileText, Stamped
  <2>4. QED
    BY <2>1, <2>2, <2>3 DEF TypeOK
<1>2. HookWords /\ NumberInv /\ LockInv
  BY DEF HookWords, NumberInv, LockInv, Holding, Pushers, Nobody
<1>3. SpoolWhole /\ SpoolInit /\ BoardInv /\ SendInv
  BY DEF SpoolWhole, SpoolInit, BoardInv, SendInv
<1>4. QED
  BY <1>1, <1>2, <1>3 DEF SafeInv

LEMMA HookWordsStep == TypeOK /\ HookWords /\ [Next]_vars => HookWords'
<1> SUFFICES ASSUME TypeOK, HookWords, [Next]_vars PROVE HookWords'
  OBVIOUS
<1> USE DEF TypeOK, HookWords, hookVars, pushVars
<1>1. ASSUME NEW h \in Hooks, NEW e \in Events, HookEvent(h, e) PROVE HookWords'
  BY <1>1, WordForType DEF HookEvent, TempName
<1>2. ASSUME NEW h \in Hooks, HookWrite(h) PROVE HookWords'
  BY <1>2 DEF HookWrite, TempName
<1>3. ASSUME NEW h \in Hooks, HookReplace(h) PROVE HookWords'
  BY <1>3 DEF HookReplace, TempName
<1>4. ASSUME NEW h \in Hooks, HookFail(h) \/ HookDetach(h) \/ HookKilled(h) PROVE HookWords'
  BY <1>4 DEF HookFail, HookDetach, HookKilled, HookEnds, TempName
<1>5. ASSUME NEW p \in Pushers, Push(p) PROVE HookWords'
  BY <1>5 DEF Push, PushLock, PushGiveUp, PushPort, PushRead, PushSend, PushLeave, PushKilled
<1>6. CASE Unplug \/ Plug \/ UNCHANGED vars
  BY <1>6 DEF Unplug, Plug, vars
<1>7. QED
  BY <1>1, <1>2, <1>3, <1>4, <1>5, <1>6 DEF Next, Hook

\* A detached pusher is new, so the lock names the holder after every step.
LEMMA LockStep ==
  ASSUME TypeOK, LockInv, [Next]_vars,
         NumberInv
  PROVE  LockInv'
<1> USE DEF TypeOK, LockInv, Holding, hookVars, pushVars
<1>1. ASSUME NEW h \in Hooks, HookDetach(h) PROVE LockInv'
  <2>1. hookNo[h] \in Pushers => pushPc[hookNo[h]] = "unborn"
    BY <1>1 DEF HookDetach, NumberInv
  <2>2. QED
    BY <1>1, <2>1 DEF HookDetach
<1>2. ASSUME NEW h \in Hooks,
             \/ \E e \in Events : HookEvent(h, e)
             \/ HookWrite(h) \/ HookReplace(h) \/ HookFail(h) \/ HookKilled(h)
      PROVE  LockInv'
  BY <1>2 DEF HookEvent, HookWrite, HookReplace, HookFail, HookKilled
<1> Nobody \notin Pushers
  BY DEF Nobody, Pushers
<1>3. ASSUME NEW p \in Pushers, PushLock(p) PROVE LockInv'
  BY <1>3 DEF PushLock
<1>4. ASSUME NEW p \in Pushers, PushGiveUp(p) \/ PushPort(p) \/ PushRead(p) \/ PushSend(p)
      PROVE  LockInv'
  BY <1>4 DEF PushGiveUp, PushPort, PushRead, PushSend
<1>5. ASSUME NEW p \in Pushers, PushLeave(p) PROVE LockInv'
  BY <1>5 DEF PushLeave
<1>6. ASSUME NEW p \in Pushers, PushKilled(p) PROVE LockInv'
  BY <1>6 DEF PushKilled
<1>7. CASE Unplug \/ Plug \/ UNCHANGED vars
  BY <1>7 DEF Unplug, Plug, vars
<1>8. QED
  BY <1>1, <1>2, <1>3, <1>4, <1>5, <1>6, <1>7 DEF Next, Hook, Push

LEMMA NumberStep == TypeOK /\ NumberInv /\ [Next]_vars => NumberInv'
<1> SUFFICES ASSUME TypeOK, NumberInv, [Next]_vars PROVE NumberInv'
  OBVIOUS
<1> USE DEF TypeOK, NumberInv, hookVars, pushVars
<1>1. ASSUME NEW h \in Hooks, HookReplace(h) PROVE NumberInv'
  <2>1. Len(history') = Len(history) + 1 /\ hookNo'[h] = Len(history) + 1
    BY <1>1 DEF HookReplace
  <2>2. \A g \in Hooks : g # h => hookPc'[g] = hookPc[g] /\ hookNo'[g] = hookNo[g]
    BY <1>1 DEF HookReplace
  <2>3. Len(history) \in Nat /\ pushPc' = pushPc
    BY <1>1 DEF HookReplace
  <2>4. \A p \in Pushers : p > Len(history') => pushPc'[p] = "unborn"
    BY <2>1, <2>3 DEF Pushers
  <2>5. ASSUME NEW g \in Hooks, hookPc'[g] = "spooled"
        PROVE  /\ hookNo'[g] \in 1 .. Len(history')
               /\ hookNo'[g] \in Pushers => pushPc'[hookNo'[g]] = "unborn"
               /\ g # h => hookNo'[g] # Len(history) + 1
    <3>1. CASE g = h
      BY <3>1, <2>1, <2>3 DEF Pushers
    <3>2. CASE g # h
      BY <3>2, <2>1, <2>2, <2>3, <2>5
    <3>3. QED
      BY <3>1, <3>2
  <2>6. ASSUME NEW f \in Hooks, NEW g \in Hooks, hookPc'[f] = "spooled",
               hookPc'[g] = "spooled", hookNo'[f] = hookNo'[g]
        PROVE  f = g
    <3>1. CASE f # h /\ g # h
      BY <3>1, <2>2, <2>6
    <3>2. CASE f = h \/ g = h
      BY <3>2, <2>1, <2>5, <2>6
    <3>3. QED
      BY <3>1, <3>2
  <2>7. QED
    BY <2>4, <2>5, <2>6
<1>2. ASSUME NEW h \in Hooks, HookDetach(h) PROVE NumberInv'
  BY <1>2 DEF HookDetach, HookEnds, Pushers
<1>3. ASSUME NEW h \in Hooks,
             \/ \E e \in Events : HookEvent(h, e)
             \/ HookWrite(h) \/ HookFail(h) \/ HookKilled(h)
      PROVE  NumberInv'
  <2>1. /\ hookPc'[h] # "spooled"
        /\ \A g \in Hooks : g # h => hookPc'[g] = hookPc[g] /\ hookNo'[g] = hookNo[g]
        /\ UNCHANGED <<pushPc, history>>
    BY <1>3 DEF HookEvent, HookWrite, HookFail, HookKilled, HookEnds
  <2>2. \A g \in Hooks : hookPc'[g] = "spooled" =>
          g # h /\ hookPc[g] = "spooled" /\ hookNo'[g] = hookNo[g]
    BY <2>1
  <2>3. QED
    BY <2>1, <2>2
<1>4. ASSUME NEW p \in Pushers, Push(p) PROVE NumberInv'
  <2>1. /\ pushPc[p] # "unborn"
        /\ \A q \in Pushers : q # p => pushPc'[q] = pushPc[q]
        /\ UNCHANGED <<hookPc, hookNo, history>>
    BY <1>4 DEF Push, PushLock, PushGiveUp, PushPort, PushRead, PushSend, PushLeave, PushKilled
  <2>2. QED
    BY <2>1
<1>5. CASE Unplug \/ Plug \/ UNCHANGED vars
  BY <1>5 DEF Unplug, Plug, vars
<1>6. QED
  BY <1>1, <1>2, <1>3, <1>4, <1>5 DEF Next, Hook

\* SPOOL always holds the newest word, whole.
LEMMA SpoolStep ==
  TypeOK /\ HookWords /\ SpoolWhole /\ SpoolInit /\ [Next]_vars => SpoolWhole' /\ SpoolInit'
<1> SUFFICES ASSUME TypeOK, HookWords, SpoolWhole, SpoolInit, [Next]_vars
             PROVE  SpoolWhole' /\ SpoolInit'
  OBVIOUS
<1> USE DEF TypeOK, SpoolWhole, SpoolInit
<1>1. ASSUME NEW h \in Hooks, HookReplace(h) PROVE SpoolWhole' /\ SpoolInit'
  <2>1. Len(history') = Len(history) + 1 /\ history'[Len(history) + 1] = hookWord[h]
    BY <1>1 DEF HookReplace, HookWords
  <2>2. spool' = [word |-> hookWord[h], no |-> Len(history) + 1]
    BY <1>1 DEF HookReplace, HookWords, TempName
  <2>3. QED
    BY <2>1, <2>2
<1>2. CASE UNCHANGED <<spool, history>>
  BY <1>2
<1>3. QED
  BY <1>1, <1>2 DEF Next, Hook, Push, vars, hookVars, pushVars, HookEvent, HookWrite, HookFail,
       HookDetach, HookKilled, PushLock, PushGiveUp, PushPort, PushRead, PushSend, PushLeave,
       PushKilled, Unplug, Plug

\* What is sent was published, and only the holder of the lock sends.
LEMMA BoardStep == SafeInv /\ [Next]_vars => BoardInv' /\ SendInv'
<1> SUFFICES ASSUME SafeInv, [Next]_vars PROVE BoardInv' /\ SendInv'
  OBVIOUS
<1> USE DEF SafeInv, TypeOK
<1>1. ASSUME NEW h \in Hooks, HookReplace(h) PROVE BoardInv' /\ SendInv'
  <2>1. /\ Len(history') = Len(history) + 1
        /\ \A n \in 1 .. Len(history) : history'[n] = history[n]
        /\ UNCHANGED <<board, pushPc, taken>>
    BY <1>1 DEF HookReplace, HookWords, pushVars
  <2>2. Len(history) \in Nat
    OBVIOUS
  <2>3. BoardInv'
    BY <2>1, <2>2 DEF BoardInv
  <2>4. ASSUME NEW p \in Pushers, pushPc[p] = "sending"
        PROVE  /\ taken[p].no \in 1 .. Len(history')
               /\ taken[p] = [word |-> history'[taken[p].no], no |-> taken[p].no]
               /\ board.no <= taken[p].no
    BY <2>1, <2>2, <2>4 DEF SendInv
  <2>5. QED
    BY <2>1, <2>3, <2>4 DEF SendInv
<1>2. ASSUME NEW h \in Hooks, HookDetach(h) PROVE BoardInv' /\ SendInv'
  BY <1>2 DEF HookDetach, BoardInv, SendInv
<1>3. ASSUME NEW p \in Pushers, PushRead(p) PROVE BoardInv' /\ SendInv'
  <2>1. BoardInv' /\ board.no <= Len(history)
    BY <1>3 DEF PushRead, BoardInv
  <2>2. ASSUME NEW q \in Pushers, pushPc'[q] = "sending", q = p
        PROVE  /\ taken'[q].no \in 1 .. Len(history')
               /\ taken'[q] = [word |-> history'[taken'[q].no], no |-> taken'[q].no]
               /\ board'.no <= taken'[q].no
    <3>1. taken'[p] = spool /\ spool.word # Absent /\ UNCHANGED <<board, history>>
      BY <1>3, <2>2 DEF PushRead
    <3>2. Len(history) \in Nat \ {0}
      BY <3>1 DEF SpoolInit
    <3>3. QED
      BY <2>1, <2>2, <3>1, <3>2 DEF SpoolWhole
  <2>3. ASSUME NEW q \in Pushers, q # p
        PROVE  pushPc'[q] = pushPc[q] /\ taken'[q] = taken[q] /\ UNCHANGED <<board, history>>
    BY <1>3, <2>3 DEF PushRead
  <2>4. QED
    BY <2>1, <2>2, <2>3 DEF SendInv
<1>4. ASSUME NEW p \in Pushers, PushSend(p) PROVE BoardInv' /\ SendInv'
  <2>1. \A q \in Pushers : pushPc'[q] # "sending"
    BY <1>4 DEF PushSend, LockInv, Holding
  <2>2. board' = board \/ board' = taken[p]
    BY <1>4 DEF PushSend
  <2>3. taken[p].no \in 1 .. Len(history)
        /\ taken[p] = [word |-> history[taken[p].no], no |-> taken[p].no]
    BY <1>4 DEF PushSend, SendInv
  <2>4. UNCHANGED history
    BY <1>4 DEF PushSend
  <2>5. BoardInv'
    BY <2>2, <2>3, <2>4 DEF BoardInv
  <2>6. QED
    BY <2>1, <2>5 DEF SendInv
<1>5. ASSUME NEW p \in Pushers,
             PushLock(p) \/ PushGiveUp(p) \/ PushPort(p) \/ PushLeave(p) \/ PushKilled(p)
      PROVE  BoardInv' /\ SendInv'
  BY <1>5 DEF PushLock, PushGiveUp, PushPort, PushLeave, PushKilled, BoardInv, SendInv
<1>6. CASE Unplug
  BY <1>6 DEF Unplug, BoardInv, SendInv, pushVars
<1>7. CASE UNCHANGED <<board, history, pushPc, taken>>
  BY <1>7 DEF BoardInv, SendInv
<1>8. QED
  BY <1>1, <1>2, <1>3, <1>4, <1>5, <1>6, <1>7
     DEF Next, Hook, Push, vars, hookVars, pushVars, HookEvent, HookWrite, HookFail, HookKilled,
         Plug

LEMMA SafeStep == SafeInv /\ [Next]_vars => SafeInv'
BY TypeStep, HookWordsStep, NumberStep, LockStep, SpoolStep, BoardStep DEF SafeInv

-----------------------------------------------------------------------------
\* The inductive invariant holds in every state of every behaviour.
LEMMA Safe == Spec => []SafeInv
<1>1. Init => SafeInv
  BY SafeInit
<1>2. SafeInv /\ [Next]_vars => SafeInv'
  BY SafeStep
<1>3. QED
  BY <1>1, <1>2, PTL DEF Spec

\* Every variable keeps its type.
THEOREM TypeCorrect == Spec => []TypeOK
<1>1. SafeInv => TypeOK
  BY DEF SafeInv
<1>2. QED
  BY <1>1, Safe, PTL

\* Two pushers are never both past the lock, whatever dies and whenever.
THEOREM TalkersExclude == Spec => []OneTalker
<1>1. SafeInv => OneTalker
  BY DEF SafeInv, LockInv, OneTalker
<1>2. QED
  BY <1>1, Safe, PTL

\* SPOOL holds the newest word, whole, however many hooks overlap.
THEOREM SpoolNeverTorn == Spec => []SpoolWhole
<1>1. SafeInv => SpoolWhole
  BY DEF SafeInv
<1>2. QED
  BY <1>1, Safe, PTL

\* The pusher implements LatestWord: the board shows published words and never
\* goes back to an older one.
THEOREM HookKeepsPromise == Spec => NeverOlder
<1>1. Init => Promise!Init
  BY DEF Init, Promise!Init, Promise!Blank
<1>2. SafeInv /\ [Next]_vars => [Promise!Next]_<<history, board>>
  <2> SUFFICES ASSUME SafeInv, [Next]_vars, ~ UNCHANGED <<history, board>>
               PROVE  Promise!Next
    OBVIOUS
  <2>1. ASSUME NEW h \in Hooks, HookReplace(h) PROVE Promise!Next
    BY <2>1 DEF HookReplace, SafeInv, HookWords, Promise!Next, Promise!Publish
  <2>2. ASSUME NEW p \in Pushers, PushSend(p) PROVE Promise!Next
    <3>1. board' = taken[p] /\ UNCHANGED history
      BY <2>2 DEF PushSend
    <3>2. taken[p].no \in 1 .. Len(history) /\ Promise!Show(taken[p].no)
      BY <2>2, <3>1 DEF PushSend, SafeInv, SendInv, Promise!Show
    <3>3. QED
      BY <3>2 DEF Promise!Next
  <2>3. CASE Unplug
    BY <2>3 DEF Unplug, Promise!Next, Promise!PowerLoss, Promise!Blank
  <2>4. QED
    BY <2>1, <2>2, <2>3
       DEF Next, Hook, Push, vars, hookVars, pushVars, HookEvent, HookWrite, HookFail, HookDetach,
           HookKilled, PushLock, PushGiveUp, PushPort, PushRead, PushLeave, PushKilled, Plug
<1>3. QED
  BY <1>1, <1>2, Safe, PTL DEF Spec, NeverOlder, Promise!Spec

-----------------------------------------------------------------------------
(* Without faults, a stale board is always followed up by somebody, unless a *)
(* pusher gave up on a holder that was already leaving.                      *)

\* Hooks never spool more words than there are pushers to name.
Budget == Len(history) + Cardinality(InFlight) <= MaxEvents

LEMMA BudgetStep == SafeInv /\ Budget /\ [Next]_vars => Budget'
<1> SUFFICES ASSUME SafeInv, Budget, [Next]_vars PROVE Budget'
  OBVIOUS
<1> USE DEF SafeInv, TypeOK, Budget
<1>1. IsFiniteSet(InFlight) /\ Cardinality(InFlight) \in Nat
  BY HooksAssumption, FS_Subset, FS_CardinalityType DEF InFlight
<1>2. Len(history) \in Nat /\ MaxEvents \in Nat
  BY BoundsAssumption
<1>3. ASSUME NEW h \in Hooks, \E e \in Events : HookEvent(h, e) PROVE Budget'
  <2>1. InFlight' = InFlight \cup {h} /\ h \notin InFlight
    BY <1>3 DEF HookEvent, InFlight
  <2>2. Cardinality(InFlight') = Cardinality(InFlight) + 1
    BY <1>1, <2>1, FS_AddElement
  <2>3. Len(history) + Cardinality(InFlight) < MaxEvents /\ history' = history
    BY <1>3 DEF HookEvent
  <2>4. QED
    BY <1>1, <1>2, <2>2, <2>3
<1>4. ASSUME NEW h \in Hooks, HookReplace(h) PROVE Budget'
  <2>1. InFlight' = InFlight \ {h} /\ h \in InFlight
    BY <1>4 DEF HookReplace, InFlight
  <2>2. Cardinality(InFlight') = Cardinality(InFlight) - 1
    BY <1>1, <2>1, FS_RemoveElement
  <2>3. Len(history') = Len(history) + 1
    BY <1>4 DEF HookReplace, HookWords
  <2>4. QED
    BY <1>1, <1>2, <2>2, <2>3
<1>5. ASSUME NEW h \in Hooks, HookFail(h) \/ HookDetach(h) \/ HookKilled(h) PROVE Budget'
  <2>1. InFlight' \in SUBSET InFlight /\ history' = history
    BY <1>5 DEF HookFail, HookDetach, HookKilled, HookEnds, InFlight
  <2>2. Cardinality(InFlight') \in Nat /\ Cardinality(InFlight') <= Cardinality(InFlight)
    BY <1>1, <2>1, FS_Subset, FS_CardinalityType
  <2>3. QED
    BY <1>1, <1>2, <2>1, <2>2
<1>6. ASSUME NEW h \in Hooks, HookWrite(h) PROVE Budget'
  <2>1. InFlight' = InFlight /\ history' = history
    BY <1>6 DEF HookWrite, InFlight
  <2>2. QED
    BY <2>1
<1>7. CASE UNCHANGED <<hookPc, history>>
  BY <1>7 DEF InFlight
<1>8. QED
  BY <1>3, <1>4, <1>5, <1>6, <1>7
     DEF Next, Hook, Push, vars, hookVars, PushLock, PushGiveUp, PushPort, PushRead, PushSend,
         PushLeave, PushKilled, Unplug, Plug

\* A pusher has sent nothing before its first read.
FreshSent ==
  \A p \in Pushers : pushPc[p] \in {"unborn", "start", "locked"} => sent[p] = NoWord

\* Between two sends the board shows what the holder sent.
SentShown ==
  \A p \in Pushers : pushPc[p] = "reading" /\ sent[p] # NoWord => board.word = sent[p]

\* Somebody is still going to read SPOOL.
FollowUp == \/ \E h \in Hooks : hookPc[h] = "spooled" /\ hookNo[h] = Len(history)
            \/ pushPc[Len(history)] = "start"
            \/ \E p \in Pushers : pushPc[p] \in {"locked", "reading", "sending"}

FaultFree == /\ port
             /\ SentShown
             /\ ~raced /\ Len(history) > 0 /\ board.word # spool.word => FollowUp

StaleInv == SafeInv /\ Budget /\ FreshSent /\ (faults = 0 => FaultFree)

LEMMA StaleInit == Init => StaleInv
<1> SUFFICES ASSUME Init PROVE StaleInv
  OBVIOUS
<1>1. InFlight = {} /\ Len(history) = 0
  BY DEF Init, InFlight
<1>2. Budget
  BY <1>1, FS_EmptySet, BoundsAssumption DEF Budget
<1>3. FreshSent /\ FaultFree
  BY <1>1 DEF Init, FreshSent, FaultFree, SentShown
<1>4. QED
  BY SafeInit, <1>2, <1>3 DEF StaleInv

LEMMA FreshStep == SafeInv /\ FreshSent /\ [Next]_vars => FreshSent'
<1> SUFFICES ASSUME SafeInv, FreshSent, [Next]_vars PROVE FreshSent'
  OBVIOUS
<1> USE DEF SafeInv, TypeOK, FreshSent
<1>1. ASSUME NEW h \in Hooks, HookDetach(h) PROVE FreshSent'
  <2>1. hookNo[h] \in Pushers => pushPc[hookNo[h]] = "unborn"
    BY <1>1 DEF HookDetach, NumberInv
  <2>2. QED
    BY <1>1, <2>1 DEF HookDetach
<1>2. ASSUME NEW p \in Pushers, Push(p) PROVE FreshSent'
  BY <1>2 DEF Push, PushLock, PushGiveUp, PushPort, PushRead, PushSend, PushLeave, PushKilled
<1>3. CASE UNCHANGED <<pushPc, sent>>
  BY <1>3
<1>4. QED
  BY <1>1, <1>2, <1>3 DEF Next, Hook, vars, pushVars, HookEvent, HookWrite, HookReplace,
     HookFail, HookKilled, Unplug, Plug

LEMMA FaultFreeStep == StaleInv /\ [Next]_vars /\ faults' = 0 => FaultFree'
<1> SUFFICES ASSUME StaleInv, [Next]_vars, faults' = 0 PROVE FaultFree'
  OBVIOUS
<1> USE DEF StaleInv, SafeInv, TypeOK
<1>1. faults = 0 /\ ~Fault
  BY BoundsAssumption DEF Next, Hook, Push, vars, hookVars, pushVars, HookEvent, HookWrite,
     HookReplace, HookFail, HookDetach, HookKilled, PushLock, PushGiveUp, PushPort, PushRead,
     PushSend, PushLeave, PushKilled, Unplug, Plug, Fault
<1>2. port /\ SentShown /\ (~raced /\ Len(history) > 0 /\ board.word # spool.word => FollowUp)
  BY <1>1 DEF FaultFree
<1>3. Len(history) \in Nat /\ (Len(history) > 0 => Len(history) \in Pushers)
  <2>1. IsFiniteSet(InFlight)
    BY HooksAssumption, FS_Subset DEF InFlight
  <2>2. Cardinality(InFlight) \in Nat
    BY <2>1, FS_CardinalityType
  <2>3. QED
    BY <2>2, BoundsAssumption DEF Budget, Pushers
<1>4. ASSUME NEW h \in Hooks, (\E e \in Events : HookEvent(h, e)) \/ HookWrite(h)
      PROVE  FaultFree'
  <2>1. \A g \in Hooks : hookPc[g] = "spooled" => hookPc'[g] = "spooled" /\ hookNo'[g] = hookNo[g]
    BY <1>4 DEF HookEvent, HookWrite
  <2>2. UNCHANGED <<pushVars, spool, port, board, history, raced>>
    BY <1>4 DEF HookEvent, HookWrite
  <2>3. QED
    BY <1>2, <2>1, <2>2 DEF pushVars, FaultFree, SentShown, FollowUp
<1>5. ASSUME NEW h \in Hooks, HookReplace(h) PROVE FaultFree'
  <2>1. hookPc'[h] = "spooled" /\ hookNo'[h] = Len(history')
    BY <1>5 DEF HookReplace, HookWords
  <2>2. UNCHANGED <<pushPc, sent, port, board>>
    BY <1>5 DEF HookReplace, pushVars
  <2>3. QED
    BY <1>2, <2>1, <2>2 DEF FaultFree, SentShown, FollowUp
<1>6. ASSUME NEW h \in Hooks, HookDetach(h) PROVE FaultFree'
  <2>1. /\ hookNo[h] \in Pushers => pushPc[hookNo[h]] = "unborn"
        /\ hookNo[h] = Len(history) => pushPc'[Len(history)] = "start"
    BY <1>3, <1>6 DEF HookDetach, NumberInv
  <2>2. /\ \A g \in Hooks : g # h => hookPc'[g] = hookPc[g] /\ hookNo'[g] = hookNo[g]
        /\ \A p \in Pushers : p # hookNo[h] => pushPc'[p] = pushPc[p]
        /\ hookNo[h] \in Pushers => pushPc'[hookNo[h]] = "start"
        /\ UNCHANGED <<sent, spool, port, board, history, raced>>
    BY <1>6 DEF HookDetach, HookEnds
  <2>3. SentShown'
    BY <1>2, <2>2 DEF SentShown
  <2>4. ASSUME FollowUp, Len(history) > 0 PROVE FollowUp'
    BY <1>3, <2>1, <2>2, <2>4 DEF FollowUp
  <2>5. QED
    BY <1>2, <2>2, <2>3, <2>4 DEF FaultFree
<1>7. ASSUME NEW p \in Pushers, PushLock(p) \/ PushPort(p) PROVE FaultFree'
  <2>1. pushPc'[p] \in {"locked", "reading"}
    BY <1>2, <1>7 DEF PushLock, PushPort
  <2>2. SentShown' /\ port'
    BY <1>2, <1>7 DEF PushLock, PushPort, SentShown, FreshSent
  <2>3. QED
    BY <2>1, <2>2 DEF FaultFree, FollowUp
<1>8. ASSUME NEW p \in Pushers, PushGiveUp(p) PROVE FaultFree'
  <2>1. SentShown' /\ port'
    BY <1>2, <1>8 DEF PushGiveUp, SentShown
  <2>2. ASSUME ~raced' PROVE FollowUp'
    <3>1. lock \in Pushers /\ pushPc[lock] \in {"locked", "reading", "sending"}
      BY <1>8, <2>2 DEF PushGiveUp, LockInv, Holding
    <3>2. pushPc'[lock] = pushPc[lock]
      BY <1>8, <3>1 DEF PushGiveUp
    <3>3. QED
      BY <3>1, <3>2 DEF FollowUp
  <2>3. QED
    BY <2>1, <2>2 DEF FaultFree
<1>9. ASSUME NEW p \in Pushers, PushRead(p) PROVE FaultFree'
  <2>1. SentShown' /\ port'
    BY <1>2, <1>9 DEF PushRead, SentShown
  <2>2. UNCHANGED <<board, spool, history, raced>>
    BY <1>9 DEF PushRead
  <2>3. CASE pushPc'[p] = "sending"
    BY <2>1, <2>3 DEF FaultFree, FollowUp
  <2>4. CASE spool.word \in {Absent, Empty, sent[p]}
    <3>1. Len(history) > 0 => spool.word \in Words
      BY <1>3 DEF SpoolWhole
    <3>2. NoWord \notin Words /\ Absent \notin Words /\ Empty \notin Words
      BY DEF NoWord, Absent, Empty, Words
    <3>3. Len(history) > 0 => sent[p] = spool.word /\ sent[p] # NoWord
      BY <2>4, <3>1, <3>2
    <3>4. Len(history) > 0 => board.word = spool.word
      BY <1>2, <1>9, <3>3 DEF SentShown, PushRead
    <3>5. QED
      BY <2>1, <2>2, <3>4 DEF FaultFree
  <2>5. QED
    BY <1>9, <2>3, <2>4 DEF PushRead
<1>10. ASSUME NEW p \in Pushers, PushSend(p) PROVE FaultFree'
  <2>1. /\ board' = taken[p] /\ port'
        /\ sent' = [sent EXCEPT ![p] = taken[p].word]
        /\ pushPc' = [pushPc EXCEPT ![p] = "reading"]
    BY <1>1, <1>2, <1>10 DEF PushSend
  <2>2. \A q \in Pushers : q # p => pushPc'[q] # "reading"
    BY <1>10, <2>1 DEF PushSend, LockInv, Holding
  <2>3. SentShown'
    BY <2>1, <2>2 DEF SentShown
  <2>4. QED
    BY <2>1, <2>3 DEF FaultFree, FollowUp
<1>11. ASSUME NEW p \in Pushers, PushLeave(p) PROVE FaultFree'
  <2>1. /\ pushPc[p] = "leaving" /\ pushPc'[p] = "gone"
        /\ \A q \in Pushers : q # p => pushPc'[q] = pushPc[q]
        /\ UNCHANGED <<hookPc, hookNo, sent, spool, port, board, history, raced>>
    BY <1>11 DEF PushLeave, hookVars
  <2>2. ASSUME FollowUp, Len(history) > 0 PROVE FollowUp'
    BY <1>3, <2>1, <2>2 DEF FollowUp
  <2>3. QED
    BY <1>2, <2>1, <2>2 DEF FaultFree, SentShown
<1>12. CASE UNCHANGED vars
  BY <1>2, <1>12 DEF vars, hookVars, pushVars, FaultFree, SentShown, FollowUp
<1>13. QED
  BY <1>1, <1>2, <1>4, <1>5, <1>6, <1>7, <1>8, <1>9, <1>10, <1>11, <1>12
     DEF Next, Hook, Push, HookFail, HookKilled, PushKilled, Unplug, Plug

\* Without faults the board shows the newest word whenever all is quiet, unless
\* a pusher gave up on a holder that had done its last read.
THEOREM OnlyTheRaceLosesWords == Spec => []StaleOnlyIfRaced
<1>1. Init => StaleInv
  BY StaleInit
<1>2. StaleInv /\ [Next]_vars => StaleInv'
  BY SafeStep, BudgetStep, FreshStep, FaultFreeStep DEF StaleInv
<1>3. StaleInv => StaleOnlyIfRaced
  <2>1. ASSUME StaleInv, Quiet, Len(history) > 0 PROVE ~FollowUp
    <3>1. Len(history) \in Pushers
      <4>1. IsFiniteSet(InFlight)
        BY HooksAssumption, FS_Subset DEF InFlight
      <4>2. Cardinality(InFlight) \in Nat
        BY <4>1, FS_CardinalityType
      <4>3. QED
        BY <2>1, <4>2, BoundsAssumption DEF StaleInv, SafeInv, TypeOK, Budget, Pushers
    <3>2. QED
      BY <2>1, <3>1 DEF Quiet, FollowUp
  <2>2. QED
    BY <2>1 DEF StaleInv, FaultFree, StaleOnlyIfRaced
<1>4. QED
  BY <1>1, <1>2, <1>3, PTL DEF Spec
=============================================================================
