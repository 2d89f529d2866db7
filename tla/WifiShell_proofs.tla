-------------------------- MODULE WifiShell_proofs --------------------------
(* Proofs about WifiShell and about NetShell, which puts ping on top of it,  *)
(* for all networks and passwords and every number of commands, pings and    *)
(* faults.                                                                   *)
EXTENDS NetShell, SequenceTheorems, TLAPS

USE DEF Goto, Fault, StoredPassword, Drained, AfterLoss,
        shellVars, driverVars, handlerVars, ghosts, esp_wifi_disconnect, esp_wifi_connect

\* The second half of wifi_connect runs for wifi_connect only.
CommandInv ==
  pc \in {"drain", "connect", "wait", "saveSsid", "savePassword"} => command = "connect"

TypeInv == TypeOK /\ CommandInv

\* One key of what NVS holds can be replaced by one of a pair of credentials.
LEMMA StoredParts ==
  ASSUME NEW n \in Stored, NEW c \in Credentials
  PROVE  [n EXCEPT !.ssid = c.ssid] \in Stored /\ [n EXCEPT !.pass = c.pass] \in Stored
BY DEF Stored, Credentials

LEMMA PlainTypes ==
  /\ NoToken \in Tokens
  /\ NoCredentials \in Stored
  /\ Credentials \subseteq Stored
  /\ NoEvent \notin Events
  /\ \A no \in Nat : Event("got ip", no) \in Events /\ Event("disconnected", no) \in Events
BY DEF NoToken, Tokens, NoCredentials, Stored, Credentials, NoEvent, Event, Events

LEMMA EventKinds ==
  /\ NoEvent.kind = "none"
  /\ \A kind, no : Event(kind, no).kind = kind
BY DEF NoEvent, Event

LEMMA NextNumber == commands \in 0 .. MaxCommands => commands + 1 \in Nat
BY BoundsAssumption

LEMMA NextAttempt ==
  ASSUME attempt \in Nat, attempt' = attempt + 1 \/ attempt' = attempt
  PROVE  attempt' \in Nat
OBVIOUS

LEMMA QueueTypes ==
  ASSUME NEW q \in Seq(Events)
  PROVE  /\ \A e \in Events : Append(q, e) \in Seq(Events)
         /\ q # << >> => Head(q) \in Events /\ Tail(q) \in Seq(Events)
OBVIOUS

\* A save or an erasure that is cut short leaves NVS with texts of its type.
LEMMA CutStored ==
  ASSUME nvs \in Stored, pc = "savePassword" => cred \in Credentials, NEW n \in AfterCut
  PROVE  n \in Stored
<1>1. CASE pc = "savePassword"
  BY <1>1, StoredParts DEF AfterCut
<1>2. CASE pc # "savePassword"
  BY <1>2, PlainTypes DEF AfterCut
<1>3. QED
  BY <1>1, <1>2

\* TypeOK in three parts: the shell's own variables, the credentials, and what the
\* tasks and the driver pass each other.
ShellType ==
  /\ pc \in Pcs
  /\ command \in {"none", "connect", "disconnect", "forget"}
  /\ commands \in 0 .. MaxCommands
  /\ initialized \in BOOLEAN
  /\ connected \in BOOLEAN
  /\ cut \in BOOLEAN
  /\ faults \in 0 .. MaxFaults
  /\ CommandInv

CredentialType ==
  /\ cred \in Credentials \cup {NoCredentials}
  /\ command = "connect" => cred \in Credentials
  /\ nvs \in Stored
  /\ worked \in Credentials \cup {NoCredentials}

EventType ==
  /\ sem \in Tokens
  /\ took \in Tokens
  /\ link \in {"down", "joining", "up"}
  /\ attempt \in Nat
  /\ queue \in Seq(Events)
  /\ handling \in Events \cup {NoEvent}
  /\ half \in BOOLEAN
  /\ half => handling.kind = "got ip"

LEMMA TypeParts == TypeInv <=> ShellType /\ CredentialType /\ EventType
BY DEF TypeInv, TypeOK, ShellType, CredentialType, EventType

LEMMA TypeInit == Init => TypeInv
<1> SUFFICES ASSUME Init PROVE TypeInv
  OBVIOUS
<1>1. ShellType
  <2>1. pc = "off" /\ command = "none" /\ commands = 0 /\ faults = 0
    BY DEF Init
  <2>2. initialized \in BOOLEAN /\ connected \in BOOLEAN /\ cut \in BOOLEAN
    BY DEF Init
  <2>3. QED
    BY <2>1, <2>2, BoundsAssumption DEF ShellType, CommandInv, Pcs
<1>2. CredentialType
  BY PlainTypes DEF Init, CredentialType
<1>3. EventType
  <2>1. sem = NoToken /\ took = NoToken /\ handling = NoEvent /\ half = FALSE
    BY DEF Init
  <2>2. link = "down" /\ attempt = 0 /\ queue \in Seq(Events)
    BY EmptySeq DEF Init
  <2>3. QED
    BY <2>1, <2>2, PlainTypes DEF EventType
<1>4. QED
  BY <1>1, <1>2, <1>3, TypeParts

LEMMA ShellTypeStep == ShellType /\ [Next]_vars => ShellType'
<1> SUFFICES ASSUME ShellType, [Next]_vars PROVE ShellType'
  OBVIOUS
<1> USE BoundsAssumption DEF ShellType, CommandInv, Pcs
<1>1. CASE InitWifi
  BY <1>1 DEF InitWifi
<1>2. CASE InitWifiFails
  BY <1>2 DEF InitWifiFails
<1>3. CASE InitWifiErases
  <2>1. /\ pc' = "idle" /\ initialized' = TRUE /\ cut' = FALSE
        /\ faults' \in 0 .. MaxFaults
        /\ UNCHANGED <<command, commands, connected>>
    BY <1>3 DEF InitWifiErases
  <2>2. QED
    BY <2>1
<1>4. CASE WifiConnect
  BY <1>4 DEF WifiConnect, Begin
<1>5. CASE WifiDisconnect
  BY <1>5 DEF WifiDisconnect, Begin
<1>6. CASE WifiForget
  BY <1>6 DEF WifiForget, Begin
<1>7. CASE Erase
  BY <1>7 DEF Erase
<1>8. CASE EraseFails
  BY <1>8 DEF EraseFails
<1>9. CASE Disconnect
  BY <1>9 DEF Disconnect
<1>10. CASE ClearConnected
  BY <1>10 DEF ClearConnected
<1>11. CASE Drain
  BY <1>11 DEF Drain
<1>12. CASE Connect
  BY <1>12 DEF Connect
<1>13. CASE TakeToken
  BY <1>13 DEF TakeToken
<1>14. CASE Timeout
  BY <1>14 DEF Timeout
<1>15. CASE SaveSsid
  BY <1>15 DEF SaveSsid
<1>16. CASE SavePassword
  BY <1>16 DEF SavePassword
<1>17. CASE SaveFails
  BY <1>17 DEF SaveFails, AfterCut
<1>18. CASE TakeEvent
  BY <1>18 DEF TakeEvent
<1>19. CASE HandleDisconnected
  BY <1>19 DEF HandleDisconnected
<1>20. CASE HandleGotIp
  BY <1>20 DEF HandleGotIp
<1>21. CASE GiveToken
  BY <1>21 DEF GiveToken
<1>22. CASE Joins
  BY <1>22 DEF Joins
<1>23. CASE LinkLost
  BY <1>23 DEF LinkLost
<1>24. CASE PowerLoss
  <2>1. /\ pc' = "off" /\ command' = "none" /\ initialized' = FALSE /\ connected' = FALSE
        /\ faults' \in 0 .. MaxFaults
        /\ UNCHANGED commands
    BY <1>24 DEF PowerLoss
  <2>2. cut' \in BOOLEAN
    BY <1>24 DEF PowerLoss
  <2>3. QED
    BY <2>1, <2>2
<1>25. CASE UNCHANGED vars
  BY <1>25 DEF vars
<1>26. QED
  BY <1>1, <1>2, <1>3, <1>4, <1>5, <1>6, <1>7, <1>8, <1>9, <1>10, <1>11, <1>12, <1>13,
     <1>14, <1>15, <1>16, <1>17, <1>18, <1>19, <1>20, <1>21, <1>22, <1>23, <1>24, <1>25
     DEF Next, Shell, Handler

LEMMA CredentialTypeStep == CredentialType /\ ShellType /\ [Next]_vars => CredentialType'
<1> SUFFICES ASSUME CredentialType, ShellType, [Next]_vars PROVE CredentialType'
  OBVIOUS
<1> USE PlainTypes DEF CredentialType
<1>1. CASE InitWifi
  BY <1>1 DEF InitWifi
<1>2. CASE InitWifiFails
  BY <1>2 DEF InitWifiFails
<1>3. CASE InitWifiErases
  BY <1>3 DEF InitWifiErases
<1>4. CASE WifiConnect
  <2>1. cred' \in Credentials
    BY <1>4 DEF WifiConnect, Loadable
  <2>2. command' = "connect" /\ UNCHANGED <<nvs, worked>>
    BY <1>4 DEF WifiConnect, Begin
  <2>3. QED
    BY <2>1, <2>2
<1>5. CASE WifiDisconnect
  BY <1>5 DEF WifiDisconnect, Begin
<1>6. CASE WifiForget
  BY <1>6 DEF WifiForget, Begin
<1>7. CASE Erase
  BY <1>7 DEF Erase
<1>8. CASE EraseFails
  BY <1>8 DEF EraseFails
<1>9. CASE Disconnect
  BY <1>9 DEF Disconnect
<1>10. CASE ClearConnected
  BY <1>10 DEF ClearConnected
<1>11. CASE Drain
  BY <1>11 DEF Drain
<1>12. CASE Connect
  BY <1>12 DEF Connect
<1>13. CASE TakeToken
  BY <1>13 DEF TakeToken
<1>14. CASE Timeout
  BY <1>14 DEF Timeout
<1>15. CASE SaveSsid
  <2>1. cred \in Credentials /\ nvs' = [nvs EXCEPT !.ssid = cred.ssid]
    BY <1>15 DEF SaveSsid, ShellType, CommandInv
  <2>2. nvs' \in Stored
    BY <2>1, StoredParts
  <2>3. UNCHANGED <<cred, command, worked>>
    BY <1>15 DEF SaveSsid
  <2>4. QED
    BY <2>2, <2>3
<1>16. CASE SavePassword
  <2>1. cred \in Credentials /\ nvs' = [nvs EXCEPT !.pass = cred.pass]
    BY <1>16 DEF SavePassword, ShellType, CommandInv
  <2>2. nvs' \in Stored
    BY <2>1, StoredParts
  <2>3. UNCHANGED <<cred, command, worked>>
    BY <1>16 DEF SavePassword
  <2>4. QED
    BY <2>2, <2>3
<1>17. CASE SaveFails
  <2>1. nvs' \in Stored
    BY <1>17, CutStored DEF SaveFails, ShellType, CommandInv
  <2>2. UNCHANGED <<cred, command, worked>>
    BY <1>17 DEF SaveFails
  <2>3. QED
    BY <2>1, <2>2
<1>18. CASE TakeEvent
  BY <1>18 DEF TakeEvent
<1>19. CASE HandleDisconnected
  BY <1>19 DEF HandleDisconnected
<1>20. CASE HandleGotIp
  BY <1>20 DEF HandleGotIp
<1>21. CASE GiveToken
  BY <1>21 DEF GiveToken
<1>22. CASE Joins
  BY <1>22 DEF Joins
<1>23. CASE LinkLost
  BY <1>23 DEF LinkLost
<1>24. CASE PowerLoss
  <2>1. nvs' \in Stored
    BY <1>24, CutStored DEF PowerLoss, ShellType, CommandInv
  <2>2. cred' = NoCredentials /\ command' = "none" /\ UNCHANGED worked
    BY <1>24 DEF PowerLoss
  <2>3. QED
    BY <2>1, <2>2
<1>25. CASE UNCHANGED vars
  BY <1>25 DEF vars
<1>26. QED
  BY <1>1, <1>2, <1>3, <1>4, <1>5, <1>6, <1>7, <1>8, <1>9, <1>10, <1>11, <1>12, <1>13,
     <1>14, <1>15, <1>16, <1>17, <1>18, <1>19, <1>20, <1>21, <1>22, <1>23, <1>24, <1>25
     DEF Next, Shell, Handler

LEMMA EventTypeStep == EventType /\ ShellType /\ [Next]_vars => EventType'
<1> SUFFICES ASSUME EventType, ShellType, [Next]_vars PROVE EventType'
  OBVIOUS
<1> USE PlainTypes DEF EventType
<1>1. CASE InitWifi
  <2>1. \/ link' = "joining" /\ attempt' = attempt + 1 /\ queue' = queue
        \/ link' = link /\ attempt' = attempt /\ queue' = queue
    BY <1>1, Zenon DEF InitWifi
  <2>2. attempt' \in Nat
    BY <2>1, NextAttempt, Zenon
  <2>3. link' \in {"down", "joining", "up"} /\ queue' \in Seq(Events)
    BY <2>1
  <2>4. UNCHANGED <<sem, took, handling, half>>
    BY <1>1 DEF InitWifi
  <2>5. QED
    BY <2>2, <2>3, <2>4
<1>2. CASE InitWifiFails
  BY <1>2 DEF InitWifiFails
<1>3. CASE InitWifiErases
  BY <1>3 DEF InitWifiErases
<1>4. CASE WifiConnect
  BY <1>4 DEF WifiConnect, Begin
<1>5. CASE WifiDisconnect
  BY <1>5 DEF WifiDisconnect, Begin
<1>6. CASE WifiForget
  BY <1>6 DEF WifiForget, Begin
<1>7. CASE Erase
  BY <1>7 DEF Erase
<1>8. CASE EraseFails
  BY <1>8 DEF EraseFails
<1>9. CASE Disconnect
  <2>1. link' = "down" /\ UNCHANGED <<sem, took, handling, half, attempt>>
    BY <1>9 DEF Disconnect
  <2>2. queue' \in Seq(Events)
    BY <1>9, QueueTypes, PlainTypes DEF Disconnect
  <2>3. QED
    BY <2>1, <2>2
<1>10. CASE ClearConnected
  BY <1>10 DEF ClearConnected
<1>11. CASE Drain
  BY <1>11 DEF Drain
<1>12. CASE Connect
  <2>1. \/ link' = "joining" /\ attempt' = attempt + 1 /\ queue' = queue
        \/ link' = link /\ attempt' = attempt /\ queue' = queue
    BY <1>12, Zenon DEF Connect
  <2>2. attempt' \in Nat
    BY <2>1, NextAttempt, Zenon
  <2>3. link' \in {"down", "joining", "up"} /\ queue' \in Seq(Events)
    BY <2>1
  <2>4. UNCHANGED <<sem, took, handling, half>>
    BY <1>12 DEF Connect
  <2>5. QED
    BY <2>2, <2>3, <2>4
<1>13. CASE TakeToken
  BY <1>13 DEF TakeToken
<1>14. CASE Timeout
  BY <1>14 DEF Timeout
<1>15. CASE SaveSsid
  BY <1>15 DEF SaveSsid
<1>16. CASE SavePassword
  BY <1>16 DEF SavePassword
<1>17. CASE SaveFails
  BY <1>17 DEF SaveFails, AfterCut
<1>18. CASE TakeEvent
  <2>1. handling' \in Events /\ queue' \in Seq(Events)
    BY <1>18, QueueTypes DEF TakeEvent
  <2>2. ~half'
    BY <1>18 DEF TakeEvent, NoEvent, Event
  <2>3. UNCHANGED <<sem, took, link, attempt>> /\ half' = half
    BY <1>18 DEF TakeEvent
  <2>4. QED
    BY <2>1, <2>2, <2>3
<1>19. CASE HandleDisconnected
  BY <1>19 DEF HandleDisconnected
<1>20. CASE HandleGotIp
  BY <1>20 DEF HandleGotIp
<1>21. CASE GiveToken
  <2>1. handling.kind = "got ip"
    BY <1>21 DEF GiveToken
  <2>2. handling.no \in Nat
    BY <2>1, EventKinds DEF Events
  <2>3. commands \in 0 .. MaxCommands
    BY DEF ShellType
  <2>4. commands + 1 \in Nat
    BY <2>3, NextNumber, Zenon
  <2>5. sem' \in Tokens
    BY <1>21, <2>2, <2>4 DEF GiveToken, Tokens
  <2>6. half' = FALSE /\ handling' = NoEvent /\ UNCHANGED <<took, link, attempt, queue>>
    BY <1>21 DEF GiveToken
  <2>7. QED
    BY <2>5, <2>6, PlainTypes
<1>22. CASE Joins
  <2>1. link' = "up" /\ UNCHANGED <<sem, took, handling, half, attempt>>
    BY <1>22 DEF Joins
  <2>2. queue' \in Seq(Events)
    BY <1>22, QueueTypes, PlainTypes DEF Joins
  <2>3. QED
    BY <2>1, <2>2
<1>23. CASE LinkLost
  <2>1. link' = "down" /\ UNCHANGED <<sem, took, handling, half, attempt>>
    BY <1>23 DEF LinkLost
  <2>2. queue' \in Seq(Events)
    BY <1>23, QueueTypes, PlainTypes DEF LinkLost
  <2>3. QED
    BY <2>1, <2>2
<1>24. CASE PowerLoss
  <2>1. /\ sem' = NoToken /\ took' = NoToken /\ link' = "down" /\ handling' = NoEvent
        /\ half' = FALSE /\ UNCHANGED attempt
    BY <1>24 DEF PowerLoss
  <2>2. queue' = << >>
    BY <1>24 DEF PowerLoss
  <2>3. << >> \in Seq(Events)
    BY EmptySeq, Zenon
  <2>4. QED
    BY <2>1, <2>2, <2>3, PlainTypes
<1>25. CASE UNCHANGED vars
  BY <1>25 DEF vars
<1>26. QED
  BY <1>1, <1>2, <1>3, <1>4, <1>5, <1>6, <1>7, <1>8, <1>9, <1>10, <1>11, <1>12, <1>13,
     <1>14, <1>15, <1>16, <1>17, <1>18, <1>19, <1>20, <1>21, <1>22, <1>23, <1>24, <1>25
     DEF Next, Shell, Handler

\* No step leaves the type.
LEMMA TypeStep == TypeInv /\ [Next]_vars => TypeInv'
<1> SUFFICES ASSUME TypeInv, [Next]_vars PROVE TypeInv'
  OBVIOUS
<1>1. ShellType /\ CredentialType /\ EventType
  BY TypeParts
<1>2. ShellType' /\ CredentialType' /\ EventType'
  BY <1>1, ShellTypeStep, CredentialTypeStep, EventTypeStep
<1>3. QED
  BY <1>2 DEF TypeInv, TypeOK, ShellType, CredentialType, EventType

\* TypeOK, for every instance.
THEOREM TypeCorrect == Spec => []TypeOK
<1>1. TypeInv => TypeOK
  BY DEF TypeInv
<1>2. QED
  BY TypeInit, TypeStep, <1>1, PTL DEF Spec

LEMMA TypesKept == Spec => []TypeInv
BY TypeInit, TypeStep, PTL DEF Spec

-----------------------------------------------------------------------------
(***************************************************************************)
(* NoOldToken.  What has to be added is the reason: from the drain until   *)
(* the wait ends, a token in the semaphore is one of this command.         *)
(***************************************************************************)
TokenInv ==
  /\ NoOldToken
  /\ pc \in {"connect", "wait"} /\ sem # NoToken => sem.command = commands + 1

LEMMA TokenStep == TypeInv /\ TokenInv /\ [Next]_vars => TokenInv'
<1> SUFFICES ASSUME TypeInv, TokenInv, [Next]_vars PROVE TokenInv'
  OBVIOUS
<1> USE DEF TypeInv, TypeOK, TokenInv, NoOldToken
<1>1. CASE InitWifi
  BY <1>1 DEF InitWifi
<1>2. CASE InitWifiFails
  BY <1>2 DEF InitWifiFails
<1>3. CASE InitWifiErases
  BY <1>3 DEF InitWifiErases
<1>4. CASE WifiConnect
  BY <1>4 DEF WifiConnect, Begin
<1>5. CASE WifiDisconnect
  BY <1>5 DEF WifiDisconnect, Begin
<1>6. CASE WifiForget
  BY <1>6 DEF WifiForget, Begin
<1>7. CASE Erase
  BY <1>7 DEF Erase
<1>8. CASE EraseFails
  BY <1>8 DEF EraseFails
<1>9. CASE Disconnect
  BY <1>9 DEF Disconnect
<1>10. CASE ClearConnected
  BY <1>10 DEF ClearConnected
<1>11. CASE Drain
  BY <1>11 DEF Drain
<1>12. CASE Connect
  BY <1>12 DEF Connect
<1>13. CASE TakeToken
  BY <1>13 DEF TakeToken
<1>14. CASE Timeout
  BY <1>14 DEF Timeout
<1>15. CASE SaveSsid
  BY <1>15 DEF SaveSsid
<1>16. CASE SavePassword
  BY <1>16 DEF SavePassword
<1>17. CASE SaveFails
  BY <1>17 DEF SaveFails, AfterCut
<1>18. CASE TakeEvent
  BY <1>18 DEF TakeEvent
<1>19. CASE HandleDisconnected
  BY <1>19 DEF HandleDisconnected
<1>20. CASE HandleGotIp
  BY <1>20 DEF HandleGotIp
<1>21. CASE GiveToken
  BY <1>21 DEF GiveToken
<1>22. CASE Joins
  BY <1>22 DEF Joins
<1>23. CASE LinkLost
  BY <1>23 DEF LinkLost
<1>24. CASE PowerLoss
  BY <1>24 DEF PowerLoss, AfterCut
<1>25. CASE UNCHANGED vars
  BY <1>25 DEF vars
<1>26. QED
  BY <1>1, <1>2, <1>3, <1>4, <1>5, <1>6, <1>7, <1>8, <1>9, <1>10, <1>11, <1>12, <1>13,
     <1>14, <1>15, <1>16, <1>17, <1>18, <1>19, <1>20, <1>21, <1>22, <1>23, <1>24, <1>25
     DEF Next, Shell, Handler

\* NoOldToken: a wifi_connect never succeeds on a token from before it began.
THEOREM TokensAreFresh == Spec => []NoOldToken
<1>1. Init => TokenInv
  BY DEF Init, TokenInv, NoOldToken
<1>2. TokenInv => NoOldToken
  BY DEF TokenInv
<1>3. QED
  BY TypesKept, TokenStep, <1>1, <1>2, PTL DEF Spec

-----------------------------------------------------------------------------
(***************************************************************************)
(* FlagSettles.  The event that is handled last decides: the last one of   *)
(* the queue, or else the one in the handler's hands, or else what         *)
(* s_wifi_connected says already.  It always agrees with the link.         *)
(***************************************************************************)
Verdict ==
  IF queue # << >> THEN queue[Len(queue)].kind
  ELSE IF handling # NoEvent THEN handling.kind
  ELSE IF connected THEN "got ip" ELSE "disconnected"

FlagInv ==
  /\ Verdict = "got ip" <=> link = "up"
  /\ half /\ queue = << >> => connected
  /\ pc \in {"off", "clear", "drain", "connect"} => link = "down"

\* Posting an event makes it the last one.
LEMMA Posted ==
  ASSUME NEW kind, queue \in Seq(Events), queue' = Append(queue, Event(kind, attempt)),
         Event(kind, attempt) \in Events
  PROVE  queue' # << >> /\ queue'[Len(queue')].kind = kind
<1>1. queue' # << >> /\ queue'[Len(queue')] = Event(kind, attempt)
  OBVIOUS
<1>2. QED
  BY <1>1 DEF Event

\* Taking the first event leaves the last one, if there was another.
LEMMA Taken ==
  ASSUME queue \in Seq(Events), queue # << >>, queue' = Tail(queue)
  PROVE  /\ queue' = << >> => Head(queue) = queue[Len(queue)]
         /\ queue' # << >> => queue'[Len(queue')] = queue[Len(queue)]
<1>1. /\ Len(queue) \in Nat /\ Len(queue) > 0
      /\ Head(queue) = queue[1]
      /\ Tail(queue) \in Seq(Events)
      /\ Len(Tail(queue)) = Len(queue) - 1
      /\ \A i \in 1 .. Len(Tail(queue)) : Tail(queue)[i] = queue[i + 1]
  OBVIOUS
<1>2. CASE Len(queue) = 1
  BY <1>1, <1>2
<1>3. CASE Len(queue) > 1
  BY <1>1, <1>3
<1>4. QED
  BY <1>1, <1>2, <1>3

LEMMA FlagStep == TypeInv /\ FlagInv /\ [Next]_vars => FlagInv'
<1> SUFFICES ASSUME TypeInv, FlagInv, [Next]_vars PROVE FlagInv'
  OBVIOUS
<1> USE PlainTypes DEF TypeInv, TypeOK, CommandInv, FlagInv, Verdict
<1>1. CASE InitWifi
  BY <1>1 DEF InitWifi
<1>2. CASE InitWifiFails
  BY <1>2 DEF InitWifiFails
<1>3. CASE InitWifiErases
  BY <1>3 DEF InitWifiErases
<1>4. CASE WifiConnect
  BY <1>4 DEF WifiConnect, Begin
<1>5. CASE WifiDisconnect
  BY <1>5 DEF WifiDisconnect, Begin
<1>6. CASE WifiForget
  BY <1>6 DEF WifiForget, Begin
<1>7. CASE Erase
  BY <1>7 DEF Erase
<1>8. CASE EraseFails
  BY <1>8 DEF EraseFails
<1>9. CASE Disconnect
  <2>1. link' = "down" /\ pc' = "clear" /\ UNCHANGED <<handling, half, connected>>
    BY <1>9 DEF Disconnect
  <2>2. CASE link = "down"
    <3>1. queue' = queue
      BY <1>9, <2>2 DEF Disconnect
    <3>2. Verdict' = Verdict
      BY <2>1, <3>1
    <3>3. QED
      BY <2>1, <2>2, <3>1, <3>2
  <2>3. CASE link # "down"
    <3>1. queue' # << >> /\ queue'[Len(queue')].kind = "disconnected"
      BY <1>9, <2>3, Posted DEF Disconnect
    <3>2. Verdict' = "disconnected"
      BY <3>1
    <3>3. QED
      BY <2>1, <3>1, <3>2
  <2>4. QED
    BY <2>2, <2>3
<1>10. CASE ClearConnected
  BY <1>10 DEF ClearConnected
<1>11. CASE Drain
  BY <1>11 DEF Drain
<1>12. CASE Connect
  BY <1>12 DEF Connect
<1>13. CASE TakeToken
  BY <1>13 DEF TakeToken
<1>14. CASE Timeout
  BY <1>14 DEF Timeout
<1>15. CASE SaveSsid
  BY <1>15 DEF SaveSsid
<1>16. CASE SavePassword
  BY <1>16 DEF SavePassword
<1>17. CASE SaveFails
  BY <1>17 DEF SaveFails, AfterCut
<1>18. CASE TakeEvent
  <2>1. /\ queue # << >> /\ queue' = Tail(queue) /\ handling' = Head(queue)
        /\ UNCHANGED <<pc, link, half, connected>>
    BY <1>18 DEF TakeEvent
  <2>2. /\ queue' = << >> => handling' = queue[Len(queue)]
        /\ queue' # << >> => queue'[Len(queue')] = queue[Len(queue)]
    BY <2>1, Taken
  <2>3. handling' # NoEvent
    BY <2>1, QueueTypes
  <2>4. ~half
    BY <1>18, EventKinds DEF TakeEvent
  <2>5. Verdict' = queue[Len(queue)].kind
    BY <2>2, <2>3
  <2>6. Verdict = queue[Len(queue)].kind
    BY <2>1
  <2>7. QED
    BY <2>1, <2>4, <2>5, <2>6
<1>19. CASE HandleDisconnected
  <2>1. /\ handling.kind = "disconnected" /\ handling' = NoEvent /\ connected' = FALSE
        /\ UNCHANGED <<pc, link, queue, half>>
    BY <1>19 DEF HandleDisconnected
  <2>2. ~half
    BY <2>1
  <2>3. Verdict = IF queue # << >> THEN queue[Len(queue)].kind ELSE "disconnected"
    BY <2>1, EventKinds
  <2>4. Verdict' = IF queue # << >> THEN queue[Len(queue)].kind ELSE "disconnected"
    BY <2>1
  <2>5. QED
    BY <2>1, <2>2, <2>3, <2>4
<1>20. CASE HandleGotIp
  <2>1. /\ handling.kind = "got ip" /\ connected' = TRUE
        /\ UNCHANGED <<pc, link, queue, handling>>
    BY <1>20 DEF HandleGotIp
  <2>2. Verdict' = Verdict
    BY <2>1, EventKinds
  <2>3. QED
    BY <2>1, <2>2
<1>21. CASE GiveToken
  <2>1. /\ half /\ half' = FALSE /\ handling.kind = "got ip" /\ handling' = NoEvent
        /\ UNCHANGED <<pc, link, queue, connected>>
    BY <1>21 DEF GiveToken
  <2>2. Verdict = IF queue # << >> THEN queue[Len(queue)].kind ELSE "got ip"
    BY <2>1, EventKinds
  <2>3. queue = << >> => connected
    BY <2>1
  <2>4. Verdict' = IF queue # << >> THEN queue[Len(queue)].kind ELSE "got ip"
    BY <2>1, <2>3
  <2>5. QED
    BY <2>1, <2>2, <2>4
<1>22. CASE Joins
  <2>1. link = "joining" /\ link' = "up" /\ UNCHANGED <<pc, handling, half, connected>>
    BY <1>22 DEF Joins
  <2>2. queue' # << >> /\ queue'[Len(queue')].kind = "got ip"
    BY <1>22, Posted DEF Joins
  <2>3. Verdict' = "got ip"
    BY <2>2
  <2>4. QED
    BY <2>1, <2>2, <2>3
<1>23. CASE LinkLost
  <2>1. link' = "down" /\ UNCHANGED <<pc, handling, half, connected>>
    BY <1>23 DEF LinkLost
  <2>2. queue' # << >> /\ queue'[Len(queue')].kind = "disconnected"
    BY <1>23, Posted DEF LinkLost
  <2>3. Verdict' = "disconnected"
    BY <2>2
  <2>4. QED
    BY <2>1, <2>2, <2>3
<1>24. CASE PowerLoss
  BY <1>24 DEF PowerLoss, AfterCut
<1>25. CASE UNCHANGED vars
  BY <1>25 DEF vars
<1>26. QED
  BY <1>1, <1>2, <1>3, <1>4, <1>5, <1>6, <1>7, <1>8, <1>9, <1>10, <1>11, <1>12, <1>13,
     <1>14, <1>15, <1>16, <1>17, <1>18, <1>19, <1>20, <1>21, <1>22, <1>23, <1>24, <1>25
     DEF Next, Shell, Handler

\* FlagSettles: with no event on its way, s_wifi_connected says whether the link is up.
THEOREM FlagTellsTruth == Spec => []FlagSettles
<1>1. Init => FlagInv
  BY DEF Init, FlagInv, Verdict, NoEvent
<1>2. FlagInv => FlagSettles
  BY DEF FlagInv, FlagSettles, Verdict
<1>3. QED
  BY TypesKept, FlagStep, <1>1, <1>2, PTL DEF Spec

-----------------------------------------------------------------------------
(***************************************************************************)
(* SavedPairWorked, with what holds in the middle of a save.               *)
(***************************************************************************)
SaveInv ==
  /\ pc \notin {"saveSsid", "savePassword"} /\ ~cut => nvs = worked
  /\ pc \in {"saveSsid", "savePassword"} => worked = cred
  /\ pc = "savePassword" => nvs.ssid = cred.ssid

LEMMA SaveStep == TypeInv /\ SaveInv /\ [Next]_vars => SaveInv'
<1> SUFFICES ASSUME TypeInv, SaveInv, [Next]_vars PROVE SaveInv'
  OBVIOUS
<1> USE DEF TypeInv, TypeOK, CommandInv, SaveInv
<1>1. CASE InitWifi
  BY <1>1 DEF InitWifi
<1>2. CASE InitWifiFails
  BY <1>2 DEF InitWifiFails
<1>3. CASE InitWifiErases
  BY <1>3 DEF InitWifiErases
<1>4. CASE WifiConnect
  BY <1>4 DEF WifiConnect, Begin
<1>5. CASE WifiDisconnect
  BY <1>5 DEF WifiDisconnect, Begin
<1>6. CASE WifiForget
  BY <1>6 DEF WifiForget, Begin
<1>7. CASE Erase
  BY <1>7 DEF Erase
<1>8. CASE EraseFails
  BY <1>8 DEF EraseFails
<1>9. CASE Disconnect
  BY <1>9 DEF Disconnect
<1>10. CASE ClearConnected
  BY <1>10 DEF ClearConnected
<1>11. CASE Drain
  BY <1>11 DEF Drain
<1>12. CASE Connect
  BY <1>12 DEF Connect
<1>13. CASE TakeToken
  BY <1>13 DEF TakeToken
<1>14. CASE Timeout
  BY <1>14 DEF Timeout
<1>15. CASE SaveSsid
  <2>1. nvs'.ssid = cred.ssid
    BY <1>15 DEF SaveSsid, Stored
  <2>2. pc = "saveSsid" /\ pc' = "savePassword" /\ UNCHANGED <<cred, worked>>
    BY <1>15 DEF SaveSsid
  <2>3. QED
    BY <2>1, <2>2
<1>16. CASE SavePassword
  <2>1. nvs.ssid = cred.ssid /\ nvs' = [nvs EXCEPT !.pass = cred.pass] /\ cred \in Credentials
    BY <1>16 DEF SavePassword
  <2>2. nvs' = cred
    BY <2>1 DEF Stored, Credentials
  <2>3. worked' = cred /\ pc' = "idle"
    BY <1>16 DEF SavePassword
  <2>4. QED
    BY <2>2, <2>3
<1>17. CASE SaveFails
  BY <1>17 DEF SaveFails, AfterCut
<1>18. CASE TakeEvent
  BY <1>18 DEF TakeEvent
<1>19. CASE HandleDisconnected
  BY <1>19 DEF HandleDisconnected
<1>20. CASE HandleGotIp
  BY <1>20 DEF HandleGotIp
<1>21. CASE GiveToken
  BY <1>21 DEF GiveToken
<1>22. CASE Joins
  BY <1>22 DEF Joins
<1>23. CASE LinkLost
  BY <1>23 DEF LinkLost
<1>24. CASE PowerLoss
  BY <1>24 DEF PowerLoss, AfterCut
<1>25. CASE UNCHANGED vars
  BY <1>25 DEF vars
<1>26. QED
  BY <1>1, <1>2, <1>3, <1>4, <1>5, <1>6, <1>7, <1>8, <1>9, <1>10, <1>11, <1>12, <1>13,
     <1>14, <1>15, <1>16, <1>17, <1>18, <1>19, <1>20, <1>21, <1>22, <1>23, <1>24, <1>25
     DEF Next, Shell, Handler

\* SavedPairWorked: only a change of NVS that was cut short can mix two networks.
THEOREM SavedPair == Spec => []SavedPairWorked
<1>1. Init => SaveInv
  BY DEF Init, SaveInv
<1>2. SaveInv => SavedPairWorked
  BY DEF SaveInv, SavedPairWorked
<1>3. QED
  BY TypesKept, SaveStep, <1>1, <1>2, PTL DEF Spec

-----------------------------------------------------------------------------
(* NetShell: the shell with ping is the Wi-Fi shell as far as its own variables go,  *)
(* so what is proved of Spec holds of NetSpec.                                       *)

LEMMA PingStutters ==
  PingCommand \/ (\E n \in Numbers : PingTask(n)) => UNCHANGED vars
<1>1. ASSUME PingCommand PROVE UNCHANGED vars
  <2> USE DEF PingGoto
  <2>1. CASE Resolve
    BY <2>1 DEF Resolve
  <2>2. CASE CreateSemaphore \/ CreateSemaphoreFails
    BY <2>2 DEF CreateSemaphore, CreateSemaphoreFails
  <2>3. CASE NewSession \/ NewSessionFails
    BY <2>3 DEF NewSession, NewSessionFails
  <2>4. CASE StartPing \/ TakePing \/ DeleteSemaphore
    BY <2>4 DEF StartPing, TakePing, DeleteSemaphore
  <2>5. QED
    BY <1>1, <2>1, <2>2, <2>3, <2>4 DEF PingCommand
<1>2. ASSUME NEW n \in Numbers, PingTask(n) PROVE UNCHANGED vars
  BY <1>2 DEF PingTask, Answered, Unanswered, DeleteSession, GivePing
<1>3. QED
  BY <1>1, <1>2

LEMMA NetStepIsShellStep == [NetNext]_netVars => [Next]_vars
<1> SUFFICES ASSUME NetNext, ~UNCHANGED vars PROVE Next
  BY DEF netVars
<1>1. ~Ping
  BY DEF Ping
<1>2. QED
  BY <1>1, PingStutters DEF NetNext, Next

\* Everything proved of the Wi-Fi shell holds when ping runs in it.
LEMMA NetIsShell == NetSpec => Spec
<1>1. NetInit => Init
  BY DEF NetInit
<1>2. [NetNext]_netVars => [Next]_vars
  BY NetStepIsShellStep
<1>3. QED
  BY <1>1, <1>2, PTL DEF NetSpec, Spec

\* With ping among the commands, a wifi_connect still takes no token given before it,
\* the flag still settles on the truth, and NVS still holds the pair that last worked.
THEOREM PingDisturbsNothing ==
  NetSpec => []NoOldToken /\ []FlagSettles /\ []SavedPairWorked
BY NetIsShell, TokensAreFresh, FlagTellsTruth, SavedPair, PTL

\* What the command, its semaphore and its session may be at the same time.
Together ==
  ({"none", "resolve", "semaphore"} \X {"none"} \X {"none"})
  \cup {<<"session", "empty", "none">>, <<"start", "empty", "ready">>,
        <<"wait", "empty", "asking">>, <<"wait", "empty", "ending">>, <<"wait", "full", "none">>,
        <<"delete", "empty", "none">>}

\* Only the last ping has a semaphore or a session.
SessionInv ==
  \A n \in Numbers : <<IF n = pings THEN step ELSE "none", sems[n], tasks[n]>> \in Together

PingInv ==
  /\ NetTypeOK
  /\ step # "none" => pings \in Numbers
  /\ SessionInv

LEMMA PingInit == NetInit => PingInv
<1> SUFFICES ASSUME NetInit PROVE PingInv
  OBVIOUS
<1>1. NetTypeOK
  <2>1. /\ step \in Steps /\ pings \in 0 .. MaxPings /\ asked \in 0 .. Requests
        /\ sems \in [Numbers -> {"none", "empty", "full"}]
        /\ tasks \in [Numbers -> {"none", "ready", "asking", "ending"}]
    BY PingAssumption DEF NetInit, Steps
  <2>2. heard \in BOOLEAN
    BY DEF NetInit
  <2>3. QED
    BY <2>1, <2>2 DEF NetTypeOK
<1>2. SessionInv
  BY DEF NetInit, SessionInv, Together
<1>3. QED
  BY <1>1, <1>2 DEF PingInv, NetInit

\* A step that concerns the last ping only.
LEMMA LastPingStep ==
  ASSUME PingInv, pings \in Numbers, pings' = pings,
         NEW s, sems' = [sems EXCEPT ![pings] = s],
         NEW t, tasks' = [tasks EXCEPT ![pings] = t],
         <<step', s, t>> \in Together, asked' \in 0 .. Requests, heard' \in BOOLEAN
  PROVE  PingInv'
<1>1. /\ sems \in [Numbers -> {"none", "empty", "full"}]
      /\ tasks \in [Numbers -> {"none", "ready", "asking", "ending"}]
      /\ pings \in 0 .. MaxPings
  BY DEF PingInv, NetTypeOK
<1>2. /\ step' \in Steps /\ s \in {"none", "empty", "full"}
      /\ t \in {"none", "ready", "asking", "ending"}
  BY DEF Together, Steps
<1>3. NetTypeOK'
  BY <1>1, <1>2 DEF NetTypeOK
<1>4. SessionInv'
  <2> SUFFICES ASSUME NEW n \in Numbers
               PROVE  <<IF n = pings THEN step' ELSE "none", sems'[n], tasks'[n]>> \in Together
    BY DEF SessionInv
  <2>1. CASE n = pings
    <3>1. sems'[n] = s /\ tasks'[n] = t
      BY <1>1, <2>1
    <3>2. QED
      BY <2>1, <3>1
  <2>2. CASE n # pings
    <3>1. sems'[n] = sems[n] /\ tasks'[n] = tasks[n]
      BY <1>1, <2>2
    <3>2. <<"none", sems[n], tasks[n]>> \in Together
      BY <2>2 DEF PingInv, SessionInv
    <3>3. QED
      BY <2>2, <3>1, <3>2
  <2>3. QED
    BY <2>1, <2>2
<1>5. QED
  BY <1>3, <1>4 DEF PingInv

LEMMA SameSession ==
  ASSUME PingInv
  PROVE  /\ sems = [sems EXCEPT ![pings] = sems[pings]]
         /\ tasks = [tasks EXCEPT ![pings] = tasks[pings]]
         /\ asked \in 0 .. Requests /\ heard \in BOOLEAN
         /\ step # "none" => pings \in Numbers /\ <<step, sems[pings], tasks[pings]>> \in Together
<1>1. /\ sems = [sems EXCEPT ![pings] = sems[pings]]
      /\ tasks = [tasks EXCEPT ![pings] = tasks[pings]]
  BY DEF PingInv, NetTypeOK
<1>2. asked \in 0 .. Requests /\ heard \in BOOLEAN
  BY DEF PingInv, NetTypeOK
<1>3. step # "none" => pings \in Numbers /\ <<step, sems[pings], tasks[pings]>> \in Together
  BY DEF PingInv, SessionInv
<1>4. QED
  BY <1>1, <1>2, <1>3

LEMMA CommandStep == PingInv /\ PingCommand => PingInv'
<1> SUFFICES ASSUME PingInv, PingCommand PROVE PingInv'
  OBVIOUS
<1> USE DEF PingGoto
<1>1. /\ step # "none" /\ asked' = asked /\ heard' = heard /\ pings' = pings
  BY DEF PingCommand, Resolve, CreateSemaphore, CreateSemaphoreFails, NewSession,
         NewSessionFails, StartPing, TakePing, DeleteSemaphore
<1>2. pings \in Numbers /\ <<step, sems[pings], tasks[pings]>> \in Together
  BY <1>1, SameSession
<1>3. asked' \in 0 .. Requests /\ heard' \in BOOLEAN
  BY <1>1, SameSession
<1>4. sems = [sems EXCEPT ![pings] = sems[pings]] /\ tasks = [tasks EXCEPT ![pings] = tasks[pings]]
  BY SameSession
<1>5. CASE Resolve
  <2>1. sems' = sems /\ tasks' = tasks /\ step = "resolve" /\ step' \in {"semaphore", "none"}
    BY <1>5 DEF Resolve
  <2>2. <<step', sems[pings], tasks[pings]>> \in Together
    BY <1>2, <2>1 DEF Together
  <2>3. QED
    BY <1>1, <1>2, <1>3, <1>4, <2>1, <2>2, LastPingStep
<1>6. CASE CreateSemaphore
  <2>1. /\ sems' = [sems EXCEPT ![pings] = "empty"] /\ tasks' = tasks
        /\ step = "semaphore" /\ step' = "session"
    BY <1>6 DEF CreateSemaphore, SetSem
  <2>2. <<step', "empty", tasks[pings]>> \in Together
    BY <1>2, <2>1 DEF Together
  <2>3. QED
    BY <1>1, <1>2, <1>3, <1>4, <2>1, <2>2, LastPingStep
<1>7. CASE CreateSemaphoreFails
  <2>1. sems' = sems /\ tasks' = tasks /\ step = "semaphore" /\ step' = "none"
    BY <1>7 DEF CreateSemaphoreFails
  <2>2. <<step', sems[pings], tasks[pings]>> \in Together
    BY <1>2, <2>1 DEF Together
  <2>3. QED
    BY <1>1, <1>2, <1>3, <1>4, <2>1, <2>2, LastPingStep
<1>8. CASE NewSession
  <2>1. /\ sems' = sems /\ tasks' = [tasks EXCEPT ![pings] = "ready"]
        /\ step = "session" /\ step' = "start"
    BY <1>8 DEF NewSession, SetTask
  <2>2. <<step', sems[pings], "ready">> \in Together
    BY <1>2, <2>1 DEF Together
  <2>3. QED
    BY <1>1, <1>2, <1>3, <1>4, <2>1, <2>2, LastPingStep
<1>9. CASE NewSessionFails
  <2>1. /\ sems' = [sems EXCEPT ![pings] = "none"] /\ tasks' = tasks
        /\ step = "session" /\ step' = "none"
    BY <1>9 DEF NewSessionFails, SetSem, DeletedSemaphore
  <2>2. <<step', "none", tasks[pings]>> \in Together
    BY <1>2, <2>1 DEF Together
  <2>3. QED
    BY <1>1, <1>2, <1>3, <1>4, <2>1, <2>2, LastPingStep
<1>10. CASE StartPing
  <2>1. /\ sems' = sems /\ tasks' = [tasks EXCEPT ![pings] = "asking"]
        /\ step = "start" /\ step' = "wait"
    BY <1>10 DEF StartPing, SetTask
  <2>2. <<step', sems[pings], "asking">> \in Together
    BY <1>2, <2>1 DEF Together
  <2>3. QED
    BY <1>1, <1>2, <1>3, <1>4, <2>1, <2>2, LastPingStep
<1>11. CASE TakePing
  <2>1. /\ sems' = [sems EXCEPT ![pings] = "empty"] /\ tasks' = tasks
        /\ step = "wait" /\ step' = "delete" /\ sems[pings] = "full"
    BY <1>11 DEF TakePing, SetSem, WaitEnds
  <2>2. <<step', "empty", tasks[pings]>> \in Together
    BY <1>2, <2>1 DEF Together
  <2>3. QED
    BY <1>1, <1>2, <1>3, <1>4, <2>1, <2>2, LastPingStep
<1>12. CASE DeleteSemaphore
  <2>1. /\ sems' = [sems EXCEPT ![pings] = "none"] /\ tasks' = tasks
        /\ step = "delete" /\ step' = "none"
    BY <1>12 DEF DeleteSemaphore, SetSem
  <2>2. <<step', "none", tasks[pings]>> \in Together
    BY <1>2, <2>1 DEF Together
  <2>3. QED
    BY <1>1, <1>2, <1>3, <1>4, <2>1, <2>2, LastPingStep
<1>13. QED
  BY <1>5, <1>6, <1>7, <1>8, <1>9, <1>10, <1>11, <1>12 DEF PingCommand

LEMMA TaskStep == ASSUME PingInv, NEW n \in Numbers, PingTask(n) PROVE PingInv'
<1>1. tasks[n] \in {"asking", "ending"} /\ step' = step /\ pings' = pings
  BY DEF PingTask, Answered, Unanswered, Asking, DeleteSession, GivePing
<1>2. n = pings
  <2>1. <<IF n = pings THEN step ELSE "none", sems[n], tasks[n]>> \in Together
    BY DEF PingInv, SessionInv
  <2>2. QED
    BY <1>1, <2>1 DEF Together
<1>3. step # "none"
  BY <1>1, <1>2 DEF PingInv, SessionInv, Together
<1>4. pings \in Numbers /\ <<step, sems[pings], tasks[pings]>> \in Together
  BY <1>3, SameSession
<1>5. sems = [sems EXCEPT ![pings] = sems[pings]] /\ tasks = [tasks EXCEPT ![pings] = tasks[pings]]
  BY SameSession
<1>6. asked \in 0 .. Requests /\ heard \in BOOLEAN /\ Requests \in Nat
  BY SameSession, PingAssumption
<1>7. CASE Answered(n) \/ Unanswered(n)
  <2>1. sems' = sems /\ tasks' = tasks
    BY <1>7 DEF Answered, Unanswered
  <2>2. asked < Requests /\ asked' = asked + 1
    BY <1>7 DEF Answered, Unanswered, Asking
  <2>3. asked' \in 0 .. Requests
    BY <1>6, <2>2
  <2>4. heard' \in BOOLEAN
    BY <1>6, <1>7 DEF Answered, Unanswered
  <2>5. <<step', sems[pings], tasks[pings]>> \in Together
    BY <1>1, <1>4
  <2>6. QED
    BY <1>1, <1>4, <1>5, <2>1, <2>3, <2>4, <2>5, LastPingStep
<1>8. CASE DeleteSession(n)
  <2>1. /\ sems' = sems /\ tasks' = [tasks EXCEPT ![pings] = "ending"]
        /\ tasks[pings] = "asking" /\ asked' = asked /\ heard' = heard
    BY <1>2, <1>8 DEF DeleteSession, SetTask
  <2>2. <<step', sems[pings], "ending">> \in Together
    BY <1>1, <1>4, <2>1 DEF Together
  <2>3. QED
    BY <1>1, <1>4, <1>5, <1>6, <2>1, <2>2, LastPingStep
<1>9. CASE GivePing(n)
  <2>1. /\ sems' = [sems EXCEPT ![pings] = "full"] /\ tasks' = [tasks EXCEPT ![pings] = "none"]
        /\ tasks[pings] = "ending" /\ asked' = 0 /\ heard' = FALSE
    BY <1>2, <1>9 DEF GivePing, SetTask, SetSem, Given
  <2>2. <<step', "full", "none">> \in Together
    BY <1>1, <1>4, <2>1 DEF Together
  <2>3. 0 \in 0 .. Requests /\ FALSE \in BOOLEAN
    BY <1>6
  <2>4. QED
    BY <1>1, <1>4, <2>1, <2>2, <2>3, LastPingStep
<1>10. QED
  BY <1>7, <1>8, <1>9 DEF PingTask

LEMMA PingStep == PingInv /\ [NetNext]_netVars => PingInv'
<1> SUFFICES ASSUME PingInv, [NetNext]_netVars PROVE PingInv'
  OBVIOUS
<1>1. CASE UNCHANGED pingVars
  BY <1>1 DEF pingVars, PingInv, NetTypeOK, SessionInv
<1>2. CASE Ping
  <2>1. /\ step = "none" /\ step' = "resolve" /\ pings < MaxPings /\ pings' = pings + 1
        /\ UNCHANGED <<sems, tasks, asked, heard>>
    BY <1>2 DEF Ping
  <2>2. pings \in 0 .. MaxPings /\ MaxPings \in Nat
    BY PingAssumption DEF PingInv, NetTypeOK
  <2>3. pings' \in Numbers /\ pings' \in 0 .. MaxPings
    BY <2>1, <2>2 DEF Numbers
  <2>4. NetTypeOK'
    BY <2>1, <2>3 DEF PingInv, NetTypeOK, Steps
  <2>5. SessionInv'
    BY <2>1 DEF PingInv, SessionInv, Together
  <2>6. QED
    BY <2>3, <2>4, <2>5 DEF PingInv
<1>3. CASE PingCommand
  BY <1>3, CommandStep
<1>4. CASE \E n \in Numbers : PingTask(n)
  BY <1>4, TaskStep
<1>5. CASE PingLost
  <2>1. NetTypeOK'
    <3>1. /\ step' \in Steps /\ asked' \in 0 .. Requests /\ pings' \in 0 .. MaxPings
          /\ sems' \in [Numbers -> {"none", "empty", "full"}]
          /\ tasks' \in [Numbers -> {"none", "ready", "asking", "ending"}]
      BY <1>5, PingAssumption DEF PingLost, PingInv, NetTypeOK, Steps
    <3>2. heard' \in BOOLEAN
      BY <1>5 DEF PingLost
    <3>3. QED
      BY <3>1, <3>2 DEF NetTypeOK
  <2>2. SessionInv'
    BY <1>5 DEF PingLost, SessionInv, Together
  <2>3. QED
    BY <1>5, <2>1, <2>2 DEF PingInv, PingLost
<1>6. QED
  BY <1>1, <1>2, <1>3, <1>4, <1>5 DEF NetNext, netVars

LEMMA PingInvHolds == NetSpec => []PingInv
<1>1. NetInit => PingInv
  BY PingInit
<1>2. PingInv /\ [NetNext]_netVars => PingInv'
  BY PingStep
<1>3. QED
  BY <1>1, <1>2, PTL DEF NetSpec

\* Every variable of ping has its type.
THEOREM NetTypeCorrect == NetSpec => []NetTypeOK
<1>1. PingInv => NetTypeOK
  BY DEF PingInv
<1>2. QED
  BY <1>1, PingInvHolds, PTL

\* ping_on_end never gives a semaphore that cmd_ping has deleted, whatever the order of
\* the two tasks.
THEOREM PingGivesLiving == NetSpec => []GivesLiving
<1>1. PingInv => GivesLiving
  <2> SUFFICES ASSUME PingInv, NEW n \in Numbers, tasks[n] # "none"
               PROVE  sems[n] # "none" /\ n = pings /\ step # "none"
    BY DEF GivesLiving
  <2>1. <<IF n = pings THEN step ELSE "none", sems[n], tasks[n]>> \in Together
    BY DEF PingInv, SessionInv
  <2>2. QED
    BY <2>1 DEF Together
<1>2. QED
  BY <1>1, PingInvHolds, PTL

\* ping returns with neither its semaphore nor its session left, on every path.
THEOREM PingCleansUp == NetSpec => []PingLeavesNothing
<1>1. PingInv => PingLeavesNothing
  <2> SUFFICES ASSUME PingInv, step = "none", NEW n \in Numbers
               PROVE  sems[n] = "none" /\ tasks[n] = "none"
    BY DEF PingLeavesNothing
  <2>1. <<"none", sems[n], tasks[n]>> \in Together
    BY DEF PingInv, SessionInv
  <2>2. QED
    BY <2>1 DEF Together
<1>2. QED
  BY <1>1, PingInvHolds, PTL
=============================================================================
