------------------------------ MODULE WifiShell ------------------------------
(***************************************************************************)
(* The Wi-Fi side of the ESP32 shell (espidf-sdcard/main/main.c): the      *)
(* commands wifi_connect, wifi_disconnect and wifi_forget and init_wifi(), *)
(* all in the shell's task, wifi_event_handler() in the event loop's task, *)
(* and the credentials in NVS.  They share s_wifi_connected and the binary *)
(* semaphore s_ip_sem.                                                     *)
(*                                                                         *)
(* The driver is external: it posts an event for every change of the link, *)
(* in that order, and the event loop handles them later.                   *)
(***************************************************************************)
EXTENDS Naturals, Sequences

CONSTANTS Ssids,       \* network names
          Passwords,   \* passwords, the empty one included
          Open,        \* the empty password
          NoString,    \* a key that is not in NVS
          MaxCommands, \* bound: commands in one behaviour
          MaxFaults    \* bound: power losses, refused calls and NVS errors

ASSUME BoundsAssumption == MaxCommands \in Nat /\ MaxFaults \in Nat
ASSUME StringsAssumption == Open \in Passwords /\ NoString \notin Ssids \cup Passwords

Credentials == [ssid : Ssids, pass : Passwords]
Stored == [ssid : Ssids \cup {NoString}, pass : Passwords \cup {NoString}]
NoCredentials == [ssid |-> NoString, pass |-> NoString]

\* The event WIFI_EVENT_STA_CONNECTED only prints and is left out.
Event(kind, no) == [kind |-> kind, no |-> no]
NoEvent == Event("none", 0)

\* A token tells, as history, the attempt whose event gave it and the command
\* that was the last one when it did.
NoToken == [attempt |-> 0, command |-> 0]

VARIABLES
  pc,          \* what the shell does next
  command,     \* the command it is in
  commands,    \* commands so far
  cred,        \* the local ssid and password
  initialized, \* s_wifi_initialized
  connected,   \* s_wifi_connected
  sem,         \* s_ip_sem: its token or NoToken
  nvs,         \* what NVS holds
  link,        \* the driver: "down", "joining" or "up"
  attempt,     \* the number of its last attempt
  queue,       \* the events it has posted
  handling,    \* the event wifi_event_handler is at
  half,        \* TRUE iff it has set s_wifi_connected and not given the semaphore yet
  took,        \* history: the token the last wifi_connect took
  worked,      \* history: the credentials last reported as connected, none once
               \* wifi_forget has erased them
  cut,         \* history: a change of NVS ended early and none has completed since
  faults       \* history: faults so far

shellVars == <<pc, command, commands, cred, initialized>>
driverVars == <<link, attempt, queue>>
handlerVars == <<handling, half>>
ghosts == <<took, worked, cut>>
vars == <<shellVars, connected, sem, nvs, driverVars, handlerVars, ghosts, faults>>

Init ==
  /\ pc = "off"
  /\ command = "none"
  /\ commands = 0
  /\ cred = NoCredentials
  /\ initialized = FALSE
  /\ connected = FALSE
  /\ sem = NoToken
  /\ nvs \in Credentials \cup {NoCredentials}
  /\ link = "down"
  /\ attempt = 0
  /\ queue = << >>
  /\ handling = NoEvent
  /\ half = FALSE
  /\ took = NoToken
  /\ worked = nvs
  /\ cut = FALSE
  /\ faults = 0

Fault == faults < MaxFaults /\ faults' = faults + 1

Goto(l) == pc' = l /\ UNCHANGED <<command, commands, cred, initialized>>

\* load_wifi_credentials() wants both keys.
Loadable == nvs \in Credentials

-----------------------------------------------------------------------------
(* The driver's calls. *)

esp_wifi_disconnect ==
  /\ link' = "down"
  /\ queue' = IF link = "down" THEN queue ELSE Append(queue, Event("disconnected", attempt))
  /\ UNCHANGED attempt

esp_wifi_connect ==
  /\ link' = "joining"
  /\ attempt' = attempt + 1
  /\ UNCHANGED queue

-----------------------------------------------------------------------------
(* init_wifi() *)

\* With credentials in NVS the boot starts an attempt and does not wait for it.
InitWifi ==
  /\ pc = "off"
  /\ pc' = "idle"
  /\ initialized' = TRUE
  /\ IF Loadable THEN esp_wifi_connect ELSE UNCHANGED driverVars
  /\ UNCHANGED <<command, commands, cred, connected, sem, nvs, handlerVars, ghosts, faults>>

\* NVS or the radio does not start: the shell runs without Wi-Fi.
InitWifiFails ==
  /\ pc = "off"
  /\ Fault
  /\ Goto("idle")
  /\ UNCHANGED <<connected, sem, nvs, driverVars, handlerVars, ghosts>>

\* NVS has no free page or another version: it is erased first.
InitWifiErases ==
  /\ pc = "off"
  /\ Fault
  /\ pc' = "idle"
  /\ initialized' = TRUE
  /\ nvs' = NoCredentials
  /\ worked' = NoCredentials
  /\ cut' = FALSE
  /\ UNCHANGED <<command, commands, cred, connected, sem, driverVars, handlerVars, took>>

-----------------------------------------------------------------------------
(* The commands.  Reports that change nothing are left out. *)

Begin(c, l) ==
  /\ pc = "idle"
  /\ commands < MaxCommands
  /\ commands' = commands + 1
  /\ command' = c
  /\ pc' = l
  /\ took' = NoToken
  /\ UNCHANGED <<initialized, connected, sem, nvs, driverVars, handlerVars, worked, cut, faults>>

WifiConnect ==
  /\ initialized
  /\ \/ cred' \in Credentials
     \/ Loadable /\ cred' = nvs
  /\ Begin("connect", "disconnect")

WifiDisconnect == initialized /\ Begin("disconnect", "disconnect") /\ UNCHANGED cred

WifiForget == Begin("forget", "erase") /\ UNCHANGED cred

Erase ==
  /\ pc = "erase"
  /\ Goto("disconnect")
  /\ nvs' = NoCredentials
  /\ worked' = NoCredentials
  /\ cut' = FALSE
  /\ UNCHANGED <<connected, sem, driverVars, handlerVars, took, faults>>

\* An error before or after the keys are gone.
EraseFails ==
  /\ pc = "erase"
  /\ Fault
  /\ Goto("idle")
  /\ nvs' \in {nvs, NoCredentials}
  /\ cut' = TRUE
  /\ UNCHANGED <<connected, sem, driverVars, handlerVars, took, worked>>

Disconnect ==
  /\ pc = "disconnect"
  /\ Goto("clear")
  /\ esp_wifi_disconnect
  /\ UNCHANGED <<connected, sem, nvs, handlerVars, ghosts, faults>>

ClearConnected ==
  /\ pc = "clear"
  /\ Goto(IF command = "connect" THEN "drain" ELSE "idle")
  /\ connected' = FALSE
  /\ UNCHANGED <<sem, nvs, driverVars, handlerVars, ghosts, faults>>

\* Mutant: the token of an earlier attempt stays.
NotDrained(token) == token

Drained(token) == NoToken

Drain ==
  /\ pc = "drain"
  /\ Goto("connect")
  /\ sem' = Drained(sem)
  /\ UNCHANGED <<connected, nvs, driverVars, handlerVars, ghosts, faults>>

\* The result of the call is not looked at: it may have been refused.
Connect ==
  /\ pc = "connect"
  /\ Goto("wait")
  /\ \/ esp_wifi_connect /\ UNCHANGED faults
     \/ Fault /\ UNCHANGED driverVars
  /\ UNCHANGED <<connected, sem, nvs, handlerVars, ghosts>>

TakeToken ==
  /\ pc = "wait"
  /\ sem # NoToken
  /\ Goto("saveSsid")
  /\ sem' = NoToken
  /\ took' = sem
  /\ worked' = cred
  /\ UNCHANGED <<connected, nvs, driverVars, handlerVars, cut, faults>>

Timeout ==
  /\ pc = "wait"
  /\ sem = NoToken
  /\ Goto("idle")
  /\ UNCHANGED <<connected, sem, nvs, driverVars, handlerVars, ghosts, faults>>

-----------------------------------------------------------------------------
(* save_wifi_credentials().  A key may be in flash before the commit. *)

SaveSsid ==
  /\ pc = "saveSsid"
  /\ Goto("savePassword")
  /\ nvs' = [nvs EXCEPT !.ssid = cred.ssid]
  /\ UNCHANGED <<connected, sem, driverVars, handlerVars, ghosts, faults>>

\* Mutant: an empty password is not stored.
StoredUnlessEmpty(pass) == IF pass = Open THEN nvs.pass ELSE pass

StoredPassword(pass) == pass

\* The commit included.
SavePassword ==
  /\ pc = "savePassword"
  /\ Goto("idle")
  /\ nvs' = [nvs EXCEPT !.pass = StoredPassword(cred.pass)]
  /\ cut' = FALSE
  /\ UNCHANGED <<connected, sem, driverVars, handlerVars, took, worked, faults>>

\* What NVS may hold when a step of a save or of an erasure does not end.
AfterCut == CASE pc = "erase" -> {nvs, NoCredentials}
              [] pc = "savePassword" -> {nvs, [nvs EXCEPT !.pass = StoredPassword(cred.pass)]}
              [] OTHER -> {nvs}

\* An NVS error: wifi_connect does not mention it and returns 0.
SaveFails ==
  /\ pc \in {"saveSsid", "savePassword"}
  /\ Fault
  /\ Goto("idle")
  /\ nvs' \in AfterCut
  /\ cut' = TRUE
  /\ UNCHANGED <<connected, sem, driverVars, handlerVars, took, worked>>

-----------------------------------------------------------------------------
(* wifi_event_handler() *)

TakeEvent ==
  /\ handling = NoEvent
  /\ queue # << >>
  /\ handling' = Head(queue)
  /\ queue' = Tail(queue)
  /\ UNCHANGED <<shellVars, connected, sem, nvs, link, attempt, half, ghosts, faults>>

\* Mutant: a lost link is only printed.
ConnectedAfterLoss == connected

AfterLoss == FALSE

HandleDisconnected ==
  /\ handling.kind = "disconnected"
  /\ handling' = NoEvent
  /\ connected' = AfterLoss
  /\ UNCHANGED <<shellVars, sem, nvs, driverVars, half, ghosts, faults>>

HandleGotIp ==
  /\ handling.kind = "got ip"
  /\ ~half
  /\ half' = TRUE
  /\ connected' = TRUE
  /\ UNCHANGED <<shellVars, sem, nvs, driverVars, handling, ghosts, faults>>

\* A binary semaphore that is full stays as it is.
GiveToken ==
  /\ half
  /\ half' = FALSE
  /\ handling' = NoEvent
  /\ sem' = IF sem = NoToken THEN [attempt |-> handling.no, command |-> commands + 1] ELSE sem
  /\ UNCHANGED <<shellVars, connected, nvs, driverVars, ghosts, faults>>

-----------------------------------------------------------------------------
(* The environment *)

Joins ==
  /\ link = "joining"
  /\ link' = "up"
  /\ queue' = Append(queue, Event("got ip", attempt))
  /\ UNCHANGED <<shellVars, connected, sem, nvs, attempt, handlerVars, ghosts, faults>>

\* The attempt fails or the access point goes away.
LinkLost ==
  /\ link # "down"
  /\ link' = "down"
  /\ queue' = Append(queue, Event("disconnected", attempt))
  /\ UNCHANGED <<shellVars, connected, sem, nvs, attempt, handlerVars, ghosts, faults>>

PowerLoss ==
  /\ pc # "off"
  /\ Fault
  /\ pc' = "off"
  /\ command' = "none"
  /\ cred' = NoCredentials
  /\ initialized' = FALSE
  /\ connected' = FALSE
  /\ sem' = NoToken
  /\ link' = "down"
  /\ queue' = << >>
  /\ handling' = NoEvent
  /\ half' = FALSE
  /\ took' = NoToken
  /\ cut' = (cut \/ pc \in {"erase", "saveSsid", "savePassword"})
  /\ nvs' \in AfterCut
  /\ UNCHANGED <<commands, attempt, worked>>

Shell ==
  \/ InitWifi \/ InitWifiFails \/ InitWifiErases
  \/ WifiConnect \/ WifiDisconnect \/ WifiForget
  \/ Erase \/ EraseFails \/ Disconnect \/ ClearConnected \/ Drain \/ Connect
  \/ TakeToken \/ Timeout \/ SaveSsid \/ SavePassword \/ SaveFails

Handler == TakeEvent \/ HandleDisconnected \/ HandleGotIp \/ GiveToken

Next == Shell \/ Handler \/ Joins \/ LinkLost \/ PowerLoss

Spec == Init /\ [][Next]_vars

-----------------------------------------------------------------------------

Pcs == {"off", "idle", "erase", "disconnect", "clear", "drain", "connect", "wait",
        "saveSsid", "savePassword"}
Tokens == [attempt : Nat, command : Nat]
Events == [kind : {"got ip", "disconnected"}, no : Nat]

\* Every variable has its type: in particular wifi_connect and the boot never use an
\* ssid without its password.
TypeOK ==
  /\ pc \in Pcs
  /\ command \in {"none", "connect", "disconnect", "forget"}
  /\ commands \in 0 .. MaxCommands
  /\ cred \in Credentials \cup {NoCredentials}
  /\ command = "connect" => cred \in Credentials
  /\ initialized \in BOOLEAN
  /\ connected \in BOOLEAN
  /\ sem \in Tokens
  /\ nvs \in Stored
  /\ link \in {"down", "joining", "up"}
  /\ attempt \in Nat
  /\ queue \in Seq(Events)
  /\ handling \in Events \cup {NoEvent}
  /\ half \in BOOLEAN
  /\ half => handling.kind = "got ip"
  /\ took \in Tokens
  /\ worked \in Credentials \cup {NoCredentials}
  /\ cut \in BOOLEAN
  /\ faults \in 0 .. MaxFaults

\* A wifi_connect that reports success took a token given after it began: one left
\* behind by the boot's attempt or by a command that timed out is dropped first.
NoOldToken == took # NoToken => took.command = commands + 1

\* Once no event is on its way, ifconfig tells the truth: s_wifi_connected says whether
\* the link is up, however the two tasks that write it have interleaved.
FlagSettles == queue = << >> /\ handling = NoEvent => (connected <=> link = "up")

\* What a restart connects with is what the last successful wifi_connect was given, or
\* nothing after wifi_forget; only a change of NVS that was cut short can mix the ssid
\* of one network with the password of another.
SavedPairWorked == pc \in {"off", "idle"} /\ ~cut => nvs = worked

\* "Drop any token left by an earlier attempt" (main.c:1444): a wifi_connect that
\* reports success, and saves its credentials, got its token from its own attempt.
SuccessIsOwn == took # NoToken => took.attempt = attempt
=============================================================================
