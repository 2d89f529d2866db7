------------------------------ MODULE NetShell ------------------------------
(***************************************************************************)
(* ping on top of the Wi-Fi shell (espidf-sdcard/main/main.c, cmd_ping and *)
(* its callbacks).  The command hands four requests to the task of the     *)
(* ping library and waits for its last callback on a semaphore that it     *)
(* made for this session and deletes when it has it.  The shell runs no    *)
(* other command meanwhile; the driver and the event loop go on.           *)
(*                                                                         *)
(* The library's task is external: it calls ping_on_success or             *)
(* ping_on_timeout after each request and ping_on_end after the last one.  *)
(***************************************************************************)
EXTENDS WifiShell

CONSTANTS Requests, \* ping_config.count
          MaxPings  \* bound: ping commands in one behaviour

ASSUME PingAssumption == Requests \in Nat \ {0} /\ MaxPings \in Nat

VARIABLES
  step,  \* where cmd_ping is, "none" when it does not run
  pings, \* ping commands so far: the last one's number names its semaphore and session
  sems,  \* each one's semaphore: "none" before it is made and once it is deleted
  tasks, \* each one's task of the library
  asked, \* the session's requests that are answered or given up
  heard  \* TRUE iff one of them was answered

pingVars == <<step, pings, sems, tasks, asked, heard>>
netVars == <<vars, pingVars>>

Numbers == 1 .. MaxPings

NetInit ==
  /\ Init
  /\ step = "none"
  /\ pings = 0
  /\ sems = [n \in Numbers |-> "none"]
  /\ tasks = [n \in Numbers |-> "none"]
  /\ asked = 0
  /\ heard = FALSE

-----------------------------------------------------------------------------
(* cmd_ping *)

PingGoto(l) == step' = l /\ UNCHANGED <<vars, pings, asked, heard>>

SetSem(n, value) == sems' = [sems EXCEPT ![n] = value]
SetTask(n, value) == tasks' = [tasks EXCEPT ![n] = value]

\* getaddrinfo needs the network for a name and not for an address.
Ping ==
  /\ pc = "idle"
  /\ step = "none"
  /\ pings < MaxPings
  /\ pings' = pings + 1
  /\ step' = "resolve"
  /\ UNCHANGED <<vars, sems, tasks, asked, heard>>

Resolve ==
  /\ step = "resolve"
  /\ \E l \in {"semaphore", "none"} : PingGoto(l)
  /\ UNCHANGED <<sems, tasks>>

CreateSemaphore ==
  /\ step = "semaphore"
  /\ PingGoto("session")
  /\ SetSem(pings, "empty")
  /\ UNCHANGED tasks

CreateSemaphoreFails ==
  /\ step = "semaphore"
  /\ PingGoto("none")
  /\ UNCHANGED <<sems, tasks>>

NewSession ==
  /\ step = "session"
  /\ PingGoto("start")
  /\ SetTask(pings, "ready")
  /\ UNCHANGED sems

\* Mutant: the error path forgets the semaphore.
KeptSemaphore(value) == value

DeletedSemaphore(value) == "none"

\* No memory for the session or its task.
NewSessionFails ==
  /\ step = "session"
  /\ PingGoto("none")
  /\ SetSem(pings, DeletedSemaphore(sems[pings]))
  /\ UNCHANGED tasks

StartPing ==
  /\ step = "start"
  /\ PingGoto("wait")
  /\ SetTask(pings, "asking")
  /\ UNCHANGED sems

\* Mutant: the wait has a time limit.
MayGoOn(value) == TRUE

\* portMAX_DELAY: the command waits for the token.
WaitEnds(value) == value = "full"

TakePing ==
  /\ step = "wait"
  /\ WaitEnds(sems[pings])
  /\ PingGoto("delete")
  /\ SetSem(pings, "empty")
  /\ UNCHANGED tasks

DeleteSemaphore ==
  /\ step = "delete"
  /\ PingGoto("none")
  /\ SetSem(pings, "none")
  /\ UNCHANGED tasks

-----------------------------------------------------------------------------
(* The library's task, and ping_on_end. *)

Asking(n) == tasks[n] = "asking" /\ asked < Requests

Answered(n) ==
  /\ Asking(n)
  /\ link = "up"
  /\ asked' = asked + 1
  /\ heard' = TRUE
  /\ UNCHANGED <<vars, step, pings, sems, tasks>>

Unanswered(n) ==
  /\ Asking(n)
  /\ asked' = asked + 1
  /\ UNCHANGED <<vars, step, pings, sems, tasks, heard>>

\* ping_on_end first asks for the deletion of its own session, ...
DeleteSession(n) ==
  /\ tasks[n] = "asking"
  /\ asked >= Requests
  /\ SetTask(n, "ending")
  /\ UNCHANGED <<vars, step, pings, sems, asked, heard>>

\* Mutant: only a session with an answer wakes the command.
IfHeard(value) == IF heard THEN "full" ELSE value

Given(value) == "full"

\* ... and then gives the semaphore.  The task deletes itself and its counts after that.
GivePing(n) ==
  /\ tasks[n] = "ending"
  /\ SetTask(n, "none")
  /\ SetSem(n, Given(sems[n]))
  /\ asked' = 0
  /\ heard' = FALSE
  /\ UNCHANGED <<vars, step, pings>>

-----------------------------------------------------------------------------

PingCommand ==
  \/ Resolve \/ CreateSemaphore \/ CreateSemaphoreFails \/ NewSession \/ NewSessionFails
  \/ StartPing \/ TakePing \/ DeleteSemaphore

PingTask(n) == Answered(n) \/ Unanswered(n) \/ DeleteSession(n) \/ GivePing(n)

\* A power loss ends the session too.
PingLost ==
  /\ step' = "none"
  /\ sems' = [n \in Numbers |-> "none"]
  /\ tasks' = [n \in Numbers |-> "none"]
  /\ asked' = 0
  /\ heard' = FALSE
  /\ UNCHANGED pings

NetNext ==
  \/ Shell /\ step = "none" /\ UNCHANGED pingVars
  \/ (Handler \/ Joins \/ LinkLost) /\ UNCHANGED pingVars
  \/ PowerLoss /\ PingLost
  \/ Ping
  \/ PingCommand
  \/ \E n \in Numbers : PingTask(n)

NetSpec == NetInit /\ [][NetNext]_netVars

\* A command that has begun goes on, a time limit included; nobody has to type one.
CommandGoesOn == Shell /\ pc \notin {"off", "idle"} /\ UNCHANGED pingVars

NetFairSpec ==
  /\ NetSpec
  /\ WF_netVars(CommandGoesOn)
  /\ WF_netVars(PingCommand)
  /\ \A n \in Numbers : WF_netVars(PingTask(n))

-----------------------------------------------------------------------------

Steps == {"none", "resolve", "semaphore", "session", "start", "wait", "delete"}

\* Every variable of ping has its type.
NetTypeOK ==
  /\ step \in Steps
  /\ pings \in 0 .. MaxPings
  /\ sems \in [Numbers -> {"none", "empty", "full"}]
  /\ tasks \in [Numbers -> {"none", "ready", "asking", "ending"}]
  /\ asked \in 0 .. Requests
  /\ heard \in BOOLEAN

\* The library's task never gives a semaphore that the command has deleted: as long as
\* a session may still call ping_on_end, the semaphore it was given exists and is the
\* one that the command waits for.
GivesLiving ==
  \A n \in Numbers :
    tasks[n] # "none" => sems[n] # "none" /\ n = pings /\ step # "none"

\* Whichever way ping returns, neither its semaphore nor its session is left.
PingLeavesNothing ==
  step = "none" => \A n \in Numbers : sems[n] = "none" /\ tasks[n] = "none"

\* Every command returns to the prompt, with the link down too, unless the power goes.
CommandEnds ==
  pc \notin {"off", "idle"} \/ step # "none" ~> pc \in {"off", "idle"} /\ step = "none"
=============================================================================
