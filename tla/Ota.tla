-------------------------------- MODULE Ota --------------------------------
(***************************************************************************)
(* The firmware update of the shell (main.c): ota_update writes a file of  *)
(* the card or the flash into the app slot that is not running and makes   *)
(* it the next to boot; ota_confirm, ota_rollback, reboot; and app_main,   *)
(* which confirms an image on trial before it starts the shell.  The boot  *)
(* loader and the app_update library are external: they keep a boot choice *)
(* and a state for each slot, start an image they can verify, and give up  *)
(* one on trial that did not confirm itself.                               *)
(***************************************************************************)
EXTENDS Files

CONSTANTS Images,   \* the whole firmware images: sequences of chunks
          Crashing, \* those that crash before their shell starts
          Capacity  \* chunks in a slot

Slots == {<<"ota_0">>, <<"ota_1">>}

ASSUME OtaAssumption ==
  /\ Images \subseteq Seq(Chunks) /\ Crashing \subseteq Images /\ Images \ Crashing # {}
  /\ <<>> \notin Images
  /\ Slots \cap Places = {}
  /\ Capacity \in Nat

VARIABLES
  slot,    \* what is in each slot
  state,   \* the state the boot data has for each slot
  boot,    \* the slot to boot next
  running, \* the slot that runs, the last one that did if phase is "off"
  proven   \* history: the images whose shell has started

otaVars == <<slot, state, boot, running, proven>>

States == {"undefined", "new", "pending", "valid", "invalid", "aborted"}

Other(s) == IF s = <<"ota_0">> THEN <<"ota_1">> ELSE <<"ota_0">>

\* A board that was flashed by cable has no boot data, one that an update chose
\* ota_0 on has.
InitOta ==
  /\ \E own \in Images \ Crashing :
       /\ slot = [s \in Slots |-> IF s = <<"ota_0">> THEN own ELSE <<>>]
       /\ proven = {own}
  /\ \E known \in {"undefined", "valid"} :
       state = [s \in Slots |-> IF s = <<"ota_0">> THEN known ELSE "undefined"]
  /\ boot = <<"ota_0">>
  /\ running = <<"ota_0">>

-----------------------------------------------------------------------------
(* ota_update *)

\* Mutant: the slot after the one that boots next.
AfterBoot == Other(boot)

UpdateTarget == Other(running)

\* The library refuses while the running image is on trial.
ota_begin == state[running] # "pending"

OtaOpen(in) ==
  LET p == resolve(in) IN
  /\ Begins
  /\ IF /\ p.ok /\ IsFile(p.path)
        /\ At(p.path).data # <<>> /\ Len(At(p.path).data) <= Capacity
        /\ ota_begin
     THEN /\ cmd' = [name |-> "ota_update", dst |-> UpdateTarget, src |-> Key(p.path),
                     pos |-> 0, old |-> Nothing, wanted |-> At(p.path)]
          /\ Says("nothing")
          /\ UNCHANGED <<fs, s_cwd>>
     ELSE Refuses
  /\ UNCHANGED <<phase, faults, otaVars>>

\* The first write erases what was in the slot.
OtaWrite ==
  /\ cmd.name = "ota_update"
  /\ cmd.pos < Len(fs[cmd.src].data)
  /\ slot' = [slot EXCEPT ![cmd.dst] =
       Append(IF cmd.pos = 0 THEN <<>> ELSE @, fs[cmd.src].data[cmd.pos + 1])]
  /\ cmd' = [cmd EXCEPT !.pos = @ + 1]
  /\ UNCHANGED <<phase, fs, s_cwd, said, commands, faults, state, boot, running, proven>>

\* A read or a write fails; the write may have erased the slot.
OtaWriteFails ==
  /\ cmd.name = "ota_update"
  /\ cmd.pos < Len(fs[cmd.src].data)
  /\ Fault
  /\ \E left \in {slot[cmd.dst]} \cup (IF cmd.pos = 0 THEN {<<>>} ELSE {}) :
       slot' = [slot EXCEPT ![cmd.dst] = left]
  /\ Returns("failed")
  /\ UNCHANGED <<phase, fs, s_cwd, commands, state, boot, running, proven>>

\* esp_ota_end
OtaEnd ==
  /\ cmd.name = "ota_update"
  /\ cmd.pos >= Len(fs[cmd.src].data)
  /\ IF slot[cmd.dst] \in Images
     THEN cmd' = [cmd EXCEPT !.name = "ota_switch"] /\ UNCHANGED said
     ELSE Returns("failed")
  /\ UNCHANGED <<phase, fs, s_cwd, commands, faults, otaVars>>

\* esp_ota_set_boot_partition
OtaSwitch ==
  /\ cmd.name = "ota_switch"
  /\ boot' = cmd.dst
  /\ state' = [state EXCEPT ![cmd.dst] = "new"]
  /\ Returns("done")
  /\ UNCHANGED <<phase, fs, s_cwd, commands, faults, slot, running, proven>>

OtaSwitchFails ==
  /\ cmd.name = "ota_switch"
  /\ Fault
  /\ Returns("failed")
  /\ UNCHANGED <<phase, fs, s_cwd, commands, otaVars>>

-----------------------------------------------------------------------------
(* ota_confirm, ota_rollback and reboot *)

\* The library marks the entry that boots next, if there is one.
MarkValid == state' = [state EXCEPT ![boot] = IF @ = "undefined" THEN @ ELSE "valid"]

cmd_ota_confirm ==
  /\ Begins
  /\ Says("nothing")
  /\ IF state[running] = "valid" THEN UNCHANGED state ELSE MarkValid
  /\ UNCHANGED <<phase, fs, s_cwd, cmd, faults, slot, boot, running, proven>>

\* There is another image, and it was not given up.
RollbackPossible ==
  state[Other(boot)] \notin {"undefined", "invalid", "aborted"} /\ slot[Other(boot)] \in Images

cmd_ota_rollback ==
  /\ Begins
  /\ Says("nothing")
  /\ IF RollbackPossible
     THEN /\ state' = [state EXCEPT ![boot] = "invalid"]
          /\ boot' = Other(boot)
          /\ phase' = "off"
     ELSE UNCHANGED <<state, boot, phase>>
  /\ UNCHANGED <<fs, s_cwd, cmd, faults, slot, running, proven>>

cmd_reboot ==
  /\ Begins
  /\ Says("nothing")
  /\ phase' = "off"
  /\ UNCHANGED <<fs, s_cwd, cmd, faults, otaVars>>

-----------------------------------------------------------------------------
(* The boot loader and app_main. *)

\* An image still on trial is given up, a new one goes on trial, and one that does
\* not verify is passed over.
Boot ==
  LET choice == IF state[boot] = "pending" THEN Other(boot) ELSE boot
      left == IF state[boot] = "pending" THEN [state EXCEPT ![boot] = "aborted"] ELSE state
      start == IF slot[choice] \in Images THEN choice ELSE Other(choice)
  IN
  /\ phase = "off"
  /\ slot[start] \in Images
  /\ phase' = "starting"
  /\ boot' = choice
  /\ state' = IF left[choice] = "new" THEN [left EXCEPT ![choice] = "pending"] ELSE left
  /\ running' = start
  /\ UNCHANGED <<fs, s_cwd, cmd, said, commands, faults, slot, proven>>

\* Mutant: the image is confirmed before it has started.
ConfirmedFirst == [state EXCEPT ![boot] = "valid"]

AtCrash == state

\* The image resets the board before app_main comes to confirm it.
Crash ==
  /\ phase = "starting"
  /\ slot[running] \in Crashing
  /\ phase' = "off"
  /\ state' = AtCrash
  /\ UNCHANGED <<fs, s_cwd, cmd, said, commands, faults, slot, boot, running, proven>>

ShellStarts ==
  /\ phase = "starting"
  /\ slot[running] \notin Crashing
  /\ phase' = "shell"
  /\ s_cwd' = SHELL_HOME
  /\ proven' = proven \cup {slot[running]}
  /\ UNCHANGED <<fs, cmd, said, commands, slot, boot, running>>

\* app_main confirms an image on trial.  No test comes before it but having come
\* this far: a card or a flash file system that could not be mounted is only logged.
app_main ==
  /\ ShellStarts
  /\ IF state[running] = "pending" THEN MarkValid ELSE UNCHANGED state
  /\ UNCHANGED faults

app_main_unconfirmed ==
  /\ ShellStarts
  /\ state[running] = "pending"
  /\ Fault
  /\ UNCHANGED state

\* The power goes; a write to a slot may have erased it.
PowerLoss ==
  /\ phase # "off"
  /\ Fault
  /\ phase' = "off"
  /\ Torn
  /\ \E left \in {slot} \cup (IF cmd.name = "ota_update" /\ cmd.pos = 0
                              THEN {[slot EXCEPT ![cmd.dst] = <<>>]} ELSE {}) :
       slot' = left
  /\ cmd' = Idle
  /\ Says("nothing")
  /\ UNCHANGED <<s_cwd, commands, state, boot, running, proven>>

OtaStep ==
  \/ \E in \in Inputs : OtaOpen(in)
  \/ OtaWrite
  \/ OtaWriteFails
  \/ OtaEnd
  \/ OtaSwitch
  \/ OtaSwitchFails
  \/ cmd_ota_confirm
  \/ cmd_ota_rollback
  \/ cmd_reboot
  \/ Boot
  \/ Crash
  \/ app_main
  \/ app_main_unconfirmed
  \/ PowerLoss
=============================================================================
