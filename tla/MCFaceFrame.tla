---------------------------- MODULE MCFaceFrame ----------------------------
(***************************************************************************)
(* A panel of four by two, one field of a pose, a clock of six milli-      *)
(* seconds and a blend of three; one loop changes its state, another is at *)
(* rest.                                                                   *)
(***************************************************************************)
EXTENDS FaceFrame, TLC

MCStates == {"idle", "done"}
MCFields == {"eye_open"}

MCQuarterSin == [i \in 0 .. 1 |-> 2 * i]

MCRest == [s \in MCStates |-> [x \in MCFields |-> IF s = "done" THEN 2 ELSE 1]]
MCSwing == [s \in MCStates |-> [x \in MCFields |-> IF s = "done" THEN 1 ELSE 0]]
MCPeriod == [s \in MCStates |-> [x \in MCFields |-> 4]]

MCWanted == "l1" :> MCStates @@ "l2" :> {}
MCPassed == "l1" :> {2} @@ "l2" :> {0}

\* One pixel on the left tells that the eye is open, one on the right that it is wide
\* open.
MCRender(look, state, pose, now) ==
  [p \in Pixels |->
     IF \/ p = <<0, 0>> /\ pose["eye_open"] > 0
        \/ p = <<3, 1>> /\ pose["eye_open"] = 2
     THEN 1 ELSE 0]

MCAtPowerOn == {[p \in Pixels |-> 0]}
=============================================================================
