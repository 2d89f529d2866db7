------------------------------ MODULE MCShell ------------------------------
(***************************************************************************)
(* A small board: a file on the card and one on the flash, a directory, a  *)
(* text, and images of two chunks.                                         *)
(***************************************************************************)
EXTENDS PathMeaning

MCNames == {"sdcard", "data", "a", "A", "d"}

MCNameLength ==
  [n \in MCNames |-> IF n = "sdcard" THEN 6 ELSE IF n = "data" THEN 4 ELSE 1]

MCFold == [n \in MCNames |-> IF n = "A" THEN "a" ELSE n]

MCPlaces ==
  {<<"sdcard">>, <<"data">>, <<"sdcard", "a">>, <<"sdcard", "d">>, <<"sdcard", "d", "a">>,
   <<"data", "a">>}

Relative(segs) == [abs |-> FALSE, segs |-> segs]
Absolute(segs) == [abs |-> TRUE, segs |-> segs]

MCInputs ==
  {Relative(<<"a">>), Relative(<<"A">>), Relative(<<"d">>), Relative(<<"d", "a">>),
   Absolute(<<"data">>), Absolute(<<"data", "a">>)}

TwoFiles == {Relative(<<"a">>), Absolute(<<"data", "a">>)}

MCMoreInputs ==
  {Relative(<<>>), Absolute(<<>>), Relative(<<".">>), Relative(<<"..">>),
   Relative(<<"..", "..", "..", "data">>), Relative(<<"a", "..", ".", "d">>),
   Relative(<<"d", "d", "d", "d">>), Relative(<<"d", "d", "..", "..", "A">>),
   Absolute(<<"..", "data", ".", "a">>), Absolute(<<"sdcard", "..", "data">>),
   Absolute(<<"sdcard", "..", "sdcard", "d">>), Absolute(<<"a", "a", "a", "a">>),
   Absolute(<<"a", "a", "a", "a", "a">>), Absolute(<<"a", "a", "a", "a", "..", "a">>)}

Good == <<"x", "y">>
Update == <<"x", "z">>
Bad == <<"x", "x">>

TwoImages == {Good, Bad}
ThreeImages == {Good, Update, Bad}

MCCrashing == {Bad}

MCTexts == {<<"y">>}

StartWith(image) ==
  [p \in MCPlaces |->
     IF p = <<"sdcard", "a">> THEN File(image)
     ELSE IF p \in {<<"sdcard">>, <<"data">>, <<"sdcard", "d">>} THEN Directory
     ELSE Nothing]

MCFilesAtStart == {StartWith(Good), StartWith(Bad)}

\* One update on the card and another one on the flash.
BothUpdates == {[StartWith(Update) EXCEPT ![<<"data", "a">>] = File(Bad)]}
=============================================================================
