----------------------------- MODULE LatestWord -----------------------------
(***************************************************************************)
(* What the agent hook promises about the board's LCD: events publish      *)
(* words in an order, the board shows published words only, and it never   *)
(* goes back from a newer word to an older one.  It does not promise that  *)
(* every word is shown: words in between may be skipped.                   *)
(***************************************************************************)
EXTENDS Naturals, Sequences

CONSTANTS Words, NoWord

VARIABLES history,  \* every published word, oldest first
          board     \* the word on the board and its place in history, 0 for none

Blank == [word |-> NoWord, no |-> 0]

Init == history = << >> /\ board = Blank

Publish(w) == history' = Append(history, w) /\ UNCHANGED board

\* A word may reach the board late, after newer ones were published.
Show(n) ==
  /\ n >= board.no
  /\ board' = [word |-> history[n], no |-> n]
  /\ UNCHANGED history

\* The board loses power and shows nothing.
PowerLoss == board' = Blank /\ UNCHANGED history

Next == \/ \E w \in Words : Publish(w)
        \/ \E n \in 1 .. Len(history) : Show(n)
        \/ PowerLoss

Spec == Init /\ [][Next]_<<history, board>>
=============================================================================
