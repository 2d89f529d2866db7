----------------------------- MODULE TextBuffer -----------------------------
(***************************************************************************)
(* What the editor promises about the text it has open: one string of      *)
(* characters in which every line ends with LF, a cursor between two of    *)
(* them, and keys that change it next to the cursor and nowhere else.      *)
(***************************************************************************)
EXTENDS Naturals, Sequences

CONSTANTS LF

VARIABLES text,   \* the text
          cursor, \* how many characters are before the cursor
          open    \* TRUE iff a text is open

Init == text = << >> /\ cursor = 0 /\ ~open

LineEnded(t) == t = << >> \/ t[Len(t)] = LF

Before == SubSeq(text, 1, cursor)
After == SubSeq(text, cursor + 1, Len(text))

\* A file is opened with the cursor at its start.
Open == ~open /\ open' /\ LineEnded(text') /\ cursor' = 0

\* Behind the last line end, a typed character begins a line of its own.
Insert(s) == /\ text' = Before \o s \o (IF After = << >> THEN <<LF>> ELSE << >>) \o After
             /\ cursor' = cursor + Len(s)

\* The characters typed can be told from the result.
Type == /\ open /\ open'
        /\ cursor' > cursor /\ Len(text') >= cursor'
        /\ Insert(SubSeq(text', cursor + 1, cursor'))

Break == open /\ open' /\ text' = Before \o <<LF>> \o After /\ cursor' = cursor + 1

DeleteBefore == /\ open /\ open' /\ cursor > 0
                /\ text' = SubSeq(text, 1, cursor - 1) \o After
                /\ cursor' = cursor - 1

DeleteAfter == /\ open /\ open' /\ cursor < Len(text)
               /\ text' = Before \o SubSeq(text, cursor + 2, Len(text))
               /\ cursor' = cursor

Move == open /\ open' /\ text' = text /\ cursor' \in 0 .. Len(text)

Close == open /\ ~open' /\ text' = << >> /\ cursor' = 0

Next == Open \/ Type \/ Break \/ DeleteBefore \/ DeleteAfter \/ Move \/ Close

Spec == Init /\ [][Next /\ LineEnded(text')]_<<text, cursor, open>>
=============================================================================
