-------------------------------- MODULE Editor --------------------------------
(***************************************************************************)
(* editor.c: the full-screen text editor of the shell (`nano`).  One task  *)
(* reads a key, changes E and draws the screen.  The loops that read a     *)
(* file, write it and move by a page are here one step per iteration.      *)
(*                                                                         *)
(* Any allocation, read or write may fail.  What is drawn is left out, and *)
(* so are the status message and the decoding of escape sequences.         *)
(***************************************************************************)
EXTENDS Integers, Sequences, SequencesExt

CONSTANTS Letters,    \* the printable characters that are typed
          TextFiles,  \* what the file may hold before it is opened
          ScreenRows, \* E.screenrows, 22 in the code
          ScreenCols, \* E.screencols, 80 in the code
          ChunkSize,  \* the bytes one fgets() reads, 511 in the code
          MaxSize     \* bound: characters and line ends of a text that still grows

Space == "space"
LF == "LF"
CR == "CR"

Chars == Letters \cup {Space, CR}
Texts == Seq(Chars \cup {LF})
NoFile == <<"no file">>

ASSUME SizesAssumption ==
  /\ ScreenRows \in Nat \ {0} /\ ScreenCols \in Nat \ {0} /\ ChunkSize \in Nat \ {0}
  /\ MaxSize \in Nat
ASSUME TextsAssumption ==
  LF \notin Chars /\ NoFile \notin Texts /\ \A f \in TextFiles : f \in Texts \cup {NoFile}

VARIABLES
  E,          \* struct editorConfig; dirty is TRUE for every count but zero
  mode,       \* what the task does
  i,          \* the counter of its loop, 0 outside of one
  key,        \* the key a page is moved with
  continuing, \* the last chunk read did not end a line
  file,       \* the file on the card
  torn        \* history: the last save since the file was opened failed

vars == <<E, mode, i, key, continuing, file, torn>>

Cleared == [rows |-> << >>, cx |-> 0, cy |-> 0, rowoff |-> 0, coloff |-> 0, dirty |-> FALSE]

Init ==
  /\ E = Cleared
  /\ mode = "shell"
  /\ i = 0
  /\ key = "up"
  /\ continuing = FALSE
  /\ file \in TextFiles
  /\ torn = FALSE

-----------------------------------------------------------------------------
(* The text: editorInsertRow() to editorDelChar().  Row y of the code is    *)
(* rows[y + 1]; a cursor with cy = numrows is below the last row.           *)

numrows(e) == Len(e.rows)

size(e, y) == IF y < numrows(e) THEN Len(e.rows[y + 1]) ELSE 0

editorInsertRow(e, at, s) == [e EXCEPT !.rows = InsertAt(@, at + 1, s), !.dirty = TRUE]

editorDelRow(e, at) == [e EXCEPT !.rows = RemoveAt(@, at + 1), !.dirty = TRUE]

\* Mutant: the change of a row is not counted.
SetRowQuietly(e, y, s) == [e EXCEPT !.rows = ReplaceAt(@, y + 1, s)]

SetRow(e, y, s) == [e EXCEPT !.rows = ReplaceAt(@, y + 1, s), !.dirty = TRUE]

editorRowInsertChar(e, y, at, c) == SetRow(e, y, InsertAt(e.rows[y + 1], at + 1, c))

editorRowAppendString(e, y, s) == SetRow(e, y, e.rows[y + 1] \o s)

editorRowDelChar(e, y, at) == SetRow(e, y, RemoveAt(e.rows[y + 1], at + 1))

editorInsertChar(e, c) ==
  [IF e.cy = numrows(e) THEN editorInsertRow(e, e.cy, <<c>>)
                        ELSE editorRowInsertChar(e, e.cy, e.cx, c) EXCEPT !.cx = @ + 1]

\* Splits the row at the cursor; at its start an empty row above it will do.
SplitRow(e) ==
  LET row == e.rows[e.cy + 1]
  IN  SetRow(editorInsertRow(e, e.cy + 1, SubSeq(row, e.cx + 1, Len(row))),
             e.cy, SubSeq(row, 1, e.cx))

editorInsertNewline(e) ==
  [IF e.cx = 0 THEN editorInsertRow(e, e.cy, << >>) ELSE SplitRow(e)
     EXCEPT !.cy = @ + 1, !.cx = 0]

\* Mutant: the cursor goes to the end of the joined row.
EndOfJoin(e) == size(e, e.cy - 1) + size(e, e.cy)

EndOfPrevious(e) == size(e, e.cy - 1)

JoinRows(e) ==
  [editorDelRow(editorRowAppendString(e, e.cy - 1, e.rows[e.cy + 1]), e.cy)
     EXCEPT !.cx = EndOfPrevious(e), !.cy = @ - 1]

editorDelChar(e) ==
  CASE e.cy = numrows(e) \/ (e.cx = 0 /\ e.cy = 0) -> e
    [] e.cx > 0 -> [editorRowDelChar(e, e.cy, e.cx - 1) EXCEPT !.cx = @ - 1]
    [] OTHER -> JoinRows(e)

\* An allocation that fails leaves everything as it was.
Attempts(e, changed) == {e, changed}

\* The one deletion that allocates is that of a line end.
DelAttempts(e) == IF e.cx = 0 THEN Attempts(e, editorDelChar(e)) ELSE {editorDelChar(e)}

-----------------------------------------------------------------------------
(* The cursor and the window: editorMoveCursor() and editorScroll(). *)

Moved(e, k) ==
  CASE k = "left" /\ e.cx > 0 -> [e EXCEPT !.cx = @ - 1]
    [] k = "left" /\ e.cx = 0 /\ e.cy > 0 -> [e EXCEPT !.cy = @ - 1, !.cx = size(e, e.cy - 1)]
    [] k = "right" /\ e.cy < numrows(e) /\ e.cx < size(e, e.cy) -> [e EXCEPT !.cx = @ + 1]
    [] k = "right" /\ e.cy < numrows(e) /\ e.cx = size(e, e.cy) -> [e EXCEPT !.cy = @ + 1, !.cx = 0]
    [] k = "up" /\ e.cy > 0 -> [e EXCEPT !.cy = @ - 1]
    [] k = "down" /\ e.cy < numrows(e) -> [e EXCEPT !.cy = @ + 1]
    [] OTHER -> e

\* Mutant: the column of a longer row is kept.
Unsnapped(e) == e

\* The cursor does not stand behind the end of its row.
Snapped(e) == IF e.cx > size(e, e.cy) THEN [e EXCEPT !.cx = size(e, e.cy)] ELSE e

editorMoveCursor(e, k) == Snapped(Moved(e, k))

\* Mutant: the last line of the window is taken for the one behind it.
OffsetShort(c, off, n) ==
  IF c < off THEN c ELSE IF c > off + n THEN c - n + 1 ELSE off

\* The first line of a window of n lines that was at off and must show c.
Offset(c, off, n) ==
  IF c < off THEN c ELSE IF c >= off + n THEN c - n + 1 ELSE off

editorScroll(e) == [e EXCEPT !.rowoff = Offset(e.cy, @, ScreenRows),
                             !.coloff = Offset(e.cx, @, ScreenCols)]

-----------------------------------------------------------------------------
(* editor_open() and editorOpenRows() *)

\* The locals of a loop end with it.
EndLoop == i' = 0 /\ continuing' = FALSE

\* A new file has one empty row.
OpenNew ==
  /\ mode = "shell"
  /\ file = NoFile
  /\ mode' = "editing"
  /\ E' = [editorInsertRow(Cleared, 0, << >>) EXCEPT !.dirty = FALSE]
  /\ UNCHANGED <<i, key, continuing, file, torn>>

Open ==
  /\ mode = "shell"
  /\ file # NoFile
  /\ mode' = "loading"
  /\ E' = Cleared
  /\ UNCHANGED <<i, key, continuing, file, torn>>

\* fgets() stops behind a line end, after ChunkSize bytes or at the end of the file.
Chunk ==
  LET rest == SubSeq(file, i + 1, Len(file))
      ends == {n \in DOMAIN rest : rest[n] = LF \/ n = ChunkSize \/ n = Len(rest)}
  IN  SubSeq(rest, 1, CHOOSE n \in ends : \A m \in ends : n <= m)

WithoutLast(s, c) == IF s # << >> /\ Last(s) = c THEN Front(s) ELSE s

\* Mutant: every chunk begins a row.
NeverJoins == FALSE

\* A chunk that does not begin a line goes to the end of the last row.
Joins == continuing

LoadChunk ==
  LET chunk == Chunk
      complete == Last(chunk) = LF
      line == WithoutLast(chunk, LF)
      row == IF Joins THEN Last(E.rows) \o line ELSE line
      earlier == IF Joins THEN Front(E.rows) ELSE E.rows
  IN
  /\ mode = "loading"
  /\ i < Len(file)
  /\ i' = i + Len(chunk)
  /\ E' = [E EXCEPT !.rows = Append(earlier, IF complete THEN WithoutLast(row, CR) ELSE row),
                    !.dirty = TRUE]
  /\ continuing' = ~complete
  /\ UNCHANGED <<mode, key, file, torn>>

LoadEnds ==
  /\ mode = "loading"
  /\ i = Len(file)
  /\ mode' = "editing"
  /\ E' = [E EXCEPT !.dirty = FALSE]
  /\ EndLoop
  /\ UNCHANGED <<key, file, torn>>

Leave == mode' = "shell" /\ E' = Cleared /\ torn' = FALSE

\* No memory for a row or an I/O error: the rows are freed.
LoadFails ==
  /\ mode = "loading"
  /\ Leave
  /\ EndLoop
  /\ UNCHANGED <<key, file>>

-----------------------------------------------------------------------------
(* editorProcessKeypress(); the screen is drawn again after every key. *)

\* The key ends with one of the outcomes and the window follows the cursor.
Keypress(outcomes) ==
  /\ mode = "editing"
  /\ \E e \in outcomes : E' = editorScroll(e)
  /\ UNCHANGED <<mode, i, key, continuing, file, torn>>

\* Bound: the text grows up to MaxSize.
Grows(n) == Len(FlattenSeq(E.rows)) + numrows(E) + n <= MaxSize

InsertLetter(c) == Grows(1) /\ Keypress(Attempts(E, editorInsertChar(E, c)))

Tab == Grows(2) /\ Keypress(UNION {Attempts(e, editorInsertChar(e, Space)) :
                                   e \in Attempts(E, editorInsertChar(E, Space))})

Enter == Grows(1) /\ Keypress(Attempts(E, editorInsertNewline(E)))

Backspace == Keypress(DelAttempts(E))

Delete == Keypress(DelAttempts(editorMoveCursor(E, "right")))

Home == Keypress({[E EXCEPT !.cx = 0]})

End == Keypress({IF E.cy < numrows(E) THEN [E EXCEPT !.cx = size(E, E.cy)] ELSE E})

Arrow(k) == Keypress({editorMoveCursor(E, k)})

\* A page is as many steps up or down as the screen has rows.
PageKey(k) ==
  /\ mode = "editing"
  /\ mode' = "paging"
  /\ i' = ScreenRows
  /\ key' = k
  /\ UNCHANGED <<E, continuing, file, torn>>

PageStep ==
  /\ mode = "paging"
  /\ i > 0
  /\ i' = i - 1
  /\ E' = editorMoveCursor(E, key)
  /\ UNCHANGED <<mode, key, continuing, file, torn>>

PageEnds ==
  /\ mode = "paging"
  /\ i = 0
  /\ mode' = "editing"
  /\ E' = editorScroll(E)
  /\ key' = "up"
  /\ UNCHANGED <<i, continuing, file, torn>>

\* Unsaved changes have to be given up with a second key.
Quit ==
  /\ mode = "editing"
  /\ IF E.dirty THEN mode' = "confirm" /\ UNCHANGED <<E, torn>> ELSE Leave
  /\ UNCHANGED <<i, key, continuing, file>>

ConfirmQuit ==
  /\ mode = "confirm"
  /\ Leave
  /\ UNCHANGED <<i, key, continuing, file>>

\* Any other key, which does nothing else.
Decline ==
  /\ mode = "confirm"
  /\ mode' = "editing"
  /\ UNCHANGED <<E, i, key, continuing, file, torn>>

-----------------------------------------------------------------------------
(* editorSave(): the file is emptied first and written row by row. *)

Save ==
  /\ mode = "editing"
  /\ mode' = "saving"
  /\ file' = << >>
  /\ UNCHANGED <<E, i, key, continuing, torn>>

SaveRow ==
  /\ mode = "saving"
  /\ i < numrows(E)
  /\ i' = i + 1
  /\ file' = file \o Append(E.rows[i + 1], LF)
  /\ UNCHANGED <<E, mode, key, continuing, torn>>

SaveEnds ==
  /\ mode = "saving"
  /\ i = numrows(E)
  /\ mode' = "editing"
  /\ E' = [E EXCEPT !.dirty = FALSE]
  /\ torn' = FALSE
  /\ EndLoop
  /\ UNCHANGED <<key, file>>

\* A write fails, or fclose() cannot write what was buffered.
SaveFails ==
  /\ mode = "saving"
  /\ mode' = "editing"
  /\ file' \in Prefixes(file)
  /\ torn' = TRUE
  /\ EndLoop
  /\ UNCHANGED <<E, key>>

-----------------------------------------------------------------------------

Next ==
  \/ OpenNew \/ Open \/ LoadChunk \/ LoadEnds \/ LoadFails
  \/ (\E c \in Letters : InsertLetter(c)) \/ Tab \/ Enter \/ Backspace \/ Delete
  \/ Home \/ End \/ (\E k \in {"left", "right", "up", "down"} : Arrow(k))
  \/ (\E k \in {"up", "down"} : PageKey(k)) \/ PageStep \/ PageEnds
  \/ Quit \/ ConfirmQuit \/ Decline
  \/ Save \/ SaveRow \/ SaveEnds \/ SaveFails

Spec == Init /\ [][Next]_vars

-----------------------------------------------------------------------------

Editors == [rows : Seq(Seq(Chars)), cx : Nat, cy : Nat, rowoff : Nat, coloff : Nat,
            dirty : BOOLEAN]

TypeOK ==
  /\ E \in Editors
  /\ mode \in {"shell", "loading", "editing", "paging", "confirm", "saving"}
  /\ i \in Nat
  /\ key \in {"up", "down"}
  /\ continuing \in BOOLEAN
  /\ file \in Texts \cup {NoFile}
  /\ torn \in BOOLEAN

InText(e) == e.cy <= numrows(e) /\ e.cx <= size(e, e.cy)

\* Every index the code uses lies in its array: the cursor never leaves the text, whatever
\* sequence of keys, failed allocations and failed saves came before, the row that a
\* chunk is appended to exists, and the row that is written exists.
IndexesInside ==
  /\ InText(E)
  /\ mode = "loading" /\ continuing => E.rows # << >>
  /\ mode = "saving" => i <= numrows(E)

\* The cursor can be seen: after every key the window of 22 lines of 80 columns has
\* followed it (editorScroll).
CursorVisible ==
  mode \in {"editing", "confirm", "saving"} =>
    /\ E.rowoff <= E.cy /\ E.cy < E.rowoff + ScreenRows
    /\ E.coloff <= E.cx /\ E.cx < E.coloff + ScreenCols

\* The text of the rows as editorSave() writes it.
Joined(rows) == FlattenSeq([y \in DOMAIN rows |-> Append(rows[y], LF)])

\* Reference definition: a file is its rows with a line end behind each.  A CR before an
\* LF belongs to the line end, and the last row alone may have none, if it is not empty.
LinesOf(rows, f) ==
  \E ends \in [DOMAIN rows -> {<<LF>>, <<CR, LF>>, << >>}] :
    /\ f = FlattenSeq([y \in DOMAIN rows |-> rows[y] \o ends[y]])
    /\ \A y \in DOMAIN rows :
         /\ \A x \in DOMAIN rows[y] : rows[y][x] # LF
         /\ ends[y] = <<LF>> => WithoutLast(rows[y], CR) = rows[y]
         /\ ends[y] = << >> => y = Len(rows) /\ rows[y] # << >>

\* Reading a file in chunks of 511 bytes gives its lines, wherever a chunk ends: a long
\* line is one row, and a CR LF split between two chunks is still one line end.
LoadsTheLines == [][mode = "loading" /\ mode' = "editing" => LinesOf(E'.rows, file)]_vars

\* The text on the screen is the text of the file.
Saved == \/ file = NoFile /\ E.rows = << << >> >>
         \/ file # NoFile /\ (LinesOf(E.rows, file) \/ file = Joined(E.rows))

\* A text that is not marked as modified is in the file, unless the last save failed: no
\* edit, no declined quit and no earlier save can leave the mark off wrongly.
CleanMeansSaved ==
  mode \in {"editing", "paging"} /\ ~E.dirty /\ ~torn => Saved

\* The editor asks before it gives up unsaved changes ("File has unsaved changes! Press
\* Ctrl+Q again to force quit.", editor.c:494): it ends without the question only if
\* the text is in the file.
AsksBeforeLoss == [][mode = "editing" /\ mode' = "shell" => Saved]_vars

IsOpen == mode \notin {"shell", "loading"}

Buffer == INSTANCE TextBuffer
  WITH text <- IF IsOpen THEN Joined(E.rows) ELSE << >>,
       cursor <- IF IsOpen THEN Len(Joined(SubSeq(E.rows, 1, E.cy))) + E.cx ELSE 0,
       open <- IsOpen

\* Every key changes the text at the cursor and nowhere else, and puts the cursor where
\* the change ended, in the middle of a text, at its ends and when memory runs out.
EditsAtCursor == Buffer!Spec
=============================================================================
