---------------------------- MODULE Editor_proofs ----------------------------
(***************************************************************************)
(* Proofs about Editor, for texts, screens and chunks of every size: the    *)
(* types, that no index leaves its array and that the window follows the    *)
(* cursor (IInv); that every key changes the text at the cursor alone, as   *)
(* TextBuffer says; that a file is read into its lines, wherever the chunks *)
(* end, and that a text without the mark is in the file (Kept).             *)
(***************************************************************************)
EXTENDS Editor, SequenceTheorems, WellFoundedInduction, TLAPS

-----------------------------------------------------------------------------
(* Sequences. *)

\* A part of a sequence.
LEMMA Part ==
  ASSUME NEW S, NEW s \in Seq(S), NEW m \in Int, NEW n \in Int, 1 <= m, n <= Len(s)
  PROVE  /\ SubSeq(s, m, n) \in Seq(S)
         /\ Len(SubSeq(s, m, n)) = IF m <= n THEN n - m + 1 ELSE 0
         /\ \A k \in 1 .. n - m + 1 : SubSeq(s, m, n)[k] = s[m + k - 1]
  <1>1. Len(s) \in Nat
    BY LenProperties
  <1>2. \A k \in m .. n : s[k] \in S
    BY <1>1, ElementOfSeq
  <1> QED
    BY <1>2, SubSeqProperties

\* A sequence of one element.
LEMMA Single ==
  ASSUME NEW S, NEW x \in S
  PROVE  <<x>> \in Seq(S) /\ Len(<<x>>) = 1 /\ <<x>>[1] = x
  OBVIOUS

\* A sequence with an element more, at a place of it or behind it.
LEMMA Inserted ==
  ASSUME NEW S, NEW s \in Seq(S), NEW n \in 1 .. Len(s) + 1, NEW x \in S
  PROVE  /\ InsertAt(s, n, x) \in Seq(S)
         /\ Len(InsertAt(s, n, x)) = Len(s) + 1
         /\ InsertAt(s, n, x)[n] = x
         /\ \A k \in 1 .. n - 1 : InsertAt(s, n, x)[k] = s[k]
         /\ \A k \in n .. Len(s) : InsertAt(s, n, x)[k + 1] = s[k]
  <1> DEFINE a == SubSeq(s, 1, n - 1)
             c == SubSeq(s, n, Len(s))
             ab == a \o <<x>>
  <1>1. Len(s) \in Nat
    BY LenProperties
  <1>2. /\ a \in Seq(S) /\ Len(a) = n - 1
        /\ \A k \in 1 .. n - 1 : a[k] = s[k]
    BY <1>1, Part
  <1>3. /\ c \in Seq(S) /\ Len(c) = Len(s) - n + 1
        /\ \A k \in 1 .. Len(s) - n + 1 : c[k] = s[n + k - 1]
    BY <1>1, Part
  <1>4. <<x>> \in Seq(S) /\ Len(<<x>>) = 1 /\ <<x>>[1] = x
    BY Single
  <1> HIDE DEF a, c
  <1>5. /\ ab \in Seq(S) /\ Len(ab) = n
        /\ \A k \in 1 .. n : ab[k] = IF k <= n - 1 THEN a[k] ELSE <<x>>[k - (n - 1)]
    BY <1>1, <1>2, <1>4, ConcatProperties
  <1> HIDE DEF ab
  <1>6. /\ ab \o c \in Seq(S) /\ Len(ab \o c) = Len(s) + 1
        /\ \A k \in 1 .. Len(s) + 1 : (ab \o c)[k] = IF k <= n THEN ab[k] ELSE c[k - n]
    <2>1. /\ ab \o c \in Seq(S) /\ Len(ab \o c) = Len(ab) + Len(c)
          /\ \A k \in 1 .. Len(ab) + Len(c) :
               (ab \o c)[k] = IF k <= Len(ab) THEN ab[k] ELSE c[k - Len(ab)]
      BY <1>3, <1>5, ConcatProperties
    <2>2. Len(ab) = n /\ Len(ab) + Len(c) = Len(s) + 1
      BY <1>1, <1>3, <1>5
    <2> QED
      BY ONLY <2>1, <2>2
  <1>7. InsertAt(s, n, x) = ab \o c
    BY DEF InsertAt, ab, a, c
  <1>8. ab[n] = x
    BY <1>4, <1>5
  <1>9. \A k \in 1 .. n - 1 : ab[k] = s[k]
    BY <1>2, <1>5
  <1>10. \A k \in n .. Len(s) : c[(k + 1) - n] = s[k]
    <2> TAKE k \in n .. Len(s)
    <2> DEFINE j == (k + 1) - n
    <2>1. j \in 1 .. Len(s) - n + 1 /\ n + j - 1 = k
      BY <1>1
    <2> QED
      BY <2>1, <1>3
  <1> QED
    BY <1>1, <1>6, <1>7, <1>8, <1>9, <1>10

\* A sequence with an element less.
LEMMA Removed ==
  ASSUME NEW S, NEW s \in Seq(S), NEW n \in 1 .. Len(s)
  PROVE  /\ RemoveAt(s, n) \in Seq(S)
         /\ Len(RemoveAt(s, n)) = Len(s) - 1
         /\ \A k \in 1 .. n - 1 : RemoveAt(s, n)[k] = s[k]
  <1> DEFINE a == SubSeq(s, 1, n - 1)
             c == SubSeq(s, n + 1, Len(s))
  <1>1. Len(s) \in Nat
    BY LenProperties
  <1>2. /\ a \in Seq(S) /\ Len(a) = n - 1
        /\ \A k \in 1 .. n - 1 : a[k] = s[k]
    BY <1>1, Part
  <1>3. c \in Seq(S) /\ Len(c) = Len(s) - n
    BY <1>1, Part
  <1> HIDE DEF a, c
  <1>4. /\ a \o c \in Seq(S) /\ Len(a \o c) = Len(s) - 1
        /\ \A k \in 1 .. Len(s) - 1 : (a \o c)[k] = IF k <= n - 1 THEN a[k] ELSE c[k - (n - 1)]
    <2>1. /\ a \o c \in Seq(S) /\ Len(a \o c) = Len(a) + Len(c)
          /\ \A k \in 1 .. Len(a) + Len(c) :
               (a \o c)[k] = IF k <= Len(a) THEN a[k] ELSE c[k - Len(a)]
      BY <1>2, <1>3, ConcatProperties
    <2>2. Len(a) = n - 1 /\ Len(a) + Len(c) = Len(s) - 1
      BY <1>1, <1>2, <1>3
    <2> QED
      BY ONLY <2>1, <2>2
  <1>5. RemoveAt(s, n) = a \o c
    BY DEF RemoveAt, a, c
  <1> QED
    BY <1>1, <1>2, <1>4, <1>5

\* A sequence that is not empty has a last element.
LEMMA FrontAndLast ==
  ASSUME NEW S, NEW s \in Seq(S), s # << >>
  PROVE  /\ Front(s) \in Seq(S) /\ Last(s) \in S /\ s = Append(Front(s), Last(s))
         /\ Len(s) = Len(Front(s)) + 1 /\ Len(Front(s)) \in Nat
  <1>1. Len(s) \in Nat \ {0}
    BY EmptySeq
  <1>2. Len(s) \in 1 .. Len(s) /\ 1 \in 1 .. Len(s)
    BY <1>1
  <1>3. Last(s) \in S
    BY <1>2, ElementOfSeq DEF Last
  <1>4. Front(s) \in Seq(S) /\ Len(Front(s)) = Len(s) - 1
    <2> DEFINE n == Len(s) - 1
    <2>1. n \in Nat /\ n <= Len(s) /\ n \in Int /\ 1 \in Int
      BY <1>1
    <2>2. SubSeq(s, 1, n) \in Seq(S) /\ Len(SubSeq(s, 1, n)) = IF 1 <= n THEN n - 1 + 1 ELSE 0
      <3> HIDE DEF n
      <3> QED
        BY <2>1, Part
    <2>3. Front(s) = SubSeq(s, 1, n)
      BY DEF Front
    <2> HIDE DEF n
    <2>4. Len(Front(s)) = n
      BY <2>1, <2>2, <2>3
    <2> QED
      BY <2>2, <2>3, <2>4 DEF n
  <1>5. SubSeq(s, 1, Len(s)) = SubSeq(s, 1, Len(s) - 1) \o <<s[Len(s)]>>
    <2> DEFINE n == Len(s)
    <2>1. 1 \in 1 .. n /\ n \in 1 .. n
      BY <1>2
    <2> QED
      BY <2>1, SubSeqRecursiveSecond
  <1>6. s = Front(s) \o <<Last(s)>>
    BY <1>5, SubSeqFull DEF Front, Last
  <1> QED
    BY <1>1, <1>3, <1>4, <1>6, AppendIsConcat

\* A sequence without its last element, if that is c.
LEMMA Stripped ==
  ASSUME NEW S, NEW s \in Seq(S), NEW c
  PROVE  /\ WithoutLast(s, c) \in Seq(S)
         /\ s # << >> /\ Last(s) # c => WithoutLast(s, c) = s
  <1>1. Len(s) \in Nat
    BY LenProperties
  <1>2. Front(s) \in Seq(S)
    BY <1>1, Part DEF Front
  <1> QED
    BY <1>2 DEF WithoutLast

-----------------------------------------------------------------------------
(* The text. *)

Rows == Seq(Seq(Chars))

\* The fields of E have their types.
LEMMA Fields ==
  ASSUME NEW e \in Editors
  PROVE  /\ e.rows \in Rows /\ numrows(e) \in Nat
         /\ e.cx \in Nat /\ e.cy \in Nat /\ e.rowoff \in Nat /\ e.coloff \in Nat
         /\ e.dirty \in BOOLEAN
         /\ \A y \in 0 .. numrows(e) - 1 :
              e.rows[y + 1] \in Seq(Chars) /\ size(e, y) = Len(e.rows[y + 1]) /\ size(e, y) \in Nat
         /\ \A y \in Nat : size(e, y) \in Nat
  <1>1. /\ e.rows \in Rows
        /\ e.cx \in Nat /\ e.cy \in Nat /\ e.rowoff \in Nat /\ e.coloff \in Nat
        /\ e.dirty \in BOOLEAN
    BY DEF Editors, Rows
  <1>2. numrows(e) \in Nat
    BY <1>1, LenProperties DEF numrows, Rows
  <1>3. ASSUME NEW y \in Nat, y < numrows(e)
        PROVE  e.rows[y + 1] \in Seq(Chars) /\ Len(e.rows[y + 1]) \in Nat
    <2>1. y + 1 \in 1 .. Len(e.rows)
      BY <1>2, <1>3 DEF numrows
    <2>2. e.rows[y + 1] \in Seq(Chars)
      BY <1>1, <2>1, ElementOfSeq DEF Rows
    <2> QED
      BY <2>2, LenProperties
  <1>4. ASSUME NEW y \in 0 .. numrows(e) - 1
        PROVE  y \in Nat /\ y < numrows(e)
    BY <1>2
  <1>5. ASSUME NEW y \in Nat PROVE size(e, y) \in Nat
    BY <1>3 DEF size
  <1>6. \A y \in 0 .. numrows(e) - 1 :
          e.rows[y + 1] \in Seq(Chars) /\ size(e, y) = Len(e.rows[y + 1]) /\ size(e, y) \in Nat
    <2> TAKE y \in 0 .. numrows(e) - 1
    <2>1. y \in Nat /\ y < numrows(e)
      BY <1>4
    <2>2. size(e, y) = Len(e.rows[y + 1])
      BY <2>1 DEF size
    <2> QED
      BY <1>3, <2>1, <2>2
  <1> QED
    BY <1>1, <1>2, <1>5, <1>6

\* The column, the line and both of them can be changed alone.
LEMMA ColumnSet ==
  ASSUME NEW e \in Editors, NEW x \in Nat
  PROVE  LET f == [e EXCEPT !.cx = x]
         IN  f \in Editors /\ f.rows = e.rows /\ f.cx = x /\ f.cy = e.cy
  BY DEF Editors

LEMMA LineSet ==
  ASSUME NEW e \in Editors, NEW y \in Nat
  PROVE  LET f == [e EXCEPT !.cy = y]
         IN  f \in Editors /\ f.rows = e.rows /\ f.cx = e.cx /\ f.cy = y
  BY DEF Editors

Placed(e, x, y) == [e EXCEPT !.cy = y, !.cx = x]

LEMMA PlaceSet ==
  ASSUME NEW e \in Editors, NEW x \in Nat, NEW y \in Nat
  PROVE  /\ Placed(e, x, y) \in Editors /\ Placed(e, x, y).rows = e.rows
         /\ Placed(e, x, y).cx = x /\ Placed(e, x, y).cy = y
  BY DEF Editors, Placed

LEMMA PlaceSetEitherWay ==
  ASSUME NEW e \in Editors, NEW x, NEW y
  PROVE  [e EXCEPT !.cx = x, !.cy = y] = Placed(e, x, y)
  BY DEF Editors, Placed

\* The rows can be changed alone, which counts as a change of the text.
LEMMA RowsSet ==
  ASSUME NEW e \in Editors, NEW r \in Rows
  PROVE  LET f == [e EXCEPT !.rows = r, !.dirty = TRUE]
         IN  /\ f \in Editors /\ f.rows = r /\ f.cx = e.cx /\ f.cy = e.cy
             /\ f.rowoff = e.rowoff /\ f.coloff = e.coloff
  BY DEF Editors, Rows

\* Only the count of changes is set back.
Unmodified(e) == [e EXCEPT !.dirty = FALSE]

LEMMA CountSet ==
  ASSUME NEW e \in Editors
  PROVE  LET f == Unmodified(e)
         IN  /\ f \in Editors /\ f.rows = e.rows /\ f.cx = e.cx /\ f.cy = e.cy
             /\ f.rowoff = e.rowoff /\ f.coloff = e.coloff
  BY DEF Editors, Unmodified

LEMMA RowInserted ==
  ASSUME NEW e \in Editors, NEW at \in 0 .. numrows(e), NEW s \in Seq(Chars)
  PROVE  LET f == editorInsertRow(e, at, s)
         IN  /\ f \in Editors /\ f.cx = e.cx /\ f.cy = e.cy
             /\ f.rowoff = e.rowoff /\ f.coloff = e.coloff
             /\ numrows(f) = numrows(e) + 1
             /\ f.rows[at + 1] = s
             /\ \A k \in 1 .. at : f.rows[k] = e.rows[k]
             /\ \A k \in at + 1 .. numrows(e) : f.rows[k + 1] = e.rows[k]
  <1> DEFINE r == InsertAt(e.rows, at + 1, s)
  <1>1. e.rows \in Seq(Seq(Chars)) /\ numrows(e) \in Nat /\ numrows(e) = Len(e.rows)
    BY Fields DEF Rows, numrows
  <1>2. at + 1 \in 1 .. Len(e.rows) + 1 /\ (at + 1) - 1 = at
    BY <1>1
  <1>3. /\ r \in Rows /\ Len(r) = Len(e.rows) + 1 /\ r[at + 1] = s
        /\ \A k \in 1 .. at : r[k] = e.rows[k]
        /\ \A k \in at + 1 .. Len(e.rows) : r[k + 1] = e.rows[k]
    <2>1. /\ r \in Seq(Seq(Chars)) /\ Len(r) = Len(e.rows) + 1 /\ r[at + 1] = s
          /\ \A k \in 1 .. (at + 1) - 1 : r[k] = e.rows[k]
          /\ \A k \in at + 1 .. Len(e.rows) : r[k + 1] = e.rows[k]
      <3> DEFINE S == Seq(Chars)
                 q == e.rows
                 n == at + 1
      <3>1. q \in Seq(S) /\ n \in 1 .. Len(q) + 1 /\ s \in S
        BY <1>1, <1>2
      <3> HIDE DEF S, q, n
      <3>2. /\ InsertAt(q, n, s) \in Seq(S)
            /\ Len(InsertAt(q, n, s)) = Len(q) + 1
            /\ InsertAt(q, n, s)[n] = s
            /\ \A k \in 1 .. n - 1 : InsertAt(q, n, s)[k] = q[k]
            /\ \A k \in n .. Len(q) : InsertAt(q, n, s)[k + 1] = q[k]
        BY <3>1, Inserted
      <3> QED
        BY <3>2 DEF S, q, n
    <2> QED
      BY <1>2, <2>1 DEF Rows
  <1> HIDE DEF r
  <1> DEFINE f == [e EXCEPT !.rows = r, !.dirty = TRUE]
  <1>4. /\ f \in Editors /\ f.rows = r /\ f.cx = e.cx /\ f.cy = e.cy
        /\ f.rowoff = e.rowoff /\ f.coloff = e.coloff
    BY <1>3, RowsSet
  <1>5. editorInsertRow(e, at, s) = f
    BY DEF editorInsertRow, r
  <1> HIDE DEF f
  <1>6. numrows(f) = Len(r)
    BY <1>4 DEF numrows
  <1> QED
    BY <1>1, <1>3, <1>4, <1>5, <1>6

LEMMA RowSet ==
  ASSUME NEW e \in Editors, NEW y \in 0 .. numrows(e) - 1, NEW s \in Seq(Chars)
  PROVE  LET f == SetRow(e, y, s)
         IN  /\ f \in Editors /\ f.cx = e.cx /\ f.cy = e.cy
             /\ numrows(f) = numrows(e)
             /\ f.rows[y + 1] = s
             /\ \A k \in 1 .. numrows(e) : k # y + 1 => f.rows[k] = e.rows[k]
  <1> DEFINE r == ReplaceAt(e.rows, y + 1, s)
  <1>1. e.rows \in Seq(Seq(Chars)) /\ numrows(e) \in Nat /\ numrows(e) = Len(e.rows)
    BY Fields DEF Rows, numrows
  <1>2. y + 1 \in 1 .. Len(e.rows)
    BY <1>1
  <1>3. /\ r \in Rows /\ Len(r) = Len(e.rows) /\ r[y + 1] = s
        /\ \A k \in 1 .. Len(e.rows) : k # y + 1 => r[k] = e.rows[k]
    <2>1. /\ r \in Seq(Seq(Chars)) /\ Len(r) = Len(e.rows) /\ r[y + 1] = s
          /\ \A k \in 1 .. Len(e.rows) : k # y + 1 => r[k] = e.rows[k]
      <3> DEFINE S == Seq(Chars)
                 q == e.rows
                 n == y + 1
      <3>1. q \in Seq(S) /\ n \in 1 .. Len(q) /\ s \in S
        BY <1>1, <1>2
      <3> HIDE DEF S, q, n
      <3>2. /\ ReplaceAt(q, n, s) \in Seq(S)
            /\ Len(ReplaceAt(q, n, s)) = Len(q)
            /\ ReplaceAt(q, n, s)[n] = s
            /\ \A k \in 1 .. Len(q) : k # n => ReplaceAt(q, n, s)[k] = q[k]
        BY <3>1, ExceptSeq DEF ReplaceAt
      <3> QED
        BY <3>2 DEF S, q, n
    <2> QED
      BY <2>1 DEF Rows
  <1> HIDE DEF r
  <1> DEFINE f == [e EXCEPT !.rows = r, !.dirty = TRUE]
  <1>4. f \in Editors /\ f.rows = r /\ f.cx = e.cx /\ f.cy = e.cy
    BY <1>3, RowsSet
  <1>5. SetRow(e, y, s) = f
    BY DEF SetRow, r
  <1> HIDE DEF f
  <1>6. numrows(f) = Len(r)
    BY <1>4 DEF numrows
  <1> QED
    BY <1>1, <1>3, <1>4, <1>5, <1>6

LEMMA RowDeleted ==
  ASSUME NEW e \in Editors, NEW y \in 0 .. numrows(e) - 1
  PROVE  LET f == editorDelRow(e, y)
         IN  /\ f \in Editors /\ f.cx = e.cx /\ f.cy = e.cy
             /\ numrows(f) = numrows(e) - 1
             /\ \A k \in 1 .. y : f.rows[k] = e.rows[k]
  <1> DEFINE r == RemoveAt(e.rows, y + 1)
  <1>1. e.rows \in Seq(Seq(Chars)) /\ numrows(e) \in Nat /\ numrows(e) = Len(e.rows)
    BY Fields DEF Rows, numrows
  <1>2. y + 1 \in 1 .. Len(e.rows) /\ (y + 1) - 1 = y
    BY <1>1
  <1>3. /\ r \in Rows /\ Len(r) = Len(e.rows) - 1
        /\ \A k \in 1 .. y : r[k] = e.rows[k]
    BY <1>1, <1>2, Removed DEF Rows
  <1> HIDE DEF r
  <1> DEFINE f == [e EXCEPT !.rows = r, !.dirty = TRUE]
  <1>4. f \in Editors /\ f.rows = r /\ f.cx = e.cx /\ f.cy = e.cy
    BY <1>3, RowsSet
  <1>5. editorDelRow(e, y) = f
    BY DEF editorDelRow, r
  <1> HIDE DEF f
  <1>6. numrows(f) = Len(r)
    BY <1>4 DEF numrows
  <1> QED
    BY <1>1, <1>3, <1>4, <1>5, <1>6

-----------------------------------------------------------------------------
(* Every operation keeps the cursor in the text. *)

Inside(e) == e \in Editors /\ InText(e)

LEMMA InsertCharInside ==
  ASSUME NEW e, Inside(e), NEW c \in Chars
  PROVE  Inside(editorInsertChar(e, c))
  <1>1. e \in Editors /\ e.cy <= numrows(e) /\ e.cx <= size(e, e.cy)
    BY DEF Inside, InText
  <1>2. e.cx \in Nat /\ e.cy \in Nat /\ numrows(e) \in Nat
    BY <1>1, Fields
  <1>3. CASE e.cy = numrows(e)
    <2> DEFINE f == editorInsertRow(e, e.cy, <<c>>)
    <2>1. <<c>> \in Seq(Chars) /\ Len(<<c>>) = 1
      BY Single
    <2>2. e.cy \in 0 .. numrows(e)
      BY <1>2, <1>3
    <2>3. /\ f \in Editors /\ f.cx = e.cx /\ f.cy = e.cy
          /\ numrows(f) = numrows(e) + 1 /\ f.rows[e.cy + 1] = <<c>>
      BY <1>1, <2>1, <2>2, RowInserted
    <2>4. e.cx = 0
      BY <1>1, <1>2, <1>3 DEF size
    <2> HIDE DEF f
    <2> DEFINE g == [f EXCEPT !.cx = 1]
    <2>5. g \in Editors /\ g.rows = f.rows /\ g.cx = 1 /\ g.cy = e.cy
      BY <2>3, ColumnSet
    <2>6. editorInsertChar(e, c) = g
      BY <1>3, <2>3, <2>4 DEF editorInsertChar, f
    <2> HIDE DEF g
    <2>7. g.cy <= numrows(g) /\ size(g, g.cy) = 1
      <3>1. numrows(g) = numrows(e) + 1 /\ g.rows[e.cy + 1] = <<c>>
        BY <2>3, <2>5 DEF numrows
      <3>2. g.cy < numrows(g)
        BY <1>2, <1>3, <2>5, <3>1
      <3> QED
        BY <1>2, <2>1, <2>5, <3>1, <3>2 DEF size
    <2> QED
      BY <2>5, <2>6, <2>7 DEF Inside, InText
  <1>4. CASE e.cy # numrows(e)
    <2> DEFINE row == e.rows[e.cy + 1]
               s == InsertAt(row, e.cx + 1, c)
               f == SetRow(e, e.cy, s)
    <2>1. e.cy \in 0 .. numrows(e) - 1
      BY <1>1, <1>2, <1>4
    <2>2. row \in Seq(Chars) /\ e.cx <= Len(row) /\ Len(row) \in Nat
      BY <1>1, <2>1, Fields
    <2>3. e.cx + 1 \in 1 .. Len(row) + 1
      BY <1>2, <2>2
    <2>4. s \in Seq(Chars) /\ Len(s) = Len(row) + 1
      BY <2>2, <2>3, Inserted
    <2> HIDE DEF row, s
    <2>5. /\ f \in Editors /\ f.cx = e.cx /\ f.cy = e.cy
          /\ numrows(f) = numrows(e) /\ f.rows[e.cy + 1] = s
      BY <1>1, <2>1, <2>4, RowSet
    <2> HIDE DEF f
    <2> DEFINE g == [f EXCEPT !.cx = e.cx + 1]
    <2>6. g \in Editors /\ g.rows = f.rows /\ g.cx = e.cx + 1 /\ g.cy = e.cy
      <3>1. e.cx + 1 \in Nat
        BY <1>2
      <3> QED
        BY <2>5, <3>1, ColumnSet
    <2>7. editorInsertChar(e, c) = g
      BY <1>4, <2>5 DEF editorInsertChar, editorRowInsertChar, f, s, row
    <2> HIDE DEF g
    <2>8. g.cy <= numrows(g) /\ size(g, g.cy) = Len(s)
      BY <1>1, <1>2, <2>1, <2>5, <2>6 DEF size, numrows
    <2> QED
      BY <1>2, <2>2, <2>4, <2>6, <2>7, <2>8 DEF Inside, InText
  <1> QED
    BY <1>3, <1>4

LEMMA NewlineInside ==
  ASSUME NEW e, Inside(e)
  PROVE  Inside(editorInsertNewline(e))
  <1>1. e \in Editors /\ e.cy <= numrows(e) /\ e.cx <= size(e, e.cy)
    BY DEF Inside, InText
  <1>2. e.cx \in Nat /\ e.cy \in Nat /\ numrows(e) \in Nat
    BY <1>1, Fields
  <1> DEFINE f == IF e.cx = 0 THEN editorInsertRow(e, e.cy, << >>) ELSE SplitRow(e)
  <1>3. f \in Editors /\ f.cy = e.cy /\ numrows(f) = numrows(e) + 1
    <2>1. CASE e.cx = 0
      <3>1. << >> \in Seq(Chars) /\ e.cy \in 0 .. numrows(e)
        BY <1>1, <1>2, EmptySeq
      <3> DEFINE h == editorInsertRow(e, e.cy, << >>)
      <3>2. h \in Editors /\ h.cy = e.cy /\ numrows(h) = numrows(e) + 1
        BY <1>1, <3>1, RowInserted
      <3>3. f = h
        BY <2>1
      <3> HIDE DEF h, f
      <3> QED
        BY <3>2, <3>3
    <2>2. CASE e.cx # 0
      <3> DEFINE row == e.rows[e.cy + 1]
                 above == SubSeq(row, 1, e.cx)
                 below == SubSeq(row, e.cx + 1, Len(row))
                 g == editorInsertRow(e, e.cy + 1, below)
      <3>1. e.cy < numrows(e)
        BY <1>1, <1>2, <2>2 DEF size
      <3>2. row \in Seq(Chars) /\ Len(row) \in Nat /\ e.cx <= Len(row)
        <4>1. e.cy \in 0 .. numrows(e) - 1
          BY <1>2, <3>1
        <4>2. row \in Seq(Chars) /\ size(e, e.cy) = Len(row) /\ size(e, e.cy) \in Nat
          BY <1>1, <4>1, Fields
        <4> QED
          BY <1>1, <4>2
      <3>3. above \in Seq(Chars) /\ below \in Seq(Chars)
        BY <1>2, <3>2, Part
      <3> HIDE DEF above, below
      <3>4. e.cy + 1 \in 0 .. numrows(e)
        BY <1>2, <3>1
      <3>5. g \in Editors /\ g.cy = e.cy /\ numrows(g) = numrows(e) + 1
        BY <1>1, <3>3, <3>4, RowInserted
      <3> HIDE DEF g
      <3>6. e.cy \in 0 .. numrows(g) - 1
        BY <1>2, <3>1, <3>5
      <3>7. LET h == SetRow(g, e.cy, above)
            IN  h \in Editors /\ h.cy = g.cy /\ numrows(h) = numrows(g)
        BY <3>3, <3>5, <3>6, RowSet
      <3>8. SplitRow(e) = SetRow(g, e.cy, above)
        BY DEF SplitRow, g, above, below
      <3> QED
        BY <2>2, <3>5, <3>7, <3>8
    <2> QED
      BY <2>1, <2>2
  <1>4. editorInsertNewline(e) = [f EXCEPT !.cy = @ + 1, !.cx = 0]
    BY DEF editorInsertNewline
  <1> HIDE DEF f
  <1> DEFINE g == [f EXCEPT !.cy = e.cy + 1, !.cx = 0]
  <1>5. g \in Editors /\ g.rows = f.rows /\ g.cx = 0 /\ g.cy = e.cy + 1
    <2> DEFINE y == e.cy + 1
    <2>1. y \in Nat /\ 0 \in Nat
      BY <1>2
    <2> HIDE DEF y
    <2>2. LET h == Placed(f, 0, y)
          IN  h \in Editors /\ h.rows = f.rows /\ h.cx = 0 /\ h.cy = y
      BY <1>3, <2>1, PlaceSet
    <2>3. g = Placed(f, 0, y)
      BY DEF y, Placed
    <2> HIDE DEF g
    <2> QED
      BY <2>2, <2>3 DEF y
  <1>6. editorInsertNewline(e) = g
    BY <1>3, <1>4
  <1> HIDE DEF g
  <1>7. numrows(g) = numrows(e) + 1
    BY <1>3, <1>5 DEF numrows
  <1>8. size(g, g.cy) \in Nat
    BY <1>2, <1>5, Fields
  <1> QED
    BY <1>1, <1>2, <1>5, <1>6, <1>7, <1>8 DEF Inside, InText

LEMMA DelCharInside ==
  ASSUME NEW e, Inside(e)
  PROVE  Inside(editorDelChar(e))
  <1>1. e \in Editors /\ e.cy <= numrows(e) /\ e.cx <= size(e, e.cy)
    BY DEF Inside, InText
  <1>2. e.cx \in Nat /\ e.cy \in Nat /\ numrows(e) \in Nat
    BY <1>1, Fields
  <1>3. CASE e.cy = numrows(e) \/ (e.cx = 0 /\ e.cy = 0)
    <2>1. editorDelChar(e) = e
      <3>1. ~(e.cy # numrows(e) /\ e.cx > 0) /\ (e.cx > 0 => e.cy # numrows(e))
        BY <1>1, <1>2, <1>3 DEF size
      <3> QED
        BY <1>3, <3>1 DEF editorDelChar
    <2> QED
      BY <2>1
  <1>4. CASE e.cy # numrows(e) /\ e.cx > 0
    <2> DEFINE row == e.rows[e.cy + 1]
               s == RemoveAt(row, (e.cx - 1) + 1)
               f == SetRow(e, e.cy, s)
    <2>1. e.cy \in 0 .. numrows(e) - 1
      BY <1>1, <1>2, <1>4
    <2>2. row \in Seq(Chars) /\ Len(row) \in Nat /\ e.cx <= Len(row)
      BY <1>1, <2>1, Fields
    <2>3. (e.cx - 1) + 1 \in 1 .. Len(row) /\ e.cx - 1 \in Nat
      BY <1>2, <1>4, <2>2
    <2>4. s \in Seq(Chars) /\ Len(s) = Len(row) - 1
      BY <2>2, <2>3, Removed
    <2> HIDE DEF row, s
    <2>5. /\ f \in Editors /\ f.cx = e.cx /\ f.cy = e.cy
          /\ numrows(f) = numrows(e) /\ f.rows[e.cy + 1] = s
      BY <1>1, <2>1, <2>4, RowSet
    <2> HIDE DEF f
    <2> DEFINE g == [f EXCEPT !.cx = e.cx - 1]
    <2>6. g \in Editors /\ g.rows = f.rows /\ g.cx = e.cx - 1 /\ g.cy = e.cy
      BY <2>3, <2>5, ColumnSet
    <2>7. editorDelChar(e) = g
      <3>1. editorDelChar(e) = [editorRowDelChar(e, e.cy, e.cx - 1) EXCEPT !.cx = @ - 1]
        BY <1>2, <1>4 DEF editorDelChar
      <3>2. editorRowDelChar(e, e.cy, e.cx - 1) = f
        BY DEF editorRowDelChar, f, s, row
      <3> QED
        BY <2>5, <3>1, <3>2
    <2> HIDE DEF g
    <2>8. g.cy <= numrows(g) /\ size(g, g.cy) = Len(s)
      BY <1>1, <1>2, <2>1, <2>5, <2>6 DEF size, numrows
    <2> QED
      BY <1>2, <2>2, <2>4, <2>6, <2>7, <2>8 DEF Inside, InText
  <1>5. CASE e.cy # numrows(e) /\ e.cx = 0 /\ e.cy # 0
    <2> DEFINE y == e.cy - 1
               row == e.rows[y + 1]
               s == row \o e.rows[e.cy + 1]
               f == SetRow(e, y, s)
               d == editorDelRow(f, e.cy)
    <2>1. y \in 0 .. numrows(e) - 1 /\ e.cy \in 0 .. numrows(e) - 1 /\ y + 1 = e.cy /\ y \in Nat
      BY <1>1, <1>2, <1>5
    <2>2. /\ row \in Seq(Chars) /\ e.rows[e.cy + 1] \in Seq(Chars)
          /\ Len(row) \in Nat /\ Len(e.rows[e.cy + 1]) \in Nat /\ size(e, y) = Len(row)
      BY <1>1, <2>1, Fields
    <2>3. s \in Seq(Chars) /\ Len(s) = Len(row) + Len(e.rows[e.cy + 1])
      BY <2>2, ConcatProperties
    <2>4. JoinRows(e) = [d EXCEPT !.cx = size(e, y), !.cy = @ - 1]
      BY DEF JoinRows, EndOfPrevious, editorRowAppendString
    <2> HIDE DEF y, row, s
    <2>5. /\ f \in Editors /\ f.cx = e.cx /\ f.cy = e.cy
          /\ numrows(f) = numrows(e) /\ f.rows[y + 1] = s
      BY <1>1, <2>1, <2>3, RowSet
    <2> HIDE DEF f
    <2>6. /\ d \in Editors /\ d.cx = f.cx /\ d.cy = f.cy
          /\ numrows(d) = numrows(f) - 1
          /\ \A k \in 1 .. e.cy : d.rows[k] = f.rows[k]
      <3>1. e.cy \in 0 .. numrows(f) - 1
        BY <2>1, <2>5
      <3> QED
        BY <2>5, <3>1, RowDeleted
    <2>7. d.rows[y + 1] = s
      BY <1>2, <2>1, <2>5, <2>6
    <2> HIDE DEF d
    <2> DEFINE g == [d EXCEPT !.cy = y, !.cx = size(e, y)]
    <2>8. g \in Editors /\ g.rows = d.rows /\ g.cx = size(e, y) /\ g.cy = y
      <3> DEFINE x == size(e, y)
      <3>2. x \in Nat /\ y \in Nat
        BY <2>1, <2>2
      <3> HIDE DEF x
      <3>3. LET h == Placed(d, x, y)
            IN  h \in Editors /\ h.rows = d.rows /\ h.cx = x /\ h.cy = y
        BY <2>6, <3>2, PlaceSet
      <3>4. g = Placed(d, x, y)
        BY DEF x, Placed
      <3> HIDE DEF g
      <3> QED
        BY <3>3, <3>4 DEF x
    <2>9. editorDelChar(e) = g
      <3>1. editorDelChar(e) = JoinRows(e)
        BY <1>5 DEF editorDelChar
      <3>2. d.cy - 1 = y
        BY <2>5, <2>6 DEF y
      <3> DEFINE x == size(e, y)
      <3>3. x \in Nat /\ y \in Nat
        BY <2>1, <2>2
      <3>4. JoinRows(e) = [d EXCEPT !.cx = x, !.cy = y]
        BY <2>4, <3>2
      <3> HIDE DEF x
      <3>5. [d EXCEPT !.cx = x, !.cy = y] = Placed(d, x, y)
        BY <2>6, PlaceSetEitherWay
      <3> QED
        BY <3>1, <3>4, <3>5 DEF x, Placed
    <2> HIDE DEF g
    <2>10. y < numrows(g) /\ size(g, y) = Len(s)
      <3>1. numrows(g) = numrows(e) - 1 /\ g.rows[y + 1] = s
        BY <2>5, <2>6, <2>7, <2>8 DEF numrows
      <3>2. y < numrows(g)
        BY <1>2, <2>1, <3>1
      <3> QED
        BY <3>1, <3>2 DEF size
    <2> QED
      <3>1. g.cy <= numrows(g)
        BY <2>1, <2>8, <2>10, Fields
      <3>2. size(e, y) <= Len(s)
        BY <2>2, <2>3
      <3>3. g.cx <= size(g, g.cy)
        BY <2>8, <2>10, <3>2
      <3> QED
        BY <2>8, <2>9, <3>1, <3>3 DEF Inside, InText
  <1> QED
    BY <1>2, <1>3, <1>4, <1>5

-----------------------------------------------------------------------------
(* The cursor and the window. *)

\* A move changes neither the text nor leaves its lines; it may pass the end of a row.
LEMMA MovedInLines ==
  ASSUME NEW e, Inside(e), NEW k
  PROVE  Moved(e, k) \in Editors /\ Moved(e, k).rows = e.rows /\ Moved(e, k).cy <= numrows(e)
  <1>1. e \in Editors /\ e.cy <= numrows(e) /\ e.cx <= size(e, e.cy)
    BY DEF Inside, InText
  <1>2. e.cx \in Nat /\ e.cy \in Nat /\ numrows(e) \in Nat
    BY <1>1, Fields
  <1> DEFINE leftIn == k = "left" /\ e.cx > 0
             leftUp == k = "left" /\ e.cx = 0 /\ e.cy > 0
             rightIn == k = "right" /\ e.cy < numrows(e) /\ e.cx < size(e, e.cy)
             rightDown == k = "right" /\ e.cy < numrows(e) /\ e.cx = size(e, e.cy)
             up == k = "up" /\ e.cy > 0
             down == k = "down" /\ e.cy < numrows(e)
  <1>3. /\ leftIn => ~leftUp
        /\ rightIn => ~rightDown
        /\ leftIn \/ leftUp => ~rightIn /\ ~rightDown /\ ~up /\ ~down
        /\ rightIn \/ rightDown => ~up /\ ~down
        /\ up => ~down
    <2>1. size(e, e.cy) \in Nat
      BY <1>1, <1>2, Fields
    <2>2. (leftIn => ~leftUp) /\ (rightIn => ~rightDown)
      BY ONLY <1>2, <2>1
    <2> QED
      BY ONLY <2>2
  <1>4. Moved(e, k) = CASE leftIn -> [e EXCEPT !.cx = e.cx - 1]
                        [] leftUp -> [e EXCEPT !.cy = e.cy - 1, !.cx = size(e, e.cy - 1)]
                        [] rightIn -> [e EXCEPT !.cx = e.cx + 1]
                        [] rightDown -> [e EXCEPT !.cy = e.cy + 1, !.cx = 0]
                        [] up -> [e EXCEPT !.cy = e.cy - 1]
                        [] down -> [e EXCEPT !.cy = e.cy + 1]
                        [] OTHER -> e
    BY DEF Moved
  <1>5. leftIn => e.cx - 1 \in Nat
    BY <1>2
  <1>6. leftUp \/ up => e.cy - 1 \in Nat /\ e.cy - 1 <= numrows(e)
    BY <1>1, <1>2
  <1>7. leftUp => size(e, e.cy - 1) \in Nat
    BY <1>1, <1>6, Fields
  <1>8. rightDown \/ down => e.cy + 1 \in Nat /\ e.cy + 1 <= numrows(e)
    BY <1>2
  <1>9. e.cx + 1 \in Nat /\ 0 \in Nat
    BY <1>2
  <1> HIDE DEF leftIn, leftUp, rightIn, rightDown, up, down
  <1>10. CASE leftIn
    <2>1. Moved(e, k) = [e EXCEPT !.cx = e.cx - 1]
      BY ONLY <1>3, <1>4, <1>10
    <2> QED
      BY <1>1, <1>5, <1>10, <2>1, ColumnSet
  <1>11. CASE leftUp
    <2>1. Moved(e, k) = Placed(e, size(e, e.cy - 1), e.cy - 1)
      BY ONLY <1>3, <1>4, <1>11 DEF Placed
    <2> DEFINE y == e.cy - 1
               x == size(e, y)
    <2>2. x \in Nat /\ y \in Nat /\ y <= numrows(e)
      BY <1>6, <1>7, <1>11
    <2>3. Moved(e, k) = Placed(e, x, y)
      BY <2>1
    <2> HIDE DEF x, y
    <2> QED
      BY <1>1, <2>2, <2>3, PlaceSet
  <1>12. CASE rightIn
    <2>1. Moved(e, k) = [e EXCEPT !.cx = e.cx + 1]
      BY ONLY <1>3, <1>4, <1>12
    <2> QED
      BY <1>1, <1>9, <2>1, ColumnSet
  <1>13. CASE rightDown
    <2>1. Moved(e, k) = Placed(e, 0, e.cy + 1)
      BY ONLY <1>3, <1>4, <1>13 DEF Placed
    <2> DEFINE y == e.cy + 1
    <2>2. 0 \in Nat /\ y \in Nat /\ y <= numrows(e)
      BY <1>8, <1>9, <1>13
    <2>3. Moved(e, k) = Placed(e, 0, y)
      BY <2>1
    <2> HIDE DEF y
    <2> QED
      BY <1>1, <2>2, <2>3, PlaceSet
  <1>14. CASE up
    <2>1. Moved(e, k) = [e EXCEPT !.cy = e.cy - 1]
      BY ONLY <1>3, <1>4, <1>14
    <2> QED
      BY <1>1, <1>6, <1>14, <2>1, LineSet
  <1>15. CASE down
    <2>1. Moved(e, k) = [e EXCEPT !.cy = e.cy + 1]
      BY ONLY <1>3, <1>4, <1>15
    <2> QED
      BY <1>1, <1>8, <1>15, <2>1, LineSet
  <1>16. CASE ~(leftIn \/ leftUp \/ rightIn \/ rightDown \/ up \/ down)
    <2>1. Moved(e, k) = e
      BY ONLY <1>4, <1>16
    <2> QED
      BY <1>1, <2>1
  <1> QED
    BY <1>10, <1>11, <1>12, <1>13, <1>14, <1>15, <1>16

LEMMA MoveInside ==
  ASSUME NEW e, Inside(e), NEW k
  PROVE  Inside(editorMoveCursor(e, k))
  <1> DEFINE m == Moved(e, k)
             x == size(m, m.cy)
             f == [m EXCEPT !.cx = x]
  <1>1. m \in Editors /\ m.cy <= numrows(m)
    BY MovedInLines DEF numrows
  <1>2. editorMoveCursor(e, k) = IF m.cx > x THEN f ELSE m
    BY DEF editorMoveCursor, Snapped
  <1> HIDE DEF m
  <1>3. m.cx \in Nat /\ m.cy \in Nat /\ x \in Nat
    BY <1>1, Fields
  <1>4. CASE m.cx > x
    <2> HIDE DEF x
    <2>1. f \in Editors /\ f.rows = m.rows /\ f.cx = x /\ f.cy = m.cy
      BY <1>1, <1>3, ColumnSet
    <2> HIDE DEF f
    <2>2. numrows(f) = numrows(m) /\ size(f, f.cy) = x
      BY <2>1 DEF numrows, size, x
    <2>3. Inside(f)
      BY <1>1, <1>3, <2>1, <2>2 DEF Inside, InText
    <2> QED
      BY <1>2, <1>4, <2>3
  <1>5. CASE ~(m.cx > x)
    <2>1. Inside(m)
      BY <1>1, <1>3, <1>5 DEF Inside, InText
    <2> QED
      BY <1>2, <1>5, <2>1
  <1> QED
    BY <1>4, <1>5

Visible(e) == /\ e.rowoff <= e.cy /\ e.cy < e.rowoff + ScreenRows
              /\ e.coloff <= e.cx /\ e.cx < e.coloff + ScreenCols

\* A window of n lines is moved to where it shows c.
LEMMA OffsetShows ==
  ASSUME NEW c \in Nat, NEW off \in Nat, NEW n \in Nat \ {0}
  PROVE  Offset(c, off, n) \in Nat /\ Offset(c, off, n) <= c /\ c < Offset(c, off, n) + n
  BY DEF Offset

Framed(e, r, c) == [e EXCEPT !.rowoff = r, !.coloff = c]

LEMMA FrameSet ==
  ASSUME NEW e \in Editors, NEW r \in Nat, NEW c \in Nat
  PROVE  /\ Framed(e, r, c) \in Editors /\ Framed(e, r, c).rows = e.rows
         /\ Framed(e, r, c).cx = e.cx /\ Framed(e, r, c).cy = e.cy
         /\ Framed(e, r, c).rowoff = r /\ Framed(e, r, c).coloff = c
  BY DEF Editors, Framed

LEMMA ScrollShows ==
  ASSUME NEW e, Inside(e)
  PROVE  Inside(editorScroll(e)) /\ Visible(editorScroll(e))
  <1> DEFINE r == Offset(e.cy, e.rowoff, ScreenRows)
             c == Offset(e.cx, e.coloff, ScreenCols)
             f == Framed(e, r, c)
  <1>1. e \in Editors /\ InText(e)
    BY DEF Inside
  <1>2. e.cx \in Nat /\ e.cy \in Nat /\ e.rowoff \in Nat /\ e.coloff \in Nat
    BY <1>1, Fields
  <1>3. r \in Nat /\ r <= e.cy /\ e.cy < r + ScreenRows
    BY <1>2, SizesAssumption, OffsetShows
  <1>4. c \in Nat /\ c <= e.cx /\ e.cx < c + ScreenCols
    BY <1>2, SizesAssumption, OffsetShows
  <1>5. editorScroll(e) = f
    BY DEF editorScroll, Framed
  <1> HIDE DEF r, c
  <1>6. /\ f \in Editors /\ f.rows = e.rows /\ f.cx = e.cx /\ f.cy = e.cy
        /\ f.rowoff = r /\ f.coloff = c
    BY <1>1, <1>3, <1>4, FrameSet
  <1> HIDE DEF f
  <1>7. InText(f)
    BY <1>1, <1>6 DEF InText, size, numrows
  <1> QED
    BY <1>3, <1>4, <1>5, <1>6, <1>7 DEF Inside, Visible

LEMMA ClearedInside == Inside(Cleared) /\ Cleared.rows = << >>
  <1>1. << >> \in Seq(Seq(Chars)) /\ Len(<< >>) = 0
    BY EmptySeq
  <1>2. Cleared \in Editors
    BY <1>1 DEF Cleared, Editors
  <1>3. Cleared.rows = << >> /\ Cleared.cx = 0 /\ Cleared.cy = 0
    BY DEF Cleared
  <1> QED
    BY <1>1, <1>2, <1>3 DEF Inside, InText, numrows, size

-----------------------------------------------------------------------------
(* Reading the file. *)

\* A set of numbers has a least one.
LEMMA Least ==
  ASSUME NEW T, T \subseteq Nat, T # {}
  PROVE  \E n \in T : \A m \in T : n <= m
  <1>1. PICK n \in T : \A m \in T : <<m, n>> \notin OpToRel(<, Nat)
    BY NatLessThanWellFounded, WFMin
  <1>2. ASSUME NEW m \in T
        PROVE  n <= m
    <2>1. m \in Nat /\ n \in Nat
      BY <1>1, <1>2
    <2>2. m < n => <<m, n>> \in OpToRel(<, Nat)
      BY <2>1, Zenon DEF OpToRel
    <2>3. ~(m < n)
      BY <1>1, <2>2, Zenon
    <2> QED
      BY ONLY <2>1, <2>3
  <1> QED
    BY <1>2

\* A chunk goes on where the last one ended and has at most one line end, behind all else.
LEMMA ChunkIs ==
  ASSUME file \in Texts, i \in Nat, i < Len(file)
  PROVE  /\ Len(Chunk) \in Nat /\ Chunk # << >> /\ i + Len(Chunk) <= Len(file)
         /\ SubSeq(file, 1, i + Len(Chunk)) = SubSeq(file, 1, i) \o Chunk
         /\ WithoutLast(Chunk, LF) \in Seq(Chars)
         /\ Last(Chunk) = LF => Chunk = WithoutLast(Chunk, LF) \o <<LF>>
         /\ Last(Chunk) # LF => Chunk = WithoutLast(Chunk, LF)
  <1> DEFINE S == Chars \cup {LF}
             rest == SubSeq(file, i + 1, Len(file))
             ends == {m \in DOMAIN rest : rest[m] = LF \/ m = ChunkSize \/ m = Len(rest)}
             n == CHOOSE x \in ends : \A m \in ends : x <= m
             chunk == SubSeq(rest, 1, n)
             next == SubSeq(file, i + 1, i + n)
  <1>1. Len(file) \in Nat /\ file \in Seq(S)
    BY LenProperties DEF Texts
  <1>2. /\ rest \in Seq(S) /\ Len(rest) = Len(file) - i
        /\ \A k \in 1 .. Len(file) - i : rest[k] = file[i + k]
    <2>1. i + 1 \in Int /\ Len(file) \in Int /\ 1 <= i + 1 /\ i + 1 <= Len(file)
      BY <1>1
    <2> HIDE DEF S
    <2>2. /\ rest \in Seq(S) /\ Len(rest) = IF i + 1 <= Len(file) THEN Len(file) - (i + 1) + 1 ELSE 0
          /\ \A k \in 1 .. Len(file) - (i + 1) + 1 : rest[k] = file[(i + 1) + k - 1]
      BY <1>1, <2>1, Part
    <2> HIDE DEF rest
    <2>3. \A k \in 1 .. Len(file) - i : k \in 1 .. Len(file) - (i + 1) + 1 /\ (i + 1) + k - 1 = i + k
      BY <1>1
    <2>4. Len(rest) = Len(file) - i
      BY <1>1, <2>1, <2>2
    <2> QED
      BY <2>2, <2>3, <2>4
  <1>3. Chunk = chunk
    BY DEF Chunk
  <1> HIDE DEF rest
  <1>4. Len(rest) \in Nat \ {0} /\ DOMAIN rest = 1 .. Len(rest)
    BY <1>1, <1>2, LenProperties
  <1>5. ends \subseteq Nat /\ Len(rest) \in ends
    BY <1>4
  <1>6. n \in ends /\ \A m \in ends : n <= m
    BY <1>5, Least
  <1>7. n \in 1 .. Len(rest) /\ n \in Nat /\ n # 0
    BY <1>4, <1>6
  <1>8. \A k \in 1 .. n - 1 : rest[k] \in Chars
    <2> TAKE k \in 1 .. n - 1
    <2>1. k \in 1 .. Len(rest) /\ ~(n <= k)
      BY <1>4, <1>7
    <2>2. rest[k] # LF
      BY <1>4, <1>6, <2>1
    <2>3. rest[k] \in S
      BY <1>2, <2>1, ElementOfSeq
    <2> QED
      BY <2>2, <2>3
  <1> HIDE DEF n
  <1>9. /\ chunk \in Seq(S) /\ Len(chunk) = n
        /\ \A k \in 1 .. n : chunk[k] = rest[k]
    BY <1>2, <1>4, <1>7, Part
  <1> HIDE DEF chunk
  <1>10. i + n <= Len(file) /\ chunk # << >>
    BY <1>1, <1>2, <1>7, <1>9, EmptySeq
  <1>11. SubSeq(file, 1, i + n) = SubSeq(file, 1, i) \o chunk
    <2>1. i + 1 \in Int /\ i + n \in Int /\ 1 <= i + 1 /\ i + n <= Len(file)
      BY <1>7, <1>10
    <2> HIDE DEF S
    <2>2. /\ next \in Seq(S) /\ Len(next) = IF i + 1 <= i + n THEN (i + n) - (i + 1) + 1 ELSE 0
          /\ \A k \in 1 .. (i + n) - (i + 1) + 1 : next[k] = file[(i + 1) + k - 1]
      BY <1>1, <2>1, Part
    <2> HIDE DEF next
    <2>3. Len(next) = n
      BY <1>7, <2>2
    <2>4. \A k \in 1 .. n : k \in 1 .. (i + n) - (i + 1) + 1 /\ (i + 1) + k - 1 = i + k /\ k \in 1 .. Len(file) - i
      BY <1>1, <1>7, <1>10
    <2>5. \A k \in 1 .. n : next[k] = chunk[k]
      BY <1>2, <1>9, <2>2, <2>4
    <2>6. next = chunk
      BY <1>9, <2>2, <2>3, <2>5, SeqEqual
    <2>7. 1 \in 1 .. Len(file) + 1 /\ i \in 1 - 1 .. Len(file) /\ i + n \in i .. Len(file)
      BY <1>1, <1>7, <1>10
    <2>8. SubSeq(file, 1, i) \o SubSeq(file, i + 1, i + n) = SubSeq(file, 1, i + n)
      BY <1>1, <2>7, ConcatAdjacentSubSeq
    <2> QED
      BY <2>6, <2>8 DEF next
  <1>12. CASE rest[n] = LF
    <2>1. chunk # << >> /\ Last(chunk) = LF
      BY <1>7, <1>9, <1>10, <1>12 DEF Last
    <2>2. WithoutLast(chunk, LF) = SubSeq(chunk, 1, n - 1) /\ WithoutLast(chunk, LF) = Front(chunk)
      BY <1>9, <2>1 DEF WithoutLast, Front
    <2>3. \A k \in 1 .. n - 1 : chunk[k] \in Chars
      BY <1>7, <1>8, <1>9
    <2>4. SubSeq(chunk, 1, n - 1) \in Seq(Chars)
      BY <1>7, <2>3, SubSeqProperties
    <2>5. chunk = Append(Front(chunk), Last(chunk)) /\ Front(chunk) \in Seq(S) /\ LF \in S
      <3>1. LF \in S
        OBVIOUS
      <3> HIDE DEF S
      <3> QED
        BY <1>9, <2>1, <3>1, FrontAndLast
    <2>6. Append(Front(chunk), LF) = Front(chunk) \o <<LF>>
      BY <2>5, AppendIsConcat
    <2>7. chunk = WithoutLast(chunk, LF) \o <<LF>>
      BY <2>1, <2>2, <2>5, <2>6
    <2> HIDE DEF S
    <2> QED
      BY ONLY <1>3, <1>7, <1>9, <1>10, <1>11, <2>1, <2>2, <2>4, <2>7
  <1>13. CASE rest[n] # LF
    <2>1. Last(chunk) # LF
      BY <1>7, <1>9, <1>13 DEF Last
    <2>2. WithoutLast(chunk, LF) = chunk
      BY <2>1 DEF WithoutLast
    <2>3. \A k \in 1 .. n : rest[k] \in Chars
      <3>1. rest[n] \in S
        BY <1>2, <1>7, ElementOfSeq
      <3> QED
        BY <1>7, <1>8, <1>13, <3>1
    <2>4. chunk \in Seq(Chars)
      BY <1>7, <2>3, SubSeqProperties DEF chunk
    <2> HIDE DEF S
    <2> QED
      BY ONLY <1>3, <1>7, <1>9, <1>10, <1>11, <2>1, <2>2, <2>4
  <1> QED
    BY <1>12, <1>13

\* The loop has not moved the cursor or the window.
AtStart(e) == e.cx = 0 /\ e.cy = 0 /\ e.rowoff = 0 /\ e.coloff = 0

LEMMA AtStartInside ==
  ASSUME NEW e \in Editors, AtStart(e)
  PROVE  Inside(e) /\ Visible(e)
  <1>1. numrows(e) \in Nat /\ size(e, 0) \in Nat
    BY Fields
  <1> QED
    BY <1>1, SizesAssumption DEF AtStart, Inside, InText, Visible

\* A chunk adds a row or lengthens the last one.
LEMMA ChunkLoaded ==
  ASSUME file \in Texts, i \in Nat, i < Len(file), E \in Editors, AtStart(E),
         continuing => E.rows # << >>, LoadChunk
  PROVE  E' \in Editors /\ AtStart(E') /\ E'.rows # << >> /\ i' \in Nat
  <1> DEFINE complete == Last(Chunk) = LF
             line == WithoutLast(Chunk, LF)
             row == IF Joins THEN Last(E.rows) \o line ELSE line
             earlier == IF Joins THEN Front(E.rows) ELSE E.rows
             last == IF complete THEN WithoutLast(row, CR) ELSE row
             r == Append(earlier, last)
  <1>1. Len(Chunk) \in Nat /\ line \in Seq(Chars)
    BY ChunkIs
  <1>2. E.rows \in Seq(Seq(Chars)) /\ Len(E.rows) \in Nat
    BY Fields, LenProperties DEF Rows
  <1>3. row \in Seq(Chars) /\ earlier \in Seq(Seq(Chars))
    <2>1. CASE Joins
      <3>1. Len(E.rows) \in 1 .. Len(E.rows)
        BY <1>2, <2>1, EmptySeq DEF Joins
      <3>2. Last(E.rows) \in Seq(Chars)
        BY <1>2, <3>1, ElementOfSeq DEF Last
      <3>3. Last(E.rows) \o line \in Seq(Chars)
        BY <1>1, <3>2, ConcatProperties
      <3>4. Front(E.rows) \in Seq(Seq(Chars))
        BY <1>2, Part DEF Front
      <3> QED
        BY <2>1, <3>3, <3>4
    <2>2. CASE ~Joins
      BY <1>1, <1>2, <2>2
    <2> QED
      BY <2>1, <2>2
  <1>4. E' = [E EXCEPT !.rows = r, !.dirty = TRUE] /\ i' = i + Len(Chunk)
    BY DEF LoadChunk
  <1> HIDE DEF row, earlier
  <1>5. last \in Seq(Chars)
    BY <1>3, Stripped
  <1> HIDE DEF last
  <1>6. r \in Rows /\ r # << >>
    <2> DEFINE S == Seq(Chars)
    <2>1. earlier \in Seq(S) /\ last \in S
      BY <1>3, <1>5
    <2> HIDE DEF S
    <2>2. Append(earlier, last) \in Seq(S) /\ Append(earlier, last) # << >>
      BY <2>1
    <2> QED
      BY <2>2 DEF S, Rows
  <1> HIDE DEF r
  <1>7. /\ E' \in Editors /\ E'.rows = r /\ E'.cx = E.cx /\ E'.cy = E.cy
        /\ E'.rowoff = E.rowoff /\ E'.coloff = E.coloff
    BY <1>4, <1>6, RowsSet
  <1> QED
    BY <1>1, <1>4, <1>6, <1>7 DEF AtStart

-----------------------------------------------------------------------------
(* The inductive invariant.  TypeOK and IndexesInside are not inductive: that *)
(* the rest of the text can be read or written needs the counter, that the    *)
(* cursor is seen after loading needs that loading has not moved it.          *)

Control ==
  /\ mode \in {"shell", "loading", "editing", "paging", "confirm", "saving"}
  /\ i \in Nat
  /\ key \in {"up", "down"}
  /\ file \in Texts \cup {NoFile}

Flags == continuing \in BOOLEAN /\ torn \in BOOLEAN

Loops ==
  /\ mode # "loading" => continuing = FALSE
  /\ mode \in {"shell", "editing", "confirm"} => i = 0
  /\ mode \in {"loading", "saving"} => file # NoFile
  /\ mode = "loading" => AtStart(E)
  /\ mode = "loading" /\ continuing => E.rows # << >>
  /\ mode = "saving" => i <= numrows(E)
  /\ mode \in {"editing", "confirm", "saving"} => Visible(E)

IInv == Inside(E) /\ Control /\ Flags /\ Loops

LEMMA IInvImplies == IInv => TypeOK /\ IndexesInside /\ CursorVisible
  <1> SUFFICES ASSUME IInv PROVE TypeOK /\ IndexesInside /\ CursorVisible
    OBVIOUS
  <1>1. TypeOK
    BY DEF IInv, Inside, Control, Flags, TypeOK
  <1>2. IndexesInside
    BY DEF IInv, Inside, Loops, IndexesInside
  <1>3. CursorVisible
    BY DEF IInv, Loops, Visible, CursorVisible
  <1> QED
    BY <1>1, <1>2, <1>3

LEMMA InitIInv == Init => IInv
  <1> SUFFICES ASSUME Init PROVE IInv
    OBVIOUS
  <1>1. Inside(E)
    BY ClearedInside DEF Init
  <1>2. Control
    BY TextsAssumption DEF Init, Control
  <1> QED
    BY <1>1, <1>2 DEF Init, IInv, Flags, Loops

\* A key leaves the invariant when each of its outcomes is a text with the cursor in it.
LEMMA KeyKeeps ==
  ASSUME IInv, NEW outcomes, \A e \in outcomes : Inside(e), Keypress(outcomes)
  PROVE  IInv'
  <1>1. PICK e \in outcomes : E' = editorScroll(e)
    BY DEF Keypress
  <1>2. Inside(E') /\ Visible(E')
    BY <1>1, ScrollShows
  <1>3. mode = "editing" /\ UNCHANGED <<mode, i, key, continuing, file, torn>>
    BY DEF Keypress
  <1>4. Control' /\ Flags'
    BY <1>3 DEF IInv, Control, Flags
  <1>5. Loops'
    BY <1>2, <1>3 DEF IInv, Loops, Visible
  <1> QED
    BY <1>2, <1>4, <1>5 DEF IInv, Inside, InText, numrows, size

LEMMA EveryKeyKeeps ==
  ASSUME IInv,
         \/ \E c \in Letters : InsertLetter(c)
         \/ Tab \/ Enter \/ Backspace \/ Delete \/ Home \/ End
         \/ \E k \in {"left", "right", "up", "down"} : Arrow(k)
  PROVE  IInv'
  <1>1. Inside(E)
    BY DEF IInv
  <1>2. \A e, c : Inside(e) /\ c \in Chars => \A f \in Attempts(e, editorInsertChar(e, c)) : Inside(f)
    BY InsertCharInside DEF Attempts
  <1>3. \A e : Inside(e) => \A f \in DelAttempts(e) : Inside(f)
    BY DelCharInside DEF DelAttempts, Attempts
  <1>4. ASSUME NEW c \in Letters, InsertLetter(c)
        PROVE  IInv'
    <2>1. c \in Chars
      BY DEF Chars
    <2> QED
      BY <1>1, <1>2, <1>4, <2>1, KeyKeeps DEF InsertLetter
  <1>5. CASE Tab
    <2> DEFINE outcomes == UNION {Attempts(e, editorInsertChar(e, Space)) :
                                  e \in Attempts(E, editorInsertChar(E, Space))}
    <2>1. Space \in Chars
      BY DEF Chars
    <2>2. \A f \in outcomes : Inside(f)
      BY <1>1, <1>2, <2>1
    <2>3. Keypress(outcomes)
      BY <1>5 DEF Tab
    <2> HIDE DEF outcomes
    <2> QED
      BY <2>2, <2>3, KeyKeeps
  <1>6. CASE Enter
    <2>1. \A f \in Attempts(E, editorInsertNewline(E)) : Inside(f)
      BY <1>1, NewlineInside DEF Attempts
    <2> QED
      BY <1>6, <2>1, KeyKeeps DEF Enter
  <1>7. CASE Backspace
    BY <1>1, <1>3, <1>7, KeyKeeps DEF Backspace
  <1>8. CASE Delete
    <2>1. Inside(editorMoveCursor(E, "right"))
      BY <1>1, MoveInside
    <2> QED
      BY <1>3, <1>8, <2>1, KeyKeeps DEF Delete
  <1>9. CASE Home
    <2> DEFINE f == [E EXCEPT !.cx = 0]
    <2>1. E \in Editors /\ E.cy \in Nat /\ E.cy <= numrows(E)
      BY <1>1, Fields DEF Inside, InText
    <2>2. f \in Editors /\ f.rows = E.rows /\ f.cx = 0 /\ f.cy = E.cy
      BY <2>1, ColumnSet
    <2>3. Keypress({f})
      BY <1>9 DEF Home
    <2> HIDE DEF f
    <2>4. size(f, f.cy) \in Nat
      BY <2>1, <2>2, Fields
    <2>5. f.cy <= numrows(f)
      BY <2>1, <2>2 DEF numrows
    <2>6. Inside(f)
      BY <2>2, <2>4, <2>5 DEF Inside, InText
    <2> QED
      BY <2>3, <2>6, KeyKeeps
  <1>10. CASE End
    <2> DEFINE x == size(E, E.cy)
               f == [E EXCEPT !.cx = x]
               g == IF E.cy < numrows(E) THEN f ELSE E
    <2>1. E \in Editors /\ E.cy \in Nat /\ E.cy <= numrows(E)
      BY <1>1, Fields DEF Inside, InText
    <2>2. x \in Nat
      BY <2>1, Fields
    <2>3. Keypress({g})
      BY <1>10 DEF End
    <2> HIDE DEF x
    <2>4. f \in Editors /\ f.rows = E.rows /\ f.cx = x /\ f.cy = E.cy
      BY <2>1, <2>2, ColumnSet
    <2> HIDE DEF f
    <2>5. numrows(f) = numrows(E) /\ size(f, f.cy) = x
      BY <2>4 DEF numrows, size, x
    <2>6. Inside(f)
      BY <2>1, <2>2, <2>4, <2>5 DEF Inside, InText
    <2>7. Inside(g)
      BY <1>1, <2>6
    <2> HIDE DEF g
    <2> QED
      BY <2>3, <2>7, KeyKeeps
  <1>11. ASSUME NEW k \in {"left", "right", "up", "down"}, Arrow(k)
         PROVE  IInv'
    <2>1. Inside(editorMoveCursor(E, k))
      BY <1>1, MoveInside
    <2> QED
      BY <1>11, <2>1, KeyKeeps DEF Arrow
  <1> QED
    BY <1>4, <1>5, <1>6, <1>7, <1>8, <1>9, <1>10, <1>11

\* The steps that open and read a file.
LEMMA LoadingKeeps ==
  ASSUME IInv, OpenNew \/ Open \/ LoadChunk \/ LoadEnds \/ LoadFails
  PROVE  IInv'
  <1>1. Inside(E) /\ E \in Editors
    BY DEF IInv, Inside
  <1>2. CASE OpenNew
    <2> DEFINE f == editorInsertRow(Cleared, 0, << >>)
    <2>1. Cleared \in Editors /\ AtStart(Cleared) /\ numrows(Cleared) = 0
      BY ClearedInside, EmptySeq DEF Inside, numrows, AtStart, Cleared
    <2>2. 0 \in 0 .. numrows(Cleared) /\ << >> \in Seq(Chars)
      BY <2>1, EmptySeq
    <2>3. f \in Editors /\ AtStart(f)
      BY <2>1, <2>2, RowInserted DEF AtStart
    <2>4. E' = Unmodified(f)
      BY <1>2 DEF OpenNew, Unmodified
    <2> HIDE DEF f
    <2>5. E' \in Editors /\ AtStart(E')
      BY <2>3, <2>4, CountSet DEF AtStart
    <2>6. Inside(E') /\ Visible(E')
      BY <2>5, AtStartInside
    <2>7. Control' /\ Flags'
      BY <1>2 DEF OpenNew, IInv, Control, Flags
    <2>8. Loops'
      BY <1>2, <2>6 DEF OpenNew, IInv, Loops, Visible
    <2> QED
      BY <2>6, <2>7, <2>8 DEF IInv, Inside, InText, numrows, size
  <1>3. CASE Open
    <2>1. Inside(E') /\ AtStart(E')
      BY <1>3, ClearedInside DEF Open, AtStart, Cleared
    <2>2. Control' /\ Flags'
      BY <1>3 DEF Open, IInv, Control, Flags
    <2>3. Loops'
      BY <1>3, <2>1 DEF Open, IInv, Loops, AtStart
    <2> QED
      BY <2>1, <2>2, <2>3 DEF IInv, Inside, InText, numrows, size
  <1>4. CASE LoadChunk
    <2>1. mode = "loading" /\ i < Len(file) /\ UNCHANGED <<mode, key, file, torn>>
      BY <1>4 DEF LoadChunk
    <2>2. file \in Texts /\ i \in Nat /\ AtStart(E) /\ (continuing => E.rows # << >>)
      BY <2>1 DEF IInv, Control, Loops
    <2>3. E' \in Editors /\ AtStart(E') /\ E'.rows # << >> /\ i' \in Nat
      BY <1>1, <1>4, <2>1, <2>2, ChunkLoaded
    <2>4. Inside(E')
      BY <2>3, AtStartInside
    <2>5. Control'
      BY <2>1, <2>3 DEF IInv, Control
    <2>6. Flags'
      BY <1>4 DEF LoadChunk, IInv, Flags
    <2>7. Loops'
      BY <2>1, <2>3 DEF IInv, Loops, AtStart
    <2> QED
      BY <2>4, <2>5, <2>6, <2>7 DEF IInv, Inside, InText, numrows, size
  <1>5. CASE LoadEnds
    <2>1. E' = Unmodified(E) /\ AtStart(E)
      BY <1>5 DEF LoadEnds, Unmodified, IInv, Loops
    <2>2. E' \in Editors /\ AtStart(E')
      BY <1>1, <2>1, CountSet DEF AtStart
    <2>3. Inside(E') /\ Visible(E')
      BY <2>2, AtStartInside
    <2>4. Control' /\ Flags'
      BY <1>5 DEF LoadEnds, EndLoop, IInv, Control, Flags
    <2>5. Loops'
      BY <1>5, <2>3 DEF LoadEnds, EndLoop, IInv, Loops, Visible
    <2> QED
      BY <2>3, <2>4, <2>5 DEF IInv, Inside, InText, numrows, size
  <1>6. CASE LoadFails
    <2>1. Inside(E')
      BY <1>6, ClearedInside DEF LoadFails, Leave
    <2>2. Control' /\ Flags'
      BY <1>6 DEF LoadFails, Leave, EndLoop, IInv, Control, Flags
    <2>3. Loops'
      BY <1>6 DEF LoadFails, Leave, EndLoop, Loops
    <2> QED
      BY <2>1, <2>2, <2>3 DEF IInv, Inside, InText, numrows, size
  <1> QED
    BY <1>2, <1>3, <1>4, <1>5, <1>6

\* The steps that move by a page and those that leave the editor or stay in it.
LEMMA PagingAndQuittingKeep ==
  ASSUME IInv,
         \/ \E k \in {"up", "down"} : PageKey(k)
         \/ PageStep \/ PageEnds \/ Quit \/ ConfirmQuit \/ Decline
  PROVE  IInv'
  <1>1. Inside(E)
    BY DEF IInv
  <1>2. ASSUME NEW k \in {"up", "down"}, PageKey(k)
        PROVE  IInv'
    <2>1. Control' /\ Flags' /\ Loops'
      BY <1>2, SizesAssumption DEF PageKey, IInv, Control, Flags, Loops
    <2> QED
      BY <1>1, <1>2, <2>1 DEF PageKey, IInv, Inside, InText, numrows, size
  <1>3. CASE PageStep
    <2>1. Inside(E')
      BY <1>1, <1>3, MoveInside DEF PageStep
    <2>2. Control' /\ Flags' /\ Loops'
      BY <1>3 DEF PageStep, IInv, Control, Flags, Loops
    <2> QED
      BY <2>1, <2>2 DEF IInv, Inside, InText, numrows, size
  <1>4. CASE PageEnds
    <2>1. Inside(E') /\ Visible(E')
      BY <1>1, <1>4, ScrollShows DEF PageEnds
    <2>2. Control' /\ Flags'
      BY <1>4 DEF PageEnds, IInv, Control, Flags
    <2>3. Loops'
      BY <1>4, <2>1 DEF PageEnds, IInv, Loops, Visible
    <2> QED
      BY <2>1, <2>2, <2>3 DEF IInv, Inside, InText, numrows, size
  <1>5. ASSUME mode \in {"editing", "confirm"}, Leave, UNCHANGED <<i, key, continuing, file>>
        PROVE  IInv'
    <2>1. Inside(E')
      BY <1>5, ClearedInside DEF Leave
    <2>2. Control' /\ Flags' /\ Loops'
      BY <1>5 DEF Leave, IInv, Control, Flags, Loops
    <2> QED
      BY <2>1, <2>2 DEF IInv, Inside, InText, numrows, size
  <1>6. ASSUME mode \in {"editing", "confirm"}, mode' \in {"editing", "confirm"},
               UNCHANGED <<E, i, key, continuing, file, torn>>
        PROVE  IInv'
    <2>1. Control' /\ Flags' /\ Loops'
      BY <1>6 DEF IInv, Control, Flags, Loops, Visible
    <2> QED
      BY <1>1, <1>6, <2>1 DEF IInv, Inside, InText, numrows, size
  <1>7. CASE Quit \/ ConfirmQuit \/ Decline
    BY <1>5, <1>6, <1>7 DEF Quit, ConfirmQuit, Decline
  <1> QED
    BY <1>2, <1>3, <1>4, <1>7

\* The steps that write the file.
LEMMA SavingKeeps ==
  ASSUME IInv, Save \/ SaveRow \/ SaveEnds \/ SaveFails
  PROVE  IInv'
  <1>1. Inside(E) /\ E \in Editors
    BY DEF IInv, Inside
  <1>2. numrows(E) \in Nat
    BY <1>1, Fields
  <1>3. \A f \in Texts : f # NoFile
    BY TextsAssumption
  <1>4. CASE Save
    <2>1. file' \in Texts /\ file' # NoFile
      BY <1>3, <1>4, EmptySeq DEF Save, Texts
    <2>2. Control' /\ Flags'
      BY <1>4, <2>1 DEF Save, IInv, Control, Flags
    <2>3. Loops'
      BY <1>2, <1>4, <2>1 DEF Save, IInv, Loops, Visible, numrows
    <2> QED
      BY <1>1, <1>4, <2>2, <2>3 DEF Save, IInv, Inside, InText, numrows, size
  <1>5. CASE SaveRow
    <2> DEFINE S == Chars \cup {LF}
               row == E.rows[i + 1]
    <2>1. mode = "saving" /\ i < numrows(E) /\ i \in Nat /\ file \in Seq(S)
      BY <1>5 DEF SaveRow, IInv, Control, Loops, Texts
    <2>2. row \in Seq(S)
      <3>1. i \in 0 .. numrows(E) - 1
        BY <1>2, <2>1
      <3>2. row \in Seq(Chars)
        BY <1>1, <3>1, Fields
      <3> QED
        BY <3>2, SeqMonotonic
    <2>3. Append(row, LF) \in Seq(S)
      <3>1. LF \in S
        OBVIOUS
      <3> HIDE DEF S, row
      <3> QED
        BY <2>2, <3>1
    <2>4. file \o Append(row, LF) \in Seq(S)
      BY <2>1, <2>3, ConcatProperties
    <2>5. file' \in Texts /\ file' # NoFile
      BY <1>3, <1>5, <2>4 DEF SaveRow, Texts
    <2>6. Control' /\ Flags'
      BY <1>5, <2>1, <2>5 DEF SaveRow, IInv, Control, Flags
    <2>7. Loops'
      <3>1. i + 1 <= numrows(E)
        BY ONLY <1>2, <2>1
      <3>2. i' <= numrows(E)'
        BY <1>5, <3>1 DEF SaveRow, numrows
      <3> QED
        BY <1>5, <2>1, <2>5, <3>2 DEF SaveRow, IInv, Loops, Visible
    <2> QED
      BY <1>1, <1>5, <2>6, <2>7 DEF SaveRow, IInv, Inside, InText, numrows, size
  <1>6. CASE SaveEnds
    <2>1. E' = Unmodified(E) /\ Visible(E)
      BY <1>6 DEF SaveEnds, Unmodified, IInv, Loops
    <2>2. /\ E' \in Editors /\ E'.rows = E.rows /\ E'.cx = E.cx /\ E'.cy = E.cy
          /\ E'.rowoff = E.rowoff /\ E'.coloff = E.coloff
      BY <1>1, <2>1, CountSet
    <2>3. Inside(E') /\ Visible(E')
      BY <1>1, <2>1, <2>2 DEF Inside, InText, numrows, size, Visible
    <2>4. Control' /\ Flags'
      BY <1>6 DEF SaveEnds, EndLoop, IInv, Control, Flags
    <2>5. Loops'
      BY <1>6, <2>3 DEF SaveEnds, EndLoop, IInv, Loops, Visible
    <2> QED
      BY <2>3, <2>4, <2>5 DEF IInv, Inside, InText, numrows, size
  <1>7. CASE SaveFails
    <2>1. file \in Seq(Chars \cup {LF}) /\ Len(file) \in Nat
      BY <1>7, LenProperties DEF SaveFails, IInv, Control, Loops, Texts
    <2>2. PICK n \in 0 .. Len(file) : file' = SubSeq(file, 1, n)
      BY <1>7 DEF SaveFails, Prefixes
    <2>3. file' \in Texts /\ file' # NoFile
      BY <1>3, <2>1, <2>2, Part DEF Texts
    <2>4. Control' /\ Flags'
      BY <1>7, <2>3 DEF SaveFails, EndLoop, IInv, Control, Flags
    <2>5. Loops'
      BY <1>7 DEF SaveFails, EndLoop, IInv, Loops, Visible
    <2> QED
      BY <1>1, <1>7, <2>4, <2>5 DEF SaveFails, IInv, Inside, InText, numrows, size
  <1> QED
    BY <1>4, <1>5, <1>6, <1>7

LEMMA NextIInv == IInv /\ [Next]_vars => IInv'
  <1> SUFFICES ASSUME IInv, [Next]_vars PROVE IInv'
    OBVIOUS
  <1>1. CASE UNCHANGED vars
    <2>1. Control' /\ Flags' /\ Loops'
      BY <1>1 DEF vars, IInv, Control, Flags, Loops, Visible, AtStart, numrows
    <2> QED
      BY <1>1, <2>1 DEF vars, IInv, Inside, InText, numrows, size
  <1>2. CASE Next
    BY <1>2, EveryKeyKeeps, LoadingKeeps, PagingAndQuittingKeep, SavingKeeps DEF Next
  <1> QED
    BY <1>1, <1>2

THEOREM InductiveInvariant == Spec => []IInv
  BY InitIInv, NextIInv, PTL DEF Spec

\* The editor's state has its types: the rows stay sequences of characters, whatever
\* bytes the file had and however its chunks were cut.
THEOREM TypeCorrect == Spec => []TypeOK
  BY InductiveInvariant, IInvImplies, PTL

\* No index of the editor leaves its array, for texts, screens and chunks of every size.
THEOREM IndexesStayInside == Spec => []IndexesInside
  BY InductiveInvariant, IInvImplies, PTL

\* The cursor is in the window whenever the editor waits for a key, on every screen.
THEOREM CursorIsVisible == Spec => []CursorVisible
  BY InductiveInvariant, IInvImplies, PTL

\* Induction, without an operator as a parameter: S is the set of what has the property.
LEMMA Induction ==
  ASSUME NEW S, 0 \in S, \A n \in Nat : n \in S => n + 1 \in S
  PROVE  \A n \in Nat : n \in S
  <1> DEFINE T == Nat \ S
  <1> SUFFICES ASSUME T # {} PROVE FALSE
    OBVIOUS
  <1>1. PICK m \in T : \A k \in T : m <= k
    BY Least
  <1>2. m \in Nat /\ m # 0 /\ m \notin S
    OBVIOUS
  <1>3. m - 1 \in Nat /\ ~(m <= m - 1)
    BY <1>2
  <1>4. m - 1 \in S
    BY <1>1, <1>3
  <1>5. (m - 1) + 1 \in S
    BY <1>3, <1>4
  <1> QED
    BY <1>2, <1>5

\* What the local function of FlattenSeq does at one step.
FlatStep(q, f, k) == IF k = 1 THEN q[k] ELSE f[k - 1] \o q[k]

Flattens(q, f) == f = [k \in 1 .. Len(q) |-> FlatStep(q, f, k)]

FlatsUpto(S, q, n) == \E f \in [1 .. n -> Seq(S)] : \A k \in 1 .. n : f[k] = FlatStep(q, f, k)

\* The local function of FlattenSeq exists, ...
LEMMA FlatDefined ==
  ASSUME NEW S, NEW q \in Seq(Seq(S))
  PROVE  \E f \in [1 .. Len(q) -> Seq(S)] : Flattens(q, f)
  <1> DEFINE G == {n \in Nat : n <= Len(q) => FlatsUpto(S, q, n)}
  <1>1. Len(q) \in Nat /\ \A k \in 1 .. Len(q) : q[k] \in Seq(S)
    BY LenProperties, ElementOfSeq
  <1>2. 0 \in G
    <2> DEFINE f == [k \in 1 .. 0 |-> << >>]
    <2>1. f \in [1 .. 0 -> Seq(S)] /\ \A k \in 1 .. 0 : f[k] = FlatStep(q, f, k)
      OBVIOUS
    <2> QED
      BY <2>1 DEF FlatsUpto
  <1>3. ASSUME NEW n \in Nat, n \in G
        PROVE  n + 1 \in G
    <2> SUFFICES ASSUME n + 1 <= Len(q) PROVE FlatsUpto(S, q, n + 1)
      OBVIOUS
    <2>0. FlatsUpto(S, q, n)
      BY <1>1, <1>3
    <2>1. PICK f \in [1 .. n -> Seq(S)] : \A k \in 1 .. n : f[k] = FlatStep(q, f, k)
      BY <2>0 DEF FlatsUpto
    <2> DEFINE g == [k \in 1 .. n + 1 |-> IF k <= n THEN f[k] ELSE FlatStep(q, f, n + 1)]
    <2>2. FlatStep(q, f, n + 1) \in Seq(S)
      <3>1. q[n + 1] \in Seq(S)
        BY <1>1
      <3>2. CASE n = 0
        BY <3>1, <3>2 DEF FlatStep
      <3>3. CASE n # 0
        <4>1. f[n] \in Seq(S)
          BY <3>3
        <4>2. f[n] \o q[n + 1] \in Seq(S)
          BY <3>1, <4>1, ConcatProperties
        <4> QED
          BY <3>3, <4>2 DEF FlatStep
      <3> QED
        BY <3>2, <3>3
    <2>3. g \in [1 .. n + 1 -> Seq(S)]
      BY <2>2
    <2>4. \A k \in 1 .. n : g[k] = f[k]
      OBVIOUS
    <2>5. \A k \in 1 .. n + 1 : FlatStep(q, g, k) = FlatStep(q, f, k)
      <3> TAKE k \in 1 .. n + 1
      <3>1. k # 1 => k - 1 \in 1 .. n
        OBVIOUS
      <3> QED
        BY <2>4, <3>1 DEF FlatStep
    <2>6. \A k \in 1 .. n + 1 : g[k] = FlatStep(q, g, k)
      <3> TAKE k \in 1 .. n + 1
      <3>1. k \in 1 .. n \/ k = n + 1
        OBVIOUS
      <3>2. CASE k \in 1 .. n
        BY <2>1, <2>4, <2>5, <3>2
      <3>3. CASE k = n + 1
        <4>1. g[k] = FlatStep(q, f, n + 1)
          BY <3>3
        <4> QED
          BY <2>5, <3>3, <4>1
      <3> QED
        BY <3>1, <3>2, <3>3
    <2> QED
      BY <2>3, <2>6 DEF FlatsUpto
  <1>4. Len(q) \in G
    BY <1>1, <1>2, <1>3, Induction
  <1>5. PICK f \in [1 .. Len(q) -> Seq(S)] : \A k \in 1 .. Len(q) : f[k] = FlatStep(q, f, k)
    BY <1>1, <1>4 DEF FlatsUpto
  <1>6. Flattens(q, f)
    BY <1>5 DEF Flattens
  <1> QED
    BY <1>6

TheFlat(q) == CHOOSE f : Flattens(q, f)

\* ... gives the flattening as its last value, ...
LEMMA FlatIs ==
  ASSUME NEW S, NEW q \in Seq(Seq(S)), q # << >>
  PROVE  FlattenSeq(q) = TheFlat(q)[Len(q)]
  <1>1. Len(q) \in Nat \ {0}
    BY EmptySeq
  <1> QED
    BY <1>1, Zenon DEF FlattenSeq, TheFlat, Flattens, FlatStep

\* The flattening of a sequence of sequences, element by element.
LEMMA FlatEmpty == FlattenSeq(<< >>) = << >>
  BY DEF FlattenSeq

\* Two sequences have the same first m elements.
Agree(p, q, m) == \A k \in 1 .. m : p[k] = q[k]

\* ... and depends on the sequences up to its argument only.
LEMMA FlatUnique ==
  ASSUME NEW S, NEW p \in Seq(Seq(S)), NEW q \in Seq(Seq(S)), NEW f, NEW g,
         NEW m \in Nat, m <= Len(p), m <= Len(q), Flattens(p, f), Flattens(q, g),
         Agree(p, q, m)
  PROVE  Agree(f, g, m)
  <1> DEFINE G == {n \in Nat : n \in 1 .. m => f[n] = g[n]}
  <1>1. Len(p) \in Nat /\ Len(q) \in Nat
    BY LenProperties
  <1>2. \A k \in 1 .. m : f[k] = FlatStep(p, f, k) /\ g[k] = FlatStep(q, g, k)
    <2> TAKE k \in 1 .. m
    <2>1. k \in 1 .. Len(p) /\ k \in 1 .. Len(q)
      BY <1>1
    <2> QED
      BY <2>1, Zenon DEF Flattens
  <1>3. 0 \in G
    OBVIOUS
  <1>4. ASSUME NEW n \in Nat, n \in G
        PROVE  n + 1 \in G
    <2> SUFFICES ASSUME n + 1 \in 1 .. m PROVE f[n + 1] = g[n + 1]
      OBVIOUS
    <2>1. f[n + 1] = FlatStep(p, f, n + 1) /\ g[n + 1] = FlatStep(q, g, n + 1) /\ p[n + 1] = q[n + 1]
      BY <1>2 DEF Agree
    <2>2. CASE n = 0
      BY <2>1, <2>2 DEF FlatStep
    <2>3. CASE n # 0
      <3>1. n \in 1 .. m /\ (n + 1) - 1 = n /\ n + 1 # 1
        BY <2>3
      <3>2. f[n] = g[n]
        BY <1>4, <3>1
      <3> QED
        BY <2>1, <3>1, <3>2 DEF FlatStep
    <2> QED
      BY <2>2, <2>3
  <1>5. \A n \in Nat : n \in G
    BY <1>3, <1>4, Induction
  <1> QED
    BY <1>5 DEF Agree

\* One more sequence at the end.
LEMMA FlatAppend ==
  ASSUME NEW S, NEW q \in Seq(Seq(S)), NEW x \in Seq(S)
  PROVE  FlattenSeq(Append(q, x)) = FlattenSeq(q) \o x
  <1> DEFINE p == Append(q, x)
             n == Len(q)
             f == TheFlat(p)
             g == TheFlat(q)
             T == Seq(S)
  <1>1. n \in Nat
    BY LenProperties
  <1>2. p \in Seq(T) /\ p # << >> /\ Len(p) = n + 1 /\ p[n + 1] = x /\ \A k \in 1 .. n : p[k] = q[k]
    <2>1. q \in Seq(T) /\ x \in T
      OBVIOUS
    <2> HIDE DEF T
    <2> QED
      BY <2>1, AppendProperties
  <1> HIDE DEF p
  <1>3. Flattens(p, f) /\ Flattens(q, g)
    BY <1>2, FlatDefined DEF TheFlat
  <1>4. FlattenSeq(p) = f[n + 1]
    BY <1>2, FlatIs
  <1> HIDE DEF f, g
  <1>5. f[n + 1] = FlatStep(p, f, n + 1)
    <2>1. n + 1 \in 1 .. Len(p)
      BY <1>1, <1>2
    <2> QED
      BY <1>3, <2>1, Zenon DEF Flattens
  <1>6. CASE n = 0
    <2>1. q = << >>
      BY <1>6, EmptySeq
    <2>2. FlattenSeq(q) = << >>
      BY <2>1, FlatEmpty
    <2>3. << >> \o x = x
      BY ConcatEmptySeq
    <2>4. FlatStep(p, f, n + 1) = p[n + 1]
      BY <1>6 DEF FlatStep
    <2> QED
      BY <1>2, <1>4, <1>5, <2>2, <2>3, <2>4, Zenon DEF p
  <1>7. CASE n # 0
    <2>1. FlattenSeq(q) = g[n]
      <3>1. q # << >>
        BY <1>7, EmptySeq
      <3> QED
        BY <3>1, FlatIs DEF g
    <2>2. f[n] = g[n]
      <3>0. n <= Len(p) /\ n <= Len(q)
        BY <1>1, <1>2
      <3>1. Agree(p, q, n)
        BY <1>2 DEF Agree
      <3>2. Agree(f, g, n)
        BY <1>1, <1>2, <1>3, <3>0, <3>1, FlatUnique
      <3> QED
        BY <1>1, <1>7, <3>2 DEF Agree
    <2>3. (n + 1) - 1 = n /\ n + 1 # 1
      BY <1>1, <1>7
    <2>4. FlatStep(p, f, n + 1) = f[n] \o p[n + 1]
      BY <2>3 DEF FlatStep
    <2> QED
      BY <1>2, <1>4, <1>5, <2>1, <2>2, <2>4, Zenon DEF p
  <1> QED
    BY <1>6, <1>7

\* The flattening is a sequence over the same set.
LEMMA FlatType ==
  ASSUME NEW S, NEW q \in Seq(Seq(S))
  PROVE  FlattenSeq(q) \in Seq(S)
  <1>1. Len(q) \in Nat
    BY LenProperties
  <1>2. CASE q = << >>
    BY <1>2, FlatEmpty, EmptySeq
  <1>3. CASE q # << >>
    <2>1. PICK f \in [1 .. Len(q) -> Seq(S)] : Flattens(q, f)
      BY FlatDefined
    <2>2. Flattens(q, TheFlat(q))
      BY <2>1 DEF TheFlat
    <2>3. Agree(f, TheFlat(q), Len(q))
      <3>1. Agree(q, q, Len(q)) /\ Len(q) <= Len(q)
        BY <1>1 DEF Agree
      <3> QED
        BY <1>1, <2>1, <2>2, <3>1, FlatUnique
    <2>4. Len(q) \in 1 .. Len(q)
      BY <1>3, EmptySeq
    <2>5. FlattenSeq(q) = f[Len(q)]
      BY <1>3, <2>3, <2>4, FlatIs DEF Agree
    <2> QED
      BY <2>4, <2>5
  <1> QED
    BY <1>2, <1>3

\* Appending to the second of two sequences.
LEMMA ConcatAppend ==
  ASSUME NEW S, NEW a \in Seq(S), NEW b \in Seq(S), NEW x \in S
  PROVE  a \o Append(b, x) = Append(a \o b, x)
  <1>1. a \o b \in Seq(S) /\ <<x>> \in Seq(S)
    BY ConcatProperties, Single
  <1>2. Append(b, x) = b \o <<x>> /\ Append(a \o b, x) = (a \o b) \o <<x>>
    BY <1>1, AppendIsConcat
  <1> QED
    BY <1>1, <1>2, ConcatAssociative

\* The flattening of two sequences put together.
LEMMA FlatConcat ==
  ASSUME NEW S, NEW a \in Seq(Seq(S)), NEW b \in Seq(Seq(S))
  PROVE  FlattenSeq(a \o b) = FlattenSeq(a) \o FlattenSeq(b)
  <1> DEFINE T == Seq(S)
             Holds(c) == FlattenSeq(a \o c) = FlattenSeq(a) \o FlattenSeq(c)
             G == {n \in Nat : \A c \in Seq(T) : Len(c) = n => Holds(c)}
  <1>1. FlattenSeq(a) \in T
    BY FlatType
  <1>2. 0 \in G
    <2>1. Holds(<< >>)
      BY <1>1, FlatEmpty, ConcatEmptySeq
    <2>2. \A c \in Seq(T) : Len(c) = 0 => c = << >>
      <3> HIDE DEF T
      <3> QED
        BY EmptySeq
    <2> HIDE DEF Holds, T
    <2> QED
      BY <2>1, <2>2
  <1>3. ASSUME NEW n \in Nat, n \in G
        PROVE  n + 1 \in G
    <2> SUFFICES ASSUME NEW c \in Seq(T), Len(c) = n + 1 PROVE Holds(c)
      <3> HIDE DEF Holds, T
      <3> QED
        OBVIOUS
    <2> DEFINE d == Front(c)
               x == Last(c)
    <2>1. d \in Seq(T) /\ x \in T /\ c = Append(d, x) /\ Len(d) = n
      <3>1. c # << >>
        BY EmptySeq
      <3> HIDE DEF T
      <3>2. /\ d \in Seq(T) /\ x \in T /\ c = Append(d, x)
            /\ Len(c) = Len(d) + 1 /\ Len(d) \in Nat
        BY <3>1, FrontAndLast
      <3> QED
        BY <3>2
    <2>2. Holds(d)
      <3> HIDE DEF Holds, T, d
      <3> QED
        BY <1>3, <2>1
    <2> HIDE DEF d, x
    <2>3. a \o d \in Seq(T) /\ a \o Append(d, x) = Append(a \o d, x)
      <3>1. a \in Seq(T)
        OBVIOUS
      <3> HIDE DEF T
      <3> QED
        BY <2>1, <3>1, ConcatProperties, ConcatAppend
    <2>4. FlattenSeq(a \o c) = FlattenSeq(a \o d) \o x
      BY <2>1, <2>3, FlatAppend
    <2>5. FlattenSeq(c) = FlattenSeq(d) \o x
      BY <2>1, FlatAppend
    <2>6. FlattenSeq(d) \in T
      BY <2>1, FlatType
    <2>7. (FlattenSeq(a) \o FlattenSeq(d)) \o x = FlattenSeq(a) \o (FlattenSeq(d) \o x)
      <3>1. FlattenSeq(a) \in Seq(S) /\ FlattenSeq(d) \in Seq(S) /\ x \in Seq(S)
        BY <1>1, <2>1, <2>6
      <3> HIDE DEF Holds, G, T
      <3> QED
        BY <3>1, ConcatAssociative
    <2> QED
      BY <2>2, <2>4, <2>5, <2>7, Zenon
  <1>4. Len(b) \in G
    <2>1. Len(b) \in Nat
      BY LenProperties
    <2> HIDE DEF G
    <2> QED
      BY <1>2, <1>3, <2>1, Induction
  <1>5. b \in Seq(T)
    OBVIOUS
  <1>6. Holds(b)
    <2> HIDE DEF Holds, T
    <2> QED
      BY <1>4, <1>5
  <1> QED
    BY <1>6

-----------------------------------------------------------------------------
(* The text of the rows. *)

Lines(rows) == [y \in DOMAIN rows |-> Append(rows[y], LF)]

\* A row is a text, and so is a row with its line end.
LEMMA RowIsText ==
  ASSUME NEW r \in Seq(Chars)
  PROVE  r \in Texts /\ <<LF>> \in Texts /\ Append(r, LF) \in Texts /\ Append(r, LF) = r \o <<LF>>
  <1> DEFINE B == Chars \cup {LF}
  <1>1. LF \in B /\ Chars \subseteq B
    OBVIOUS
  <1> HIDE DEF B
  <1>2. r \in Seq(B)
    BY <1>1, SeqMonotonic
  <1>3. <<LF>> \in Seq(B) /\ Append(r, LF) \in Seq(B) /\ Append(r, LF) = r \o <<LF>>
    BY <1>1, <1>2, AppendProperties, AppendIsConcat, Single
  <1> QED
    BY <1>2, <1>3 DEF Texts, B

\* The rows with their line ends.
LEMMA LinesType ==
  ASSUME NEW rows \in Rows
  PROVE  /\ Lines(rows) \in Seq(Texts) /\ Len(Lines(rows)) = Len(rows)
         /\ \A y \in 1 .. Len(rows) : Lines(rows)[y] = Append(rows[y], LF)
  <1>1. Len(rows) \in Nat /\ DOMAIN rows = 1 .. Len(rows)
    BY LenProperties DEF Rows
  <1>2. \A y \in 1 .. Len(rows) : rows[y] \in Seq(Chars)
    BY ElementOfSeq DEF Rows
  <1>3. \A y \in 1 .. Len(rows) : Append(rows[y], LF) \in Texts
    BY <1>2, RowIsText
  <1>4. Lines(rows) \in [1 .. Len(rows) -> Texts]
    BY <1>1, <1>3 DEF Lines
  <1>5. Lines(rows) \in Seq(Texts)
    BY <1>1, <1>4, SeqDef
  <1>6. Len(Lines(rows)) = Len(rows)
    BY <1>1, <1>4, <1>5, LenProperties
  <1> QED
    BY <1>1, <1>5, <1>6 DEF Lines

\* The joined rows are a text.
LEMMA JoinedType ==
  ASSUME NEW rows \in Rows
  PROVE  Joined(rows) = FlattenSeq(Lines(rows)) /\ Joined(rows) \in Texts
  <1> DEFINE B == Chars \cup {LF}
  <1>1. Joined(rows) = FlattenSeq(Lines(rows))
    BY DEF Joined, Lines
  <1>2. Lines(rows) \in Seq(Seq(B))
    BY LinesType DEF Texts
  <1> HIDE DEF B
  <1>3. FlattenSeq(Lines(rows)) \in Seq(B)
    BY <1>2, FlatType
  <1> QED
    BY <1>1, <1>3 DEF B, Texts

\* The text of two groups of rows is the one text behind the other.
LEMMA JoinedConcat ==
  ASSUME NEW a \in Rows, NEW b \in Rows
  PROVE  a \o b \in Rows /\ Joined(a \o b) = Joined(a) \o Joined(b)
  <1> DEFINE B == Chars \cup {LF}
             c == a \o b
             la == Lines(a)
             lb == Lines(b)
  <1>1. /\ c \in Rows /\ Len(c) = Len(a) + Len(b)
        /\ \A k \in 1 .. Len(a) + Len(b) : c[k] = IF k <= Len(a) THEN a[k] ELSE b[k - Len(a)]
    <2> DEFINE T == Seq(Chars)
    <2>1. a \in Seq(T) /\ b \in Seq(T)
      BY DEF Rows
    <2> HIDE DEF T
    <2>2. /\ c \in Seq(T) /\ Len(c) = Len(a) + Len(b)
          /\ \A k \in 1 .. Len(a) + Len(b) : c[k] = IF k <= Len(a) THEN a[k] ELSE b[k - Len(a)]
      BY <2>1, ConcatProperties
    <2> QED
      BY <2>2 DEF T, Rows
  <1> HIDE DEF c
  <1>2. /\ Lines(c) \in Seq(Texts) /\ Len(Lines(c)) = Len(c)
        /\ \A y \in 1 .. Len(c) : Lines(c)[y] = Append(c[y], LF)
    BY <1>1, LinesType
  <1>3. /\ la \in Seq(Texts) /\ Len(la) = Len(a)
        /\ \A y \in 1 .. Len(a) : la[y] = Append(a[y], LF)
    BY LinesType
  <1>4. /\ lb \in Seq(Texts) /\ Len(lb) = Len(b)
        /\ \A y \in 1 .. Len(b) : lb[y] = Append(b[y], LF)
    BY LinesType
  <1>5. Len(a) \in Nat /\ Len(b) \in Nat
    BY LenProperties DEF Rows
  <1> HIDE DEF la, lb
  <1>6. /\ la \o lb \in Seq(Texts) /\ Len(la \o lb) = Len(la) + Len(lb)
        /\ \A k \in 1 .. Len(la) + Len(lb) :
             (la \o lb)[k] = IF k <= Len(la) THEN la[k] ELSE lb[k - Len(la)]
    <2>1. la \in Seq(Texts) /\ lb \in Seq(Texts)
      BY <1>3, <1>4
    <2> QED
      BY ONLY <2>1, ConcatProperties
  <1>7. \A k \in 1 .. Len(c) : Lines(c)[k] = (la \o lb)[k]
    <2> TAKE k \in 1 .. Len(c)
    <2>0. /\ k \in 1 .. Len(a) + Len(b) /\ k \in 1 .. Len(la) + Len(lb)
          /\ k <= Len(a) <=> k <= Len(la)
      BY <1>1, <1>3, <1>4
    <2>1. CASE k <= Len(a)
      <3>1. k \in 1 .. Len(a)
        BY <1>5, <2>0, <2>1
      <3>2. c[k] = a[k]
        BY <1>1, <2>0, <2>1
      <3>3. (la \o lb)[k] = la[k]
        BY <1>6, <2>0, <2>1
      <3>4. la[k] = Append(a[k], LF)
        BY <1>3, <3>1
      <3> QED
        BY <1>2, <3>2, <3>3, <3>4
    <2>2. CASE ~(k <= Len(a))
      <3>1. k - Len(a) \in 1 .. Len(b)
        BY <1>5, <2>0, <2>2
      <3>2. c[k] = b[k - Len(a)]
        BY <1>1, <2>0, <2>2
      <3>3. (la \o lb)[k] = lb[k - Len(a)]
        BY <1>3, <1>6, <2>0, <2>2
      <3>4. lb[k - Len(a)] = Append(b[k - Len(a)], LF)
        BY <1>4, <3>1
      <3> QED
        BY <1>2, <3>2, <3>3, <3>4
    <2> QED
      BY <2>1, <2>2
  <1>8. Lines(c) = la \o lb
    <2>1. Len(Lines(c)) = Len(la \o lb)
      BY <1>1, <1>2, <1>3, <1>4, <1>6
    <2>2. \A k \in 1 .. Len(Lines(c)) : Lines(c)[k] = (la \o lb)[k]
      BY <1>2, <1>7
    <2>3. Lines(c) \in Seq(Texts) /\ la \o lb \in Seq(Texts)
      BY <1>2, <1>6
    <2> QED
      BY ONLY <2>1, <2>2, <2>3, SeqEqual
  <1>9. la \in Seq(Seq(B)) /\ lb \in Seq(Seq(B))
    BY <1>3, <1>4 DEF Texts
  <1> HIDE DEF B
  <1>10. FlattenSeq(la \o lb) = FlattenSeq(la) \o FlattenSeq(lb)
    BY <1>9, FlatConcat
  <1>11. Joined(c) = FlattenSeq(Lines(c)) /\ Joined(a) = FlattenSeq(la) /\ Joined(b) = FlattenSeq(lb)
    BY <1>1, JoinedType DEF la, lb
  <1> QED
    BY <1>1, <1>8, <1>10, <1>11, Zenon DEF c

\* No rows are the empty text.
LEMMA JoinedEmpty == << >> \in Rows /\ Joined(<< >>) = << >>
  <1>1. << >> \in Rows
    BY EmptySeq DEF Rows
  <1>2. Len(Lines(<< >>)) = 0 /\ Lines(<< >>) \in Seq(Texts)
    BY <1>1, LinesType, EmptySeq
  <1>3. Lines(<< >>) = << >>
    BY <1>2, EmptySeq
  <1> QED
    BY <1>1, <1>3, JoinedType, FlatEmpty

\* The text of one row.
LEMMA JoinedOne ==
  ASSUME NEW r \in Seq(Chars)
  PROVE  <<r>> \in Rows /\ Joined(<<r>>) = r \o <<LF>>
  <1> DEFINE B == Chars \cup {LF}
             l == Append(r, LF)
             s == Lines(<<r>>)
  <1>1. <<r>> \in Rows /\ Len(<<r>>) = 1 /\ <<r>>[1] = r
    <2> DEFINE T == Seq(Chars)
    <2>1. r \in T
      OBVIOUS
    <2> HIDE DEF T
    <2>2. <<r>> \in Seq(T) /\ Len(<<r>>) = 1 /\ <<r>>[1] = r
      BY <2>1, Single
    <2> QED
      BY <2>2 DEF T, Rows
  <1>2. s \in Seq(Texts) /\ Len(s) = 1 /\ s[1] = l
    BY <1>1, LinesType
  <1>3. l \in Texts /\ l = r \o <<LF>>
    BY RowIsText
  <1> HIDE DEF l, s
  <1>4. s = Append(<< >>, l)
    <2>1. << >> \in Seq(Texts) /\ Len(<< >>) = 0
      BY EmptySeq
    <2>2. Append(<< >>, l) \in Seq(Texts) /\ Len(Append(<< >>, l)) = 1 /\ Append(<< >>, l)[1] = l
      BY <1>3, <2>1, AppendProperties
    <2> QED
      BY <1>2, <2>2, SeqEqual
  <1>5. << >> \in Seq(Seq(B)) /\ l \in Seq(B)
    BY <1>3, EmptySeq DEF Texts
  <1> HIDE DEF B
  <1>6. FlattenSeq(s) = << >> \o l
    BY <1>4, <1>5, FlatAppend, FlatEmpty
  <1>7. << >> \o l = l
    BY <1>5, ConcatEmptySeq
  <1> QED
    BY <1>1, <1>3, <1>6, <1>7, JoinedType DEF s

-----------------------------------------------------------------------------
(* Sequences put together from parts. *)

\* The parts of two sequences put together.
LEMMA PartsOfConcat ==
  ASSUME NEW T, NEW a \in Seq(T), NEW b \in Seq(T)
  PROVE  /\ SubSeq(a \o b, 1, Len(a)) = a
         /\ SubSeq(a \o b, Len(a) + 1, Len(a \o b)) = b
  <1> DEFINE c == a \o b
             l == SubSeq(c, 1, Len(a))
             r == SubSeq(c, Len(a) + 1, Len(c))
  <1>1. Len(a) \in Nat /\ Len(b) \in Nat
    BY LenProperties
  <1>2. /\ c \in Seq(T) /\ Len(c) = Len(a) + Len(b)
        /\ \A k \in 1 .. Len(a) + Len(b) : c[k] = IF k <= Len(a) THEN a[k] ELSE b[k - Len(a)]
    BY ConcatProperties
  <1> HIDE DEF c
  <1>3. /\ l \in Seq(T) /\ Len(l) = Len(a)
        /\ \A k \in 1 .. Len(a) : l[k] = c[k]
    BY <1>1, <1>2, Part
  <1>4. /\ r \in Seq(T) /\ Len(r) = Len(b)
        /\ \A k \in 1 .. Len(b) : r[k] = c[Len(a) + k]
    <2> DEFINE m == Len(a) + 1
               n == Len(c)
    <2>1. m \in Int /\ n \in Int /\ 1 <= m /\ n <= Len(c) /\ n - m + 1 = Len(b) /\ (m <= n \/ Len(b) = 0)
      BY <1>1, <1>2
    <2>2. /\ SubSeq(c, m, n) \in Seq(T)
          /\ Len(SubSeq(c, m, n)) = IF m <= n THEN n - m + 1 ELSE 0
          /\ \A k \in 1 .. n - m + 1 : SubSeq(c, m, n)[k] = c[m + k - 1]
      <3> HIDE DEF m, n
      <3> QED
        BY <1>2, <2>1, Part
    <2>3. \A k \in 1 .. Len(b) : m + k - 1 = Len(a) + k
      BY <1>1
    <2> HIDE DEF m, n
    <2>4. Len(SubSeq(c, m, n)) = Len(b)
      BY <1>1, <2>1, <2>2
    <2>5. \A k \in 1 .. Len(b) : SubSeq(c, m, n)[k] = c[Len(a) + k]
      BY <2>1, <2>2, <2>3
    <2> QED
      BY <2>2, <2>4, <2>5 DEF m, n
  <1> HIDE DEF l, r
  <1>5. l = a
    <2>1. \A k \in 1 .. Len(l) : l[k] = a[k]
      BY <1>1, <1>2, <1>3
    <2>2. Len(l) = Len(a)
      BY <1>3
    <2> QED
      BY <1>3, <2>1, <2>2, SeqEqual
  <1>6. r = b
    <2>1. \A k \in 1 .. Len(r) : r[k] = b[k]
      <3> TAKE k \in 1 .. Len(r)
      <3>1. /\ k \in 1 .. Len(b) /\ Len(a) + k \in 1 .. Len(a) + Len(b)
            /\ ~(Len(a) + k <= Len(a)) /\ (Len(a) + k) - Len(a) = k
        BY <1>1, <1>4
      <3> QED
        BY <1>2, <1>4, <3>1
    <2>2. Len(r) = Len(b)
      BY <1>4
    <2> QED
      BY <1>4, <2>1, <2>2, SeqEqual
  <1> QED
    BY <1>5, <1>6 DEF l, r, c

\* A sequence cut behind its first n elements.
CutAt(T, s, n) == \E a \in Seq(T), b \in Seq(T) : s = a \o b /\ Len(a) = n /\ Len(b) = Len(s) - n

\* Every sequence can be cut anywhere.
LEMMA Cut ==
  ASSUME NEW T, NEW s \in Seq(T), NEW n \in 0 .. Len(s)
  PROVE  CutAt(T, s, n)
  <1> DEFINE a == SubSeq(s, 1, n)
             b == SubSeq(s, n + 1, Len(s))
  <1>1. Len(s) \in Nat
    BY LenProperties
  <1>2. a \in Seq(T) /\ Len(a) = n
    BY <1>1, Part
  <1>3. b \in Seq(T) /\ Len(b) = Len(s) - n
    BY <1>1, Part
  <1>4. SubSeq(s, 1, n) \o SubSeq(s, n + 1, Len(s)) = SubSeq(s, 1, Len(s))
    <2>1. 1 \in 1 .. Len(s) + 1 /\ n \in 1 - 1 .. Len(s) /\ Len(s) \in n .. Len(s)
      BY <1>1
    <2> QED
      BY <2>1, ConcatAdjacentSubSeq
  <1>5. s = a \o b
    BY <1>4, SubSeqFull
  <1> HIDE DEF a, b
  <1> QED
    BY <1>2, <1>3, <1>5 DEF CutAt

\* A sequence that is not empty has a first element.
LEMMA HeadCut ==
  ASSUME NEW T, NEW s \in Seq(T), s # << >>
  PROVE  \E x \in T, b \in Seq(T) : s = <<x>> \o b
  <1>1. Len(s) \in Nat \ {0}
    BY EmptySeq
  <1>2. 1 \in 1 .. Len(s) /\ Len(s) \in 1 .. Len(s)
    BY <1>1
  <1>3. SubSeq(s, 1, Len(s)) = <<s[1]>> \o SubSeq(s, 1 + 1, Len(s))
    BY <1>2, SubSeqRecursiveFirst
  <1>4. SubSeq(s, 1 + 1, Len(s)) \in Seq(T) /\ s[1] \in T
    BY <1>1, <1>2, Part, ElementOfSeq
  <1> QED
    BY <1>3, <1>4, SubSeqFull

\* An element put between two parts, taken from there or replaced.
Between(a, x, b) == a \o (<<x>> \o b)

\* One more element at the end.
LEMMA AddedLast ==
  ASSUME NEW T, NEW a \in Seq(T), NEW x \in T
  PROVE  a \o <<x>> \in Seq(T) /\ Len(a \o <<x>>) = Len(a) + 1
  <1> DEFINE u == <<x>>
  <1>1. u \in Seq(T) /\ Len(u) = 1
    BY Single
  <1> HIDE DEF u
  <1>2. a \o u \in Seq(T) /\ Len(a \o u) = Len(a) + Len(u)
    BY <1>1, ConcatProperties
  <1> QED
    BY <1>1, <1>2 DEF u

\* An element between two parts gives a sequence, ...
LEMMA BetweenType ==
  ASSUME NEW T, NEW a \in Seq(T), NEW x \in T, NEW b \in Seq(T)
  PROVE  Between(a, x, b) \in Seq(T) /\ <<x>> \o b \in Seq(T)
  <1>1. <<x>> \in Seq(T)
    BY Single
  <1>2. <<x>> \o b \in Seq(T)
    BY <1>1, ConcatProperties
  <1> QED
    BY <1>2, ConcatProperties DEF Between

\* s is a, x and b, element by element.
IsBetween(T, s, a, x, b) ==
  /\ s \in Seq(T)
  /\ Len(s) = Len(a) + 1 + Len(b)
  /\ s[Len(a) + 1] = x
  /\ s = (a \o <<x>>) \o b
  /\ \A k \in 1 .. Len(a) : s[k] = a[k]
  /\ \A k \in 1 .. Len(b) : s[Len(a) + 1 + k] = b[k]

\* ... whose elements are those of the parts and this one between them.
LEMMA BetweenIs ==
  ASSUME NEW T, NEW a \in Seq(T), NEW x \in T, NEW b \in Seq(T)
  PROVE  IsBetween(T, Between(a, x, b), a, x, b)
  <1> DEFINE u == <<x>>
             c == u \o b
             d == a \o c
  <1>1. Len(a) \in Nat /\ Len(b) \in Nat
    BY LenProperties
  <1>2. u \in Seq(T) /\ Len(u) = 1 /\ u[1] = x
    BY Single
  <1> HIDE DEF u
  <1>3. /\ c \in Seq(T) /\ Len(c) = 1 + Len(b)
        /\ \A k \in 1 .. 1 + Len(b) : c[k] = IF k <= 1 THEN u[k] ELSE b[k - 1]
    <2>1. u \in Seq(T)
      BY <1>2
    <2>2. /\ c \in Seq(T) /\ Len(c) = Len(u) + Len(b)
          /\ \A k \in 1 .. Len(u) + Len(b) : c[k] = IF k <= Len(u) THEN u[k] ELSE b[k - Len(u)]
      BY <2>1, ConcatProperties
    <2> QED
      BY <1>2, <2>2
  <1>5. (a \o u) \o b = a \o c
    BY <1>2, ConcatAssociative
  <1> HIDE DEF c
  <1>6. /\ d \in Seq(T) /\ Len(d) = Len(a) + Len(c)
        /\ \A k \in 1 .. Len(a) + Len(c) : d[k] = IF k <= Len(a) THEN a[k] ELSE c[k - Len(a)]
    BY <1>3, ConcatProperties
  <1> HIDE DEF d
  <1>7. Len(d) = Len(a) + 1 + Len(b)
    BY <1>1, <1>3, <1>6
  <1>8. d[Len(a) + 1] = x
    <2>1. /\ Len(a) + 1 \in 1 .. Len(a) + Len(c) /\ ~(Len(a) + 1 <= Len(a))
          /\ (Len(a) + 1) - Len(a) = 1 /\ 1 \in 1 .. 1 + Len(b)
      BY <1>1, <1>3
    <2> QED
      BY <1>2, <1>3, <1>6, <2>1
  <1>9. \A k \in 1 .. Len(a) : d[k] = a[k]
    BY <1>1, <1>3, <1>6
  <1>10. \A k \in 1 .. Len(b) : d[Len(a) + 1 + k] = b[k]
    <2> TAKE k \in 1 .. Len(b)
    <2>1. /\ Len(a) + 1 + k \in 1 .. Len(a) + Len(c) /\ ~(Len(a) + 1 + k <= Len(a))
          /\ (Len(a) + 1 + k) - Len(a) = 1 + k /\ 1 + k \in 1 .. 1 + Len(b)
          /\ ~(1 + k <= 1) /\ (1 + k) - 1 = k
      BY <1>1, <1>3
    <2>2. d[Len(a) + 1 + k] = c[1 + k]
      BY <1>6, <2>1
    <2> QED
      BY <1>3, <2>1, <2>2
  <1>11. Between(a, x, b) = d
    BY DEF Between, d, c, u
  <1> QED
    BY <1>5, <1>7, <1>8, <1>9, <1>10, <1>11, <1>6 DEF IsBetween, d, u

\* InsertAt, RemoveAt and ReplaceAt on two parts.
LEMMA InsertBetween ==
  ASSUME NEW T, NEW a \in Seq(T), NEW x \in T, NEW b \in Seq(T)
  PROVE  InsertAt(a \o b, Len(a) + 1, x) = Between(a, x, b)
  <1>1. Len(a) \in Nat /\ (Len(a) + 1) - 1 = Len(a)
    BY LenProperties
  <1>2. InsertAt(a \o b, Len(a) + 1, x) = (a \o <<x>>) \o b
    BY <1>1, PartsOfConcat DEF InsertAt
  <1> QED
    <2>1. IsBetween(T, Between(a, x, b), a, x, b)
      BY BetweenIs
    <2> QED
      BY <1>2, <2>1 DEF IsBetween

LEMMA RemoveBetween ==
  ASSUME NEW T, NEW a \in Seq(T), NEW x \in T, NEW b \in Seq(T)
  PROVE  RemoveAt(Between(a, x, b), Len(a) + 1) = a \o b
  <1> DEFINE s == Between(a, x, b)
             u == a \o <<x>>
             c == <<x>> \o b
  <1>1. Len(a) \in Nat /\ (Len(a) + 1) - 1 = Len(a)
    BY LenProperties
  <1>2. s = u \o b /\ u \in Seq(T) /\ Len(u) = Len(a) + 1
    <2>1. u \in Seq(T) /\ Len(u) = Len(a) + 1
      BY AddedLast
    <2>2. IsBetween(T, s, a, x, b)
      BY BetweenIs
    <2> QED
      BY <2>1, <2>2 DEF IsBetween
  <1>3. c \in Seq(T) /\ s = a \o c
    BY BetweenType DEF Between
  <1>4. RemoveAt(s, Len(a) + 1) = SubSeq(s, 1, Len(a)) \o SubSeq(s, Len(a) + 1 + 1, Len(s))
    BY <1>1 DEF RemoveAt
  <1> HIDE DEF s, u, c
  <1>5. SubSeq(s, 1, Len(a)) = a
    BY <1>3, PartsOfConcat
  <1>6. SubSeq(s, Len(u) + 1, Len(s)) = b
    BY <1>2, PartsOfConcat
  <1> QED
    BY <1>2, <1>4, <1>5, <1>6 DEF s

LEMMA ReplaceBetween ==
  ASSUME NEW T, NEW a \in Seq(T), NEW x \in T, NEW b \in Seq(T), NEW y \in T
  PROVE  ReplaceAt(Between(a, x, b), Len(a) + 1, y) = Between(a, y, b)
  <1> DEFINE s == Between(a, x, b)
             t == Between(a, y, b)
             n == Len(a) + 1
             r == [s EXCEPT ![n] = y]
  <1>1. Len(a) \in Nat /\ Len(b) \in Nat
    BY LenProperties
  <1>2. /\ s \in Seq(T) /\ Len(s) = Len(a) + 1 + Len(b)
        /\ \A k \in 1 .. Len(a) : s[k] = a[k]
        /\ \A k \in 1 .. Len(b) : s[Len(a) + 1 + k] = b[k]
    <2>1. IsBetween(T, s, a, x, b)
      BY BetweenIs
    <2> HIDE DEF s
    <2> QED
      BY <2>1 DEF IsBetween
  <1>3. /\ t \in Seq(T) /\ Len(t) = Len(a) + 1 + Len(b)
        /\ \A k \in 1 .. Len(a) : t[k] = a[k]
        /\ t[Len(a) + 1] = y
        /\ \A k \in 1 .. Len(b) : t[Len(a) + 1 + k] = b[k]
    <2>1. IsBetween(T, t, a, y, b)
      BY BetweenIs
    <2> HIDE DEF t
    <2> QED
      BY <2>1 DEF IsBetween
  <1> HIDE DEF s, t
  <1>4. /\ r \in Seq(T) /\ Len(r) = Len(s)
        /\ \A j \in 1 .. Len(s) : r[j] = IF j = n THEN y ELSE s[j]
    <2>1. n \in 1 .. Len(s)
      BY <1>1, <1>2
    <2> HIDE DEF n
    <2> QED
      BY <1>2, <2>1, ExceptSeq
  <1>5. \A k \in 1 .. Len(r) : r[k] = t[k]
    <2> TAKE k \in 1 .. Len(r)
    <2>0. k \in 1 .. Len(s)
      BY <1>4
    <2>1. k \in 1 .. Len(a) \/ k = n \/ (k - n \in 1 .. Len(b) /\ k = Len(a) + 1 + (k - n) /\ k # n)
      BY <1>1, <1>2, <2>0
    <2>2. CASE k \in 1 .. Len(a)
      BY <1>1, <1>2, <1>3, <1>4, <2>0, <2>2
    <2>3. CASE k = n
      BY <1>3, <1>4, <2>0, <2>3
    <2>4. CASE k - n \in 1 .. Len(b) /\ k = Len(a) + 1 + (k - n) /\ k # n
      <3> DEFINE j == k - n
      <3>1. r[k] = s[k]
        BY <1>4, <2>0, <2>4
      <3>2. s[Len(a) + 1 + j] = b[j] /\ t[Len(a) + 1 + j] = b[j] /\ k = Len(a) + 1 + j
        BY <1>2, <1>3, <2>4
      <3> QED
        BY <3>1, <3>2
    <2> QED
      BY <2>1, <2>2, <2>3, <2>4
  <1>6. Len(r) = Len(t)
    BY <1>2, <1>3, <1>4
  <1> HIDE DEF r
  <1>7. r = t
    BY <1>3, <1>4, <1>5, <1>6, SeqEqual
  <1> QED
    BY <1>7 DEF ReplaceAt, r, s, t

-----------------------------------------------------------------------------
(* The text before and behind the cursor. *)

Text(e) == Joined(e.rows)
Cursor(e) == Len(Joined(SubSeq(e.rows, 1, e.cy))) + e.cx

\* The text is x up to the cursor and y behind it.
Shows(e, x, y) == x \in Texts /\ y \in Texts /\ Text(e) = x \o y /\ Cursor(e) = Len(x)

Before(e) == SubSeq(Text(e), 1, Cursor(e))
After(e) == SubSeq(Text(e), Cursor(e) + 1, Len(Text(e)))

\* There is one way to show a text.
LEMMA ShownParts ==
  ASSUME NEW e, NEW x, NEW y, Shows(e, x, y)
  PROVE  Before(e) = x /\ After(e) = y
  BY PartsOfConcat DEF Shows, Before, After, Texts

\* The cursor is in a row, behind a and before b, ...
InRow(e, A, a, b, B) ==
  /\ A \in Rows /\ a \in Seq(Chars) /\ b \in Seq(Chars) /\ B \in Rows
  /\ e.rows = Between(A, a \o b, B) /\ e.cy = Len(A) /\ e.cx = Len(a)

\* ... or before the rows B.
AtRow(e, A, B) == A \in Rows /\ B \in Rows /\ e.rows = A \o B /\ e.cy = Len(A) /\ e.cx = 0

\* Texts can be put together.
LEMMA TextsConcat ==
  ASSUME NEW s \in Texts, NEW t \in Texts
  PROVE  s \o t \in Texts /\ Len(s \o t) = Len(s) + Len(t)
  BY ConcatProperties DEF Texts

LEMMA TextsAssociate ==
  ASSUME NEW s \in Texts, NEW t \in Texts, NEW u \in Texts
  PROVE  (s \o t) \o u = s \o (t \o u)
  BY ConcatAssociative DEF Texts

\* The text of rows around one of them.
LEMMA JoinedBetween ==
  ASSUME NEW A \in Rows, NEW r \in Seq(Chars), NEW B \in Rows
  PROVE  /\ Between(A, r, B) \in Rows
         /\ Joined(Between(A, r, B)) = Joined(A) \o (r \o (<<LF>> \o Joined(B)))
  <1>1. <<r>> \in Rows /\ Joined(<<r>>) = r \o <<LF>>
    BY JoinedOne
  <1>2. <<r>> \o B \in Rows /\ Joined(<<r>> \o B) = (r \o <<LF>>) \o Joined(B)
    BY <1>1, JoinedConcat
  <1>3. A \o (<<r>> \o B) \in Rows /\ Joined(A \o (<<r>> \o B)) = Joined(A) \o Joined(<<r>> \o B)
    BY <1>2, JoinedConcat
  <1>4. r \in Texts /\ <<LF>> \in Texts /\ Joined(B) \in Texts
    BY RowIsText, JoinedType
  <1>5. (r \o <<LF>>) \o Joined(B) = r \o (<<LF>> \o Joined(B))
    BY <1>4, TextsAssociate
  <1> QED
    BY <1>2, <1>3, <1>5 DEF Between

\* The text before and behind a cursor in a row ...
LEMMA ShowsInRow ==
  ASSUME NEW e, NEW A, NEW a, NEW b, NEW B, InRow(e, A, a, b, B)
  PROVE  Shows(e, Joined(A) \o a, b \o (<<LF>> \o Joined(B)))
  <1> DEFINE r == a \o b
             R == <<r>> \o B
             z == <<LF>> \o Joined(B)
  <1>1. /\ A \in Rows /\ a \in Seq(Chars) /\ b \in Seq(Chars) /\ B \in Rows
        /\ e.rows = Between(A, r, B) /\ e.cy = Len(A) /\ e.cx = Len(a)
    BY DEF InRow
  <1>2. r \in Seq(Chars)
    BY <1>1, ConcatProperties
  <1>3. a \in Texts /\ b \in Texts /\ Joined(A) \in Texts /\ Joined(B) \in Texts /\ <<LF>> \in Texts
    BY <1>1, RowIsText, JoinedType
  <1>4. z \in Texts
    BY <1>3, TextsConcat
  <1> HIDE DEF z
  <1>5. b \o z \in Texts /\ Joined(A) \o a \in Texts /\ Len(Joined(A) \o a) = Len(Joined(A)) + Len(a)
    <2>1. b \o z \in Texts
      BY <1>3, <1>4, TextsConcat
    <2>2. Joined(A) \o a \in Texts /\ Len(Joined(A) \o a) = Len(Joined(A)) + Len(a)
      <3>1. Joined(A) \in Texts /\ a \in Texts
        BY <1>3, <1>4
      <3> QED
        BY ONLY <3>1, TextsConcat
    <2> QED
      BY <2>1, <2>2
  <1>6. (a \o b) \o z = a \o (b \o z) /\ Joined(A) \o (a \o (b \o z)) = (Joined(A) \o a) \o (b \o z)
    <2>1. (a \o b) \o z = a \o (b \o z)
      <3>1. a \in Texts /\ b \in Texts /\ z \in Texts
        BY <1>3, <1>4
      <3> QED
        BY ONLY <3>1, TextsAssociate
    <2> DEFINE y == b \o z
               j == Joined(A)
    <2>2. y \in Texts /\ j \in Texts /\ a \in Texts
      BY <1>3, <1>5
    <2> HIDE DEF y, j
    <2>3. j \o (a \o y) = (j \o a) \o y
      BY ONLY <2>2, TextsAssociate
    <2> QED
      BY <2>1, <2>3 DEF y, j
  <1>7. Text(e) = Joined(A) \o (r \o z)
    <2>1. A \in Rows /\ B \in Rows /\ r \in Seq(Chars)
      BY <1>1, <1>2
    <2> HIDE DEF r, R
    <2>2. Joined(Between(A, r, B)) = Joined(A) \o (r \o (<<LF>> \o Joined(B)))
      BY <2>1, JoinedBetween
    <2> QED
      BY <1>1, <2>2 DEF Text, z
  <1>8. SubSeq(e.rows, 1, e.cy) = A
    <2> DEFINE T == Seq(Chars)
    <2>1. A \in Seq(T) /\ B \in Seq(T) /\ r \in T
      BY <1>1, <1>2 DEF Rows
    <2> HIDE DEF T, r
    <2>2. <<r>> \o B \in Seq(T)
      BY <2>1, BetweenType
    <2>3. SubSeq(A \o (<<r>> \o B), 1, Len(A)) = A
      BY <2>1, <2>2, PartsOfConcat
    <2> QED
      BY <1>1, <2>3 DEF Between
  <1> QED
    BY <1>1, <1>5, <1>6, <1>7, <1>8 DEF Shows, Cursor, z

\* ... and before a row.
LEMMA ShowsAtRow ==
  ASSUME NEW e, NEW A, NEW B, AtRow(e, A, B)
  PROVE  Shows(e, Joined(A), Joined(B))
  <1>1. A \in Rows /\ B \in Rows /\ e.rows = A \o B /\ e.cy = Len(A) /\ e.cx = 0
    BY DEF AtRow
  <1>2. Text(e) = Joined(A) \o Joined(B)
    BY <1>1, JoinedConcat DEF Text
  <1>3. SubSeq(e.rows, 1, e.cy) = A
    <2> DEFINE T == Seq(Chars)
    <2>1. A \in Seq(T) /\ B \in Seq(T)
      BY <1>1 DEF Rows
    <2> HIDE DEF T
    <2>2. SubSeq(A \o B, 1, Len(A)) = A
      BY <2>1, PartsOfConcat
    <2> QED
      BY <1>1, <2>2
  <1>4. Joined(A) \in Texts /\ Joined(B) \in Texts /\ Len(Joined(A)) \in Nat
    BY <1>1, JoinedType, LenProperties DEF Texts
  <1>5. Cursor(e) = Len(Joined(A))
    <2>1. Cursor(e) = Len(Joined(A)) + 0
      BY <1>1, <1>3, Zenon DEF Cursor
    <2> QED
      BY <1>4, <2>1
  <1> QED
    BY <1>2, <1>4, <1>5 DEF Shows

\* Where the cursor of a text is.
LEMMA Place ==
  ASSUME NEW e, Inside(e)
  PROVE  \/ e.cy < numrows(e) /\ \E A, a, b, B : InRow(e, A, a, b, B)
         \/ e.cy = numrows(e) /\ AtRow(e, e.rows, << >>)
  <1>1. e \in Editors /\ e.cy <= numrows(e) /\ e.cx <= size(e, e.cy)
    BY DEF Inside, InText
  <1>2. e.cx \in Nat /\ e.cy \in Nat /\ numrows(e) \in Nat /\ e.rows \in Rows
    BY <1>1, Fields
  <1>3. CASE e.cy = numrows(e)
    <2>1. e.cx = 0
      BY <1>1, <1>2, <1>3 DEF size
    <2>2. << >> \in Rows /\ e.rows \o << >> = e.rows
      <3> DEFINE T == Seq(Chars)
                 q == e.rows
      <3>1. q \in Seq(T)
        BY <1>2 DEF Rows
      <3> HIDE DEF q
      <3>2. q \o << >> = q
        BY <3>1, ConcatEmptySeq
      <3> QED
        BY <3>2, JoinedEmpty DEF q
    <2> QED
      BY <1>2, <1>3, <2>1, <2>2 DEF AtRow, numrows
  <1>4. CASE e.cy < numrows(e)
    <2> DEFINE T == Seq(Chars)
               q == e.rows
    <2>1. q \in Seq(T) /\ e.cy \in 0 .. Len(q)
      BY <1>1, <1>2 DEF Rows, numrows
    <2> HIDE DEF T
    <2>2. PICK A \in Seq(T), R \in Seq(T) : q = A \o R /\ Len(A) = e.cy /\ Len(R) = Len(q) - e.cy
      <3>1. CutAt(T, q, e.cy)
        BY <2>1, Cut
      <3> QED
        BY <3>1 DEF CutAt
    <2>3. R # << >>
      BY <1>2, <1>4, <2>2, EmptySeq DEF numrows
    <2>4. PICK r \in T, B \in Seq(T) : R = <<r>> \o B
      BY <2>3, HeadCut
    <2>5. q = Between(A, r, B)
      BY <2>2, <2>4 DEF Between
    <2>6. r = q[e.cy + 1]
      <3>1. IsBetween(T, q, A, r, B)
        BY <2>5, BetweenIs
      <3> HIDE DEF q
      <3>2. q[Len(A) + 1] = r
        BY <3>1 DEF IsBetween
      <3> QED
        BY <2>2, <3>2
    <2>7. size(e, e.cy) = Len(r) /\ r \in Seq(Chars)
      BY <1>4, <2>6 DEF size, T
    <2>8. e.cx \in 0 .. Len(r)
      <3>1. Len(r) \in Nat
        BY <2>7, LenProperties
      <3> QED
        BY <1>1, <1>2, <2>7, <3>1
    <2>9. PICK a \in Seq(Chars), b \in Seq(Chars) : r = a \o b /\ Len(a) = e.cx
      <3>1. CutAt(Chars, r, e.cx)
        BY <2>7, <2>8, Cut
      <3> QED
        BY <3>1 DEF CutAt
    <2>10. InRow(e, A, a, b, B)
      BY <2>2, <2>5, <2>9 DEF InRow, Rows, T
    <2> QED
      BY <1>4, <2>10
  <1> QED
    BY <1>1, <1>2, <1>3, <1>4

\* The text is always shown around the cursor.
LEMMA AlwaysShown ==
  ASSUME NEW e, Inside(e)
  PROVE  Shows(e, Before(e), After(e))
  <1>1. \E x, y : Shows(e, x, y)
    BY Place, ShowsInRow, ShowsAtRow
  <1> QED
    BY <1>1, ShownParts

-----------------------------------------------------------------------------
(* What the operations do to the text around the cursor. *)

\* Rows around a row, or with a row more, less or changed.
RowsAround(A, r, B) ==
  /\ Between(A, r, B) \in Rows
  /\ Len(Between(A, r, B)) = Len(A) + 1 + Len(B)
  /\ Between(A, r, B)[Len(A) + 1] = r
  /\ Between(A, r, B) = (A \o <<r>>) \o B
  /\ InsertAt(A \o B, Len(A) + 1, r) = Between(A, r, B)
  /\ RemoveAt(Between(A, r, B), Len(A) + 1) = A \o B
  /\ A \o <<r>> \in Rows /\ Len(A \o <<r>>) = Len(A) + 1
  /\ <<r>> \o B \in Rows
  /\ Len(A) \in Nat /\ Len(B) \in Nat

\* Rows do have a row in this way.
LEMMA RowAround ==
  ASSUME NEW A \in Rows, NEW r \in Seq(Chars), NEW B \in Rows
  PROVE  RowsAround(A, r, B)
  <1> DEFINE T == Seq(Chars)
             s == Between(A, r, B)
  <1>1. A \in Seq(T) /\ B \in Seq(T) /\ r \in T
    BY DEF Rows
  <1>2. Rows = Seq(T)
    BY DEF Rows
  <1> HIDE DEF T
  <1>3. IsBetween(T, s, A, r, B)
    BY <1>1, BetweenIs
  <1>4. InsertAt(A \o B, Len(A) + 1, r) = s
    BY <1>1, InsertBetween
  <1>5. RemoveAt(s, Len(A) + 1) = A \o B
    BY <1>1, RemoveBetween
  <1>6. A \o <<r>> \in Seq(T) /\ Len(A \o <<r>>) = Len(A) + 1
    BY <1>1, AddedLast
  <1>7. s \in Seq(T) /\ <<r>> \o B \in Seq(T)
    BY <1>1, BetweenType
  <1>8. Len(A) \in Nat /\ Len(B) \in Nat
    BY <1>1, LenProperties
  <1> HIDE DEF s
  <1> QED
    BY <1>2, <1>3, <1>4, <1>5, <1>6, <1>7, <1>8, Zenon DEF IsBetween, RowsAround, s

\* A row between others is replaced.
LEMMA RowReplaced ==
  ASSUME NEW A \in Rows, NEW r \in Seq(Chars), NEW B \in Rows, NEW s \in Seq(Chars)
  PROVE  ReplaceAt(Between(A, r, B), Len(A) + 1, s) = Between(A, s, B)
  <1> DEFINE T == Seq(Chars)
  <1>1. A \in Seq(T) /\ B \in Seq(T) /\ r \in T /\ s \in T
    BY DEF Rows
  <1> HIDE DEF T
  <1> QED
    BY <1>1, ReplaceBetween

\* The rows are changed and the cursor is put somewhere.
Edited(e, r, x, y) == [[e EXCEPT !.rows = r, !.dirty = TRUE] EXCEPT !.cy = y, !.cx = x]

LEMMA EditedFields ==
  ASSUME NEW e \in Editors, NEW r, NEW x, NEW y
  PROVE  Edited(e, r, x, y).rows = r /\ Edited(e, r, x, y).cx = x /\ Edited(e, r, x, y).cy = y
  BY DEF Editors, Edited

LEMMA EditedColumn ==
  ASSUME NEW e \in Editors, NEW r
  PROVE  LET f == [e EXCEPT !.rows = r, !.dirty = TRUE]
         IN  \A x : [f EXCEPT !.cx = x] = Edited(e, r, x, e.cy)
  BY DEF Editors, Edited

\* The row of the cursor.
LEMMA InRowFacts ==
  ASSUME NEW e, NEW A, NEW a, NEW b, NEW B, InRow(e, A, a, b, B)
  PROVE  /\ RowsAround(A, a \o b, B)
         /\ e.rows[e.cy + 1] = a \o b /\ e.cy < numrows(e) /\ size(e, e.cy) = Len(a) + Len(b)
         /\ Len(a) \in Nat /\ Len(b) \in Nat /\ a \o b \in Seq(Chars)
  <1>1. /\ A \in Rows /\ a \in Seq(Chars) /\ b \in Seq(Chars) /\ B \in Rows
        /\ e.rows = Between(A, a \o b, B) /\ e.cy = Len(A) /\ e.cx = Len(a)
    BY DEF InRow
  <1>2. a \o b \in Seq(Chars) /\ Len(a \o b) = Len(a) + Len(b)
    BY <1>1, ConcatProperties
  <1>3. RowsAround(A, a \o b, B)
    BY <1>1, <1>2, RowAround
  <1>4. Len(a) \in Nat /\ Len(b) \in Nat
    BY <1>1, LenProperties
  <1> DEFINE r == a \o b
             q == e.rows
  <1>5. q = Between(A, r, B) /\ Len(r) = Len(a) + Len(b)
    BY <1>1, <1>2
  <1> HIDE DEF r, q
  <1>6. q[e.cy + 1] = r /\ e.cy < Len(q)
    BY <1>1, <1>3, <1>5 DEF RowsAround, r
  <1>7. size(e, e.cy) = Len(r)
    BY <1>6 DEF size, numrows, q
  <1> QED
    BY <1>2, <1>3, <1>4, <1>5, <1>6, <1>7 DEF numrows, r, q

\* A typed character comes behind the text before the cursor; behind the last line end
\* it begins a line of its own.
LineEndIfNone(y) == IF y = << >> THEN <<LF>> ELSE y

\* editorInsertChar().
LEMMA CharTyped ==
  ASSUME NEW e, Inside(e), NEW c \in Chars
  PROVE  Shows(editorInsertChar(e, c), Before(e) \o <<c>>, LineEndIfNone(After(e)))
  <1> DEFINE g == editorInsertChar(e, c)
  <1>1. e \in Editors
    BY DEF Inside
  <1>2. <<c>> \in Seq(Chars) /\ Len(<<c>>) = 1
    BY Single
  <1>3. << >> \in Seq(Chars) /\ << >> \in Texts /\ <<LF>> \in Texts /\ << >> \in Rows /\ Joined(<< >>) = << >>
    BY JoinedEmpty, EmptySeq, RowIsText DEF Texts
  <1>4. ASSUME e.cy = numrows(e), AtRow(e, e.rows, << >>)
        PROVE  Shows(g, Before(e) \o <<c>>, LineEndIfNone(After(e)))
    <2> DEFINE A == e.rows
               r == Between(A, <<c>>, << >>)
    <2>1. A \in Rows /\ A = A \o << >> /\ e.cy = Len(A) /\ e.cx = 0
      BY <1>4 DEF AtRow
    <2>2. RowsAround(A, <<c>>, << >>)
      BY <1>2, <1>3, <2>1, RowAround
    <2>3. InsertAt(e.rows, e.cy + 1, <<c>>) = r
      <3>1. InsertAt(A \o << >>, Len(A) + 1, <<c>>) = r
        BY <2>2 DEF RowsAround
      <3> QED
        BY <2>1, <3>1
    <2>4. g = Edited(e, r, 1, e.cy)
      <3> DEFINE f == [e EXCEPT !.rows = r, !.dirty = TRUE]
      <3>1. editorInsertRow(e, e.cy, <<c>>) = f /\ f.cx = 0
        BY <1>1, <2>1, <2>3 DEF editorInsertRow, Editors
      <3> HIDE DEF r, f
      <3>2. g = [f EXCEPT !.cx = 1]
        BY <1>4, <3>1 DEF editorInsertChar
      <3> HIDE DEF g
      <3> QED
        BY <1>1, <3>2, EditedColumn DEF f
    <2> HIDE DEF g
    <2>5. g.rows = Between(A, <<c>>, << >>) /\ g.cx = 1 /\ g.cy = Len(A)
      BY <1>1, <2>1, <2>4, EditedFields
    <2>6. <<c>> \o << >> = <<c>>
      BY <1>2, ConcatEmptySeq
    <2>7. InRow(g, A, <<c>>, << >>, << >>)
      BY <1>2, <1>3, <2>1, <2>5, <2>6 DEF InRow
    <2>8. Shows(g, Joined(A) \o <<c>>, << >> \o (<<LF>> \o << >>))
      BY <1>3, <2>7, ShowsInRow
    <2>9. << >> \o (<<LF>> \o << >>) = <<LF>>
      BY <1>3, ConcatEmptySeq DEF Texts
    <2>10. Shows(e, Joined(A), << >>)
      BY <1>3, <1>4, ShowsAtRow
    <2>11. Before(e) = Joined(A) /\ After(e) = << >>
      BY <2>10, ShownParts
    <2> QED
      BY <2>8, <2>9, <2>11 DEF LineEndIfNone
  <1>5. ASSUME NEW A, NEW a, NEW b, NEW B, InRow(e, A, a, b, B)
        PROVE  Shows(g, Before(e) \o <<c>>, LineEndIfNone(After(e)))
    <2> DEFINE y == b \o (<<LF>> \o Joined(B))
               s == a \o <<c>>
               r == Between(A, s \o b, B)
    <2>1. /\ A \in Rows /\ a \in Seq(Chars) /\ b \in Seq(Chars) /\ B \in Rows
          /\ e.rows = Between(A, a \o b, B) /\ e.cy = Len(A) /\ e.cx = Len(a)
      BY <1>5 DEF InRow
    <2>2. /\ e.rows[e.cy + 1] = a \o b /\ e.cy < numrows(e)
          /\ Len(a) \in Nat /\ a \o b \in Seq(Chars)
      BY <1>5, InRowFacts
    <2>3. s \in Seq(Chars) /\ Len(s) = Len(a) + 1
      BY <2>1, AddedLast
    <2>4. InsertAt(a \o b, Len(a) + 1, c) = s \o b /\ s \o b \in Seq(Chars)
      <3>1. InsertAt(a \o b, Len(a) + 1, c) = Between(a, c, b)
        BY <2>1, InsertBetween
      <3>2. IsBetween(Chars, Between(a, c, b), a, c, b)
        BY <2>1, BetweenIs
      <3> QED
        BY <3>1, <3>2 DEF IsBetween
    <2> HIDE DEF s
    <2>5. ReplaceAt(e.rows, e.cy + 1, s \o b) = r
      <3> DEFINE w == s \o b
                 v == a \o b
      <3>1. w \in Seq(Chars) /\ v \in Seq(Chars)
        BY <2>2, <2>4
      <3> HIDE DEF w, v
      <3>2. ReplaceAt(Between(A, v, B), Len(A) + 1, w) = Between(A, w, B)
        BY <2>1, <3>1, RowReplaced
      <3> QED
        BY <2>1, <3>2 DEF w, v
    <2>6. g = Edited(e, r, e.cx + 1, e.cy)
      <3> DEFINE f == [e EXCEPT !.rows = r, !.dirty = TRUE]
      <3>0. InsertAt(e.rows[e.cy + 1], e.cx + 1, c) = s \o b
        BY <2>1, <2>2, <2>4
      <3>1. editorRowInsertChar(e, e.cy, e.cx, c) = f /\ f.cx = e.cx
        <4>1. editorRowInsertChar(e, e.cy, e.cx, c) = f
          BY <2>5, <3>0 DEF editorRowInsertChar, SetRow
        <4> QED
          BY <1>1, <4>1 DEF Editors
      <3>2. e.cy # numrows(e)
        BY <2>1, <2>2, Fields, <1>1
      <3>3. g = [f EXCEPT !.cx = e.cx + 1]
        BY <3>1, <3>2 DEF editorInsertChar
      <3> HIDE DEF r, g
      <3> QED
        BY <1>1, <3>3, EditedColumn
    <2> HIDE DEF g
    <2>7. g.rows = r /\ g.cx = Len(s) /\ g.cy = Len(A)
      <3> HIDE DEF r
      <3> QED
        BY <1>1, <2>1, <2>3, <2>6, EditedFields
    <2>8. InRow(g, A, s, b, B)
      BY <2>1, <2>3, <2>7 DEF InRow
    <2>9. Shows(g, Joined(A) \o s, y)
      BY <2>8, ShowsInRow
    <2>10. Shows(e, Joined(A) \o a, y)
      BY <1>5, ShowsInRow
    <2>11. Before(e) = Joined(A) \o a /\ After(e) = y
      BY <2>10, ShownParts
    <2>12. Joined(A) \o s = (Joined(A) \o a) \o <<c>>
      <3>1. Joined(A) \in Texts /\ a \in Texts /\ <<c>> \in Texts
        BY <1>2, <2>1, JoinedType, RowIsText
      <3> QED
        BY ONLY <3>1, TextsAssociate DEF s
    <2>13. y # << >>
      <3>1. Joined(B) \in Texts /\ b \in Texts
        BY <2>1, JoinedType, RowIsText
      <3>2. <<LF>> \o Joined(B) \in Texts /\ <<LF>> \o Joined(B) # << >>
        BY <1>3, <3>1, ConcatEqualIffEmpty, TextsConcat DEF Texts
      <3> QED
        BY <3>1, <3>2, ConcatEqualIffEmpty DEF Texts
    <2> HIDE DEF y
    <2> QED
      BY <2>9, <2>11, <2>12, <2>13 DEF LineEndIfNone
  <1> QED
    BY <1>4, <1>5, Place

\* Return puts a line end before the cursor.
LEMMA NewlineTyped ==
  ASSUME NEW e, Inside(e)
  PROVE  Shows(editorInsertNewline(e), Before(e) \o <<LF>>, After(e))
  <1> DEFINE g == editorInsertNewline(e)
  <1>1. e \in Editors /\ e.cx \in Nat /\ e.cy \in Nat
    BY Fields DEF Inside
  <1>2. << >> \in Seq(Chars) /\ << >> \in Texts /\ <<LF>> \in Texts /\ << >> \in Rows /\ Joined(<< >>) = << >>
    BY JoinedEmpty, EmptySeq, RowIsText DEF Texts
  <1>3. ASSUME NEW A, NEW B, AtRow(e, A, B)
        PROVE  Shows(g, Before(e) \o <<LF>>, After(e))
    <2> DEFINE r == Between(A, << >>, B)
               C == A \o << << >> >>
    <2>1. A \in Rows /\ B \in Rows /\ e.rows = A \o B /\ e.cy = Len(A) /\ e.cx = 0
      BY <1>3 DEF AtRow
    <2>2. RowsAround(A, << >>, B)
      BY <1>2, <2>1, RowAround
    <2>3. InsertAt(e.rows, e.cy + 1, << >>) = r
      BY <2>1, <2>2 DEF RowsAround
    <2>4. g = Edited(e, r, 0, e.cy + 1)
      <3> DEFINE f == [e EXCEPT !.rows = r, !.dirty = TRUE]
      <3>1. editorInsertRow(e, e.cy, << >>) = f /\ f.cy = e.cy
        BY <1>1, <2>1, <2>3 DEF editorInsertRow, Editors
      <3>2. Edited(e, r, 0, e.cy + 1) = [f EXCEPT !.cy = e.cy + 1, !.cx = 0]
        BY DEF Edited
      <3> HIDE DEF r, f
      <3> QED
        BY <2>1, <3>1, <3>2 DEF editorInsertNewline
    <2> HIDE DEF g
    <2>5. g.rows = r /\ g.cx = 0 /\ g.cy = e.cy + 1
      <3> HIDE DEF r
      <3> QED
        BY <1>1, <2>4, EditedFields
    <2>6. r = C \o B /\ C \in Rows /\ Len(C) = Len(A) + 1
      BY <2>2 DEF RowsAround
    <2> HIDE DEF r, C
    <2>7. AtRow(g, C, B)
      BY <2>1, <2>5, <2>6 DEF AtRow
    <2>8. Shows(g, Joined(C), Joined(B))
      BY <2>7, ShowsAtRow
    <2>9. Joined(C) = Joined(A) \o <<LF>>
      <3>1. << << >> >> \in Rows /\ Joined(<< << >> >>) = << >> \o <<LF>>
        BY <1>2, JoinedOne
      <3>2. << >> \o <<LF>> = <<LF>>
        BY <1>2, ConcatEmptySeq DEF Texts
      <3>3. Joined(C) = Joined(A) \o Joined(<< << >> >>)
        BY <2>1, <3>1, JoinedConcat DEF C
      <3> QED
        BY <3>1, <3>2, <3>3
    <2>10. Shows(e, Joined(A), Joined(B))
      BY <1>3, ShowsAtRow
    <2> QED
      BY <2>8, <2>9, <2>10, ShownParts
  <1>4. ASSUME NEW A, NEW a, NEW b, NEW B, InRow(e, A, a, b, B), e.cx # 0
        PROVE  Shows(g, Before(e) \o <<LF>>, After(e))
    <2> DEFINE row == a \o b
               D == <<b>> \o B
               C == A \o <<a>>
               r == Between(A, a, D)
    <2>1. /\ A \in Rows /\ a \in Seq(Chars) /\ b \in Seq(Chars) /\ B \in Rows
          /\ e.rows = Between(A, row, B) /\ e.cy = Len(A) /\ e.cx = Len(a)
      BY <1>4 DEF InRow
    <2>2. /\ e.rows[e.cy + 1] = row /\ row \in Seq(Chars) /\ RowsAround(A, row, B)
          /\ Len(a) \in Nat
      BY <1>4, InRowFacts
    <2>3. SubSeq(row, 1, e.cx) = a /\ SubSeq(row, e.cx + 1, Len(row)) = b
      BY <2>1, PartsOfConcat
    <2> HIDE DEF row
    <2>4. InsertAt(e.rows, (e.cy + 1) + 1, b) = Between(A, row, D)
      <3> DEFINE F == A \o <<row>>
      <3>1. F \in Rows /\ Len(F) = Len(A) + 1 /\ Between(A, row, B) = F \o B
        BY <2>2 DEF RowsAround
      <3> HIDE DEF F
      <3>2. RowsAround(F, b, B)
        BY <2>1, <3>1, RowAround
      <3>3. InsertAt(F \o B, Len(F) + 1, b) = Between(F, b, B)
        BY <3>2 DEF RowsAround
      <3>4. D \in Rows
        BY <3>2 DEF RowsAround
      <3>5. RowsAround(A, row, D)
        BY <2>1, <2>2, <3>4, RowAround
      <3>6. Between(A, row, D) = F \o D
        BY <3>5 DEF RowsAround, F
      <3> QED
        BY <2>1, <3>1, <3>3, <3>6 DEF Between
    <2>5. D \in Rows
      <3>1. RowsAround(A, b, B)
        BY <2>1, RowAround
      <3> QED
        BY <3>1 DEF RowsAround
    <2>6. ReplaceAt(Between(A, row, D), e.cy + 1, a) = r
      <3> HIDE DEF D
      <3> QED
        BY <2>1, <2>2, <2>5, RowReplaced
    <2>7. r = C \o D /\ C \in Rows /\ Len(C) = Len(A) + 1
      <3>1. RowsAround(A, a, D)
        BY <2>1, <2>5, RowAround
      <3> QED
        BY <3>1 DEF RowsAround
    <2> HIDE DEF D, C, r
    <2>8. g = Edited(e, r, 0, e.cy + 1)
      <3> DEFINE q == Between(A, row, D)
                 h == [e EXCEPT !.rows = q, !.dirty = TRUE]
                 f == [e EXCEPT !.rows = r, !.dirty = TRUE]
      <3>1. editorInsertRow(e, e.cy + 1, SubSeq(row, e.cx + 1, Len(row))) = h
        BY <2>3, <2>4 DEF editorInsertRow
      <3>2. h.rows = q /\ [h EXCEPT !.rows = r, !.dirty = TRUE] = f /\ f.cy = e.cy
        <4> HIDE DEF q
        <4> QED
          BY <1>1 DEF Editors
      <3>3. ReplaceAt(h.rows, e.cy + 1, SubSeq(row, 1, e.cx)) = r
        BY <2>3, <2>6, <3>2
      <3>4. SetRow(h, e.cy, SubSeq(row, 1, e.cx)) = [h EXCEPT !.rows = ReplaceAt(h.rows, e.cy + 1, SubSeq(row, 1, e.cx)), !.dirty = TRUE]
        BY DEF SetRow
      <3> HIDE DEF h
      <3>5. SplitRow(e) = SetRow(h, e.cy, SubSeq(row, 1, e.cx))
        BY <2>2, <3>1 DEF SplitRow
      <3>6. SplitRow(e) = f
        BY <3>2, <3>3, <3>4, <3>5
      <3>7. Edited(e, r, 0, e.cy + 1) = [f EXCEPT !.cy = e.cy + 1, !.cx = 0]
        BY DEF Edited
      <3> HIDE DEF f
      <3> QED
        BY <1>4, <3>2, <3>6, <3>7 DEF editorInsertNewline
    <2> HIDE DEF g
    <2>9. g.rows = r /\ g.cx = 0 /\ g.cy = e.cy + 1
      BY <1>1, <2>8, EditedFields
    <2>10. AtRow(g, C, D)
      BY <2>1, <2>5, <2>7, <2>9 DEF AtRow
    <2>11. Shows(g, Joined(C), Joined(D))
      BY <2>10, ShowsAtRow
    <2>12. a \in Texts /\ b \in Texts /\ Joined(A) \in Texts /\ Joined(B) \in Texts
      BY <2>1, RowIsText, JoinedType
    <2>13. Joined(C) = (Joined(A) \o a) \o <<LF>>
      <3>1. <<a>> \in Rows /\ Joined(<<a>>) = a \o <<LF>>
        BY <2>1, JoinedOne
      <3>2. Joined(C) = Joined(A) \o Joined(<<a>>)
        BY <2>1, <3>1, JoinedConcat DEF C
      <3>3. Joined(A) \o (a \o <<LF>>) = (Joined(A) \o a) \o <<LF>>
        BY <1>2, <2>12, TextsAssociate
      <3> QED
        BY <3>1, <3>2, <3>3
    <2>14. Joined(D) = b \o (<<LF>> \o Joined(B))
      <3>1. <<b>> \in Rows /\ Joined(<<b>>) = b \o <<LF>>
        BY <2>1, JoinedOne
      <3>2. Joined(D) = Joined(<<b>>) \o Joined(B)
        BY <2>1, <3>1, JoinedConcat DEF D
      <3>3. (b \o <<LF>>) \o Joined(B) = b \o (<<LF>> \o Joined(B))
        BY <1>2, <2>12, TextsAssociate
      <3> QED
        BY <3>1, <3>2, <3>3
    <2>15. Shows(e, Joined(A) \o a, b \o (<<LF>> \o Joined(B)))
      BY <1>4, ShowsInRow
    <2> QED
      BY <2>11, <2>13, <2>14, <2>15, ShownParts
  <1>5. ASSUME NEW A, NEW a, NEW b, NEW B, InRow(e, A, a, b, B), e.cx = 0
        PROVE  AtRow(e, A, <<b>> \o B)
    <2>1. /\ A \in Rows /\ a \in Seq(Chars) /\ b \in Seq(Chars) /\ B \in Rows
          /\ e.rows = Between(A, a \o b, B) /\ e.cy = Len(A) /\ e.cx = Len(a)
      BY <1>5 DEF InRow
    <2>2. a = << >>
      BY <1>5, <2>1, EmptySeq
    <2>3. << >> \o b = b
      BY <2>1, ConcatEmptySeq
    <2>4. RowsAround(A, b, B)
      BY <2>1, RowAround
    <2> QED
      BY <1>5, <2>1, <2>2, <2>3, <2>4 DEF AtRow, RowsAround, Between
  <1> QED
    BY <1>3, <1>4, <1>5, Place

\* The text ends with one character or line end behind x.
EndsBehind(t, x) == \E l \in Chars \cup {LF} : t = x \o <<l>>

\* Backspace takes the character or the line end before the cursor away.
TakesBefore(e, g) == \E x : EndsBehind(Before(e), x) /\ Shows(g, x, After(e))

\* editorDelChar() takes one character or line end, or does nothing at the start and
\* below the last row.
LEMMA CharDeleted ==
  ASSUME NEW e, Inside(e)
  PROVE  \/ editorDelChar(e) = e
         \/ e.cy < numrows(e) /\ TakesBefore(e, editorDelChar(e))
  <1> DEFINE g == editorDelChar(e)
  <1>1. /\ e \in Editors /\ e.cx \in Nat /\ e.cy \in Nat /\ numrows(e) \in Nat
        /\ e.cy <= numrows(e) /\ e.cx <= size(e, e.cy)
    BY Fields DEF Inside, InText
  <1>2. CASE e.cy = numrows(e) \/ (e.cx = 0 /\ e.cy = 0)
    <2>1. ~(e.cy # numrows(e) /\ e.cx > 0) /\ (e.cx > 0 => e.cy # numrows(e))
      BY <1>1, <1>2 DEF size
    <2> QED
      BY <1>2, <2>1 DEF editorDelChar
  <1>3. ASSUME NEW A, NEW a, NEW b, NEW B, InRow(e, A, a, b, B), e.cx # 0
        PROVE  TakesBefore(e, g)
    <2> DEFINE u == Front(a)
               c == Last(a)
               r == Between(A, u \o b, B)
               y == b \o (<<LF>> \o Joined(B))
    <2>1. /\ A \in Rows /\ a \in Seq(Chars) /\ b \in Seq(Chars) /\ B \in Rows
          /\ e.rows = Between(A, a \o b, B) /\ e.cy = Len(A) /\ e.cx = Len(a)
      BY <1>3 DEF InRow
    <2>2. e.rows[e.cy + 1] = a \o b /\ e.cy < numrows(e) /\ a \o b \in Seq(Chars)
      BY <1>3, InRowFacts
    <2>3. u \in Seq(Chars) /\ c \in Chars /\ a = u \o <<c>> /\ Len(a) = Len(u) + 1 /\ Len(u) \in Nat
      <3>1. a # << >>
        BY <1>3, <2>1, EmptySeq
      <3>2. u \in Seq(Chars) /\ c \in Chars /\ a = Append(u, c) /\ Len(a) = Len(u) + 1 /\ Len(u) \in Nat
        BY <2>1, <3>1, FrontAndLast
      <3>3. Append(u, c) = u \o <<c>>
        BY <3>2, AppendIsConcat
      <3> QED
        BY <3>2, <3>3
    <2> HIDE DEF u, c
    <2>4. RemoveAt(a \o b, Len(u) + 1) = u \o b /\ u \o b \in Seq(Chars)
      <3>1. IsBetween(Chars, Between(u, c, b), u, c, b)
        BY <2>1, <2>3, BetweenIs
      <3>2. a \o b = Between(u, c, b)
        BY <2>3, <3>1 DEF IsBetween
      <3>3. RemoveAt(Between(u, c, b), Len(u) + 1) = u \o b
        BY <2>1, <2>3, RemoveBetween
      <3>4. u \o b \in Seq(Chars)
        BY <2>1, <2>3, ConcatProperties
      <3> QED
        BY <3>2, <3>3, <3>4
    <2>5. ReplaceAt(e.rows, e.cy + 1, u \o b) = r
      <3> DEFINE w == u \o b
                 v == a \o b
      <3>1. w \in Seq(Chars) /\ v \in Seq(Chars)
        BY <2>2, <2>4
      <3> HIDE DEF w, v
      <3>2. ReplaceAt(Between(A, v, B), Len(A) + 1, w) = Between(A, w, B)
        BY <2>1, <3>1, RowReplaced
      <3> QED
        BY <2>1, <3>2 DEF w, v
    <2>6. g = Edited(e, r, e.cx - 1, e.cy)
      <3> DEFINE f == [e EXCEPT !.rows = r, !.dirty = TRUE]
      <3>0. (e.cx - 1) + 1 = Len(u) + 1
        BY <2>1, <2>3
      <3>1. editorRowDelChar(e, e.cy, e.cx - 1) = f /\ f.cx = e.cx
        <4>1. editorRowDelChar(e, e.cy, e.cx - 1) = f
          BY <2>2, <2>4, <2>5, <3>0 DEF editorRowDelChar, SetRow
        <4> QED
          BY <1>1, <4>1 DEF Editors
      <3>2. g = [editorRowDelChar(e, e.cy, e.cx - 1) EXCEPT !.cx = @ - 1]
        <4>1. e.cy # numrows(e) /\ e.cx > 0
          BY <1>1, <1>3, <2>2
        <4> QED
          BY <4>1 DEF editorDelChar
      <3> HIDE DEF r, f, g
      <3>3. g = [f EXCEPT !.cx = e.cx - 1]
        BY <3>1, <3>2
      <3> QED
        BY <1>1, <3>3, EditedColumn DEF f
    <2> HIDE DEF g
    <2>7. g.rows = r /\ g.cx = Len(u) /\ g.cy = Len(A)
      <3>1. e.cx - 1 = Len(u)
        BY <2>1, <2>3
      <3> HIDE DEF r
      <3> QED
        BY <1>1, <2>1, <2>6, <3>1, EditedFields
    <2>8. InRow(g, A, u, b, B)
      BY <2>1, <2>3, <2>7 DEF InRow
    <2>9. Shows(g, Joined(A) \o u, y) /\ Shows(e, Joined(A) \o a, y)
      BY <1>3, <2>8, ShowsInRow
    <2>10. Joined(A) \o a = (Joined(A) \o u) \o <<c>>
      <3>1. Joined(A) \in Texts /\ u \in Texts /\ <<c>> \in Texts
        BY <2>1, <2>3, JoinedType, RowIsText, Single
      <3>2. Joined(A) \o (u \o <<c>>) = (Joined(A) \o u) \o <<c>>
        BY ONLY <3>1, TextsAssociate
      <3> QED
        BY <2>3, <3>2
    <2>11. Before(e) = Joined(A) \o a /\ After(e) = y
      BY <2>9, ShownParts
    <2> HIDE DEF y
    <2>12. EndsBehind(Before(e), Joined(A) \o u)
      BY <2>3, <2>10, <2>11 DEF EndsBehind
    <2> QED
      BY <2>9, <2>11, <2>12 DEF TakesBefore
  <1>4. ASSUME NEW A, NEW a, NEW b, NEW B, InRow(e, A, a, b, B), e.cx = 0, e.cy # 0
        PROVE  TakesBefore(e, g)
    <2> DEFINE C == Front(A)
               p == Last(A)
               s == p \o b
               D == <<b>> \o B
               r == Between(C, s, B)
               y == b \o (<<LF>> \o Joined(B))
    <2>1. /\ A \in Rows /\ a \in Seq(Chars) /\ b \in Seq(Chars) /\ B \in Rows
          /\ e.rows = Between(A, a \o b, B) /\ e.cy = Len(A) /\ e.cx = Len(a)
      BY <1>4 DEF InRow
    <2>2. a \o b = b
      <3>1. a = << >>
        BY <1>4, <2>1, EmptySeq
      <3> QED
        BY <2>1, <3>1, ConcatEmptySeq
    <2>3. /\ e.rows = Between(A, b, B) /\ e.rows[e.cy + 1] = b /\ e.cy < numrows(e)
      <3> DEFINE v == a \o b
      <3>1. e.rows = Between(A, v, B)
        BY <2>1
      <3>2. e.rows[e.cy + 1] = v /\ e.cy < numrows(e)
        BY <1>4, InRowFacts
      <3> HIDE DEF v
      <3>3. v = b
        BY <2>2 DEF v
      <3> QED
        BY <3>1, <3>2, <3>3
    <2>4. C \in Rows /\ p \in Seq(Chars) /\ A = C \o <<p>> /\ Len(A) = Len(C) + 1 /\ Len(C) \in Nat
      <3> DEFINE T == Seq(Chars)
      <3>1. A # << >> /\ A \in Seq(T) /\ Rows = Seq(T)
        BY <1>4, <2>1, EmptySeq DEF Rows
      <3> HIDE DEF T
      <3>2. C \in Seq(T) /\ p \in T /\ A = Append(C, p) /\ Len(A) = Len(C) + 1 /\ Len(C) \in Nat
        BY <3>1, FrontAndLast
      <3>3. Append(C, p) = C \o <<p>>
        BY <3>2, AppendIsConcat
      <3> QED
        BY <3>1, <3>2, <3>3 DEF T
    <2> HIDE DEF C, p
    <2>5. s \in Seq(Chars)
      BY <2>1, <2>4, ConcatProperties
    <2> HIDE DEF s
    <2>6. D \in Rows /\ e.rows = Between(C, p, D)
      <3>1. RowsAround(A, b, B)
        BY <2>1, RowAround
      <3>2. D \in Rows
        BY <3>1 DEF RowsAround
      <3> HIDE DEF D
      <3>3. RowsAround(C, p, D)
        BY <2>4, <3>2, RowAround
      <3>4. Between(C, p, D) = A \o D
        BY <2>4, <3>3 DEF RowsAround
      <3> QED
        BY <2>3, <3>2, <3>4 DEF Between, D
    <2>7. e.rows[(e.cy - 1) + 1] = p /\ size(e, e.cy - 1) = Len(p) /\ e.cy - 1 = Len(C)
      <3>1. RowsAround(C, p, D)
        BY <2>4, <2>6, RowAround
      <3>2. e.cy - 1 = Len(C) /\ (e.cy - 1) + 1 = Len(C) + 1 /\ e.cy - 1 < numrows(e)
        BY <1>1, <2>1, <2>4
      <3> DEFINE q == e.rows
      <3>3. q[Len(C) + 1] = p
        BY <2>6, <3>1 DEF RowsAround
      <3> QED
        BY <3>2, <3>3 DEF size
    <2>8. ReplaceAt(e.rows, (e.cy - 1) + 1, s) = Between(C, s, D)
      <3>1. ReplaceAt(Between(C, p, D), Len(C) + 1, s) = Between(C, s, D)
        BY <2>4, <2>5, <2>6, RowReplaced
      <3> QED
        BY <2>6, <2>7, <3>1
    <2>9. RemoveAt(Between(C, s, D), e.cy + 1) = r
      <3> DEFINE F == C \o <<s>>
      <3>1. RowsAround(C, s, D) /\ RowsAround(C, s, B)
        BY <2>1, <2>4, <2>5, <2>6, RowAround
      <3>2. Between(C, s, D) = F \o D /\ F \in Rows /\ Len(F) = Len(C) + 1 /\ r = F \o B
        BY <3>1 DEF RowsAround
      <3> HIDE DEF F
      <3>3. RowsAround(F, b, B)
        BY <2>1, <3>2, RowAround
      <3>4. RemoveAt(Between(F, b, B), Len(F) + 1) = F \o B
        BY <3>3 DEF RowsAround
      <3>5. Between(F, b, B) = F \o D
        BY DEF Between
      <3> QED
        BY <2>1, <2>4, <3>2, <3>4, <3>5
    <2> HIDE DEF D, r
    <2>10. g = Edited(e, r, Len(p), e.cy - 1)
      <3> DEFINE q == Between(C, s, D)
                 h == [e EXCEPT !.rows = q, !.dirty = TRUE]
                 f == [e EXCEPT !.rows = r, !.dirty = TRUE]
      <3>1. editorRowAppendString(e, e.cy - 1, e.rows[e.cy + 1]) = h
        BY <2>3, <2>7, <2>8 DEF editorRowAppendString, SetRow, s
      <3>2. h.rows = q /\ [h EXCEPT !.rows = r, !.dirty = TRUE] = f /\ f.cy = e.cy
        <4> HIDE DEF q
        <4> QED
          BY <1>1 DEF Editors
      <3> HIDE DEF h
      <3>3. editorDelRow(h, e.cy) = f
        BY <2>9, <3>2 DEF editorDelRow
      <3> HIDE DEF f
      <3>4. g = JoinRows(e)
        <4>1. e.cy # numrows(e) /\ ~(e.cx > 0)
          BY <1>1, <1>4, <2>3
        <4> QED
          BY <1>4, <4>1 DEF editorDelChar
      <3>5. JoinRows(e) = [f EXCEPT !.cx = Len(p), !.cy = e.cy - 1]
        BY <2>7, <3>1, <3>2, <3>3 DEF JoinRows, EndOfPrevious
      <3>6. [f EXCEPT !.cx = Len(p), !.cy = e.cy - 1] = [f EXCEPT !.cy = e.cy - 1, !.cx = Len(p)]
        BY <1>1 DEF Editors, f
      <3> QED
        BY <3>4, <3>5, <3>6 DEF Edited, f
    <2> HIDE DEF g
    <2>11. g.rows = r /\ g.cx = Len(p) /\ g.cy = Len(C)
      BY <1>1, <2>7, <2>10, EditedFields
    <2>12. InRow(g, C, p, b, B)
      BY <2>1, <2>4, <2>11 DEF InRow, r, s
    <2>13. Shows(g, Joined(C) \o p, y)
      BY <2>12, ShowsInRow
    <2>14. Shows(e, Joined(A) \o << >>, y)
      <3>1. a = << >>
        BY <1>4, <2>1, EmptySeq
      <3> QED
        BY <1>4, <3>1, ShowsInRow
    <2>15. p \in Texts /\ Joined(C) \in Texts /\ Joined(A) \in Texts /\ <<LF>> \in Texts
      BY <2>1, <2>4, RowIsText, JoinedType
    <2>16. Joined(A) \o << >> = (Joined(C) \o p) \o <<LF>>
      <3>1. <<p>> \in Rows /\ Joined(<<p>>) = p \o <<LF>>
        BY <2>4, JoinedOne
      <3>2. Joined(C \o <<p>>) = Joined(C) \o Joined(<<p>>)
        BY <2>4, <3>1, JoinedConcat
      <3>3. Joined(C) \o (p \o <<LF>>) = (Joined(C) \o p) \o <<LF>>
        BY ONLY <2>15, TextsAssociate
      <3>4. Joined(A) \o << >> = Joined(A)
        BY <2>15, ConcatEmptySeq DEF Texts
      <3> QED
        BY <2>4, <3>1, <3>2, <3>3, <3>4
    <2>17. Before(e) = Joined(A) \o << >> /\ After(e) = y
      BY <2>14, ShownParts
    <2> HIDE DEF y
    <2>18. EndsBehind(Before(e), Joined(C) \o p)
      BY <2>16, <2>17 DEF EndsBehind
    <2> QED
      BY <2>13, <2>17, <2>18 DEF TakesBefore
  <1> QED
    BY <1>2, <1>3, <1>4, Place

\* The cursor is in the text, ...
LEMMA CursorInText ==
  ASSUME NEW e, Inside(e)
  PROVE  /\ Text(e) \in Texts /\ Cursor(e) \in Nat /\ Len(Text(e)) \in Nat
         /\ Cursor(e) <= Len(Text(e))
  <1>1. Shows(e, Before(e), After(e))
    BY AlwaysShown
  <1> DEFINE x == Before(e)
             y == After(e)
  <1>2. x \in Texts /\ y \in Texts /\ Text(e) = x \o y /\ Cursor(e) = Len(x)
    BY <1>1 DEF Shows
  <1> HIDE DEF x, y
  <1>3. x \o y \in Texts /\ Len(x \o y) = Len(x) + Len(y)
    BY <1>2, TextsConcat
  <1>4. Len(x) \in Nat /\ Len(y) \in Nat
    BY <1>2, LenProperties DEF Texts
  <1> QED
    BY <1>2, <1>3, <1>4

\* ... which ends with a line end.
EndsLine(t) == t = << >> \/ t[Len(t)] = LF

\* The rows joined end with a line end.
LEMMA JoinedEndsLine ==
  ASSUME NEW rows \in Rows
  PROVE  EndsLine(Joined(rows))
  <1>1. CASE rows = << >>
    BY <1>1, JoinedEmpty DEF EndsLine
  <1>2. CASE rows # << >>
    <2> DEFINE T == Seq(Chars)
               C == Front(rows)
               p == Last(rows)
    <2>1. C \in Rows /\ p \in Seq(Chars) /\ rows = C \o <<p>>
      <3>1. rows \in Seq(T) /\ Rows = Seq(T)
        BY DEF Rows
      <3> HIDE DEF T
      <3>2. C \in Seq(T) /\ p \in T /\ rows = Append(C, p)
        BY <1>2, <3>1, FrontAndLast
      <3>3. Append(C, p) = C \o <<p>>
        BY <3>2, AppendIsConcat
      <3> QED
        BY <3>1, <3>2, <3>3 DEF T
    <2> HIDE DEF C, p
    <2>2. <<p>> \in Rows /\ Joined(<<p>>) = p \o <<LF>>
      BY <2>1, JoinedOne
    <2>3. Joined(C \o <<p>>) = Joined(C) \o (p \o <<LF>>)
      <3>1. C \o <<p>> \in Rows /\ Joined(C \o <<p>>) = Joined(C) \o Joined(<<p>>)
        BY <2>1, <2>2, JoinedConcat
      <3> QED
        BY <2>2, <3>1
    <2>4. Joined(C) \in Texts /\ p \in Texts /\ <<LF>> \in Texts
      BY <2>1, JoinedType, RowIsText
    <2>5. Joined(C) \o (p \o <<LF>>) = (Joined(C) \o p) \o <<LF>>
      BY ONLY <2>4, TextsAssociate
    <2> DEFINE j == Joined(C) \o p
               t == j \o <<LF>>
    <2>6. j \in Texts
      BY <2>4, TextsConcat
    <2> HIDE DEF j
    <2>7. Len(j) \in Nat /\ LF \in Chars \cup {LF} /\ <<LF>> \in Texts /\ Len(<<LF>>) = 1 /\ <<LF>>[1] = LF
      BY <2>4, <2>6, LenProperties DEF Texts
    <2>8. /\ t \in Texts /\ Len(t) = Len(j) + Len(<<LF>>)
          /\ \A k \in 1 .. Len(j) + Len(<<LF>>) : t[k] = IF k <= Len(j) THEN j[k] ELSE <<LF>>[k - Len(j)]
      BY <2>6, <2>7, ConcatProperties DEF Texts
    <2>9. Len(t) \in 1 .. Len(j) + Len(<<LF>>) /\ ~(Len(t) <= Len(j)) /\ Len(t) - Len(j) = 1
      BY <2>7, <2>8
    <2> HIDE DEF t
    <2>10. t[Len(t)] = LF
      BY <2>7, <2>8, <2>9
    <2> QED
      BY <2>1, <2>3, <2>5, <2>10 DEF EndsLine, j, t
  <1> QED
    BY <1>1, <1>2

-----------------------------------------------------------------------------
(* The keys that only move the cursor, and Delete, which moves it first. *)

\* A move changes no row and does not count as a change.
LEMMA MoveKeepsRows ==
  ASSUME NEW e, Inside(e), NEW k
  PROVE  editorMoveCursor(e, k).rows = e.rows /\ editorMoveCursor(e, k).dirty = e.dirty
  <1> DEFINE m == Moved(e, k)
  <1>1. e \in Editors
    BY DEF Inside
  <1>2. m \in Editors /\ m.rows = e.rows
    BY MovedInLines
  <1>3. m.dirty = e.dirty
    BY <1>1 DEF Moved, Editors
  <1> HIDE DEF m
  <1> QED
    BY <1>2, <1>3 DEF editorMoveCursor, Snapped, Editors, m

\* The character or the line end behind the cursor.
StepsOver(e, m) ==
  \E l \in Chars \cup {LF}, y \in Texts : /\ After(e) = <<l>> \o y
                                /\ Shows(m, Before(e) \o <<l>>, y)

\* To the start of the next line.
LEMMA NextLineSet ==
  ASSUME NEW e \in Editors
  PROVE  LET f == [e EXCEPT !.cy = e.cy + 1, !.cx = 0]
         IN  f \in Editors /\ f.rows = e.rows /\ f.cx = 0 /\ f.cy = e.cy + 1
  <1> DEFINE y == e.cy + 1
  <1>1. y \in Nat /\ 0 \in Nat
    BY Fields
  <1> HIDE DEF y
  <1>2. [e EXCEPT !.cy = y, !.cx = 0] = Placed(e, 0, y)
    BY DEF Placed
  <1>3. /\ Placed(e, 0, y) \in Editors /\ Placed(e, 0, y).rows = e.rows
        /\ Placed(e, 0, y).cx = 0 /\ Placed(e, 0, y).cy = y
    BY <1>1, PlaceSet
  <1> QED
    BY <1>2, <1>3 DEF y

\* The right arrow steps over one character or line end, if there is one.
LEMMA MovedRight ==
  ASSUME NEW e, Inside(e)
  PROVE  editorMoveCursor(e, "right") = e \/ StepsOver(e, editorMoveCursor(e, "right"))
  <1> DEFINE m == editorMoveCursor(e, "right")
  <1>1. /\ e \in Editors /\ e.cx \in Nat /\ e.cy \in Nat /\ numrows(e) \in Nat
        /\ e.cy <= numrows(e) /\ e.cx <= size(e, e.cy) /\ size(e, e.cy) \in Nat
    BY Fields DEF Inside, InText
  <1>2. CASE e.cy = numrows(e)
    <2>1. Moved(e, "right") = e
      BY <1>1, <1>2 DEF Moved
    <2> QED
      BY <1>1, <2>1 DEF editorMoveCursor, Snapped
  <1>3. ASSUME NEW A, NEW a, NEW b, NEW B, InRow(e, A, a, b, B), b # << >>
        PROVE  StepsOver(e, m)
    <2>1. /\ A \in Rows /\ a \in Seq(Chars) /\ b \in Seq(Chars) /\ B \in Rows
          /\ e.rows = Between(A, a \o b, B) /\ e.cy = Len(A) /\ e.cx = Len(a)
      BY <1>3 DEF InRow
    <2>2. PICK c \in Chars, d \in Seq(Chars) : b = <<c>> \o d
      BY <1>3, <2>1, HeadCut
    <2> DEFINE s == a \o <<c>>
               z == <<LF>> \o Joined(B)
               y == d \o z
    <2>3. s \in Seq(Chars) /\ Len(s) = Len(a) + 1
      BY <2>1, <2>2, AddedLast
    <2>4. a \o b = s \o d
      <3>1. a \in Seq(Chars) /\ <<c>> \in Seq(Chars) /\ d \in Seq(Chars)
        BY <2>1, <2>2
      <3>2. (a \o <<c>>) \o d = a \o (<<c>> \o d)
        BY <3>1, ConcatAssociative
      <3> QED
        BY <2>2, <3>2
    <2>5. m.rows = e.rows /\ m.cx = Len(s) /\ m.cy = e.cy
      <3> DEFINE f == [e EXCEPT !.cx = e.cx + 1]
      <3>1. Len(a) \in Nat /\ Len(b) \in Nat /\ Len(b) # 0
        BY <1>3, <2>1, EmptySeq, LenProperties
      <3>2. size(e, e.cy) = Len(a) + Len(b) /\ e.cy < numrows(e)
        BY <1>3, InRowFacts
      <3>3. e.cx < size(e, e.cy) /\ e.cx + 1 <= size(e, e.cy)
        BY <2>1, <3>1, <3>2
      <3>4. Moved(e, "right") = f
        BY <1>1, <3>2, <3>3 DEF Moved
      <3>5. f.rows = e.rows /\ f.cx = e.cx + 1 /\ f.cy = e.cy
        BY <1>1 DEF Editors
      <3> HIDE DEF f
      <3>6. size(f, f.cy) = size(e, e.cy)
        BY <3>5 DEF size, numrows
      <3>7. m = f
        BY <1>1, <3>3, <3>4, <3>5, <3>6 DEF editorMoveCursor, Snapped
      <3> QED
        BY <2>1, <2>3, <3>5, <3>7
    <2> HIDE DEF m
    <2>6. InRow(m, A, s, d, B)
      <3> DEFINE v == a \o b
      <3>1. v = s \o d /\ e.rows = Between(A, v, B)
        BY <2>1, <2>4
      <3> HIDE DEF v, s
      <3> QED
        BY <2>1, <2>2, <2>3, <2>5, <3>1 DEF InRow
    <2>7. Shows(m, Joined(A) \o s, y)
      BY <2>6, ShowsInRow
    <2>8. Before(e) = Joined(A) \o a /\ After(e) = b \o z
      BY <1>3, ShowsInRow, ShownParts
    <2>9. /\ Joined(A) \in Texts /\ a \in Texts /\ <<c>> \in Texts /\ d \in Texts
          /\ z \in Texts
      <3>1. Joined(A) \in Texts /\ a \in Texts /\ d \in Texts /\ Joined(B) \in Texts /\ <<LF>> \in Texts
        BY <2>1, <2>2, JoinedType, RowIsText
      <3>2. <<c>> \in Texts
        BY <2>2, Single, RowIsText
      <3>3. z \in Texts
        BY <3>1, TextsConcat
      <3> QED
        BY <3>1, <3>2, <3>3
    <2> HIDE DEF z
    <2>10. Joined(A) \o s = (Joined(A) \o a) \o <<c>>
      <3>1. (Joined(A) \o a) \o <<c>> = Joined(A) \o (a \o <<c>>)
        BY ONLY <2>9, TextsAssociate
      <3> QED
        BY <3>1
    <2>11. b \o z = <<c>> \o y
      <3>1. (<<c>> \o d) \o z = <<c>> \o (d \o z)
        BY ONLY <2>9, TextsAssociate
      <3> QED
        BY <2>2, <3>1
    <2> HIDE DEF y, s
    <2> QED
      BY <2>2, <2>7, <2>8, <2>10, <2>11 DEF StepsOver, Shows
  <1>4. ASSUME NEW A, NEW a, NEW b, NEW B, InRow(e, A, a, b, B), b = << >>
        PROVE  StepsOver(e, m)
    <2>1. /\ A \in Rows /\ a \in Seq(Chars) /\ b \in Seq(Chars) /\ B \in Rows
          /\ e.rows = Between(A, a \o b, B) /\ e.cy = Len(A) /\ e.cx = Len(a)
      BY <1>4 DEF InRow
    <2>2. a \o b = a
      BY <1>4, <2>1, ConcatEmptySeq
    <2> DEFINE C == A \o <<a>>
               y == Joined(B)
    <2>3. C \in Rows /\ Len(C) = Len(A) + 1 /\ e.rows = C \o B
      <3>1. RowsAround(A, a, B)
        BY <2>1, RowAround
      <3> DEFINE v == a \o b
      <3>2. e.rows = Between(A, v, B) /\ v = a
        BY <2>1, <2>2
      <3> HIDE DEF v
      <3> QED
        BY <3>1, <3>2 DEF RowsAround
    <2>4. m.rows = e.rows /\ m.cx = 0 /\ m.cy = Len(C)
      <3> DEFINE f == [e EXCEPT !.cy = e.cy + 1, !.cx = 0]
      <3>1. Len(a) \in Nat /\ Len(b) = 0
        BY <1>4, <2>1, EmptySeq, LenProperties
      <3>2. size(e, e.cy) = Len(a) + Len(b) /\ e.cy < numrows(e)
        BY <1>4, InRowFacts
      <3>3. e.cx = size(e, e.cy)
        BY <2>1, <3>1, <3>2
      <3>4. Moved(e, "right") = f
        BY <1>1, <3>2, <3>3 DEF Moved
      <3>5. f \in Editors /\ f.rows = e.rows /\ f.cx = 0 /\ f.cy = e.cy + 1
        BY <1>1, NextLineSet
      <3> HIDE DEF f
      <3>6. size(f, f.cy) \in Nat
        BY <1>1, <3>5, Fields
      <3>7. m = f
        BY <3>4, <3>5, <3>6 DEF editorMoveCursor, Snapped
      <3> QED
        BY <2>1, <2>3, <3>5, <3>7
    <2> HIDE DEF m
    <2>5. AtRow(m, C, B)
      BY <2>1, <2>3, <2>4 DEF AtRow
    <2>6. Shows(m, Joined(C), y)
      BY <2>5, ShowsAtRow
    <2>7. Before(e) = Joined(A) \o a /\ After(e) = b \o (<<LF>> \o y)
      BY <1>4, ShowsInRow, ShownParts
    <2>8. Joined(A) \in Texts /\ a \in Texts /\ <<LF>> \in Texts /\ y \in Texts
      BY <2>1, JoinedType, RowIsText
    <2>9. Joined(C) = (Joined(A) \o a) \o <<LF>>
      <3>1. <<a>> \in Rows /\ Joined(<<a>>) = a \o <<LF>>
        BY <2>1, JoinedOne
      <3>2. Joined(A \o <<a>>) = Joined(A) \o Joined(<<a>>)
        BY <2>1, <3>1, JoinedConcat
      <3>3. (Joined(A) \o a) \o <<LF>> = Joined(A) \o (a \o <<LF>>)
        BY ONLY <2>8, TextsAssociate
      <3> QED
        BY <3>1, <3>2, <3>3
    <2> HIDE DEF y, C
    <2>10. b \o (<<LF>> \o y) = <<LF>> \o y
      <3>1. <<LF>> \o y \in Texts
        BY <2>8, TextsConcat
      <3> QED
        BY <1>4, <3>1, ConcatEmptySeq DEF Texts
    <2> QED
      BY <2>6, <2>7, <2>8, <2>9, <2>10 DEF StepsOver
  <1> HIDE DEF m
  <1> QED
    BY <1>1, <1>2, <1>3, <1>4, Place DEF m

\* The middle of three parts.
LEMMA MiddlePart ==
  ASSUME NEW a \in Texts, NEW b \in Texts, NEW c \in Texts
  PROVE  SubSeq((a \o b) \o c, Len(a) + 1, Len(a) + Len(b)) = b
  <1> DEFINE d == a \o b
             t == d \o c
             m == SubSeq(t, Len(a) + 1, Len(a) + Len(b))
             S == Chars \cup {LF}
  <1>1. a \in Seq(S) /\ b \in Seq(S) /\ c \in Seq(S)
    BY DEF Texts
  <1> HIDE DEF S
  <1>2. Len(a) \in Nat /\ Len(b) \in Nat /\ Len(c) \in Nat
    BY <1>1, LenProperties
  <1>3. /\ d \in Seq(S) /\ Len(d) = Len(a) + Len(b)
        /\ \A k \in 1 .. Len(a) + Len(b) : d[k] = IF k <= Len(a) THEN a[k] ELSE b[k - Len(a)]
    BY <1>1, ConcatProperties
  <1> HIDE DEF d
  <1>10. d \in Seq(S)
    BY <1>3
  <1>4. /\ t \in Seq(S) /\ Len(t) = Len(d) + Len(c)
        /\ \A k \in 1 .. Len(d) + Len(c) : t[k] = IF k <= Len(d) THEN d[k] ELSE c[k - Len(d)]
    BY <1>1, <1>10, ConcatProperties
  <1> HIDE DEF t
  <1>5. Len(a) + 1 \in Int /\ Len(a) + Len(b) \in Int /\ 1 <= Len(a) + 1 /\ Len(a) + Len(b) <= Len(t)
    BY <1>2, <1>3, <1>4
  <1>6. /\ m \in Seq(S)
        /\ Len(m) = IF Len(a) + 1 <= Len(a) + Len(b) THEN (Len(a) + Len(b)) - (Len(a) + 1) + 1 ELSE 0
        /\ \A k \in 1 .. (Len(a) + Len(b)) - (Len(a) + 1) + 1 : m[k] = t[Len(a) + 1 + k - 1]
    BY <1>4, <1>5, Part
  <1> HIDE DEF m
  <1>7. Len(m) = Len(b)
    BY <1>2, <1>6
  <1>8. ASSUME NEW k \in 1 .. Len(b) PROVE m[k] = b[k]
    <2>1. /\ k \in 1 .. (Len(a) + Len(b)) - (Len(a) + 1) + 1 /\ Len(a) + 1 + k - 1 = Len(a) + k
          /\ Len(a) + k \in 1 .. Len(d) + Len(c) /\ Len(a) + k <= Len(d)
          /\ Len(a) + k \in 1 .. Len(a) + Len(b) /\ ~(Len(a) + k <= Len(a)) /\ (Len(a) + k) - Len(a) = k
      BY <1>2, <1>3, <1>8
    <2>2. m[k] = t[Len(a) + k]
      BY <1>6, <2>1
    <2>3. t[Len(a) + k] = d[Len(a) + k]
      BY <1>4, <2>1
    <2>4. d[Len(a) + k] = b[k]
      BY <1>3, <2>1
    <2> QED
      BY <2>2, <2>3, <2>4
  <1>9. m = b
    BY <1>1, <1>6, <1>7, <1>8, SeqEqual
  <1> QED
    BY <1>9 DEF m, t, d

-----------------------------------------------------------------------------
(* What a key may do to the text, in the terms of the editor and of TextBuffer. *)

TypesIn(e, g) == \E s \in Seq(Chars) : s # << >> /\ Shows(g, Before(e) \o s, LineEndIfNone(After(e)))

Breaks(e, g) == Shows(g, Before(e) \o <<LF>>, After(e))

TakesAfter(e, g) == \E l \in Chars \cup {LF}, y \in Texts : After(e) = <<l>> \o y /\ Shows(g, Before(e), y)

Changes(e, g) == \/ g.rows = e.rows
                 \/ TypesIn(e, g) \/ Breaks(e, g) \/ TakesBefore(e, g) \/ TakesAfter(e, g)

\* TextBuffer!Type.
LEMMA TypesInMeans ==
  ASSUME NEW e, NEW g, Inside(e), TypesIn(e, g)
  PROVE  LET s == SubSeq(Text(g), Cursor(e) + 1, Cursor(g))
         IN  /\ Cursor(g) > Cursor(e) /\ Len(Text(g)) >= Cursor(g)
             /\ Text(g) = Before(e) \o s \o (IF After(e) = << >> THEN <<LF>> ELSE << >>) \o After(e)
             /\ Cursor(g) = Cursor(e) + Len(s)
  <1> DEFINE x == Before(e)
             y == After(e)
             l == IF y = << >> THEN <<LF>> ELSE << >>
             z == LineEndIfNone(y)
  <1>1. x \in Texts /\ y \in Texts /\ Cursor(e) = Len(x)
    BY AlwaysShown DEF Shows
  <1>2. PICK s \in Seq(Chars) : s # << >> /\ Shows(g, x \o s, z)
    BY DEF TypesIn
  <1>3. Text(g) = (x \o s) \o z /\ Cursor(g) = Len(x \o s) /\ z \in Texts
    BY <1>2 DEF Shows
  <1>4. s \in Texts /\ << >> \in Texts /\ <<LF>> \in Texts
    BY <1>2, RowIsText, EmptySeq DEF Texts
  <1> HIDE DEF x, y
  <1>5. l \in Texts /\ z = l \o y
    BY <1>1, <1>4, ConcatEmptySeq DEF LineEndIfNone, Texts
  <1> HIDE DEF l, z
  <1>6. Len(x \o s) = Len(x) + Len(s) /\ x \o s \in Texts
    BY <1>1, <1>4, TextsConcat
  <1>7. Len(x) \in Nat /\ Len(s) \in Nat /\ Len(s) # 0 /\ Len(z) \in Nat
    BY <1>1, <1>2, <1>3, <1>4, LenProperties, EmptySeq DEF Texts
  <1>8. (x \o s) \o z \in Texts /\ Len((x \o s) \o z) = Len(x \o s) + Len(z)
    BY <1>3, <1>6, TextsConcat
  <1>9. SubSeq((x \o s) \o z, Len(x) + 1, Len(x) + Len(s)) = s
    BY <1>1, <1>3, <1>4, MiddlePart
  <1>10. ((x \o s) \o l) \o y = (x \o s) \o z
    <2> DEFINE u == x \o s
    <2>1. u \in Texts
      BY <1>6
    <2> HIDE DEF u
    <2>2. (u \o l) \o y = u \o (l \o y)
      BY <1>1, <1>5, <2>1, TextsAssociate
    <2> QED
      BY <1>5, <2>2 DEF u
  <1>11. SubSeq(Text(g), Cursor(e) + 1, Cursor(g)) = s
    BY <1>1, <1>3, <1>6, <1>9
  <1>12. Text(g) = ((x \o s) \o l) \o y
    BY <1>3, <1>10
  <1>13. Cursor(g) > Cursor(e) /\ Len(Text(g)) >= Cursor(g) /\ Cursor(g) = Cursor(e) + Len(s)
    BY <1>1, <1>3, <1>6, <1>7, <1>8
  <1> QED
    BY <1>11, <1>12, <1>13 DEF x, y, l

\* TextBuffer!Break.
LEMMA BreaksMeans ==
  ASSUME NEW e, NEW g, Inside(e), Breaks(e, g)
  PROVE  Text(g) = Before(e) \o <<LF>> \o After(e) /\ Cursor(g) = Cursor(e) + 1
  <1> DEFINE x == Before(e)
  <1>1. x \in Texts /\ Cursor(e) = Len(x)
    BY AlwaysShown DEF Shows
  <1>2. Text(g) = (x \o <<LF>>) \o After(e) /\ Cursor(g) = Len(x \o <<LF>>)
    BY DEF Breaks, Shows
  <1> HIDE DEF x
  <1>3. Len(x \o <<LF>>) = Len(x) + 1
    BY <1>1, AddedLast DEF Texts
  <1> QED
    BY <1>1, <1>2, <1>3 DEF x

\* TextBuffer!DeleteBefore.
LEMMA TakesBeforeMeans ==
  ASSUME NEW e, NEW g, Inside(e), TakesBefore(e, g)
  PROVE  /\ Cursor(e) > 0 /\ Cursor(g) = Cursor(e) - 1
         /\ Text(g) = SubSeq(Text(e), 1, Cursor(e) - 1) \o After(e)
  <1> DEFINE y == After(e)
  <1>1. PICK x : EndsBehind(Before(e), x) /\ Shows(g, x, y)
    BY DEF TakesBefore
  <1>2. PICK l \in Chars \cup {LF} : Before(e) = x \o <<l>>
    BY <1>1 DEF EndsBehind
  <1>3. Text(e) = (x \o <<l>>) \o y /\ Cursor(e) = Len(x \o <<l>>)
    BY <1>2, AlwaysShown DEF Shows
  <1>4. x \in Texts /\ y \in Texts /\ Text(g) = x \o y /\ Cursor(g) = Len(x)
    BY <1>1 DEF Shows
  <1>5. <<l>> \in Texts /\ Len(x \o <<l>>) = Len(x) + 1 /\ Len(x) \in Nat
    BY <1>4, AddedLast, LenProperties, Single DEF Texts
  <1> HIDE DEF y
  <1>6. (x \o <<l>>) \o y = x \o (<<l>> \o y)
    BY <1>4, <1>5, TextsAssociate
  <1>7. <<l>> \o y \in Texts
    BY <1>4, <1>5, TextsConcat
  <1>8. SubSeq(x \o (<<l>> \o y), 1, Len(x)) = x
    BY <1>4, <1>7, PartsOfConcat DEF Texts
  <1>9. Cursor(e) > 0 /\ Cursor(e) - 1 = Len(x)
    BY <1>3, <1>5
  <1> QED
    BY <1>3, <1>4, <1>6, <1>8, <1>9 DEF y

\* TextBuffer!DeleteAfter.
LEMMA TakesAfterMeans ==
  ASSUME NEW e, NEW g, Inside(e), TakesAfter(e, g)
  PROVE  /\ Cursor(e) < Len(Text(e)) /\ Cursor(g) = Cursor(e)
         /\ Text(g) = Before(e) \o SubSeq(Text(e), Cursor(e) + 2, Len(Text(e)))
  <1> DEFINE x == Before(e)
  <1>1. PICK l \in Chars \cup {LF}, y \in Texts : After(e) = <<l>> \o y /\ Shows(g, x, y)
    BY DEF TakesAfter
  <1>2. Text(e) = x \o (<<l>> \o y) /\ Cursor(e) = Len(x)
    BY <1>1, AlwaysShown DEF Shows
  <1>3. x \in Texts /\ y \in Texts /\ Text(g) = x \o y /\ Cursor(g) = Len(x)
    BY <1>1 DEF Shows
  <1> HIDE DEF x
  <1> DEFINE s == x \o <<l>>
  <1>4. <<l>> \in Texts /\ s \in Texts /\ Len(s) = Len(x) + 1 /\ Len(x) \in Nat /\ Len(y) \in Nat
    BY <1>3, AddedLast, LenProperties, Single DEF Texts
  <1>5. (x \o <<l>>) \o y = x \o (<<l>> \o y)
    BY <1>3, <1>4, TextsAssociate
  <1> HIDE DEF s
  <1>6. s \o y \in Texts /\ Len(s \o y) = Len(s) + Len(y)
    BY <1>3, <1>4, TextsConcat
  <1>7. SubSeq(s \o y, Len(s) + 1, Len(s \o y)) = y
    BY <1>3, <1>4, PartsOfConcat DEF Texts
  <1>8. Text(e) = s \o y
    BY <1>2, <1>5 DEF s
  <1>9. Cursor(e) + 2 = Len(s) + 1 /\ Cursor(e) < Len(s \o y) /\ Cursor(g) = Cursor(e)
    BY <1>2, <1>3, <1>4, <1>6
  <1> QED
    BY <1>3, <1>7, <1>8, <1>9 DEF x

\* A change of the rows is counted.
Counted(e, g) == g.dirty = TRUE \/ (g.rows = e.rows /\ g.dirty = e.dirty)

\* What a key may come to.
Outcome(e, g) == Changes(e, g) /\ Counted(e, g)

\* Changing a row counts as a change, ...
LEMMA SetRowCounts ==
  ASSUME NEW e \in Editors, NEW y, NEW s
  PROVE  /\ SetRow(e, y, s) \in [rows : {ReplaceAt(e.rows, y + 1, s)}, cx : Nat, cy : Nat,
                                 rowoff : Nat, coloff : Nat, dirty : {TRUE}]
         /\ SetRow(e, y, s).dirty = TRUE
  BY DEF SetRow, Editors

\* ... and so does a new one.
LEMMA InsertRowCounts ==
  ASSUME NEW e \in Editors, NEW y, NEW s
  PROVE  /\ editorInsertRow(e, y, s) \in [rows : {InsertAt(e.rows, y + 1, s)}, cx : Nat, cy : Nat,
                                          rowoff : Nat, coloff : Nat, dirty : {TRUE}]
         /\ editorInsertRow(e, y, s).dirty = TRUE
  BY DEF editorInsertRow, Editors

\* A record keeps its count when other fields change.
CursorFields(S) == [rows : S, cx : Nat, cy : Nat, rowoff : Nat, coloff : Nat, dirty : {TRUE}]

LEMMA CountKept ==
  ASSUME NEW S, NEW f \in CursorFields(S), NEW x, NEW y
  PROVE  /\ [f EXCEPT !.cx = x].dirty = TRUE
         /\ [f EXCEPT !.cx = x, !.cy = y].dirty = TRUE
         /\ [f EXCEPT !.cy = y, !.cx = x].dirty = TRUE
  BY DEF CursorFields

\* A letter.
LEMMA CharOutcome ==
  ASSUME NEW e, Inside(e), NEW c \in Chars
  PROVE  TypesIn(e, editorInsertChar(e, c)) /\ editorInsertChar(e, c).dirty = TRUE
  <1>1. TypesIn(e, editorInsertChar(e, c))
    <2>1. <<c>> \in Seq(Chars) /\ <<c>> # << >>
      BY Single
    <2> QED
      BY <2>1, CharTyped DEF TypesIn
  <1>2. e \in Editors
    BY DEF Inside
  <1>3. CASE e.cy = numrows(e)
    <2>1. editorInsertChar(e, c) = [editorInsertRow(e, e.cy, <<c>>) EXCEPT !.cx = @ + 1]
      BY <1>3 DEF editorInsertChar
    <2> DEFINE f == editorInsertRow(e, e.cy, <<c>>)
    <2>2. f \in CursorFields({InsertAt(e.rows, e.cy + 1, <<c>>)})
      BY <1>2, InsertRowCounts DEF CursorFields
    <2>3. editorInsertChar(e, c) = [f EXCEPT !.cx = f.cx + 1]
      BY <2>1
    <2> HIDE DEF f
    <2> QED
      BY <1>1, <2>2, <2>3, CountKept
  <1>4. CASE e.cy # numrows(e)
    <2> DEFINE s == InsertAt(e.rows[e.cy + 1], e.cx + 1, c)
               f == SetRow(e, e.cy, s)
    <2>1. editorInsertChar(e, c) = [f EXCEPT !.cx = f.cx + 1]
      BY <1>4 DEF editorInsertChar, editorRowInsertChar
    <2> HIDE DEF s
    <2>2. f \in CursorFields({ReplaceAt(e.rows, e.cy + 1, s)})
      BY <1>2, SetRowCounts DEF CursorFields
    <2> HIDE DEF f
    <2> QED
      BY <1>1, <2>1, <2>2, CountKept
  <1> QED
    BY <1>3, <1>4

\* Return.
LEMMA NewlineOutcome ==
  ASSUME NEW e, Inside(e)
  PROVE  Breaks(e, editorInsertNewline(e)) /\ editorInsertNewline(e).dirty = TRUE
  <1>1. Breaks(e, editorInsertNewline(e))
    BY NewlineTyped DEF Breaks
  <1>2. e \in Editors
    BY DEF Inside
  <1>3. CASE e.cx = 0
    <2> DEFINE f == editorInsertRow(e, e.cy, << >>)
    <2>1. editorInsertNewline(e) = [f EXCEPT !.cy = f.cy + 1, !.cx = 0]
      BY <1>3 DEF editorInsertNewline
    <2>2. f \in CursorFields({InsertAt(e.rows, e.cy + 1, << >>)})
      BY <1>2, InsertRowCounts DEF CursorFields
    <2> HIDE DEF f
    <2> QED
      BY <1>1, <2>1, <2>2, CountKept
  <1>4. CASE e.cx # 0
    <2> DEFINE row == e.rows[e.cy + 1]
               h == editorInsertRow(e, e.cy + 1, SubSeq(row, e.cx + 1, Len(row)))
               f == SplitRow(e)
               q == ReplaceAt(h.rows, e.cy + 1, SubSeq(row, 1, e.cx))
    <2>1. editorInsertNewline(e) = [f EXCEPT !.cy = f.cy + 1, !.cx = 0]
      BY <1>4 DEF editorInsertNewline
    <2>2. h \in CursorFields({InsertAt(e.rows, (e.cy + 1) + 1, SubSeq(row, e.cx + 1, Len(row)))})
      BY <1>2, InsertRowCounts DEF CursorFields
    <2>3. f = SetRow(h, e.cy, SubSeq(row, 1, e.cx))
      BY DEF SplitRow
    <2> HIDE DEF h, row
    <2>4. f = [h EXCEPT !.rows = q, !.dirty = TRUE]
      BY <2>3 DEF SetRow
    <2> HIDE DEF f, q
    <2>5. f \in CursorFields({q})
      BY <2>2, <2>4 DEF CursorFields
    <2> QED
      BY <1>1, <2>1, <2>5, CountKept DEF f
  <1> QED
    BY <1>3, <1>4

\* A deletion.
LEMMA DelCharOutcome ==
  ASSUME NEW e, Inside(e)
  PROVE  editorDelChar(e) = e \/ (TakesBefore(e, editorDelChar(e)) /\ editorDelChar(e).dirty = TRUE)
  <1>1. CASE editorDelChar(e) = e
    BY <1>1
  <1>2. CASE editorDelChar(e) # e
    <2>1. TakesBefore(e, editorDelChar(e))
      BY <1>2, CharDeleted
    <2>2. e \in Editors /\ ~(e.cy = numrows(e) \/ (e.cx = 0 /\ e.cy = 0))
      <3>1. e.cy = numrows(e) \/ (e.cx = 0 /\ e.cy = 0) => editorDelChar(e) = e
        <4>1. Inside(e)
          OBVIOUS
        <4>2. e.cx \in Nat /\ e.cx <= size(e, e.cy) /\ (e.cy = numrows(e) => size(e, e.cy) = 0)
          BY Fields DEF Inside, InText, size
        <4>3. ~(e.cx > 0) \/ ~(e.cy = numrows(e) \/ (e.cx = 0 /\ e.cy = 0))
          BY <4>2
        <4> QED
          BY <4>3 DEF editorDelChar
      <3> QED
        BY <1>2, <3>1 DEF Inside
    <2>3. CASE e.cx > 0
      <3> DEFINE s == RemoveAt(e.rows[e.cy + 1], (e.cx - 1) + 1)
                 f == SetRow(e, e.cy, s)
      <3>1. editorDelChar(e) = [f EXCEPT !.cx = f.cx - 1]
        BY <2>2, <2>3 DEF editorDelChar, editorRowDelChar
      <3> HIDE DEF s
      <3>2. f \in CursorFields({ReplaceAt(e.rows, e.cy + 1, s)})
        BY <2>2, SetRowCounts DEF CursorFields
      <3> HIDE DEF f
      <3> QED
        BY <2>1, <3>1, <3>2, CountKept
    <2>4. CASE ~(e.cx > 0)
      <3> DEFINE s == e.rows[(e.cy - 1) + 1] \o e.rows[e.cy + 1]
                 h == SetRow(e, e.cy - 1, s)
                 q == RemoveAt(h.rows, e.cy + 1)
                 f == editorDelRow(h, e.cy)
      <3>1. editorDelChar(e) = JoinRows(e)
        BY <2>2, <2>4 DEF editorDelChar
      <3>2. JoinRows(e) = [f EXCEPT !.cx = EndOfPrevious(e), !.cy = f.cy - 1]
        BY DEF JoinRows, editorRowAppendString
      <3> HIDE DEF s
      <3>3. h \in CursorFields({ReplaceAt(e.rows, (e.cy - 1) + 1, s)})
        BY <2>2, SetRowCounts DEF CursorFields
      <3>4. f = [h EXCEPT !.rows = q, !.dirty = TRUE]
        BY DEF editorDelRow
      <3> HIDE DEF h, f, q
      <3>5. f \in CursorFields({q})
        BY <3>3, <3>4 DEF CursorFields
      <3> QED
        BY <2>1, <3>1, <3>2, <3>5, CountKept
    <2> QED
      BY <2>3, <2>4
  <1> QED
    BY <1>1, <1>2

\* Deleting takes what is before the cursor away, or nothing.
LEMMA DelAttempted ==
  ASSUME NEW e, Inside(e), NEW g \in DelAttempts(e)
  PROVE  g = e \/ (TakesBefore(e, g) /\ g.dirty = TRUE)
  BY DelCharOutcome DEF DelAttempts, Attempts

\* A key that changes nothing.
LEMMA SameOutcome ==
  ASSUME NEW e, NEW g, g.rows = e.rows, g.dirty = e.dirty
  PROVE  Outcome(e, g)
  BY DEF Outcome, Changes, Counted

\* Backspace.
LEMMA DelOutcome ==
  ASSUME NEW e, Inside(e), NEW g \in DelAttempts(e)
  PROVE  Outcome(e, g)
  BY DelAttempted, SameOutcome DEF Outcome, Changes, Counted

\* Delete: one step to the right and a deletion take away what was behind the cursor.
LEMMA DeleteOutcome ==
  ASSUME NEW e, Inside(e), NEW g \in DelAttempts(editorMoveCursor(e, "right"))
  PROVE  Outcome(e, g)
  <1> DEFINE m == editorMoveCursor(e, "right")
  <1>1. Inside(m) /\ m.rows = e.rows /\ m.dirty = e.dirty
    BY MoveInside, MoveKeepsRows
  <1>2. m = e \/ StepsOver(e, m)
    BY MovedRight
  <1>3. g \in DelAttempts(m)
    OBVIOUS
  <1> HIDE DEF m
  <1>4. g = m \/ (TakesBefore(m, g) /\ g.dirty = TRUE)
    BY <1>1, <1>3, DelAttempted
  <1>5. CASE g = m
    BY <1>1, <1>5, SameOutcome
  <1>6. CASE m = e
    BY <1>3, <1>6, DelOutcome
  <1>7. CASE StepsOver(e, m) /\ TakesBefore(m, g) /\ g.dirty = TRUE
    <2>1. PICK l \in Chars \cup {LF}, y \in Texts : After(e) = <<l>> \o y /\ Shows(m, Before(e) \o <<l>>, y)
      BY <1>7 DEF StepsOver
    <2>2. Before(m) = Before(e) \o <<l>> /\ After(m) = y
      BY <2>1, ShownParts
    <2>3. PICK x : EndsBehind(Before(m), x) /\ Shows(g, x, y)
      BY <1>7, <2>2 DEF TakesBefore
    <2>4. PICK k \in Chars \cup {LF} : Before(m) = x \o <<k>>
      BY <2>3 DEF EndsBehind
    <2>5. x = Before(e)
      <3> DEFINE S == Chars \cup {LF}
                 b == Before(e)
      <3>1. x \in Seq(S) /\ b \in Seq(S) /\ k \in S /\ l \in S
        BY <2>1, <2>3, <2>4, AlwaysShown DEF Shows, Texts
      <3> HIDE DEF S, b
      <3>2. x \o <<k>> = b \o <<l>>
        BY <2>2, <2>4 DEF b
      <3>3. Append(x, k) = x \o <<k>> /\ Append(b, l) = b \o <<l>>
        BY <3>1, AppendIsConcat
      <3>4. Append(x, k) = Append(b, l)
        BY <3>2, <3>3
      <3>5. x = b
        BY <3>1, <3>4, AppendInjective
      <3> QED
        BY <3>5 DEF b
    <2>6. TakesAfter(e, g)
      BY <2>1, <2>3, <2>5 DEF TakesAfter
    <2> QED
      BY <1>7, <2>6 DEF Outcome, Changes, Counted
  <1> QED
    BY <1>2, <1>4, <1>5, <1>6, <1>7

\* A tab: the first character, or the second, or both may find no memory.
LEMMA TabOutcome ==
  ASSUME NEW e, Inside(e), NEW c \in Chars,
         NEW f \in Attempts(e, editorInsertChar(e, c)), NEW g \in Attempts(f, editorInsertChar(f, c))
  PROVE  Outcome(e, g)
  <1> DEFINE h == editorInsertChar(e, c)
             x == Before(e)
             y == After(e)
  <1>1. TypesIn(e, h) /\ h.dirty = TRUE /\ Inside(h) /\ Shows(h, x \o <<c>>, LineEndIfNone(y))
    BY CharOutcome, InsertCharInside, CharTyped
  <1>2. (f = e \/ f = h) /\ (g = f \/ g = editorInsertChar(f, c))
    BY DEF Attempts
  <1> HIDE DEF h, x, y
  <1>3. CASE g = e
    BY <1>3, SameOutcome
  <1>4. CASE g = h
    BY <1>1, <1>4 DEF Outcome, Changes, Counted
  <1>5. CASE g = editorInsertChar(h, c)
    <2>1. Before(h) = x \o <<c>> /\ After(h) = LineEndIfNone(y)
      BY <1>1, ShownParts
    <2>2. Shows(g, (x \o <<c>>) \o <<c>>, LineEndIfNone(LineEndIfNone(y))) /\ g.dirty = TRUE
      <3>1. Shows(g, Before(h) \o <<c>>, LineEndIfNone(After(h))) /\ g.dirty = TRUE
        BY <1>1, <1>5, CharTyped, CharOutcome
      <3> QED
        BY <2>1, <3>1
    <2>3. LineEndIfNone(LineEndIfNone(y)) = LineEndIfNone(y)
      BY DEF LineEndIfNone
    <2> DEFINE s == <<c>> \o <<c>>
    <2>4. (x \o <<c>>) \o <<c>> = x \o s
      <3>1. x \in Texts /\ <<c>> \in Texts
        BY AlwaysShown, Single, RowIsText DEF Shows, x
      <3> QED
        BY <3>1, TextsAssociate
    <2>5. s \in Seq(Chars) /\ s # << >>
      <3>1. <<c>> \in Seq(Chars) /\ Len(<<c>>) = 1
        BY Single
      <3>2. s \in Seq(Chars) /\ Len(s) = Len(<<c>>) + 1
        BY <3>1, AddedLast
      <3> HIDE DEF s
      <3> QED
        BY <3>1, <3>2, EmptySeq
    <2> HIDE DEF s
    <2>6. TypesIn(e, g)
      BY <2>2, <2>3, <2>4, <2>5 DEF TypesIn, x, y
    <2> QED
      BY <2>2, <2>6 DEF Outcome, Changes, Counted
  <1> QED
    BY <1>2, <1>3, <1>4, <1>5 DEF h

\* The window does not change the text or the place of the cursor in it.
LEMMA ScrollKeeps ==
  ASSUME NEW e \in Editors
  PROVE  LET f == editorScroll(e)
         IN  f.rows = e.rows /\ f.cx = e.cx /\ f.cy = e.cy /\ f.dirty = e.dirty
  BY DEF editorScroll, Editors

LEMMA ScrollOutcome ==
  ASSUME NEW e, NEW g, Inside(g), Outcome(e, g)
  PROVE  Outcome(e, editorScroll(g))
  <1> DEFINE f == editorScroll(g)
  <1>1. f.rows = g.rows /\ f.cx = g.cx /\ f.cy = g.cy /\ f.dirty = g.dirty
    BY ScrollKeeps DEF Inside
  <1> HIDE DEF f
  <1>2. Text(f) = Text(g) /\ Cursor(f) = Cursor(g)
    BY <1>1, Zenon DEF Text, Cursor
  <1>3. \A x, y : Shows(g, x, y) => Shows(f, x, y)
    BY <1>2 DEF Shows
  <1>4. Changes(e, f)
    BY <1>1, <1>3 DEF Outcome, Changes, TypesIn, Breaks, TakesBefore, TakesAfter
  <1>5. Counted(e, f)
    BY <1>1 DEF Outcome, Counted
  <1> QED
    BY <1>4, <1>5 DEF Outcome, f

\* What every outcome is the key is.
LEMMA KeyOutcome ==
  ASSUME NEW outcomes, \A g \in outcomes : Inside(g) /\ Outcome(E, g), Keypress(outcomes)
  PROVE  Outcome(E, E')
  <1>1. PICK g \in outcomes : E' = editorScroll(g)
    BY DEF Keypress
  <1>2. Inside(g) /\ Outcome(E, g)
    OBVIOUS
  <1> QED
    BY <1>1, <1>2, ScrollOutcome

\* Every key comes to a change next to the cursor or to none.
LEMMA EveryKeyOutcome ==
  ASSUME Inside(E),
         \/ \E c \in Letters : InsertLetter(c)
         \/ Tab \/ Enter \/ Backspace \/ Delete \/ Home \/ End
         \/ \E k \in {"left", "right", "up", "down"} : Arrow(k)
  PROVE  Outcome(E, E')
  <1>1. Outcome(E, E)
    BY SameOutcome
  <1>2. ASSUME NEW c \in Letters, InsertLetter(c)
        PROVE  Outcome(E, E')
    <2> DEFINE outcomes == Attempts(E, editorInsertChar(E, c))
    <2>1. c \in Chars
      BY DEF Chars
    <2>2. \A g \in outcomes : Inside(g) /\ Outcome(E, g)
      BY <1>1, <2>1, CharOutcome, InsertCharInside DEF Attempts, Outcome, Changes, Counted
    <2>3. Keypress(outcomes)
      BY <1>2 DEF InsertLetter
    <2> HIDE DEF outcomes
    <2> QED
      BY <2>2, <2>3, KeyOutcome
  <1>3. CASE Tab
    <2> DEFINE outcomes == UNION {Attempts(e, editorInsertChar(e, Space)) :
                                  e \in Attempts(E, editorInsertChar(E, Space))}
    <2>1. Space \in Chars
      BY DEF Chars
    <2>2. ASSUME NEW g \in outcomes PROVE Inside(g) /\ Outcome(E, g)
      <3>1. PICK f \in Attempts(E, editorInsertChar(E, Space)) : g \in Attempts(f, editorInsertChar(f, Space))
        BY <2>2
      <3>2. Outcome(E, g)
        BY <2>1, <3>1, TabOutcome
      <3>3. Inside(f)
        BY <2>1, InsertCharInside DEF Attempts
      <3>4. Inside(g)
        BY <2>1, <3>1, <3>3, InsertCharInside DEF Attempts
      <3> QED
        BY <3>2, <3>4
    <2>3. Keypress(outcomes)
      BY <1>3 DEF Tab
    <2> HIDE DEF outcomes
    <2> QED
      BY <2>2, <2>3, KeyOutcome
  <1>4. CASE Enter
    <2> DEFINE outcomes == Attempts(E, editorInsertNewline(E))
    <2>1. \A g \in outcomes : Inside(g) /\ Outcome(E, g)
      BY <1>1, NewlineOutcome, NewlineInside DEF Attempts, Outcome, Changes, Counted
    <2>2. Keypress(outcomes)
      BY <1>4 DEF Enter
    <2> HIDE DEF outcomes
    <2> QED
      BY <2>1, <2>2, KeyOutcome
  <1>5. CASE Backspace
    <2>1. \A g \in DelAttempts(E) : Inside(g) /\ Outcome(E, g)
      BY DelOutcome, DelCharInside DEF DelAttempts, Attempts
    <2> QED
      BY <1>5, <2>1, KeyOutcome DEF Backspace
  <1>6. CASE Delete
    <2> DEFINE m == editorMoveCursor(E, "right")
    <2>1. Inside(m)
      BY MoveInside
    <2>2. \A g \in DelAttempts(m) : Outcome(E, g)
      BY DeleteOutcome
    <2>3. Keypress(DelAttempts(m))
      BY <1>6 DEF Delete
    <2> HIDE DEF m
    <2>4. \A g \in DelAttempts(m) : Inside(g)
      BY <2>1, DelCharInside DEF DelAttempts, Attempts
    <2> QED
      BY <2>2, <2>3, <2>4, KeyOutcome
  <1>7. ASSUME NEW x, Keypress({[E EXCEPT !.cx = x]})
        PROVE  Outcome(E, E')
    <2> DEFINE f == [E EXCEPT !.cx = x]
    <2>1. f.rows = E.rows /\ f.dirty = E.dirty
      BY DEF Inside, Editors
    <2>2. E' = editorScroll(f)
      BY <1>7 DEF Keypress
    <2> HIDE DEF f
    <2>3. E'.rows = f.rows /\ E'.dirty = f.dirty
      <3>1. f \in [rows : {E.rows}, cx : {x}, cy : Nat, rowoff : Nat, coloff : Nat, dirty : BOOLEAN]
        BY DEF f, Inside, Editors
      <3> QED
        BY <2>2, <3>1 DEF editorScroll
    <2> QED
      BY <2>1, <2>3, SameOutcome
  <1>8. CASE Home
    BY <1>7, <1>8 DEF Home
  <1>9. CASE End
    <2>1. CASE E.cy < numrows(E)
      BY <1>7, <1>9, <2>1 DEF End
    <2>2. CASE ~(E.cy < numrows(E))
      <3>1. Keypress({E})
        BY <1>9, <2>2 DEF End
      <3> QED
        BY <1>1, <3>1, KeyOutcome
    <2> QED
      BY <2>1, <2>2
  <1>10. ASSUME NEW k \in {"left", "right", "up", "down"}, Arrow(k)
         PROVE  Outcome(E, E')
    <2> DEFINE m == editorMoveCursor(E, k)
    <2>1. Inside(m) /\ Outcome(E, m)
      BY MoveInside, MoveKeepsRows, SameOutcome
    <2>2. Keypress({m})
      BY <1>10 DEF Arrow
    <2> HIDE DEF m
    <2> QED
      BY <2>1, <2>2, KeyOutcome
  <1> QED
    BY <1>2, <1>3, <1>4, <1>5, <1>6, <1>8, <1>9, <1>10

\* The actions that leave the text as it is or bring a new one, by what they do to the
\* text.
LEMMA StepKinds ==
  ASSUME IInv, [Next]_vars
  PROVE  \/ IsOpen /\ IsOpen' /\ Changes(E, E')
         \/ ~IsOpen /\ ~IsOpen'
         \/ ~IsOpen /\ IsOpen' /\ E'.cx = 0 /\ E'.cy = 0
         \/ IsOpen /\ ~IsOpen'
  <1>1. Inside(E) /\ E \in Editors
    BY DEF IInv, Inside
  <1>2. CASE E'.rows = E.rows /\ IsOpen' = IsOpen
    BY <1>2 DEF Changes
  <1>3. CASE UNCHANGED vars
    BY <1>2, <1>3 DEF vars, IsOpen
  <1>4. CASE OpenNew
    <2>1. ~IsOpen /\ IsOpen'
      BY <1>4 DEF OpenNew, IsOpen
    <2>2. E' = Unmodified(editorInsertRow(Cleared, 0, << >>))
      BY <1>4 DEF OpenNew, Unmodified
    <2>3. /\ Cleared \in Editors /\ Cleared.cx = 0 /\ Cleared.cy = 0
          /\ << >> \in Seq(Chars) /\ 0 \in 0 .. numrows(Cleared)
      BY ClearedInside, EmptySeq DEF Cleared, Inside, numrows
    <2> DEFINE f == editorInsertRow(Cleared, 0, << >>)
    <2>4. f \in Editors /\ f.cx = 0 /\ f.cy = 0
      BY <2>3, RowInserted
    <2> HIDE DEF f
    <2>5. Unmodified(f).cx = 0 /\ Unmodified(f).cy = 0
      BY <2>4, CountSet
    <2> QED
      BY <2>1, <2>2, <2>5 DEF f
  <1>5. CASE Open \/ LoadChunk \/ LoadFails
    BY <1>5 DEF Open, LoadChunk, LoadFails, Leave, IsOpen
  <1>6. CASE LoadEnds
    <2>1. ~IsOpen /\ IsOpen' /\ AtStart(E) /\ E' = Unmodified(E)
      BY <1>6 DEF LoadEnds, IsOpen, IInv, Loops, Unmodified
    <2> QED
      BY <1>1, <2>1, CountSet DEF AtStart
  <1>7. CASE \/ \E c \in Letters : InsertLetter(c)
             \/ Tab \/ Enter \/ Backspace \/ Delete \/ Home \/ End
             \/ \E k \in {"left", "right", "up", "down"} : Arrow(k)
    <2>1. Changes(E, E')
      BY <1>1, <1>7, EveryKeyOutcome DEF Outcome
    <2>2. mode = "editing" /\ mode' = "editing"
      BY <1>7 DEF InsertLetter, Tab, Enter, Backspace, Delete, Home, End, Arrow, Keypress
    <2> QED
      BY <2>1, <2>2 DEF IsOpen
  <1>8. CASE PageStep
    <2>1. E'.rows = E.rows
      BY <1>1, <1>8, MoveKeepsRows DEF PageStep
    <2> QED
      BY <1>2, <1>8, <2>1 DEF PageStep, IsOpen
  <1>9. CASE PageEnds
    <2>1. E'.rows = E.rows
      BY <1>1, <1>9, ScrollKeeps DEF PageEnds
    <2> QED
      BY <1>2, <1>9, <2>1 DEF PageEnds, IsOpen
  <1>10. CASE Quit \/ ConfirmQuit
    BY <1>2, <1>10 DEF Quit, ConfirmQuit, Leave, IsOpen
  <1>11. CASE (\E k \in {"up", "down"} : PageKey(k)) \/ Decline \/ Save \/ SaveRow \/ SaveFails
    BY <1>2, <1>11 DEF PageKey, Decline, Save, SaveRow, SaveFails, IsOpen
  <1>12. CASE SaveEnds
    <2>1. E' = Unmodified(E)
      BY <1>12 DEF SaveEnds, Unmodified
    <2>2. E'.rows = E.rows
      BY <1>1, <2>1, CountSet
    <2> QED
      BY <1>2, <1>12, <2>2 DEF SaveEnds, IsOpen
  <1> QED
    BY <1>3, <1>4, <1>5, <1>6, <1>7, <1>8, <1>9, <1>10, <1>11, <1>12 DEF Next

\* The cursor of a text that was just opened is at its start.
LEMMA CursorAtStart ==
  ASSUME NEW e \in Editors, e.cx = 0, e.cy = 0
  PROVE  Cursor(e) = 0
  <1> DEFINE q == SubSeq(e.rows, 1, 0)
  <1>1. e.rows \in Rows
    BY Fields
  <1>2. q = << >>
    <2> DEFINE T == Seq(Chars)
    <2>1. e.rows \in Seq(T)
      BY <1>1 DEF Rows
    <2> HIDE DEF T
    <2>2. 1 \in Int /\ 0 \in Int /\ 0 <= Len(e.rows) /\ 1 <= 1
      BY <2>1, LenProperties
    <2>3. q \in Seq(T) /\ Len(q) = 0
      BY <2>1, <2>2, Part
    <2> HIDE DEF q
    <2> QED
      BY <2>3, EmptySeq
  <1> HIDE DEF q
  <1>3. Joined(q) = << >> /\ Len(<< >>) = 0
    BY <1>2, JoinedEmpty, EmptySeq
  <1>4. Cursor(e) = Len(Joined(q)) + 0
    BY DEF Cursor, q
  <1> QED
    BY <1>3, <1>4

\* The abstract state.
text == IF IsOpen THEN Text(E) ELSE << >>
cursor == IF IsOpen THEN Cursor(E) ELSE 0

\* Every step of the editor is one of TextBuffer or changes nothing of it.
LEMMA BufferStep ==
  ASSUME IInv, IInv', [Next]_vars
  PROVE  [Buffer!Next /\ Buffer!LineEnded(text')]_<<text, cursor, IsOpen>>
  <1>1. Inside(E) /\ Inside(E') /\ E' \in Editors
    BY DEF IInv, Inside, InText, numrows, size
  <1>2. EndsLine(Text(E'))
    BY <1>1, Fields, JoinedEndsLine DEF Text
  <1>3. CASE IsOpen /\ IsOpen' /\ Changes(E, E')
    <2>1. text = Text(E) /\ text' = Text(E') /\ cursor = Cursor(E) /\ cursor' = Cursor(E')
      BY <1>3 DEF text, cursor, Text, Cursor
    <2>2. Buffer!LineEnded(text')
      BY <1>2, <2>1 DEF Buffer!LineEnded, EndsLine
    <2>3. CASE E'.rows = E.rows
      <3>1. Text(E') = Text(E) /\ Cursor(E') \in 0 .. Len(Text(E))
        BY <1>1, <2>3, CursorInText DEF Text
      <3>2. Buffer!Move
        BY <1>3, <2>1, <3>1 DEF Buffer!Move, text, cursor, Text, Cursor
      <3> QED
        BY <2>2, <3>2 DEF Buffer!Next
    <2>4. CASE TypesIn(E, E')
      <3>1. LET s == SubSeq(Text(E'), Cursor(E) + 1, Cursor(E'))
            IN  /\ Cursor(E') > Cursor(E) /\ Len(Text(E')) >= Cursor(E')
                /\ Text(E') = Before(E) \o s \o (IF After(E) = << >> THEN <<LF>> ELSE << >>) \o After(E)
                /\ Cursor(E') = Cursor(E) + Len(s)
        BY <1>1, <2>4, TypesInMeans
      <3>2. Buffer!Type
        BY <1>3, <2>1, <3>1 DEF Buffer!Type, Buffer!Insert, Buffer!Before, Buffer!After,
                                Before, After, text, cursor, Text, Cursor
      <3> QED
        BY <2>2, <3>2 DEF Buffer!Next
    <2>5. CASE Breaks(E, E')
      <3>1. Text(E') = Before(E) \o <<LF>> \o After(E) /\ Cursor(E') = Cursor(E) + 1
        BY <1>1, <2>5, BreaksMeans
      <3>2. Buffer!Break
        BY <1>3, <2>1, <3>1 DEF Buffer!Break, Buffer!Before, Buffer!After,
                                Before, After, text, cursor, Text, Cursor
      <3> QED
        BY <2>2, <3>2 DEF Buffer!Next
    <2>6. CASE TakesBefore(E, E')
      <3>1. /\ Cursor(E) > 0 /\ Cursor(E') = Cursor(E) - 1
            /\ Text(E') = SubSeq(Text(E), 1, Cursor(E) - 1) \o After(E)
        BY <1>1, <2>6, TakesBeforeMeans
      <3>2. Buffer!DeleteBefore
        BY <1>3, <2>1, <3>1 DEF Buffer!DeleteBefore, Buffer!After, After, text, cursor, Text, Cursor
      <3> QED
        BY <2>2, <3>2 DEF Buffer!Next
    <2>7. CASE TakesAfter(E, E')
      <3>1. /\ Cursor(E) < Len(Text(E)) /\ Cursor(E') = Cursor(E)
            /\ Text(E') = Before(E) \o SubSeq(Text(E), Cursor(E) + 2, Len(Text(E)))
        BY <1>1, <2>7, TakesAfterMeans
      <3>2. Buffer!DeleteAfter
        BY <1>3, <2>1, <3>1 DEF Buffer!DeleteAfter, Buffer!Before, Before, text, cursor, Text, Cursor
      <3> QED
        BY <2>2, <3>2 DEF Buffer!Next
    <2> QED
      BY <1>3, <2>3, <2>4, <2>5, <2>6, <2>7 DEF Changes
  <1>4. CASE ~IsOpen /\ ~IsOpen'
    BY <1>4 DEF text, cursor, IsOpen
  <1>5. CASE ~IsOpen /\ IsOpen' /\ E'.cx = 0 /\ E'.cy = 0
    <2>1. text' = Text(E') /\ cursor' = Cursor(E')
      BY <1>5 DEF text, cursor, Text, Cursor
    <2>2. cursor' = 0 /\ Buffer!LineEnded(text')
      BY <1>1, <1>2, <1>5, <2>1, CursorAtStart DEF Buffer!LineEnded, EndsLine
    <2>3. Buffer!Open
      BY <1>5, <2>2 DEF Buffer!Open, text, cursor, Text, Cursor
    <2> QED
      BY <2>2, <2>3 DEF Buffer!Next
  <1>6. CASE IsOpen /\ ~IsOpen'
    <2>1. text' = << >> /\ cursor' = 0
      BY <1>6 DEF text, cursor
    <2>2. Buffer!LineEnded(text')
      BY <2>1 DEF Buffer!LineEnded
    <2>3. Buffer!Close
      BY <1>6, <2>1 DEF Buffer!Close, text, cursor, Text, Cursor
    <2> QED
      BY <2>2, <2>3 DEF Buffer!Next
  <1> QED
    BY <1>3, <1>4, <1>5, <1>6, StepKinds

\* No text is open at first.
LEMMA InitBuffer == Init => Buffer!Init
  BY DEF Init, Buffer!Init, IsOpen

\* editorProcessKeypress() implements TextBuffer: whatever the file, the keys and the
\* allocations that fail, each key changes the text next to the cursor and nowhere else.
THEOREM KeysEditAtCursor == Spec => EditsAtCursor
  <1>1. IInv /\ IInv' /\ [Next]_vars => [Buffer!Next /\ Buffer!LineEnded(text')]_<<text, cursor, IsOpen>>
    BY BufferStep
  <1> QED
    BY <1>1, InitBuffer, InductiveInvariant, PTL
       DEF Spec, EditsAtCursor, Buffer!Spec, text, cursor, Text, Cursor

-----------------------------------------------------------------------------
(* What has been read of a file: rows and their line ends. *)

LineEnds == {<<LF>>, <<CR, LF>>, << >>}

Parts(rows, ends) == [y \in DOMAIN rows |-> rows[y] \o ends[y]]

\* What follows each row; the last row may be open, that is without its line end.
Follow(rows, ends) == ends \in Seq(LineEnds) /\ Len(ends) = Len(rows)

Fits(rows, ends, open) ==
  \A y \in 1 .. Len(rows) :
    /\ ends[y] = <<LF>> => WithoutLast(rows[y], CR) = rows[y]
    /\ ends[y] = << >> => y = Len(rows) /\ rows[y] # << >> /\ open

EndsOpen(rows, ends, open) == open => rows # << >> /\ ends[Len(rows)] = << >>

Reads(rows, ends, f, open) ==
  /\ Follow(rows, ends) /\ f = FlattenSeq(Parts(rows, ends))
  /\ Fits(rows, ends, open) /\ EndsOpen(rows, ends, open)

ReadTo(rows, f, open) == \E ends : Reads(rows, ends, f, open)

\* The line ends are texts.
LEMMA LineEndsAreTexts == LineEnds \subseteq Texts /\ << >> \in LineEnds /\ <<LF>> \in LineEnds /\ <<CR, LF>> \in LineEnds
  <1> DEFINE S == Chars \cup {LF}
  <1>1. LF \in S /\ CR \in S
    BY DEF Chars
  <1>2. << >> \in Seq(S) /\ <<LF>> \in Seq(S) /\ <<CR, LF>> \in Seq(S)
    <2> HIDE DEF S
    <2> QED
      BY <1>1, EmptySeq
  <1> QED
    BY <1>2 DEF Texts, LineEnds

\* Rows with what follows them.
LEMMA PartsType ==
  ASSUME NEW rows \in Rows, NEW ends, Follow(rows, ends)
  PROVE  /\ Parts(rows, ends) \in Seq(Texts) /\ Len(Parts(rows, ends)) = Len(rows)
         /\ \A y \in 1 .. Len(rows) : Parts(rows, ends)[y] = rows[y] \o ends[y]
  <1>1. Len(rows) \in Nat /\ DOMAIN rows = 1 .. Len(rows)
    BY LenProperties DEF Rows
  <1>2. \A y \in 1 .. Len(rows) : rows[y] \o ends[y] \in Texts
    <2> TAKE y \in 1 .. Len(rows)
    <2>1. rows[y] \in Seq(Chars)
      BY ElementOfSeq DEF Rows
    <2>2. ends[y] \in LineEnds
      BY ElementOfSeq DEF Follow
    <2>3. rows[y] \in Texts /\ ends[y] \in Texts
      BY <2>1, <2>2, RowIsText, LineEndsAreTexts
    <2> QED
      BY <2>3, TextsConcat
  <1>3. Parts(rows, ends) = [y \in 1 .. Len(rows) |-> rows[y] \o ends[y]]
    BY <1>1 DEF Parts
  <1> DEFINE n == Len(rows)
             p(y) == rows[y] \o ends[y]
  <1>4. n \in Nat /\ \A y \in 1 .. n : p(y) \in Texts
    BY <1>1, <1>2
  <1>5. Parts(rows, ends) = [y \in 1 .. n |-> p(y)]
    BY <1>3
  <1> HIDE DEF n, p
  <1>6. [y \in 1 .. n |-> p(y)] \in Seq(Texts) /\ Len([y \in 1 .. n |-> p(y)]) = n
    BY <1>4
  <1>7. \A y \in 1 .. n : [z \in 1 .. n |-> p(z)][y] = p(y)
    OBVIOUS
  <1> QED
    BY <1>5, <1>6, <1>7 DEF n, p

\* One more row with its end.
LEMMA PartAdded ==
  ASSUME NEW rows \in Rows, NEW ends, Follow(rows, ends), NEW r \in Seq(Chars), NEW l \in LineEnds
  PROVE  /\ Append(rows, r) \in Rows /\ Follow(Append(rows, r), Append(ends, l))
         /\ FlattenSeq(Parts(Append(rows, r), Append(ends, l)))
              = FlattenSeq(Parts(rows, ends)) \o (r \o l)
  <1> DEFINE T == Seq(Chars)
             R == Append(rows, r)
             L == Append(ends, l)
             q == Parts(rows, ends)
             n == Len(rows)
  <1>1. rows \in Seq(T) /\ r \in T /\ Rows = Seq(T)
    BY DEF Rows
  <1>2. ends \in Seq(LineEnds) /\ Len(ends) = n
    BY DEF Follow
  <1> HIDE DEF T
  <1>3. /\ R \in Seq(T) /\ Len(R) = n + 1 /\ R[n + 1] = r /\ n \in Nat
        /\ \A y \in 1 .. n : R[y] = rows[y]
    BY <1>1, AppendProperties, LenProperties
  <1>4. /\ L \in Seq(LineEnds) /\ Len(L) = n + 1 /\ L[n + 1] = l
        /\ \A y \in 1 .. n : L[y] = ends[y]
    BY <1>2, AppendProperties
  <1>5. R \in Rows /\ Follow(R, L)
    BY <1>1, <1>3, <1>4 DEF Follow
  <1> HIDE DEF R, L
  <1>6. /\ Parts(R, L) \in Seq(Texts) /\ Len(Parts(R, L)) = n + 1
        /\ \A y \in 1 .. n + 1 : Parts(R, L)[y] = R[y] \o L[y]
    BY <1>3, <1>5, PartsType
  <1>7. q \in Seq(Texts) /\ Len(q) = n /\ \A y \in 1 .. n : q[y] = rows[y] \o ends[y]
    BY PartsType
  <1> DEFINE x == r \o l
             p == Append(q, x)
  <1>8. x \in Texts
    BY RowIsText, LineEndsAreTexts, TextsConcat
  <1> HIDE DEF q, x
  <1>9. /\ p \in Seq(Texts) /\ Len(p) = n + 1 /\ p[n + 1] = x
        /\ \A y \in 1 .. n : p[y] = q[y]
    BY <1>7, <1>8, AppendProperties
  <1> HIDE DEF p
  <1>10. \A y \in 1 .. n + 1 : Parts(R, L)[y] = p[y]
    <2> TAKE y \in 1 .. n + 1
    <2>1. CASE y = n + 1
      BY <1>3, <1>4, <1>6, <1>9, <2>1 DEF x
    <2>2. CASE y # n + 1
      <3>1. y \in 1 .. n
        BY <1>3, <2>2
      <3> QED
        BY <1>3, <1>4, <1>6, <1>7, <1>9, <3>1
    <2> QED
      BY <2>1, <2>2
  <1>11. Parts(R, L) = p
    BY <1>6, <1>9, <1>10, SeqEqual
  <1>12. FlattenSeq(Append(q, x)) = FlattenSeq(q) \o x
    <2> DEFINE B == Chars \cup {LF}
    <2>1. q \in Seq(Seq(B)) /\ x \in Seq(B)
      BY <1>7, <1>8 DEF Texts
    <2> HIDE DEF B
    <2> QED
      BY <2>1, FlatAppend
  <1> QED
    BY <1>5, <1>11, <1>12 DEF R, L, q, x, p

\* They are a text together.
LEMMA ReadText ==
  ASSUME NEW rows \in Rows, NEW ends, Follow(rows, ends)
  PROVE  FlattenSeq(Parts(rows, ends)) \in Texts
  <1> DEFINE B == Chars \cup {LF}
             q == Parts(rows, ends)
  <1>1. q \in Seq(Seq(B)) /\ Texts = Seq(B)
    BY PartsType DEF Texts
  <1> HIDE DEF B, q
  <1> QED
    BY <1>1, FlatType DEF q

\* No line end is another one.
LEMMA LineEndsDiffer == <<LF>> # << >> /\ <<CR, LF>> # << >> /\ <<CR, LF>> # <<LF>>
  OBVIOUS

\* One more row is read.
LEMMA ReadsAdded ==
  ASSUME NEW rows \in Rows, NEW ends, NEW f, Reads(rows, ends, f, FALSE),
         NEW r \in Seq(Chars), NEW l \in LineEnds, NEW open \in BOOLEAN,
         l = <<LF>> => WithoutLast(r, CR) = r, l = << >> => r # << >> /\ open, open => l = << >>
  PROVE  Reads(Append(rows, r), Append(ends, l), f \o (r \o l), open)
  <1> DEFINE R == Append(rows, r)
             L == Append(ends, l)
             n == Len(rows)
             T == Seq(Chars)
  <1>1. Follow(rows, ends) /\ f = FlattenSeq(Parts(rows, ends)) /\ Fits(rows, ends, FALSE)
    BY DEF Reads
  <1>2. Follow(R, L) /\ FlattenSeq(Parts(R, L)) = f \o (r \o l)
    BY <1>1, PartAdded
  <1>3. rows \in Seq(T) /\ r \in T
    BY DEF Rows
  <1> HIDE DEF T
  <1>4. /\ R \in Seq(T) /\ Len(R) = n + 1 /\ R[n + 1] = r /\ n \in Nat
        /\ \A y \in 1 .. n : R[y] = rows[y]
    BY <1>3, AppendProperties, LenProperties
  <1>5. L[n + 1] = l /\ \A y \in 1 .. n : L[y] = ends[y]
    <2>1. ends \in Seq(LineEnds) /\ Len(ends) = n
      BY <1>1 DEF Follow
    <2> QED
      BY <2>1, AppendProperties
  <1>6. R # << >>
    BY <1>4, EmptySeq
  <1> HIDE DEF R, L
  <1>7. Fits(R, L, open)
    <2> SUFFICES ASSUME NEW y \in 1 .. Len(R)
                 PROVE  /\ L[y] = <<LF>> => WithoutLast(R[y], CR) = R[y]
                        /\ L[y] = << >> => y = Len(R) /\ R[y] # << >> /\ open
      BY DEF Fits
    <2>1. CASE y = n + 1
      BY <1>4, <1>5, <2>1
    <2>2. CASE y # n + 1
      <3>1. y \in 1 .. n
        BY <1>4, <2>2
      <3>2. R[y] = rows[y] /\ L[y] = ends[y]
        BY <1>4, <1>5, <3>1
      <3>3. /\ ends[y] = <<LF>> => WithoutLast(rows[y], CR) = rows[y]
            /\ ends[y] # << >>
        BY <1>1, <3>1 DEF Fits
      <3> QED
        BY <3>2, <3>3
    <2> QED
      BY <2>1, <2>2
  <1>8. EndsOpen(R, L, open)
    BY <1>4, <1>5, <1>6 DEF EndsOpen
  <1> QED
    BY <1>2, <1>7, <1>8 DEF Reads, R, L

\* A row that is read up to its line end, of which a CR is a part.
LEMMA ReadsLine ==
  ASSUME NEW rows \in Rows, NEW f, ReadTo(rows, f, FALSE), NEW row \in Seq(Chars)
  PROVE  ReadTo(Append(rows, WithoutLast(row, CR)), f \o (row \o <<LF>>), FALSE)
  <1>1. PICK ends : Reads(rows, ends, f, FALSE)
    BY DEF ReadTo
  <1> DEFINE r == WithoutLast(row, CR)
  <1>2. CASE row # << >> /\ Last(row) = CR
    <2>1. r = Front(row)
      BY <1>2 DEF WithoutLast
    <2>2. Front(row) \in Seq(Chars) /\ row = Append(Front(row), CR) /\ CR \in Chars
      BY <1>2, FrontAndLast DEF Chars
    <2> HIDE DEF r
    <2>3. r \in Seq(Chars) /\ row = r \o <<CR>>
      BY <2>1, <2>2, AppendIsConcat
    <2>4. r \o <<CR, LF>> = row \o <<LF>>
      <3>1. r \in Texts /\ <<LF>> \in Texts /\ <<CR>> \in Texts
        BY <2>2, <2>3, RowIsText, Single
      <3>2. (r \o <<CR>>) \o <<LF>> = r \o (<<CR>> \o <<LF>>)
        BY <3>1, TextsAssociate
      <3>3. <<CR>> \o <<LF>> = <<CR, LF>>
        <4> DEFINE S == Chars \cup {LF}
        <4>1. <<CR>> \in Seq(S) /\ LF \in S
          BY <3>1 DEF Texts
        <4> HIDE DEF S
        <4>2. Append(<<CR>>, LF) = <<CR>> \o <<LF>>
          BY <4>1, AppendIsConcat
        <4> DEFINE p == Append(<<CR>>, LF)
                   q == <<CR, LF>>
        <4>3. <<CR>> \in Seq(S) /\ Len(<<CR>>) = 1 /\ <<CR>>[1] = CR
          BY <4>1
        <4>4. p \in Seq(S) /\ Len(p) = 2 /\ p[1] = CR /\ p[2] = LF
          BY <4>1, <4>3, AppendProperties
        <4>5. CR \in S
          BY <4>3, ElementOfSeq
        <4>6. q \in Seq(S) /\ Len(q) = 2 /\ q[1] = CR /\ q[2] = LF
          BY <4>1, <4>5
        <4> HIDE DEF p, q
        <4>7. \A k \in 1 .. Len(p) : p[k] = q[k]
          BY <4>4, <4>6
        <4>8. p = q
          BY <4>4, <4>6, <4>7, SeqEqual
        <4> QED
          BY <4>2, <4>8 DEF p, q
      <3> QED
        BY <2>3, <3>2, <3>3
    <2>5. Reads(Append(rows, r), Append(ends, <<CR, LF>>), f \o (r \o <<CR, LF>>), FALSE)
      <3>1. <<CR, LF>> \in LineEnds
        BY LineEndsAreTexts
      <3> QED
        BY <1>1, <2>3, <3>1, LineEndsDiffer, ReadsAdded
    <2> QED
      BY <2>4, <2>5 DEF ReadTo, r
  <1>3. CASE ~(row # << >> /\ Last(row) = CR)
    <2>1. r = row
      BY <1>3 DEF WithoutLast
    <2>2. Reads(Append(rows, row), Append(ends, <<LF>>), f \o (row \o <<LF>>), FALSE)
      <3>1. <<LF>> \in LineEnds
        BY LineEndsAreTexts
      <3> QED
        BY <1>1, <2>1, <3>1, LineEndsDiffer, ReadsAdded
    <2> QED
      BY <2>1, <2>2 DEF ReadTo
  <1> QED
    BY <1>2, <1>3

\* A row that is read up to the end of a chunk.
LEMMA ReadsPiece ==
  ASSUME NEW rows \in Rows, NEW f, ReadTo(rows, f, FALSE), NEW row \in Seq(Chars), row # << >>
  PROVE  ReadTo(Append(rows, row), f \o row, TRUE)
  <1>1. PICK ends : Reads(rows, ends, f, FALSE)
    BY DEF ReadTo
  <1>2. << >> \in LineEnds
    BY LineEndsAreTexts
  <1>3. Reads(Append(rows, row), Append(ends, << >>), f \o (row \o << >>), TRUE)
    BY <1>1, <1>2, LineEndsDiffer, ReadsAdded
  <1>4. row \o << >> = row
    BY ConcatEmptySeq
  <1> QED
    BY <1>3, <1>4 DEF ReadTo

\* A row that is still open can be taken back.
LEMMA Reopened ==
  ASSUME NEW rows \in Rows, NEW f, ReadTo(rows, f, TRUE)
  PROVE  /\ Front(rows) \in Rows /\ Last(rows) \in Seq(Chars)
         /\ \E g \in Texts : f = g \o Last(rows) /\ ReadTo(Front(rows), g, FALSE)
  <1>1. PICK ends : Reads(rows, ends, f, TRUE)
    BY DEF ReadTo
  <1> DEFINE T == Seq(Chars)
             R == Front(rows)
             p == Last(rows)
             L == Front(ends)
             l == Last(ends)
             n == Len(R)
  <1>2. /\ ends \in Seq(LineEnds) /\ Len(ends) = Len(rows) /\ f = FlattenSeq(Parts(rows, ends))
        /\ Fits(rows, ends, TRUE) /\ rows # << >> /\ ends[Len(rows)] = << >>
    BY <1>1 DEF Reads, Follow, EndsOpen
  <1>3. rows \in Seq(T) /\ Rows = Seq(T)
    BY DEF Rows
  <1> HIDE DEF T
  <1>4. R \in Seq(T) /\ p \in T /\ rows = Append(R, p) /\ Len(rows) = n + 1 /\ n \in Nat
    BY <1>2, <1>3, FrontAndLast
  <1>5. ends # << >>
    BY <1>2, <1>3, EmptySeq
  <1>6. L \in Seq(LineEnds) /\ l \in LineEnds /\ ends = Append(L, l) /\ Len(L) = n
    <2>1. /\ L \in Seq(LineEnds) /\ l \in LineEnds /\ ends = Append(L, l)
          /\ Len(ends) = Len(L) + 1 /\ Len(L) \in Nat
      BY <1>2, <1>5, FrontAndLast
    <2>2. Len(L) = n
      BY <1>2, <1>4, <2>1
    <2> QED
      BY <2>1, <2>2
  <1>7. l = << >>
    BY <1>2 DEF Last
  <1> HIDE DEF R, p, L, l
  <1>8. /\ \A y \in 1 .. n : rows[y] = R[y] /\ ends[y] = L[y] /\ y \in 1 .. Len(rows) /\ y # Len(rows)
    <2>1. \A y \in 1 .. n : Append(R, p)[y] = R[y]
      BY <1>4, AppendProperties
    <2>2. \A y \in 1 .. n : Append(L, l)[y] = L[y]
      BY <1>6, AppendProperties
    <2>3. \A y \in 1 .. n : y \in 1 .. n + 1 /\ y # n + 1
      BY <1>4
    <2> QED
      BY <1>4, <1>6, <2>1, <2>2, <2>3
  <1>9. Fits(R, L, FALSE)
    BY <1>2, <1>8 DEF Fits
  <1>10. R \in Rows /\ p \in Seq(Chars) /\ Follow(R, L)
    BY <1>3, <1>4, <1>6 DEF Follow, T
  <1> DEFINE g == FlattenSeq(Parts(R, L))
  <1>11. g \in Texts
    BY <1>10, ReadText
  <1>12. f = g \o p
    <2>1. FlattenSeq(Parts(Append(R, p), Append(L, l))) = g \o (p \o l)
      BY <1>6, <1>10, PartAdded
    <2>2. p \o l = p
      BY <1>7, <1>10, ConcatEmptySeq
    <2> QED
      BY <1>2, <1>4, <1>6, <2>1, <2>2
  <1>13. Reads(R, L, g, FALSE)
    BY <1>9, <1>10 DEF Reads, EndsOpen
  <1> QED
    BY <1>10, <1>11, <1>12, <1>13 DEF ReadTo, R, p

\* Before the first chunk.
LEMMA ReadNothing == ReadTo(<< >>, << >>, FALSE)
  <1>1. << >> \in Rows /\ << >> \in Seq(LineEnds) /\ Len(<< >>) = 0
    BY JoinedEmpty, EmptySeq
  <1>2. Follow(<< >>, << >>)
    BY <1>1 DEF Follow
  <1>3. Parts(<< >>, << >>) = << >>
    <2>1. Parts(<< >>, << >>) \in Seq(Texts) /\ Len(Parts(<< >>, << >>)) = 0
      BY <1>1, <1>2, PartsType
    <2> QED
      BY <2>1, EmptySeq
  <1>4. Fits(<< >>, << >>, FALSE) /\ EndsOpen(<< >>, << >>, FALSE)
    BY <1>1 DEF Fits, EndsOpen
  <1> QED
    BY <1>2, <1>3, <1>4, FlatEmpty DEF ReadTo, Reads

\* A file that is read to its end is its lines.
LEMMA ReadAll ==
  ASSUME NEW rows \in Rows, NEW f, NEW open, ReadTo(rows, f, open)
  PROVE  LinesOf(rows, f)
  <1>1. PICK ends : Reads(rows, ends, f, open)
    BY DEF ReadTo
  <1>2. DOMAIN rows = 1 .. Len(rows)
    BY LenProperties DEF Rows
  <1>3. ends \in [DOMAIN rows -> {<<LF>>, <<CR, LF>>, << >>}]
    <2>1. ends \in [1 .. Len(ends) -> LineEnds] /\ Len(ends) = Len(rows)
      BY <1>1, LenProperties DEF Reads, Follow
    <2> QED
      BY <1>2, <2>1 DEF LineEnds
  <1>4. f = FlattenSeq([y \in DOMAIN rows |-> rows[y] \o ends[y]])
    BY <1>1 DEF Reads, Parts
  <1>5. ASSUME NEW y \in DOMAIN rows
        PROVE  /\ \A x \in DOMAIN rows[y] : rows[y][x] # LF
               /\ ends[y] = <<LF>> => WithoutLast(rows[y], CR) = rows[y]
               /\ ends[y] = << >> => y = Len(rows) /\ rows[y] # << >>
    <2>1. rows[y] \in Seq(Chars)
      BY <1>2, ElementOfSeq DEF Rows
    <2>2. ASSUME NEW x \in DOMAIN rows[y] PROVE rows[y][x] # LF
      <3>1. x \in 1 .. Len(rows[y])
        BY <2>1, LenProperties
      <3>2. rows[y][x] \in Chars
        BY <2>1, <3>1, ElementOfSeq
      <3> QED
        BY <3>2, TextsAssumption
    <2>3. /\ ends[y] = <<LF>> => WithoutLast(rows[y], CR) = rows[y]
          /\ ends[y] = << >> => y = Len(rows) /\ rows[y] # << >>
      BY <1>1, <1>2 DEF Reads, Fits
    <2> QED
      BY <2>2, <2>3
  <1> QED
    BY <1>3, <1>4, <1>5 DEF LinesOf

\* Where the loops are and what the mark says.
Reading == mode = "loading" => /\ i <= Len(file)
                               /\ ReadTo(E.rows, SubSeq(file, 1, i), continuing)
Writing == mode = "saving" => file = Joined(SubSeq(E.rows, 1, i))
Asking == mode = "confirm" => E.dirty

Kept == Reading /\ Writing /\ Asking /\ CleanMeansSaved

\* A chunk is read, which begins a row or goes on with the last one.
LEMMA ChunkRead ==
  ASSUME IInv, Reading, LoadChunk
  PROVE  Reading'
  <1> DEFINE complete == Last(Chunk) = LF
             line == WithoutLast(Chunk, LF)
             row == IF Joins THEN Last(E.rows) \o line ELSE line
             earlier == IF Joins THEN Front(E.rows) ELSE E.rows
             f == SubSeq(file, 1, i)
             chunk == Chunk
  <1>1. /\ mode = "loading" /\ i < Len(file) /\ i \in Nat /\ file \in Texts
        /\ E.rows \in Rows /\ continuing \in BOOLEAN
    BY Fields DEF LoadChunk, IInv, Control, Flags, Loops, Inside
  <1>2. /\ Len(chunk) \in Nat /\ chunk # << >> /\ i + Len(chunk) <= Len(file)
        /\ SubSeq(file, 1, i + Len(chunk)) = f \o chunk
        /\ line \in Seq(Chars)
        /\ complete => chunk = line \o <<LF>>
        /\ ~complete => chunk = line
    BY <1>1, ChunkIs
  <1>3. /\ i' = i + Len(chunk) /\ mode' = mode /\ file' = file /\ continuing' = ~complete
        /\ E'.rows = Append(earlier, IF complete THEN WithoutLast(row, CR) ELSE row)
    BY DEF LoadChunk, IInv, Inside, Editors
  <1>4. ReadTo(E.rows, f, continuing)
    BY <1>1 DEF Reading
  <1> HIDE DEF chunk, line, f, complete
  <1>5. \E g \in Texts : /\ ReadTo(earlier, g, FALSE) /\ earlier \in Rows /\ row \in Seq(Chars)
                         /\ row = << >> => line = << >>
                         /\ f \o line = g \o row
                         /\ f \o (line \o <<LF>>) = g \o (row \o <<LF>>)
    <2>1. CASE Joins
      <3> DEFINE p == Last(E.rows)
      <3>1. continuing = TRUE
        BY <1>1, <2>1 DEF Joins
      <3>2. earlier \in Rows /\ p \in Seq(Chars)
        BY <1>1, <1>4, <2>1, <3>1, Reopened
      <3>3. PICK g \in Texts : f = g \o p /\ ReadTo(Front(E.rows), g, FALSE)
        BY <1>1, <1>4, <3>1, Reopened
      <3> HIDE DEF p
      <3>4. p \o line \in Seq(Chars)
        BY <1>2, <3>2, ConcatProperties
      <3>5. p \o line = << >> => line = << >>
        BY <1>2, <3>2, ConcatEqualIffEmpty
      <3>6. p \in Texts /\ line \in Texts /\ <<LF>> \in Texts
        BY <1>2, <3>2, RowIsText
      <3>7. line \o <<LF>> \in Texts
        BY <3>6, TextsConcat
      <3>8. (g \o p) \o line = g \o (p \o line)
        BY <3>6, TextsAssociate
      <3> DEFINE z == line \o <<LF>>
      <3>9. (g \o p) \o z = g \o (p \o z)
        <4> HIDE DEF z
        <4>1. z \in Texts
          BY <3>7 DEF z
        <4> QED
          BY <3>6, <4>1, TextsAssociate
      <3>10. (p \o line) \o <<LF>> = p \o (line \o <<LF>>)
        BY <3>6, TextsAssociate
      <3>11. earlier = Front(E.rows) /\ row = p \o line
        BY <2>1 DEF p
      <3> HIDE DEF earlier, row
      <3> QED
        BY <3>2, <3>3, <3>4, <3>5, <3>8, <3>9, <3>10, <3>11
    <2>2. CASE ~Joins
      <3>1. continuing = FALSE /\ earlier = E.rows /\ row = line
        BY <1>1, <2>2 DEF Joins
      <3>2. f \in Texts
        <4>1. f = SubSeq(file, 1, i)
          BY DEF f
        <4>2. file \in Seq(Chars \cup {LF}) /\ i \in Int /\ 1 <= 1 /\ i <= Len(file) /\ 1 \in Int
          BY <1>1, LenProperties DEF Texts
        <4>3. SubSeq(file, 1, i) \in Seq(Chars \cup {LF})
          BY <4>2, Part
        <4> QED
          BY <4>1, <4>3 DEF Texts
      <3> HIDE DEF earlier, row
      <3> QED
        BY <1>1, <1>2, <1>4, <3>1, <3>2
    <2> QED
      BY <2>1, <2>2
  <1> HIDE DEF earlier, row
  <1>6. PICK g \in Texts : /\ ReadTo(earlier, g, FALSE) /\ earlier \in Rows /\ row \in Seq(Chars)
                           /\ row = << >> => line = << >>
                           /\ f \o line = g \o row
                           /\ f \o (line \o <<LF>>) = g \o (row \o <<LF>>)
    BY <1>5
  <1>7. ReadTo(E'.rows, f \o chunk, continuing')
    <2>1. CASE complete
      <3>1. ReadTo(Append(earlier, WithoutLast(row, CR)), g \o (row \o <<LF>>), FALSE)
        BY <1>6, ReadsLine
      <3>2. E'.rows = Append(earlier, WithoutLast(row, CR)) /\ continuing' = FALSE
        BY <1>3, <2>1
      <3>3. f \o chunk = g \o (row \o <<LF>>)
        BY <1>2, <1>6, <2>1
      <3> QED
        BY <3>1, <3>2, <3>3
    <2>2. CASE ~complete
      <3>1. row # << >>
        BY <1>2, <1>6, <2>2
      <3>2. ReadTo(Append(earlier, row), g \o row, TRUE)
        BY <1>6, <3>1, ReadsPiece
      <3>3. E'.rows = Append(earlier, row) /\ continuing' = TRUE
        BY <1>3, <2>2
      <3>4. f \o chunk = g \o row
        BY <1>2, <1>6, <2>2
      <3> QED
        BY <3>2, <3>3, <3>4
    <2> QED
      BY <2>1, <2>2
  <1>8. i' <= Len(file') /\ SubSeq(file', 1, i') = f \o chunk
    BY <1>2, <1>3
  <1> QED
    BY <1>7, <1>8 DEF Reading

\* Nothing is loaded or saved at first.
LEMMA InitKept == Init => Kept
  BY DEF Init, Kept, Reading, Writing, Asking, CleanMeansSaved

\* The file that was read is what the editor shows when it stops loading.
LEMMA LoadingEnds ==
  ASSUME IInv, Kept, LoadEnds
  PROVE  LinesOf(E'.rows, file)
  <1>1. /\ mode = "loading" /\ i = Len(file) /\ E' = Unmodified(E) /\ file \in Texts
        /\ E \in Editors /\ E.rows \in Rows
    BY Fields DEF LoadEnds, Unmodified, IInv, Control, Loops, Inside
  <1>2. E'.rows = E.rows
    BY <1>1, CountSet
  <1>3. SubSeq(file, 1, i) = file
    <2>1. file \in Seq(Chars \cup {LF})
      BY <1>1 DEF Texts
    <2> QED
      BY <1>1, <2>1, SubSeqFull
  <1>4. ReadTo(E.rows, file, continuing)
    BY <1>1, <1>3 DEF Kept, Reading
  <1> QED
    BY <1>1, <1>2, <1>4, ReadAll

\* A key.
LEMMA KeyKept ==
  ASSUME IInv, Kept,
         \/ \E c \in Letters : InsertLetter(c)
         \/ Tab \/ Enter \/ Backspace \/ Delete \/ Home \/ End
         \/ \E k \in {"left", "right", "up", "down"} : Arrow(k)
  PROVE  Kept'
  <1>1. mode = "editing" /\ UNCHANGED <<mode, file, torn>>
    BY DEF InsertLetter, Tab, Enter, Backspace, Delete, Home, End, Arrow, Keypress
  <1>2. Counted(E, E')
    BY EveryKeyOutcome DEF IInv, Outcome
  <1>3. CleanMeansSaved'
    BY <1>1, <1>2 DEF Counted, Kept, CleanMeansSaved, Saved
  <1> QED
    BY <1>1, <1>3 DEF Kept, Reading, Writing, Asking

\* Opening and reading a file.
LEMMA LoadingKept ==
  ASSUME IInv, Kept, OpenNew \/ Open \/ LoadChunk \/ LoadEnds \/ LoadFails
  PROVE  Kept'
  <1>1. CASE OpenNew
    <2> DEFINE f == editorInsertRow(Cleared, 0, << >>)
    <2>1. Cleared \in Editors /\ Cleared.rows = << >> /\ 0 \in 0 .. numrows(Cleared) /\ << >> \in Seq(Chars)
      BY ClearedInside, EmptySeq DEF Inside, numrows
    <2>2. f \in Editors /\ E' = Unmodified(f)
      BY <1>1, <2>1, RowInserted DEF OpenNew, Unmodified
    <2>3. f.rows = << << >> >>
      <3>1. f.rows = InsertAt(<< >>, 1, << >>)
        BY <2>1 DEF editorInsertRow, Editors
      <3>2. RowsAround(<< >>, << >>, << >>)
        BY JoinedEmpty, <2>1, RowAround
      <3>3. InsertAt(<< >> \o << >>, Len(<< >>) + 1, << >>) = (<< >> \o << << >> >>) \o << >>
        BY <3>2 DEF RowsAround
      <3>4. /\ << >> \o << >> = << >> /\ Len(<< >>) + 1 = 1
            /\ (<< >> \o << << >> >>) \o << >> = << << >> >>
        OBVIOUS
      <3> QED
        BY <3>1, <3>3, <3>4
    <2> HIDE DEF f
    <2>4. E'.rows = << << >> >>
      BY <2>2, <2>3, CountSet
    <2>5. Saved'
      BY <1>1, <2>4 DEF OpenNew, Saved
    <2> QED
      BY <1>1, <2>5 DEF OpenNew, Kept, Reading, Writing, Asking, CleanMeansSaved
  <1>2. CASE Open
    <2>1. /\ mode' = "loading" /\ i' = 0 /\ file' = file /\ file \in Texts
          /\ E'.rows = << >> /\ continuing' = FALSE
      BY <1>2, ClearedInside DEF Open, IInv, Control, Loops
    <2>2. SubSeq(file, 1, 0) = << >> /\ 0 <= Len(file)
      <3> DEFINE S == Chars \cup {LF}
      <3>1. file \in Seq(S) /\ Len(file) \in Nat
        BY <2>1, LenProperties DEF Texts
      <3> HIDE DEF S
      <3>2. SubSeq(file, 1, 0) \in Seq(S) /\ Len(SubSeq(file, 1, 0)) = 0
        BY <3>1, Part
      <3> QED
        BY <3>1, <3>2, EmptySeq
    <2>3. Reading'
      BY <2>1, <2>2, ReadNothing DEF Reading
    <2> QED
      BY <2>1, <2>3 DEF Kept, Writing, Asking, CleanMeansSaved
  <1>3. CASE LoadChunk
    <2>1. Reading'
      BY <1>3, ChunkRead DEF Kept
    <2> QED
      BY <1>3, <2>1 DEF LoadChunk, Kept, Writing, Asking, CleanMeansSaved
  <1>4. CASE LoadEnds
    <2>1. LinesOf(E'.rows, file) /\ file # NoFile
      BY <1>4, LoadingEnds DEF LoadEnds, IInv, Loops
    <2>2. Saved'
      BY <1>4, <2>1 DEF LoadEnds, Saved
    <2> QED
      BY <1>4, <2>2 DEF LoadEnds, Kept, Reading, Writing, Asking, CleanMeansSaved
  <1>5. CASE LoadFails
    BY <1>5 DEF LoadFails, Leave, Kept, Reading, Writing, Asking, CleanMeansSaved
  <1> QED
    BY <1>1, <1>2, <1>3, <1>4, <1>5

\* Paging and quitting.
LEMMA PagingAndQuittingKept ==
  ASSUME IInv, Kept,
         \/ \E k \in {"up", "down"} : PageKey(k)
         \/ PageStep \/ PageEnds \/ Quit \/ ConfirmQuit \/ Decline
  PROVE  Kept'
  <1>1. Inside(E) /\ E \in Editors
    BY DEF IInv, Inside
  <1>2. CASE \E k \in {"up", "down"} : PageKey(k)
    BY <1>2 DEF PageKey, Kept, Reading, Writing, Asking, CleanMeansSaved, Saved
  <1>3. CASE PageStep \/ PageEnds
    <2>1. E'.rows = E.rows /\ E'.dirty = E.dirty
      BY <1>1, <1>3, MoveKeepsRows, ScrollKeeps DEF PageStep, PageEnds
    <2> QED
      BY <1>3, <2>1 DEF PageStep, PageEnds, Kept, Reading, Writing, Asking, CleanMeansSaved, Saved
  <1>4. CASE Quit \/ ConfirmQuit \/ Decline
    BY <1>4 DEF Quit, ConfirmQuit, Decline, Leave, Kept, Reading, Writing, Asking, CleanMeansSaved
  <1> QED
    BY <1>2, <1>3, <1>4

\* One more row is written.
LEMMA RowWritten ==
  ASSUME NEW rows \in Rows, NEW n \in Nat, n < Len(rows)
  PROVE  Joined(SubSeq(rows, 1, n + 1)) = Joined(SubSeq(rows, 1, n)) \o Append(rows[n + 1], LF)
  <1> DEFINE T == Seq(Chars)
             a == SubSeq(rows, 1, n)
             r == rows[n + 1]
             b == SubSeq(rows, n + 1, n + 1)
  <1>1. rows \in Seq(T) /\ Rows = Seq(T) /\ Len(rows) \in Nat
    BY LenProperties DEF Rows
  <1>2. n + 1 \in 1 .. Len(rows)
    BY <1>1
  <1> HIDE DEF T
  <1>3. a \in Seq(T) /\ r \in T
    BY <1>1, <1>2, Part, ElementOfSeq
  <1>4. b = <<r>>
    <2>1. n + 1 \in Int /\ 1 <= n + 1 /\ n + 1 <= Len(rows)
      BY <1>1, <1>2
    <2>2. /\ b \in Seq(T) /\ Len(b) = IF n + 1 <= n + 1 THEN (n + 1) - (n + 1) + 1 ELSE 0
          /\ \A k \in 1 .. (n + 1) - (n + 1) + 1 : b[k] = rows[(n + 1) + k - 1]
      BY <1>1, <2>1, Part
    <2>3. 1 \in 1 .. (n + 1) - (n + 1) + 1 /\ (n + 1) + 1 - 1 = n + 1
      OBVIOUS
    <2>4. Len(b) = 1 /\ b[1] = r
      BY <2>2, <2>3
    <2>5. <<r>> \in Seq(T) /\ Len(<<r>>) = 1 /\ <<r>>[1] = r
      BY <1>3, Single
    <2> HIDE DEF b, r
    <2>6. \A k \in 1 .. Len(b) : b[k] = <<r>>[k]
      BY <2>4, <2>5
    <2> QED
      BY <2>2, <2>4, <2>5, <2>6, SeqEqual
  <1>5. SubSeq(rows, 1, n + 1) = a \o b
    <2>1. 1 \in 1 .. Len(rows) + 1 /\ n \in 1 - 1 .. Len(rows) /\ n + 1 \in n .. Len(rows)
      BY <1>1, <1>2
    <2> QED
      BY <1>1, <2>1, ConcatAdjacentSubSeq
  <1>6. a \in Rows /\ r \in Seq(Chars)
    BY <1>1, <1>3 DEF T
  <1> HIDE DEF a, b, r
  <1>7. <<r>> \in Rows /\ Joined(<<r>>) = r \o <<LF>> /\ Append(r, LF) = r \o <<LF>>
    BY <1>6, JoinedOne, RowIsText
  <1>8. Joined(a \o <<r>>) = Joined(a) \o Joined(<<r>>)
    BY <1>6, <1>7, JoinedConcat
  <1> QED
    BY <1>4, <1>5, <1>7, <1>8 DEF a, r

\* Saving.
LEMMA SavingKept ==
  ASSUME IInv, Kept, Save \/ SaveRow \/ SaveEnds \/ SaveFails
  PROVE  Kept'
  <1>1. E \in Editors /\ E.rows \in Rows /\ Len(E.rows) \in Nat
    BY Fields DEF IInv, Inside, numrows
  <1>2. CASE Save
    <2>1. mode' = "saving" /\ file' = << >> /\ E' = E /\ i' = 0
      BY <1>2 DEF Save, IInv, Loops
    <2>2. SubSeq(E.rows, 1, 0) = << >>
      <3> DEFINE T == Seq(Chars)
      <3>1. E.rows \in Seq(T)
        BY <1>1 DEF Rows
      <3> HIDE DEF T
      <3>2. SubSeq(E.rows, 1, 0) \in Seq(T) /\ Len(SubSeq(E.rows, 1, 0)) = 0
        BY <1>1, <3>1, Part
      <3> QED
        BY <3>2, EmptySeq
    <2>3. Writing'
      BY <2>1, <2>2, JoinedEmpty DEF Writing, Joined
    <2> QED
      BY <2>1, <2>3 DEF Kept, Reading, Asking, CleanMeansSaved
  <1>3. CASE SaveRow
    <2>1. /\ mode = "saving" /\ i < Len(E.rows) /\ i \in Nat /\ i' = i + 1 /\ E' = E /\ mode' = mode
          /\ file' = file \o Append(E.rows[i + 1], LF)
      BY <1>3 DEF SaveRow, IInv, Control, numrows
    <2>2. file = Joined(SubSeq(E.rows, 1, i))
      BY <2>1 DEF Kept, Writing
    <2>3. file' = Joined(SubSeq(E.rows, 1, i + 1))
      BY <1>1, <2>1, <2>2, RowWritten
    <2>4. Writing'
      BY <2>1, <2>3 DEF Writing, Joined
    <2> QED
      BY <2>1, <2>4 DEF Kept, Reading, Asking, CleanMeansSaved
  <1>4. CASE SaveEnds
    <2>1. /\ mode = "saving" /\ i = Len(E.rows) /\ mode' = "editing" /\ E' = Unmodified(E) /\ file' = file
          /\ file # NoFile
      BY <1>4 DEF SaveEnds, IInv, Loops, numrows, Unmodified
    <2>2. E'.rows = E.rows
      BY <1>1, <2>1, CountSet
    <2>3. SubSeq(E.rows, 1, i) = E.rows
      <3> DEFINE T == Seq(Chars)
      <3>1. E.rows \in Seq(T)
        BY <1>1 DEF Rows
      <3> HIDE DEF T
      <3> QED
        BY <2>1, <3>1, SubSeqFull
    <2>4. file = Joined(E.rows)
      BY <2>1, <2>3 DEF Kept, Writing
    <2>5. Saved'
      BY <2>1, <2>2, <2>4 DEF Saved, Joined
    <2> QED
      BY <2>1, <2>5 DEF Kept, Reading, Writing, Asking, CleanMeansSaved
  <1>5. CASE SaveFails
    BY <1>5 DEF SaveFails, Kept, Reading, Writing, Asking, CleanMeansSaved
  <1> QED
    BY <1>2, <1>3, <1>4, <1>5

\* Kept is inductive next to IInv.
LEMMA NextKept == IInv /\ Kept /\ [Next]_vars => Kept'
  <1> SUFFICES ASSUME IInv, Kept, [Next]_vars PROVE Kept'
    OBVIOUS
  <1>1. CASE UNCHANGED vars
    BY <1>1 DEF vars, Kept, Reading, Writing, Asking, CleanMeansSaved, Saved
  <1>2. CASE Next
    BY <1>2, KeyKept, LoadingKept, PagingAndQuittingKept, SavingKept DEF Next
  <1> QED
    BY <1>1, <1>2

\* What the loops have read or written so far, and what the mark says, at any time.
THEOREM KeptAlways == Spec => []Kept
  BY InitKept, NextKept, InductiveInvariant, PTL DEF Spec

\* A text that is not marked as modified is in the file: no edit, no save and no declined
\* quit of the editor leaves the mark off wrongly, unless the last save failed.
THEOREM CleanIsSaved == Spec => []CleanMeansSaved
  <1>1. Kept => CleanMeansSaved
    BY DEF Kept
  <1> QED
    BY <1>1, KeptAlways, PTL

\* Reading in chunks of any size gives the lines of any file.
THEOREM LoadsLines == Spec => LoadsTheLines
  <1>1. IInv /\ Kept /\ [Next]_vars => [mode = "loading" /\ mode' = "editing" => LinesOf(E'.rows, file)]_vars
    <2> SUFFICES ASSUME IInv, Kept, Next, mode = "loading", mode' = "editing"
                 PROVE  LinesOf(E'.rows, file)
      OBVIOUS
    <2>1. LoadEnds
      BY DEF Next, OpenNew, Open, LoadChunk, LoadFails, Leave, InsertLetter, Tab, Enter, Backspace,
             Delete, Home, End, Arrow, Keypress, PageKey, PageStep, PageEnds, Quit, ConfirmQuit,
             Decline, Save, SaveRow, SaveEnds, SaveFails
    <2> QED
      BY <2>1, LoadingEnds
  <1> QED
    BY <1>1, InductiveInvariant, KeptAlways, PTL DEF Spec, LoadsTheLines

-----------------------------------------------------------------------------
(* A file has one division into lines: its last line can be told, and taken off. *)

\* What a file is but for its last line.
LastLine(rows, f, open, g, l) ==
  /\ g \in Texts /\ l \in LineEnds
  /\ f = g \o (Last(rows) \o l)
  /\ ReadTo(Front(rows), g, FALSE)
  /\ l = <<LF>> => WithoutLast(Last(rows), CR) = Last(rows)
  /\ l = << >> => Last(rows) # << >> /\ open

\* The last line of a file can be taken from it.
LEMMA LineTaken ==
  ASSUME NEW rows \in Rows, rows # << >>, NEW f, NEW open, ReadTo(rows, f, open)
  PROVE  /\ Front(rows) \in Rows /\ Last(rows) \in Seq(Chars)
         /\ rows = Append(Front(rows), Last(rows)) /\ Len(rows) = Len(Front(rows)) + 1
         /\ \E g, l : LastLine(rows, f, open, g, l)
  <1>1. PICK ends : Reads(rows, ends, f, open)
    BY DEF ReadTo
  <1> DEFINE T == Seq(Chars)
             R == Front(rows)
             p == Last(rows)
             L == Front(ends)
             l == Last(ends)
             n == Len(R)
  <1>2. /\ ends \in Seq(LineEnds) /\ Len(ends) = Len(rows) /\ f = FlattenSeq(Parts(rows, ends))
        /\ Fits(rows, ends, open)
    BY <1>1 DEF Reads, Follow
  <1>3. rows \in Seq(T) /\ Rows = Seq(T)
    BY DEF Rows
  <1> HIDE DEF T
  <1>4. R \in Seq(T) /\ p \in T /\ rows = Append(R, p) /\ Len(rows) = n + 1 /\ n \in Nat
    BY <1>3, FrontAndLast
  <1>5. ends # << >>
    BY <1>2, <1>3, EmptySeq
  <1>6. L \in Seq(LineEnds) /\ l \in LineEnds /\ ends = Append(L, l) /\ Len(L) = n
    <2>1. /\ L \in Seq(LineEnds) /\ l \in LineEnds /\ ends = Append(L, l)
          /\ Len(ends) = Len(L) + 1 /\ Len(L) \in Nat
      BY <1>2, <1>5, FrontAndLast
    <2>2. Len(L) = n
      BY <1>2, <1>4, <2>1
    <2> QED
      BY <2>1, <2>2
  <1>7. rows[n + 1] = p /\ ends[n + 1] = l /\ n + 1 \in 1 .. Len(rows)
    <2>1. rows[n + 1] = p
      <3> HIDE DEF R, p, n
      <3> QED
        BY <1>4 DEF Last, p
    <2>2. ends[n + 1] = l
      <3> HIDE DEF R, p, L, n
      <3> QED
        BY <1>2, <1>4 DEF Last, l
    <2>3. n + 1 \in 1 .. Len(rows)
      BY <1>4
    <2> QED
      BY <2>1, <2>2, <2>3
  <1> HIDE DEF R, p, L, l
  <1>8. \A y \in 1 .. n : rows[y] = R[y] /\ ends[y] = L[y] /\ y \in 1 .. Len(rows) /\ y # Len(rows)
    <2>1. \A y \in 1 .. n : Append(R, p)[y] = R[y]
      BY <1>4, AppendProperties
    <2>2. \A y \in 1 .. n : Append(L, l)[y] = L[y]
      BY <1>6, AppendProperties
    <2>3. \A y \in 1 .. n : y \in 1 .. n + 1 /\ y # n + 1
      BY <1>4
    <2> QED
      BY <1>4, <1>6, <2>1, <2>2, <2>3
  <1>9. Fits(R, L, FALSE)
    BY <1>2, <1>8 DEF Fits
  <1>10. R \in Rows /\ p \in Seq(Chars) /\ Follow(R, L)
    BY <1>3, <1>4, <1>6 DEF Follow, T
  <1> DEFINE g == FlattenSeq(Parts(R, L))
  <1>11. g \in Texts
    BY <1>10, ReadText
  <1>12. f = g \o (p \o l)
    <2>1. FlattenSeq(Parts(Append(R, p), Append(L, l))) = g \o (p \o l)
      BY <1>6, <1>10, PartAdded
    <2> QED
      BY <1>2, <1>4, <1>6, <2>1
  <1>13. Reads(R, L, g, FALSE)
    BY <1>9, <1>10 DEF Reads, EndsOpen
  <1>14. (l = <<LF>> => WithoutLast(p, CR) = p) /\ (l = << >> => p # << >> /\ open)
    BY <1>2, <1>7 DEF Fits
  <1>15. LastLine(rows, f, open, g, l)
    <2> HIDE DEF g
    <2> QED
      BY <1>6, <1>11, <1>12, <1>13, <1>14 DEF LastLine, ReadTo, R, p
  <1> QED
    BY <1>4, <1>10, <1>15 DEF R, p

\* One line, and lines.
IsLine(t) == t \in Texts /\ Len(t) \in Nat \ {0} /\ \A k \in 1 .. Len(t) - 1 : t[k] # LF
EndsWithLine(g) == g = << >> \/ g[Len(g)] = LF

\* A row and its line end: the line end tells how it ends.
LEMMA LineIs ==
  ASSUME NEW p \in Seq(Chars), NEW l \in LineEnds, l = << >> => p # << >>
  PROVE  /\ IsLine(p \o l) /\ Len(p) \in Nat /\ Len(p \o l) = Len(p) + Len(l)
         /\ \A k \in 1 .. Len(p) : (p \o l)[k] = p[k] /\ p[k] # LF
         /\ l = << >> => Len(l) = 0
         /\ l = <<LF>> => Len(l) = 1 /\ (p \o l)[Len(p) + 1] = LF
         /\ l = <<CR, LF>> => Len(l) = 2 /\ (p \o l)[Len(p) + 1] = CR /\ (p \o l)[Len(p) + 2] = LF
  <1> DEFINE S == Chars \cup {LF}
             t == p \o l
  <1>1. p \in Seq(S) /\ l \in Seq(S) /\ Texts = Seq(S)
    BY RowIsText, LineEndsAreTexts DEF Texts
  <1>2. Len(p) \in Nat /\ \A k \in 1 .. Len(p) : p[k] # LF
    BY LenProperties, ElementOfSeq, TextsAssumption
  <1> HIDE DEF S
  <1>3. /\ t \in Seq(S) /\ Len(t) = Len(p) + Len(l)
        /\ \A k \in 1 .. Len(p) + Len(l) : t[k] = IF k <= Len(p) THEN p[k] ELSE l[k - Len(p)]
    BY <1>1, ConcatProperties
  <1> HIDE DEF t
  <1>4. \A k \in 1 .. Len(p) : t[k] = p[k]
    <2>1. Len(l) \in Nat
      BY <1>1, LenProperties
    <2>2. \A k \in 1 .. Len(p) : k \in 1 .. Len(p) + Len(l) /\ k <= Len(p)
      BY <1>2, <2>1
    <2> QED
      BY <1>3, <2>2
  <1>5. CASE l = << >>
    <2>1. Len(l) = 0 /\ Len(p) # 0
      BY <1>1, <1>2, <1>5, EmptySeq
    <2>2. Len(t) = Len(p)
      BY <1>2, <1>3, <2>1
    <2>3. \A k \in 1 .. Len(t) - 1 : k \in 1 .. Len(p)
      BY <1>2, <2>2
    <2>4. IsLine(t)
      BY <1>1, <1>2, <1>3, <1>4, <2>1, <2>2, <2>3 DEF IsLine
    <2> QED
      BY <1>2, <1>3, <1>4, <1>5, <2>1, <2>4, LineEndsDiffer DEF t
  <1>6. CASE l = <<LF>>
    <2>1. Len(l) = 1 /\ l[1] = LF
      BY <1>6
    <2>2. Len(t) = Len(p) + 1 /\ t[Len(p) + 1] = LF
      <3>1. Len(p) + 1 \in 1 .. Len(p) + 1 /\ ~(Len(p) + 1 <= Len(p)) /\ (Len(p) + 1) - Len(p) = 1
        BY <1>2
      <3> QED
        BY <1>3, <2>1, <3>1
    <2>3. \A k \in 1 .. Len(t) - 1 : k \in 1 .. Len(p)
      BY <1>2, <2>2
    <2>4. IsLine(t)
      BY <1>1, <1>2, <1>3, <1>4, <2>2, <2>3 DEF IsLine
    <2> QED
      BY <1>2, <1>3, <1>4, <1>6, <2>1, <2>2, <2>4, LineEndsDiffer DEF t
  <1>7. CASE l = <<CR, LF>>
    <2>1. Len(l) = 2 /\ l[1] = CR /\ l[2] = LF
      BY <1>7
    <2>2. Len(t) = Len(p) + 2 /\ t[Len(p) + 1] = CR /\ t[Len(p) + 2] = LF
      <3>1. /\ Len(p) + 1 \in 1 .. Len(p) + 2 /\ ~(Len(p) + 1 <= Len(p)) /\ (Len(p) + 1) - Len(p) = 1
            /\ Len(p) + 2 \in 1 .. Len(p) + 2 /\ ~(Len(p) + 2 <= Len(p)) /\ (Len(p) + 2) - Len(p) = 2
        BY <1>2
      <3> QED
        BY <1>3, <2>1, <3>1
    <2>3. \A k \in 1 .. Len(t) - 1 : k \in 1 .. Len(p) \/ k = Len(p) + 1
      BY <1>2, <2>2
    <2>4. CR # LF
      BY TextsAssumption DEF Chars
    <2>5. IsLine(t)
      BY <1>1, <1>2, <1>3, <1>4, <2>2, <2>3, <2>4 DEF IsLine
    <2> QED
      BY <1>2, <1>3, <1>4, <1>7, <2>1, <2>2, <2>5, LineEndsDiffer DEF t
  <1> QED
    BY <1>5, <1>6, <1>7 DEF LineEnds

\* A row that a line end of LF alone follows does not end with a CR.
LEMMA NoReturn ==
  ASSUME NEW p \in Seq(Chars), WithoutLast(p, CR) = p, Len(p) # 0
  PROVE  p[Len(p)] # CR
  <1>1. p # << >> /\ Len(p) \in Nat
    BY EmptySeq, LenProperties
  <1>2. Len(p) = Len(Front(p)) + 1 /\ Len(Front(p)) \in Nat
    BY <1>1, FrontAndLast
  <1>3. Front(p) # p
    BY <1>2
  <1> QED
    BY <1>1, <1>3 DEF WithoutLast, Last

\* A line has one row.
LEMMA LineOnce ==
  ASSUME NEW p \in Seq(Chars), NEW l \in LineEnds, l = << >> => p # << >>,
         l = <<LF>> => WithoutLast(p, CR) = p,
         NEW q \in Seq(Chars), NEW m \in LineEnds, m = << >> => q # << >>,
         m = <<LF>> => WithoutLast(q, CR) = q,
         p \o l = q \o m
  PROVE  p = q
  <1> DEFINE t == p \o l
             a == Len(p)
             b == Len(q)
  <1>1. /\ a \in Nat /\ Len(t) = a + Len(l)
        /\ \A k \in 1 .. a : t[k] = p[k] /\ p[k] # LF
        /\ l = << >> => Len(l) = 0
        /\ l = <<LF>> => Len(l) = 1 /\ t[a + 1] = LF
        /\ l = <<CR, LF>> => Len(l) = 2 /\ t[a + 1] = CR /\ t[a + 2] = LF
    BY LineIs
  <1>2. /\ b \in Nat /\ Len(t) = b + Len(m)
        /\ \A k \in 1 .. b : t[k] = q[k] /\ q[k] # LF
        /\ m = << >> => Len(m) = 0
        /\ m = <<LF>> => Len(m) = 1 /\ t[b + 1] = LF
        /\ m = <<CR, LF>> => Len(m) = 2 /\ t[b + 1] = CR /\ t[b + 2] = LF
    <2> DEFINE u == q \o m
    <2>1. /\ b \in Nat /\ Len(u) = b + Len(m)
          /\ \A k \in 1 .. b : u[k] = q[k] /\ q[k] # LF
          /\ m = << >> => Len(m) = 0
          /\ m = <<LF>> => Len(m) = 1 /\ u[b + 1] = LF
          /\ m = <<CR, LF>> => Len(m) = 2 /\ u[b + 1] = CR /\ u[b + 2] = LF
      BY LineIs
    <2>2. u = t
      OBVIOUS
    <2> HIDE DEF t, u
    <2> QED
      BY <2>1, <2>2
  <1> HIDE DEF t
  <1>3. l = <<LF>> => (a # 0 => t[a] # CR)
    <2> SUFFICES ASSUME l = <<LF>>, a # 0 PROVE t[a] # CR
      OBVIOUS
    <2>1. p[a] # CR
      BY NoReturn
    <2>2. a \in 1 .. a
      BY <1>1
    <2> QED
      BY <1>1, <2>1, <2>2
  <1>4. m = <<LF>> => (b # 0 => t[b] # CR)
    <2> SUFFICES ASSUME m = <<LF>>, b # 0 PROVE t[b] # CR
      OBVIOUS
    <2>1. q[b] # CR
      BY NoReturn
    <2>2. b \in 1 .. b
      BY <1>2
    <2> QED
      BY <1>2, <2>1, <2>2
  <1>5. l \in {<<LF>>, <<CR, LF>>, << >>} /\ m \in {<<LF>>, <<CR, LF>>, << >>}
    BY DEF LineEnds
  <1> DEFINE n == Len(t)
  <1>6. /\ l = << >> => n = a
        /\ l = <<LF>> => n = a + 1 /\ t[n] = LF /\ (n - 1 # 0 => t[n - 1] # CR)
        /\ l = <<CR, LF>> => n = a + 2 /\ t[n] = LF /\ t[n - 1] = CR
    <2> HIDE DEF n, a
    <2>1. (a + 1) - 1 = a /\ (a + 2) - 1 = a + 1 /\ a + 0 = a /\ n = a + Len(l)
      BY <1>1 DEF n
    <2>2. ASSUME l = << >> PROVE n = a
      BY <1>1, <2>1, <2>2
    <2>3. ASSUME l = <<LF>> PROVE n = a + 1 /\ t[n] = LF /\ (n - 1 # 0 => t[n - 1] # CR)
      <3>1. n = a + 1 /\ t[a + 1] = LF
        BY <1>1, <2>1, <2>3
      <3>2. n - 1 = a
        BY <2>1, <3>1
      <3> QED
        BY <1>3, <2>3, <3>1, <3>2
    <2>4. ASSUME l = <<CR, LF>> PROVE n = a + 2 /\ t[n] = LF /\ t[n - 1] = CR
      <3>1. n = a + 2 /\ t[a + 1] = CR /\ t[a + 2] = LF
        BY <1>1, <2>1, <2>4
      <3>2. n - 1 = a + 1
        BY <2>1, <3>1
      <3> QED
        BY <3>1, <3>2
    <2> QED
      BY <2>2, <2>3, <2>4
  <1>7. /\ m = << >> => n = b
        /\ m = <<LF>> => n = b + 1 /\ t[n] = LF /\ (n - 1 # 0 => t[n - 1] # CR)
        /\ m = <<CR, LF>> => n = b + 2 /\ t[n] = LF /\ t[n - 1] = CR
    <2> HIDE DEF n, b
    <2>1. (b + 1) - 1 = b /\ (b + 2) - 1 = b + 1 /\ b + 0 = b /\ n = b + Len(m)
      BY <1>2 DEF n
    <2>2. ASSUME m = << >> PROVE n = b
      BY <1>2, <2>1, <2>2
    <2>3. ASSUME m = <<LF>> PROVE n = b + 1 /\ t[n] = LF /\ (n - 1 # 0 => t[n - 1] # CR)
      <3>1. n = b + 1 /\ t[b + 1] = LF
        BY <1>2, <2>1, <2>3
      <3>2. n - 1 = b
        BY <2>1, <3>1
      <3> QED
        BY <1>4, <2>3, <3>1, <3>2
    <2>4. ASSUME m = <<CR, LF>> PROVE n = b + 2 /\ t[n] = LF /\ t[n - 1] = CR
      <3>1. n = b + 2 /\ t[b + 1] = CR /\ t[b + 2] = LF
        BY <1>2, <2>1, <2>4
      <3>2. n - 1 = b + 1
        BY <2>1, <3>1
      <3> QED
        BY <3>1, <3>2
    <2> QED
      BY <2>2, <2>3, <2>4
  <1>8. /\ l = << >> => a \in 1 .. a /\ t[n] # LF
        /\ m = << >> => b \in 1 .. b /\ t[n] # LF
    <2>1. (l = << >> => a # 0) /\ (m = << >> => b # 0)
      BY EmptySeq
    <2>2. (a # 0 => a \in 1 .. a) /\ (b # 0 => b \in 1 .. b)
      BY <1>1, <1>2
    <2> QED
      BY <1>1, <1>2, <1>6, <1>7, <2>1, <2>2
  <1>9. a = b
    <2> HIDE DEF a, b, n
    <2>1. a \in Nat /\ b \in Nat
      BY <1>1, <1>2
    <2>2. CASE l = << >>
      BY <1>5, <1>6, <1>7, <1>8, <2>2
    <2>3. CASE l = <<LF>>
      <3>1. m # << >>
        BY <1>6, <1>8, <2>3
      <3>2. m # <<CR, LF>>
        <4> SUFFICES ASSUME m = <<CR, LF>> PROVE FALSE
          OBVIOUS
        <4>1. n = b + 2 /\ t[n - 1] = CR
          BY <1>7
        <4>2. n - 1 # 0
          BY <2>1, <4>1
        <4> QED
          BY <1>6, <2>3, <4>1, <4>2
      <3>3. n = b + 1 /\ n = a + 1
        BY <1>5, <1>6, <1>7, <2>3, <3>1, <3>2
      <3> QED
        BY <2>1, <3>3
    <2>4. CASE l = <<CR, LF>>
      <3>1. m # << >>
        BY <1>6, <1>8, <2>4
      <3>2. m # <<LF>>
        <4> SUFFICES ASSUME m = <<LF>> PROVE FALSE
          OBVIOUS
        <4>1. n = a + 2 /\ t[n - 1] = CR
          BY <1>6, <2>4
        <4>2. n - 1 # 0
          BY <2>1, <4>1
        <4> QED
          BY <1>7, <4>1, <4>2
      <3>3. n = b + 2 /\ n = a + 2
        BY <1>5, <1>6, <1>7, <2>4, <3>1, <3>2
      <3> QED
        BY <2>1, <3>3
    <2> QED
      BY <1>5, <2>2, <2>3, <2>4
  <1>10. \A k \in 1 .. a : p[k] = q[k]
    BY <1>1, <1>2, <1>9
  <1> QED
    BY <1>9, <1>10, SeqEqual

\* The lines before the last one of a text do not reach into it.
LEMMA CutNotShorter ==
  ASSUME NEW g \in Texts, NEW s, IsLine(s), NEW h \in Texts, NEW t, IsLine(t),
         g \o s = h \o t, EndsWithLine(h)
  PROVE  ~(Len(g) < Len(h))
  <1> SUFFICES ASSUME Len(g) < Len(h) PROVE FALSE
    OBVIOUS
  <1> DEFINE B == Chars \cup {LF}
             f == g \o s
             k == Len(h)
  <1>1. /\ g \in Seq(B) /\ h \in Seq(B) /\ s \in Seq(B) /\ t \in Seq(B)
        /\ Len(s) \in Nat \ {0} /\ Len(t) \in Nat \ {0}
        /\ \A j \in 1 .. Len(s) - 1 : s[j] # LF
    BY DEF IsLine, Texts
  <1> HIDE DEF B
  <1>2. Len(g) \in Nat /\ k \in Nat /\ k # 0 /\ h[k] = LF
    <2>1. Len(g) \in Nat /\ k \in Nat
      BY <1>1, LenProperties
    <2>2. k # 0
      BY <2>1
    <2>3. h # << >>
      BY <2>2, EmptySeq
    <2> QED
      BY <2>1, <2>2, <2>3 DEF EndsWithLine
  <1>3. /\ Len(f) = Len(g) + Len(s)
        /\ \A j \in 1 .. Len(g) + Len(s) : f[j] = IF j <= Len(g) THEN g[j] ELSE s[j - Len(g)]
    BY <1>1, ConcatProperties
  <1>4. /\ Len(f) = k + Len(t)
        /\ \A j \in 1 .. k + Len(t) : f[j] = IF j <= k THEN h[j] ELSE t[j - k]
    <2> DEFINE e == h \o t
    <2>1. /\ Len(e) = k + Len(t)
          /\ \A j \in 1 .. k + Len(t) : e[j] = IF j <= k THEN h[j] ELSE t[j - k]
      BY <1>1, ConcatProperties
    <2>2. e = f
      OBVIOUS
    <2> HIDE DEF e, f
    <2> QED
      BY <2>1, <2>2
  <1> HIDE DEF f
  <1>5. f[k] = LF
    <2>1. k \in 1 .. k + Len(t) /\ k <= k
      BY <1>1, <1>2
    <2> QED
      BY <1>2, <1>4, <2>1
  <1>6. k \in 1 .. Len(g) + Len(s) /\ ~(k <= Len(g)) /\ k - Len(g) \in 1 .. Len(s) - 1
    BY <1>1, <1>2, <1>3, <1>4
  <1>7. f[k] = s[k - Len(g)]
    BY <1>3, <1>6
  <1> QED
    BY <1>1, <1>5, <1>6, <1>7

\* There is one last line.
LEMMA CutOnce ==
  ASSUME NEW g \in Texts, NEW s, IsLine(s), NEW h \in Texts, NEW t, IsLine(t),
         g \o s = h \o t, EndsWithLine(g), EndsWithLine(h)
  PROVE  g = h /\ s = t
  <1> DEFINE B == Chars \cup {LF}
             f == g \o s
             e == h \o t
  <1>1. g \in Seq(B) /\ h \in Seq(B) /\ s \in Seq(B) /\ t \in Seq(B)
    BY DEF IsLine, Texts
  <1> HIDE DEF B
  <1>2. Len(g) \in Nat /\ Len(h) \in Nat
    BY <1>1, LenProperties
  <1>3. ~(Len(g) < Len(h))
    BY CutNotShorter
  <1>4. ~(Len(h) < Len(g))
    <2>1. h \o t = g \o s
      OBVIOUS
    <2> QED
      BY <2>1, CutNotShorter
  <1>5. Len(g) = Len(h)
    BY <1>2, <1>3, <1>4
  <1>6. SubSeq(f, 1, Len(g)) = g /\ SubSeq(f, Len(g) + 1, Len(f)) = s
    BY <1>1, PartsOfConcat
  <1>7. SubSeq(e, 1, Len(h)) = h /\ SubSeq(e, Len(h) + 1, Len(e)) = t
    BY <1>1, PartsOfConcat
  <1>8. e = f
    OBVIOUS
  <1> HIDE DEF e, f
  <1> QED
    BY <1>5, <1>6, <1>7, <1>8

\* Lines that have an end each end with a line.
LEMMA LinesEnd ==
  ASSUME NEW rows \in Rows, NEW f, NEW open, ReadTo(rows, f, open)
  PROVE  /\ f \in Texts
         /\ rows = << >> => f = << >>
         /\ rows # << >> => f # << >>
         /\ ~open => EndsWithLine(f)
  <1>1. PICK ends : Reads(rows, ends, f, open)
    BY DEF ReadTo
  <1>2. f \in Texts
    BY <1>1, ReadText DEF Reads
  <1>3. CASE rows = << >>
    <2>1. Parts(rows, ends) = << >>
      <3>1. Parts(rows, ends) \in Seq(Texts) /\ Len(Parts(rows, ends)) = Len(rows)
        BY <1>1, PartsType DEF Reads
      <3>2. Len(rows) = 0
        BY <1>3
      <3> QED
        BY <3>1, <3>2, EmptySeq
    <2>2. f = << >>
      BY <1>1, <2>1, FlatEmpty DEF Reads
    <2> QED
      BY <1>2, <1>3, <2>2 DEF EndsWithLine
  <1>4. CASE rows # << >>
    <2> DEFINE p == Last(rows)
    <2>1. p \in Seq(Chars) /\ \E g, l : LastLine(rows, f, open, g, l)
      BY <1>4, LineTaken
    <2>2. PICK g, l : LastLine(rows, f, open, g, l)
      BY <2>1
    <2> DEFINE t == p \o l
    <2>3. g \in Texts /\ l \in LineEnds /\ f = g \o t /\ (l = << >> => p # << >> /\ open)
      BY <2>2 DEF LastLine
    <2> HIDE DEF p
    <2>4. /\ IsLine(t) /\ Len(p) \in Nat /\ Len(t) = Len(p) + Len(l)
          /\ l = <<LF>> => Len(l) = 1 /\ t[Len(p) + 1] = LF
          /\ l = <<CR, LF>> => Len(l) = 2 /\ t[Len(p) + 2] = LF
      BY <2>1, <2>3, LineIs
    <2> HIDE DEF t
    <2>5. l # << >> => t[Len(t)] = LF
      BY <2>3, <2>4 DEF LineEnds
    <2>6. Len(t) \in Nat \ {0} /\ Len(g) \in Nat /\ Len(f) = Len(g) + Len(t) /\ f[Len(f)] = t[Len(t)]
      <3> DEFINE B == Chars \cup {LF}
      <3>1. g \in Seq(B) /\ t \in Seq(B) /\ Len(t) \in Nat \ {0}
        BY <2>3, <2>4 DEF IsLine, Texts
      <3> HIDE DEF B
      <3>2. Len(g) \in Nat
        BY <3>1, LenProperties
      <3>3. /\ Len(f) = Len(g) + Len(t)
            /\ \A j \in 1 .. Len(g) + Len(t) : f[j] = IF j <= Len(g) THEN g[j] ELSE t[j - Len(g)]
        BY <2>3, <3>1, ConcatProperties
      <3>4. /\ Len(f) \in 1 .. Len(g) + Len(t) /\ ~(Len(f) <= Len(g))
            /\ Len(f) - Len(g) = Len(t)
        BY <3>1, <3>2, <3>3
      <3> QED
        BY <3>1, <3>2, <3>3, <3>4
    <2>7. f # << >>
      <3>1. Len(f) # 0
        BY <2>6
      <3> QED
        BY <3>1
    <2> QED
      BY <1>2, <1>4, <2>3, <2>5, <2>6, <2>7 DEF EndsWithLine
  <1> QED
    BY <1>3, <1>4

\* The rows of a file, and how it ends, follow from it.
LEMMA ReadOnce ==
  ASSUME NEW rows \in Rows, NEW q \in Rows, NEW f, NEW open, NEW shut,
         ReadTo(rows, f, open), ReadTo(q, f, shut)
  PROVE  rows = q
  <1> DEFINE One(r, d) == \A g, o, u : ReadTo(r, g, o) /\ ReadTo(d, g, u) => r = d
             G == {n \in Nat : \A r \in Rows : Len(r) = n => \A d \in Rows : One(r, d)}
             T == Seq(Chars)
  <1>1. Rows = Seq(T)
    BY DEF Rows
  <1>2. 0 \in G
    <2> SUFFICES ASSUME NEW r \in Rows, Len(r) = 0, NEW d \in Rows,
                        NEW g, NEW o, NEW u, ReadTo(r, g, o), ReadTo(d, g, u)
                 PROVE  r = d
      OBVIOUS
    <2>1. r = << >>
      <3> HIDE DEF T
      <3> QED
        BY <1>1, EmptySeq
    <2> QED
      BY <2>1, LinesEnd
  <1>3. ASSUME NEW n \in Nat, n \in G
        PROVE  n + 1 \in G
    <2> SUFFICES ASSUME NEW r \in Rows, Len(r) = n + 1, NEW d \in Rows,
                        NEW x, NEW o, NEW u, ReadTo(r, x, o), ReadTo(d, x, u)
                 PROVE  r = d
      OBVIOUS
    <2>1. r # << >>
      <3>1. r = << >> => Len(r) = 0
        OBVIOUS
      <3> QED
        BY <3>1
    <2>2. d # << >>
      BY <2>1, LinesEnd
    <2>3. /\ Front(r) \in Rows /\ Last(r) \in Seq(Chars)
          /\ r = Append(Front(r), Last(r)) /\ Len(r) = Len(Front(r)) + 1
          /\ \E g, l : LastLine(r, x, o, g, l)
      BY <2>1, LineTaken
    <2>4. /\ Front(d) \in Rows /\ Last(d) \in Seq(Chars)
          /\ d = Append(Front(d), Last(d))
          /\ \E g, l : LastLine(d, x, u, g, l)
      BY <2>2, LineTaken
    <2>5. PICK g, l : LastLine(r, x, o, g, l)
      BY <2>3
    <2>6. PICK h, m : LastLine(d, x, u, h, m)
      BY <2>4
    <2> DEFINE a == Last(r)
               b == Last(d)
               s == a \o l
               t == b \o m
    <2>7. /\ g \in Texts /\ l \in LineEnds /\ x = g \o s /\ ReadTo(Front(r), g, FALSE)
          /\ (l = <<LF>> => WithoutLast(a, CR) = a) /\ (l = << >> => a # << >>)
      BY <2>5 DEF LastLine
    <2>8. /\ h \in Texts /\ m \in LineEnds /\ x = h \o t /\ ReadTo(Front(d), h, FALSE)
          /\ (m = <<LF>> => WithoutLast(b, CR) = b) /\ (m = << >> => b # << >>)
      BY <2>6 DEF LastLine
    <2> HIDE DEF a, b
    <2>9. a \in Seq(Chars) /\ b \in Seq(Chars)
      BY <2>3, <2>4 DEF a, b
    <2>10. IsLine(s)
      BY <2>7, <2>9, LineIs
    <2>11. IsLine(t)
      BY <2>8, <2>9, LineIs
    <2>12. EndsWithLine(g) /\ EndsWithLine(h)
      BY <2>3, <2>4, <2>7, <2>8, LinesEnd
    <2>13. g = h /\ s = t
      <3> HIDE DEF s, t
      <3> QED
        BY <2>7, <2>8, <2>10, <2>11, <2>12, CutOnce
    <2>14. a = b
      <3>1. a \o l = b \o m
        BY <2>13
      <3>2. /\ a \in Seq(Chars) /\ l \in LineEnds /\ (l = << >> => a # << >>)
            /\ (l = <<LF>> => WithoutLast(a, CR) = a)
            /\ b \in Seq(Chars) /\ m \in LineEnds /\ (m = << >> => b # << >>)
            /\ (m = <<LF>> => WithoutLast(b, CR) = b)
        BY <2>7, <2>8, <2>9
      <3> HIDE DEF T
      <3> QED
        BY <3>1, <3>2, LineOnce, Zenon
    <2>15. Front(r) = Front(d)
      <3>1. Len(Front(r)) = n
        <4>1. Len(Front(r)) \in Nat
          <5> HIDE DEF T
          <5> QED
            BY <1>1, <2>3, LenProperties
        <4> QED
          BY <2>3, <4>1
      <3>2. One(Front(r), Front(d))
        BY <1>3, <2>3, <2>4, <3>1
      <3> QED
        BY <2>7, <2>8, <2>13, <3>2
    <2> QED
      BY <2>3, <2>4, <2>14, <2>15 DEF a, b
  <1>4. Len(rows) \in Nat
    <2> HIDE DEF T
    <2> QED
      BY <1>1, LenProperties
  <1>5. Len(rows) \in G
    <2> HIDE DEF G
    <2> QED
      BY <1>2, <1>3, <1>4, Induction
  <1>6. One(rows, q)
    BY <1>5
  <1> QED
    BY <1>6

\* The reference definition, in the words of the proof.
LEMMA LinesAreRead ==
  ASSUME NEW rows \in Rows, NEW f, LinesOf(rows, f)
  PROVE  \E open : ReadTo(rows, f, open)
  <1>1. PICK ends \in [DOMAIN rows -> LineEnds] :
          /\ f = FlattenSeq([y \in DOMAIN rows |-> rows[y] \o ends[y]])
          /\ \A y \in DOMAIN rows :
               /\ ends[y] = <<LF>> => WithoutLast(rows[y], CR) = rows[y]
               /\ ends[y] = << >> => y = Len(rows) /\ rows[y] # << >>
    BY DEF LinesOf, LineEnds
  <1>2. Len(rows) \in Nat /\ DOMAIN rows = 1 .. Len(rows)
    BY LenProperties DEF Rows
  <1>3. ends \in Seq(LineEnds) /\ Len(ends) = Len(rows)
    <2>1. ends \in [1 .. Len(rows) -> LineEnds]
      BY <1>2
    <2> HIDE DEF LineEnds
    <2>2. ends \in Seq(LineEnds) /\ DOMAIN ends = 1 .. Len(rows)
      BY <1>2, <2>1, SeqDef
    <2>3. Len(ends) \in Nat /\ DOMAIN ends = 1 .. Len(ends)
      BY <2>2, LenProperties
    <2> QED
      BY <1>2, <2>2, <2>3
  <1> DEFINE open == rows # << >> /\ ends[Len(rows)] = << >>
  <1>4. \A y \in 1 .. Len(rows) : y = Len(rows) => rows # << >>
    <2>1. rows = << >> => Len(rows) = 0
      OBVIOUS
    <2> QED
      BY <2>1
  <1>5. Fits(rows, ends, open)
    BY <1>1, <1>2, <1>4 DEF Fits
  <1>6. Reads(rows, ends, f, open)
    BY <1>1, <1>3, <1>5 DEF Reads, Follow, Parts, EndsOpen
  <1> QED
    BY <1>6 DEF ReadTo

\* A file has one division into lines: LinesOf leaves the reader of a file no choice.
THEOREM LinesAreUnique ==
  \A f : \A rows, q \in Rows : LinesOf(rows, f) /\ LinesOf(q, f) => rows = q
  <1> SUFFICES ASSUME NEW f, NEW rows \in Rows, NEW q \in Rows, LinesOf(rows, f), LinesOf(q, f)
               PROVE  rows = q
    OBVIOUS
  <1>1. PICK open : ReadTo(rows, f, open)
    BY LinesAreRead
  <1>2. PICK shut : ReadTo(q, f, shut)
    BY LinesAreRead
  <1> QED
    BY <1>1, <1>2, ReadOnce

\* What editorSave() writes is read back by editorOpenRows() as the rows that were
\* written, and as no others, if no row ends with the CR that reading takes off.
THEOREM ReadsBack ==
  \A rows \in Rows :
    (\A y \in DOMAIN rows : WithoutLast(rows[y], CR) = rows[y])
      => \A q \in Rows : LinesOf(q, Joined(rows)) <=> q = rows
  <1> SUFFICES ASSUME NEW rows \in Rows,
                      \A y \in DOMAIN rows : WithoutLast(rows[y], CR) = rows[y]
               PROVE  LinesOf(rows, Joined(rows))
    BY LinesAreUnique
  <1> DEFINE ends == [y \in DOMAIN rows |-> <<LF>>]
  <1>1. ends \in [DOMAIN rows -> {<<LF>>, <<CR, LF>>, << >>}] /\ \A y \in DOMAIN rows : ends[y] = <<LF>>
    OBVIOUS
  <1>2. \A y \in DOMAIN rows : rows[y] \in Seq(Chars)
    BY ElementOfSeq, LenProperties DEF Rows
  <1>3. \A y \in DOMAIN rows : Append(rows[y], LF) = rows[y] \o ends[y]
    BY <1>1, <1>2, RowIsText
  <1>4. \A y \in DOMAIN rows : \A k \in DOMAIN rows[y] : rows[y][k] # LF
    <2> TAKE y \in DOMAIN rows
    <2>1. rows[y] \in Seq(Chars)
      BY <1>2
    <2> QED
      BY <2>1, ElementOfSeq, LenProperties, TextsAssumption
  <1> HIDE DEF ends
  <1>5. Joined(rows) = FlattenSeq([y \in DOMAIN rows |-> rows[y] \o ends[y]])
    <2>1. [y \in DOMAIN rows |-> Append(rows[y], LF)] = [y \in DOMAIN rows |-> rows[y] \o ends[y]]
      BY <1>3
    <2> QED
      BY <2>1 DEF Joined
  <1>6. \A y \in DOMAIN rows : ends[y] # << >>
    BY <1>1, LineEndsDiffer
  <1> QED
    BY <1>1, <1>4, <1>5, <1>6 DEF LinesOf

\* A file that is loaded becomes its lines and can become nothing else, wherever the
\* chunks end.
THEOREM LoadsNothingElse ==
  Spec => [][mode = "loading" /\ mode' = "editing"
               => \A q \in Rows : LinesOf(q, file) <=> q = E'.rows]_vars
  <1> DEFINE A == mode = "loading" /\ mode' = "editing" => LinesOf(E'.rows, file)
             B == mode = "loading" /\ mode' = "editing"
                    => \A q \in Rows : LinesOf(q, file) <=> q = E'.rows
  <1>1. IInv' /\ [A]_vars => [B]_vars
    <2>1. IInv' => E'.rows \in Rows
      BY Fields DEF IInv, Inside
    <2> QED
      BY <2>1, LinesAreUnique
  <1>2. Spec => [][A]_vars
    BY LoadsLines DEF LoadsTheLines
  <1> HIDE DEF A, B
  <1>3. Spec => [][B]_vars
    BY <1>1, <1>2, InductiveInvariant, PTL
  <1> QED
    BY <1>3 DEF B
=============================================================================
