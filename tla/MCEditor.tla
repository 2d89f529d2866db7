------------------------------ MODULE MCEditor ------------------------------
(* A small instance of Editor: one letter, a screen of two by two. *)
EXTENDS Editor

\* No file, and files with every kind of line end, whole and split by a chunk of two
\* bytes, and with none.
MCTextFiles == {NoFile, << >>, <<"x", LF, "x">>, <<"x", CR, LF, LF>>, <<CR, "x", LF>>,
                <<"x", "x", CR, LF>>, <<"x", CR, CR, LF>>, <<"x", CR>>}

OneLine == {<<"x", LF>>}
=============================================================================
