---------------------------- MODULE MCHitSource -----------------------------
(* Small instances of HitSource: every list of up to MaxFiles files of a    *)
(* few shapes, so that each way a file can begin and end meets each other.  *)
EXTENDS HitSource

CONSTANTS MaxFiles,    \* bound: files in a list
          Shapes       \* the shapes of file an instance uses

F(opens, lines, ends) == [opens |-> opens, lines |-> lines, ends |-> ends]

\* Two hits, terminated / not terminated; noise around a hit; an empty file.
Sound == {F(TRUE, <<"hit", "hit">>, "newline"),
          F(TRUE, <<"hit", "hit">>, "bare"),
          F(TRUE, <<"blank", "hit", "short">>, "bare"),
          F(TRUE, <<>>, "newline")}

\* A file that is not there.
WithMissing == Sound \cup {F(FALSE, <<>>, "newline")}

\* A file whose reads fail midway, and one with a line that does not convert.
Damaged == WithMissing \cup {F(TRUE, <<"hit">>, "error"),
                             F(TRUE, <<"hit", "garbled">>, "newline")}

MCFileLists == UNION {[1..n -> Shapes] : n \in 0..MaxFiles}
=============================================================================
