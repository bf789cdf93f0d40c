------------------------- MODULE MCMultipartUpload -------------------------
(***************************************************************************)
(* Two tabs upload to one directory.  "new" and "old" are two versions of  *)
(* a large file with one name, of two and three parts (the last one        *)
(* short); "note" is a small file.                                         *)
(***************************************************************************)
EXTENDS MultipartUpload

MCFiles == {"old", "new", "note"}
MCSize == [f \in MCFiles |-> CASE f = "old" -> 5 [] f = "new" -> 4 [] f = "note" -> 1]
MCKey == [f \in MCFiles |-> IF f = "note" THEN "d/note" ELSE "d/film"]
MCFingerprint == [f \in MCFiles |-> f]

\* One tab sends a small and a large file; the other sends the same large file,
\* or another version of it.
MixedBatches == [t \in {"t1", "t2"} |->
    IF t = "t1" THEN {<<"note", "new">>} ELSE {<<"new">>, <<"old">>}]

\* A single tab.
OneBatch == [t \in {"t1"} |-> {<<"new">>}]

=============================================================================
