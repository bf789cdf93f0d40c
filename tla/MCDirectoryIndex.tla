-------------------------- MODULE MCDirectoryIndex --------------------------
(* TLC instances of DirectoryIndex: constants are given in the .cfg files. *)
EXTENDS DirectoryIndex, TLC

\* A directory with a file and a subdirectory, into which a second file comes.
NestedKeys == {<<"a", "x">>, <<"a", "b", "y">>, <<"a", "b", "z">>}
IndexedKeys == {<<"a", "x">>, <<"a", "b", "y">>}

\* A file two directories deep, a key one directory deeper, to which it may go,
\* and a marker object, as external tools leave behind.
MarkerKeys == {<<"a", "">>, <<"a", "b", "y">>, <<"a", "b", "c", "z">>}
IndexedKey == {<<"a", "b", "y">>}

\* One client deletes directories and one does everything else, or both do all.
CONSTANTS c1, c2
SplitOps == (c1 :> {"upload", "delete", "move"}) @@ (c2 :> {"purge"})
AnyOps == [c \in Client |-> {"upload", "delete", "move", "purge"}]
Deletes == [c \in Client |-> {"delete"}]

ClientSymmetry == Permutations(Client)
=============================================================================
