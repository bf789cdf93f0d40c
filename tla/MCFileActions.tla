--------------------------- MODULE MCFileActions ---------------------------
EXTENDS FileActions

\* One file in the root, one in the folder.
MCStart == [x \in Files |-> IF x = "f" THEN Root ELSE "a"]
=============================================================================
