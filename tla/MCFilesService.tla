--------------------------- MODULE MCFilesService ---------------------------
(* TLC instances of FilesService: constants are given in the .cfg files. *)
EXTENDS FilesService, TLC

\* Requests run the same handlers, and no safety property names one.
RequestSymmetry == Permutations(Request)

\* Steps do not depend on which bytes an object has, nor does anything that
\* the mixed run checks.
WithoutBytes == <<[k \in Key |-> obj[k] = None], lastPut, tables, locks, request, faults>>

\* hashtext is injective on the instance's keys, or sends 1 and 3 to one id.
HashInjective == [k \in 1 .. NumKeys |-> k]
HashColliding == [k \in 1 .. NumKeys |-> IF k = 3 THEN 1 ELSE k]
=============================================================================
