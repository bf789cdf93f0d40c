---------------------------- MODULE MCIndexQueue ----------------------------
(* TLC instances of IndexQueue: constants are given in the .cfg files. *)
EXTENDS IndexQueue, TLC

\* Workers run the same loop, and no safety property names one.
WorkerSymmetry == Permutations(Worker)
=============================================================================
