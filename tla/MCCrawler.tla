----------------------------- MODULE MCCrawler -----------------------------
(* TLC instances of Crawler: constants are given in the .cfg files. *)
EXTENDS Crawler, TLC

\* Requests run the same handlers, and no safety property names one.
ClientSymmetry == Permutations(Client)
=============================================================================
