---------------------------- MODULE JobLifecycle ----------------------------
(***************************************************************************)
(* What index_queue promises of one index type's jobs, as the diagram at   *)
(* the head of queries/index_queue.sql draws it:                           *)
(*                                                                         *)
(*   none --seed--> pending --claim--> claimed --complete--> done          *)
(*                     ^                  |                                *)
(*                     +------ fail ------+--(exhausted)--> error          *)
(*                                                                         *)
(* with done rows re-enqueued when they turn stale, abandoned claims       *)
(* claimed again, and every row gone with its file.                        *)
(***************************************************************************)
EXTENDS Naturals

CONSTANTS JobFile, Budget

VARIABLES state, tried

jobs == <<state, tried>>

JobInit ==
    /\ state = [f \in JobFile |-> "none"]
    /\ tried = [f \in JobFile |-> 0]

\* The seed enqueues files without a job and stale ones, with a fresh budget.
Enqueue(S) ==
    /\ \A f \in S : state[f] \in {"none", "done"}
    /\ state' = [f \in JobFile |-> IF f \in S THEN "pending" ELSE state[f]]
    /\ tried' = [f \in JobFile |-> IF f \in S THEN 0 ELSE tried[f]]

\* A worker claims jobs; each claim is one try (counted up to Budget + 1).
ClaimJobs(S) ==
    /\ \A f \in S : state[f] \in {"pending", "claimed"}
    /\ state' = [f \in JobFile |-> IF f \in S THEN "claimed" ELSE state[f]]
    /\ tried' = [f \in JobFile |->
                    IF f \in S /\ tried[f] <= Budget THEN tried[f] + 1 ELSE tried[f]]

Finish(f) ==
    /\ state[f] = "claimed"
    /\ state' = [state EXCEPT ![f] = "done"]
    /\ UNCHANGED tried

\* A failed try with budget left goes back to pending, the last one parks.
Retry(f) ==
    /\ state[f] = "claimed"
    /\ tried[f] < Budget
    /\ state' = [state EXCEPT ![f] = "pending"]
    /\ UNCHANGED tried

Park(f) ==
    /\ state[f] = "claimed"
    /\ tried[f] >= Budget
    /\ state' = [state EXCEPT ![f] = "error"]
    /\ UNCHANGED tried

Forget(f) ==
    /\ state' = [state EXCEPT ![f] = "none"]
    /\ tried' = [tried EXCEPT ![f] = 0]

JobNext ==
    \/ \E S \in SUBSET JobFile : Enqueue(S) \/ ClaimJobs(S)
    \/ \E f \in JobFile : Finish(f) \/ Retry(f) \/ Park(f) \/ Forget(f)

JobSpec == JobInit /\ [][JobNext]_jobs
=============================================================================
