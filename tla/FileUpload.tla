---------------------------- MODULE FileUpload ----------------------------
(***************************************************************************)
(* What uploading promises, without parts, sessions or retries: a          *)
(* destination key changes only by receiving the whole of one file that    *)
(* some tab is sending, a row for a key appears only after bytes were      *)
(* stored under it, and an upload that fails leaves either nothing or the  *)
(* whole file behind.  MultipartUpload implements it.                      *)
(***************************************************************************)
EXTENDS Sequences

CONSTANTS Tabs, Files, Key, Whole(_)

VARIABLES stage, queue, object, row

vars == <<stage, queue, object, row>>

Keys == {Key[f] : f \in Files}

Init ==
    /\ stage = [t \in Tabs |-> "idle"]
    /\ queue = [t \in Tabs |-> <<>>]
    /\ object = [k \in Keys |-> <<>>]
    /\ row = [k \in Keys |-> FALSE]

\* The user hands a batch of files to the tab.
Begin(t) ==
    /\ stage[t] = "idle"
    /\ stage' = [stage EXCEPT ![t] = "sending"]
    /\ queue'[t] \in Seq(Files)
    /\ queue' = [queue EXCEPT ![t] = queue'[t]]
    /\ UNCHANGED <<object, row>>

\* The file at the head of the batch replaces what its key held, in one step;
\* the tab may not learn of it and stop there.
Store(t, next) ==
    /\ stage[t] = "sending" /\ queue[t] # <<>>
    /\ next \in {"stored", "idle"}
    /\ LET f == Head(queue[t]) IN object' = [object EXCEPT ![Key[f]] = Whole(f)]
    /\ stage' = [stage EXCEPT ![t] = next]
    /\ queue' = [queue EXCEPT ![t] = IF next = "idle" THEN <<>> ELSE @]
    /\ UNCHANGED row

\* The stored file gets its row; the tab may not learn of it and stop there.
Index(t, next) ==
    /\ stage[t] = "stored"
    /\ next \in {"indexed", "idle"}
    /\ row' = [row EXCEPT ![Key[Head(queue[t])]] = TRUE]
    /\ stage' = [stage EXCEPT ![t] = next]
    /\ queue' = [queue EXCEPT ![t] = IF next = "idle" THEN <<>> ELSE @]
    /\ UNCHANGED object

\* On to the next file of the batch.
Advance(t) ==
    /\ stage[t] = "indexed"
    /\ stage' = [stage EXCEPT ![t] = "sending"]
    /\ queue' = [queue EXCEPT ![t] = Tail(@)]
    /\ UNCHANGED <<object, row>>

\* The batch ends, by success, failure, cancellation or a closed tab.
End(t) ==
    /\ stage[t] # "idle"
    /\ stage' = [stage EXCEPT ![t] = "idle"]
    /\ queue' = [queue EXCEPT ![t] = <<>>]
    /\ UNCHANGED <<object, row>>

Next == \E t \in Tabs :
    \/ Begin(t)
    \/ \E next \in {"stored", "idle"} : Store(t, next)
    \/ \E next \in {"indexed", "idle"} : Index(t, next)
    \/ Advance(t)
    \/ End(t)

Spec == Init /\ [][Next]_vars
=============================================================================
