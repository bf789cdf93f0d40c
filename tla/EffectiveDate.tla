--------------------------- MODULE EffectiveDate ---------------------------
(***************************************************************************)
(* files.effective_taken_at, the sort value of the photo wall, which the   *)
(* triggers of migration 008 recompute whenever the stat or the exif       *)
(* result of a file is written.  The two indexers complete one file in two *)
(* transactions that may overlap.  The trigger's UPDATE waits for the row  *)
(* of the file when the other transaction has updated it, and then still   *)
(* reads the result tables as they were when it began (READ COMMITTED).    *)
(* The photo wall groups the listing, newest first, into days.             *)
(***************************************************************************)
EXTENDS Integers, Sequences, FiniteSets

CONSTANTS
    File,       \* file ids, numbers
    Day,        \* the days photos are taken and modified on, from 1
    MaxWrites   \* bound: completions

Epoch == 0
Null == -1
Indexer == {"stat", "exif"}

VARIABLES
    result,     \* committed: result[i][f], the date indexer i stored, or Null
    effective,  \* files.effective_taken_at
    tx,         \* the transaction each indexer has open
    raced,      \* files whose trigger had to wait for the other transaction
    writes

vars == <<result, effective, tx, raced, writes>>

\* An open transaction: the date it writes, whether its UPDATE has the row yet,
\* and the other indexer's date as the UPDATE saw it when it began.
NoTx == [file |-> 0, date |-> Null, saw |-> Null, holds |-> FALSE]
Other(i) == IF i = "stat" THEN "exif" ELSE "stat"

Coalesce(taken, modified) ==
    IF taken # Null THEN taken ELSE IF modified # Null THEN modified ELSE Epoch
Value(i, own, other) ==
    IF i = "exif" THEN Coalesce(own, other) ELSE Coalesce(other, own)

Init ==
    /\ result = [i \in Indexer |-> [f \in File |-> Null]]
    /\ effective = [f \in File |-> Epoch]
    /\ tx = [i \in Indexer |-> NoTx]
    /\ raced = {}
    /\ writes = 0

\* The result is upserted and its trigger's UPDATE begins.  An exif result may
\* have no capture time; a stat result always has a modification time.
Upsert(i, f, date) ==
    /\ tx[i] = NoTx
    /\ i = "stat" => date # Null
    /\ writes < MaxWrites
    /\ writes' = writes + 1
    /\ tx' = [tx EXCEPT ![i] = [file |-> f, date |-> date,
                                saw |-> result[Other(i)][f], holds |-> FALSE]]
    /\ raced' = IF tx[Other(i)].file = f THEN raced \cup {f} ELSE raced
    /\ UNCHANGED <<result, effective>>

\* The UPDATE gets the row.
update_file_effective_taken_at(i) ==
    /\ tx[i] # NoTx /\ ~tx[i].holds
    /\ ~(tx[Other(i)].file = tx[i].file /\ tx[Other(i)].holds)
    /\ tx' = [tx EXCEPT ![i].holds = TRUE]
    /\ UNCHANGED <<result, effective, raced, writes>>

Commit(i) ==
    LET t == tx[i]
    IN  /\ t.holds
        /\ result' = [result EXCEPT ![i][t.file] = t.date]
        /\ effective' = [effective EXCEPT ![t.file] = Value(i, t.date, t.saw)]
        /\ tx' = [tx EXCEPT ![i] = NoTx]
        /\ UNCHANGED <<raced, writes>>

Next == \E i \in Indexer :
    \/ \E f \in File, date \in Day \cup {Null} : Upsert(i, f, date)
    \/ update_file_effective_taken_at(i)
    \/ Commit(i)

Spec == Init /\ [][Next]_vars

----------------------------------------------------------------------------
(* The photo wall: the images, which the stat result tells, by effective   *)
(* date, newest first, under a heading for each run of equal days.         *)

Photos == {f \in File : result["stat"][f] # Null}
Newer(a, b) == effective[a] > effective[b] \/ (effective[a] = effective[b] /\ a > b)
Wall == CHOOSE s \in [1 .. Cardinality(Photos) -> Photos] :
            \A i, j \in DOMAIN s : i < j => Newer(s[i], s[j])

\* file.takenAt ?? file.updatedAt
dayOf(f) == Coalesce(result["exif"][f], result["stat"][f])
Headings == {i \in DOMAIN Wall : i = 1 \/ dayOf(Wall[i - 1]) # dayOf(Wall[i])}

----------------------------------------------------------------------------
(* Properties. *)

TypeOK ==
    /\ result \in [Indexer -> [File -> Day \cup {Null}]]
    /\ effective \in [File -> Day \cup {Epoch}]
    /\ tx \in [Indexer -> [file : File \cup {0}, date : Day \cup {Null},
                           saw : Day \cup {Null}, holds : BOOLEAN]]
    /\ raced \subseteq File
    /\ writes \in 0 .. MaxWrites

\* The sort value of a file is the one its two committed results give, unless
\* the completions of its two indexers have overlapped.
StaleOnlyAfterOverlap ==
    \A f \in File \ raced :
        effective[f] = Coalesce(result["exif"][f], result["stat"][f])

\* A day has one heading on the photo wall, unless such a file is on it.
OneHeadingPerDay ==
    raced = {} => \A i, j \in Headings : dayOf(Wall[i]) = dayOf(Wall[j]) => i = j

----------------------------------------------------------------------------
(* What the repository says and the program does not do. *)

\* Migration 008: the value "is kept in sync by triggers on the source tables".
KeptInSync ==
    \A f \in File :
        (\A i \in Indexer : tx[i].file # f) =>
            effective[f] = Coalesce(result["exif"][f], result["stat"][f])
=============================================================================
