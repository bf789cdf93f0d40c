--------------------------- MODULE DirectoryIndex ---------------------------
(***************************************************************************)
(* The directories table, kept in step with files by the transactions of   *)
(* db.Store: uploads and crawl batches insert the ancestors of their keys, *)
(* deletions, moves and sweeps prune the ones left empty.                  *)
(*                                                                         *)
(* The transactions run at READ COMMITTED.  A statement sees what was      *)
(* committed when it began and what its own transaction wrote; it waits    *)
(* for another transaction only over a row that one has inserted, updated  *)
(* or deleted.  A prune is therefore a snapshot (which directories are     *)
(* empty) and, later, one row deletion after the other.                    *)
(*                                                                         *)
(* A key is the sequence of its path segments; the last segment of a       *)
(* marker key, one that ends in "/", is empty.  A directory's path is the  *)
(* sequence of its segments.                                               *)
(***************************************************************************)
EXTENDS Naturals, Sequences

CONSTANTS
    Key,          \* object keys
    NumFiles,     \* files.id values in use at a time
    InitKeys,     \* keys indexed when the behaviour starts
    Client,       \* concurrent requests to the files service
    Ops,          \* which requests each of them may make
    OutOfBand,    \* whether the bucket changes without the services
    MaxOps,       \* bound: requests and out-of-band changes
    MaxFaults     \* bound: transactions that fail

ASSUME DirectoryAssumption ==
    /\ \A k \in Key : k \in Seq(STRING) /\ k # <<>>
    /\ InitKeys \subseteq Key
    /\ NumFiles \in Nat
    /\ Ops \in [Client -> SUBSET {"upload", "delete", "move", "purge"}]
    /\ OutOfBand \in BOOLEAN
    /\ MaxOps \in Nat /\ MaxFaults \in Nat
    /\ "crawler" \notin Client

File == 1 .. NumFiles
Crawler == "crawler"
Tx == Client \cup {Crawler}
NoKey == <<>>

VARIABLES
    obj,      \* the bucket: keys with an object
    fkey,     \* files.key by id, NoKey without a row (committed)
    fresh,    \* ids whose seen_at is not before the crawl's cutoff
    dirs,     \* directories.path (committed)
    op,       \* what each transaction does, "list" before a purge's, "none" without
    pc,       \* the statement it is at
    ids,      \* the file ids it was given
    old,      \* keys whose ancestors it prunes
    new,      \* keys it writes and whose ancestors it inserts
    pend,     \* files rows it has written, with their new keys
    todo,     \* directory rows its running statement has still to write
    ins, del, \* directory rows it has inserted and deleted
    late,     \* transactions begun before the crawl's cutoff
    cpc,      \* where the crawl is
    quiet,    \* no request overlapped the crawl so far
    race,     \* what has gone wrong since the last crawl that met no request
    ops, faults

tables == <<obj, fkey, fresh, dirs>>
tx     == <<op, pc, ids, old, new, pend, todo, ins, del>>
crawl  == <<late, cpc>>
hist   == <<quiet, race>>
vars   == <<tables, tx, crawl, hist, ops, faults>>

-----------------------------------------------------------------------------
(* Paths *)

Marker(k) == k[Len(k)] = ""

\* The ancestor explosion: every proper prefix of a key that is no marker.
Ancestors(k) ==
    IF k = NoKey \/ Marker(k) THEN {} ELSE {SubSeq(k, 1, i) : i \in 1 .. Len(k) - 1}

\* Only immediate children count.
Inside_Children(k, d) ==
    k # NoKey /\ ~Marker(k) /\ Len(k) = Len(d) + 1 /\ SubSeq(k, 1, Len(d)) = d
\* The subtree-emptiness test: key > path AND key < skip-past(path), which
\* holds of the keys that continue path, and key NOT LIKE '%/'.
Inside(k, d) ==
    k # NoKey /\ ~Marker(k) /\ Len(k) > Len(d) /\ SubSeq(k, 1, Len(d)) = d

AllAncestors(K) == UNION {Ancestors(k) : k \in K}
Root == <<>>
Dir == AllAncestors(Key)
Keys == {fkey[f] : f \in File} \ {NoKey}

-----------------------------------------------------------------------------

TypeOK ==
    /\ obj \subseteq Key
    /\ fkey \in [File -> Key \cup {NoKey}]
    /\ fresh \subseteq File
    /\ dirs \subseteq Dir \ {Root}    \* the root is never stored
    /\ op \in [Tx -> {"none", "upload", "delete", "move", "list", "purge", "upsert", "sweep"}]
    /\ pc \in [Tx -> {"idle", "listed", "emptied", "files", "prune", "pruning", "insert", "commit"}]
    /\ ids \in [Tx -> SUBSET File]
    /\ old \in [Tx -> SUBSET Key]
    /\ new \in [Tx -> SUBSET Key]
    /\ \A t \in Tx : /\ DOMAIN pend[t] \subseteq File
                     /\ \A f \in DOMAIN pend[t] : pend[t][f] \in Key \cup {NoKey}
    /\ todo \in [Tx -> SUBSET Dir]
    /\ ins \in [Tx -> SUBSET Dir]
    /\ del \in [Tx -> SUBSET Dir]
    /\ late \subseteq Tx
    /\ cpc \in {"idle", "upsert", "listed", "sweep"}
    /\ quiet \in BOOLEAN
    /\ race \subseteq {"pruners", "mixed", "stale"}
    /\ ops \in 0 .. MaxOps
    /\ faults \in 0 .. MaxFaults

\* A bucket that has been crawled.
Init ==
    /\ obj = InitKeys
    /\ fkey \in [File -> InitKeys \cup {NoKey}]
    /\ \A k \in InitKeys : \E f \in File : fkey[f] = k
    /\ \A f, g \in File : f < g /\ fkey[g] # NoKey => fkey[f] # NoKey /\ fkey[f] # fkey[g]
    /\ fresh = {}
    /\ dirs = AllAncestors(InitKeys)
    /\ op = [t \in Tx |-> "none"]
    /\ pc = [t \in Tx |-> "idle"]
    /\ ids = [t \in Tx |-> {}]
    /\ old = [t \in Tx |-> {}]
    /\ new = [t \in Tx |-> {}]
    /\ pend = [t \in Tx |-> <<>>]
    /\ todo = [t \in Tx |-> {}]
    /\ ins = [t \in Tx |-> {}]
    /\ del = [t \in Tx |-> {}]
    /\ late = {}
    /\ cpc = "idle"
    /\ quiet = FALSE
    /\ race = {}
    /\ ops = 0
    /\ faults = 0

-----------------------------------------------------------------------------
(* What a transaction sees and waits for *)

Busy == {t \in Tx : pc[t] # "idle"}
Pruners == {"delete", "move", "purge", "sweep"}
Inserters == {"upload", "move", "upsert"}

\* The key of f as t's statements see it.
Sees(t, f) == IF f \in DOMAIN pend[t] THEN pend[t][f] ELSE fkey[f]
RowAt(k) == {f \in File : fkey[f] = k}

\* u has written a row that is, was or becomes the row of k.
HoldsKey(u, k) == \E f \in DOMAIN pend[u] : fkey[f] = k \/ pend[u][f] = k
HoldsRow(u, f) == f \in DOMAIN pend[u]

\* The rows t's statement on files is about to write.
Targets(t) ==
    CASE op[t] = "sweep" -> {f \in File : fkey[f] # NoKey /\ f \notin fresh}
      [] OTHER -> {f \in ids[t] : fkey[f] # NoKey}

FilesWaitFor(t, u) ==
    /\ u # t
    /\ pc[t] = "files"
    /\ \/ \E f \in Targets(t) : HoldsRow(u, f)
       \/ \E k \in new[t] : HoldsKey(u, k)

\* INSERT ... ON CONFLICT DO NOTHING waits for the outcome of an insertion or
\* a deletion of the row, DELETE for that of a deletion.
DirWaitsFor(t, u, d) ==
    /\ u # t
    /\ d \in todo[t]
    /\ \/ pc[t] = "insert" /\ d \in ins[u] \cup del[u]
       \/ pc[t] = "pruning" /\ d \in del[u]

WaitsFor(t, u) == FilesWaitFor(t, u) \/ \E d \in todo[t] : DirWaitsFor(t, u, d)

-----------------------------------------------------------------------------
(* Requests *)

\* t overlaps the transactions in flight from here on.
Overlap(t, o) ==
    LET with(S) == \E u \in Busy \ {t} : op[u] \in S IN
    race' = race
        \cup (IF o \in Pruners /\ with(Pruners) THEN {"pruners"} ELSE {})
        \cup (IF \/ o \in Pruners /\ with(Inserters)
                 \/ o \in Inserters /\ with(Pruners) THEN {"mixed"} ELSE {})

\* t turns to o, at l, with the files F and the keys K and N.
Enter(t, o, l, F, K, N) ==
    /\ op' = [op EXCEPT ![t] = o]
    /\ pc' = [pc EXCEPT ![t] = l]
    /\ ids' = [ids EXCEPT ![t] = F]
    /\ old' = [old EXCEPT ![t] = K]
    /\ new' = [new EXCEPT ![t] = N]
    /\ Overlap(t, o)
    /\ UNCHANGED <<fkey, dirs, pend, todo, ins, del, faults>>

Begin(t, o, F, K, N) == Enter(t, o, "files", F, K, N)

Request(t, o) ==
    /\ o \in Ops[t]
    /\ pc[t] = "idle"
    /\ ops < MaxOps
    /\ ops' = ops + 1
    /\ quiet' = FALSE
    /\ UNCHANGED <<fresh, crawl>>

\* The object is there (PUT or multipart, then Stat); indexUploadedKey begins.
BeginUpload(t, k) ==
    /\ Request(t, "upload")
    /\ Begin(t, "upload", {}, {}, {k})
    /\ obj' = obj \cup {k}

\* DeleteFile has deleted the object.
BeginDelete(t, f) ==
    /\ fkey[f] # NoKey
    /\ Request(t, "delete")
    /\ Begin(t, "delete", {f}, {}, {})
    /\ obj' = obj \ {fkey[f]}

\* MoveFile has made its copy, and the transaction has read the old key.
BeginMove(t, f, k) ==
    /\ fkey[f] \in obj \ {k}
    /\ RowAt(k) = {}
    /\ Request(t, "move")
    /\ Begin(t, "move", {f}, {fkey[f]}, {k})
    /\ obj' = obj \cup {k}

\* DeleteDirectory lists the files under d.  No transaction is open: the rows
\* may move or go before it deletes them.
ListFilesForDelete(t, d) ==
    LET F == {f \in File : fkey[f] # NoKey /\ Len(fkey[f]) > Len(d)
                            /\ SubSeq(fkey[f], 1, Len(d)) = d} IN
    /\ F # {}
    /\ Request(t, "purge")
    /\ Enter(t, "list", "listed", F, {fkey[f] : f \in F}, {})
    /\ UNCHANGED obj

\* It deletes their objects,
DeleteMany(t) ==
    /\ pc[t] = "listed"
    /\ Enter(t, "list", "emptied", ids[t], old[t], {})
    /\ obj' = obj \ old[t]
    /\ UNCHANGED <<fresh, crawl, quiet, ops>>

\* and only then begins the transaction that deletes their rows.
BeginPurge(t) ==
    /\ pc[t] = "emptied"
    /\ Begin(t, "purge", ids[t], old[t], {})
    /\ UNCHANGED <<obj, fresh, crawl, quiet, ops>>

\* The bucket changes out of band.
PutObject(k) ==
    /\ OutOfBand /\ ops < MaxOps
    /\ ops' = ops + 1
    /\ k \notin obj
    /\ obj' = obj \cup {k}
    /\ UNCHANGED <<fkey, fresh, dirs, tx, crawl, hist, faults>>
RemoveObject(k) ==
    /\ OutOfBand /\ ops < MaxOps
    /\ ops' = ops + 1
    /\ k \in obj
    /\ obj' = obj \ {k}
    /\ UNCHANGED <<fkey, fresh, dirs, tx, crawl, hist, faults>>

\* A crawl: the cutoff is read, the bucket listed, and its keys upserted.
CrawlStart ==
    /\ cpc = "idle"
    /\ pc[Crawler] = "idle"
    /\ fresh' = {}
    /\ late' = Busy
    /\ quiet' = (Busy = {})
    /\ cpc' = "upsert"
    /\ Begin(Crawler, "upsert", {}, {}, obj)
    /\ UNCHANGED <<obj, ops>>

\* Its sweep.
CrawlSweep ==
    /\ cpc = "listed"
    /\ pc[Crawler] = "idle"
    /\ cpc' = "sweep"
    /\ Begin(Crawler, "sweep", {}, {}, {})
    /\ UNCHANGED <<obj, fresh, late, quiet, ops>>

-----------------------------------------------------------------------------
(* Statements *)

\* Ids no row, transaction or request refers to.
FreeIds == {f \in File : /\ fkey[f] = NoKey
                         /\ \A t \in Tx : f \notin ids[t] \cup DOMAIN pend[t]}

\* UpsertFiles: existing rows are stamped, missing ones inserted.
UpsertFiles(t) ==
    /\ op[t] \in {"upload", "upsert"}
    /\ LET missing == new[t] \ Keys IN
       \E g \in [missing -> FreeIds] :
          /\ \A j, k \in missing : j # k => g[j] # g[k]
          /\ pend' = [pend EXCEPT ![t] =
                [f \in {h \in File : fkey[h] \in new[t]} \cup {g[k] : k \in missing} |->
                    IF fkey[f] \in new[t] THEN fkey[f] ELSE CHOOSE k \in missing : g[k] = f]]
    /\ todo' = [todo EXCEPT ![t] = AllAncestors(new[t])]
    /\ pc' = [pc EXCEPT ![t] = "insert"]
    /\ UNCHANGED old

\* DeleteFile, DeleteFilesByIDs, DeleteUnseenFiles: DeleteFile prunes the
\* key it deleted, DeleteFilesByIDs the keys listed before.
DeleteRows(t) ==
    /\ op[t] \in {"delete", "purge", "sweep"}
    /\ pend' = [pend EXCEPT ![t] = [f \in Targets(t) |-> NoKey]]
    /\ old' = IF op[t] = "delete"
              THEN [old EXCEPT ![t] = {fkey[f] : f \in Targets(t)}] ELSE old
    /\ pc' = [pc EXCEPT ![t] = "prune"]
    /\ UNCHANGED todo

\* UpdateFileKey, which keeps seen_at.
UpdateFileKey(t) ==
    /\ op[t] = "move"
    /\ pend' = [pend EXCEPT ![t] =
          [f \in ids[t] |-> CHOOSE k \in new[t] : TRUE]]
    /\ pc' = [pc EXCEPT ![t] = "prune"]
    /\ UNCHANGED <<old, todo>>

\* The row is gone (no rows) or the new key is taken (unique violation).
FilesStmtFails(t) ==
    \/ op[t] \in {"delete", "move"} /\ Targets(t) = {}
    \/ op[t] = "move" /\ Keys \cap new[t] # {}

\* A purge deletes a row whose key is not the one it listed.
Stale(t) == op[t] = "purge" /\ \E f \in Targets(t) : fkey[f] \notin old[t]

FilesStmt(t) ==
    /\ pc[t] = "files"
    /\ \A u \in Tx : ~FilesWaitFor(t, u)
    /\ ~FilesStmtFails(t)
    /\ UpsertFiles(t) \/ DeleteRows(t) \/ UpdateFileKey(t)
    /\ race' = IF Stale(t) THEN race \cup {"stale"} ELSE race
    /\ UNCHANGED <<tables, op, ids, new, ins, del, crawl, quiet, ops, faults>>

\* Only the keys' own ancestors, also after a sweep.
Scope_Keys(t) == AllAncestors(old[t])
\* PruneDirectoriesForKeys looks at the keys' ancestors, PruneOrphanDirectories
\* at every directory.
Scope(t) == IF op[t] = "sweep" THEN Dir ELSE AllAncestors(old[t])

\* The emptiness test looks at the table as it was before the transaction.
Empty_BeforeTx(t, d) == \A f \in File : ~Inside(fkey[f], d)
Empty(t, d) == \A f \in File : ~Inside(Sees(t, f), d)

\* The prune statement begins: its snapshot decides which rows it deletes.
PruneStmt(t) ==
    /\ pc[t] = "prune"
    /\ todo' = [todo EXCEPT ![t] = {d \in dirs \cap Scope(t) : Empty(t, d)}]
    /\ pc' = [pc EXCEPT ![t] = "pruning"]
    /\ UNCHANGED <<tables, op, ids, old, new, pend, ins, del, crawl, hist, ops, faults>>

PruneDir(t, d) ==
    /\ pc[t] = "pruning"
    /\ d \in todo[t]
    /\ \A u \in Tx : ~DirWaitsFor(t, u, d)
    /\ todo' = [todo EXCEPT ![t] = @ \ {d}]
    /\ del' = [del EXCEPT ![t] = @ \cup {d}]
    /\ UNCHANGED <<tables, op, pc, ids, old, new, pend, ins, crawl, hist, ops, faults>>

\* UpsertDirectoriesForKeys, row by row.
InsertDir(t, d) ==
    /\ pc[t] = "insert"
    /\ d \in todo[t]
    /\ \A u \in Tx : ~DirWaitsFor(t, u, d)
    /\ todo' = [todo EXCEPT ![t] = @ \ {d}]
    /\ ins' = IF d \in (dirs \ del[t]) \cup ins[t] THEN ins
              ELSE [ins EXCEPT ![t] = @ \cup {d}]
    /\ UNCHANGED <<tables, op, pc, ids, old, new, pend, del, crawl, hist, ops, faults>>

\* A statement on directories is over; a move inserts after it pruned.
StmtDone(t) ==
    /\ pc[t] \in {"pruning", "insert"}
    /\ todo[t] = {}
    /\ IF pc[t] = "pruning" /\ op[t] = "move"
       THEN /\ pc' = [pc EXCEPT ![t] = "insert"]
            /\ todo' = [todo EXCEPT ![t] = AllAncestors(new[t])]
       ELSE /\ pc' = [pc EXCEPT ![t] = "commit"]
            /\ UNCHANGED todo
    /\ UNCHANGED <<tables, op, ids, old, new, pend, ins, del, crawl, hist, ops, faults>>

\* t is over; a row it deleted is out of every running prune's reach, even if
\* it is inserted again.
EndTx(t, D) ==
    /\ op' = [op EXCEPT ![t] = "none"]
    /\ pc' = [pc EXCEPT ![t] = "idle"]
    /\ ids' = [ids EXCEPT ![t] = {}]
    /\ old' = [old EXCEPT ![t] = {}]
    /\ new' = [new EXCEPT ![t] = {}]
    /\ pend' = [pend EXCEPT ![t] = <<>>]
    /\ todo' = [u \in Tx |-> IF u = t THEN {}
                             ELSE IF pc[u] = "pruning" THEN todo[u] \ D ELSE todo[u]]
    /\ ins' = [ins EXCEPT ![t] = {}]
    /\ del' = [del EXCEPT ![t] = {}]
    /\ late' = late \ {t}

\* seen_at = now() is the time the transaction began.
Stamp(t) ==
    IF op[t] \in {"upload", "upsert"}
    THEN IF t \in late THEN fresh \ DOMAIN pend[t] ELSE fresh \cup DOMAIN pend[t]
    ELSE {f \in fresh : Sees(t, f) # NoKey}

\* A crawl that no request overlapped leaves nothing of earlier overlaps.  A
\* move deletes the old object next; a crawl that lists the bucket between the
\* two finds what it finds when the object is put back out of band.
Commit(t) ==
    /\ pc[t] = "commit"
    /\ fkey' = [f \in File |-> Sees(t, f)]
    /\ fresh' = Stamp(t)
    /\ dirs' = (dirs \ del[t]) \cup ins[t]
    /\ obj' = IF op[t] = "move" THEN obj \ old[t] ELSE obj
    /\ cpc' = IF t # Crawler THEN cpc ELSE IF cpc = "upsert" THEN "listed" ELSE "idle"
    /\ race' = IF t = Crawler /\ cpc = "sweep" /\ quiet THEN {} ELSE race
    /\ EndTx(t, del[t])
    /\ UNCHANGED <<quiet, ops, faults>>

\* The deferred Rollback: nothing is written, and a crawl is over.  A move
\* deletes its copy where undo says so.
Rollback(t, undo) ==
    /\ obj' = IF op[t] = "move" /\ undo THEN obj \ new[t] ELSE obj
    /\ cpc' = IF t = Crawler THEN "idle" ELSE cpc
    /\ EndTx(t, {})
    /\ UNCHANGED <<fkey, fresh, dirs, hist, ops>>

TxError(t) ==
    /\ pc[t] = "files"
    /\ \A u \in Tx : ~FilesWaitFor(t, u)
    /\ FilesStmtFails(t)
    /\ Rollback(t, Targets(t) = {})
    /\ UNCHANGED faults

\* The deadlock detector's victim.
DeadlockAbort(t) ==
    /\ \E S \in SUBSET Tx :
          /\ t \in S
          /\ \A x \in S : \E y \in S : WaitsFor(x, y)
    /\ Rollback(t, TRUE)
    /\ UNCHANGED faults

\* A statement fails, the connection breaks or the process dies, with or
\* without deleting a move's copy.
TxFault(t) ==
    /\ pc[t] # "idle"
    /\ faults < MaxFaults
    /\ faults' = faults + 1
    /\ \E undo \in BOOLEAN : Rollback(t, undo)

-----------------------------------------------------------------------------

TxStep(t) ==
    \/ DeleteMany(t)
    \/ BeginPurge(t)
    \/ FilesStmt(t)
    \/ PruneStmt(t)
    \/ \E d \in Dir : PruneDir(t, d) \/ InsertDir(t, d)
    \/ StmtDone(t)
    \/ Commit(t)
    \/ TxError(t)
    \/ DeadlockAbort(t)

Clients ==
    \/ \E t \in Client, k \in Key : BeginUpload(t, k)
    \/ \E t \in Client, f \in File : BeginDelete(t, f)
    \/ \E t \in Client, f \in File, k \in Key : BeginMove(t, f, k)
    \/ \E t \in Client, d \in Dir : ListFilesForDelete(t, d)
    \/ \E k \in Key : PutObject(k) \/ RemoveObject(k)

Next ==
    \/ Clients
    \/ CrawlStart
    \/ CrawlSweep
    \/ \E t \in Tx : TxStep(t) \/ TxFault(t)

Spec == Init /\ [][Next]_vars

\* Transactions go on, deadlocks are detected and crawls recur.
Fairness ==
    /\ \A t \in Tx : WF_vars(TxStep(t))
    /\ WF_vars(CrawlStart)
    /\ WF_vars(CrawlSweep)

FairSpec == Spec /\ Fairness

-----------------------------------------------------------------------------
(* Properties *)

\* A committed file lacks a directory only after a transaction that inserts
\* directories overlapped one that prunes them: uploads and crawl batches do
\* not disturb each other, nor do deletions, and a crawl that overlapped
\* nothing has put back whatever was missing.
MissingOnlyAfterRace ==
    "mixed" \in race \/ \A f \in File : Ancestors(fkey[f]) \subseteq dirs

\* A committed directory has no file under it only after two pruning
\* transactions overlapped, or after DeleteDirectory deleted a row that had
\* been moved since it listed it and pruned above the old key: whatever inserts
\* do, the deletion of the last file of a directory takes the directory too.
OrphanOnlyAfterRace ==
    \/ race \cap {"pruners", "stale"} # {}
    \/ \A d \in dirs : \E f \in File : Inside(fkey[f], d)

Exact == dirs = AllAncestors(Keys)

\* Once requests and faults stop, crawls make the directories table exact for
\* good, whatever the interleavings before.
EventuallyExact == <>[]Exact

\* "no other write path is expected to ever produce an orphan".
NoOrphan == \A d \in dirs : \E f \in File : Inside(fkey[f], d)
=============================================================================
