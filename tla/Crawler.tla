------------------------------ MODULE Crawler ------------------------------
(***************************************************************************)
(* The crawl that reconciles the files table with the bucket: read the     *)
(* database clock, walk the listing in key order, upsert batches, and      *)
(* sweep the rows that were not stamped since.  Objects change meanwhile,  *)
(* out of band and through the files service.                              *)
(*                                                                         *)
(* seen_at is kept as one bit per row, its comparison with the crawl's     *)
(* cutoff: there is one crawl at a time (concurrencyPolicy: Forbid).  An   *)
(* id that nobody remembers is as good as a new one.                       *)
(***************************************************************************)
EXTENDS Naturals, FiniteSets

CONSTANTS
    NumKeys,      \* keys, numbered in byte order
    NumIds,       \* files.id values in use at a time
    Client,       \* concurrent requests to the files service
    BatchSize,    \* objects per upsert
    Ops,          \* what happens besides the crawl
    SlowTx,       \* whether a transaction may begin before a crawl's cutoff
                  \* and write after it
    MaxClock,     \* bound: changes to the bucket
    MaxFaults     \* bound: failed or crashed crawls and requests

Key == 1 .. NumKeys
Id == 1 .. NumIds
Time == 1 .. MaxClock
None == 0

ASSUME CrawlerAssumption ==
    /\ NumKeys \in Nat /\ NumIds \in Nat
    /\ BatchSize \in Nat \ {0}
    /\ Ops \subseteq {"put", "remove", "upload", "move", "delete"}
    /\ SlowTx \in BOOLEAN
    /\ MaxClock \in Nat /\ MaxFaults \in Nat

VARIABLES
    obj,     \* the bucket: each key's LastModified, or None
    clock,   \* time, counted in changes
    key,     \* files.key by id, None without a row
    marked,  \* files.marked_at by id
    fresh,   \* ids whose seen_at is not before the cutoff
    cpc,     \* where the crawl is
    at,      \* the key the walk comes to next
    batch,   \* listed, not yet upserted
    pc,      \* where each request is
    fid,     \* the id it names
    from,    \* the key it read
    to,      \* the key it writes
    mtime,   \* the LastModified that CommitUpload's stat saw
    stamp,   \* whether its transaction began after the cutoff
    gone,    \* ids whose object was missing at some moment since the cutoff
    slipped, \* unstamped ids that were moved, inserted or stamped since by a
             \* transaction older than the cutoff
    faults   \* faults so far

bucket == <<obj, clock>>
rows   == <<key, marked, fresh>>
crawl  == <<cpc, at, batch>>
client == <<pc, fid, from, to, mtime, stamp>>
vars   == <<bucket, rows, crawl, client, gone, slipped, faults>>

Entry == [key : Key, mtime : Time]
CrawlLabel == {"idle", "walk", "flush", "lastFlush", "sweep"}
ClientLabel == {"idle", "stat", "begin", "upsert", "copy", "update", "rollback",
                "deleteOld", "deleteObject", "deleteRow"}

TypeOK ==
    /\ obj \in [Key -> Time \cup {None}]
    /\ clock \in 0 .. MaxClock
    /\ key \in [Id -> Key \cup {None}]
    /\ marked \in [Id -> Time \cup {None}]
    /\ fresh \subseteq Id
    /\ cpc \in CrawlLabel
    /\ at \in 1 .. NumKeys + 1
    /\ batch \subseteq Entry
    /\ \A e \in batch : e.key < at
    /\ Cardinality(batch) <= BatchSize
    /\ pc \in [Client -> ClientLabel]
    /\ fid \in [Client -> Id \cup {None}]
    /\ from \in [Client -> Key \cup {None}]
    /\ to \in [Client -> Key \cup {None}]
    /\ mtime \in [Client -> Time \cup {None}]
    /\ stamp \in [Client -> BOOLEAN]
    /\ gone \subseteq Id
    /\ slipped \subseteq Id
    /\ faults \in 0 .. MaxFaults

\* An empty bucket and an empty table.
Init ==
    /\ obj = [k \in Key |-> None]
    /\ clock = 0
    /\ key = [f \in Id |-> None]
    /\ marked = [f \in Id |-> None]
    /\ fresh = {}
    /\ cpc = "idle" /\ at = 1 /\ batch = {}
    /\ pc = [c \in Client |-> "idle"]
    /\ fid = [c \in Client |-> None]
    /\ from = [c \in Client |-> None]
    /\ to = [c \in Client |-> None]
    /\ mtime = [c \in Client |-> None]
    /\ stamp = [c \in Client |-> FALSE]
    /\ gone = {} /\ slipped = {}
    /\ faults = 0

Rows == {f \in Id : key[f] # None}
RowAt(k) == {f \in Id : key[f] = k}

\* Rows without an object under their key.
Missing == {f \in Rows : obj[key[f]] = None}

\* Every step but the reading of the cutoff adds to gone and slipped.
Track ==
    /\ gone' = (gone \cap Rows') \cup Missing'
    /\ slipped' = ((slipped \cap Rows') \ fresh')
                      \cup {f \in Rows' \ fresh' : f \in fresh \/ key'[f] # key[f]}

-----------------------------------------------------------------------------
(* The tables *)

\* Ids for the keys that have no row yet, lowest first.
NewIds(K) ==
    LET Free == {f \in Id : key[f] = None /\ \A c \in Client : fid[c] # f}
    IN {g \in [K -> Free] :
            /\ \A j, k \in K : g[j] = g[k] => j = k
            /\ \A k \in K, i \in Free : i < g[k] => \E j \in K : j < k /\ g[j] = i}

\* seen_at is stamped only where marked_at changes.
Stamped_Changed(f, e) == marked[f] < e.mtime
\* seen_at = now() on every upsert.
Stamped(f, e) == TRUE

\* UpsertFiles by a transaction that began after the cutoff, or before it.
UpsertFiles(E, after) ==
    LET K == {e.key : e \in E}
        NewKeys == {k \in K : RowAt(k) = {}}
    IN \E g \in NewIds(NewKeys) :
        /\ key' = [f \in Id |-> IF \E k \in NewKeys : g[k] = f
                                THEN CHOOSE k \in NewKeys : g[k] = f ELSE key[f]]
        /\ marked' = [f \in Id |->
               LET later == {e.mtime : e \in {i \in E : i.key = key'[f] /\ marked[f] < i.mtime}}
               IN IF later = {} THEN marked[f] ELSE CHOOSE t \in later : TRUE]
        /\ LET touched == {f \in Id : \E e \in E : e.key = key'[f] /\ Stamped(f, e)}
           IN fresh' = IF after THEN fresh \cup touched ELSE fresh \ touched

\* DELETE of rows; index results go with them.
DeleteFiles(F) ==
    /\ key' = [f \in Id |-> IF f \in F THEN None ELSE key[f]]
    /\ marked' = [f \in Id |-> IF f \in F THEN None ELSE marked[f]]
    /\ fresh' = fresh \ F

-----------------------------------------------------------------------------
(* The crawl *)

\* The transactions of requests are short: none is open, unless SlowTx.
NoOpenTx == \A c \in Client : pc[c] # "upsert"

\* Run reads the database clock: every row's stamp is now before the cutoff.
CrawlStart ==
    /\ cpc = "idle"
    /\ SlowTx \/ NoOpenTx
    /\ cpc' = "walk"
    /\ at' = 1
    /\ batch' = {}
    /\ fresh' = {}
    /\ stamp' = [c \in Client |-> FALSE]
    /\ UNCHANGED <<bucket, key, marked, pc, fid, from, to, mtime, faults>>
    /\ gone' = Missing' /\ slipped' = {}

\* Whether the batch is flushed before more is listed.
BatchFull(b) == Cardinality(b) >= BatchSize

\* The walk comes to a key: an object there is listed, and a full batch is
\* flushed.
WalkKey ==
    /\ cpc = "walk"
    /\ at <= NumKeys
    /\ at' = at + 1
    /\ batch' = batch \cup {[key |-> k, mtime |-> obj[k]] : k \in {i \in {at} : obj[i] # None}}
    /\ cpc' = IF BatchFull(batch') THEN "flush" ELSE "walk"
    /\ UNCHANGED <<bucket, rows, client, faults>>
    /\ Track

\* The walk is over.
WalkEnd ==
    /\ cpc = "walk"
    /\ at > NumKeys
    /\ cpc' = "lastFlush"
    /\ UNCHANGED <<bucket, rows, at, batch, client, faults>>
    /\ Track

\* flush: the batch is upserted.
Flush ==
    /\ cpc \in {"flush", "lastFlush"}
    /\ UpsertFiles(batch, TRUE)
    /\ batch' = {}
    /\ cpc' = IF cpc = "flush" THEN "walk" ELSE "sweep"
    /\ UNCHANGED <<bucket, at, client, faults>>
    /\ Track

\* Nothing is swept.
Unseen_Nothing == {}
\* DeleteUnseenFiles' victims.
Unseen == {f \in Rows : f \notin fresh}

\* The rows not seen since the cutoff are deleted.
Sweep ==
    /\ cpc = "sweep"
    /\ DeleteFiles(Unseen)
    /\ cpc' = "idle"
    /\ UNCHANGED <<bucket, at, batch, client, faults>>
    /\ Track

\* A failed walk, flush or sweep ends the run without a sweep.
AfterFailure == "idle"

CrawlFails ==
    /\ cpc # "idle"
    /\ faults < MaxFaults
    /\ faults' = faults + 1
    /\ cpc' = AfterFailure
    /\ batch' = {}
    /\ UNCHANGED <<bucket, rows, at, client>>
    /\ Track

-----------------------------------------------------------------------------
(* Changes out of band *)

OutOfBandPut(k) ==
    /\ "put" \in Ops
    /\ clock < MaxClock
    /\ clock' = clock + 1
    /\ obj' = [obj EXCEPT ![k] = clock + 1]
    /\ UNCHANGED <<rows, crawl, client, faults>>
    /\ Track

OutOfBandRemove(k) ==
    /\ "remove" \in Ops
    /\ clock < MaxClock
    /\ obj[k] # None
    /\ clock' = clock + 1
    /\ obj' = [obj EXCEPT ![k] = None]
    /\ UNCHANGED <<rows, crawl, client, faults>>
    /\ Track

-----------------------------------------------------------------------------
(* Requests to the files service; see FilesService for their races with    *)
(* one another                                                             *)

Goto(c, label) == pc' = [pc EXCEPT ![c] = label]

Return(c) ==
    /\ Goto(c, "idle")
    /\ fid' = [fid EXCEPT ![c] = None]
    /\ from' = [from EXCEPT ![c] = None]
    /\ to' = [to EXCEPT ![c] = None]
    /\ mtime' = [mtime EXCEPT ![c] = None]
    /\ stamp' = [stamp EXCEPT ![c] = FALSE]

\* A client uploads to a presigned URL and calls CommitUpload.
UploadPut(c, k) ==
    /\ "upload" \in Ops
    /\ pc[c] = "idle"
    /\ clock < MaxClock
    /\ clock' = clock + 1
    /\ obj' = [obj EXCEPT ![k] = clock + 1]
    /\ to' = [to EXCEPT ![c] = k]
    /\ Goto(c, "stat")
    /\ UNCHANGED <<rows, crawl, fid, from, mtime, stamp, faults>>
    /\ Track

CommitStat(c) ==
    /\ pc[c] = "stat"
    /\ IF obj[to[c]] = None THEN Return(c)
       ELSE /\ mtime' = [mtime EXCEPT ![c] = obj[to[c]]]
            /\ Goto(c, "begin")
            /\ UNCHANGED <<fid, from, to, stamp>>
    /\ UNCHANGED <<bucket, rows, crawl, faults>>
    /\ Track

\* The transaction begins: its now() is fixed.
CommitBegin(c) ==
    /\ pc[c] = "begin"
    /\ stamp' = [stamp EXCEPT ![c] = TRUE]
    /\ Goto(c, "upsert")
    /\ UNCHANGED <<bucket, rows, crawl, fid, from, to, mtime, faults>>
    /\ Track

CommitUpsert(c) ==
    /\ pc[c] = "upsert"
    /\ UpsertFiles({[key |-> to[c], mtime |-> mtime[c]]}, stamp[c])
    /\ Return(c)
    /\ UNCHANGED <<bucket, crawl, faults>>
    /\ Track

\* MoveFile reads its row.
MoveGetFile(c, f, k) ==
    /\ "move" \in Ops
    /\ pc[c] = "idle"
    /\ clock < MaxClock
    /\ key[f] \notin {None, k}
    /\ clock' = clock + 1
    /\ fid' = [fid EXCEPT ![c] = f]
    /\ to' = [to EXCEPT ![c] = k]
    /\ Goto(c, "copy")
    /\ UNCHANGED <<obj, rows, crawl, from, mtime, stamp, faults>>
    /\ Track

\* Under the locks: the row is there, the destination is free, and the object
\* is copied.
MoveCopy(c) ==
    /\ pc[c] = "copy"
    /\ LET k == key[fid[c]]
       IN IF k = None \/ RowAt(to[c]) # {} \/ obj[k] = None
          THEN Return(c) /\ UNCHANGED obj
          ELSE /\ obj' = [obj EXCEPT ![to[c]] = clock]
               /\ from' = [from EXCEPT ![c] = k]
               /\ Goto(c, "update")
               /\ UNCHANGED <<fid, to, mtime, stamp>>
    /\ UNCHANGED <<clock, rows, crawl, faults>>
    /\ Track

\* UpdateFileKey: the row keeps its marked_at and its seen_at.
MoveUpdate(c) ==
    /\ pc[c] = "update"
    /\ \/ /\ key[fid[c]] = None
          /\ Goto(c, "rollback")
          /\ UNCHANGED <<key, fid, from, to, mtime, stamp>>
       \/ /\ key[fid[c]] # None
          /\ RowAt(to[c]) # {}
          /\ Return(c)
          /\ UNCHANGED key
       \/ /\ key[fid[c]] # None
          /\ RowAt(to[c]) = {}
          /\ key' = [key EXCEPT ![fid[c]] = to[c]]
          /\ Goto(c, "deleteOld")
          /\ UNCHANGED <<fid, from, to, mtime, stamp>>
    /\ UNCHANGED <<bucket, marked, fresh, crawl, faults>>
    /\ Track

MoveDeleteOld(c) ==
    /\ pc[c] = "deleteOld"
    /\ obj' = [obj EXCEPT ![from[c]] = None]
    /\ Return(c)
    /\ UNCHANGED <<clock, rows, crawl, faults>>
    /\ Track

MoveRollback(c) ==
    /\ pc[c] = "rollback"
    /\ obj' = [obj EXCEPT ![to[c]] = None]
    /\ Return(c)
    /\ UNCHANGED <<clock, rows, crawl, faults>>
    /\ Track

\* DeleteFile: the object, then the row.
DeleteGetFile(c, f) ==
    /\ "delete" \in Ops
    /\ pc[c] = "idle"
    /\ clock < MaxClock
    /\ key[f] # None
    /\ clock' = clock + 1
    /\ fid' = [fid EXCEPT ![c] = f]
    /\ from' = [from EXCEPT ![c] = key[f]]
    /\ Goto(c, "deleteObject")
    /\ UNCHANGED <<obj, rows, crawl, to, mtime, stamp, faults>>
    /\ Track

DeleteObject(c) ==
    /\ pc[c] = "deleteObject"
    /\ obj' = [obj EXCEPT ![from[c]] = None]
    /\ Goto(c, "deleteRow")
    /\ UNCHANGED <<clock, rows, crawl, fid, from, to, mtime, stamp, faults>>
    /\ Track

DeleteRow(c) ==
    /\ pc[c] = "deleteRow"
    /\ DeleteFiles({fid[c]})
    /\ Return(c)
    /\ UNCHANGED <<bucket, crawl, faults>>
    /\ Track

\* A request fails or its replica dies; a failed update is rolled back.
RequestFails(c) ==
    /\ pc[c] # "idle"
    /\ faults < MaxFaults
    /\ faults' = faults + 1
    /\ \/ Return(c)
       \/ /\ pc[c] = "update"
          /\ Goto(c, "rollback")
          /\ UNCHANGED <<fid, from, to, mtime, stamp>>
    /\ UNCHANGED <<bucket, rows, crawl>>
    /\ Track

-----------------------------------------------------------------------------

CrawlStep == WalkKey \/ WalkEnd \/ Flush \/ Sweep

Request(c) ==
    \/ \E k \in Key : UploadPut(c, k)
    \/ \E f \in Id, k \in Key : MoveGetFile(c, f, k)
    \/ \E f \in Id : DeleteGetFile(c, f)

RequestStep(c) ==
    \/ CommitStat(c) \/ CommitBegin(c) \/ CommitUpsert(c)
    \/ MoveCopy(c) \/ MoveUpdate(c) \/ MoveDeleteOld(c) \/ MoveRollback(c)
    \/ DeleteObject(c) \/ DeleteRow(c)

Next ==
    \/ CrawlStart \/ CrawlStep \/ CrawlFails
    \/ \E k \in Key : OutOfBandPut(k) \/ OutOfBandRemove(k)
    \/ \E c \in Client : Request(c) \/ RequestStep(c) \/ RequestFails(c)

Spec == Init /\ [][Next]_vars

\* Crawls are scheduled again and again and each of them proceeds; requests
\* are carried out.
Fairness ==
    /\ WF_vars(CrawlStart)
    /\ WF_vars(CrawlStep)
    /\ \A c \in Client : WF_vars(RequestStep(c))

FairSpec == Spec /\ Fairness

-----------------------------------------------------------------------------
(* Properties *)

\* "any row still in S3 gets re-stamped past cutoff by this crawl's own
\* listing, so only genuinely gone objects are ever swept": a row that the
\* sweep deletes had no object under its key at some moment of the crawl.
\* Moves and slow transactions break it.
SweepsOnlyGone == cpc = "sweep" => Unseen \subseteq gone

\* What the sweep spares whatever races it: a row it deletes had no object
\* under its key at some moment of the crawl, or else was moved during the
\* crawl or written by a transaction that began before the cutoff.  Failed
\* listings, batches and late uploads never cost a row.
SweepsOnlyGoneOrSlipped == cpc = "sweep" => Unseen \subseteq gone \cup slipped

\* S3 is the source of truth: every object has its row, marked with its
\* LastModified or later, and every row has its object.
InSync ==
    /\ \A k \in Key : obj[k] # None => \E f \in Id : key[f] = k /\ marked[f] >= obj[k]
    /\ Missing = {}

\* Once the bucket is left alone, crawls bring the table in line with it and
\* keep it there, whatever listings, uploads, moves and deletions raced before.
EventuallyInSync == <>[]InSync
=============================================================================
