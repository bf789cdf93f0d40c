---------------------------- MODULE IndexingProofs ----------------------------
(***************************************************************************)
(* Proofs about two components that follow a moving target by reading it   *)
(* in pieces: the crawler, which walks the bucket, and the preview status  *)
(* poller, which reads the index in two statements.                        *)
(*                                                                         *)
(* The crawler (Crawler): what the sweep spares, for any bucket, batch     *)
(* size, number of requests and faults.  A row it deletes had no object at *)
(* some moment of the crawl, or slipped past the crawl by a move or by a   *)
(* transaction older than the cutoff; where no file is moved and no        *)
(* transaction outlives a cutoff, no row slips and only the first is left. *)
(* Rows keep the UNIQUE key of the schema, and batches their size.         *)
(*                                                                         *)
(* The poller (StatusPoller): for any files, kinds, number of polls at a   *)
(* time, fetches and upsets, a row that says READY has its thumbnail, and  *)
(* NONE beside a preview comes only from the race of the two statements.   *)
(* Neither is inductive alone.  What a reply will put on the screen was    *)
(* computed from rows read earlier, so the invariant follows the answer    *)
(* through the call: a preview key that was read is still there unless the *)
(* file is gone, a content type that was read is the object's, and the     *)
(* answer of every call under way could be shown at once.                  *)
(***************************************************************************)
EXTENDS Crawler, StatusPoller, FiniteSetTheorems, TLAPS

-----------------------------------------------------------------------------
(* The crawler.                                                             *)


\* The part of the types that the argument needs.
RowTypes ==
    /\ key \in [Id -> Key \cup {None}]
    /\ cpc \in CrawlLabel
    /\ at \in Nat \ {0}
    /\ \A e \in batch : e.key \in Key

\* A request that writes a row has the key it writes.
RequestKeys ==
    /\ pc \in [Client -> ClientLabel]
    /\ to \in [Client -> Key \cup {None}]
    /\ \A c \in Client : pc[c] \in {"stat", "begin", "upsert", "copy", "update"} => to[c] \in Key

\* Where the walk is when its listing is complete.
WalkOver ==
    /\ cpc \in {"lastFlush", "sweep"} => at > NumKeys
    /\ cpc = "sweep" => batch = {}

\* A row that was neither stamped nor missing since the cutoff, and has not
\* slipped, is still ahead of the walk, or in the batch.
Ahead ==
    cpc # "idle" =>
        \A f \in Rows : f \in fresh \/ f \in gone \/ f \in slipped \/ key[f] >= at
                            \/ \E e \in batch : e.key = key[f]

SweepInv == RowTypes /\ RequestKeys /\ WalkOver /\ Missing \subseteq gone /\ Ahead

-----------------------------------------------------------------------------

LEMMA KeysAreNumbers == Key \subseteq Nat /\ None \notin Key /\ \A k \in Key : 1 <= k /\ k <= NumKeys
  BY CrawlerAssumption DEF Key, None

LEMMA InitSweepInv == Init => SweepInv
<1> SUFFICES ASSUME Init PROVE SweepInv
  OBVIOUS
<1>1. RowTypes /\ RequestKeys
  BY DEF Init, RowTypes, RequestKeys, CrawlLabel, ClientLabel
<1>2. WalkOver /\ Ahead
  BY DEF Init, WalkOver, Ahead
<1>3. Missing = {}
  BY DEF Init, Missing, Rows
<1> QED
  BY <1>1, <1>2, <1>3 DEF SweepInv

\* Whatever happens beside the crawl, a row it is not ahead of has been
\* stamped or missing, or slips.
LEMMA SameCrawl ==
    ASSUME SweepInv, Track, UNCHANGED crawl
    PROVE  WalkOver' /\ (Missing \subseteq gone)' /\ Ahead'
<1>1. WalkOver' /\ (Missing \subseteq gone)'
  BY DEF SweepInv, WalkOver, Track, crawl
<1>2. Ahead'
  <2> SUFFICES ASSUME cpc' # "idle", NEW f \in Rows', f \notin fresh', f \notin slipped'
               PROVE  f \in gone' \/ key'[f] >= at' \/ \E e \in batch' : e.key = key'[f]
    BY DEF Ahead
  <2>1. f \in Rows /\ f \notin fresh /\ key'[f] = key[f] /\ f \notin slipped
    BY DEF Track, Rows
  <2> QED
    BY <2>1 DEF SweepInv, Ahead, Track, crawl
<1> QED
  BY <1>1, <1>2

\* What UpsertFiles does: a row keeps its key or gets one of the upserted
\* keys, and the upserted rows are stamped.
LEMMA UpsertKeys ==
    ASSUME RowTypes, NEW E, \A e \in E : e.key \in Key, NEW after \in BOOLEAN,
           UpsertFiles(E, after)
    PROVE  /\ key' \in [Id -> Key \cup {None}]
           /\ after => /\ fresh \subseteq fresh'
                       /\ \A f \in Rows' : f \in fresh' \/ (f \in Rows /\ key'[f] = key[f])
                       /\ \A f \in Rows' : (\E e \in E : e.key = key'[f]) => f \in fresh'
<1> DEFINE K == {e.key : e \in E}
           NewKeys == {k \in K : RowAt(k) = {}}
<1>1. PICK g \in NewIds(NewKeys) :
        /\ key' = [f \in Id |-> IF \E k \in NewKeys : g[k] = f
                                THEN CHOOSE k \in NewKeys : g[k] = f ELSE key[f]]
        /\ after => fresh' = fresh \cup {f \in Id : \E e \in E : e.key = key'[f] /\ Stamped(f, e)}
  BY DEF UpsertFiles
<1>2. \A f \in Id : \/ \E k \in NewKeys : key'[f] = k
                    \/ key'[f] = key[f]
  BY <1>1
<1>3. NewKeys \subseteq K /\ K \subseteq Key
  OBVIOUS
<1>4. key' \in [Id -> Key \cup {None}]
  BY <1>1, <1>2, <1>3 DEF RowTypes
<1>5. after => \A f \in Id : (\E e \in E : e.key = key'[f]) => f \in fresh'
  BY <1>1 DEF Stamped
<1>6. after => \A f \in Rows' : f \in fresh' \/ (f \in Rows /\ key'[f] = key[f])
  BY <1>2, <1>3, <1>5 DEF Rows
<1> QED
  BY <1>1, <1>4, <1>5, <1>6 DEF Rows

-----------------------------------------------------------------------------
(* The crawl *)

LEMMA StartStep == ASSUME SweepInv, CrawlStart PROVE SweepInv'
<1>1. RowTypes' /\ RequestKeys'
  BY DEF SweepInv, RowTypes, RequestKeys, CrawlStart, CrawlLabel
<1>2. WalkOver' /\ (Missing \subseteq gone)'
  BY DEF WalkOver, CrawlStart
<1>3. Ahead'
  BY KeysAreNumbers DEF SweepInv, RowTypes, Ahead, Rows, CrawlStart
<1> QED
  BY <1>1, <1>2, <1>3 DEF SweepInv

LEMMA WalkKeyStep == ASSUME SweepInv, WalkKey PROVE SweepInv'
<1>0. /\ cpc = "walk" /\ at <= NumKeys /\ at' = at + 1 /\ at \in Nat
      /\ cpc' \in {"walk", "flush"} /\ Track
      /\ batch' = batch \cup {[key |-> k, mtime |-> obj[k]] : k \in {i \in {at} : obj[i] # None}}
      /\ UNCHANGED <<obj, key, fresh, pc, to>>
  BY DEF WalkKey, SweepInv, RowTypes, bucket, rows, client
<1>1. \A e \in batch' : e \in batch \/ (e.key = at /\ obj[at] # None)
  BY <1>0
<1>2. RowTypes'
  <2>1. \A e \in batch' : e.key \in Key
    <3>1. at \in Key \/ at = 0
      BY <1>0, CrawlerAssumption DEF Key
    <3>2. at # 0
      BY DEF SweepInv, RowTypes
    <3> QED
      BY <1>1, <3>1, <3>2 DEF SweepInv, RowTypes
  <2> QED
    BY <1>0, <2>1 DEF SweepInv, RowTypes, CrawlLabel
<1>3. RequestKeys' /\ WalkOver' /\ (Missing \subseteq gone)'
  BY <1>0 DEF SweepInv, RequestKeys, WalkOver, Track
<1>4. Ahead'
  <2> SUFFICES ASSUME NEW f \in Rows'
               PROVE  f \in fresh' \/ f \in gone' \/ f \in slipped' \/ key'[f] >= at'
                        \/ \E e \in batch' : e.key = key'[f]
    BY DEF Ahead
  <2>1. f \in Rows /\ key'[f] = key[f] /\ key[f] \in Key /\ key[f] \in Nat
    BY <1>0, KeysAreNumbers DEF Rows, SweepInv, RowTypes
  <2>2. CASE f \in fresh \/ f \in gone \/ f \in slipped \/ \E e \in batch : e.key = key[f]
    BY <1>0, <2>1, <2>2 DEF Track
  <2>3. CASE key[f] = at
    <3>1. CASE obj[at] = None
      BY <1>0, <2>1, <2>3, <3>1 DEF Track, Missing, Rows
    <3>2. CASE obj[at] # None
      <4>1. [key |-> at, mtime |-> obj[at]] \in batch'
        BY <1>0, <3>2
      <4> QED
        BY <2>1, <2>3, <4>1
    <3> QED
      BY <3>1, <3>2
  <2>4. CASE key[f] >= at /\ key[f] # at
    BY <1>0, <2>1, <2>4
  <2> QED
    BY <1>0, <2>1, <2>2, <2>3, <2>4 DEF SweepInv, Ahead
<1> QED
  BY <1>2, <1>3, <1>4 DEF SweepInv

LEMMA WalkEndStep == ASSUME SweepInv, WalkEnd PROVE SweepInv'
<1>0. /\ cpc = "walk" /\ at > NumKeys /\ cpc' = "lastFlush" /\ Track
      /\ UNCHANGED <<obj, key, fresh, pc, to, at, batch>>
  BY DEF WalkEnd, bucket, rows, client
<1>1. RowTypes' /\ RequestKeys' /\ WalkOver' /\ (Missing \subseteq gone)'
  BY <1>0 DEF SweepInv, RowTypes, CrawlLabel, RequestKeys, WalkOver, Track
<1>2. Ahead'
  BY <1>0 DEF SweepInv, Ahead, Track, Rows
<1> QED
  BY <1>1, <1>2 DEF SweepInv

LEMMA FlushStep == ASSUME SweepInv, Flush PROVE SweepInv'
<1>0. /\ cpc \in {"flush", "lastFlush"} /\ batch' = {} /\ Track
      /\ cpc' = IF cpc = "flush" THEN "walk" ELSE "sweep"
      /\ UNCHANGED <<at, pc, to>>
  BY DEF Flush, client
<1>1. /\ key' \in [Id -> Key \cup {None}]
      /\ fresh \subseteq fresh'
      /\ \A f \in Rows' : f \in fresh' \/ (f \in Rows /\ key'[f] = key[f])
      /\ \A f \in Rows' : (\E e \in batch : e.key = key'[f]) => f \in fresh'
  BY UpsertKeys DEF Flush, SweepInv, RowTypes
<1>2. RowTypes' /\ RequestKeys' /\ WalkOver' /\ (Missing \subseteq gone)'
  BY <1>0, <1>1 DEF SweepInv, RowTypes, CrawlLabel, RequestKeys, WalkOver, Track
<1>3. Ahead'
  BY <1>0, <1>1 DEF SweepInv, Ahead, Track
<1> QED
  BY <1>2, <1>3 DEF SweepInv

\* Both ends of a run leave an idle crawl, and rows only go.
LEMMA EndStep == ASSUME SweepInv, Sweep \/ CrawlFails PROVE SweepInv'
<1>0. /\ cpc' = "idle" /\ Track /\ UNCHANGED <<at, pc, to>>
      /\ batch' \subseteq batch
  BY DEF Sweep, CrawlFails, AfterFailure, client
<1>1. key' \in [Id -> Key \cup {None}]
  BY DEF Sweep, CrawlFails, DeleteFiles, SweepInv, RowTypes, rows
<1> QED
  BY <1>0, <1>1
     DEF SweepInv, RowTypes, CrawlLabel, RequestKeys, WalkOver, Track, Ahead

-----------------------------------------------------------------------------
(* The bucket and the requests *)

LEMMA BucketStep ==
    ASSUME SweepInv, NEW k \in Key, OutOfBandPut(k) \/ OutOfBandRemove(k) PROVE SweepInv'
<1>0. UNCHANGED <<rows, crawl, client>> /\ Track
  BY DEF OutOfBandPut, OutOfBandRemove
<1>1. RowTypes' /\ RequestKeys'
  BY <1>0 DEF SweepInv, RowTypes, RequestKeys, rows, crawl, client
<1> QED
  BY <1>0, <1>1, SameCrawl DEF SweepInv

\* A request that goes to a step, with its key when the step needs one.
LEMMA GotoKeys ==
    ASSUME RequestKeys, NEW c \in Client, NEW label \in ClientLabel, Goto(c, label),
           to' \in [Client -> Key \cup {None}], \A d \in Client \ {c} : to'[d] = to[d],
           label \in {"stat", "begin", "upsert", "copy", "update"} => to'[c] \in Key
    PROVE  RequestKeys'
  BY DEF RequestKeys, Goto

LEMMA ReturnKeys == ASSUME RequestKeys, NEW c \in Client, Return(c) PROVE RequestKeys'
  BY GotoKeys DEF RequestKeys, Return, ClientLabel

LEMMA RequestStarts == ASSUME SweepInv, NEW c \in Client, Request(c) PROVE SweepInv'
<1>1. /\ Track /\ UNCHANGED <<rows, crawl>>
      /\ \/ \E k \in Key : to' = [to EXCEPT ![c] = k] /\ (Goto(c, "stat") \/ Goto(c, "copy"))
         \/ UNCHANGED to /\ Goto(c, "deleteObject")
  BY DEF Request, UploadPut, MoveGetFile, DeleteGetFile
<1>2. RequestKeys'
  BY <1>1 DEF SweepInv, RequestKeys, Goto, ClientLabel
<1>3. RowTypes'
  BY <1>1 DEF SweepInv, RowTypes, rows, crawl
<1> QED
  BY <1>1, <1>2, <1>3, SameCrawl DEF SweepInv

LEMMA RequestSteps ==
    ASSUME SweepInv, NEW c \in Client, RequestStep(c) \/ RequestFails(c) PROVE SweepInv'
<1>1. Track /\ UNCHANGED crawl
  BY DEF RequestStep, RequestFails, CommitStat, CommitBegin, CommitUpsert, MoveCopy,
         MoveUpdate, MoveDeleteOld, MoveRollback, DeleteObject, DeleteRow
<1>2. RequestKeys'
  <2>1. CASE Return(c)
    BY <2>1, ReturnKeys DEF SweepInv
  <2>2. CASE ~Return(c)
    <3>1. UNCHANGED to
      BY <2>2 DEF RequestStep, RequestFails, CommitStat, CommitBegin, CommitUpsert, MoveCopy,
                  MoveUpdate, MoveDeleteOld, MoveRollback, DeleteObject, DeleteRow
    <3>2. \/ pc[c] = "stat" /\ Goto(c, "begin")
          \/ pc[c] = "begin" /\ Goto(c, "upsert")
          \/ pc[c] = "copy" /\ Goto(c, "update")
          \/ Goto(c, "rollback") \/ Goto(c, "deleteOld") \/ Goto(c, "deleteRow")
      BY <2>2 DEF RequestStep, RequestFails, CommitStat, CommitBegin, CommitUpsert, MoveCopy,
                  MoveUpdate, MoveDeleteOld, MoveRollback, DeleteObject, DeleteRow
    <3> QED
      BY <3>1, <3>2 DEF SweepInv, RequestKeys, Goto, ClientLabel
  <2> QED
    BY <2>1, <2>2
<1>3. key' \in [Id -> Key \cup {None}]
  <2>1. CASE CommitUpsert(c)
    <3> DEFINE E == {[key |-> to[c], mtime |-> mtime[c]]}
    <3>1. to[c] \in Key /\ UpsertFiles(E, stamp[c])
      BY <2>1 DEF CommitUpsert, SweepInv, RequestKeys
    <3>2. UpsertFiles(E, stamp[c]) => key' \in [Id -> Key \cup {None}]
      <4>1. \A e \in E : e.key \in Key
        BY <3>1
      <4> HIDE DEF E
      <4> DEFINE K == {e.key : e \in E}
                 NewKeys == {k \in K : RowAt(k) = {}}
      <4>2. NewKeys \subseteq Key
        BY <4>1
      <4> QED
        BY <4>2 DEF UpsertFiles, SweepInv, RowTypes
    <3> QED
      BY <3>1, <3>2
  <2>2. CASE MoveUpdate(c)
    BY <2>2 DEF MoveUpdate, SweepInv, RowTypes, RequestKeys
  <2>3. CASE DeleteRow(c)
    BY <2>3 DEF DeleteRow, DeleteFiles, SweepInv, RowTypes
  <2>4. CASE ~CommitUpsert(c) /\ ~MoveUpdate(c) /\ ~DeleteRow(c)
    <3>1. UNCHANGED rows
      BY <2>4 DEF RequestStep, RequestFails, CommitStat, CommitBegin, MoveCopy,
                  MoveDeleteOld, MoveRollback, DeleteObject
    <3> QED
      BY <3>1 DEF rows, SweepInv, RowTypes
  <2> QED
    BY <2>1, <2>2, <2>3, <2>4
<1>4. RowTypes'
  BY <1>1, <1>3 DEF SweepInv, RowTypes, crawl
<1> QED
  BY <1>1, <1>2, <1>4, SameCrawl DEF SweepInv

LEMMA NextSweepInv == SweepInv /\ [Next]_vars => SweepInv'
<1> SUFFICES ASSUME SweepInv, [Next]_vars PROVE SweepInv'
  OBVIOUS
<1>1. CASE UNCHANGED vars
  BY <1>1 DEF SweepInv, RowTypes, RequestKeys, WalkOver, Missing, Ahead, Rows,
              vars, bucket, rows, crawl, client
<1>2. CASE CrawlStart \/ CrawlStep \/ CrawlFails
  BY <1>2, StartStep, WalkKeyStep, WalkEndStep, FlushStep, EndStep DEF CrawlStep
<1>3. CASE \E k \in Key : OutOfBandPut(k) \/ OutOfBandRemove(k)
  BY <1>3, BucketStep
<1> QED
  BY <1>1, <1>2, <1>3, RequestStarts, RequestSteps DEF Next

LEMMA SweepInvSpares == SweepInv => SweepsOnlyGoneOrSlipped
<1> SUFFICES ASSUME SweepInv, cpc = "sweep", NEW f \in Rows, f \notin fresh
             PROVE  f \in gone \cup slipped
  BY DEF SweepsOnlyGoneOrSlipped, Unseen
<1>1. at > NumKeys /\ at \in Nat /\ batch = {}
  BY DEF SweepInv, RowTypes, WalkOver
<1>2. key[f] \in Key
  BY DEF SweepInv, RowTypes, Rows
<1>3. ~(key[f] >= at)
  <2>1. key[f] \in Nat /\ key[f] <= NumKeys
    BY <1>2, KeysAreNumbers
  <2>2. NumKeys \in Nat
    BY CrawlerAssumption
  <2> QED
    BY <1>1, <2>1, <2>2
<1> QED
  BY <1>1, <1>3 DEF SweepInv, Ahead

\* DeleteUnseenFiles deletes a row only if its object was missing at some
\* moment since the cutoff was read, or the row was moved since, or written by
\* a transaction that began before it.
THEOREM SweepSparesTheSeen == Spec => []SweepsOnlyGoneOrSlipped
<1>1. Init => SweepInv
  BY InitSweepInv
<1>2. SweepInv /\ [Next]_vars => SweepInv'
  BY NextSweepInv
<1>3. SweepInv => SweepsOnlyGoneOrSlipped
  BY SweepInvSpares
<1> QED
  BY <1>1, <1>2, <1>3, PTL DEF Spec

-----------------------------------------------------------------------------
(* A calm system *)

\* No moves, and transactions end before the next cutoff is read.
Calm == "move" \notin Ops /\ SlowTx = FALSE

\* Requests are uploads or deletions, an open transaction began after the
\* cutoff, and no row slips.
CalmInv ==
    /\ stamp \in [Client -> BOOLEAN]
    /\ \A c \in Client : /\ pc[c] \notin {"copy", "update", "rollback", "deleteOld"}
                         /\ pc[c] = "upsert" => stamp[c]
    /\ slipped = {}

LEMMA NothingSlips ==
    ASSUME slipped = {}, Track,
           \A f \in Rows' : f \in fresh' \/ (f \notin fresh /\ key'[f] = key[f])
    PROVE  slipped' = {}
  BY DEF Track

LEMMA CalmRequest ==
    ASSUME Calm, SweepInv, CalmInv, NEW c \in Client,
           Request(c) \/ RequestStep(c) \/ RequestFails(c)
    PROVE  CalmInv'
<1>0. pc \in [Client -> ClientLabel] /\ stamp \in [Client -> BOOLEAN]
  BY DEF SweepInv, RequestKeys, CalmInv
<1>1. /\ Track
      /\ \/ UploadPut(c, to'[c]) \/ \E f \in Id : DeleteGetFile(c, f)
         \/ CommitStat(c) \/ CommitBegin(c) \/ CommitUpsert(c)
         \/ DeleteObject(c) \/ DeleteRow(c) \/ RequestFails(c)
  BY <1>0 DEF Calm, CalmInv, SweepInv, RequestKeys, Request, RequestStep, RequestFails,
         UploadPut, MoveGetFile, DeleteGetFile, CommitStat, CommitBegin, CommitUpsert,
         MoveCopy, MoveUpdate, MoveDeleteOld, MoveRollback, DeleteObject, DeleteRow
<1>2. /\ stamp' \in [Client -> BOOLEAN]
      /\ \A d \in Client : /\ pc'[d] \notin {"copy", "update", "rollback", "deleteOld"}
                           /\ pc'[d] = "upsert" => stamp'[d]
  BY <1>0, <1>1 DEF CalmInv, RequestFails, UploadPut, DeleteGetFile, CommitStat, CommitBegin,
         CommitUpsert, DeleteObject, DeleteRow, Return, Goto
<1>3. \A f \in Rows' : f \in fresh' \/ (f \notin fresh /\ key'[f] = key[f])
  <2>1. CASE CommitUpsert(c)
    <3> DEFINE E == {[key |-> to[c], mtime |-> mtime[c]]}
    <3>1. to[c] \in Key /\ stamp[c] = TRUE
      BY <2>1, <1>0 DEF CommitUpsert, CalmInv, SweepInv, RequestKeys
    <3>2. UpsertFiles(E, TRUE)
      BY <2>1, <3>1 DEF CommitUpsert
    <3>3. \A e \in E : e.key \in Key
      BY <3>1
    <3> HIDE DEF E
    <3> QED
      BY <3>2, <3>3, UpsertKeys DEF SweepInv
  <2>2. CASE DeleteRow(c)
    BY <2>2 DEF DeleteRow, DeleteFiles, Rows
  <2>3. CASE ~CommitUpsert(c) /\ ~DeleteRow(c)
    <3>1. UNCHANGED rows
      BY <1>1, <2>3 DEF RequestFails, UploadPut, DeleteGetFile, CommitStat, CommitBegin,
                        DeleteObject
    <3> QED
      BY <3>1 DEF rows
  <2> QED
    BY <2>1, <2>2, <2>3
<1> QED
  BY <1>1, <1>2, <1>3, NothingSlips DEF CalmInv

LEMMA CalmCrawl ==
    ASSUME Calm, SweepInv, CalmInv, CrawlStart \/ CrawlStep \/ CrawlFails PROVE CalmInv'
<1>1. CASE CrawlStart
  BY <1>1 DEF CrawlStart, Calm, NoOpenTx, CalmInv
<1>2. CASE CrawlStep \/ CrawlFails
  <2>1. Track /\ UNCHANGED client
    BY <1>2 DEF CrawlStep, WalkKey, WalkEnd, Flush, Sweep, CrawlFails
  <2>2. CASE Flush
    <3>1. /\ fresh \subseteq fresh'
          /\ \A f \in Rows' : f \in fresh' \/ (f \in Rows /\ key'[f] = key[f])
      BY <2>2, UpsertKeys DEF Flush, SweepInv, RowTypes
    <3> QED
      BY <2>1, <3>1, NothingSlips DEF CalmInv, client
  <2>3. CASE Sweep
    <3>1. \A f \in Rows' : f \in fresh' \/ (f \notin fresh /\ key'[f] = key[f])
      BY <2>3 DEF Sweep, DeleteFiles, Rows
    <3> QED
      BY <2>1, <3>1, NothingSlips DEF CalmInv, client
  <2>4. CASE WalkKey \/ WalkEnd \/ CrawlFails
    <3>1. UNCHANGED rows
      BY <2>4 DEF WalkKey, WalkEnd, CrawlFails
    <3> QED
      BY <2>1, <3>1, NothingSlips DEF CalmInv, client, rows
  <2> QED
    BY <1>2, <2>2, <2>3, <2>4 DEF CrawlStep
<1> QED
  BY <1>1, <1>2

LEMMA NextCalmInv == ASSUME Calm PROVE SweepInv /\ CalmInv /\ [Next]_vars => CalmInv'
<1> SUFFICES ASSUME SweepInv, CalmInv, [Next]_vars PROVE CalmInv'
  OBVIOUS
<1>1. CASE UNCHANGED vars
  BY <1>1 DEF CalmInv, vars, client
<1>2. CASE \E k \in Key : OutOfBandPut(k) \/ OutOfBandRemove(k)
  <2>1. UNCHANGED <<rows, client>> /\ Track
    BY <1>2 DEF OutOfBandPut, OutOfBandRemove
  <2> QED
    BY <2>1, NothingSlips DEF CalmInv, rows, client
<1> QED
  BY <1>1, <1>2, CalmRequest, CalmCrawl DEF Next

\* "only genuinely gone objects are ever swept" holds of the crawler where no
\* file is moved and no transaction outlives a cutoff.
THEOREM SweepSparesTheLiving == ASSUME Calm PROVE Spec => []SweepsOnlyGone
<1>1. Init => SweepInv /\ CalmInv
  BY InitSweepInv DEF Init, CalmInv
<1>2. SweepInv /\ CalmInv /\ [Next]_vars => (SweepInv /\ CalmInv)'
  BY NextSweepInv, NextCalmInv
<1>3. SweepInv /\ CalmInv => SweepsOnlyGone
  BY SweepInvSpares DEF CalmInv, SweepsOnlyGone, SweepsOnlyGoneOrSlipped
<1> QED
  BY <1>1, <1>2, <1>3, PTL DEF Spec

-----------------------------------------------------------------------------
(* The files table *)

\* files.key is UNIQUE: no two rows have one key.
OneRowPerKey == \A f, g \in Rows : key[f] = key[g] => f = g

\* An upsert gives every key without a row an id of its own.
LEMMA UpsertOneRow ==
    ASSUME RowTypes, OneRowPerKey, NEW E, \A e \in E : e.key \in Key, NEW after,
           UpsertFiles(E, after)
    PROVE  OneRowPerKey'
<1> DEFINE K == {e.key : e \in E}
           NewKeys == {k \in K : RowAt(k) = {}}
           Free == {f \in Id : key[f] = None /\ \A c \in Client : fid[c] # f}
<1>1. PICK g \in NewIds(NewKeys) :
        key' = [f \in Id |-> IF \E k \in NewKeys : g[k] = f
                             THEN CHOOSE k \in NewKeys : g[k] = f ELSE key[f]]
  BY DEF UpsertFiles
<1>2. g \in [NewKeys -> Free] /\ \A j, k \in NewKeys : g[j] = g[k] => j = k
  BY DEF NewIds
<1>3. NewKeys \subseteq Key /\ \A k \in NewKeys, f \in Id : key[f] # k
  BY DEF RowAt
<1> HIDE DEF NewKeys
<1>4. \A f \in Id : IF \E k \in NewKeys : g[k] = f
                    THEN key'[f] \in NewKeys /\ g[key'[f]] = f
                    ELSE key'[f] = key[f]
  BY <1>1
<1>5. ASSUME NEW f \in Rows', NEW h \in Rows', key'[f] = key'[h] PROVE f = h
  <2>1. f \in Id /\ h \in Id /\ key'[f] # None /\ key'[h] # None
    BY <1>5 DEF Rows
  <2>2. CASE key'[f] \in NewKeys
    <3>1. g[key'[f]] = f
      BY <1>3, <1>4, <2>1, <2>2
    <3>2. g[key'[h]] = h
      BY <1>3, <1>4, <1>5, <2>1, <2>2
    <3> QED
      BY <1>5, <3>1, <3>2
  <2>3. CASE key'[f] \notin NewKeys
    <3>1. key'[f] = key[f] /\ key'[h] = key[h]
      BY <1>4, <1>5, <2>1, <2>3
    <3> QED
      BY <1>5, <2>1, <3>1 DEF Rows, OneRowPerKey
  <2> QED
    BY <2>2, <2>3
<1> QED
  BY <1>5 DEF OneRowPerKey

LEMMA DeleteOneRow ==
    ASSUME RowTypes, OneRowPerKey, NEW F, DeleteFiles(F) PROVE OneRowPerKey'
  BY DEF RowTypes, OneRowPerKey, DeleteFiles, Rows

LEMMA SameRows == ASSUME OneRowPerKey, UNCHANGED key PROVE OneRowPerKey'
  BY DEF OneRowPerKey, Rows

LEMMA NextOneRow == SweepInv /\ OneRowPerKey /\ [Next]_vars => OneRowPerKey'
<1> SUFFICES ASSUME SweepInv, OneRowPerKey, [Next]_vars PROVE OneRowPerKey'
  OBVIOUS
<1>0. RowTypes /\ RequestKeys
  BY DEF SweepInv
<1>1. CASE UNCHANGED vars \/ CrawlStart \/ WalkKey \/ WalkEnd \/ CrawlFails
  BY <1>1, SameRows DEF vars, rows, CrawlStart, WalkKey, WalkEnd, CrawlFails
<1>2. CASE Flush
  BY <1>0, <1>2, UpsertOneRow DEF Flush, RowTypes
<1>3. CASE Sweep
  BY <1>0, <1>3, DeleteOneRow DEF Sweep
<1>4. CASE \E k \in Key : OutOfBandPut(k) \/ OutOfBandRemove(k)
  BY <1>4, SameRows DEF OutOfBandPut, OutOfBandRemove, rows
<1>5. ASSUME NEW c \in Client, Request(c) \/ RequestStep(c) \/ RequestFails(c)
      PROVE  OneRowPerKey'
  <2>1. CASE CommitUpsert(c)
    <3> DEFINE E == {[key |-> to[c], mtime |-> mtime[c]]}
    <3>1. UpsertFiles(E, stamp[c]) /\ \A e \in E : e.key \in Key
      BY <1>0, <2>1 DEF CommitUpsert, RequestKeys
    <3> HIDE DEF E
    <3> QED
      BY <1>0, <3>1, UpsertOneRow
  <2>2. CASE MoveUpdate(c)
    <3>1. CASE UNCHANGED key
      BY <3>1, SameRows
    <3>2. CASE key' # key
      <4>1. RowAt(to[c]) = {} /\ key' = [key EXCEPT ![fid[c]] = to[c]]
        BY <2>2, <3>2 DEF MoveUpdate
      <4> QED
        BY <1>0, <4>1 DEF RowAt, RowTypes, OneRowPerKey, Rows
    <3> QED
      BY <3>1, <3>2
  <2>3. CASE DeleteRow(c)
    BY <1>0, <2>3, DeleteOneRow DEF DeleteRow
  <2>4. CASE ~CommitUpsert(c) /\ ~MoveUpdate(c) /\ ~DeleteRow(c)
    BY <1>5, <2>4, SameRows
       DEF Request, UploadPut, MoveGetFile, DeleteGetFile, RequestStep, RequestFails,
           CommitStat, CommitBegin, MoveCopy, MoveDeleteOld, MoveRollback, DeleteObject, rows
  <2> QED
    BY <2>1, <2>2, <2>3, <2>4
<1> QED
  BY <1>1, <1>2, <1>3, <1>4, <1>5 DEF Next, CrawlStep

\* The table the crawler and the requests leave satisfies the schema's UNIQUE
\* key, whatever they race: a batch of new objects gives each its own row, and
\* a move takes a key only where no row has it.
THEOREM RowsHaveOwnKeys == Spec => []OneRowPerKey
<1>1. Init => SweepInv /\ OneRowPerKey
  BY InitSweepInv DEF Init, OneRowPerKey, Rows
<1>2. SweepInv /\ OneRowPerKey /\ [Next]_vars => (SweepInv /\ OneRowPerKey)'
  BY NextSweepInv, NextOneRow
<1> QED
  BY <1>1, <1>2, PTL DEF Spec

-----------------------------------------------------------------------------
(* The types of the crawl and of the requests *)

\* What TypeOK needs of the steps in between: there is room in the batch while
\* the walk goes on, and a request has what its next step uses.
CrawlTypes ==
    /\ TypeOK
    /\ IsFiniteSet(batch)
    /\ cpc = "walk" => Cardinality(batch) < BatchSize
    /\ \A c \in Client :
          /\ pc[c] \in {"begin", "upsert"} => mtime[c] \in Time
          /\ pc[c] = "copy" => fid[c] \in Id /\ clock > 0

TableTypes ==
    /\ key \in [Id -> Key \cup {None}]
    /\ marked \in [Id -> Time \cup {None}]
    /\ fresh \subseteq Id

BucketTypes ==
    /\ obj \in [Key -> Time \cup {None}]
    /\ clock \in 0 .. MaxClock

WalkTypes ==
    /\ cpc \in CrawlLabel
    /\ at \in 1 .. NumKeys + 1
    /\ batch \subseteq Entry
    /\ \A e \in batch : e.key < at
    /\ Cardinality(batch) <= BatchSize
    /\ IsFiniteSet(batch)
    /\ cpc = "walk" => Cardinality(batch) < BatchSize

ClientTypes ==
    /\ pc \in [Client -> ClientLabel]
    /\ fid \in [Client -> Id \cup {None}]
    /\ from \in [Client -> Key \cup {None}]
    /\ to \in [Client -> Key \cup {None}]
    /\ mtime \in [Client -> Time \cup {None}]
    /\ stamp \in [Client -> BOOLEAN]
    /\ \A c \in Client :
          /\ pc[c] \in {"begin", "upsert"} => mtime[c] \in Time
          /\ pc[c] = "copy" => fid[c] \in Id /\ clock > 0

LEMMA CrawlTypesParts ==
    /\ CrawlTypes <=> /\ TableTypes /\ BucketTypes /\ WalkTypes /\ ClientTypes
                      /\ gone \subseteq Id /\ slipped \subseteq Id /\ faults \in 0 .. MaxFaults
    /\ CrawlTypes' <=> /\ TableTypes' /\ BucketTypes' /\ WalkTypes' /\ ClientTypes'
                       /\ gone' \subseteq Id /\ slipped' \subseteq Id /\ faults' \in 0 .. MaxFaults
  BY DEF CrawlTypes, TypeOK, TableTypes, BucketTypes, WalkTypes, ClientTypes

LEMMA TrackTypes == ASSUME Track PROVE gone' \subseteq Id /\ slipped' \subseteq Id
  BY DEF Track, Rows, Missing

LEMMA UpsertTypes ==
    ASSUME TableTypes, RowTypes, NEW E, \A e \in E : e.key \in Key /\ e.mtime \in Time,
           NEW after \in BOOLEAN, UpsertFiles(E, after)
    PROVE  TableTypes'
<1>1. key' \in [Id -> Key \cup {None}]
  BY UpsertKeys
<1>2. marked' = [f \in Id |->
        LET later == {e.mtime : e \in {i \in E : i.key = key'[f] /\ marked[f] < i.mtime}}
        IN IF later = {} THEN marked[f] ELSE CHOOSE t \in later : TRUE]
  BY DEF UpsertFiles
<1>3. ASSUME NEW f \in Id PROVE marked'[f] \in Time \cup {None}
  <2> DEFINE later == {e.mtime : e \in {i \in E : i.key = key'[f] /\ marked[f] < i.mtime}}
  <2>1. later \subseteq Time
    OBVIOUS
  <2>2. marked'[f] = IF later = {} THEN marked[f] ELSE CHOOSE t \in later : TRUE
    BY <1>2
  <2> HIDE DEF later
  <2>3. later # {} => (CHOOSE t \in later : TRUE) \in later
    OBVIOUS
  <2> QED
    BY <2>1, <2>2, <2>3 DEF TableTypes
<1>4. fresh' \subseteq Id
  BY DEF UpsertFiles, TableTypes
<1> QED
  BY <1>1, <1>2, <1>3, <1>4 DEF TableTypes

LEMMA DeleteTypes == ASSUME TableTypes, NEW F, DeleteFiles(F) PROVE TableTypes'
  BY DEF TableTypes, DeleteFiles

LEMMA ReturnTypes ==
    ASSUME ClientTypes, NEW c \in Client, Return(c), UNCHANGED clock PROVE ClientTypes'
  BY DEF ClientTypes, Return, Goto, ClientLabel

\* The walk lists one object at a time, and a batch that became full is
\* flushed before the next.
LEMMA WalkKeyTypes == ASSUME CrawlTypes, WalkKey PROVE WalkTypes'
<1>0. TableTypes /\ BucketTypes /\ WalkTypes
  BY CrawlTypesParts
<1>1. /\ cpc = "walk" /\ at <= NumKeys /\ at' = at + 1
      /\ batch' = batch \cup {[key |-> k, mtime |-> obj[k]] : k \in {i \in {at} : obj[i] # None}}
      /\ cpc' = IF BatchFull(batch') THEN "flush" ELSE "walk"
  BY DEF WalkKey
<1>2. at \in Key /\ at' \in 1 .. NumKeys + 1 /\ at \in Nat /\ Cardinality(batch) < BatchSize
  BY <1>0, <1>1, CrawlerAssumption DEF WalkTypes, Key
<1>3. BatchSize \in Nat /\ Cardinality(batch) \in Nat
  BY <1>0, CrawlerAssumption, FS_CardinalityType DEF WalkTypes
<1>4. ASSUME NEW e \in batch PROVE e.key < at'
  <2>1. e.key \in Key /\ e.key < at
    BY <1>0 DEF WalkTypes, Entry
  <2>2. e.key \in Nat
    BY <2>1, KeysAreNumbers
  <2> QED
    BY <1>1, <1>2, <2>1, <2>2
<1>5. CASE obj[at] = None
  <2>1. batch' = batch
    BY <1>1, <1>5
  <2> QED
    BY <1>0, <1>1, <1>2, <1>3, <1>4, <2>1 DEF WalkTypes, CrawlLabel, BatchFull
<1>6. CASE obj[at] # None
  <2> DEFINE e == [key |-> at, mtime |-> obj[at]]
  <2>1. batch' = batch \cup {e}
    BY <1>1, <1>6
  <2>2. e \in Entry
    BY <1>0, <1>2, <1>6 DEF BucketTypes, Entry
  <2>3. e.key < at'
    BY <1>1, <1>2
  <2> HIDE DEF e
  <2>4. /\ IsFiniteSet(batch')
        /\ Cardinality(batch') \in {Cardinality(batch), Cardinality(batch) + 1}
    BY <1>0, <2>1, FS_AddElement DEF WalkTypes
  <2>5. Cardinality(batch') \in Nat /\ Cardinality(batch') <= BatchSize
    BY <1>2, <1>3, <2>4
  <2>6. batch' \subseteq Entry /\ \A i \in batch' : i.key < at'
    BY <1>0, <1>4, <2>1, <2>2, <2>3 DEF WalkTypes
  <2>7. cpc' \in CrawlLabel /\ (cpc' = "walk" => Cardinality(batch') < BatchSize)
    BY <1>1, <1>3, <2>5 DEF CrawlLabel, BatchFull
  <2> QED
    BY <1>2, <2>4, <2>5, <2>6, <2>7 DEF WalkTypes
<1> QED
  BY <1>5, <1>6

LEMMA CrawlStepTypes ==
    ASSUME SweepInv, CrawlTypes, CrawlStart \/ CrawlStep \/ CrawlFails PROVE CrawlTypes'
<1>0. /\ TableTypes /\ BucketTypes /\ WalkTypes /\ ClientTypes
      /\ gone \subseteq Id /\ slipped \subseteq Id /\ faults \in 0 .. MaxFaults
  BY CrawlTypesParts
<1>1. UNCHANGED <<obj, clock, pc, fid, from, to, mtime>>
  BY DEF CrawlStart, CrawlStep, CrawlFails, WalkKey, WalkEnd, Flush, Sweep, bucket, client
<1>2. stamp' \in [Client -> BOOLEAN]
  BY <1>0 DEF ClientTypes, CrawlStart, CrawlStep, CrawlFails, WalkKey, WalkEnd, Flush, Sweep, client
<1>3. BucketTypes' /\ ClientTypes'
  BY <1>0, <1>1, <1>2 DEF BucketTypes, ClientTypes
<1>4. faults' \in 0 .. MaxFaults
  <2>1. CASE CrawlFails
    BY <1>0, <2>1, CrawlerAssumption DEF CrawlFails
  <2>2. CASE CrawlStart \/ CrawlStep
    BY <1>0, <2>2 DEF CrawlStart, CrawlStep, WalkKey, WalkEnd, Flush, Sweep
  <2> QED
    BY <2>1, <2>2
<1>5. gone' \subseteq Id /\ slipped' \subseteq Id
  <2>1. CASE CrawlStart
    BY <2>1 DEF CrawlStart, Missing, Rows
  <2>2. CASE CrawlStep \/ CrawlFails
    BY <2>2, TrackTypes DEF CrawlStep, CrawlFails, WalkKey, WalkEnd, Flush, Sweep
  <2> QED
    BY <2>1, <2>2
<1>6. TableTypes'
  <2>1. CASE Flush
    <3>1. \A e \in batch : e.key \in Key /\ e.mtime \in Time
      BY <1>0 DEF WalkTypes, Entry
    <3> QED
      BY <1>0, <2>1, <3>1, UpsertTypes DEF Flush, SweepInv
  <2>2. CASE Sweep
    BY <1>0, <2>2, DeleteTypes DEF Sweep
  <2>3. CASE CrawlStart \/ WalkKey \/ WalkEnd \/ CrawlFails
    BY <1>0, <2>3 DEF TableTypes, CrawlStart, WalkKey, WalkEnd, CrawlFails, rows
  <2> QED
    BY <2>1, <2>2, <2>3 DEF CrawlStep
<1>7. WalkTypes'
  <2>1. CASE WalkKey
    BY <2>1, WalkKeyTypes
  <2>2. IsFiniteSet({}) /\ Cardinality({}) = 0
    BY FS_EmptySet
  <2>3. 0 < BatchSize /\ 0 <= BatchSize /\ 1 \in 1 .. NumKeys + 1
    BY CrawlerAssumption
  <2>4. CASE CrawlStart \/ Flush \/ CrawlFails
    <3>1. batch' = {} /\ at' \in 1 .. NumKeys + 1 /\ cpc' \in CrawlLabel
      BY <1>0, <2>3, <2>4 DEF CrawlStart, Flush, CrawlFails, AfterFailure, WalkTypes, CrawlLabel
    <3> QED
      BY <2>2, <2>3, <3>1 DEF WalkTypes
  <2>5. CASE WalkEnd \/ Sweep
    BY <1>0, <2>5 DEF WalkEnd, Sweep, WalkTypes, CrawlLabel
  <2> QED
    BY <2>1, <2>4, <2>5 DEF CrawlStep
<1> QED
  BY <1>3, <1>4, <1>5, <1>6, <1>7, CrawlTypesParts

LEMMA ClockTypes ==
    ASSUME BucketTypes, clock < MaxClock
    PROVE  clock + 1 \in Time /\ clock + 1 \in 0 .. MaxClock /\ clock + 1 > 0
  BY CrawlerAssumption DEF BucketTypes, Time

LEMMA BucketStepTypes ==
    ASSUME CrawlTypes, NEW k \in Key, OutOfBandPut(k) \/ OutOfBandRemove(k) PROVE CrawlTypes'
<1>0. /\ TableTypes /\ BucketTypes /\ WalkTypes /\ ClientTypes /\ faults \in 0 .. MaxFaults
  BY CrawlTypesParts
<1>1. /\ clock < MaxClock /\ clock' = clock + 1 /\ Track
      /\ obj' = [obj EXCEPT ![k] = clock + 1] \/ obj' = [obj EXCEPT ![k] = None]
      /\ UNCHANGED <<key, marked, fresh, cpc, at, batch, pc, fid, from, to, mtime, stamp, faults>>
  BY DEF OutOfBandPut, OutOfBandRemove, rows, crawl, client
<1>2. BucketTypes' /\ clock' > 0
  BY <1>0, <1>1, ClockTypes DEF BucketTypes
<1>3. TableTypes' /\ WalkTypes' /\ faults' \in 0 .. MaxFaults
  BY <1>0, <1>1 DEF TableTypes, WalkTypes
<1>4. ClientTypes'
  BY <1>0, <1>1, <1>2 DEF ClientTypes
<1> QED
  BY <1>1, <1>2, <1>3, <1>4, TrackTypes, CrawlTypesParts

LEMMA RequestTypes ==
    ASSUME SweepInv, CrawlTypes, NEW c \in Client,
           Request(c) \/ RequestStep(c) \/ RequestFails(c)
    PROVE  CrawlTypes'
<1>0. /\ TableTypes /\ BucketTypes /\ WalkTypes /\ ClientTypes /\ faults \in 0 .. MaxFaults
      /\ RowTypes /\ RequestKeys
  BY CrawlTypesParts DEF SweepInv
<1>1. UNCHANGED <<cpc, at, batch>> /\ Track /\ faults' \in 0 .. MaxFaults
  BY <1>0, CrawlerAssumption
     DEF Request, UploadPut, MoveGetFile, DeleteGetFile, RequestStep, RequestFails, CommitStat,
         CommitBegin, CommitUpsert, MoveCopy, MoveUpdate, MoveDeleteOld, MoveRollback,
         DeleteObject, DeleteRow, crawl
<1>2. SUFFICES TableTypes' /\ BucketTypes' /\ ClientTypes'
  <2>1. WalkTypes'
    BY <1>0, <1>1 DEF WalkTypes
  <2> QED
    BY <1>1, <2>1, TrackTypes, CrawlTypesParts
<1>3. CASE \E k \in Key : UploadPut(c, k)
  BY <1>0, <1>3, ClockTypes
     DEF UploadPut, TableTypes, BucketTypes, ClientTypes, rows, Goto, ClientLabel
<1>4. CASE \E f \in Id, k \in Key : MoveGetFile(c, f, k)
  BY <1>0, <1>4, ClockTypes
     DEF MoveGetFile, TableTypes, BucketTypes, ClientTypes, rows, Goto, ClientLabel
<1>5. CASE \E f \in Id : DeleteGetFile(c, f)
  BY <1>0, <1>5, ClockTypes
     DEF DeleteGetFile, TableTypes, BucketTypes, ClientTypes, rows, Goto, ClientLabel
<1>6. CASE CommitStat(c)
  <2>1. TableTypes' /\ BucketTypes' /\ UNCHANGED clock
    BY <1>0, <1>6 DEF CommitStat, TableTypes, BucketTypes, rows, bucket
  <2>2. CASE Return(c)
    BY <1>0, <2>1, <2>2, ReturnTypes
  <2>3. CASE ~Return(c)
    <3>1. obj[to[c]] \in Time
      BY <1>0, <1>6, <2>3 DEF CommitStat, RequestKeys, BucketTypes
    <3>2. ClientTypes'
      BY <1>0, <1>6, <2>1, <2>3, <3>1 DEF CommitStat, ClientTypes, Goto, ClientLabel
    <3> QED
      BY <2>1, <3>2
  <2> QED
    BY <2>2, <2>3, <2>1
<1>7. CASE CommitBegin(c)
  BY <1>0, <1>7 DEF CommitBegin, TableTypes, BucketTypes, ClientTypes, rows, bucket, Goto, ClientLabel
<1>8. CASE CommitUpsert(c)
  <2> DEFINE E == {[key |-> to[c], mtime |-> mtime[c]]}
  <2>1. UpsertFiles(E, stamp[c]) /\ \A e \in E : e.key \in Key /\ e.mtime \in Time
    BY <1>0, <1>8 DEF CommitUpsert, RequestKeys, ClientTypes
  <2>2. stamp[c] \in BOOLEAN
    BY <1>0 DEF ClientTypes
  <2> HIDE DEF E
  <2>3. TableTypes'
    BY <1>0, <2>1, <2>2, UpsertTypes
  <2> QED
    BY <1>0, <1>8, <2>3, ReturnTypes DEF CommitUpsert, BucketTypes, bucket
<1>9. CASE MoveCopy(c)
  <2>1. TableTypes' /\ UNCHANGED clock
    BY <1>0, <1>9 DEF MoveCopy, TableTypes, rows
  <2>2. CASE Return(c) /\ UNCHANGED obj
    BY <1>0, <2>1, <2>2, ReturnTypes DEF BucketTypes
  <2>3. CASE ~(Return(c) /\ UNCHANGED obj)
    <3>1. /\ pc[c] = "copy" /\ key[fid[c]] # None
          /\ obj' = [obj EXCEPT ![to[c]] = clock]
          /\ from' = [from EXCEPT ![c] = key[fid[c]]]
          /\ Goto(c, "update")
          /\ UNCHANGED <<fid, to, mtime, stamp>>
      BY <1>9, <2>3 DEF MoveCopy
    <3>2. clock \in Time /\ key[fid[c]] \in Key
      BY <1>0, <3>1, CrawlerAssumption DEF ClientTypes, BucketTypes, TableTypes, Time
    <3>3. BucketTypes'
      BY <1>0, <2>1, <3>1, <3>2 DEF BucketTypes
    <3>4. ClientTypes'
      BY <1>0, <2>1, <3>1, <3>2 DEF ClientTypes, Goto, ClientLabel
    <3> QED
      BY <2>1, <3>3, <3>4
  <2> QED
    BY <2>1, <2>2, <2>3
<1>10. CASE MoveUpdate(c)
  <2>1. BucketTypes' /\ UNCHANGED <<clock, marked, fresh>>
    BY <1>0, <1>10 DEF MoveUpdate, BucketTypes, bucket
  <2>2. TableTypes'
    BY <1>0, <1>10, <2>1 DEF MoveUpdate, TableTypes, RequestKeys
  <2>3. CASE Return(c)
    BY <1>0, <2>1, <2>3, <2>2, ReturnTypes
  <2>4. CASE ~Return(c)
    <3>1. UNCHANGED <<fid, from, to, mtime, stamp>> /\ (Goto(c, "rollback") \/ Goto(c, "deleteOld"))
      BY <1>10, <2>4 DEF MoveUpdate
    <3> QED
      BY <1>0, <2>1, <2>2, <3>1 DEF ClientTypes, Goto, ClientLabel
  <2> QED
    BY <2>3, <2>4, <2>1, <2>2
<1>11. CASE MoveDeleteOld(c) \/ MoveRollback(c)
  <2>1. TableTypes' /\ BucketTypes'
    BY <1>0, <1>11 DEF MoveDeleteOld, MoveRollback, TableTypes, BucketTypes, rows
  <2> QED
    BY <1>0, <1>11, <2>1, ReturnTypes DEF MoveDeleteOld, MoveRollback
<1>12. CASE DeleteObject(c)
  BY <1>0, <1>12 DEF DeleteObject, TableTypes, BucketTypes, ClientTypes, rows, Goto, ClientLabel
<1>13. CASE DeleteRow(c)
  BY <1>0, <1>13, DeleteTypes, ReturnTypes DEF DeleteRow, BucketTypes, bucket
<1>14. CASE RequestFails(c)
  <2>1. TableTypes' /\ BucketTypes' /\ UNCHANGED clock
    BY <1>0, <1>14 DEF RequestFails, TableTypes, BucketTypes, rows, bucket
  <2>2. CASE Return(c)
    BY <1>0, <2>1, <2>2, ReturnTypes
  <2>3. CASE ~Return(c)
    BY <1>0, <1>14, <2>1, <2>3 DEF RequestFails, ClientTypes, Goto, ClientLabel
  <2> QED
    BY <2>1, <2>2, <2>3
<1> QED
  BY <1>3, <1>4, <1>5, <1>6, <1>7, <1>8, <1>9, <1>10, <1>11, <1>12, <1>13, <1>14
     DEF Request, RequestStep

\* A batch never holds more than BatchSize objects nor one the walk has not
\* come to, and every request has the id, the key and the time its step uses,
\* for any bucket, batch size, number of requests and faults.
THEOREM CrawlerTypeCorrect == Spec => []TypeOK
<1>1. Init => SweepInv /\ CrawlTypes
  <2> SUFFICES ASSUME Init PROVE CrawlTypes
    BY InitSweepInv
  <2>1. IsFiniteSet(batch) /\ Cardinality(batch) = 0
    BY FS_EmptySet DEF Init
  <2>2. TableTypes /\ BucketTypes /\ ClientTypes
    BY CrawlerAssumption DEF Init, TableTypes, BucketTypes, ClientTypes, ClientLabel
  <2>3. WalkTypes
    BY <2>1, CrawlerAssumption DEF Init, WalkTypes, CrawlLabel
  <2>4. gone = {} /\ slipped = {} /\ faults \in 0 .. MaxFaults
    BY CrawlerAssumption DEF Init
  <2> QED
    BY <2>2, <2>3, <2>4, CrawlTypesParts
<1>2. SweepInv /\ CrawlTypes /\ [Next]_vars => (SweepInv /\ CrawlTypes)'
  <2> SUFFICES ASSUME SweepInv, CrawlTypes, [Next]_vars PROVE CrawlTypes'
    BY NextSweepInv
  <2>1. CASE UNCHANGED vars
    BY <2>1 DEF CrawlTypes, TypeOK, vars, bucket, rows, crawl, client
  <2>2. CASE CrawlStart \/ CrawlStep \/ CrawlFails
    BY <2>2, CrawlStepTypes
  <2>3. CASE \E k \in Key : OutOfBandPut(k) \/ OutOfBandRemove(k)
    BY <2>3, BucketStepTypes
  <2> QED
    BY <2>1, <2>2, <2>3, RequestTypes DEF Next
<1>3. CrawlTypes => TypeOK
  BY DEF CrawlTypes
<1> QED
  BY <1>1, <1>2, <1>3, PTL DEF Spec

-----------------------------------------------------------------------------
(* The preview status poller.                                               *)


FileRows == [contentType : {"unknown", "image", "other"}, previewKey : BOOLEAN]
CallRecord ==
    [op : {"none", "poll", "list", "next"},
     phase : {"none", "asked", "rows", "urls", "answered"},
     ids : SUBSET Files, rows : [Files -> FileRows], found : SUBSET Files,
     answer : [Files -> ShownRow]]

TypeInv ==
    /\ kind \in [Files -> Kinds]
    /\ exists \in [Files -> BOOLEAN]
    /\ contentType \in [Files -> {"unknown", "image", "other"}]
    /\ job \in [Files -> JobStatus]
    /\ attempts \in [Files -> 0..MaxAttempts]
    /\ stale \in [Files -> BOOLEAN]
    /\ held \in [Indexer -> [Files -> SUBSET Kinds]]
    /\ previewKey \in [Files -> BOOLEAN]
    /\ shown \in [Files -> ShownRow]
    /\ calls \in [Slots -> CallRecord]
    /\ raced \in [Files -> BOOLEAN] /\ replaced \in [Files -> BOOLEAN]
    /\ urlFailed \in BOOLEAN
    /\ \A f \in Files : job[f] = "pending" => attempts[f] < MaxAttempts

\* What the index says of one file: of the object there is, if it was never
\* replaced.
IndexInv ==
    \A f \in Files :
        /\ job[f] # "none" => exists[f]
        /\ previewKey[f] => exists[f]
        /\ \A i \in Indexer : held[i][f] \subseteq {kind[f]} \/ replaced[f]
        /\ previewKey[f] => kind[f] = "image" \/ replaced[f]
        /\ job[f] = "done" => (previewKey[f] <=> kind[f] = "image") \/ replaced[f]
        /\ stale[f] => replaced[f]
        /\ contentType[f] = "other" => kind[f] = "other" \/ replaced[f]

\* A row that may be shown for f.
ReadyFine(row, f) == row.status = "READY" /\ ~row.url => urlFailed \/ ~exists[f]
NoneFine(row, f) ==
    row.status = "NONE" => raced[f] \/ replaced[f] \/ kind[f] # "image" \/ ~exists[f]

Thumbnail == [status : PreviewStatus, url : BOOLEAN]

\* What a call has read and will answer about f.  Between the two statements of
\* a listing and its URLs a READY row still waits for its thumbnail.
CallInv(c, f) ==
    /\ c.rows[f].previewKey /\ exists[f] => previewKey[f]
    /\ c.rows[f].contentType = "other" => kind[f] = "other" \/ replaced[f]
    /\ NoneFine(c.answer[f], f)
    /\ IF c.phase = "urls" /\ f \in c.found
       THEN /\ c.answer[f] \in Thumbnail
            /\ c.answer[f].status = "READY" => c.rows[f].previewKey
       ELSE ReadyFine(c.answer[f], f)

ShownInv ==
    \A f \in Files :
        /\ ReadyFine(shown[f], f) /\ NoneFine(shown[f], f)
        /\ \A s \in Slots : CallInv(calls[s], f)

PollInv == TypeInv /\ IndexInv /\ ShownInv

-----------------------------------------------------------------------------
(* Records.                                                                 *)

LEMMA ShownRowTypes ==
    /\ NotShown \in ShownRow /\ NotShown.status = "absent" /\ NotShown.url = FALSE
    /\ \A row \in ShownRow : row.status \in PreviewStatus \cup {"absent"} /\ row.url \in BOOLEAN
    /\ NoRow \in FileRows /\ NoRow.previewKey = FALSE /\ NoRow.contentType = "unknown"
<1>1. NotShown \in ShownRow /\ NotShown.status = "absent" /\ NotShown.url = FALSE
  BY DEF NotShown, ShownRow
<1>2. ASSUME NEW row \in ShownRow
      PROVE  row.status \in PreviewStatus \cup {"absent"} /\ row.url \in BOOLEAN
  <2>1. CASE row = NotShown
    BY <1>1, <2>1, Zenon
  <2>2. CASE row \in [status : PreviewStatus, url : BOOLEAN]
    BY <2>2
  <2> QED
    BY <2>1, <2>2 DEF ShownRow
<1>3. NoRow \in FileRows /\ NoRow.previewKey = FALSE /\ NoRow.contentType = "unknown"
  BY DEF NoRow, FileRows
<1> QED
  BY <1>1, <1>2, <1>3

LEMMA NoCallTypes ==
    /\ NoCall \in CallRecord
    /\ NoCall.phase = "none"
    /\ \A f \in Files : NoCall.rows[f] = NoRow /\ NoCall.answer[f] = NotShown
  BY ShownRowTypes DEF NoCall, CallRecord

LEMMA CallTypes ==
    ASSUME NEW o \in {"poll", "list", "next"}, NEW ids \in SUBSET Files,
           NEW before \in [Files -> ShownRow]
    PROVE  /\ Call(o, ids, before) \in CallRecord
           /\ Call(o, ids, before).phase = "asked"
           /\ Call(o, ids, before).answer = before
           /\ \A f \in Files : Call(o, ids, before).rows[f] = NoRow
  BY ShownRowTypes DEF Call, NoCall, CallRecord

LEMMA AnsweredTypes ==
    ASSUME NEW c \in CallRecord, NEW answer \in [Files -> ShownRow]
    PROVE  /\ Answered(c, answer) \in CallRecord
           /\ Answered(c, answer).phase = "answered"
           /\ Answered(c, answer).answer = answer
           /\ \A f \in Files : Answered(c, answer).rows[f] = NoRow
  BY ShownRowTypes DEF Answered, NoCall, CallRecord

\* What previewStatus returns, and from what.
LEMMA StatusOf ==
    ASSUME NEW row \in FileRows, NEW queued \in JobStatus
    PROVE  /\ previewStatus(row, queued) \in PreviewStatus
           /\ previewStatus(row, queued) = "READY" <=> row.previewKey
           /\ previewStatus(row, queued) = "NONE" =>
                 ~row.previewKey /\ (queued = "done" \/ row.contentType = "other")
  BY DEF previewStatus, FileRows, JobStatus, PreviewStatus

-----------------------------------------------------------------------------
(* Steps of the indexers leave the calls and the screen alone.              *)

\* The index of a file goes forward, or goes with the file; an object changes
\* only when it is replaced.
Forward ==
    /\ UNCHANGED <<shown, calls, raced, urlFailed>>
    /\ \A f \in Files : /\ exists'[f] => exists[f] /\ (previewKey[f] => previewKey'[f])
                        /\ replaced[f] => replaced'[f]
                        /\ kind'[f] = kind[f] \/ replaced'[f]

LEMMA IndexKeepsShown ==
    ASSUME PollInv, TypeInv', Forward PROVE ShownInv'
  BY DEF PollInv, TypeInv, ShownInv, Forward, CallInv, ReadyFine, NoneFine

LEMMA Init_PollInv == PollerInit => PollInv
<1> SUFFICES ASSUME PollerInit PROVE PollInv
  OBVIOUS
<1>1. PICK ids \in SUBSET Files \ {{}} :
        calls = [s \in Slots |-> IF s = 0 THEN Call("list", ids, [f \in Files |-> NotShown])
                                ELSE NoCall]
  BY DEF PollerInit
<1>a. [f \in Files |-> NotShown] \in [Files -> ShownRow]
  BY ShownRowTypes
<1>2. \A s \in Slots : /\ calls[s] \in CallRecord /\ calls[s].phase # "urls"
                       /\ \A f \in Files : calls[s].rows[f] = NoRow /\ calls[s].answer[f] = NotShown
  <2> DEFINE first == Call("list", ids, [f \in Files |-> NotShown])
  <2>1. /\ first \in CallRecord /\ first.phase = "asked"
        /\ \A f \in Files : first.rows[f] = NoRow /\ first.answer[f] = NotShown
    BY <1>a, CallTypes
  <2> HIDE DEF first
  <2>2. \A s \in Slots : calls[s] = first \/ calls[s] = NoCall
    BY <1>1 DEF first
  <2> QED
    BY <2>1, <2>2, NoCallTypes
<1>3. TypeInv
  <2>1. calls \in [Slots -> CallRecord]
    BY <1>1, <1>2
  <2>2. shown \in [Files -> ShownRow]
    BY <1>a DEF PollerInit
  <2>3. \A f \in Files : job[f] = "pending" => attempts[f] < MaxAttempts
    BY DEF PollerInit
  <2>4. /\ exists \in [Files -> BOOLEAN] /\ previewKey \in [Files -> BOOLEAN]
        /\ raced \in [Files -> BOOLEAN] /\ replaced \in [Files -> BOOLEAN]
        /\ stale \in [Files -> BOOLEAN] /\ urlFailed \in BOOLEAN
    BY DEF PollerInit
  <2>5. /\ kind \in [Files -> Kinds] /\ contentType \in [Files -> {"unknown", "image", "other"}]
        /\ job \in [Files -> JobStatus] /\ attempts \in [Files -> 0..MaxAttempts]
        /\ held \in [Indexer -> [Files -> SUBSET Kinds]]
    BY ConstantsAssumption DEF PollerInit, JobStatus
  <2> QED
    BY <2>1, <2>2, <2>3, <2>4, <2>5 DEF TypeInv
<1>4. IndexInv
  BY DEF PollerInit, IndexInv
<1>5. ShownInv
  BY <1>2, ShownRowTypes DEF PollerInit, ShownInv, CallInv, ReadyFine, NoneFine
<1> QED
  BY <1>3, <1>4, <1>5 DEF PollInv

\* A report leaves one content that a later one may be about.
LEMMA ReportedTypes ==
    ASSUME PollInv, NEW i \in Indexer, NEW f \in Files, Reported(i, f)
    PROVE  held' \in [Indexer -> [Files -> SUBSET Kinds]]
<1>1. held[i] \in [Files -> SUBSET Kinds] /\ {kind[f]} \in SUBSET Kinds
  BY DEF PollInv, TypeInv
<1>2. [held[i] EXCEPT ![f] = {kind[f]}] \in [Files -> SUBSET Kinds]
  BY <1>1
<1>3. held' = [held EXCEPT ![i] = [held[i] EXCEPT ![f] = {kind[f]}]]
  BY DEF Reported, PollInv, TypeInv
<1> QED
  BY <1>2, <1>3 DEF PollInv, TypeInv

LEMMA Index_PollInv ==
    ASSUME PollInv, NEW f \in Files, Index(f) \/ Finish(f) \/ StatIndexed(f) \/ Upset(f)
    PROVE  PollInv'
<1> USE DEF PollInv, TypeInv, Outside, history, bounds
<1>1. CASE StatIndexed(f)
  <2>1. TypeInv'
    <3>1. held' \in [Indexer -> [Files -> SUBSET Kinds]]
      BY <1>1, ReportedTypes DEF StatIndexed, Indexer
    <3> QED
      BY <1>1, <3>1, ConstantsAssumption DEF StatIndexed, TypeOf, JobStatus
  <2>2. IndexInv'
    BY <1>1 DEF StatIndexed, Reported, TypeOf, IndexInv, Indexer
  <2>3. Forward
    BY <1>1 DEF StatIndexed, Reported, TypeOf, Forward, IndexInv
  <2> QED
    BY <2>1, <2>2, <2>3, IndexKeepsShown
<1>2. CASE Seed(f)
  <2>1. TypeInv'
    BY <1>2, ConstantsAssumption DEF Seed, JobStatus
  <2>2. IndexInv'
    BY <1>2 DEF Seed, IndexInv, Indexer
  <2>3. Forward
    BY <1>2 DEF Seed, Forward, IndexInv
  <2> QED
    BY <2>1, <2>2, <2>3, IndexKeepsShown
<1>3. CASE Requeue(f)
  <2>1. TypeInv'
    BY <1>3, ConstantsAssumption DEF Requeue, JobStatus
  <2>2. IndexInv'
    BY <1>3 DEF Requeue, IndexInv, Indexer
  <2>3. Forward
    BY <1>3 DEF Requeue, Forward, IndexInv
  <2> QED
    BY <2>1, <2>2, <2>3, IndexKeepsShown
<1>4. CASE Claim(f)
  <2>1. TypeInv'
    BY <1>4, ConstantsAssumption DEF Claim, JobStatus
  <2>2. IndexInv'
    BY <1>4 DEF Claim, IndexInv, Indexer
  <2>3. Forward
    BY <1>4 DEF Claim, Forward, IndexInv
  <2> QED
    BY <2>1, <2>2, <2>3, IndexKeepsShown
<1>5. CASE Complete(f)
  <2>1. TypeInv'
    <3>1. held' \in [Indexer -> [Files -> SUBSET Kinds]]
      BY <1>5, ReportedTypes DEF Complete, Indexer
    <3> QED
      BY <1>5, <3>1, ConstantsAssumption DEF Complete, JobStatus
  <2>2. IndexInv'
    BY <1>5 DEF Complete, Reported, IndexInv, Indexer
  <2>3. Forward
    BY <1>5 DEF Complete, Reported, Forward, IndexInv
  <2> QED
    BY <2>1, <2>2, <2>3, IndexKeepsShown
<1>6. CASE Fail(f)
  <2>1. TypeInv'
    <3>1. held' \in [Indexer -> [Files -> SUBSET Kinds]]
      BY <1>6, ReportedTypes DEF Fail, Indexer
    <3> QED
      BY <1>6, <3>1, ConstantsAssumption DEF Fail, Exhausted, JobStatus
  <2>2. IndexInv'
    BY <1>6 DEF Fail, Reported, Exhausted, IndexInv, Indexer
  <2>3. Forward
    BY <1>6 DEF Fail, Reported, Exhausted, Forward, IndexInv
  <2> QED
    BY <2>1, <2>2, <2>3, IndexKeepsShown
<1>7. CASE Delete(f)
  <2>1. TypeInv'
    BY <1>7, ConstantsAssumption DEF Delete, JobStatus
  <2>2. IndexInv'
    BY <1>7 DEF Delete, IndexInv, Indexer
  <2>3. Forward
    BY <1>7 DEF Delete, Forward, IndexInv
  <2> QED
    BY <2>1, <2>2, <2>3, IndexKeepsShown
<1>8. CASE Replace(f)
  <2>1. TypeInv'
    BY <1>8, ConstantsAssumption DEF Replace, JobStatus
  <2>2. IndexInv'
    BY <1>8 DEF Replace, IndexInv, Indexer
  <2>3. Forward
    BY <1>8 DEF Replace, Forward, IndexInv
  <2> QED
    BY <2>1, <2>2, <2>3, IndexKeepsShown
<1> QED
  BY <1>1, <1>2, <1>3, <1>4, <1>5, <1>6, <1>7, <1>8 DEF Index, Finish, Upset

-----------------------------------------------------------------------------
(* Steps of one call leave the index alone.                                 *)

\* The call of slot s becomes `call`; what is on the screen stays.
OneCall(s, call) ==
    /\ calls' = [calls EXCEPT ![s] = call]
    /\ UNCHANGED <<queueVars, shown>>
    /\ raced' \in [Files -> BOOLEAN] /\ replaced' = replaced /\ urlFailed' \in BOOLEAN
    /\ \A f \in Files : raced[f] => raced'[f]
    /\ urlFailed => urlFailed'

LEMMA OneCall_PollInv ==
    ASSUME PollInv, NEW s \in Slots, NEW call \in CallRecord, OneCall(s, call),
           \A f \in Files : CallInv(call, f)'
    PROVE  PollInv'
<1>1. TypeInv' /\ IndexInv'
  BY DEF PollInv, TypeInv, IndexInv, OneCall, queueVars, indexVars
<1>2. ASSUME NEW f \in Files PROVE ReadyFine(shown[f], f)' /\ NoneFine(shown[f], f)'
  BY <1>2 DEF PollInv, ShownInv, OneCall, queueVars, indexVars, ReadyFine, NoneFine
<1>3. ASSUME NEW f \in Files, NEW r \in Slots PROVE CallInv(calls[r], f)'
  <2>1. CASE r = s
    <3>1. calls'[r] = call
      BY <2>1 DEF PollInv, TypeInv, OneCall
    <3>2. CallInv(call, f)'
      OBVIOUS
    <3> QED
      BY <3>1, <3>2 DEF CallInv, ReadyFine, NoneFine
  <2>2. CASE r # s
    <3>1. calls'[r] = calls[r]
      BY <2>2 DEF PollInv, TypeInv, OneCall
    <3>2. CallInv(calls[r], f)
      BY DEF PollInv, ShownInv
    <3> QED
      BY <3>1, <3>2 DEF CallInv, ReadyFine, NoneFine, OneCall, queueVars, indexVars
  <2> QED
    BY <2>1, <2>2
<1> QED
  BY <1>1, <1>2, <1>3 DEF PollInv, ShownInv

\* A call that has read nothing yet.
LEMMA Fresh ==
    ASSUME NEW call \in CallRecord, NEW f \in Files, call.phase # "urls",
           call.rows[f] = NoRow,
           (ReadyFine(call.answer[f], f) /\ NoneFine(call.answer[f], f))'
    PROVE  CallInv(call, f)'
  BY ShownRowTypes DEF CallInv, ReadyFine, NoneFine

LEMMA GetFilesByIDs_PollInv ==
    ASSUME PollInv, NEW s \in Slots, GetFilesByIDs(s) PROVE PollInv'
<1> DEFINE found == {f \in calls[s].ids : exists[f]}
           read == [f \in Files |-> IF f \in found THEN FileRow(f) ELSE NoRow]
<1>1. calls[s] \in CallRecord /\ calls[s].phase = "asked"
  BY DEF PollInv, TypeInv, GetFilesByIDs
<1>2. read \in [Files -> FileRows]
  BY ShownRowTypes DEF PollInv, TypeInv, FileRow, FileRows
<1>3. PICK call \in CallRecord :
        call = [calls[s] EXCEPT !.phase = "rows", !.found = found, !.rows = read]
  BY <1>1, <1>2 DEF CallRecord
<1>4. call.phase = "rows" /\ call.answer = calls[s].answer /\ call.rows = read
  BY <1>1, <1>3 DEF CallRecord
<1>5. OneCall(s, call)
  BY <1>3 DEF GetFilesByIDs, Step, OneCall, history, PollInv, TypeInv
<1>6. ASSUME NEW f \in Files PROVE CallInv(call, f)'
  <2>1. ReadyFine(calls[s].answer[f], f) /\ NoneFine(calls[s].answer[f], f)
    BY <1>1 DEF PollInv, ShownInv, CallInv
  <2>2. UNCHANGED <<kind, exists, previewKey, contentType, raced, replaced, urlFailed>>
    BY DEF GetFilesByIDs, Step, queueVars, indexVars, history
  <2>3. call.rows[f] = FileRow(f) \/ call.rows[f] = NoRow
    BY <1>4
  <2>4. call.rows[f].previewKey => previewKey[f]
    BY <2>3, ShownRowTypes DEF FileRow
  <2>5. call.rows[f].contentType = "other" => kind[f] = "other" \/ replaced[f]
    BY <2>3, ShownRowTypes DEF FileRow, PollInv, IndexInv
  <2> QED
    BY <1>4, <2>1, <2>2, <2>4, <2>5 DEF CallInv, ReadyFine, NoneFine
<1> QED
  BY <1>5, <1>6, OneCall_PollInv

LEMMA GetIndexQueueStatuses_PollInv ==
    ASSUME PollInv, NEW s \in Slots, GetIndexQueueStatuses(s) PROVE PollInv'
<1> DEFINE c == calls[s]
           status(f) == previewStatus(c.rows[f], job[f])
           answer == [f \in Files |->
                        IF f \in c.found
                        THEN [status |-> status(f), url |-> c.op = "poll" /\ status(f) = "READY"]
                        ELSE c.answer[f]]
<1>1. c \in CallRecord /\ c.phase = "rows"
  BY DEF PollInv, TypeInv, GetIndexQueueStatuses
<1>2. ASSUME NEW f \in Files
      PROVE  /\ status(f) \in PreviewStatus
             /\ status(f) = "READY" <=> c.rows[f].previewKey
             /\ status(f) = "NONE" =>
                   ~c.rows[f].previewKey /\ (job[f] = "done" \/ c.rows[f].contentType = "other")
  <2>1. c.rows[f] \in FileRows /\ job[f] \in JobStatus
    BY <1>1 DEF CallRecord, PollInv, TypeInv
  <2> QED
    BY <2>1, StatusOf
<1> HIDE DEF status
<1>3. answer \in [Files -> ShownRow]
  <2> SUFFICES ASSUME NEW f \in Files PROVE answer[f] \in ShownRow
    OBVIOUS
  <2>1. CASE f \in c.found
    BY <1>2, <2>1 DEF ShownRow
  <2>2. CASE f \notin c.found
    BY <1>1, <2>2 DEF CallRecord
  <2> QED
    BY <2>1, <2>2
<1>4. PICK call \in CallRecord :
        call = IF c.op = "poll" THEN Answered(c, answer)
               ELSE [c EXCEPT !.phase = "urls", !.answer = answer]
  <2>1. [c EXCEPT !.phase = "urls", !.answer = answer] \in CallRecord
    BY <1>1, <1>3 DEF CallRecord
  <2> QED
    BY <1>1, <1>3, <2>1, AnsweredTypes
<1>5. /\ call.answer = answer
      /\ IF c.op = "poll" THEN call.phase = "answered" /\ \A f \in Files : call.rows[f] = NoRow
         ELSE call.phase = "urls" /\ call.rows = c.rows /\ call.found = c.found
  <2>1. CASE c.op = "poll"
    BY <1>1, <1>3, <1>4, <2>1, AnsweredTypes
  <2>2. CASE c.op # "poll"
    BY <1>1, <1>3, <1>4, <2>2 DEF CallRecord
  <2> QED
    BY <2>1, <2>2
<1>6. /\ UNCHANGED <<kind, exists, previewKey, contentType, replaced, urlFailed>>
      /\ raced' = [f \in Files |-> raced[f] \/
                       (f \in c.found /\ ~c.rows[f].previewKey /\ previewKey[f])]
  BY DEF GetIndexQueueStatuses, Step, queueVars, indexVars
<1>7. OneCall(s, call)
  <2>1. calls' = [calls EXCEPT ![s] = call] /\ UNCHANGED <<queueVars, shown>>
    BY <1>4 DEF GetIndexQueueStatuses, Step, status
  <2>2. raced' \in [Files -> BOOLEAN] /\ \A f \in Files : raced[f] => raced'[f]
    BY <1>6 DEF PollInv, TypeInv
  <2> QED
    BY <1>6, <2>1, <2>2 DEF OneCall, PollInv, TypeInv
<1>8. ASSUME NEW f \in Files PROVE CallInv(call, f)'
  <2>1. CallInv(c, f) /\ ReadyFine(c.answer[f], f)
    BY <1>1 DEF PollInv, ShownInv, CallInv
  <2>2. /\ call.rows[f].previewKey /\ exists[f] => previewKey[f]
        /\ call.rows[f].contentType = "other" => kind[f] = "other" \/ replaced[f]
    BY <1>5, <2>1, ShownRowTypes DEF CallInv
  <2>3. NoneFine(call.answer[f], f)'
    <3>1. CASE f \notin c.found
      BY <1>3, <1>5, <1>6, <2>1, <3>1 DEF CallInv, NoneFine
    <3>2. CASE f \in c.found
      <4> SUFFICES ASSUME status(f) = "NONE"
                   PROVE  raced'[f] \/ replaced[f] \/ kind[f] # "image"
        BY <1>5, <1>6, <3>2 DEF NoneFine
      <4>1. ~c.rows[f].previewKey /\ (job[f] = "done" \/ c.rows[f].contentType = "other")
        BY <1>2
      <4>2. CASE previewKey[f]
        BY <1>6, <3>2, <4>1, <4>2
      <4>3. CASE ~previewKey[f]
        BY <2>1, <4>1, <4>3 DEF PollInv, IndexInv, CallInv
      <4> QED
        BY <4>2, <4>3
    <3> QED
      BY <3>1, <3>2
  <2>4. IF call.phase = "urls" /\ f \in call.found
        THEN /\ call.answer[f] \in Thumbnail
             /\ call.answer[f].status = "READY" => call.rows[f].previewKey
        ELSE ReadyFine(call.answer[f], f)'
    <3>1. CASE f \notin c.found
      <4>1. call.answer[f] = c.answer[f]
        BY <1>5, <3>1
      <4>2. ReadyFine(call.answer[f], f)'
        BY <1>6, <2>1, <4>1 DEF ReadyFine
      <4>3. call.phase = "urls" => f \notin call.found
        BY <1>5, <3>1
      <4> QED
        BY <4>2, <4>3
    <3>2. CASE f \in c.found
      <4>1. call.answer[f] = [status |-> status(f), url |-> c.op = "poll" /\ status(f) = "READY"]
        BY <1>5, <3>2
      <4>2. CASE c.op = "poll"
        <5>1. call.phase # "urls"
          BY <1>5, <4>2
        <5>2. call.answer[f].status = "READY" => call.answer[f].url
          <6>1. PICK u \in BOOLEAN : u = (c.op = "poll" /\ status(f) = "READY")
            BY Zenon
          <6>2. call.answer[f] = [status |-> status(f), url |-> u]
            BY <4>1, <6>1
          <6>3. call.answer[f].status = status(f) /\ call.answer[f].url = u
            BY <6>2
          <6> QED
            BY <4>2, <6>1, <6>3
        <5> QED
          BY <5>1, <5>2 DEF ReadyFine
      <4>3. CASE c.op # "poll"
        <5>1. call.answer[f] \in Thumbnail
          BY <1>2, <4>1 DEF Thumbnail
        <5>2. call.answer[f].status = "READY" => call.rows[f].previewKey
          BY <1>2, <1>5, <4>1, <4>3
        <5> QED
          BY <1>5, <3>2, <4>3, <5>1, <5>2
      <4> QED
        BY <4>2, <4>3
    <3> QED
      BY <3>1, <3>2
  <2> QED
    BY <1>6, <2>2, <2>3, <2>4 DEF CallInv
<1> QED
  BY <1>7, <1>8, OneCall_PollInv

LEMMA GetPreviewURL_PollInv ==
    ASSUME PollInv, NEW s \in Slots, GetPreviewURL(s) PROVE PollInv'
<1> DEFINE c == calls[s]
           thumbnails == [f \in Files |->
                IF f \in c.found
                THEN [c.answer[f] EXCEPT !.url = c.rows[f].previewKey /\ previewKey[f]]
                ELSE c.answer[f]]
<1>1. c \in CallRecord /\ c.phase = "urls"
  BY DEF PollInv, TypeInv, GetPreviewURL
<1>2. UNCHANGED <<kind, exists, previewKey, contentType, raced, replaced>>
  BY DEF GetPreviewURL, Step, queueVars, indexVars, history
<1>3. CASE Step(s, Answered(c, thumbnails)) /\ UNCHANGED history
  <2>1. thumbnails \in [Files -> ShownRow]
    <3> SUFFICES ASSUME NEW f \in Files PROVE thumbnails[f] \in ShownRow
      OBVIOUS
    <3>1. CASE f \in c.found
      <4>1. c.answer[f] \in Thumbnail
        BY <1>1, <3>1 DEF PollInv, ShownInv, CallInv
      <4>2. previewKey[f] \in BOOLEAN /\ c.rows[f].previewKey \in BOOLEAN
        BY <1>1 DEF PollInv, TypeInv, CallRecord, FileRows
      <4>3. [c.answer[f] EXCEPT !.url = c.rows[f].previewKey /\ previewKey[f]] \in Thumbnail
        BY <4>1, <4>2 DEF Thumbnail
      <4> QED
        BY <3>1, <4>3 DEF ShownRow, Thumbnail
    <3>2. CASE f \notin c.found
      BY <1>1, <3>2 DEF CallRecord
    <3> QED
      BY <3>1, <3>2
  <2>2. PICK call \in CallRecord : call = Answered(c, thumbnails)
    BY <1>1, <2>1, AnsweredTypes
  <2>3. /\ call.phase = "answered" /\ call.answer = thumbnails
        /\ \A f \in Files : call.rows[f] = NoRow
    BY <1>1, <2>1, <2>2, AnsweredTypes
  <2>4. OneCall(s, call)
    BY <1>3, <2>2 DEF Step, OneCall, history, PollInv, TypeInv
  <2>5. ASSUME NEW f \in Files PROVE CallInv(call, f)'
    <3>1. CallInv(c, f)
      BY DEF PollInv, ShownInv
    <3>2. UNCHANGED urlFailed
      BY <1>3 DEF history
    <3>3. CASE f \notin c.found
      BY <1>1, <1>2, <2>1, <2>3, <3>1, <3>2, <3>3, Fresh DEF CallInv, ReadyFine, NoneFine
    <3>4. CASE f \in c.found
      <4>1. /\ call.answer[f].status = c.answer[f].status
            /\ call.answer[f].url = (c.rows[f].previewKey /\ previewKey[f])
        <5>1. c.answer[f] \in Thumbnail
          BY <1>1, <3>1, <3>4 DEF CallInv
        <5>2. call.answer[f] = [c.answer[f] EXCEPT !.url = c.rows[f].previewKey /\ previewKey[f]]
          BY <2>3, <3>4
        <5> QED
          BY <5>1, <5>2 DEF Thumbnail
      <4>2. NoneFine(call.answer[f], f)'
        BY <1>2, <3>1, <4>1 DEF CallInv, NoneFine
      <4>3. c.rows[f].previewKey /\ exists[f] => previewKey[f]
        BY <3>1 DEF CallInv
      <4>4. c.answer[f].status = "READY" => c.rows[f].previewKey
        BY <1>1, <3>1, <3>4 DEF CallInv
      <4>5. ReadyFine(call.answer[f], f)'
        BY <1>2, <4>1, <4>3, <4>4 DEF ReadyFine
      <4> QED
        BY <2>3, <4>2, <4>5, Fresh DEF CallInv
    <3> QED
      BY <3>3, <3>4
  <2> QED
    BY <2>4, <2>5, OneCall_PollInv
<1>4. CASE calls' = [calls EXCEPT ![s] = Answered(c, c.answer)] /\ urlFailed'
           /\ UNCHANGED <<queueVars, shown, raced, replaced>>
  <2>1. c.answer \in [Files -> ShownRow]
    BY <1>1 DEF CallRecord
  <2>2. PICK call \in CallRecord : call = Answered(c, c.answer)
    BY <1>1, <2>1, AnsweredTypes
  <2>3. /\ call.phase = "answered" /\ call.answer = c.answer
        /\ \A f \in Files : call.rows[f] = NoRow
    BY <1>1, <2>1, <2>2, AnsweredTypes
  <2>4. OneCall(s, call)
    BY <1>4, <2>2 DEF OneCall, PollInv, TypeInv
  <2>5. ASSUME NEW f \in Files PROVE CallInv(call, f)'
    <3>1. CallInv(c, f)
      BY DEF PollInv, ShownInv
    <3> QED
      BY <1>2, <1>4, <2>3, <3>1, Fresh DEF CallInv, ReadyFine, NoneFine
  <2> QED
    BY <2>4, <2>5, OneCall_PollInv
<1> QED
  BY <1>3, <1>4 DEF GetPreviewURL

-----------------------------------------------------------------------------
(* Steps of the client.                                                     *)

\* A patched row may be shown where the row and the update may.
LEMMA PatchFine ==
    ASSUME NEW row \in ShownRow, NEW update \in ShownRow, NEW f \in Files,
           ReadyFine(row, f), NoneFine(row, f), ReadyFine(update, f), NoneFine(update, f)
    PROVE  /\ Patch(row, update) \in ShownRow
           /\ ReadyFine(Patch(row, update), f) /\ NoneFine(Patch(row, update), f)
<1>1. CASE row = NotShown \/ update = NotShown
  BY <1>1 DEF Patch
<1>2. CASE ~(row = NotShown \/ update = NotShown)
  <2>1. row \in Thumbnail /\ update \in Thumbnail
    BY <1>2 DEF ShownRow, Thumbnail
  <2>2. Patch(row, update) = [status |-> update.status, url |-> update.url \/ row.url]
    BY <1>2 DEF Patch
  <2>3. Patch(row, update) \in Thumbnail
    BY <2>1, <2>2 DEF Thumbnail
  <2>4. Patch(row, update) \in ShownRow
    BY <2>3 DEF ShownRow, Thumbnail
  <2>5. Patch(row, update).status = update.status
    BY <2>2
  <2>6. update.url => Patch(row, update).url
    <3>1. PICK u \in BOOLEAN : u = (update.url \/ row.url)
      BY Zenon
    <3>2. Patch(row, update) = [status |-> update.status, url |-> u]
      BY <2>2, <3>1
    <3>3. Patch(row, update).url = u
      BY <3>2
    <3> QED
      BY <3>1, <3>3
  <2> QED
    BY <2>4, <2>5, <2>6 DEF ReadyFine, NoneFine
<1> QED
  BY <1>1, <1>2

\* The answer of a call outside its phase "urls" may be shown.
LEMMA AnswerFine ==
    ASSUME PollInv, NEW s \in Slots, calls[s].phase # "urls", NEW f \in Files
    PROVE  /\ calls[s] \in CallRecord /\ calls[s].answer[f] \in ShownRow
           /\ ReadyFine(calls[s].answer[f], f) /\ NoneFine(calls[s].answer[f], f)
  BY DEF PollInv, TypeInv, CallRecord, ShownInv, CallInv

\* The rows of the listing change, and the call of slot s.
LEMMA NewShown_PollInv ==
    ASSUME PollInv, NEW s \in Slots, NEW call \in CallRecord,
           calls' = [calls EXCEPT ![s] = call],
           UNCHANGED <<queueVars, history>>,
           shown' \in [Files -> ShownRow],
           \A f \in Files : ReadyFine(shown'[f], f) /\ NoneFine(shown'[f], f),
           \A f \in Files : CallInv(call, f)
    PROVE  PollInv'
<1>1. TypeInv' /\ IndexInv'
  BY DEF PollInv, TypeInv, IndexInv, queueVars, indexVars, history
<1>2. ASSUME NEW f \in Files PROVE ReadyFine(shown[f], f)' /\ NoneFine(shown[f], f)'
  BY <1>2 DEF queueVars, indexVars, history, ReadyFine, NoneFine
<1>3. ASSUME NEW f \in Files, NEW r \in Slots PROVE CallInv(calls[r], f)'
  <2>1. CASE r = s
    <3>1. calls'[r] = call
      BY <2>1 DEF PollInv, TypeInv
    <3>2. CallInv(call, f)
      OBVIOUS
    <3> QED
      BY <3>1, <3>2 DEF CallInv, ReadyFine, NoneFine, queueVars, indexVars, history
  <2>2. CASE r # s
    <3>1. calls'[r] = calls[r]
      BY <2>2 DEF PollInv, TypeInv
    <3>2. CallInv(calls[r], f)
      BY DEF PollInv, ShownInv
    <3> QED
      BY <3>1, <3>2 DEF CallInv, ReadyFine, NoneFine, queueVars, indexVars, history
  <2> QED
    BY <2>1, <2>2
<1> QED
  BY <1>1, <1>2, <1>3 DEF PollInv, ShownInv

\* A call that brings nothing or only rows that may be shown.
LEMMA FreshCall ==
    ASSUME NEW call \in CallRecord, NEW f \in Files, call.phase # "urls",
           call.rows[f] = NoRow, ReadyFine(call.answer[f], f), NoneFine(call.answer[f], f)
    PROVE  CallInv(call, f)
  BY ShownRowTypes DEF CallInv

LEMMA NotShownFine ==
    ASSUME NEW f \in Files PROVE ReadyFine(NotShown, f) /\ NoneFine(NotShown, f)
  BY ShownRowTypes DEF ReadyFine, NoneFine

LEMMA Deliver_PollInv ==
    ASSUME PollInv, NEW s \in Slots, Deliver(s) PROVE PollInv'
<1>1. calls[s].phase = "answered"
  BY DEF Deliver
<1>2. ASSUME NEW f \in Files
      PROVE  shown'[f] \in ShownRow /\ ReadyFine(shown'[f], f) /\ NoneFine(shown'[f], f)
  <2>1. /\ calls[s].answer[f] \in ShownRow
        /\ ReadyFine(calls[s].answer[f], f) /\ NoneFine(calls[s].answer[f], f)
    BY <1>1, AnswerFine
  <2>2. shown[f] \in ShownRow /\ ReadyFine(shown[f], f) /\ NoneFine(shown[f], f)
    BY DEF PollInv, TypeInv, ShownInv
  <2>3. shown'[f] = Patch(shown[f], calls[s].answer[f]) \/ shown'[f] = calls[s].answer[f]
    BY DEF Deliver
  <2>4. CASE shown'[f] = calls[s].answer[f]
    BY <2>1, <2>4 DEF ReadyFine, NoneFine
  <2>5. CASE shown'[f] = Patch(shown[f], calls[s].answer[f])
    <3>1. /\ Patch(shown[f], calls[s].answer[f]) \in ShownRow
          /\ ReadyFine(Patch(shown[f], calls[s].answer[f]), f)
          /\ NoneFine(Patch(shown[f], calls[s].answer[f]), f)
      BY <2>1, <2>2, PatchFine
    <3> QED
      BY <2>5, <3>1 DEF ReadyFine, NoneFine
  <2> QED
    BY <2>3, <2>4, <2>5
<1>3. shown' \in [Files -> ShownRow]
  <2>1. shown' = [f \in Files |-> shown'[f]]
    BY DEF Deliver
  <2> QED
    BY <1>2, <2>1
<1>4. ASSUME NEW f \in Files PROVE CallInv(NoCall, f)
  BY NoCallTypes, NotShownFine, FreshCall
<1>5. calls' = [calls EXCEPT ![s] = NoCall] /\ UNCHANGED <<queueVars, history>>
  BY DEF Deliver
<1> QED
  BY <1>2, <1>3, <1>4, <1>5, NoCallTypes, NewShown_PollInv

LEMMA CallFails_PollInv ==
    ASSUME PollInv, NEW s \in Slots, CallFails(s) PROVE PollInv'
<1>1. ASSUME NEW f \in Files PROVE CallInv(NoCall, f)
  BY NoCallTypes, NotShownFine, FreshCall
<1>2. calls' = [calls EXCEPT ![s] = NoCall] /\ UNCHANGED <<queueVars, history, shown>>
  BY DEF CallFails
<1>3. /\ shown' \in [Files -> ShownRow]
      /\ \A f \in Files : ReadyFine(shown'[f], f) /\ NoneFine(shown'[f], f)
  BY <1>2 DEF PollInv, TypeInv, ShownInv
<1> QED
  BY <1>1, <1>2, <1>3, NoCallTypes, NewShown_PollInv

\* A call begins: its rows are the ones shown, or none; so are the screen's.
LEMMA Begin_PollInv ==
    ASSUME PollInv, NEW s \in Slots, NEW o \in {"poll", "list", "next"},
           NEW ids \in SUBSET Files, NEW before \in [Files -> ShownRow],
           \A f \in Files : before[f] = shown[f] \/ before[f] = NotShown,
           calls' = [calls EXCEPT ![s] = Call(o, ids, before)],
           UNCHANGED <<queueVars, history>>,
           shown' = shown \/ shown' = [f \in Files |-> NotShown]
    PROVE  PollInv'
<1>1. PICK call \in CallRecord : call = Call(o, ids, before)
  BY CallTypes
<1>2. call.phase = "asked" /\ call.answer = before /\ \A f \in Files : call.rows[f] = NoRow
  <2>1. /\ Call(o, ids, before).phase = "asked" /\ Call(o, ids, before).answer = before
        /\ \A f \in Files : Call(o, ids, before).rows[f] = NoRow
    BY CallTypes
  <2> QED
    BY <1>1, <2>1, Zenon
<1>3. ASSUME NEW f \in Files
      PROVE  shown[f] \in ShownRow /\ ReadyFine(shown[f], f) /\ NoneFine(shown[f], f)
  BY DEF PollInv, TypeInv, ShownInv
<1>4. ASSUME NEW f \in Files PROVE CallInv(call, f)
  <2>1. ReadyFine(call.answer[f], f) /\ NoneFine(call.answer[f], f)
    BY <1>2, <1>3, NotShownFine DEF ReadyFine, NoneFine
  <2> QED
    BY <1>2, <2>1, FreshCall
<1>5. /\ shown' \in [Files -> ShownRow]
      /\ \A f \in Files : ReadyFine(shown'[f], f) /\ NoneFine(shown'[f], f)
  <2>1. CASE shown' = shown
    BY <1>3, <2>1 DEF PollInv, TypeInv, ReadyFine, NoneFine
  <2>2. CASE shown' = [f \in Files |-> NotShown]
    BY <2>2, ShownRowTypes, NotShownFine DEF ReadyFine, NoneFine
  <2> QED
    BY <2>1, <2>2
<1>6. calls' = [calls EXCEPT ![s] = call]
  BY <1>1
<1> QED
  BY <1>4, <1>5, <1>6, NewShown_PollInv

LEMMA Client_PollInv ==
    ASSUME PollInv, FetchList \/ FetchNextPage \/ ChangeKey \/ Tick PROVE PollInv'
<1> DEFINE empty == [f \in Files |-> NotShown]
<1>1. /\ empty \in [Files -> ShownRow] /\ \A f \in Files : empty[f] = NotShown
      /\ shown \in [Files -> ShownRow] /\ 0 \in Slots
  BY ShownRowTypes DEF PollInv, TypeInv, Slots
<1>2. CASE FetchList
  <2>1. PICK ids \in SUBSET Files : calls' = [calls EXCEPT ![0] = Call("list", ids, empty)]
    BY <1>2 DEF FetchList
  <2>2. UNCHANGED <<queueVars, history>> /\ shown' = shown
    BY <1>2 DEF FetchList
  <2> HIDE DEF empty
  <2> QED
    BY <1>1, <2>1, <2>2, Begin_PollInv
<1>3. CASE FetchNextPage
  <2>1. PICK ids \in SUBSET Files : calls' = [calls EXCEPT ![0] = Call("next", ids, shown)]
    BY <1>3 DEF FetchNextPage
  <2>2. UNCHANGED <<queueVars, history>> /\ shown' = shown
    BY <1>3 DEF FetchNextPage
  <2> QED
    BY <1>1, <2>1, <2>2, Begin_PollInv
<1>4. CASE ChangeKey
  <2>1. PICK ids \in SUBSET Files : calls' = [calls EXCEPT ![0] = Call("list", ids, empty)]
    BY <1>4 DEF ChangeKey
  <2>2. UNCHANGED <<queueVars, history>> /\ shown' = [f \in Files |-> NotShown]
    BY <1>4 DEF ChangeKey
  <2> HIDE DEF empty
  <2> QED
    BY <1>1, <2>1, <2>2, Begin_PollInv
<1>5. CASE Tick
  <2>1. PICK s \in Slots : calls' = [calls EXCEPT ![s] = Call("poll", PendingIds(shown), empty)]
    BY <1>5 DEF Tick, Slots
  <2>2. UNCHANGED <<queueVars, history>> /\ shown' = shown /\ PendingIds(shown) \in SUBSET Files
    BY <1>5 DEF Tick, PendingIds
  <2> HIDE DEF empty
  <2> QED
    BY <1>1, <2>1, <2>2, Begin_PollInv
<1> QED
  BY <1>2, <1>3, <1>4, <1>5

LEMMA Next_PollInv ==
    ASSUME PollInv, [PollerNext]_pollerVars PROVE PollInv'
<1>1. CASE \E f \in Files : Index(f) \/ Finish(f) \/ StatIndexed(f) \/ Upset(f)
  BY <1>1, Index_PollInv
<1>2. CASE \E s \in Slots : Answer(s) \/ CallFails(s)
  BY <1>2, GetFilesByIDs_PollInv, GetIndexQueueStatuses_PollInv, GetPreviewURL_PollInv,
     Deliver_PollInv, CallFails_PollInv DEF Answer
<1>3. CASE FetchList \/ FetchNextPage \/ ChangeKey \/ Tick
  BY <1>3, Client_PollInv
<1>4. CASE UNCHANGED pollerVars
  BY <1>4 DEF PollInv, TypeInv, IndexInv, ShownInv, CallInv, ReadyFine, NoneFine,
              pollerVars, queueVars, indexVars, history
<1> QED
  BY <1>1, <1>2, <1>3, <1>4 DEF PollerNext

-----------------------------------------------------------------------------
(* Theorems.                                                                *)

\* Every reachable state satisfies the inductive invariant.
THEOREM PollInvariant == PollerSpec => []PollInv
  BY Init_PollInv, Next_PollInv, PTL DEF PollerSpec

\* The variables keep their types: an attempt counter never passes the limit at
\* which Fail parks the job.
THEOREM PollerTypeCorrect == PollerSpec => []PollerTypeOK
<1>1. PollInv => PollerTypeOK
  <2> SUFFICES ASSUME PollInv PROVE PollerTypeOK
    OBVIOUS
  <2>1. \A s \in Slots : calls[s].ids \subseteq Files /\ calls[s].answer \in [Files -> ShownRow]
    BY DEF PollInv, TypeInv, CallRecord
  <2> QED
    BY <2>1 DEF PollInv, TypeInv, PollerTypeOK
<1> QED
  BY <1>1, PollInvariant, PTL

\* However many polls overlap, fail or are answered after a later one, a row
\* that says READY shows its thumbnail: Deliver and Patch lose one only where
\* GetPreviewURL failed for a listing, or the file is gone.
THEOREM ReadyRowsHaveThumbnails == PollerSpec => []ReadyShowsThumbnail
<1>1. PollInv => ReadyShowsThumbnail
  BY DEF PollInv, ShownInv, ReadyFine, ReadyShowsThumbnail
<1> QED
  BY <1>1, PollInvariant, PTL

\* The poller stops at NONE, so it must be right: it stands beside a preview
\* only when the job completed between GetFilesByIDs and GetIndexQueueStatuses
\* of one answer, or the object was replaced, which RequeueStaleIndexQueue may
\* follow up with a preview that the poller does not ask for.
THEOREM NoneOnlyFromRace == PollerSpec => []NoneOnlyAfterRace
<1>1. PollInv => NoneOnlyAfterRace
  BY DEF PollInv, IndexInv, ShownInv, NoneFine, NoneOnlyAfterRace
<1> QED
  BY <1>1, PollInvariant, PTL
=============================================================================
