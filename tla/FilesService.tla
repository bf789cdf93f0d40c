---------------------------- MODULE FilesService ----------------------------
(***************************************************************************)
(* The files service's requests that change S3 and the files table:        *)
(* MoveFile with its advisory locks, DeleteFile, and an upload with its    *)
(* CommitUpload.  Requests run concurrently; each S3 call and each         *)
(* database statement is one step.                                         *)
(*                                                                         *)
(* Every statement takes a connection of the pool for the step, and a move *)
(* pins one from AcquireMoveLocks until it releases its locks.  A PoolSize *)
(* above the number of requests stands for replicas that never run out.    *)
(* The locks belong to the session of that connection: one whose unlock    *)
(* fails goes back to the pool with it.                                    *)
(***************************************************************************)
EXTENDS Naturals, FiniteSets

CONSTANTS
    Request,      \* concurrent requests
    NumKeys,      \* keys, numbered in byte order
    InitFiles,    \* files 1..InitFiles exist at first, file f under key f
    MaxFile,      \* bound: files.id values ever allocated
    MaxContent,   \* bound: distinct contents ever uploaded
    Hash,         \* hashtext(key)::int, by key
    PoolSize,     \* connections of the pool
    Ops,          \* which requests clients make: "move", "delete", "upload"
    SameFile,     \* whether two moves of one file may be under way at once
    MaxFaults,    \* bound: failed calls, lost commits, crashed requests
    Disturbances  \* "lostCommit" where a commit may be reported as failed,
                  \* "unlock" where an unlock may fail

Key == 1 .. NumKeys
File == 1 .. MaxFile
Content == 1 .. MaxContent
None == 0
Pooled == 1

ASSUME FilesAssumption ==
    /\ NumKeys \in Nat /\ InitFiles \in Nat /\ MaxFile \in Nat /\ MaxContent \in Nat
    /\ InitFiles <= NumKeys /\ InitFiles <= MaxFile /\ InitFiles <= MaxContent
    /\ Hash \in [Key -> Nat]
    /\ PoolSize \in Nat \ {0}
    /\ Ops \subseteq {"move", "delete", "upload"}
    /\ SameFile \in BOOLEAN
    /\ MaxFaults \in Nat
    /\ Disturbances \subseteq {"lostCommit", "unlock"}
    /\ None \notin Request /\ Pooled \notin Request

VARIABLES
    obj,      \* S3: the content under each key, None where there is no object
    row,      \* files.key by id, None without a row
    lastFile, \* the files.id sequence
    lastPut,  \* the latest content uploaded
    live,     \* committed contents that no client has asked to delete or overwrite
    owner,    \* advisory locks by hash: the request whose session holds it,
              \* Pooled where that of a connection in the pool does, or None
    leaked,   \* locks whose unlock failed in a session that goes on
    pinned,   \* requests that pin a connection
    pc,       \* where each request is
    fid,      \* the id it names
    src,      \* the key read before the locks
    dst,      \* the destination key
    cur,      \* the key re-read under the locks
    faults    \* faults so far

s3     == <<obj, lastPut, live>>
tables == <<row, lastFile>>
locks  == <<owner, leaked, pinned>>
request == <<pc, fid, src, dst, cur>>
vars   == <<s3, tables, locks, request, faults>>

LockIds == {Hash[k] : k \in Key}
RowAt(k) == {f \in File : row[f] = k}

Moving == {"check", "acquire", "lock1", "lock2", "reread", "recheck", "copy",
           "update", "rollback", "deleteOld"}
Deleting == {"deleteObject", "deleteRow"}
Committing == {"stat", "upsert"}

\* The part of MoveFile under both locks.
Critical == {"reread", "recheck", "copy", "update", "rollback", "deleteOld"}

S3TypeOK ==
    /\ obj \in [Key -> Content \cup {None}]
    /\ lastPut \in 0 .. MaxContent
    /\ live \subseteq Content

TablesTypeOK ==
    /\ row \in [File -> Key \cup {None}]
    /\ lastFile \in 0 .. MaxFile

LocksTypeOK ==
    /\ owner \in [LockIds -> Request \cup {None, Pooled}]
    /\ leaked \subseteq LockIds
    /\ pinned \subseteq Request

RequestTypeOK ==
    /\ pc \in [Request -> {"idle"} \cup Moving \cup Deleting \cup Committing]
    /\ fid \in [Request -> File \cup {None}]
    /\ src \in [Request -> Key \cup {None}]
    /\ dst \in [Request -> Key \cup {None}]
    /\ cur \in [Request -> Key \cup {None}]
    /\ \A r \in Request :
        /\ pc[r] \in Moving \cup Deleting => fid[r] \in File /\ src[r] \in Key
        /\ pc[r] \in Moving => dst[r] \in Key \ {src[r]}
        /\ pc[r] \in Committing => dst[r] \in Key
        /\ pc[r] \in Critical \ {"reread"} => cur[r] \in Key

TypeOK ==
    /\ S3TypeOK
    /\ TablesTypeOK
    /\ LocksTypeOK
    /\ RequestTypeOK
    /\ faults \in 0 .. MaxFaults

\* InitFiles files have been uploaded and committed; no request is under way.
Init ==
    /\ obj = [k \in Key |-> IF k <= InitFiles THEN k ELSE None]
    /\ row = [f \in File |-> IF f <= InitFiles THEN f ELSE None]
    /\ lastFile = InitFiles
    /\ lastPut = InitFiles
    /\ live = 1 .. InitFiles
    /\ owner = [h \in LockIds |-> None]
    /\ leaked = {} /\ pinned = {}
    /\ pc = [r \in Request |-> "idle"]
    /\ fid = [r \in Request |-> None]
    /\ src = [r \in Request |-> None]
    /\ dst = [r \in Request |-> None]
    /\ cur = [r \in Request |-> None]
    /\ faults = 0

\* A statement can run: the pool has a connection that nobody pins.
Connection == Cardinality(pinned) < PoolSize

Goto(r, label) == pc' = [pc EXCEPT ![r] = label]

\* The request is over; its fields are forgotten.
Return(r) ==
    /\ pc' = [pc EXCEPT ![r] = "idle"]
    /\ fid' = [fid EXCEPT ![r] = None]
    /\ src' = [src EXCEPT ![r] = None]
    /\ dst' = [dst EXCEPT ![r] = None]
    /\ cur' = [cur EXCEPT ![r] = None]

HeldBy(r) == {h \in LockIds : owner[h] = r}

\* Which unlocks of a release fail in a session that survives it; in one that
\* does not, Postgres drops the locks.
UnlockErrors(r) == IF "unlock" \in Disturbances THEN SUBSET HeldBy(r) ELSE {{}}

\* release: unlock, ignoring errors, give the connection back, and return.  A
\* lock that was not unlocked, now or earlier, stays with the connection.
ReleaseLocks(r) ==
    \E L \in UnlockErrors(r) :
        /\ leaked' = leaked \cup L
        /\ owner' = [h \in LockIds |-> IF owner[h] # r THEN owner[h]
                                       ELSE IF h \in leaked' THEN Pooled ELSE None]

\* The connection goes back to the pool with its session locks.
Release_KeepsLocks(r) ==
    /\ pinned' = pinned \ {r}
    /\ Return(r)
    /\ UNCHANGED <<owner, leaked>>
\* The locks are released, the connection is not.
Release_KeepsConnection(r) ==
    /\ ReleaseLocks(r)
    /\ Return(r)
    /\ UNCHANGED pinned
Release(r) ==
    /\ ReleaseLocks(r)
    /\ pinned' = pinned \ {r}
    /\ Return(r)

-----------------------------------------------------------------------------
(* MoveFile *)

\* Another move of f is under way.
Busy(f) == \E q \in Request : pc[q] \in Moving /\ fid[q] = f

\* The file exists and k is another key than its own.
MovesTo(f, k) == row[f] # None /\ k # row[f]

\* MoveFile(f, k) reads the row.  A missing row, or a destination equal to
\* the current key, ends the request at once.
MoveGetFile(r, f, k) ==
    /\ "move" \in Ops
    /\ pc[r] = "idle"
    /\ SameFile \/ ~Busy(f)
    /\ Connection
    /\ MovesTo(f, k)
    /\ fid' = [fid EXCEPT ![r] = f]
    /\ src' = [src EXCEPT ![r] = row[f]]
    /\ dst' = [dst EXCEPT ![r] = k]
    /\ Goto(r, "check")
    /\ UNCHANGED <<s3, tables, locks, cur, faults>>

\* The check before the locks: an occupied destination is refused.
MoveCheck(r) ==
    /\ pc[r] = "check"
    /\ Connection
    /\ IF RowAt(dst[r]) # {} THEN Return(r)
       ELSE Goto(r, "acquire") /\ UNCHANGED <<fid, src, dst, cur>>
    /\ UNCHANGED <<s3, tables, locks, faults>>

\* AcquireMoveLocks pins a connection of the pool, with whatever locks its
\* session still holds (connections are not told apart).
MoveAcquire(r) ==
    /\ pc[r] = "acquire"
    /\ Connection
    /\ pinned' = pinned \cup {r}
    /\ \E L \in SUBSET HeldBy(Pooled) :
          owner' = [h \in LockIds |-> IF h \in L THEN r ELSE owner[h]]
    /\ Goto(r, "lock1")
    /\ UNCHANGED <<s3, tables, leaked, fid, src, dst, cur, faults>>

\* Only the source is locked.
LockKey_SourceOnly(r) == src[r]
\* The locks are taken in the order source, destination.
LockKey_Unsorted(r) == IF pc[r] = "lock1" THEN src[r] ELSE dst[r]
\* The locks are taken in byte order of the keys.
LockKey(r) ==
    IF (pc[r] = "lock1") = (src[r] < dst[r]) THEN src[r] ELSE dst[r]

\* The session lock on a key's hash is granted when it is free, or held by
\* this very session.
MoveLock(r) ==
    /\ pc[r] \in {"lock1", "lock2"}
    /\ owner[Hash[LockKey(r)]] \in {None, r}
    /\ owner' = [owner EXCEPT ![Hash[LockKey(r)]] = r]
    /\ Goto(r, IF pc[r] = "lock1" THEN "lock2" ELSE "reread")
    /\ UNCHANGED <<s3, tables, leaked, pinned, fid, src, dst, cur, faults>>

\* r waits for a lock that q holds.
WaitsFor(r, q) ==
    /\ pc[r] \in {"lock1", "lock2"}
    /\ q # r
    /\ owner[Hash[LockKey(r)]] = q

\* Requests that wait for one another in a circle.
Deadlocked(S) == S # {} /\ \A r \in S : \E q \in S : WaitsFor(r, q)

\* Postgres breaks a lock cycle by failing one of the waiting statements.
MoveDeadlockAbort(r) ==
    /\ \E S \in SUBSET Request : r \in S /\ Deadlocked(S)
    /\ Release(r)
    /\ UNCHANGED <<s3, tables, faults>>

\* The row is read again under the locks.
MoveReread(r) ==
    /\ pc[r] = "reread"
    /\ Connection
    /\ IF row[fid[r]] = None THEN Release(r)
       ELSE /\ cur' = [cur EXCEPT ![r] = row[fid[r]]]
            /\ Goto(r, "recheck")
            /\ UNCHANGED <<fid, src, dst, locks>>
    /\ UNCHANGED <<s3, tables, faults>>

Occupied_Skipped(k) == FALSE
Occupied(k) == RowAt(k) # {}

\* The destination is checked again under the locks.
MoveRecheck(r) ==
    /\ pc[r] = "recheck"
    /\ Connection
    /\ IF Occupied(dst[r]) THEN Release(r)
       ELSE Goto(r, "copy") /\ UNCHANGED <<fid, src, dst, cur, locks>>
    /\ UNCHANGED <<s3, tables, faults>>

\* S3 Copy; a missing source ends the move.
MoveCopy(r) ==
    /\ pc[r] = "copy"
    /\ IF obj[cur[r]] = None THEN Release(r) /\ UNCHANGED obj
       ELSE /\ obj' = [obj EXCEPT ![dst[r]] = obj[cur[r]]]
            /\ Goto(r, "update")
            /\ UNCHANGED <<fid, src, dst, cur, locks>>
    /\ UNCHANGED <<lastPut, live, tables, faults>>

\* MoveFileWithDirectories: the row's key is changed.  An occupied key is a
\* unique violation and ends the move; a deleted row rolls the copy back.
MoveUpdate(r) ==
    /\ pc[r] = "update"
    /\ Connection
    /\ \/ /\ row[fid[r]] = None
          /\ Goto(r, "rollback")
          /\ UNCHANGED <<row, fid, src, dst, cur, locks>>
       \/ /\ row[fid[r]] # None
          /\ RowAt(dst[r]) \ {fid[r]} # {}
          /\ Release(r)
          /\ UNCHANGED row
       \/ /\ row[fid[r]] # None
          /\ RowAt(dst[r]) \ {fid[r]} = {}
          /\ row' = [row EXCEPT ![fid[r]] = dst[r]]
          /\ Goto(r, "deleteOld")
          /\ UNCHANGED <<fid, src, dst, cur, locks>>
    /\ UNCHANGED <<s3, lastFile, faults>>

\* The key read before the locks were taken is deleted.
OldKey_BeforeLocks(r) == src[r]
OldKey(r) == cur[r]

\* The old object is deleted, still under the locks.  The row that MoveFile
\* reads for its answer comes after, and changes nothing.
MoveDeleteOld(r) ==
    /\ pc[r] = "deleteOld"
    /\ obj' = [obj EXCEPT ![OldKey(r)] = None]
    /\ Release(r)
    /\ UNCHANGED <<lastPut, live, tables, faults>>

\* The copy is removed after a failed update.
MoveRollback(r) ==
    /\ pc[r] = "rollback"
    /\ obj' = [obj EXCEPT ![dst[r]] = None]
    /\ Release(r)
    /\ UNCHANGED <<lastPut, live, tables, faults>>

-----------------------------------------------------------------------------
(* DeleteFile *)

\* DeleteFile(f) reads the row; its content is what the client gives up.
DeleteGetFile(r, f) ==
    /\ "delete" \in Ops
    /\ pc[r] = "idle"
    /\ Connection
    /\ row[f] # None
    /\ fid' = [fid EXCEPT ![r] = f]
    /\ src' = [src EXCEPT ![r] = row[f]]
    /\ live' = live \ {obj[row[f]]}
    /\ Goto(r, "deleteObject")
    /\ UNCHANGED <<obj, lastPut, tables, locks, dst, cur, faults>>

\* The object is deleted under the key just read, best effort its preview.
DeleteObject(r) ==
    /\ pc[r] = "deleteObject"
    /\ obj' = [obj EXCEPT ![src[r]] = None]
    /\ Goto(r, "deleteRow")
    /\ UNCHANGED <<lastPut, live, tables, locks, fid, src, dst, cur, faults>>

\* DeleteFileWithDirectories deletes the row, by id, if it is still there.
DeleteRow(r) ==
    /\ pc[r] = "deleteRow"
    /\ Connection
    /\ row' = [row EXCEPT ![fid[r]] = None]
    /\ Return(r)
    /\ UNCHANGED <<s3, lastFile, locks, faults>>

-----------------------------------------------------------------------------
(* Uploads *)

\* A client PUTs new bytes to a presigned URL; what was there is given up.
PutObject(r, k) ==
    /\ "upload" \in Ops
    /\ pc[r] = "idle"
    /\ lastPut < MaxContent
    /\ lastPut' = lastPut + 1
    /\ obj' = [obj EXCEPT ![k] = lastPut + 1]
    /\ live' = live \ {obj[k]}
    /\ dst' = [dst EXCEPT ![r] = k]
    /\ Goto(r, "stat")
    /\ UNCHANGED <<tables, locks, fid, src, cur, faults>>

\* CommitUpload stats the key and refuses when nothing is there.
CommitStat(r) ==
    /\ pc[r] = "stat"
    /\ IF obj[dst[r]] = None THEN Return(r)
       ELSE Goto(r, "upsert") /\ UNCHANGED <<fid, src, dst, cur>>
    /\ UNCHANGED <<s3, tables, locks, faults>>

\* CommitUpload upserts the row of the key; its bytes are committed.
CommitUpsert(r) ==
    /\ pc[r] = "upsert"
    /\ Connection
    /\ \/ RowAt(dst[r]) # {} /\ UNCHANGED tables
       \/ /\ RowAt(dst[r]) = {}
          /\ lastFile < MaxFile
          /\ lastFile' = lastFile + 1
          /\ row' = [row EXCEPT ![lastFile + 1] = dst[r]]
    /\ live' = live \cup ({obj[dst[r]]} \ {None})
    /\ Return(r)
    /\ UNCHANGED <<obj, lastPut, locks, faults>>

-----------------------------------------------------------------------------
(* Failures *)

\* A call fails without effect, and the handler returns its error: any
\* statement or S3 call, and the waits that a cancelled client gives up.  A
\* failed update rolls the copy back, a failed deletion of the old object
\* leaves it behind.
CallFails(r) ==
    /\ pc[r] # "idle"
    /\ faults < MaxFaults
    /\ faults' = faults + 1
    /\ IF pc[r] = "update"
       THEN Goto(r, "rollback") /\ UNCHANGED <<locks, fid, src, dst, cur>>
       ELSE Release(r)
    /\ UNCHANGED <<s3, tables>>

\* The replica dies: its session closes and Postgres drops the locks.
Crash(r) ==
    /\ pc[r] # "idle"
    /\ faults < MaxFaults
    /\ faults' = faults + 1
    /\ owner' = [h \in LockIds |-> IF owner[h] = r THEN None ELSE owner[h]]
    /\ leaked' = leaked \ HeldBy(r)
    /\ pinned' = pinned \ {r}
    /\ Return(r)
    /\ UNCHANGED <<s3, tables>>

\* The pool closes a connection (pgxpool does at the end of its lifetime), and
\* the locks of its session go with it.
SessionEnds(h) ==
    /\ owner[h] = Pooled
    /\ owner' = [owner EXCEPT ![h] = None]
    /\ leaked' = leaked \ {h}
    /\ UNCHANGED <<s3, tables, pinned, request, faults>>

\* The copy happens, but the handler sees an error.
CopyReplyLost(r) ==
    /\ pc[r] = "copy"
    /\ faults < MaxFaults
    /\ faults' = faults + 1
    /\ obj[cur[r]] # None
    /\ obj' = [obj EXCEPT ![dst[r]] = obj[cur[r]]]
    /\ Release(r)
    /\ UNCHANGED <<lastPut, live, tables>>

\* The update commits, but the handler sees an error and rolls the copy back.
UpdateReplyLost(r) ==
    /\ "lostCommit" \in Disturbances
    /\ pc[r] = "update"
    /\ Connection
    /\ faults < MaxFaults
    /\ faults' = faults + 1
    /\ row[fid[r]] # None
    /\ RowAt(dst[r]) \ {fid[r]} = {}
    /\ row' = [row EXCEPT ![fid[r]] = dst[r]]
    /\ Goto(r, "rollback")
    /\ UNCHANGED <<s3, lastFile, locks, fid, src, dst, cur>>

-----------------------------------------------------------------------------

MoveStep(r) ==
    \/ MoveCheck(r)
    \/ MoveAcquire(r)
    \/ MoveLock(r)
    \/ MoveDeadlockAbort(r)
    \/ MoveReread(r)
    \/ MoveRecheck(r)
    \/ MoveCopy(r)
    \/ MoveUpdate(r)
    \/ MoveDeleteOld(r)
    \/ MoveRollback(r)

\* A step of a request that is under way.
Step(r) ==
    \/ MoveStep(r)
    \/ DeleteObject(r) \/ DeleteRow(r)
    \/ CommitStat(r) \/ CommitUpsert(r)

NewRequest(r) ==
    \/ \E f \in File, k \in Key : MoveGetFile(r, f, k)
    \/ \E f \in File : DeleteGetFile(r, f)
    \/ \E k \in Key : PutObject(r, k)

Fault(r) == CallFails(r) \/ Crash(r) \/ CopyReplyLost(r) \/ UpdateReplyLost(r)

Next ==
    \/ \E r \in Request : NewRequest(r) \/ Step(r) \/ Fault(r)
    \/ \E h \in LockIds : SessionEnds(h)

Spec == Init /\ [][Next]_vars

\* A request that can go on does: calls return.  A lock waiter is served when
\* the lock keeps becoming free, as Postgres queues waiters in arrival order.
\* Clients need not send another request.
Fairness == \A r \in Request : WF_vars(Step(r)) /\ SF_vars(MoveLock(r))

FairSpec == Spec /\ Fairness

-----------------------------------------------------------------------------
(* Properties *)

\* "no lost data when changing a file": committed bytes that no client has
\* asked to delete or overwrite are still stored under some key.
NoLostData == \A c \in live : \E k \in Key : obj[k] = c

\* A file's row always leads to its bytes, also in the middle of a move: the
\* copy is there before the row changes, and the old object goes last.
RowLeadsToBytes ==
    \A f \in File : f \in live /\ row[f] # None => obj[row[f]] = f

\* Two moves are never both under the locks of a key they share.
MovesExclude ==
    \A q, r \in Request :
        q # r /\ pc[q] \in Critical /\ pc[r] \in Critical
            => {src[q], dst[q]} \cap {src[r], dst[r]} = {}

\* "M(A->B) and M(B->A) serialize instead of deadlocking": moves that lock
\* their two keys in byte order never wait for one another in a circle.
NoLockCycle == \A S \in SUBSET Request : ~Deadlocked(S)

\* The statements of the handlers.
Statements == {"check", "acquire", "reread", "recheck", "update", "deleteRow", "upsert"}

\* A request that waits for a lock, or for a connection.
Stuck(r) ==
    \/ pc[r] \in {"lock1", "lock2"} /\ owner[Hash[LockKey(r)]] \notin {None, r}
    \/ pc[r] \in Statements /\ ~Connection

\* Every request under way waits, and for no cycle of locks that Postgres
\* would break.
Wedged ==
    /\ \E r \in Request : pc[r] # "idle"
    /\ \A r \in Request : pc[r] # "idle" => Stuck(r)
    /\ \A S \in SUBSET Request : ~Deadlocked(S)

\* Lock waiters pin their connections, and the lock holder needs one more for
\* its statements.  That is the only way for all to wait: moves have pinned
\* the whole pool, one of them between its locks and its release; or else a
\* lock was left behind by a failed unlock.
WedgedOnlyByPool ==
    Wedged => \/ leaked # {}
              \/ /\ ~Connection
                 /\ \E r \in pinned : pc[r] \in Critical /\ Stuck(r)

\* "M(A->B) and M(B->A) serialize": while requests are under way some of them
\* can go on.
NotWedged == (\E r \in Request : pc[r] # "idle") => ENABLED (\E r \in Request : Step(r))

\* Every request is answered.
RequestsFinish == \A r \in Request : pc[r] # "idle" ~> pc[r] = "idle"

\* Locks and pinned connections belong to moves under way: whatever way a
\* request ends (done, refused, failed, cancelled or crashed), no connection is
\* left, and no lock unless its unlock failed and its session went on.
NothingLeaks ==
    /\ \A h \in LockIds : owner[h] # None => owner[h] \in pinned \/ (owner[h] = Pooled /\ h \in leaked)
    /\ \A r \in pinned : pc[r] \in Moving \ {"check", "acquire"}

\* "it unlocks the keys and returns the connection to the pool" (store.go:182):
\* the same without the exception.
ReleaseUnlocks == \A h \in LockIds : owner[h] # None => owner[h] \in pinned
=============================================================================
