----------------------------- MODULE IndexQueue -----------------------------
(***************************************************************************)
(* One index type's job queue: the index_queue table, the worker loop that *)
(* drains it (runner.Run over PGQueue), and what moves underneath it: the  *)
(* object store, the files table fed from listings, moves and deletions.   *)
(*                                                                         *)
(* Every SQL statement (or transaction) is one step, every S3 read is one  *)
(* step, and workers interleave at exactly those points.  Time is kept as  *)
(* the two comparisons the queries make: due[f] is                         *)
(* "next_attempt_at <= now()" and expired[f] is                            *)
(* "now() - claimed_at >= stale_timeout".                                  *)
(***************************************************************************)
EXTENDS Naturals, FiniteSets

CONSTANTS
    Worker,         \* indexer instances (pods) of this index type
    Key,            \* object keys
    MaxId,          \* bound: files.id values ever allocated
    MaxClock,       \* bound: S3 last-modified times ever handed out
    MaxFaults,      \* bound: crashes, lost replies and failed status writes
    BatchSize,      \* Config.BatchSize
    MaxAttempts,    \* Config.MaxAttempts
    StatusWriteTries,  \* statusWriteTries
    SkippedContents,   \* contents for which Process answers Skipped
    Disturbances       \* which of the disturbances below this instance has

\* "slow": a claim may outlive ClaimTTL while its holder is still working.
\* "lostAck": a status write may commit and still be reported as failed.
\* "move": files may be moved, also while a job for them is in flight.
DisturbanceKinds == {"slow", "lostAck", "move"}

NoKey == "none"     \* the key of a file without a row

ASSUME ConstantsAssumption ==
    /\ MaxId \in Nat \ {0}
    /\ MaxClock \in Nat
    /\ MaxFaults \in Nat
    /\ BatchSize \in Nat \ {0}
    /\ MaxAttempts \in Nat \ {0}
    /\ StatusWriteTries \in Nat \ {0}
    /\ Disturbances \subseteq DisturbanceKinds
    /\ NoKey \notin Key

VARIABLES
    obj,       \* S3: the object stored under each key
    clock,     \* the latest last-modified time handed out
    listing,   \* (key, mtime) pairs listed and not upserted yet
    stray,     \* history: files read under a key that they had left
    fkey,      \* files.key by id, NoKey where there is no row
    marked,    \* files.marked_at by id
    lastId,    \* the files.id sequence
    status,    \* index_queue.status by file id, "none" without a row
    attempts,  \* index_queue.attempts
    due,       \* next_attempt_at <= now()
    expired,   \* now() - claimed_at >= ClaimTTL
    mark,      \* index_queue.mark, Null until the first completion
    result,    \* the index's result row, NoObject without one
    pc,        \* where each worker is in Run
    batch,     \* claimed jobs the worker has not started
    full,      \* the last claim filled the batch
    job,       \* the job being processed
    read,      \* what Process read from S3 for it
    tries,     \* status-write tries used on it
    faults     \* faults so far

files  == <<fkey, marked, lastId>>
queue  == <<status, attempts, due, expired, mark, result>>
world  == <<obj, clock, listing, stray>>
worker == <<pc, batch, full, job, read, tries>>
vars   == <<world, files, queue, worker, faults>>

Id == 1 .. MaxId
Time == 1 .. MaxClock
Null == 0

\* An object's bytes are named by the time they were first uploaded; a copy
\* keeps the bytes and gets a later last-modified time.
Object == [content : Time, mtime : Time]
NoObject == [content |-> 0, mtime |-> 0]

\* attempts saturates one above MaxAttempts: the code only compares it with
\* MaxAttempts and doubles the backoff by it.
AttemptsCap == MaxAttempts + 1
Job == [file : Id, key : Key, attempts : 1 .. AttemptsCap]
NoJob == [file |-> 0, key |-> NoKey, attempts |-> 0]

Exists(f) == fkey[f] # NoKey
RowAt(k) == {f \in Id : fkey[f] = k}

Jobs(w) == batch[w] \cup (IF job[w] = NoJob THEN {} ELSE {job[w]})
HeldBy(w) == {j.file : j \in Jobs(w)}

WorldTypeOK ==
    /\ obj \in [Key -> Object \cup {NoObject}]
    /\ clock \in 0 .. MaxClock
    /\ listing \subseteq [key : Key, mtime : Time]
    /\ stray \subseteq Id

FilesTypeOK ==
    /\ fkey \in [Id -> Key \cup {NoKey}]
    /\ marked \in [Id -> 0 .. MaxClock]
    /\ lastId \in 0 .. MaxId

QueueTypeOK ==
    /\ status \in [Id -> {"none", "pending", "claimed", "done", "error"}]
    /\ attempts \in [Id -> 0 .. AttemptsCap]
    /\ due \in [Id -> BOOLEAN]
    /\ expired \in [Id -> BOOLEAN]
    /\ mark \in [Id -> 0 .. MaxClock]
    /\ result \in [Id -> Object \cup {NoObject}]

WorkerTypeOK ==
    /\ pc \in [Worker -> {"down", "seed", "requeue", "claim", "work",
                          "complete", "fail"}]
    /\ batch \in [Worker -> SUBSET Job]
    /\ full \in [Worker -> BOOLEAN]
    /\ job \in [Worker -> Job \cup {NoJob}]
    /\ read \in [Worker -> Object \cup {NoObject}]
    /\ tries \in [Worker -> 0 .. StatusWriteTries - 1]

TypeOK ==
    /\ WorldTypeOK
    /\ FilesTypeOK
    /\ QueueTypeOK
    /\ WorkerTypeOK
    /\ faults \in 0 .. MaxFaults

\* An empty bucket, migrated tables without rows, and no worker started.
Init ==
    /\ obj = [k \in Key |-> NoObject]
    /\ clock = 0
    /\ listing = {}
    /\ stray = {}
    /\ fkey = [f \in Id |-> NoKey]
    /\ marked = [f \in Id |-> 0]
    /\ lastId = 0
    /\ status = [f \in Id |-> "none"]
    /\ attempts = [f \in Id |-> 0]
    /\ due = [f \in Id |-> FALSE]
    /\ expired = [f \in Id |-> FALSE]
    /\ mark = [f \in Id |-> Null]
    /\ result = [f \in Id |-> NoObject]
    /\ pc = [w \in Worker |-> "down"]
    /\ batch = [w \in Worker |-> {}]
    /\ full = [w \in Worker |-> FALSE]
    /\ job = [w \in Worker |-> NoJob]
    /\ read = [w \in Worker |-> NoObject]
    /\ tries = [w \in Worker |-> 0]
    /\ faults = 0

-----------------------------------------------------------------------------
(* The object store and the files table *)

\* A client uploads or overwrites the object at k.
PutObject(k) ==
    /\ clock < MaxClock
    /\ clock' = clock + 1
    /\ obj' = [obj EXCEPT ![k] = [content |-> clock + 1, mtime |-> clock + 1]]
    /\ UNCHANGED <<listing, stray, files, queue, worker, faults>>

\* The object at k goes away: DeleteFile's S3 call, or an out-of-band delete.
RemoveObject(k) ==
    /\ obj[k] # NoObject
    /\ obj' = [obj EXCEPT ![k] = NoObject]
    /\ UNCHANGED <<clock, listing, stray, files, queue, worker, faults>>

\* The crawler's Walk reports k, or CommitUpload stats it; the upsert of the
\* pair is a later step, after the batch has filled up.
ListObject(k) ==
    /\ obj[k] # NoObject
    /\ [key |-> k, mtime |-> obj[k].mtime] \notin listing
    /\ listing' = listing \cup {[key |-> k, mtime |-> obj[k].mtime]}
    /\ UNCHANGED <<obj, clock, stray, files, queue, worker, faults>>

Greatest(a, b) == IF a >= b THEN a ELSE b

\* marked_at = EXCLUDED.marked_at instead of GREATEST(...).
Remark_Overwrite(f, m) == m
Remark(f, m) == Greatest(marked[f], m)

\* UpsertFiles: insert a row under a fresh id, or raise marked_at.
UpsertFile(e) ==
    /\ e \in listing
    /\ listing' = listing \ {e}
    /\ \/ /\ RowAt(e.key) # {}
          /\ marked' = [f \in Id |-> IF fkey[f] = e.key
                                     THEN Remark(f, e.mtime) ELSE marked[f]]
          /\ UNCHANGED <<fkey, lastId>>
       \/ /\ RowAt(e.key) = {}
          /\ lastId < MaxId
          /\ lastId' = lastId + 1
          /\ fkey' = [fkey EXCEPT ![lastId + 1] = e.key]
          /\ marked' = [marked EXCEPT ![lastId + 1] = e.mtime]
    /\ UNCHANGED <<obj, clock, stray, queue, worker, faults>>

\* The row is deleted, by DeleteFile after its object or by the crawler's
\* sweep, whatever is under its key by then; index_queue and the result row
\* follow by ON DELETE CASCADE.
DeleteRow(f) ==
    /\ Exists(f)
    /\ fkey' = [fkey EXCEPT ![f] = NoKey]
    /\ marked' = [marked EXCEPT ![f] = 0]
    /\ status' = [status EXCEPT ![f] = "none"]
    /\ attempts' = [attempts EXCEPT ![f] = 0]
    /\ due' = [due EXCEPT ![f] = FALSE]
    /\ expired' = [expired EXCEPT ![f] = FALSE]
    /\ mark' = [mark EXCEPT ![f] = Null]
    /\ result' = [result EXCEPT ![f] = NoObject]
    /\ UNCHANGED <<world, lastId, worker, faults>>

\* MoveFile as the indexers see it: the object is copied under the new key
\* with a new last-modified time, the row's key follows, marked_at does not,
\* and the old object is deleted.
MoveFile(f, k) ==
    /\ "move" \in Disturbances
    /\ Exists(f)
    /\ k # fkey[f]
    /\ RowAt(k) = {}
    /\ obj[fkey[f]] # NoObject
    /\ clock < MaxClock
    /\ clock' = clock + 1
    /\ obj' = [obj EXCEPT ![k] = [content |-> obj[fkey[f]].content,
                                  mtime |-> clock + 1],
                          ![fkey[f]] = NoObject]
    /\ fkey' = [fkey EXCEPT ![f] = k]
    /\ UNCHANGED <<listing, stray, marked, lastId, queue, worker, faults>>

-----------------------------------------------------------------------------
(* The worker loop *)

\* A pod starts: Run begins with the initial seed.
Start(w) ==
    /\ pc[w] = "down"
    /\ pc' = [pc EXCEPT ![w] = "seed"]
    /\ UNCHANGED <<world, files, queue, batch, full, job, read, tries, faults>>

\* The process dies, or stops at a shutdown; what it had claimed stays
\* claimed.
Crash(w) ==
    /\ pc[w] # "down"
    /\ faults < MaxFaults
    /\ faults' = faults + 1
    /\ pc' = [pc EXCEPT ![w] = "down"]
    /\ batch' = [batch EXCEPT ![w] = {}]
    /\ full' = [full EXCEPT ![w] = FALSE]
    /\ job' = [job EXCEPT ![w] = NoJob]
    /\ read' = [read EXCEPT ![w] = NoObject]
    /\ tries' = [tries EXCEPT ![w] = 0]
    /\ UNCHANGED <<world, files, queue>>

\* SeedIndexQueue enqueues every file without a queue row.
SeedIndexQueue(w) ==
    /\ pc[w] = "seed"
    /\ LET new == {f \in Id : Exists(f) /\ status[f] = "none"} IN
       /\ status' = [f \in Id |-> IF f \in new THEN "pending" ELSE status[f]]
       /\ due' = [f \in Id |-> IF f \in new THEN TRUE ELSE due[f]]
    /\ pc' = [pc EXCEPT ![w] = "requeue"]
    /\ UNCHANGED <<world, files, attempts, expired, mark, result,
                   batch, full, job, read, tries, faults>>

\* The comparison leaves out the done rows.
Stale_MissesDone(f) ==
    /\ status[f] = "pending"
    /\ mark[f] # Null
    /\ mark[f] < marked[f]
Stale(f) ==
    /\ status[f] \in {"done", "pending"}
    /\ mark[f] # Null
    /\ mark[f] < marked[f]

\* RequeueStaleIndexQueue resets every row whose mark is older than the file's.
RequeueStaleIndexQueue(w) ==
    /\ pc[w] = "requeue"
    /\ status' = [f \in Id |-> IF Stale(f) THEN "pending" ELSE status[f]]
    /\ attempts' = [f \in Id |-> IF Stale(f) THEN 0 ELSE attempts[f]]
    /\ due' = [f \in Id |-> IF Stale(f) THEN TRUE ELSE due[f]]
    /\ mark' = [f \in Id |-> IF Stale(f) THEN Null ELSE mark[f]]
    /\ pc' = [pc EXCEPT ![w] = "claim"]
    /\ UNCHANGED <<world, files, expired, result,
                   batch, full, job, read, tries, faults>>

\* A seed or claim statement fails: it is logged and the loop goes on as if
\* nothing had been found.
QueueError(w) ==
    /\ pc[w] \in {"seed", "requeue", "claim"}
    /\ faults < MaxFaults
    /\ faults' = faults + 1
    /\ pc' = [pc EXCEPT ![w] = IF pc[w] = "claim" THEN "seed" ELSE "claim"]
    /\ full' = [full EXCEPT ![w] = FALSE]
    /\ UNCHANGED <<world, files, queue, batch, job, read, tries>>

\* Without the claim TTL only pending rows are claimed.
Claimable_NoTTL(f) == status[f] = "pending" /\ due[f]
\* With the TTL comparison dropped every claimed row is up for grabs.
Claimable_AnyClaimed(f) ==
    \/ status[f] = "pending" /\ due[f]
    \/ status[f] = "claimed"
Claimable(f) ==
    \/ status[f] = "pending" /\ due[f]
    \/ status[f] = "claimed" /\ expired[f]

NextAttempt(n) == IF n < AttemptsCap THEN n + 1 ELSE n

\* What ClaimIndexQueue does to the queue rows of the files in S.
MarkClaimed(S) ==
    /\ status' = [f \in Id |-> IF f \in S THEN "claimed" ELSE status[f]]
    /\ attempts' = [f \in Id |-> IF f \in S THEN NextAttempt(attempts[f])
                                            ELSE attempts[f]]
    /\ expired' = [f \in Id |-> IF f \in S THEN FALSE ELSE expired[f]]

\* ClaimIndexQueue: one atomic statement claims a batch and returns it with
\* the files' current keys.
Claim(w) ==
    /\ pc[w] = "claim"
    /\ \E S \in SUBSET {f \in Id : Claimable(f)} :
          /\ Cardinality(S) <= BatchSize
          /\ Cardinality(S) = BatchSize \/ S = {f \in Id : Claimable(f)}
          /\ MarkClaimed(S)
          /\ batch' = [batch EXCEPT ![w] =
                 {[file |-> f, key |-> fkey[f],
                   attempts |-> NextAttempt(attempts[f])] : f \in S}]
          /\ full' = [full EXCEPT ![w] = Cardinality(S) = BatchSize]
    /\ pc' = [pc EXCEPT ![w] = "work"]
    /\ UNCHANGED <<world, files, due, mark, result, job, read, tries, faults>>

\* The claim commits but its reply is lost: the rows are claimed for nobody.
ClaimReplyLost(w) ==
    /\ pc[w] = "claim"
    /\ faults < MaxFaults
    /\ faults' = faults + 1
    /\ \E S \in SUBSET {f \in Id : Claimable(f)} :
          /\ S # {}
          /\ Cardinality(S) <= BatchSize
          /\ MarkClaimed(S)
    /\ full' = [full EXCEPT ![w] = FALSE]
    /\ pc' = [pc EXCEPT ![w] = "seed"]
    /\ UNCHANGED <<world, files, due, mark, result, batch, job, read, tries>>

\* The next job of the batch is taken up, and the object under the key it was
\* claimed with is read.
ProcessOk(w) ==
    /\ pc[w] = "work"
    /\ \E j \in batch[w] :
          /\ obj[j.key] # NoObject
          /\ job' = [job EXCEPT ![w] = j]
          /\ batch' = [batch EXCEPT ![w] = @ \ {j}]
          /\ read' = [read EXCEPT ![w] = obj[j.key]]
          /\ stray' = IF fkey[j.file] = j.key THEN stray ELSE stray \cup {j.file}
    /\ tries' = [tries EXCEPT ![w] = 0]
    /\ pc' = [pc EXCEPT ![w] = "complete"]
    /\ UNCHANGED <<obj, clock, listing, files, queue, full, faults>>

\* Process fails: the object is gone, or S3 or the decoder errs.
ProcessError(w) ==
    /\ pc[w] = "work"
    /\ \E j \in batch[w] :
          /\ job' = [job EXCEPT ![w] = j]
          /\ batch' = [batch EXCEPT ![w] = @ \ {j}]
    /\ tries' = [tries EXCEPT ![w] = 0]
    /\ pc' = [pc EXCEPT ![w] = "fail"]
    /\ UNCHANGED <<world, files, queue, full, read, faults>>

\* The batch is worked off: a full one means claim again, else seed.
BatchDone(w) ==
    /\ pc[w] = "work"
    /\ batch[w] = {}
    /\ pc' = [pc EXCEPT ![w] = IF full[w] THEN "claim" ELSE "seed"]
    /\ UNCHANGED <<world, files, queue, batch, full, job, read, tries, faults>>

\* A status write returned: the worker goes on with its batch.
JobOver(w) ==
    /\ pc' = [pc EXCEPT ![w] = "work"]
    /\ job' = [job EXCEPT ![w] = NoJob]
    /\ read' = [read EXCEPT ![w] = NoObject]
    /\ tries' = [tries EXCEPT ![w] = 0]

\* One try more than statusWriteTries.
WriteFailed_OneTryMore(w) ==
    IF tries[w] < StatusWriteTries
    THEN /\ tries' = [tries EXCEPT ![w] = @ + 1]
         /\ UNCHANGED <<pc, job, read>>
    ELSE JobOver(w)

\* A status write reported an error: the same write is tried again, and
\* given up after the last try.
WriteFailed(w) ==
    IF tries[w] + 1 < StatusWriteTries
    THEN /\ tries' = [tries EXCEPT ![w] = @ + 1]
         /\ UNCHANGED <<pc, job, read>>
    ELSE JobOver(w)

Skipped(o) == o.content \in SkippedContents

CompletionMark(f) == marked[f]

\* The status flip commits without the result write.
StoreResult_Lost(f, o) == result' = result
\* StoreFunc: a Skipped result writes nothing, any other replaces the row.
StoreResult(f, o) ==
    result' = IF Skipped(o) THEN result ELSE [result EXCEPT ![f] = o]

\* Complete's transaction: CompleteIndexQueue and the result write, for
\* whoever asks.  A vanished file makes the update match nothing.
CompleteTx(f, o) ==
    /\ status' = [status EXCEPT ![f] = "done"]
    /\ mark' = [mark EXCEPT ![f] = CompletionMark(f)]
    /\ StoreResult(f, o)
    /\ UNCHANGED <<attempts, due, expired>>

\* PGQueue.Complete succeeds.  For a deleted file a Skipped result commits
\* nothing and any other violates the foreign key.
CompleteIndexQueue(w) ==
    /\ pc[w] = "complete"
    /\ \/ /\ Exists(job[w].file)
          /\ CompleteTx(job[w].file, read[w])
          /\ JobOver(w)
       \/ /\ ~Exists(job[w].file)
          /\ IF Skipped(read[w]) THEN JobOver(w) ELSE WriteFailed(w)
          /\ UNCHANGED queue
    /\ UNCHANGED <<world, files, batch, full, faults>>

\* One attempt less than configured.
Exhausted_Early(j) == j.attempts + 1 >= MaxAttempts
\* Retries are never exhausted.
Exhausted_Never(j) == FALSE
Exhausted(j) == j.attempts >= MaxAttempts

\* FailIndexQueue: park the row or put it back with a delay, for whoever asks.
FailTx(j) ==
    /\ status' = [status EXCEPT ![j.file] =
                     IF Exhausted(j) THEN "error" ELSE "pending"]
    /\ due' = [due EXCEPT ![j.file] = FALSE]
    /\ UNCHANGED <<attempts, expired, mark, result>>

\* Fail records a failed attempt; on a deleted file it matches no row.
FailIndexQueue(w) ==
    /\ pc[w] = "fail"
    /\ IF Exists(job[w].file) THEN FailTx(job[w]) ELSE UNCHANGED queue
    /\ JobOver(w)
    /\ UNCHANGED <<world, files, batch, full, faults>>

\* A status write fails without effect.
StatusWriteError(w) ==
    /\ pc[w] \in {"complete", "fail"}
    /\ faults < MaxFaults
    /\ faults' = faults + 1
    /\ WriteFailed(w)
    /\ UNCHANGED <<world, files, queue, batch, full>>

\* A status write commits, but the worker is told that it failed.
StatusWriteAckLost(w) ==
    /\ "lostAck" \in Disturbances
    /\ pc[w] \in {"complete", "fail"}
    /\ Exists(job[w].file)
    /\ faults < MaxFaults
    /\ faults' = faults + 1
    /\ \/ pc[w] = "complete" /\ CompleteTx(job[w].file, read[w])
       \/ pc[w] = "fail" /\ FailTx(job[w])
    /\ WriteFailed(w)
    /\ UNCHANGED <<world, files, batch, full>>

-----------------------------------------------------------------------------
(* Time *)

\* A failed job's next_attempt_at is reached.
BackoffElapses(f) ==
    /\ status[f] = "pending"
    /\ ~due[f]
    /\ due' = [due EXCEPT ![f] = TRUE]
    /\ UNCHANGED <<world, files, status, attempts, expired, mark, result,
                   worker, faults>>

Held(f) == \E w \in Worker : f \in HeldBy(w)

\* A claim reaches the age ClaimTTL.  Unless the instance has slow workers,
\* that takes longer than any live holder needs for its batch.
ClaimExpires(f) ==
    /\ status[f] = "claimed"
    /\ ~expired[f]
    /\ "slow" \in Disturbances \/ ~Held(f)
    /\ expired' = [expired EXCEPT ![f] = TRUE]
    /\ UNCHANGED <<world, files, status, attempts, due, mark, result,
                   worker, faults>>

-----------------------------------------------------------------------------

WorkerStep(w) ==
    \/ SeedIndexQueue(w)
    \/ RequeueStaleIndexQueue(w)
    \/ Claim(w)
    \/ ProcessOk(w)
    \/ ProcessError(w)
    \/ BatchDone(w)
    \/ CompleteIndexQueue(w)
    \/ FailIndexQueue(w)

WorkerFault(w) ==
    \/ Crash(w)
    \/ QueueError(w)
    \/ ClaimReplyLost(w)
    \/ StatusWriteError(w)
    \/ StatusWriteAckLost(w)

World ==
    \/ \E k \in Key : PutObject(k)
    \/ \E k \in Key : RemoveObject(k)
    \/ \E k \in Key : ListObject(k)
    \/ \E e \in listing : UpsertFile(e)
    \/ \E f \in Id : DeleteRow(f)
    \/ \E f \in Id, k \in Key : MoveFile(f, k)

Clock ==
    \/ \E f \in Id : BackoffElapses(f)
    \/ \E f \in Id : ClaimExpires(f)

Next ==
    \/ World
    \/ Clock
    \/ \E w \in Worker : Start(w) \/ WorkerStep(w) \/ WorkerFault(w)

Spec == Init /\ [][Next]_vars

\* Pods are restarted, their loops run, time passes and listings are
\* upserted; clients and faults are free to do nothing.
Fairness ==
    /\ \A w \in Worker : WF_vars(Start(w)) /\ WF_vars(WorkerStep(w))
    /\ \A f \in Id : WF_vars(BackoffElapses(f)) /\ WF_vars(ClaimExpires(f))

FairSpec == Spec /\ Fairness

-----------------------------------------------------------------------------
(* Properties *)

\* The stored mark never runs ahead of files.marked_at, so that the "mark <
\* marked_at" of RequeueStaleIndexQueue is "mark IS DISTINCT FROM marked_at".
MarkNeverAhead == \A f \in Id : mark[f] <= marked[f]

\* Complete writes the status and the result in one transaction: where no
\* content is skipped, a row that was ever completed has its result.
DoneHasResult ==
    \A f \in Id : SkippedContents = {} /\ (status[f] = "done" \/ mark[f] # Null)
                     => result[f] # NoObject

\* With claims that outlive their holders' work, a claim is exclusive: no
\* file is held by two workers, and the row of a held job is still claimed
\* with the very attempt the worker was handed.
ExclusiveClaim ==
    /\ \A v, w \in Worker : v # w => HeldBy(v) \cap HeldBy(w) = {}
    /\ \A w \in Worker : \A j \in Jobs(w) :
          Exists(j.file) => /\ status[j.file] = "claimed"
                            /\ attempts[j.file] = j.attempts
                            /\ ~expired[j.file]

\* fail parks a job only after MaxAttempts claims since its row was enqueued,
\* by the seed or by the requeue of a completed row, whatever crashes and
\* repeated writes came in between.  Content that replaces another before
\* the first completion inherits its count.
ParkedOnlyAfterMaxAttempts ==
    \A f \in Id : status[f] = "error" => attempts[f] >= MaxAttempts

\* Re-indexing never replaces a result by one read from an older object,
\* except for a file that was moved between claim and read: what is under its
\* old key by then is another file's, and may be newer than its own.
ResultNeverGoesBack ==
    [][\A f \in Id : fkey'[f] # NoKey /\ f \notin stray'
                        => result'[f].mtime >= result[f].mtime]_vars

Settled == \A f \in Id : Exists(f) => status[f] \in {"done", "error"}

\* Once clients and faults stop, every file ends up indexed or parked and
\* stays so: no crash, lost reply or expired claim strands a job.
EventuallySettled == <>[]Settled

\* A done row known to be older than marked_at is re-indexed from an object
\* at least that new, unless it is parked or its file is deleted.
StaleIsReindexed ==
    \A f \in Id, v \in Time :
        (status[f] = "done" /\ mark[f] < v /\ marked[f] = v)
            ~> (~Exists(f) \/ status[f] = "error" \/ result[f].mtime >= v)

\* "mark: the files.marked_at value this row's result corresponds to": a done
\* row with an up-to-date mark has a result at least that new.
MarkMatchesResult ==
    \A f \in Id : status[f] = "done" /\ mark[f] = marked[f]
                     => result[f].mtime >= mark[f]

\* "error rows stay parked until manually reset".
ErrorStaysParked ==
    [][\A f \in Id : status[f] = "error" => status'[f] \in {"error", "none"}]_vars

\* "MaxAttempts is the number of tries before a job is parked".
AttemptsWithinBudget == \A f \in Id : attempts[f] <= MaxAttempts

\* Files without a preview "are marked done in index_queue with no row here":
\* completing a Skipped run leaves its file without a result row.
SkippedLeavesNoRow ==
    [][\A w \in Worker :
          (/\ pc[w] = "complete" /\ pc'[w] = "work"
           /\ Skipped(read[w]) /\ fkey'[job[w].file] # NoKey)
             => result'[job[w].file] = NoObject]_vars

Lifecycle == INSTANCE JobLifecycle
                WITH JobFile <- Id, Budget <- MaxAttempts,
                     state <- status, tried <- attempts

\* Exclusive claims follow the lifecycle diagram: a row leaves claimed only
\* by its own claimant, and is parked exactly when its tries are used up.
FollowsLifecycle == Lifecycle!JobSpec
=============================================================================
