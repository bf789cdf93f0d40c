-------------------------- MODULE IndexQueueProofs --------------------------
(***************************************************************************)
(* What holds of the job queue for any number of workers, files, keys and  *)
(* faults, whatever the disturbances: types, rows that exist only with     *)
(* their file, marks that never run ahead, and results behind every mark.  *)
(***************************************************************************)
EXTENDS IndexQueue, TLAPS

\* Ids beyond the sequence have no row, and only a files row has a queue row,
\* a mark or a result (ON DELETE CASCADE).
RowsOK ==
    /\ \A f \in Id : f > lastId => ~Exists(f)
    /\ \A f \in Id : ~Exists(f) => /\ status[f] = "none"
                                   /\ mark[f] = Null
                                   /\ result[f] = NoObject

\* A worker at a status write has a job, and a result to complete it with.
WorkOK ==
    \A w \in Worker : /\ pc[w] \in {"complete", "fail"} => job[w] \in Job
                      /\ pc[w] = "complete" => read[w] \in Object

\* The inductive invariant.
IInv == TypeOK /\ RowsOK /\ WorkOK /\ MarkNeverAhead /\ DoneHasResult

-----------------------------------------------------------------------------
(* Facts about the constants and the data *)

LEMMA Ranges ==
    /\ 0 \in 0 .. StatusWriteTries - 1
    /\ 0 \in 0 .. AttemptsCap
    /\ 0 \in 0 .. MaxClock
    /\ 0 \in 0 .. MaxId
    /\ 0 \in 0 .. MaxFaults
    /\ Time \subseteq 0 .. MaxClock
    /\ 0 \notin Time
    /\ 1 .. AttemptsCap \subseteq 0 .. AttemptsCap
    /\ \A n \in 0 .. AttemptsCap : NextAttempt(n) \in 1 .. AttemptsCap
    /\ NoObject \notin Object
    /\ \A o \in Object : o.content \in Time /\ o.mtime \in Time
    /\ \A j \in Job : j.file \in Id /\ j.key \in Key /\ j.attempts \in 1 .. AttemptsCap
    /\ NoJob \notin Job
    /\ Null = 0
  BY ConstantsAssumption DEF AttemptsCap, NextAttempt, Time, Object, NoObject, Job,
     NoJob, Id, Null

\* A file that still exists has its id among the allocated ones.
LEMMA ExistsInId == ASSUME IInv, NEW f \in Id, status[f] # "none"
                    PROVE  Exists(f) /\ fkey[f] \in Key
  BY DEF IInv, RowsOK, TypeOK, FilesTypeOK, Exists

LEMMA InitIInv == Init => IInv
<1> SUFFICES ASSUME Init PROVE IInv
  OBVIOUS
<1>1. TypeOK
  BY Ranges, ConstantsAssumption
     DEF Init, TypeOK, WorldTypeOK, FilesTypeOK, QueueTypeOK, WorkerTypeOK, Null
<1>2. RowsOK
  BY DEF Init, RowsOK, Exists
<1>3. WorkOK /\ MarkNeverAhead /\ DoneHasResult
  BY DEF Init, WorkOK, MarkNeverAhead, DoneHasResult, Null
<1> QED
  BY <1>1, <1>2, <1>3 DEF IInv

-----------------------------------------------------------------------------
(* Groups of variables a step leaves alone *)

LEMMA WorldUnchanged == WorldTypeOK /\ UNCHANGED world => WorldTypeOK'
  BY DEF WorldTypeOK, world

LEMMA FilesUnchanged == FilesTypeOK /\ UNCHANGED files => FilesTypeOK'
  BY DEF FilesTypeOK, files

LEMMA QueueUnchanged == QueueTypeOK /\ UNCHANGED queue => QueueTypeOK'
  BY DEF QueueTypeOK, queue

LEMMA WorkerUnchanged == WorkerTypeOK /\ WorkOK /\ UNCHANGED worker
                            => WorkerTypeOK' /\ WorkOK'
  BY DEF WorkerTypeOK, WorkOK, worker

\* Steps of a worker that leave the tables alone need only keep its types.
LEMMA TablesUnchanged ==
    RowsOK /\ MarkNeverAhead /\ DoneHasResult /\ UNCHANGED <<files, queue>>
        => RowsOK' /\ MarkNeverAhead' /\ DoneHasResult'
  BY DEF RowsOK, MarkNeverAhead, DoneHasResult, Exists, files, queue

-----------------------------------------------------------------------------
(* The object store and the files table *)

LEMMA PutStep == ASSUME IInv, NEW k \in Key, PutObject(k) PROVE IInv'
<1> USE Ranges DEF PutObject
<1>1. clock + 1 \in Time
  BY ConstantsAssumption DEF IInv, TypeOK, WorldTypeOK, Time
<1>2. [content |-> clock + 1, mtime |-> clock + 1] \in Object
  BY <1>1 DEF Object
<1>3. WorldTypeOK'
  BY <1>1, <1>2 DEF IInv, TypeOK, WorldTypeOK
<1> QED
  BY <1>3, FilesUnchanged, QueueUnchanged, WorkerUnchanged, TablesUnchanged
     DEF IInv, TypeOK

LEMMA RemoveStep == ASSUME IInv, NEW k \in Key, RemoveObject(k) PROVE IInv'
<1> USE DEF RemoveObject
<1>1. WorldTypeOK'
  BY DEF IInv, TypeOK, WorldTypeOK
<1> QED
  BY <1>1, FilesUnchanged, QueueUnchanged, WorkerUnchanged, TablesUnchanged
     DEF IInv, TypeOK

LEMMA ListStep == ASSUME IInv, NEW k \in Key, ListObject(k) PROVE IInv'
<1> USE DEF ListObject
<1>1. obj[k].mtime \in Time
  BY Ranges DEF IInv, TypeOK, WorldTypeOK
<1>2. WorldTypeOK'
  BY <1>1 DEF IInv, TypeOK, WorldTypeOK
<1> QED
  BY <1>2, FilesUnchanged, QueueUnchanged, WorkerUnchanged, TablesUnchanged
     DEF IInv, TypeOK

LEMMA UpsertStep == ASSUME IInv, NEW e \in listing, UpsertFile(e) PROVE IInv'
<1>1. e.key \in Key /\ e.mtime \in 0 .. MaxClock /\ e.mtime \in Nat
  BY Ranges, ConstantsAssumption DEF IInv, TypeOK, WorldTypeOK, Time
<1>2. WorldTypeOK'
  BY DEF IInv, TypeOK, WorldTypeOK, UpsertFile
<1>3. UNCHANGED queue /\ UNCHANGED worker /\ UNCHANGED faults
  BY DEF UpsertFile
<1>4. CASE RowAt(e.key) # {}
  <2>1. \A f \in Id : /\ Remark(f, e.mtime) \in 0 .. MaxClock
                      /\ Remark(f, e.mtime) >= marked[f]
    BY <1>1 DEF Remark, Greatest, IInv, TypeOK, FilesTypeOK
  <2>2. /\ marked' = [f \in Id |-> IF fkey[f] = e.key
                                  THEN Remark(f, e.mtime) ELSE marked[f]]
        /\ UNCHANGED <<fkey, lastId>>
    BY <1>4 DEF UpsertFile
  <2>3. marked' \in [Id -> 0 .. MaxClock]
    BY <2>1, <2>2 DEF IInv, TypeOK, FilesTypeOK
  <2>4. FilesTypeOK'
    BY <2>2, <2>3 DEF IInv, TypeOK, FilesTypeOK
  <2>5. MarkNeverAhead'
    BY <2>1, <2>2, <1>3
       DEF IInv, TypeOK, FilesTypeOK, QueueTypeOK, MarkNeverAhead, queue
  <2>6. RowsOK' /\ DoneHasResult'
    BY <2>2, <1>3 DEF IInv, RowsOK, DoneHasResult, Exists, queue
  <2> QED
    BY <1>2, <1>3, <2>4, <2>5, <2>6, QueueUnchanged, WorkerUnchanged DEF IInv, TypeOK
<1>5. CASE RowAt(e.key) = {}
  <2>1. /\ lastId < MaxId
        /\ lastId' = lastId + 1
        /\ fkey' = [fkey EXCEPT ![lastId + 1] = e.key]
        /\ marked' = [marked EXCEPT ![lastId + 1] = e.mtime]
    BY <1>5 DEF UpsertFile
  <2>2. lastId \in Nat /\ lastId + 1 \in Id /\ lastId + 1 \in 0 .. MaxId
    BY <2>1, ConstantsAssumption DEF IInv, TypeOK, FilesTypeOK, Id
  <2>3. FilesTypeOK'
    BY <1>1, <2>1, <2>2 DEF IInv, TypeOK, FilesTypeOK
  <2>4. ~Exists(lastId + 1) /\ mark[lastId + 1] = 0
    BY <2>2, Ranges DEF IInv, RowsOK
  <2>5. MarkNeverAhead'
    BY <1>1, <1>3, <2>1, <2>2, <2>4
       DEF IInv, TypeOK, FilesTypeOK, QueueTypeOK, MarkNeverAhead, queue
  <2>6. RowsOK'
    <3>1. \A f \in Id : f > lastId' => ~Exists(f)'
      BY <2>1, <2>2 DEF IInv, TypeOK, FilesTypeOK, RowsOK, Exists, Id
    <3>2. \A f \in Id : ~Exists(f)' => ~Exists(f)
      BY <1>1, <2>1, <2>2, ConstantsAssumption DEF IInv, TypeOK, FilesTypeOK, Exists
    <3> QED
      BY <3>1, <3>2, <1>3 DEF IInv, RowsOK, queue
  <2>7. DoneHasResult'
    BY <1>3 DEF IInv, DoneHasResult, queue
  <2> QED
    BY <1>2, <1>3, <2>3, <2>5, <2>6, <2>7, QueueUnchanged, WorkerUnchanged
       DEF IInv, TypeOK
<1> QED
  BY <1>4, <1>5

LEMMA DeleteStep == ASSUME IInv, NEW f \in Id, DeleteRow(f) PROVE IInv'
<1> USE Ranges DEF DeleteRow
<1>1. FilesTypeOK'
  BY DEF IInv, TypeOK, FilesTypeOK
<1>2. QueueTypeOK'
  BY DEF IInv, TypeOK, QueueTypeOK
<1>3. RowsOK'
  BY DEF IInv, TypeOK, FilesTypeOK, QueueTypeOK, RowsOK, Exists
<1>4. MarkNeverAhead'
  BY DEF IInv, TypeOK, FilesTypeOK, QueueTypeOK, MarkNeverAhead
<1>5. DoneHasResult'
  BY DEF IInv, TypeOK, QueueTypeOK, DoneHasResult
<1> QED
  BY <1>1, <1>2, <1>3, <1>4, <1>5, WorldUnchanged, WorkerUnchanged DEF IInv, TypeOK

LEMMA MoveStep == ASSUME IInv, NEW f \in Id, NEW k \in Key, MoveFile(f, k) PROVE IInv'
<1> USE Ranges DEF MoveFile
<1>1. clock + 1 \in Time
  BY ConstantsAssumption DEF IInv, TypeOK, WorldTypeOK, Time
<1>2. fkey[f] \in Key
  BY DEF Exists, IInv, TypeOK, FilesTypeOK
<1>3. [content |-> obj[fkey[f]].content, mtime |-> clock + 1] \in Object
  BY <1>1, <1>2 DEF IInv, TypeOK, WorldTypeOK, Object
<1>4. WorldTypeOK'
  BY <1>1, <1>2, <1>3 DEF IInv, TypeOK, WorldTypeOK
<1>5. FilesTypeOK'
  BY DEF IInv, TypeOK, FilesTypeOK
<1>6. \A g \in Id : Exists(g)' <=> Exists(g)
  BY ConstantsAssumption DEF IInv, TypeOK, FilesTypeOK, Exists
<1>7. RowsOK' /\ MarkNeverAhead' /\ DoneHasResult'
  BY <1>6 DEF IInv, RowsOK, MarkNeverAhead, DoneHasResult, queue
<1> QED
  BY <1>4, <1>5, <1>7, QueueUnchanged, WorkerUnchanged DEF IInv, TypeOK

-----------------------------------------------------------------------------
(* Time *)

LEMMA TimeStep == ASSUME IInv, NEW f \in Id, BackoffElapses(f) \/ ClaimExpires(f)
                  PROVE  IInv'
<1>1. /\ UNCHANGED <<world, files, status, attempts, mark, result, worker, faults>>
      /\ due' \in [Id -> BOOLEAN]
      /\ expired' \in [Id -> BOOLEAN]
  BY DEF BackoffElapses, ClaimExpires, IInv, TypeOK, QueueTypeOK
<1>2. QueueTypeOK'
  BY <1>1 DEF IInv, TypeOK, QueueTypeOK
<1>3. RowsOK' /\ MarkNeverAhead' /\ DoneHasResult'
  BY <1>1 DEF IInv, RowsOK, MarkNeverAhead, DoneHasResult, Exists, files
<1> QED
  BY <1>1, <1>2, <1>3, WorldUnchanged, FilesUnchanged, WorkerUnchanged DEF IInv, TypeOK

-----------------------------------------------------------------------------
(* The worker loop *)

\* The worker's fields after a status write returned or failed.
LEMMA JobOverTypes ==
    ASSUME IInv, NEW w \in Worker, JobOver(w) \/ WriteFailed(w), UNCHANGED <<batch, full>>
    PROVE  WorkerTypeOK' /\ WorkOK'
<1>1. CASE JobOver(w)
  BY <1>1, Ranges DEF JobOver, IInv, TypeOK, WorkerTypeOK, WorkOK
<1>2. CASE WriteFailed(w) /\ ~JobOver(w)
  <2>1. tries[w] + 1 \in 0 .. StatusWriteTries - 1
    BY <1>2, ConstantsAssumption DEF WriteFailed, IInv, TypeOK, WorkerTypeOK
  <2> QED
    BY <1>2, <2>1 DEF WriteFailed, IInv, TypeOK, WorkerTypeOK, WorkOK
<1> QED
  BY <1>1, <1>2

LEMMA LoopStep ==
    ASSUME IInv, NEW w \in Worker,
           Start(w) \/ Crash(w) \/ QueueError(w) \/ BatchDone(w)
    PROVE  IInv'
<1>1. WorkerTypeOK' /\ WorkOK'
  <2>1. CASE Start(w)
    BY <2>1 DEF Start, IInv, TypeOK, WorkerTypeOK, WorkOK
  <2>2. CASE Crash(w)
    BY <2>2, Ranges DEF Crash, IInv, TypeOK, WorkerTypeOK, WorkOK
  <2>3. CASE QueueError(w)
    BY <2>3 DEF QueueError, IInv, TypeOK, WorkerTypeOK, WorkOK
  <2>4. CASE BatchDone(w)
    BY <2>4 DEF BatchDone, IInv, TypeOK, WorkerTypeOK, WorkOK
  <2> QED
    BY <2>1, <2>2, <2>3, <2>4
<1>2. faults' \in 0 .. MaxFaults
  BY ConstantsAssumption DEF Start, Crash, QueueError, BatchDone, IInv, TypeOK
<1>3. UNCHANGED <<world, files, queue>>
  BY DEF Start, Crash, QueueError, BatchDone
<1> QED
  BY <1>1, <1>2, <1>3, WorldUnchanged, FilesUnchanged, QueueUnchanged, TablesUnchanged
     DEF IInv, TypeOK

LEMMA SeedStep == ASSUME IInv, NEW w \in Worker, SeedIndexQueue(w) PROVE IInv'
<1> USE DEF SeedIndexQueue
<1>1. QueueTypeOK'
  BY DEF IInv, TypeOK, QueueTypeOK
<1>2. WorkerTypeOK' /\ WorkOK'
  BY DEF IInv, TypeOK, WorkerTypeOK, WorkOK
<1>3. RowsOK'
  BY DEF IInv, TypeOK, QueueTypeOK, RowsOK, Exists, files
<1>4. MarkNeverAhead' /\ DoneHasResult'
  BY DEF IInv, TypeOK, QueueTypeOK, MarkNeverAhead, DoneHasResult, files
<1> QED
  BY <1>1, <1>2, <1>3, <1>4, WorldUnchanged, FilesUnchanged DEF IInv, TypeOK

LEMMA RequeueStep == ASSUME IInv, NEW w \in Worker, RequeueStaleIndexQueue(w) PROVE IInv'
<1> USE Ranges DEF RequeueStaleIndexQueue
<1>1. status' \in [Id -> {"none", "pending", "claimed", "done", "error"}]
  BY DEF IInv, TypeOK, QueueTypeOK
<1>2. attempts' \in [Id -> 0 .. AttemptsCap]
  BY DEF IInv, TypeOK, QueueTypeOK
<1>3. due' \in [Id -> BOOLEAN]
  BY DEF IInv, TypeOK, QueueTypeOK
<1>4. mark' \in [Id -> 0 .. MaxClock]
  BY DEF IInv, TypeOK, QueueTypeOK
<1>5. QueueTypeOK'
  BY <1>1, <1>2, <1>3, <1>4 DEF IInv, TypeOK, QueueTypeOK
<1>6. WorkerTypeOK' /\ WorkOK'
  BY DEF IInv, TypeOK, WorkerTypeOK, WorkOK
<1>7. RowsOK'
  BY DEF IInv, RowsOK, Exists, Stale, files
<1>8. MarkNeverAhead'
  BY DEF IInv, TypeOK, FilesTypeOK, MarkNeverAhead, files
<1>9. DoneHasResult'
  BY DEF IInv, DoneHasResult
<1> QED
  BY <1>5, <1>6, <1>7, <1>8, <1>9, WorldUnchanged, FilesUnchanged DEF IInv, TypeOK

\* Claiming a set of claimable rows keeps everything said of the tables.
LEMMA MarkClaimedTables ==
    ASSUME IInv, NEW S \in SUBSET {f \in Id : Claimable(f)}, MarkClaimed(S),
           UNCHANGED <<files, due, mark, result>>
    PROVE  QueueTypeOK' /\ FilesTypeOK' /\ RowsOK' /\ MarkNeverAhead' /\ DoneHasResult'
<1> USE DEF MarkClaimed
<1>1. status' \in [Id -> {"none", "pending", "claimed", "done", "error"}]
  BY DEF IInv, TypeOK, QueueTypeOK
<1>2. attempts' \in [Id -> 0 .. AttemptsCap]
  BY Ranges DEF IInv, TypeOK, QueueTypeOK
<1>3. expired' \in [Id -> BOOLEAN]
  BY DEF IInv, TypeOK, QueueTypeOK
<1>4. QueueTypeOK'
  BY <1>1, <1>2, <1>3 DEF IInv, TypeOK, QueueTypeOK
<1>5. \A f \in S : Exists(f)
  BY ExistsInId DEF Claimable
<1>6. RowsOK'
  BY <1>5 DEF IInv, RowsOK, Exists, files
<1>7. MarkNeverAhead' /\ DoneHasResult'
  BY DEF IInv, MarkNeverAhead, DoneHasResult, files
<1> QED
  BY <1>4, <1>6, <1>7, FilesUnchanged DEF IInv, TypeOK

LEMMA ClaimStep == ASSUME IInv, NEW w \in Worker, Claim(w) PROVE IInv'
<1>1. PICK S \in SUBSET {f \in Id : Claimable(f)} :
        /\ MarkClaimed(S)
        /\ batch' = [batch EXCEPT ![w] =
               {[file |-> f, key |-> fkey[f],
                 attempts |-> NextAttempt(attempts[f])] : f \in S}]
        /\ full' = [full EXCEPT ![w] = Cardinality(S) = BatchSize]
  BY DEF Claim
<1>2. \A f \in S : [file |-> f, key |-> fkey[f],
                     attempts |-> NextAttempt(attempts[f])] \in Job
  <2> SUFFICES ASSUME NEW f \in S
               PROVE  [file |-> f, key |-> fkey[f],
                       attempts |-> NextAttempt(attempts[f])] \in Job
    OBVIOUS
  <2>1. f \in Id /\ fkey[f] \in Key
    BY ExistsInId DEF Claimable
  <2>2. NextAttempt(attempts[f]) \in 1 .. AttemptsCap
    BY <2>1, Ranges DEF IInv, TypeOK, QueueTypeOK
  <2> QED
    BY <2>1, <2>2 DEF Job
<1>3. batch' \in [Worker -> SUBSET Job]
  BY <1>1, <1>2 DEF IInv, TypeOK, WorkerTypeOK
<1>4. full' \in [Worker -> BOOLEAN]
  BY <1>1 DEF IInv, TypeOK, WorkerTypeOK
<1>5. pc' = [pc EXCEPT ![w] = "work"]
      /\ UNCHANGED <<world, files, due, mark, result, job, read, tries, faults>>
  BY DEF Claim
<1>6. WorkerTypeOK' /\ WorkOK'
  BY <1>3, <1>4, <1>5 DEF IInv, TypeOK, WorkerTypeOK, WorkOK
<1>7. QueueTypeOK' /\ FilesTypeOK' /\ RowsOK' /\ MarkNeverAhead' /\ DoneHasResult'
  BY <1>1, <1>5, MarkClaimedTables
<1> QED
  BY <1>5, <1>6, <1>7, WorldUnchanged DEF IInv, TypeOK

LEMMA ClaimReplyLostStep == ASSUME IInv, NEW w \in Worker, ClaimReplyLost(w) PROVE IInv'
<1> USE DEF ClaimReplyLost
<1>1. QueueTypeOK' /\ FilesTypeOK' /\ RowsOK' /\ MarkNeverAhead' /\ DoneHasResult'
  BY MarkClaimedTables
<1>2. WorkerTypeOK' /\ WorkOK'
  BY DEF IInv, TypeOK, WorkerTypeOK, WorkOK
<1>3. faults' \in 0 .. MaxFaults
  BY ConstantsAssumption DEF IInv, TypeOK
<1> QED
  BY <1>1, <1>2, <1>3, WorldUnchanged DEF IInv, TypeOK

LEMMA ProcessStep == ASSUME IInv, NEW w \in Worker, ProcessOk(w) \/ ProcessError(w)
                     PROVE  IInv'
<1>1. PICK j \in batch[w] :
        /\ job' = [job EXCEPT ![w] = j]
        /\ batch' = [batch EXCEPT ![w] = @ \ {j}]
        /\ \/ /\ obj[j.key] # NoObject
              /\ read' = [read EXCEPT ![w] = obj[j.key]]
              /\ pc' = [pc EXCEPT ![w] = "complete"]
           \/ read' = read /\ pc' = [pc EXCEPT ![w] = "fail"]
  BY DEF ProcessOk, ProcessError
<1>2. /\ tries' = [tries EXCEPT ![w] = 0]
      /\ UNCHANGED <<obj, clock, listing, files, queue, full, faults>>
  BY DEF ProcessOk, ProcessError, world
<1>3. j \in Job /\ j.key \in Key
  BY Ranges DEF IInv, TypeOK, WorkerTypeOK
<1>4. obj[j.key] # NoObject => obj[j.key] \in Object
  BY <1>3 DEF IInv, TypeOK, WorldTypeOK
<1>5. WorkerTypeOK'
  BY <1>1, <1>2, <1>3, <1>4, Ranges DEF IInv, TypeOK, WorkerTypeOK
<1>6. WorkOK'
  BY <1>1, <1>3, <1>4 DEF IInv, TypeOK, WorkerTypeOK, WorkOK
<1>7. WorldTypeOK'
  <2>1. \A i \in batch[w] : i.file \in Id
    BY Ranges DEF IInv, TypeOK, WorkerTypeOK
  <2>2. stray' \subseteq Id
    BY <2>1 DEF ProcessOk, ProcessError, world, IInv, TypeOK, WorldTypeOK
  <2> QED
    BY <1>2, <2>2 DEF IInv, TypeOK, WorldTypeOK
<1> QED
  BY <1>2, <1>5, <1>6, <1>7, FilesUnchanged, QueueUnchanged, TablesUnchanged
     DEF IInv, TypeOK

\* Complete's transaction, whoever runs it and whatever it read.
LEMMA CompleteTxTables ==
    ASSUME IInv, NEW f \in Id, Exists(f), NEW o \in Object, CompleteTx(f, o),
           UNCHANGED files
    PROVE  QueueTypeOK' /\ FilesTypeOK' /\ RowsOK' /\ MarkNeverAhead' /\ DoneHasResult'
<1> USE Ranges DEF CompleteTx
<1>1. mark' = [mark EXCEPT ![f] = marked[f]] /\ marked[f] \in 0 .. MaxClock
  BY DEF CompletionMark, IInv, TypeOK, FilesTypeOK
<1>2. result' \in [Id -> Object \cup {NoObject}]
  BY DEF StoreResult, IInv, TypeOK, QueueTypeOK
<1>3. QueueTypeOK'
  BY <1>1, <1>2 DEF IInv, TypeOK, QueueTypeOK
<1>4. \A g \in Id : g # f => /\ status'[g] = status[g]
                             /\ mark'[g] = mark[g]
                             /\ result'[g] = result[g]
  BY <1>1 DEF StoreResult, IInv, TypeOK, QueueTypeOK
<1>5. RowsOK'
  BY <1>4 DEF IInv, RowsOK, Exists, files
<1>6. MarkNeverAhead'
  BY <1>1 DEF IInv, TypeOK, QueueTypeOK, FilesTypeOK, MarkNeverAhead, files
<1>7. SkippedContents = {} => result'[f] # NoObject
  BY DEF StoreResult, Skipped, IInv, TypeOK, QueueTypeOK
<1>8. DoneHasResult'
  BY <1>4, <1>7 DEF IInv, DoneHasResult
<1> QED
  BY <1>3, <1>5, <1>6, <1>8, FilesUnchanged DEF IInv, TypeOK

LEMMA FailTxTables ==
    ASSUME IInv, NEW j \in Job, Exists(j.file), FailTx(j), UNCHANGED files
    PROVE  QueueTypeOK' /\ FilesTypeOK' /\ RowsOK' /\ MarkNeverAhead' /\ DoneHasResult'
<1> USE Ranges DEF FailTx
<1>1. QueueTypeOK'
  BY DEF IInv, TypeOK, QueueTypeOK
<1>2. RowsOK'
  BY DEF IInv, TypeOK, QueueTypeOK, RowsOK, Exists, files
<1>3. MarkNeverAhead' /\ DoneHasResult'
  BY DEF IInv, TypeOK, QueueTypeOK, MarkNeverAhead, DoneHasResult, files
<1> QED
  BY <1>1, <1>2, <1>3, FilesUnchanged DEF IInv, TypeOK

LEMMA CompleteStep == ASSUME IInv, NEW w \in Worker, CompleteIndexQueue(w) PROVE IInv'
<1> USE DEF CompleteIndexQueue
<1>1. job[w].file \in Id /\ read[w] \in Object
  BY Ranges DEF IInv, WorkOK
<1>2. WorkerTypeOK' /\ WorkOK'
  BY JobOverTypes
<1>3. QueueTypeOK' /\ FilesTypeOK' /\ RowsOK' /\ MarkNeverAhead' /\ DoneHasResult'
  BY <1>1, CompleteTxTables, QueueUnchanged, FilesUnchanged, TablesUnchanged
     DEF IInv, TypeOK
<1> QED
  BY <1>2, <1>3, WorldUnchanged DEF IInv, TypeOK

LEMMA FailStep == ASSUME IInv, NEW w \in Worker, FailIndexQueue(w) PROVE IInv'
<1> USE DEF FailIndexQueue
<1>1. job[w] \in Job
  BY DEF IInv, WorkOK
<1>2. WorkerTypeOK' /\ WorkOK'
  BY JobOverTypes
<1>3. QueueTypeOK' /\ FilesTypeOK' /\ RowsOK' /\ MarkNeverAhead' /\ DoneHasResult'
  BY <1>1, FailTxTables, QueueUnchanged, FilesUnchanged, TablesUnchanged
     DEF IInv, TypeOK
<1> QED
  BY <1>2, <1>3, WorldUnchanged DEF IInv, TypeOK

LEMMA WriteErrorStep == ASSUME IInv, NEW w \in Worker, StatusWriteError(w) PROVE IInv'
<1> USE DEF StatusWriteError
<1>1. WorkerTypeOK' /\ WorkOK'
  BY JobOverTypes
<1>2. faults' \in 0 .. MaxFaults
  BY ConstantsAssumption DEF IInv, TypeOK
<1> QED
  BY <1>1, <1>2, WorldUnchanged, FilesUnchanged, QueueUnchanged, TablesUnchanged
     DEF IInv, TypeOK

LEMMA AckLostStep == ASSUME IInv, NEW w \in Worker, StatusWriteAckLost(w) PROVE IInv'
<1> USE DEF StatusWriteAckLost
<1>1. WorkerTypeOK' /\ WorkOK'
  BY JobOverTypes
<1>2. faults' \in 0 .. MaxFaults
  BY ConstantsAssumption DEF IInv, TypeOK
<1>3. job[w] \in Job /\ job[w].file \in Id /\ (pc[w] = "complete" => read[w] \in Object)
  BY Ranges DEF IInv, WorkOK
<1>4. QueueTypeOK' /\ FilesTypeOK' /\ RowsOK' /\ MarkNeverAhead' /\ DoneHasResult'
  BY <1>3, CompleteTxTables, FailTxTables
<1> QED
  BY <1>1, <1>2, <1>4, WorldUnchanged DEF IInv, TypeOK

-----------------------------------------------------------------------------
(* Every step, and the theorems *)

LEMMA NextIInv == IInv /\ [Next]_vars => IInv'
<1> SUFFICES ASSUME IInv, [Next]_vars PROVE IInv'
  OBVIOUS
<1>1. CASE World
  BY <1>1, PutStep, RemoveStep, ListStep, UpsertStep, DeleteStep, MoveStep DEF World
<1>2. CASE Clock
  BY <1>2, TimeStep DEF Clock
<1>3. ASSUME NEW w \in Worker, Start(w) \/ WorkerStep(w) \/ WorkerFault(w) PROVE IInv'
  BY <1>3, LoopStep, SeedStep, RequeueStep, ClaimStep, ClaimReplyLostStep, ProcessStep,
     CompleteStep, FailStep, WriteErrorStep, AckLostStep DEF WorkerStep, WorkerFault
<1>4. CASE UNCHANGED vars
  BY <1>4, WorldUnchanged, FilesUnchanged, QueueUnchanged, WorkerUnchanged,
     TablesUnchanged DEF vars, IInv, TypeOK
<1> QED
  BY <1>1, <1>2, <1>3, <1>4 DEF Next

\* The invariant holds of every behaviour of the queue.
THEOREM QueueInvariant == Spec => []IInv
  BY InitIInv, NextIInv, PTL DEF Spec

\* Every variable keeps its type, whatever the workers and faults do.
THEOREM TypeCorrect == Spec => []TypeOK
<1>1. IInv => TypeOK
  BY DEF IInv
<1> QED
  BY <1>1, QueueInvariant, PTL

\* A queue row's mark never runs ahead of its file's marked_at, so that the
\* seed's "mark < marked_at" misses no row whose mark differs.
THEOREM MarksNeverRunAhead == Spec => []MarkNeverAhead
<1>1. IInv => MarkNeverAhead
  BY DEF IInv
<1> QED
  BY <1>1, QueueInvariant, PTL

\* For an index type that skips nothing, a done row has its result, also when
\* late claimants complete or fail a row that is no longer theirs.
THEOREM DoneRowsHaveResults == Spec => []DoneHasResult
<1>1. IInv => DoneHasResult
  BY DEF IInv
<1> QED
  BY <1>1, QueueInvariant, PTL

-----------------------------------------------------------------------------
(***************************************************************************)
(* What the queue guarantees as long as a claim outlives its holder's work *)
(* and status writes are acknowledged: claims are exclusive, jobs are      *)
(* parked only after MaxAttempts tries, and rows follow the lifecycle.     *)
(***************************************************************************)

Timely == "slow" \notin Disturbances /\ "lostAck" \notin Disturbances

\* A worker holds a current job only at a status write, each file once, and
\* only files whose id has been allocated.
Holding ==
    /\ \A w \in Worker : pc[w] \notin {"complete", "fail"} => job[w] = NoJob
    /\ \A w \in Worker : job[w] \notin batch[w]
    /\ \A w \in Worker : \A i, j \in Jobs(w) : i.file = j.file => i = j
    /\ \A w \in Worker : \A j \in Jobs(w) : j.file <= lastId

\* Only a done row carries a mark.
MarkOnlyWhenDone == \A f \in Id : mark[f] # Null => status[f] = "done"

\* A file that is not enqueued has used no attempts.
Unseeded == \A f \in Id : status[f] = "none" => attempts[f] = 0

\* The inductive invariant.
XInv ==
    /\ IInv
    /\ Holding
    /\ ExclusiveClaim
    /\ MarkOnlyWhenDone
    /\ Unseeded
    /\ ParkedOnlyAfterMaxAttempts

\* A step of the queue is a step of the lifecycle or invisible to it.
LifecycleStep == [Lifecycle!JobNext]_(Lifecycle!jobs)

-----------------------------------------------------------------------------

LEMMA JobsTyped == ASSUME IInv, NEW w \in Worker
                   PROVE  /\ Jobs(w) \subseteq Job
                          /\ batch[w] \subseteq Jobs(w)
                          /\ NoJob \notin batch[w]
                          /\ job[w] \in Job => job[w] \in Jobs(w)
  BY Ranges DEF IInv, TypeOK, WorkerTypeOK, Jobs

\* A step that hands out no job and leaves the rows of the held jobs alone
\* keeps claims exclusive.
LEMMA HoldersShrink ==
    ASSUME XInv,
           \A w \in Worker : Jobs(w)' \subseteq Jobs(w),
           \A w \in Worker : \A j \in Jobs(w)' :
              Exists(j.file)' => /\ Exists(j.file)
                                 /\ status'[j.file] = status[j.file]
                                 /\ attempts'[j.file] = attempts[j.file]
                                 /\ expired'[j.file] = expired[j.file]
    PROVE  ExclusiveClaim'
<1>1. \A v, w \in Worker : v # w => (HeldBy(v) \cap HeldBy(w) = {})'
  BY DEF XInv, ExclusiveClaim, HeldBy
<1>2. \A w \in Worker : \A j \in Jobs(w)' :
        Exists(j.file)' => /\ status'[j.file] = "claimed"
                           /\ attempts'[j.file] = j.attempts
                           /\ ~expired'[j.file]
  BY DEF XInv, ExclusiveClaim
<1> QED
  BY <1>1, <1>2 DEF ExclusiveClaim

\* Steps that change no worker and no queue row but due and expired.
LEMMA QuietHolding ==
    ASSUME Holding, UNCHANGED worker, lastId \in Nat, lastId' \in Nat, lastId' >= lastId,
           IInv
    PROVE  Holding' /\ \A w \in Worker : Jobs(w)' = Jobs(w)
<1>1. \A w \in Worker : Jobs(w)' = Jobs(w)
  BY DEF Jobs, worker
<1>2. \A w \in Worker : \A j \in Jobs(w) : j.file \in Nat
  BY JobsTyped, Ranges DEF Id
<1>3. \A w \in Worker : \A j \in Jobs(w)' : j.file <= lastId'
  BY <1>1, <1>2 DEF Holding
<1> QED
  BY <1>1, <1>3 DEF Holding, worker

\* Steps that leave the queue's rows alone keep what is said of them.
LEMMA QuietRows ==
    ASSUME XInv, UNCHANGED <<status, attempts, mark>>
    PROVE  MarkOnlyWhenDone' /\ Unseeded' /\ ParkedOnlyAfterMaxAttempts' /\ LifecycleStep
  BY DEF XInv, MarkOnlyWhenDone, Unseeded, ParkedOnlyAfterMaxAttempts, LifecycleStep,
     Lifecycle!jobs

LEMMA XWorld == ASSUME XInv, World PROVE XInv' /\ LifecycleStep
<1>0. IInv'
  BY NextIInv DEF Next, XInv
<1>1. UNCHANGED worker
  BY DEF World, PutObject, RemoveObject, ListObject, UpsertFile, DeleteRow, MoveFile
<1>2. lastId \in Nat /\ lastId' \in Nat /\ lastId' >= lastId
  <2>1. lastId \in Nat
    BY ConstantsAssumption DEF XInv, IInv, TypeOK, FilesTypeOK
  <2>2. lastId' = lastId \/ lastId' = lastId + 1
    BY DEF World, PutObject, RemoveObject, ListObject, UpsertFile, DeleteRow, MoveFile,
       files
  <2> QED
    BY <2>1, <2>2
<1>3. Holding' /\ \A w \in Worker : Jobs(w)' = Jobs(w)
  BY <1>1, <1>2, QuietHolding DEF XInv
<1>4. ASSUME UNCHANGED queue, \A f \in Id : f <= lastId /\ Exists(f)' => Exists(f)
      PROVE  XInv' /\ LifecycleStep
  <2>1. \A w \in Worker : \A j \in Jobs(w) : j.file \in Id /\ j.file <= lastId
    BY JobsTyped, Ranges DEF XInv, Holding
  <2>2. ExclusiveClaim'
    BY <1>3, <1>4, <2>1, HoldersShrink DEF queue
  <2> QED
    BY <1>0, <1>3, <1>4, <2>2, QuietRows DEF XInv, queue
<1>5. ASSUME NEW k \in Key, PutObject(k) \/ RemoveObject(k) \/ ListObject(k)
      PROVE  XInv' /\ LifecycleStep
  BY <1>4, <1>5 DEF PutObject, RemoveObject, ListObject, files, Exists
<1>6. ASSUME NEW e \in listing, UpsertFile(e) PROVE XInv' /\ LifecycleStep
  <2>1. \A f \in Id : f <= lastId /\ Exists(f)' => Exists(f)
    <3>1. CASE RowAt(e.key) # {}
      BY <1>6, <3>1 DEF UpsertFile, Exists
    <3>2. CASE RowAt(e.key) = {}
      <4>1. fkey' = [fkey EXCEPT ![lastId + 1] = e.key]
        BY <1>6, <3>2 DEF UpsertFile
      <4>2. \A f \in Id : f <= lastId => f # lastId + 1
        BY <1>2 DEF Id
      <4> QED
        BY <4>1, <4>2 DEF Exists, XInv, IInv, TypeOK, FilesTypeOK
    <3> QED
      BY <3>1, <3>2
  <2> QED
    BY <1>4, <1>6, <2>1 DEF UpsertFile
<1>7. ASSUME NEW f \in Id, NEW k \in Key, MoveFile(f, k) PROVE XInv' /\ LifecycleStep
  <2>1. \A g \in Id : Exists(g)' => Exists(g)
    BY <1>7, ConstantsAssumption DEF MoveFile, Exists, XInv, IInv, TypeOK, FilesTypeOK
  <2> QED
    BY <1>4, <1>7, <2>1 DEF MoveFile
<1>8. ASSUME NEW f \in Id, DeleteRow(f) PROVE XInv' /\ LifecycleStep
  <2> USE <1>8 DEF DeleteRow
  <2>1. \A g \in Id : /\ Exists(g)' => g # f /\ Exists(g)
                      /\ g # f => /\ status'[g] = status[g]
                                  /\ attempts'[g] = attempts[g]
                                  /\ expired'[g] = expired[g]
                                  /\ mark'[g] = mark[g]
    BY DEF Exists, XInv, IInv, TypeOK, FilesTypeOK, QueueTypeOK
  <2>2. status'[f] = "none" /\ mark'[f] = Null /\ attempts'[f] = 0
    BY DEF XInv, IInv, TypeOK, QueueTypeOK
  <2>3. ExclusiveClaim'
    <3>1. \A w \in Worker : \A j \in Jobs(w) : j.file \in Id
      BY JobsTyped, Ranges DEF XInv
    <3> QED
      BY <1>3, <2>1, <3>1, HoldersShrink
  <2>4. MarkOnlyWhenDone' /\ Unseeded' /\ ParkedOnlyAfterMaxAttempts'
    BY <2>1, <2>2 DEF XInv, MarkOnlyWhenDone, Unseeded, ParkedOnlyAfterMaxAttempts
  <2>5. Lifecycle!Forget(f)
    BY DEF Lifecycle!Forget
  <2>6. LifecycleStep
    BY <2>5 DEF LifecycleStep, Lifecycle!JobNext
  <2> QED
    BY <1>0, <1>3, <2>3, <2>4, <2>6 DEF XInv
<1> QED
  BY <1>5, <1>6, <1>7, <1>8 DEF World

LEMMA XClock == ASSUME XInv, Clock, Timely PROVE XInv' /\ LifecycleStep
<1>0. IInv'
  BY NextIInv DEF Next, XInv
<1>1. PICK f \in Id : BackoffElapses(f) \/ ClaimExpires(f)
  BY DEF Clock
<1>2. UNCHANGED <<world, files, status, attempts, mark, result, worker, faults>>
  BY <1>1 DEF BackoffElapses, ClaimExpires
<1>3. Holding' /\ \A w \in Worker : Jobs(w)' = Jobs(w)
  BY <1>2, QuietHolding, ConstantsAssumption
     DEF XInv, IInv, TypeOK, FilesTypeOK, files
<1>4. \A w \in Worker : \A j \in Jobs(w) : expired'[j.file] = expired[j.file]
  <2>1. CASE BackoffElapses(f)
    BY <2>1 DEF BackoffElapses
  <2>2. CASE ClaimExpires(f)
    <3>1. \A w \in Worker : \A j \in Jobs(w) : j.file # f
      BY <2>2 DEF ClaimExpires, Timely, Held, HeldBy
    <3> QED
      BY <2>2, <3>1, JobsTyped, Ranges
         DEF ClaimExpires, XInv, IInv, TypeOK, QueueTypeOK
  <2> QED
    BY <1>1, <2>1, <2>2
<1>5. ExclusiveClaim'
  BY <1>2, <1>3, <1>4, HoldersShrink DEF Exists, files
<1> QED
  BY <1>0, <1>2, <1>3, <1>5, QuietRows DEF XInv

-----------------------------------------------------------------------------
(* The worker loop *)

\* Steps of a worker that touch no table and take on no new job.
LEMMA XQuietWorker ==
    ASSUME XInv, IInv', UNCHANGED <<files, queue>>,
           NEW w \in Worker,
           \A v \in Worker \ {w} : pc'[v] = pc[v] /\ job'[v] = job[v] /\ batch'[v] = batch[v],
           Jobs(w)' \subseteq Jobs(w),
           job'[w] \notin batch'[w],
           pc'[w] \notin {"complete", "fail"} => job'[w] = NoJob
    PROVE  XInv' /\ LifecycleStep
<1>1. \A v \in Worker : Jobs(v)' \subseteq Jobs(v)
  BY DEF Jobs
<1>2. Holding'
  <2>1. \A v \in Worker : pc'[v] \notin {"complete", "fail"} => job'[v] = NoJob
    BY DEF XInv, Holding
  <2>2. \A v \in Worker : job'[v] \notin batch'[v]
    BY DEF XInv, Holding
  <2> QED
    BY <1>1, <2>1, <2>2 DEF XInv, Holding, files
<1>3. ExclusiveClaim'
  BY <1>1, HoldersShrink DEF Exists, files, queue
<1> QED
  BY <1>2, <1>3, QuietRows DEF XInv, queue

LEMMA XLoop ==
    ASSUME XInv, NEW w \in Worker,
           \/ Start(w) \/ Crash(w) \/ QueueError(w) \/ BatchDone(w)
           \/ ProcessOk(w) \/ ProcessError(w)
           \/ StatusWriteError(w)
    PROVE  XInv' /\ LifecycleStep
<1>0. IInv'
  BY NextIInv DEF Next, WorkerStep, WorkerFault, XInv
<1>1. UNCHANGED <<files, queue>>
  BY DEF Start, Crash, QueueError, BatchDone, ProcessOk, ProcessError, StatusWriteError
<1>2. \A v \in Worker \ {w} : pc'[v] = pc[v] /\ job'[v] = job[v] /\ batch'[v] = batch[v]
  BY DEF Start, Crash, QueueError, BatchDone, ProcessOk, ProcessError, StatusWriteError,
     WriteFailed, JobOver, XInv, IInv, TypeOK, WorkerTypeOK
<1>3. /\ Jobs(w)' \subseteq Jobs(w)
      /\ job'[w] \notin batch'[w]
      /\ pc'[w] \notin {"complete", "fail"} => job'[w] = NoJob
  <2> USE JobsTyped, Ranges DEF XInv, Holding
  <2>1. CASE Start(w) \/ QueueError(w) \/ BatchDone(w)
    BY <2>1 DEF Start, QueueError, BatchDone, Jobs, IInv, TypeOK, WorkerTypeOK
  <2>2. CASE Crash(w)
    BY <2>2 DEF Crash, Jobs, IInv, TypeOK, WorkerTypeOK
  <2>3. CASE ProcessOk(w) \/ ProcessError(w)
    <3>1. PICK j \in batch[w] : /\ job' = [job EXCEPT ![w] = j]
                                /\ batch' = [batch EXCEPT ![w] = @ \ {j}]
      BY <2>3 DEF ProcessOk, ProcessError
    <3>2. pc'[w] \in {"complete", "fail"}
      BY <2>3 DEF ProcessOk, ProcessError, IInv, TypeOK, WorkerTypeOK
    <3> QED
      BY <3>1, <3>2 DEF Jobs, IInv, TypeOK, WorkerTypeOK
  <2>4. CASE StatusWriteError(w)
    <3>1. CASE JobOver(w)
      BY <2>4, <3>1 DEF StatusWriteError, JobOver, Jobs, IInv, TypeOK, WorkerTypeOK
    <3>2. CASE UNCHANGED <<pc, job, read>>
      BY <2>4, <3>2 DEF StatusWriteError, Jobs
    <3> QED
      BY <2>4, <3>1, <3>2 DEF StatusWriteError, WriteFailed
  <2> QED
    BY <2>1, <2>2, <2>3, <2>4
<1> QED
  BY <1>0, <1>1, <1>2, <1>3, XQuietWorker

\* The seed's two statements touch only rows that nobody holds.
LEMMA XSeed == ASSUME XInv, NEW w \in Worker, SeedIndexQueue(w)
               PROVE  XInv' /\ LifecycleStep
<1> USE DEF SeedIndexQueue
<1>0. IInv'
  BY NextIInv DEF Next, WorkerStep, XInv
<1>1. \A v \in Worker : Jobs(v)' = Jobs(v)
  BY DEF Jobs
<1>2. Holding'
  BY <1>1 DEF XInv, Holding, files, IInv, TypeOK, WorkerTypeOK
<1>3. \A f \in Id : status[f] # "none" \/ ~Exists(f) => status'[f] = status[f]
  BY DEF XInv, IInv, TypeOK, QueueTypeOK
<1>4. ExclusiveClaim'
  <2>1. \A v \in Worker : \A j \in Jobs(v) : j.file \in Id
    BY JobsTyped, Ranges DEF XInv
  <2>2. \A v \in Worker : \A j \in Jobs(v) : status'[j.file] = status[j.file]
    BY <1>3, <2>1 DEF XInv, ExclusiveClaim
  <2> QED
    BY <1>1, <2>2, HoldersShrink DEF Exists, files
<1>5. MarkOnlyWhenDone' /\ Unseeded' /\ ParkedOnlyAfterMaxAttempts'
  BY DEF XInv, IInv, TypeOK, QueueTypeOK, RowsOK, MarkOnlyWhenDone, Unseeded,
     ParkedOnlyAfterMaxAttempts
<1>6. LifecycleStep
  <2> DEFINE new == {f \in Id : Exists(f) /\ status[f] = "none"}
  <2>1. attempts = [f \in Id |-> IF f \in new THEN 0 ELSE attempts[f]]
    BY DEF XInv, IInv, TypeOK, QueueTypeOK, Unseeded
  <2>2. Lifecycle!Enqueue(new)
    BY <2>1 DEF Lifecycle!Enqueue
  <2> QED
    BY <2>2 DEF LifecycleStep, Lifecycle!JobNext
<1> QED
  BY <1>0, <1>2, <1>4, <1>5, <1>6 DEF XInv

LEMMA XRequeue == ASSUME XInv, NEW w \in Worker, RequeueStaleIndexQueue(w)
                  PROVE  XInv' /\ LifecycleStep
<1> USE DEF RequeueStaleIndexQueue
<1>0. IInv'
  BY NextIInv DEF Next, WorkerStep, XInv
<1>1. \A v \in Worker : Jobs(v)' = Jobs(v)
  BY DEF Jobs
<1>2. Holding'
  BY <1>1 DEF XInv, Holding, files, IInv, TypeOK, WorkerTypeOK
<1>3. \A f \in Id : Stale(f) => status[f] = "done" /\ Exists(f)
  BY DEF Stale, XInv, MarkOnlyWhenDone, IInv, RowsOK
<1>4. ExclusiveClaim'
  <2>1. \A v \in Worker : \A j \in Jobs(v) : j.file \in Id
    BY JobsTyped, Ranges DEF XInv
  <2>2. \A v \in Worker : \A j \in Jobs(v) : ~Stale(j.file)
    BY <1>3, <2>1 DEF XInv, ExclusiveClaim
  <2>3. \A v \in Worker : \A j \in Jobs(v) : /\ status'[j.file] = status[j.file]
                                            /\ attempts'[j.file] = attempts[j.file]
    BY <2>1, <2>2
  <2> QED
    BY <1>1, <2>3, HoldersShrink DEF Exists, files
<1>5. MarkOnlyWhenDone' /\ Unseeded' /\ ParkedOnlyAfterMaxAttempts'
  BY DEF XInv, MarkOnlyWhenDone, Unseeded, ParkedOnlyAfterMaxAttempts
<1>6. LifecycleStep
  <2> DEFINE stale == {f \in Id : Stale(f)}
  <2>1. /\ status' = [f \in Id |-> IF f \in stale THEN "pending" ELSE status[f]]
        /\ attempts' = [f \in Id |-> IF f \in stale THEN 0 ELSE attempts[f]]
    OBVIOUS
  <2>2. Lifecycle!Enqueue(stale)
    BY <1>3, <2>1 DEF Lifecycle!Enqueue
  <2> QED
    BY <2>2 DEF LifecycleStep, Lifecycle!JobNext
<1> QED
  BY <1>0, <1>2, <1>4, <1>5, <1>6 DEF XInv

\* A claimable row is held by nobody, so that claiming it disturbs no holder
\* and is one step of the lifecycle.
LEMMA XMarkClaimed ==
    ASSUME XInv, NEW S \in SUBSET {f \in Id : Claimable(f)}, MarkClaimed(S),
           UNCHANGED <<files, mark>>
    PROVE  /\ \A v \in Worker : \A j \in Jobs(v) :
                 /\ j.file \in Id
                 /\ j.file \notin S
                 /\ status'[j.file] = status[j.file]
                 /\ attempts'[j.file] = attempts[j.file]
                 /\ expired'[j.file] = expired[j.file]
           /\ MarkOnlyWhenDone' /\ Unseeded' /\ ParkedOnlyAfterMaxAttempts'
           /\ LifecycleStep
<1> USE DEF MarkClaimed
<1>1. \A v \in Worker : \A j \in Jobs(v) : j.file \in Id
  BY JobsTyped, Ranges DEF XInv
<1>2. \A f \in S : Exists(f) /\ status[f] \in {"pending", "claimed"} /\ f \in Id
  BY ExistsInId DEF Claimable, XInv
<1>3. \A v \in Worker : \A j \in Jobs(v) : j.file \notin S
  BY <1>1, <1>2 DEF Claimable, XInv, ExclusiveClaim
<1>4. MarkOnlyWhenDone' /\ Unseeded' /\ ParkedOnlyAfterMaxAttempts'
  BY <1>2 DEF XInv, MarkOnlyWhenDone, Unseeded, ParkedOnlyAfterMaxAttempts
<1>5. \A n \in 0 .. AttemptsCap : NextAttempt(n) = IF n <= MaxAttempts THEN n + 1 ELSE n
  BY ConstantsAssumption DEF NextAttempt, AttemptsCap
<1>6. Lifecycle!ClaimJobs(S)
  <2>1. attempts' = [f \in Id |-> IF f \in S /\ attempts[f] <= MaxAttempts
                                  THEN attempts[f] + 1 ELSE attempts[f]]
    BY <1>5 DEF XInv, IInv, TypeOK, QueueTypeOK
  <2> QED
    BY <1>2, <2>1 DEF Lifecycle!ClaimJobs
<1>7. LifecycleStep
  BY <1>6 DEF LifecycleStep, Lifecycle!JobNext
<1> QED
  BY <1>1, <1>3, <1>4, <1>7

LEMMA XClaim == ASSUME XInv, NEW w \in Worker, Claim(w) PROVE XInv' /\ LifecycleStep
<1>0. IInv'
  BY NextIInv DEF Next, WorkerStep, XInv
<1> DEFINE J(f) == [file |-> f, key |-> fkey[f], attempts |-> NextAttempt(attempts[f])]
<1>1. PICK S \in SUBSET {f \in Id : Claimable(f)} :
        /\ MarkClaimed(S)
        /\ batch' = [batch EXCEPT ![w] = {J(f) : f \in S}]
  BY DEF Claim
<1>2. /\ pc[w] = "claim"
      /\ pc' = [pc EXCEPT ![w] = "work"]
      /\ UNCHANGED <<files, mark, job>>
  BY DEF Claim
<1>3. /\ \A v \in Worker : \A j \in Jobs(v) :
            /\ j.file \in Id
            /\ j.file \notin S
            /\ status'[j.file] = status[j.file]
            /\ attempts'[j.file] = attempts[j.file]
            /\ expired'[j.file] = expired[j.file]
      /\ MarkOnlyWhenDone' /\ Unseeded' /\ ParkedOnlyAfterMaxAttempts'
      /\ LifecycleStep
  BY <1>1, <1>2, XMarkClaimed
<1>4. batch'[w] = {J(f) : f \in S} /\ \A v \in Worker \ {w} : batch'[v] = batch[v]
  BY <1>1 DEF XInv, IInv, TypeOK, WorkerTypeOK
<1>5. job'[w] = NoJob /\ Jobs(w)' = {J(f) : f \in S}
  BY <1>2, <1>4 DEF XInv, Holding, Jobs
<1>6. \A v \in Worker \ {w} : Jobs(v)' = Jobs(v)
  BY <1>2, <1>4 DEF Jobs
<1>7. \A f \in S : f \in Id /\ Exists(f) /\ f <= lastId
  BY ExistsInId, ConstantsAssumption
     DEF Claimable, XInv, IInv, RowsOK, TypeOK, FilesTypeOK, Id
<1>8. Holding'
  <2>1. \A v \in Worker : pc'[v] \notin {"complete", "fail"} => job'[v] = NoJob
    BY <1>2 DEF XInv, Holding, IInv, TypeOK, WorkerTypeOK
  <2>2. \A v \in Worker : job'[v] \notin batch'[v]
    <3>1. NoJob \notin batch'[w]
      BY <1>0, Ranges DEF IInv, TypeOK, WorkerTypeOK
    <3> QED
      BY <1>2, <1>4, <1>5, <3>1 DEF XInv, Holding
  <2>3. \A v \in Worker : \A i, j \in Jobs(v)' : i.file = j.file => i = j
    <3>1. \A i, j \in Jobs(w)' : i.file = j.file => i = j
      <4> SUFFICES ASSUME NEW i \in Jobs(w)', NEW j \in Jobs(w)', i.file = j.file
                   PROVE  i = j
        OBVIOUS
      <4>1. PICK f \in S : i = J(f)
        BY <1>5
      <4>2. PICK g \in S : j = J(g)
        BY <1>5
      <4> QED
        BY <4>1, <4>2
    <3>2. \A v \in Worker \ {w} : \A i, j \in Jobs(v)' : i.file = j.file => i = j
      BY <1>6 DEF XInv, Holding
    <3> QED
      BY <3>1, <3>2
  <2>4. \A v \in Worker : \A j \in Jobs(v)' : j.file <= lastId'
    BY <1>2, <1>5, <1>6, <1>7 DEF XInv, Holding, files
  <2> QED
    BY <2>1, <2>2, <2>3, <2>4 DEF Holding
<1>9. ExclusiveClaim'
  <2>1. HeldBy(w)' \subseteq S
    <3>1. HeldBy(w)' = {j.file : j \in Jobs(w)'}
      BY DEF HeldBy
    <3>2. \A j \in Jobs(w)' : j.file \in S
      <4> SUFFICES ASSUME NEW j \in Jobs(w)' PROVE j.file \in S
        OBVIOUS
      <4>1. PICK f \in S : j = J(f)
        BY <1>5
      <4> QED
        BY <4>1
    <3> QED
      BY <3>1, <3>2
  <2>2. \A v \in Worker \ {w} : HeldBy(v)' = HeldBy(v) /\ HeldBy(v) \cap S = {}
    BY <1>3, <1>6 DEF HeldBy
  <2>3. \A u, v \in Worker : u # v => (HeldBy(u) \cap HeldBy(v) = {})'
    BY <2>1, <2>2 DEF XInv, ExclusiveClaim
  <2>4. \A f \in S : /\ status'[f] = "claimed"
                     /\ attempts'[f] = NextAttempt(attempts[f])
                     /\ ~expired'[f]
    BY <1>1 DEF MarkClaimed
  <2>5. \A v \in Worker : \A j \in Jobs(v)' :
          Exists(j.file)' => /\ status'[j.file] = "claimed"
                             /\ attempts'[j.file] = j.attempts
                             /\ ~expired'[j.file]
    BY <1>2, <1>3, <1>5, <1>6, <2>4 DEF XInv, ExclusiveClaim, Exists, files
  <2> QED
    BY <2>3, <2>5 DEF ExclusiveClaim
<1> QED
  BY <1>0, <1>3, <1>8, <1>9 DEF XInv

LEMMA XClaimReplyLost == ASSUME XInv, NEW w \in Worker, ClaimReplyLost(w)
                         PROVE  XInv' /\ LifecycleStep
<1> USE DEF ClaimReplyLost
<1>0. IInv'
  BY NextIInv DEF Next, WorkerFault, XInv
<1>1. \A v \in Worker : Jobs(v)' = Jobs(v)
  BY DEF Jobs
<1>2. Holding'
  BY <1>1 DEF XInv, Holding, files, IInv, TypeOK, WorkerTypeOK
<1>3. /\ \A v \in Worker : \A j \in Jobs(v) :
            /\ status'[j.file] = status[j.file]
            /\ attempts'[j.file] = attempts[j.file]
            /\ expired'[j.file] = expired[j.file]
      /\ MarkOnlyWhenDone' /\ Unseeded' /\ ParkedOnlyAfterMaxAttempts'
      /\ LifecycleStep
  BY XMarkClaimed
<1>4. ExclusiveClaim'
  BY <1>1, <1>3, HoldersShrink DEF Exists, files
<1> QED
  BY <1>0, <1>2, <1>3, <1>4 DEF XInv

\* A worker reports on its job: it is the only holder, and drops it.
LEMMA XReport ==
    ASSUME XInv, NEW w \in Worker, job[w] \in Job, JobOver(w), UNCHANGED <<files, batch>>,
           \A f \in Id \ {job[w].file} : /\ status'[f] = status[f]
                                         /\ attempts'[f] = attempts[f]
                                         /\ expired'[f] = expired[f]
    PROVE  Holding' /\ ExclusiveClaim'
<1> USE DEF JobOver
<1>1. job'[w] = NoJob /\ \A v \in Worker \ {w} : job'[v] = job[v] /\ pc'[v] = pc[v]
  BY DEF XInv, IInv, TypeOK, WorkerTypeOK
<1>2. Jobs(w)' = batch[w] /\ \A v \in Worker \ {w} : Jobs(v)' = Jobs(v)
  BY <1>1 DEF Jobs
<1>3. \A v \in Worker : Jobs(v)' \subseteq Jobs(v)
  BY <1>2, JobsTyped DEF XInv
<1>4. \A v \in Worker : \A j \in Jobs(v)' : j.file \in Id /\ j.file # job[w].file
  <2> SUFFICES ASSUME NEW v \in Worker, NEW j \in Jobs(v)'
               PROVE  j.file \in Id /\ j.file # job[w].file
    OBVIOUS
  <2>1. j \in Jobs(v) /\ j.file \in Id /\ job[w] \in Jobs(w)
    BY <1>3, JobsTyped, Ranges DEF XInv
  <2>2. CASE v = w
    BY <1>2, <2>1, <2>2 DEF XInv, Holding
  <2>3. CASE v # w
    BY <2>1, <2>3 DEF XInv, ExclusiveClaim, HeldBy
  <2> QED
    BY <2>1, <2>2, <2>3
<1>5. ExclusiveClaim'
  BY <1>3, <1>4, HoldersShrink DEF Exists, files
<1>6. NoJob \notin batch[w]
  BY JobsTyped DEF XInv
<1>7. Holding'
  BY <1>1, <1>3, <1>6 DEF XInv, Holding, files
<1> QED
  BY <1>5, <1>7

\* The row of the job a worker reports on is still claimed by it.
LEMMA OwnRow == ASSUME XInv, NEW w \in Worker, pc[w] \in {"complete", "fail"}
                PROVE  /\ job[w] \in Job /\ job[w].file \in Id
                       /\ Exists(job[w].file) =>
                             /\ status[job[w].file] = "claimed"
                             /\ attempts[job[w].file] = job[w].attempts
<1>1. job[w] \in Job /\ job[w].file \in Id
  BY Ranges DEF XInv, IInv, WorkOK
<1> QED
  BY <1>1, JobsTyped DEF XInv, ExclusiveClaim

LEMMA XComplete == ASSUME XInv, NEW w \in Worker, CompleteIndexQueue(w)
                   PROVE  XInv' /\ LifecycleStep
<1> USE DEF CompleteIndexQueue
<1>0. IInv'
  BY NextIInv DEF Next, WorkerStep, XInv
<1> DEFINE f == job[w].file
<1>1. /\ job[w] \in Job /\ f \in Id
      /\ Exists(f) => status[f] = "claimed"
  BY OwnRow
<1>2. CASE Exists(f)
  <2>1. CompleteTx(f, read[w]) /\ JobOver(w) /\ UNCHANGED <<files, batch>>
    BY <1>2
  <2>2. /\ status' = [status EXCEPT ![f] = "done"]
        /\ UNCHANGED <<attempts, expired>>
        /\ \A g \in Id \ {f} : mark'[g] = mark[g]
    BY <2>1 DEF CompleteTx, XInv, IInv, TypeOK, QueueTypeOK
  <2>3. Holding' /\ ExclusiveClaim'
    BY <1>1, <2>1, <2>2, XReport DEF XInv, IInv, TypeOK, QueueTypeOK
  <2>4. MarkOnlyWhenDone' /\ Unseeded' /\ ParkedOnlyAfterMaxAttempts'
    BY <1>1, <2>2 DEF XInv, IInv, TypeOK, QueueTypeOK, MarkOnlyWhenDone, Unseeded,
       ParkedOnlyAfterMaxAttempts
  <2>5. Lifecycle!Finish(f)
    BY <1>1, <1>2, <2>2 DEF Lifecycle!Finish
  <2>6. LifecycleStep
    BY <1>1, <2>5 DEF LifecycleStep, Lifecycle!JobNext
  <2> QED
    BY <1>0, <2>3, <2>4, <2>6 DEF XInv
<1>3. CASE ~Exists(f)
  <2>1. UNCHANGED <<files, queue, batch>> /\ (JobOver(w) \/ WriteFailed(w))
    BY <1>3
  <2>2. CASE JobOver(w)
    <3>1. Holding' /\ ExclusiveClaim'
      BY <1>1, <2>1, <2>2, XReport DEF queue
    <3> QED
      BY <1>0, <2>1, <3>1, QuietRows DEF XInv, queue
  <2>3. CASE UNCHANGED <<pc, job, read>>
    BY <1>0, <2>1, <2>3, XQuietWorker DEF Jobs, XInv, Holding
  <2> QED
    BY <2>1, <2>2, <2>3 DEF WriteFailed
<1> QED
  BY <1>2, <1>3

LEMMA XFail == ASSUME XInv, NEW w \in Worker, FailIndexQueue(w)
               PROVE  XInv' /\ LifecycleStep
<1> USE DEF FailIndexQueue
<1>0. IInv'
  BY NextIInv DEF Next, WorkerStep, XInv
<1> DEFINE f == job[w].file
<1>1. /\ job[w] \in Job /\ f \in Id
      /\ Exists(f) => status[f] = "claimed" /\ attempts[f] = job[w].attempts
  BY OwnRow
<1>2. CASE Exists(f)
  <2>1. /\ status' = [status EXCEPT ![f] = IF Exhausted(job[w]) THEN "error" ELSE "pending"]
        /\ UNCHANGED <<attempts, expired, mark>>
    BY <1>2 DEF FailTx
  <2>2. Holding' /\ ExclusiveClaim'
    BY <1>1, <2>1, XReport DEF XInv, IInv, TypeOK, QueueTypeOK
  <2>3. Exhausted(job[w]) <=> attempts[f] >= MaxAttempts
    BY <1>1, <1>2 DEF Exhausted
  <2>4. mark[f] = Null
    BY <1>1, <1>2 DEF XInv, MarkOnlyWhenDone
  <2>5. MarkOnlyWhenDone' /\ Unseeded' /\ ParkedOnlyAfterMaxAttempts'
    BY <1>1, <2>1, <2>3, <2>4 DEF XInv, IInv, TypeOK, QueueTypeOK, MarkOnlyWhenDone,
       Unseeded, ParkedOnlyAfterMaxAttempts
  <2>6. Lifecycle!Retry(f) \/ Lifecycle!Park(f)
    <3>1. attempts[f] \in Nat /\ MaxAttempts \in Nat
      BY <1>1, ConstantsAssumption DEF XInv, IInv, TypeOK, QueueTypeOK, AttemptsCap
    <3> QED
      <4>1. CASE Exhausted(job[w])
        BY <1>1, <1>2, <2>1, <2>3, <4>1 DEF Lifecycle!Park
      <4>2. CASE ~Exhausted(job[w])
        <5>1. attempts[f] < MaxAttempts
          BY <2>3, <3>1, <4>2
        <5> QED
          BY <1>1, <1>2, <2>1, <4>2, <5>1 DEF Lifecycle!Retry
      <4> QED
        BY <4>1, <4>2
  <2>7. LifecycleStep
    BY <1>1, <2>6 DEF LifecycleStep, Lifecycle!JobNext
  <2> QED
    BY <1>0, <2>2, <2>5, <2>7 DEF XInv
<1>3. CASE ~Exists(f)
  <2>1. UNCHANGED <<files, queue, batch>> /\ JobOver(w)
    BY <1>3
  <2>2. Holding' /\ ExclusiveClaim'
    BY <1>1, <2>1, XReport DEF queue
  <2> QED
    BY <1>0, <2>1, <2>2, QuietRows DEF XInv, queue
<1> QED
  BY <1>2, <1>3

-----------------------------------------------------------------------------
(* Every step, and the theorems *)

LEMMA InitXInv == Init => XInv /\ Lifecycle!JobInit
<1> SUFFICES ASSUME Init PROVE XInv /\ Lifecycle!JobInit
  OBVIOUS
<1>1. \A w \in Worker : Jobs(w) = {}
  BY DEF Init, Jobs
<1>2. Holding /\ ExclusiveClaim
  BY <1>1 DEF Init, Holding, ExclusiveClaim, HeldBy
<1>3. MarkOnlyWhenDone /\ Unseeded /\ ParkedOnlyAfterMaxAttempts
  BY DEF Init, MarkOnlyWhenDone, Unseeded, ParkedOnlyAfterMaxAttempts
<1>4. Lifecycle!JobInit
  BY DEF Init, Lifecycle!JobInit
<1> QED
  BY <1>2, <1>3, <1>4, InitIInv DEF XInv

LEMMA NextXInv == ASSUME Timely PROVE XInv /\ [Next]_vars => XInv' /\ LifecycleStep
<1> SUFFICES ASSUME XInv, [Next]_vars PROVE XInv' /\ LifecycleStep
  OBVIOUS
<1>1. CASE World
  BY <1>1, XWorld
<1>2. CASE Clock
  BY <1>2, XClock
<1>3. ASSUME NEW w \in Worker, Start(w) \/ WorkerStep(w) \/ WorkerFault(w)
      PROVE  XInv' /\ LifecycleStep
  <2>1. ~StatusWriteAckLost(w)
    BY DEF StatusWriteAckLost, Timely
  <2> QED
    BY <1>3, <2>1, XLoop, XSeed, XRequeue, XClaim, XClaimReplyLost, XComplete, XFail
       DEF WorkerStep, WorkerFault
<1>4. CASE UNCHANGED vars
  <2>1. IInv'
    BY NextIInv DEF XInv
  <2>2. \A w \in Worker : Jobs(w)' = Jobs(w)
    BY <1>4 DEF vars, worker, Jobs
  <2>3. Holding'
    BY <1>4, <2>2 DEF XInv, Holding, vars, worker, files
  <2>4. ExclusiveClaim'
    BY <1>4, <2>2, HoldersShrink DEF vars, files, queue, Exists
  <2> QED
    BY <1>4, <2>1, <2>3, <2>4, QuietRows DEF XInv, vars, queue
<1> QED
  BY <1>1, <1>2, <1>3, <1>4 DEF Next

\* Without slow workers and lost acknowledgements two workers never hold the
\* same file, and the row of a held job is claimed with the holder's attempt.
THEOREM ClaimsAreExclusive == ASSUME Timely PROVE Spec => []ExclusiveClaim
<1>1. XInv => ExclusiveClaim
  BY DEF XInv
<1> QED
  BY <1>1, InitXInv, NextXInv, PTL DEF Spec

\* Then a job is parked only after MaxAttempts claims since it was enqueued.
THEOREM ParkedAfterMaxAttempts == ASSUME Timely PROVE Spec => []ParkedOnlyAfterMaxAttempts
<1>1. XInv => ParkedOnlyAfterMaxAttempts
  BY DEF XInv
<1> QED
  BY <1>1, InitXInv, NextXInv, PTL DEF Spec

\* And the queue implements the lifecycle of the diagram: its rows are created
\* pending, claimed, and leave claimed only by their claimant's report.
THEOREM QueueFollowsLifecycle == ASSUME Timely PROVE Spec => FollowsLifecycle
  BY InitXInv, NextXInv, PTL DEF Spec, FollowsLifecycle, Lifecycle!JobSpec, LifecycleStep

\* And error rows stay parked: no claimant is left that could report on them.
THEOREM ErrorRowsStayParked == ASSUME Timely PROVE Spec => ErrorStaysParked
<1>1. XInv /\ [Next]_vars
        => [\A f \in Id : status[f] = "error" => status'[f] \in {"error", "none"}]_vars
  <2> SUFFICES ASSUME XInv, [Next]_vars, NEW f \in Id, status[f] = "error"
               PROVE  status'[f] \in {"error", "none"}
    OBVIOUS
  <2>1. LifecycleStep
    BY NextXInv
  <2>2. CASE UNCHANGED Lifecycle!jobs
    BY <2>2 DEF Lifecycle!jobs
  <2>3. ASSUME NEW S \in SUBSET Id, Lifecycle!Enqueue(S) \/ Lifecycle!ClaimJobs(S)
        PROVE  status'[f] \in {"error", "none"}
    BY <2>3 DEF Lifecycle!Enqueue, Lifecycle!ClaimJobs
  <2>4. ASSUME NEW g \in Id,
               \/ Lifecycle!Finish(g) \/ Lifecycle!Retry(g)
               \/ Lifecycle!Park(g) \/ Lifecycle!Forget(g)
        PROVE  status'[f] \in {"error", "none"}
    BY <2>4 DEF Lifecycle!Finish, Lifecycle!Retry, Lifecycle!Park, Lifecycle!Forget,
       XInv, IInv, TypeOK, QueueTypeOK
  <2> QED
    BY <2>1, <2>2, <2>3, <2>4 DEF LifecycleStep, Lifecycle!JobNext
<1> QED
  BY <1>1, InitXInv, NextXInv, PTL DEF Spec, ErrorStaysParked

-----------------------------------------------------------------------------
(***************************************************************************)
(* Results only get newer, in the same regime.  A result is never newer    *)
(* than the object under its file's key, because everything that puts an   *)
(* object there does so later; what a worker has read, and what it will    *)
(* read for a job of its batch, is therefore at least as new as the result *)
(* it replaces, and nobody else replaces it meanwhile.                     *)
(***************************************************************************)

\* What is, or will come, under k is no older than m.
NotNewer(m, k) == obj[k] = NoObject \/ m <= obj[k].mtime

\* No time is ahead of the clock.
TimesOK ==
    /\ \A k \in Key : obj[k].mtime <= clock
    /\ \A f \in Id : result[f].mtime <= clock
    /\ \A w \in Worker : read[w].mtime <= clock

Steady(f) == Exists(f) /\ f \notin stray

\* What a worker has read lies between the result and the object.
ReadOK(w) ==
    pc[w] = "complete" /\ Steady(job[w].file) =>
        /\ result[job[w].file].mtime <= read[w].mtime
        /\ NotNewer(read[w].mtime, fkey[job[w].file])

\* The inductive invariant.
NewerInv ==
    /\ TimesOK
    /\ \A f \in Id : Steady(f) => NotNewer(result[f].mtime, fkey[f])
    /\ \A w \in Worker : \A j \in batch[w] :
          Steady(j.file) => NotNewer(result[j.file].mtime, j.key)
    /\ \A w \in Worker : ReadOK(w)

\* What a step does to the results.
OnlyNewer == \A f \in Id : fkey'[f] # NoKey /\ f \notin stray' => result'[f].mtime >= result[f].mtime

LEMMA TimesTyped ==
    ASSUME IInv
    PROVE  /\ clock \in Nat /\ \A k \in Key : obj[k].mtime \in Nat
           /\ \A f \in Id : result[f].mtime \in Nat
           /\ \A w \in Worker : read[w].mtime \in Nat
<1>1. NoObject.mtime = 0 /\ \A o \in Object : o.mtime \in Nat
  BY Ranges, ConstantsAssumption DEF NoObject, Time
<1>2. \A o \in Object \cup {NoObject} : o.mtime \in Nat
  BY <1>1
<1> QED
  BY <1>2, ConstantsAssumption DEF IInv, TypeOK, WorldTypeOK, QueueTypeOK, WorkerTypeOK

LEMMA JobFiles ==
    ASSUME IInv, NEW w \in Worker
    PROVE  /\ \A j \in batch[w] : j.file \in Id /\ j.key \in Key
           /\ pc[w] = "complete" => job[w] \in Job /\ job[w].file \in Id
  BY Ranges DEF IInv, TypeOK, WorkerTypeOK, WorkOK

\* Steps that leave objects, keys and results alone and take up no job.
LEMMA NewerKept ==
    ASSUME IInv, NewerInv, UNCHANGED <<obj, clock, stray, result, fkey>>,
           \A v \in Worker : batch'[v] \subseteq batch[v] /\ read'[v] \in {read[v], NoObject},
           \A v \in Worker : pc'[v] = "complete" =>
               pc[v] = "complete" /\ job'[v] = job[v] /\ read'[v] = read[v]
    PROVE  NewerInv' /\ OnlyNewer
<1>1. \A m, k : NotNewer(m, k)' <=> NotNewer(m, k)
  BY DEF NotNewer
<1>2. \A f : Steady(f)' <=> Steady(f)
  BY DEF Steady, Exists
<1>3. TimesOK'
  <2>1. NoObject.mtime = 0
    BY DEF NoObject
  <2> QED
    BY <2>1, TimesTyped DEF NewerInv, TimesOK
<1>4. \A v \in Worker : ReadOK(v)'
  BY <1>1, <1>2 DEF NewerInv, ReadOK
<1>5. OnlyNewer
  BY TimesTyped DEF OnlyNewer
<1> QED
  BY <1>1, <1>2, <1>3, <1>4, <1>5 DEF NewerInv

\* An object is put under a key, or goes away.
LEMMA NewerObjects ==
    ASSUME IInv, NewerInv, UNCHANGED <<stray, result, fkey, worker>>,
           clock' \in Nat, clock' >= clock,
           \A k \in Key : obj'[k] = obj[k] \/ obj'[k] = NoObject
                            \/ (obj'[k].mtime = clock' /\ clock' > clock)
    PROVE  NewerInv' /\ OnlyNewer
<1>0. clock \in Nat /\ NoObject.mtime = 0 /\ \A k \in Key : obj[k].mtime \in Nat
  BY TimesTyped DEF NoObject
<1>1. ASSUME NEW m \in Nat, NEW k \in Key, m <= clock, NotNewer(m, k) PROVE NotNewer(m, k)'
  BY <1>0, <1>1 DEF NotNewer
<1>2. \A f : Steady(f)' <=> Steady(f)
  BY DEF Steady, Exists
<1>3. TimesOK'
  <2>1. \A k \in Key : obj'[k].mtime <= clock'
    BY <1>0 DEF NewerInv, TimesOK
  <2>2. \A f \in Id : result'[f].mtime <= clock'
    BY <1>0, TimesTyped DEF NewerInv, TimesOK
  <2>3. \A w \in Worker : read'[w].mtime <= clock'
    BY <1>0, TimesTyped DEF NewerInv, TimesOK, worker
  <2> QED
    BY <2>1, <2>2, <2>3 DEF TimesOK
<1>4. \A f \in Id : Exists(f) => fkey[f] \in Key
  BY DEF IInv, TypeOK, FilesTypeOK, Exists
<1>5. \A f \in Id : Steady(f)' => NotNewer(result[f].mtime, fkey[f])'
  BY <1>1, <1>2, <1>4, TimesTyped DEF NewerInv, TimesOK, Steady
<1>6. \A w \in Worker : \A j \in batch[w] :
         Steady(j.file)' => NotNewer(result[j.file].mtime, j.key)'
  BY <1>1, <1>2, JobFiles, TimesTyped DEF NewerInv, TimesOK
<1>7. ASSUME NEW w \in Worker PROVE ReadOK(w)'
  <2>0. UNCHANGED <<pc, job, read>>
    BY DEF worker
  <2>1. PICK g, m : g = job[w].file /\ m = read[w].mtime
    OBVIOUS
  <2> SUFFICES ASSUME pc[w] = "complete", Steady(g)
               PROVE  result[g].mtime <= m /\ NotNewer(m, fkey[g])'
    BY <1>2, <2>0, <2>1 DEF ReadOK
  <2>2. g \in Id /\ m \in Nat /\ m <= clock /\ result[g].mtime <= m /\ NotNewer(m, fkey[g])
    BY <2>1, JobFiles, TimesTyped DEF NewerInv, TimesOK, ReadOK
  <2>3. fkey[g] \in Key
    BY <1>4, <2>2 DEF Steady
  <2>4. NotNewer(m, fkey[g])'
    BY <1>1, <2>2, <2>3
  <2> QED
    BY <2>2, <2>4
<1>8. OnlyNewer
  BY TimesTyped DEF OnlyNewer
<1>9. \A w \in Worker : batch'[w] = batch[w]
  BY DEF worker
<1> QED
  BY <1>3, <1>5, <1>6, <1>7, <1>8, <1>9 DEF NewerInv

LEMMA NewerMove ==
    ASSUME IInv, NewerInv, NEW f \in Id, NEW k \in Key, MoveFile(f, k)
    PROVE  NewerInv' /\ OnlyNewer
<1>1. /\ Exists(f) /\ k # fkey[f] /\ clock' = clock + 1
      /\ obj' = [obj EXCEPT ![k] = [content |-> obj[fkey[f]].content, mtime |-> clock + 1],
                            ![fkey[f]] = NoObject]
      /\ fkey' = [fkey EXCEPT ![f] = k] /\ UNCHANGED <<stray, result, worker>>
  BY DEF MoveFile, queue
<1>2. /\ clock \in Nat /\ NoObject.mtime = 0 /\ \A h \in Key : obj[h].mtime \in Nat
      /\ obj \in [Key -> Object \cup {NoObject}] /\ fkey \in [Id -> Key \cup {NoKey}]
      /\ fkey[f] \in Key /\ NoKey \notin Key
  BY <1>1, TimesTyped, ConstantsAssumption
     DEF NoObject, IInv, TypeOK, WorldTypeOK, FilesTypeOK, Exists
<1>3. obj'[k].mtime = clock + 1 /\ \A h \in Key : h # k => obj'[h] \in {obj[h], NoObject}
  BY <1>1, <1>2
<1>4. ASSUME NEW m \in Nat, NEW h \in Key, m <= clock, NotNewer(m, h) \/ h = k
      PROVE  NotNewer(m, h)'
  BY <1>2, <1>3, <1>4 DEF NotNewer
<1>5. \A g \in Id : Steady(g)' <=> Steady(g)
  BY <1>1, <1>2 DEF Steady, Exists
<1>6. \A g \in Id : Exists(g) => fkey'[g] \in Key /\ (fkey'[g] = fkey[g] \/ fkey'[g] = k)
  BY <1>1, <1>2 DEF Exists
<1>7. TimesOK'
  <2>1. \A h \in Key : obj'[h].mtime <= clock'
    BY <1>1, <1>2, <1>3 DEF NewerInv, TimesOK
  <2>2. \A g \in Id : result'[g].mtime <= clock'
    BY <1>1, <1>2, TimesTyped DEF NewerInv, TimesOK
  <2>3. \A w \in Worker : read'[w].mtime <= clock'
    BY <1>1, <1>2, TimesTyped DEF NewerInv, TimesOK, worker
  <2> QED
    BY <2>1, <2>2, <2>3 DEF TimesOK
<1>8. ASSUME NEW g \in Id, Steady(g) PROVE NotNewer(result[g].mtime, fkey[g])'
  <2>1. PICK m \in Nat : m = result[g].mtime /\ m <= clock /\ NotNewer(m, fkey[g])
    BY <1>8, TimesTyped DEF NewerInv, TimesOK
  <2>2. PICK h \in Key : h = fkey'[g] /\ (NotNewer(m, h) \/ h = k)
    BY <1>6, <1>8, <2>1 DEF Steady
  <2>3. NotNewer(m, h)'
    BY <1>4, <2>1, <2>2
  <2> QED
    BY <1>1, <2>1, <2>2, <2>3 DEF NotNewer
<1>9. ASSUME NEW w \in Worker, NEW j \in batch[w], Steady(j.file)
      PROVE  NotNewer(result[j.file].mtime, j.key)'
  <2>1. PICK m \in Nat : m = result[j.file].mtime /\ m <= clock /\ NotNewer(m, j.key)
    BY <1>9, JobFiles, TimesTyped DEF NewerInv, TimesOK
  <2>2. NotNewer(m, j.key)'
    BY <1>4, <2>1, JobFiles
  <2> QED
    BY <1>1, <2>1, <2>2
<1>10. ASSUME NEW w \in Worker PROVE ReadOK(w)'
  <2>0. UNCHANGED <<pc, job, read>>
    BY <1>1 DEF worker
  <2>1. PICK g, m : g = job[w].file /\ m = read[w].mtime
    OBVIOUS
  <2>2. pc[w] = "complete" => g \in Id
    BY <2>1, JobFiles
  <2> SUFFICES ASSUME pc[w] = "complete", Steady(g)
               PROVE  result[g].mtime <= m /\ NotNewer(m, fkey[g])'
    BY <1>1, <1>5, <2>0, <2>1, <2>2 DEF ReadOK
  <2>3. g \in Id /\ m \in Nat /\ m <= clock /\ result[g].mtime <= m /\ NotNewer(m, fkey[g])
    BY <2>1, <2>2, TimesTyped DEF NewerInv, TimesOK, ReadOK
  <2>4. PICK h \in Key : h = fkey'[g] /\ (NotNewer(m, h) \/ h = k)
    BY <1>6, <2>3 DEF Steady
  <2>5. NotNewer(m, h)'
    BY <1>4, <2>3, <2>4
  <2> QED
    BY <2>3, <2>4, <2>5 DEF NotNewer
<1>11. OnlyNewer
  BY <1>1, TimesTyped DEF OnlyNewer
<1>12. \A w \in Worker : batch'[w] = batch[w]
  BY <1>1 DEF worker
<1>13. \A w \in Worker : \A j \in batch[w] : j.file \in Id
  BY JobFiles
<1> QED
  BY <1>5, <1>7, <1>8, <1>9, <1>10, <1>11, <1>12, <1>13 DEF NewerInv

\* A row is inserted or deleted: the workers' files keep their ids.
LEMMA NewerRows ==
    ASSUME XInv, NewerInv, UNCHANGED <<obj, clock, stray, worker>>,
           \A f \in Id : Exists(f)' =>
               \/ Exists(f) /\ fkey'[f] = fkey[f] /\ result'[f] = result[f]
               \/ f > lastId /\ result'[f] = NoObject /\ fkey'[f] \in Key
                   /\ result[f] = NoObject,
           \A f \in Id : result'[f] \in {result[f], NoObject}
    PROVE  NewerInv' /\ OnlyNewer
<1>1. \A m, k : NotNewer(m, k)' <=> NotNewer(m, k)
  BY DEF NotNewer
<1>2. NoObject.mtime = 0 /\ \A k \in Key : NotNewer(0, k)
  BY TimesTyped DEF NoObject, NotNewer, XInv
<1>3. TimesOK'
  BY <1>2, TimesTyped DEF NewerInv, TimesOK, worker, XInv
<1>4. ASSUME NEW f \in Id, Steady(f)' PROVE NotNewer(result[f].mtime, fkey[f])'
  <2>1. CASE Exists(f) /\ fkey'[f] = fkey[f] /\ result'[f] = result[f]
    BY <1>1, <1>4, <2>1 DEF NewerInv, Steady
  <2>2. CASE result'[f] = NoObject /\ fkey'[f] \in Key
    BY <1>1, <1>2, <2>2
  <2> QED
    BY <1>4, <2>1, <2>2 DEF Steady
<1>5. \A w \in Worker : \A j \in Jobs(w) : j.file \in Id /\ ~(j.file > lastId)
  <2>1. \A w \in Worker : \A j \in Jobs(w) : j.file \in Id /\ j.file <= lastId
    BY JobsTyped, Ranges DEF XInv, Holding
  <2>2. lastId \in Nat /\ \A i \in Id : i \in Nat
    BY ConstantsAssumption DEF XInv, IInv, TypeOK, FilesTypeOK, Id
  <2> QED
    BY <2>1, <2>2
<1>6. \A w \in Worker : \A j \in Jobs(w) :
         Steady(j.file)' => Steady(j.file) /\ fkey'[j.file] = fkey[j.file]
                             /\ result'[j.file] = result[j.file]
  BY <1>5 DEF Steady
<1>7. ASSUME NEW w \in Worker, NEW j \in batch'[w], Steady(j.file)'
      PROVE  NotNewer(result[j.file].mtime, j.key)'
  <2>1. j \in batch[w] /\ j \in Jobs(w)
    BY <1>7 DEF worker, Jobs
  <2> QED
    BY <1>1, <1>6, <1>7, <2>1 DEF NewerInv
<1>8. ASSUME NEW w \in Worker PROVE ReadOK(w)'
  <2>0. UNCHANGED <<pc, job, read>>
    BY DEF worker
  <2>1. PICK g, m : g = job[w].file /\ m = read[w].mtime
    OBVIOUS
  <2> SUFFICES ASSUME pc[w] = "complete", Steady(g)'
               PROVE  result'[g].mtime <= m /\ NotNewer(m, fkey[g])'
    BY <2>0, <2>1 DEF ReadOK
  <2>2. job[w] \in Jobs(w)
    BY JobFiles, JobsTyped DEF XInv
  <2>3. Steady(g) /\ fkey'[g] = fkey[g] /\ result'[g] = result[g]
    BY <1>6, <2>1, <2>2
  <2>4. result[g].mtime <= m /\ NotNewer(m, fkey[g])
    BY <2>1, <2>3 DEF NewerInv, ReadOK
  <2> QED
    BY <1>1, <2>3, <2>4
<1>9. OnlyNewer
  <2> SUFFICES ASSUME NEW f \in Id, fkey'[f] # NoKey PROVE result'[f].mtime >= result[f].mtime
    BY DEF OnlyNewer
  <2>1. result'[f] = result[f] /\ result[f].mtime \in Nat
    BY TimesTyped DEF Exists, XInv
  <2> QED
    BY <2>1
<1> QED
  BY <1>3, <1>4, <1>7, <1>8, <1>9 DEF NewerInv

LEMMA NewerWorld == ASSUME XInv, NewerInv, World PROVE NewerInv' /\ OnlyNewer
<1>0. IInv /\ clock \in Nat
  BY TimesTyped DEF XInv
<1>1. ASSUME NEW k \in Key, PutObject(k) \/ RemoveObject(k) PROVE NewerInv' /\ OnlyNewer
  <2>1. UNCHANGED <<stray, result, fkey, worker>>
    BY <1>1 DEF PutObject, RemoveObject, files, queue
  <2>2. obj \in [Key -> Object \cup {NoObject}]
    BY <1>0 DEF IInv, TypeOK, WorldTypeOK
  <2>3. clock' \in Nat /\ clock' >= clock
    BY <1>0, <1>1 DEF PutObject, RemoveObject
  <2>4. \A h \in Key : obj'[h] = obj[h] \/ obj'[h] = NoObject
                         \/ (obj'[h].mtime = clock' /\ clock' > clock)
    BY <1>0, <1>1, <2>2 DEF PutObject, RemoveObject
  <2> QED
    BY <1>0, <2>1, <2>3, <2>4, NewerObjects
<1>2. ASSUME NEW k \in Key, ListObject(k) PROVE NewerInv' /\ OnlyNewer
  <2>1. UNCHANGED <<obj, clock, stray, result, fkey, worker>>
    BY <1>2 DEF ListObject, files, queue
  <2> QED
    BY <1>0, <2>1, NewerKept DEF worker
<1>3. ASSUME NEW e \in listing, UpsertFile(e) PROVE NewerInv' /\ OnlyNewer
  <2>1. UNCHANGED <<obj, clock, stray, result, worker>> /\ e.key \in Key
    BY <1>0, <1>3 DEF UpsertFile, queue, IInv, TypeOK, WorldTypeOK
  <2>2. CASE RowAt(e.key) # {}
    <3>1. fkey' = fkey
      BY <1>3, <2>2 DEF UpsertFile
    <3> QED
      BY <1>0, <2>1, <3>1, NewerKept DEF worker
  <2>3. CASE RowAt(e.key) = {}
    <3>1. fkey' = [fkey EXCEPT ![lastId + 1] = e.key] /\ lastId < MaxId
      BY <1>3, <2>3 DEF UpsertFile
    <3>2. /\ lastId \in Nat /\ lastId + 1 \in Id /\ lastId + 1 > lastId
          /\ fkey \in [Id -> Key \cup {NoKey}]
      BY <1>0, <3>1, ConstantsAssumption DEF IInv, TypeOK, FilesTypeOK, Id
    <3>3. result[lastId + 1] = NoObject
      BY <1>0, <3>2 DEF IInv, RowsOK
    <3>4. \A f \in Id : f # lastId + 1 => fkey'[f] = fkey[f]
      BY <3>1, <3>2
    <3>5. fkey'[lastId + 1] = e.key
      BY <3>1, <3>2
    <3> QED
      BY <2>1, <3>2, <3>3, <3>4, <3>5, NewerRows DEF Exists
  <2> QED
    BY <2>2, <2>3
<1>4. ASSUME NEW f \in Id, DeleteRow(f) PROVE NewerInv' /\ OnlyNewer
  <2>1. /\ UNCHANGED <<obj, clock, stray, worker>> /\ fkey' = [fkey EXCEPT ![f] = NoKey]
        /\ result' = [result EXCEPT ![f] = NoObject]
    BY <1>4 DEF DeleteRow, world
  <2>2. /\ fkey'[f] = NoKey /\ result'[f] = NoObject
        /\ \A g \in Id : g # f => fkey'[g] = fkey[g] /\ result'[g] = result[g]
    BY <1>0, <2>1 DEF IInv, TypeOK, FilesTypeOK, QueueTypeOK
  <2> QED
    BY <2>1, <2>2, NewerRows DEF Exists
<1>5. ASSUME NEW f \in Id, NEW k \in Key, MoveFile(f, k) PROVE NewerInv' /\ OnlyNewer
  BY <1>0, <1>5, NewerMove
<1> QED
  BY <1>1, <1>2, <1>3, <1>4, <1>5 DEF World

\* Steps of a worker that read no object and write no result.
LEMMA NewerLoop ==
    ASSUME XInv, NewerInv, NEW w \in Worker,
           \/ Start(w) \/ Crash(w) \/ QueueError(w) \/ BatchDone(w) \/ ProcessError(w)
           \/ StatusWriteError(w) \/ SeedIndexQueue(w) \/ RequeueStaleIndexQueue(w)
           \/ ClaimReplyLost(w) \/ FailIndexQueue(w)
    PROVE  NewerInv' /\ OnlyNewer
<1>0. IInv /\ WorkerTypeOK
  BY DEF XInv, IInv, TypeOK
<1>1. UNCHANGED <<obj, clock, stray, result, fkey>>
  BY DEF Start, Crash, QueueError, BatchDone, ProcessError, StatusWriteError, SeedIndexQueue,
     RequeueStaleIndexQueue, ClaimReplyLost, FailIndexQueue, FailTx, world, files, queue
<1>2. \A v \in Worker : v # w => /\ batch'[v] = batch[v] /\ read'[v] = read[v]
                                 /\ pc'[v] = pc[v] /\ job'[v] = job[v]
  <2>1. CASE StatusWriteError(w) \/ FailIndexQueue(w)
    BY <1>0, <2>1 DEF StatusWriteError, FailIndexQueue, WriteFailed, JobOver, WorkerTypeOK
  <2>2. CASE ~(StatusWriteError(w) \/ FailIndexQueue(w))
    BY <1>0, <2>2 DEF Start, Crash, QueueError, BatchDone, ProcessError, SeedIndexQueue,
       RequeueStaleIndexQueue, ClaimReplyLost, WorkerTypeOK
  <2> QED
    BY <2>1, <2>2
<1>3. /\ batch'[w] \subseteq batch[w] /\ read'[w] \in {read[w], NoObject}
      /\ pc'[w] = "complete" => pc[w] = "complete" /\ job'[w] = job[w] /\ read'[w] = read[w]
  <2>1. CASE StatusWriteError(w) \/ FailIndexQueue(w)
    BY <1>0, <2>1 DEF StatusWriteError, FailIndexQueue, WriteFailed, JobOver, WorkerTypeOK
  <2>2. CASE Start(w) \/ Crash(w) \/ QueueError(w) \/ BatchDone(w)
    BY <1>0, <2>2 DEF Start, Crash, QueueError, BatchDone, WorkerTypeOK
  <2>3. CASE ProcessError(w)
    BY <1>0, <2>3 DEF ProcessError, WorkerTypeOK
  <2>4. CASE SeedIndexQueue(w) \/ RequeueStaleIndexQueue(w) \/ ClaimReplyLost(w)
    BY <1>0, <2>4 DEF SeedIndexQueue, RequeueStaleIndexQueue, ClaimReplyLost, WorkerTypeOK
  <2> QED
    BY <2>1, <2>2, <2>3, <2>4
<1>4. \A v \in Worker : batch'[v] \subseteq batch[v] /\ read'[v] \in {read[v], NoObject}
  BY <1>2, <1>3
<1>5. \A v \in Worker : pc'[v] = "complete" =>
         pc[v] = "complete" /\ job'[v] = job[v] /\ read'[v] = read[v]
  BY <1>2, <1>3
<1> QED
  BY <1>0, <1>1, <1>4, <1>5, NewerKept

\* A claim hands out its files' own keys.
LEMMA NewerClaim ==
    ASSUME XInv, NewerInv, NEW w \in Worker, Claim(w) PROVE NewerInv' /\ OnlyNewer
<1>0. IInv /\ WorkerTypeOK
  BY DEF XInv, IInv, TypeOK
<1>1. /\ UNCHANGED <<obj, clock, stray, result, fkey, job, read>>
      /\ pc' = [pc EXCEPT ![w] = "work"]
  BY DEF Claim, world, files
<1>2. PICK S \in SUBSET {f \in Id : Claimable(f)} :
         batch' = [batch EXCEPT ![w] =
             {[file |-> f, key |-> fkey[f], attempts |-> NextAttempt(attempts[f])] : f \in S}]
  BY DEF Claim
<1>3. /\ \A v \in Worker : v # w => batch'[v] = batch[v]
      /\ \A j \in batch'[w] : j.file \in Id /\ j.key = fkey[j.file]
  BY <1>0, <1>2 DEF WorkerTypeOK
<1>4. \A m, k : NotNewer(m, k)' <=> NotNewer(m, k)
  BY <1>1 DEF NotNewer
<1>5. \A f : Steady(f)' <=> Steady(f)
  BY <1>1 DEF Steady, Exists
<1>6. TimesOK'
  BY <1>1 DEF NewerInv, TimesOK
<1>7. \A v \in Worker : ReadOK(v)'
  <2>1. \A v \in Worker : pc'[v] = "complete" => pc[v] = "complete"
    BY <1>0, <1>1 DEF WorkerTypeOK
  <2> QED
    BY <1>1, <1>4, <1>5, <2>1 DEF NewerInv, ReadOK
<1>8. ASSUME NEW v \in Worker, NEW j \in batch'[v], Steady(j.file)
      PROVE  NotNewer(result[j.file].mtime, j.key)
  <2>1. CASE v = w
    BY <1>3, <1>8, <2>1 DEF NewerInv
  <2>2. CASE v # w
    BY <1>3, <1>8, <2>2 DEF NewerInv
  <2> QED
    BY <2>1, <2>2
<1>9. OnlyNewer
  BY <1>0, <1>1, TimesTyped DEF OnlyNewer
<1> QED
  BY <1>1, <1>4, <1>5, <1>6, <1>7, <1>8, <1>9 DEF NewerInv

\* A read under the file's own key.
LEMMA NewerRead ==
    ASSUME XInv, NewerInv, NEW w \in Worker, ProcessOk(w) PROVE NewerInv' /\ OnlyNewer
<1>0. IInv /\ WorkerTypeOK
  BY DEF XInv, IInv, TypeOK
<1>1. UNCHANGED <<obj, clock, result, fkey>> /\ pc' = [pc EXCEPT ![w] = "complete"]
  BY DEF ProcessOk, files, queue
<1>2. PICK j \in batch[w] :
         /\ obj[j.key] # NoObject /\ job' = [job EXCEPT ![w] = j]
         /\ batch' = [batch EXCEPT ![w] = @ \ {j}] /\ read' = [read EXCEPT ![w] = obj[j.key]]
         /\ stray' = IF fkey[j.file] = j.key THEN stray ELSE stray \cup {j.file}
  BY DEF ProcessOk
<1>3. /\ job'[w] = j /\ read'[w] = obj[j.key] /\ pc'[w] = "complete"
      /\ \A v \in Worker : batch'[v] \subseteq batch[v]
      /\ \A v \in Worker : v # w => job'[v] = job[v] /\ read'[v] = read[v] /\ pc'[v] = pc[v]
  BY <1>0, <1>1, <1>2 DEF WorkerTypeOK
<1>4. \A m, k : NotNewer(m, k)' <=> NotNewer(m, k)
  BY <1>1 DEF NotNewer
<1>5. \A f : Steady(f)' => Steady(f)
  BY <1>1, <1>2 DEF Steady, Exists
<1>6. TimesOK'
  BY <1>0, <1>1, <1>3, JobFiles DEF NewerInv, TimesOK
<1>7. ASSUME NEW v \in Worker PROVE ReadOK(v)'
  <2>1. CASE v = w
    <3>1. PICK g, m : g = j.file /\ m = obj[j.key].mtime
      OBVIOUS
    <3> SUFFICES ASSUME Steady(g)' PROVE result[g].mtime <= m /\ NotNewer(m, fkey[g])
      BY <1>1, <1>3, <1>4, <2>1, <3>1 DEF ReadOK
    <3>2. Steady(g) /\ fkey[g] = j.key
      BY <1>2, <1>5, <3>1 DEF Steady
    <3>3. result[g].mtime <= m
      BY <1>2, <3>1, <3>2 DEF NewerInv, NotNewer
    <3>4. m \in Nat
      BY <1>0, <3>1, JobFiles, TimesTyped
    <3> QED
      BY <3>1, <3>2, <3>3, <3>4 DEF NotNewer
  <2>2. CASE v # w
    BY <1>1, <1>3, <1>4, <1>5, <2>2 DEF NewerInv, ReadOK
  <2> QED
    BY <2>1, <2>2
<1>8. OnlyNewer
  BY <1>0, <1>1, TimesTyped DEF OnlyNewer
<1> QED
  BY <1>1, <1>3, <1>4, <1>5, <1>6, <1>7, <1>8 DEF NewerInv

\* A completion: the holder is the only one to know the file.
LEMMA NewerComplete ==
    ASSUME XInv, NewerInv, NEW w \in Worker, CompleteIndexQueue(w) PROVE NewerInv' /\ OnlyNewer
<1>0. IInv /\ WorkerTypeOK /\ result \in [Id -> Object \cup {NoObject}]
  BY DEF XInv, IInv, TypeOK, QueueTypeOK
<1>1. /\ pc[w] = "complete" /\ UNCHANGED <<obj, clock, stray, fkey, batch>>
      /\ JobOver(w) \/ WriteFailed(w)
  BY DEF CompleteIndexQueue, world, files
<1>2. PICK f : f = job[w].file
  OBVIOUS
<1>3. f \in Id /\ job[w] \in Jobs(w)
  BY <1>0, <1>1, <1>2, JobFiles, JobsTyped
<1>4. /\ \A v \in Worker : v # w => read'[v] = read[v] /\ pc'[v] = pc[v] /\ job'[v] = job[v]
      /\ pc'[w] = "complete" => job'[w] = job[w] /\ read'[w] = read[w]
      /\ read'[w] \in {read[w], NoObject}
  BY <1>0, <1>1 DEF JobOver, WriteFailed, WorkerTypeOK
<1>5. CASE result' = result
  <2>1. \A v \in Worker : batch'[v] \subseteq batch[v] /\ read'[v] \in {read[v], NoObject}
    BY <1>1, <1>4
  <2>2. \A v \in Worker : pc'[v] = "complete" =>
           pc[v] = "complete" /\ job'[v] = job[v] /\ read'[v] = read[v]
    BY <1>1, <1>4
  <2> QED
    BY <1>0, <1>1, <1>5, <2>1, <2>2, NewerKept
<1>6. CASE result' # result
  <2>1. Exists(f) /\ JobOver(w) /\ result' = [result EXCEPT ![f] = read[w]]
    BY <1>2, <1>6 DEF CompleteIndexQueue, CompleteTx, StoreResult, queue
  <2>2. result'[f] = read[w] /\ \A g \in Id : g # f => result'[g] = result[g]
    BY <1>0, <1>3, <2>1
  <2>3. pc'[w] # "complete"
    BY <1>0, <2>1 DEF JobOver, WorkerTypeOK
  <2>4. ReadOK(w) /\ read[w].mtime \in Nat /\ read[w].mtime <= clock
    BY <1>0, TimesTyped DEF NewerInv, TimesOK
  <2>5. \A m, k : NotNewer(m, k)' <=> NotNewer(m, k)
    BY <1>1 DEF NotNewer
  <2>6. \A g : Steady(g)' <=> Steady(g)
    BY <1>1 DEF Steady, Exists
  <2>7. TimesOK'
    <3>1. \A g \in Id : result'[g].mtime <= clock'
      BY <1>1, <2>2, <2>4 DEF NewerInv, TimesOK
    <3>2. \A v \in Worker : read'[v].mtime <= clock'
      BY <1>0, <1>1, <1>4, TimesTyped DEF NewerInv, TimesOK, NoObject
    <3> QED
      BY <1>1, <3>1, <3>2 DEF NewerInv, TimesOK
  <2>8. ASSUME NEW g \in Id, Steady(g) PROVE NotNewer(result'[g].mtime, fkey[g])
    <3>1. CASE g = f
      BY <1>1, <1>2, <2>2, <2>4, <2>8, <3>1 DEF ReadOK
    <3>2. CASE g # f
      BY <2>2, <2>8, <3>2 DEF NewerInv
    <3> QED
      BY <3>1, <3>2
  <2>9. ASSUME NEW v \in Worker, NEW j \in batch[v]
        PROVE  j.file \in Id /\ j.file # f
    <3>1. j \in Jobs(v) /\ j.file \in Id /\ job[v] \notin batch[v]
      BY <1>0, JobFiles, JobsTyped DEF XInv, Holding
    <3>2. CASE v = w
      BY <1>2, <1>3, <3>1, <3>2 DEF XInv, Holding
    <3>3. CASE v # w
      BY <1>2, <1>3, <3>1, <3>3 DEF XInv, ExclusiveClaim, HeldBy
    <3> QED
      BY <3>1, <3>2, <3>3
  <2>10. ASSUME NEW v \in Worker, NEW j \in batch[v], Steady(j.file)
         PROVE  NotNewer(result'[j.file].mtime, j.key)
    BY <2>2, <2>9, <2>10 DEF NewerInv
  <2>11. ASSUME NEW v \in Worker PROVE ReadOK(v)'
    <3>1. CASE v = w
      BY <2>3, <3>1 DEF ReadOK
    <3>2. CASE v # w
      <4>1. PICK g, m : g = job[v].file /\ m = read[v].mtime
        OBVIOUS
      <4> SUFFICES ASSUME pc[v] = "complete", Steady(g)
                   PROVE  result'[g].mtime <= m /\ NotNewer(m, fkey[g])
        BY <1>1, <1>4, <2>5, <2>6, <3>2, <4>1 DEF ReadOK
      <4>2. g \in Id /\ job[v] \in Jobs(v)
        BY <1>0, <4>1, JobFiles, JobsTyped
      <4>3. g # f
        BY <1>2, <1>3, <3>2, <4>1, <4>2 DEF XInv, ExclusiveClaim, HeldBy
      <4> QED
        BY <2>2, <4>1, <4>2, <4>3 DEF NewerInv, ReadOK
    <3> QED
      BY <3>1, <3>2
  <2>12. OnlyNewer
    <3> SUFFICES ASSUME NEW g \in Id, fkey'[g] # NoKey, g \notin stray'
                 PROVE  result'[g].mtime >= result[g].mtime
      BY DEF OnlyNewer
    <3>1. result[g].mtime \in Nat
      BY <1>0, TimesTyped
    <3>2. CASE g = f
      <4>1. Steady(f)
        BY <1>1, <2>1, <3>2 DEF Steady
      <4>2. result[f].mtime <= read[w].mtime
        BY <1>1, <1>2, <2>4, <4>1 DEF ReadOK
      <4> QED
        BY <2>2, <2>4, <3>1, <3>2, <4>2
    <3>3. CASE g # f
      BY <2>2, <3>1, <3>3
    <3> QED
      BY <3>2, <3>3
  <2> QED
    BY <1>1, <2>5, <2>6, <2>7, <2>8, <2>10, <2>11, <2>12 DEF NewerInv
<1> QED
  BY <1>5, <1>6

LEMMA InitNewer == Init => NewerInv
<1> SUFFICES ASSUME Init PROVE NewerInv
  OBVIOUS
<1>1. TimesOK
  BY DEF Init, TimesOK, NoObject
<1>2. \A f \in Id : ~Steady(f)
  BY DEF Init, Steady, Exists
<1>3. \A w \in Worker : batch[w] = {} /\ pc[w] = "down"
  BY DEF Init
<1> QED
  BY <1>1, <1>2, <1>3 DEF NewerInv, ReadOK

LEMMA NextNewer ==
    ASSUME Timely PROVE XInv /\ NewerInv /\ [Next]_vars => NewerInv' /\ OnlyNewer
<1> SUFFICES ASSUME XInv, NewerInv, [Next]_vars PROVE NewerInv' /\ OnlyNewer
  OBVIOUS
<1>0. IInv
  BY DEF XInv
<1>1. CASE World
  BY <1>1, NewerWorld
<1>2. CASE Clock
  <2>1. UNCHANGED <<obj, clock, stray, result, fkey, worker>>
    BY <1>2 DEF Clock, BackoffElapses, ClaimExpires, world, files
  <2> QED
    BY <1>0, <2>1, NewerKept DEF worker
<1>3. ASSUME NEW w \in Worker, Start(w) \/ WorkerStep(w) \/ WorkerFault(w)
      PROVE  NewerInv' /\ OnlyNewer
  <2>1. ~StatusWriteAckLost(w)
    BY DEF StatusWriteAckLost, Timely
  <2> QED
    BY <1>3, <2>1, NewerLoop, NewerClaim, NewerRead, NewerComplete DEF WorkerStep, WorkerFault
<1>4. CASE UNCHANGED vars
  <2>1. UNCHANGED <<obj, clock, stray, result, fkey, worker>>
    BY <1>4 DEF vars, world, files, queue
  <2> QED
    BY <1>0, <2>1, NewerKept DEF worker
<1> QED
  BY <1>1, <1>2, <1>3, <1>4 DEF Next

\* And a re-index never replaces a file's result by an older one, unless its
\* file was moved between the claim and the read.
THEOREM ResultsOnlyGetNewer == ASSUME Timely PROVE Spec => ResultNeverGoesBack
<1>1. XInv /\ NewerInv /\ [Next]_vars
        => [\A f \in Id : fkey'[f] # NoKey /\ f \notin stray'
                            => result'[f].mtime >= result[f].mtime]_vars
  BY NextNewer DEF OnlyNewer
<1> QED
  BY <1>1, InitXInv, InitNewer, NextXInv, NextNewer, PTL DEF Spec, ResultNeverGoesBack
=============================================================================
