------------------------- MODULE FilesServiceProofs -------------------------
(***************************************************************************)
(* What holds of the files service for any number of requests, keys, files *)
(* and faults, any pool size and any hash: what a request leaves behind,   *)
(* what all may wait for, that moves that share a key exclude each other,  *)
(* and that concurrent moves of different files lose nothing.              *)
(***************************************************************************)
EXTENDS FilesService, FiniteSetTheorems, WellFoundedInduction, TLAPS

\* The key locked first.
FirstKey(r) == IF src[r] < dst[r] THEN src[r] ELSE dst[r]

\* A move past its first lock holds it, and past its second holds both.
HoldsLocks ==
    \A r \in Request :
        /\ pc[r] = "lock2" => owner[Hash[FirstKey(r)]] = r
        /\ pc[r] \in Critical => owner[Hash[src[r]]] = r /\ owner[Hash[dst[r]]] = r

\* A move pins its connection from AcquireMoveLocks on.
PinsConnection == \A r \in Request : pc[r] \in Critical \cup {"lock1", "lock2"} => r \in pinned

LockInv == TypeOK /\ HoldsLocks /\ PinsConnection /\ NothingLeaks

-----------------------------------------------------------------------------
(* Types *)

LEMMA Ranges ==
    /\ None \notin Key /\ None \notin File /\ None \notin Content
    /\ Key \subseteq Nat /\ File \subseteq Nat /\ Content \subseteq Nat
    /\ \A k \in Key : Hash[k] \in LockIds
    /\ None \notin Request /\ Pooled \notin Request /\ None # Pooled
  BY FilesAssumption DEF Pooled, Key, File, Content, None, LockIds

\* Pc labels by class.
LEMMA Labels ==
    /\ "idle" \notin Moving \cup Deleting \cup Committing
    /\ Critical \subseteq Moving \ {"check", "acquire", "lock1", "lock2"}
    /\ Moving = Critical \cup {"check", "acquire", "lock1", "lock2"}
    /\ Moving \cap (Deleting \cup Committing) = {}
  BY DEF Moving, Deleting, Committing, Critical

LEMMA InitLockInv == Init => LockInv
<1> SUFFICES ASSUME Init PROVE LockInv
  OBVIOUS
<1>1. S3TypeOK
  BY FilesAssumption DEF Init, S3TypeOK, Content, Key
<1>2. TablesTypeOK
  BY FilesAssumption DEF Init, TablesTypeOK, File, Key
<1>3. LocksTypeOK /\ RequestTypeOK
  BY Labels DEF Init, LocksTypeOK, RequestTypeOK
<1>4. faults \in 0 .. MaxFaults
  BY FilesAssumption DEF Init
<1>5. HoldsLocks /\ PinsConnection /\ NothingLeaks
  BY Labels DEF Init, HoldsLocks, PinsConnection, NothingLeaks
<1> QED
  BY <1>1, <1>2, <1>3, <1>4, <1>5 DEF LockInv, TypeOK

\* A request returns: its fields are None, nobody else's change.
LEMMA ReturnType == ASSUME RequestTypeOK, NEW r \in Request, Return(r)
                    PROVE  RequestTypeOK'
<1>1. \A q \in Request \ {r} : /\ pc'[q] = pc[q] /\ fid'[q] = fid[q] /\ src'[q] = src[q]
                               /\ dst'[q] = dst[q] /\ cur'[q] = cur[q]
  BY DEF Return, RequestTypeOK
<1>2. pc'[r] = "idle"
  BY DEF Return, RequestTypeOK
<1>3. /\ pc' \in [Request -> {"idle"} \cup Moving \cup Deleting \cup Committing]
      /\ fid' \in [Request -> File \cup {None}]
      /\ src' \in [Request -> Key \cup {None}]
      /\ dst' \in [Request -> Key \cup {None}]
      /\ cur' \in [Request -> Key \cup {None}]
  BY DEF Return, RequestTypeOK
<1> QED
  BY <1>1, <1>2, <1>3, Labels DEF RequestTypeOK

\* A move goes from label to label and keeps its fields.
LEMMA GotoType == ASSUME RequestTypeOK, NEW r \in Request, NEW label \in Moving,
                         pc[r] \in Moving, Goto(r, label),
                         UNCHANGED <<fid, src, dst, cur>>,
                         label \in Critical \ {"reread"} => cur[r] \in Key
                  PROVE  RequestTypeOK'
  BY Labels DEF Goto, RequestTypeOK

\* r ends: its connection goes back, and so do its locks but those whose unlock
\* failed; nobody else's change.
Ends(r) ==
    /\ owner' \in [LockIds -> Request \cup {None, Pooled}]
    /\ leaked' \subseteq LockIds
    /\ \A h \in LockIds : owner[h] = r => owner'[h] = None \/ (owner'[h] = Pooled /\ h \in leaked')
    /\ \A h \in LockIds : owner[h] # r => owner'[h] = owner[h] /\ (h \in leaked => h \in leaked')
    /\ pinned' = pinned \ {r}
    /\ Return(r)

LEMMA ReleaseEnds == ASSUME LockInv, NEW r \in Request, Release(r) PROVE Ends(r)
<1>1. PICK L \in UnlockErrors(r) :
         /\ leaked' = leaked \cup L
         /\ owner' = [h \in LockIds |-> IF owner[h] # r THEN owner[h]
                                        ELSE IF h \in leaked' THEN Pooled ELSE None]
  BY DEF Release, ReleaseLocks
<1>2. L \subseteq LockIds /\ leaked \subseteq LockIds /\ owner \in [LockIds -> Request \cup {None, Pooled}]
  BY DEF UnlockErrors, HeldBy, LockInv, TypeOK, LocksTypeOK
<1>3. leaked' \subseteq LockIds /\ owner' \in [LockIds -> Request \cup {None, Pooled}]
  BY <1>1, <1>2
<1>4. \A h \in LockIds : owner'[h] = IF owner[h] # r THEN owner[h]
                                    ELSE IF h \in leaked' THEN Pooled ELSE None
  BY <1>1
<1>5. pinned' = pinned \ {r} /\ Return(r) /\ \A h \in leaked : h \in leaked'
  BY <1>1 DEF Release
<1>6. \A h \in LockIds : owner[h] = r => owner'[h] = None \/ (owner'[h] = Pooled /\ h \in leaked')
  BY <1>4
<1>7. \A h \in LockIds : owner[h] # r => owner'[h] = owner[h] /\ (h \in leaked => h \in leaked')
  BY <1>4, <1>5
<1> QED
  BY <1>3, <1>5, <1>6, <1>7, Zenon DEF Ends

LEMMA CrashEnds == ASSUME LockInv, NEW r \in Request, Crash(r) PROVE Ends(r)
<1>1. \A h \in LockIds : owner'[h] = IF owner[h] = r THEN None ELSE owner[h]
  BY DEF Crash
<1>2. \A h \in LockIds : owner[h] # r => h \notin HeldBy(r)
  BY DEF HeldBy
<1>3. leaked' = leaked \ HeldBy(r) /\ pinned' = pinned \ {r} /\ Return(r)
  BY DEF Crash
<1>4. leaked' \subseteq LockIds /\ owner' \in [LockIds -> Request \cup {None, Pooled}]
  BY <1>3 DEF Crash, LockInv, TypeOK, LocksTypeOK
<1>5. \A h \in LockIds : owner[h] = r => owner'[h] = None \/ (owner'[h] = Pooled /\ h \in leaked')
  BY <1>1
<1>6. \A h \in LockIds : owner[h] # r => owner'[h] = owner[h] /\ (h \in leaked => h \in leaked')
  BY <1>1, <1>2, <1>3
<1> QED
  BY <1>3, <1>4, <1>5, <1>6, Zenon DEF Ends

\* Whatever ends gives everything back that it can.
LEMMA EndLocks ==
    ASSUME LockInv, NEW r \in Request, Ends(r)
    PROVE  LocksTypeOK' /\ RequestTypeOK' /\ HoldsLocks' /\ PinsConnection' /\ NothingLeaks'
<1>1. RequestTypeOK'
  BY ReturnType DEF Ends, LockInv, TypeOK
<1>2. LocksTypeOK'
  BY DEF Ends, LockInv, TypeOK, LocksTypeOK
<1>3. \A q \in Request \ {r} : pc'[q] = pc[q] /\ src'[q] = src[q] /\ dst'[q] = dst[q]
  BY DEF Ends, Return, LockInv, TypeOK, RequestTypeOK
<1>4. pc'[r] = "idle"
  BY DEF Ends, Return, LockInv, TypeOK, RequestTypeOK
<1>5. \A h \in LockIds : owner[h] # r => owner'[h] = owner[h]
  BY DEF Ends
<1>6. HoldsLocks'
  <2> SUFFICES ASSUME NEW q \in Request
               PROVE  /\ pc'[q] = "lock2" => owner'[Hash[FirstKey(q)']] = q
                      /\ pc'[q] \in Critical => /\ owner'[Hash[src'[q]]] = q
                                                /\ owner'[Hash[dst'[q]]] = q
    BY DEF HoldsLocks
  <2>1. CASE q = r
    BY <2>1, <1>4, Labels
  <2>2. CASE q # r
    <3>1. pc[q] \in Moving => src[q] \in Key /\ dst[q] \in Key /\ FirstKey(q) \in Key
      BY Labels DEF LockInv, TypeOK, RequestTypeOK, FirstKey
    <3>2. FirstKey(q)' = FirstKey(q) /\ pc'[q] = pc[q] /\ src'[q] = src[q] /\ dst'[q] = dst[q]
      BY <2>2, <1>3 DEF FirstKey
    <3>3. \A k \in Key : owner[Hash[k]] = q => owner'[Hash[k]] = q
      BY <2>2, <1>5, Ranges
    <3>4. pc[q] \in {"lock2"} \cup Critical => pc[q] \in Moving
      BY Labels
    <3> QED
      BY <3>1, <3>2, <3>3, <3>4 DEF LockInv, HoldsLocks
  <2> QED
    BY <2>1, <2>2
<1>7. PinsConnection'
  BY <1>3, <1>4, Labels DEF Ends, LockInv, PinsConnection
<1>8. NothingLeaks'
  <2>1. \A q \in pinned' : pc'[q] \in Moving \ {"check", "acquire"}
    BY <1>3 DEF Ends, LockInv, TypeOK, LocksTypeOK, NothingLeaks
  <2>2. ASSUME NEW h \in LockIds, owner'[h] # None
        PROVE  owner'[h] \in pinned' \/ (owner'[h] = Pooled /\ h \in leaked')
    BY <2>2 DEF Ends, LockInv, NothingLeaks
  <2> QED
    BY <2>1, <2>2 DEF NothingLeaks
<1> QED
  BY <1>1, <1>2, <1>6, <1>7, <1>8

LEMMA ReleaseStep ==
    ASSUME LockInv, NEW r \in Request, Release(r)
    PROVE  LocksTypeOK' /\ RequestTypeOK' /\ HoldsLocks' /\ PinsConnection' /\ NothingLeaks'
  BY ReleaseEnds, EndLocks

\* A move keeps its locks from one label to the next.
LEMMA GotoLocks ==
    ASSUME LockInv, NEW r \in Request, NEW label \in Critical, pc[r] \in Critical,
           Goto(r, label), UNCHANGED <<src, dst, locks>>
    PROVE  HoldsLocks' /\ PinsConnection' /\ NothingLeaks'
<1>1. \A q \in Request : pc'[q] = IF q = r THEN label ELSE pc[q]
  BY DEF Goto, LockInv, TypeOK, RequestTypeOK
<1>2. HoldsLocks'
  BY <1>1, Labels DEF LockInv, HoldsLocks, FirstKey, locks
<1>3. PinsConnection' /\ NothingLeaks'
  BY <1>1, Labels DEF LockInv, TypeOK, LocksTypeOK, PinsConnection, NothingLeaks, locks
<1> QED
  BY <1>2, <1>3

\* Requests without locks go on, and everybody else stays as it is.
LEMMA FreeLocks ==
    ASSUME LockInv, NEW r \in Request, r \notin pinned, UNCHANGED locks,
           pc'[r] \notin Critical \cup {"lock1", "lock2"},
           \A q \in Request \ {r} : pc'[q] = pc[q] /\ src'[q] = src[q] /\ dst'[q] = dst[q]
    PROVE  LocksTypeOK' /\ HoldsLocks' /\ PinsConnection' /\ NothingLeaks'
<1>1. HoldsLocks'
  BY Labels DEF LockInv, HoldsLocks, FirstKey, locks
<1>2. PinsConnection' /\ NothingLeaks'
  BY Labels DEF LockInv, TypeOK, LocksTypeOK, PinsConnection, NothingLeaks, locks
<1>3. LocksTypeOK'
  BY DEF LockInv, TypeOK, LocksTypeOK, locks
<1> QED
  BY <1>1, <1>2, <1>3

\* A request outside the locked part of MoveFile pins nothing.
LEMMA Unpinned ==
    ASSUME LockInv, NEW r \in Request, pc[r] \notin Critical \cup {"lock1", "lock2"}
    PROVE  r \notin pinned
  BY Labels DEF LockInv, NothingLeaks

LEMMA S3Unchanged == S3TypeOK /\ UNCHANGED s3 => S3TypeOK'
  BY DEF S3TypeOK, s3

LEMMA TablesUnchanged == TablesTypeOK /\ UNCHANGED tables => TablesTypeOK'
  BY DEF TablesTypeOK, tables

LEMMA LocksUnchanged == LocksTypeOK /\ UNCHANGED locks => LocksTypeOK'
  BY DEF LocksTypeOK, locks

-----------------------------------------------------------------------------
(* MoveFile keeps the lock invariant *)

LEMMA MoveGetFileStep ==
    ASSUME LockInv, NEW r \in Request, NEW f \in File, NEW k \in Key, MoveGetFile(r, f, k)
    PROVE  LockInv'
<1>1. \A q \in Request \ {r} : /\ pc'[q] = pc[q] /\ fid'[q] = fid[q] /\ src'[q] = src[q]
                               /\ dst'[q] = dst[q] /\ cur'[q] = cur[q]
  BY DEF MoveGetFile, Goto, LockInv, TypeOK, RequestTypeOK
<1>2. pc'[r] = "check" /\ fid'[r] = f /\ src'[r] = row[f] /\ dst'[r] = k
  BY DEF MoveGetFile, Goto, LockInv, TypeOK, RequestTypeOK
<1>3. row[f] \in Key /\ row[f] # k
  BY DEF MoveGetFile, MovesTo, LockInv, TypeOK, TablesTypeOK
<1>4. RequestTypeOK'
  <2>1. /\ pc' \in [Request -> {"idle"} \cup Moving \cup Deleting \cup Committing]
        /\ fid' \in [Request -> File \cup {None}]
        /\ src' \in [Request -> Key \cup {None}]
        /\ dst' \in [Request -> Key \cup {None}]
        /\ cur' \in [Request -> Key \cup {None}]
    BY <1>3, Labels DEF MoveGetFile, Goto, LockInv, TypeOK, RequestTypeOK
  <2> QED
    BY <1>1, <1>2, <1>3, <2>1, Labels DEF LockInv, TypeOK, RequestTypeOK
<1>5. LocksTypeOK' /\ HoldsLocks' /\ PinsConnection' /\ NothingLeaks'
  <2>1. r \notin pinned
    BY Unpinned, Labels DEF MoveGetFile
  <2> QED
    BY <1>1, <1>2, <2>1, FreeLocks, Labels DEF MoveGetFile
<1> QED
  BY <1>4, <1>5, S3Unchanged, TablesUnchanged DEF MoveGetFile, LockInv, TypeOK

LEMMA MoveCheckStep == ASSUME LockInv, NEW r \in Request, MoveCheck(r) PROVE LockInv'
<1>1. RequestTypeOK'
  BY ReturnType, GotoType, Labels DEF MoveCheck, LockInv, TypeOK
<1>2. /\ \A q \in Request \ {r} : pc'[q] = pc[q] /\ src'[q] = src[q] /\ dst'[q] = dst[q]
      /\ pc'[r] \in {"idle", "acquire"}
  BY DEF MoveCheck, Return, Goto, LockInv, TypeOK, RequestTypeOK
<1>3. LocksTypeOK' /\ HoldsLocks' /\ PinsConnection' /\ NothingLeaks'
  BY <1>2, FreeLocks, Unpinned, Labels DEF MoveCheck
<1> QED
  BY <1>1, <1>3, S3Unchanged, TablesUnchanged DEF MoveCheck, LockInv, TypeOK

LEMMA MoveAcquireStep == ASSUME LockInv, NEW r \in Request, MoveAcquire(r) PROVE LockInv'
<1>1. RequestTypeOK'
  BY GotoType, Labels DEF MoveAcquire, LockInv, TypeOK
<1>2. \A q \in Request : pc'[q] = IF q = r THEN "lock1" ELSE pc[q]
  BY DEF MoveAcquire, Goto, LockInv, TypeOK, RequestTypeOK
<1>3. PICK L \in SUBSET HeldBy(Pooled) : owner' = [h \in LockIds |-> IF h \in L THEN r ELSE owner[h]]
  BY DEF MoveAcquire
<1>4. /\ \A h \in LockIds : owner'[h] = IF h \in L THEN r ELSE owner[h]
      /\ \A h \in L : owner[h] = Pooled
      /\ pinned' = pinned \cup {r} /\ leaked' = leaked
  BY <1>3 DEF HeldBy, MoveAcquire
<1>5. LocksTypeOK'
  BY <1>3, <1>4 DEF LockInv, TypeOK, LocksTypeOK
<1>6. PinsConnection'
  BY <1>2, <1>4 DEF LockInv, PinsConnection
<1>7. NothingLeaks'
  <2>1. \A h \in LockIds : owner'[h] # None => owner'[h] \in pinned' \/ (owner'[h] = Pooled /\ h \in leaked')
    BY <1>4 DEF LockInv, NothingLeaks
  <2>2. \A q \in pinned' : pc'[q] \in Moving \ {"check", "acquire"}
    BY <1>2, <1>4, Labels DEF LockInv, TypeOK, LocksTypeOK, NothingLeaks
  <2> QED
    BY <2>1, <2>2 DEF NothingLeaks
<1>8. HoldsLocks'
  <2> SUFFICES ASSUME NEW q \in Request
               PROVE  /\ pc'[q] = "lock2" => owner'[Hash[FirstKey(q)']] = q
                      /\ pc'[q] \in Critical => /\ owner'[Hash[src'[q]]] = q
                                                /\ owner'[Hash[dst'[q]]] = q
    BY DEF HoldsLocks
  <2>1. pc[q] \in Moving => src[q] \in Key /\ dst[q] \in Key /\ FirstKey(q) \in Key
    BY DEF LockInv, TypeOK, RequestTypeOK, FirstKey
  <2>2. FirstKey(q)' = FirstKey(q) /\ src'[q] = src[q] /\ dst'[q] = dst[q]
    BY DEF FirstKey, MoveAcquire
  <2>3. \A k \in Key : owner[Hash[k]] = q => owner'[Hash[k]] = q
    BY <1>4, Ranges
  <2>4. pc'[q] \in {"lock2"} \cup Critical => pc'[q] = pc[q] /\ pc[q] \in Moving
    BY <1>2, Labels
  <2> QED
    BY <2>1, <2>2, <2>3, <2>4 DEF LockInv, HoldsLocks
<1> QED
  BY <1>1, <1>5, <1>6, <1>7, <1>8, S3Unchanged, TablesUnchanged
     DEF MoveAcquire, LockInv, TypeOK, s3, tables

LEMMA MoveLockStep == ASSUME LockInv, NEW r \in Request, MoveLock(r) PROVE LockInv'
<1> DEFINE h == Hash[LockKey(r)]
<1>1. src[r] \in Key /\ dst[r] \in Key /\ src[r] # dst[r] /\ pc[r] \in Moving
  BY Labels DEF MoveLock, LockInv, TypeOK, RequestTypeOK
<1>2. LockKey(r) \in {src[r], dst[r]} /\ h \in LockIds /\ owner[h] \in {None, r}
  BY <1>1, Ranges DEF MoveLock, LockKey
<1>3. \A q \in Request : pc'[q] = IF q = r THEN IF pc[r] = "lock1" THEN "lock2" ELSE "reread"
                                            ELSE pc[q]
  BY DEF MoveLock, Goto, LockInv, TypeOK, RequestTypeOK
<1>4. \A i \in LockIds : owner'[i] = IF i = h THEN r ELSE owner[i]
  BY DEF MoveLock, LockInv, TypeOK, LocksTypeOK
<1>5. RequestTypeOK'
  <2>1. "lock2" \in Moving \ Critical /\ "reread" \in Moving
    BY Labels DEF Moving, Critical
  <2> QED
    BY <1>1, <2>1, GotoType DEF MoveLock, LockInv, TypeOK
<1>6. LocksTypeOK'
  BY <1>2 DEF MoveLock, LockInv, TypeOK, LocksTypeOK
<1>7. PinsConnection' /\ NothingLeaks'
  <2>1. r \in Request /\ r \in pinned' /\ pc'[r] \in Moving \ {"check", "acquire"}
    <3>1. pinned' = pinned /\ pc[r] \in {"lock1", "lock2"}
      BY DEF MoveLock
    <3>2. pc'[r] \in {"lock2", "reread"}
      BY <1>3
    <3>3. QED
      BY <3>1, <3>2, Labels DEF LockInv, PinsConnection, Critical
  <2>2. PinsConnection'
    BY <2>1, <1>3 DEF MoveLock, LockInv, PinsConnection
  <2>3. NothingLeaks'
    <3>1. \A i \in LockIds : owner'[i] # None =>
             owner'[i] \in pinned' \/ (owner'[i] = Pooled /\ i \in leaked')
      BY <2>1, <1>4 DEF MoveLock, LockInv, NothingLeaks
    <3>2. \A q \in pinned' : pc'[q] \in Moving \ {"check", "acquire"}
      BY <2>1, <1>3 DEF MoveLock, LockInv, TypeOK, LocksTypeOK, NothingLeaks
    <3> QED
      BY <3>1, <3>2 DEF NothingLeaks
  <2> QED
    BY <2>2, <2>3
<1>8. HoldsLocks'
  <2> SUFFICES ASSUME NEW q \in Request
               PROVE  /\ pc'[q] = "lock2" => owner'[Hash[FirstKey(q)']] = q
                      /\ pc'[q] \in Critical => /\ owner'[Hash[src'[q]]] = q
                                                /\ owner'[Hash[dst'[q]]] = q
    BY DEF HoldsLocks
  <2>0. UNCHANGED <<src, dst>>
    BY DEF MoveLock
  <2>1. CASE q # r
    <3>1. pc[q] \in Moving => src[q] \in Key /\ dst[q] \in Key /\ FirstKey(q) \in Key
      BY Labels DEF LockInv, TypeOK, RequestTypeOK, FirstKey
    <3>2. FirstKey(q)' = FirstKey(q) /\ pc'[q] = pc[q] /\ src'[q] = src[q] /\ dst'[q] = dst[q]
      BY <2>0, <2>1, <1>3 DEF FirstKey
    <3>3. \A k \in Key : owner[Hash[k]] = q => owner'[Hash[k]] = q
      BY <2>1, <1>2, <1>4, Ranges
    <3>4. pc[q] \in {"lock2"} \cup Critical => pc[q] \in Moving
      BY Labels
    <3> QED
      BY <3>1, <3>2, <3>3, <3>4 DEF LockInv, HoldsLocks
  <2>2. CASE q = r /\ pc[r] = "lock1"
    <3>1. LockKey(r) = FirstKey(r)
      BY <2>2, <1>1, Ranges DEF LockKey, FirstKey
    <3> QED
      BY <2>0, <2>2, <3>1, <1>2, <1>3, <1>4, Labels DEF FirstKey
  <2>3. CASE q = r /\ pc[r] = "lock2"
    <3>1. {LockKey(r), FirstKey(r)} = {src[r], dst[r]}
      BY <2>3, <1>1, Ranges DEF LockKey, FirstKey
    <3>2. owner[Hash[FirstKey(r)]] = r /\ Hash[FirstKey(r)] \in LockIds
      BY <2>3, <1>1, Ranges DEF LockInv, HoldsLocks, FirstKey
    <3> QED
      BY <2>0, <2>3, <3>1, <3>2, <1>2, <1>3, <1>4 DEF Critical
  <2> QED
    BY <2>1, <2>2, <2>3 DEF MoveLock
<1> QED
  BY <1>5, <1>6, <1>7, <1>8, S3Unchanged, TablesUnchanged DEF MoveLock, LockInv, TypeOK

LEMMA MoveAbortStep == ASSUME LockInv, NEW r \in Request, MoveDeadlockAbort(r) PROVE LockInv'
  BY ReleaseStep, S3Unchanged, TablesUnchanged DEF MoveDeadlockAbort, LockInv, TypeOK

LEMMA MoveRereadStep == ASSUME LockInv, NEW r \in Request, MoveReread(r) PROVE LockInv'
<1>1. CASE row[fid[r]] = None
  BY <1>1, ReleaseStep, S3Unchanged, TablesUnchanged DEF MoveReread, LockInv, TypeOK
<1>2. CASE row[fid[r]] # None
  <2>1. row[fid[r]] \in Key
    BY <1>2, Labels DEF MoveReread, LockInv, TypeOK, RequestTypeOK, TablesTypeOK, Critical
  <2>2. /\ cur' = [cur EXCEPT ![r] = row[fid[r]]]
        /\ Goto(r, "recheck")
        /\ UNCHANGED <<fid, src, dst, locks, s3, tables, faults>>
    BY <1>2 DEF MoveReread
  <2>3. pc[r] \in Critical /\ "recheck" \in Critical
    BY DEF MoveReread, Critical
  <2>4. RequestTypeOK'
    <3>1. \A q \in Request : /\ pc'[q] = IF q = r THEN "recheck" ELSE pc[q]
                             /\ cur'[q] = IF q = r THEN row[fid[r]] ELSE cur[q]
      BY <2>2 DEF Goto, LockInv, TypeOK, RequestTypeOK
    <3>2. /\ pc' \in [Request -> {"idle"} \cup Moving \cup Deleting \cup Committing]
          /\ cur' \in [Request -> Key \cup {None}]
      BY <2>1, <2>2, <2>3, Labels DEF Goto, LockInv, TypeOK, RequestTypeOK
    <3> QED
      BY <2>1, <2>2, <2>3, <3>1, <3>2, Labels DEF LockInv, TypeOK, RequestTypeOK
  <2>5. HoldsLocks' /\ PinsConnection' /\ NothingLeaks'
    BY <2>2, <2>3, GotoLocks
  <2> QED
    BY <2>2, <2>4, <2>5, S3Unchanged, TablesUnchanged, LocksUnchanged DEF LockInv, TypeOK
<1> QED
  BY <1>1, <1>2

LEMMA MoveRecheckStep == ASSUME LockInv, NEW r \in Request, MoveRecheck(r) PROVE LockInv'
<1>1. CASE Occupied(dst[r])
  BY <1>1, ReleaseStep, S3Unchanged, TablesUnchanged DEF MoveRecheck, LockInv, TypeOK
<1>2. CASE ~Occupied(dst[r])
  <2>1. Goto(r, "copy") /\ UNCHANGED <<fid, src, dst, cur, locks, s3, tables, faults>>
    BY <1>2 DEF MoveRecheck
  <2>2. pc[r] \in Critical \ {"reread"} /\ "copy" \in Critical
    BY DEF MoveRecheck, Critical
  <2>3. cur[r] \in Key
    BY <2>2 DEF LockInv, TypeOK, RequestTypeOK
  <2>4. RequestTypeOK'
    BY <2>1, <2>2, <2>3, GotoType, Labels DEF LockInv, TypeOK
  <2>5. HoldsLocks' /\ PinsConnection' /\ NothingLeaks'
    BY <2>1, <2>2, GotoLocks
  <2> QED
    BY <2>1, <2>4, <2>5, S3Unchanged, TablesUnchanged, LocksUnchanged DEF LockInv, TypeOK
<1> QED
  BY <1>1, <1>2

\* A copy between two keys keeps the types.
LEMMA CopyType ==
    ASSUME S3TypeOK, NEW from \in Key, NEW to \in Key,
           obj' = [obj EXCEPT ![to] = obj[from]], UNCHANGED <<lastPut, live>>
    PROVE  S3TypeOK'
  BY DEF S3TypeOK

\* And so does a deletion.
LEMMA RemoveType ==
    ASSUME S3TypeOK, NEW k \in Key, obj' = [obj EXCEPT ![k] = None],
           UNCHANGED <<lastPut, live>>
    PROVE  S3TypeOK'
  BY DEF S3TypeOK

LEMMA MoveCopyStep == ASSUME LockInv, NEW r \in Request, MoveCopy(r) PROVE LockInv'
<1>1. CASE obj[cur[r]] = None
  BY <1>1, ReleaseStep, S3Unchanged, TablesUnchanged DEF MoveCopy, LockInv, TypeOK, s3
<1>2. CASE obj[cur[r]] # None
  <2>1. /\ obj' = [obj EXCEPT ![dst[r]] = obj[cur[r]]]
        /\ Goto(r, "update") /\ UNCHANGED <<fid, src, dst, cur, locks, lastPut, live, tables, faults>>
    BY <1>2 DEF MoveCopy
  <2>2. pc[r] \in Critical \ {"reread"} /\ "update" \in Critical
    BY DEF MoveCopy, Critical
  <2>3. cur[r] \in Key /\ dst[r] \in Key
    BY <2>2, Labels DEF LockInv, TypeOK, RequestTypeOK
  <2>4. RequestTypeOK'
    BY <2>1, <2>2, <2>3, GotoType, Labels DEF LockInv, TypeOK
  <2>5. HoldsLocks' /\ PinsConnection' /\ NothingLeaks'
    BY <2>1, <2>2, GotoLocks
  <2>6. S3TypeOK'
    BY <2>1, <2>3, CopyType DEF LockInv, TypeOK
  <2> QED
    BY <2>1, <2>4, <2>5, <2>6, TablesUnchanged, LocksUnchanged DEF LockInv, TypeOK
<1> QED
  BY <1>1, <1>2

\* A move under the locks goes on, whatever row it writes.
LEMMA UpdateGoes ==
    ASSUME LockInv, NEW r \in Request, NEW label \in {"rollback", "deleteOld"},
           pc[r] = "update", Goto(r, label),
           UNCHANGED <<fid, src, dst, cur, locks, s3, lastFile>>,
           faults' \in 0 .. MaxFaults,
           row' \in {row, [row EXCEPT ![fid[r]] = dst[r]]}
    PROVE  LockInv'
<1>1. pc[r] \in Critical \ {"reread"} /\ label \in Critical
  BY DEF Critical
<1>2. cur[r] \in Key /\ dst[r] \in Key /\ fid[r] \in File
  BY <1>1, Labels DEF LockInv, TypeOK, RequestTypeOK
<1>3. RequestTypeOK'
  BY <1>1, <1>2, GotoType, Labels DEF LockInv, TypeOK
<1>4. HoldsLocks' /\ PinsConnection' /\ NothingLeaks'
  BY <1>1, GotoLocks
<1>5. TablesTypeOK'
  BY <1>2 DEF LockInv, TypeOK, TablesTypeOK
<1> QED
  BY <1>3, <1>4, <1>5, S3Unchanged, LocksUnchanged DEF LockInv, TypeOK

LEMMA MoveUpdateStep == ASSUME LockInv, NEW r \in Request, MoveUpdate(r) PROVE LockInv'
<1>1. pc[r] = "update" /\ UNCHANGED <<s3, lastFile, faults>> /\ faults' \in 0 .. MaxFaults
  BY DEF MoveUpdate, LockInv, TypeOK
<1>2. CASE Goto(r, "rollback") /\ UNCHANGED <<row, fid, src, dst, cur, locks>>
  BY <1>1, <1>2, UpdateGoes
<1>3. CASE Release(r) /\ UNCHANGED row
  BY <1>1, <1>3, ReleaseStep, S3Unchanged, TablesUnchanged DEF LockInv, TypeOK, tables
<1>4. CASE /\ row' = [row EXCEPT ![fid[r]] = dst[r]]
           /\ Goto(r, "deleteOld")
           /\ UNCHANGED <<fid, src, dst, cur, locks>>
  BY <1>1, <1>4, UpdateGoes
<1> QED
  BY <1>2, <1>3, <1>4 DEF MoveUpdate

LEMMA MoveDeleteOldStep == ASSUME LockInv, NEW r \in Request, MoveDeleteOld(r) PROVE LockInv'
<1>1. OldKey(r) \in Key
  BY Labels DEF OldKey, MoveDeleteOld, LockInv, TypeOK, RequestTypeOK, Critical
<1> QED
  BY <1>1, ReleaseStep, RemoveType, TablesUnchanged DEF MoveDeleteOld, LockInv, TypeOK

LEMMA MoveRollbackStep == ASSUME LockInv, NEW r \in Request, MoveRollback(r) PROVE LockInv'
<1>1. dst[r] \in Key
  BY Labels DEF MoveRollback, LockInv, TypeOK, RequestTypeOK, Critical
<1> QED
  BY <1>1, ReleaseStep, RemoveType, TablesUnchanged DEF MoveRollback, LockInv, TypeOK

-----------------------------------------------------------------------------
(* So do the other requests *)

LEMMA DeleteGetFileStep ==
    ASSUME LockInv, NEW r \in Request, NEW f \in File, DeleteGetFile(r, f) PROVE LockInv'
<1>1. \A q \in Request \ {r} : pc'[q] = pc[q] /\ fid'[q] = fid[q] /\ src'[q] = src[q]
  BY DEF DeleteGetFile, Goto, LockInv, TypeOK, RequestTypeOK
<1>2. /\ pc'[r] = "deleteObject" /\ fid'[r] = f /\ src'[r] = row[f] /\ row[f] \in Key
      /\ UNCHANGED <<dst, cur, locks, tables, faults>>
  BY DEF DeleteGetFile, Goto, LockInv, TypeOK, RequestTypeOK, TablesTypeOK
<1>3. "deleteObject" \in Deleting
  BY DEF Deleting
<1>4. RequestTypeOK'
  <2>1. /\ pc' \in [Request -> {"idle"} \cup Moving \cup Deleting \cup Committing]
        /\ fid' \in [Request -> File \cup {None}]
        /\ src' \in [Request -> Key \cup {None}]
    BY <1>2, <1>3 DEF DeleteGetFile, Goto, LockInv, TypeOK, RequestTypeOK
  <2>2. "deleteObject" \notin Moving \cup Committing \cup Critical
    BY DEF Moving, Committing, Critical
  <2> QED
    BY <1>1, <1>2, <1>3, <2>1, <2>2 DEF LockInv, TypeOK, RequestTypeOK
<1>5. LocksTypeOK' /\ HoldsLocks' /\ PinsConnection' /\ NothingLeaks'
  <2>1. pc[r] \notin Critical \cup {"lock1", "lock2"} /\ pc'[r] \notin Critical \cup {"lock1", "lock2"}
    BY <1>2 DEF DeleteGetFile, Critical
  <2> QED
    BY <1>1, <1>2, <2>1, FreeLocks, Unpinned
<1>6. S3TypeOK'
  BY DEF DeleteGetFile, LockInv, TypeOK, S3TypeOK
<1> QED
  BY <1>2, <1>4, <1>5, <1>6, TablesUnchanged DEF LockInv, TypeOK

LEMMA DeleteObjectStep == ASSUME LockInv, NEW r \in Request, DeleteObject(r) PROVE LockInv'
<1>1. /\ src[r] \in Key /\ fid[r] \in File /\ pc[r] = "deleteObject"
      /\ UNCHANGED <<fid, src, dst, cur, locks, tables, lastPut, live, faults>>
  BY DEF DeleteObject, Deleting, LockInv, TypeOK, RequestTypeOK
<1>2. \A q \in Request : pc'[q] = IF q = r THEN "deleteRow" ELSE pc[q]
  BY DEF DeleteObject, Goto, LockInv, TypeOK, RequestTypeOK
<1>3. "deleteRow" \in Deleting /\ "deleteRow" \notin Moving \cup Committing \cup Critical
  BY DEF Deleting, Moving, Committing, Critical
<1>4. RequestTypeOK'
  BY <1>1, <1>2, <1>3 DEF DeleteObject, Goto, LockInv, TypeOK, RequestTypeOK
<1>5. LocksTypeOK' /\ HoldsLocks' /\ PinsConnection' /\ NothingLeaks'
  <2>1. pc[r] \notin Critical \cup {"lock1", "lock2"}
    BY <1>1 DEF Critical
  <2> QED
    BY <1>1, <1>2, <1>3, <2>1, FreeLocks, Unpinned
<1>6. S3TypeOK'
  BY <1>1, RemoveType DEF DeleteObject, LockInv, TypeOK
<1> QED
  BY <1>1, <1>4, <1>5, <1>6, TablesUnchanged DEF LockInv, TypeOK

\* A request that holds nothing returns.
LEMMA ReturnStep ==
    ASSUME LockInv, NEW r \in Request, Return(r), UNCHANGED locks,
           pc[r] \in Deleting \cup Committing
    PROVE  RequestTypeOK' /\ LocksTypeOK' /\ HoldsLocks' /\ PinsConnection' /\ NothingLeaks'
<1>1. RequestTypeOK'
  BY ReturnType DEF LockInv, TypeOK
<1>2. /\ pc'[r] = "idle"
      /\ \A q \in Request \ {r} : pc'[q] = pc[q] /\ src'[q] = src[q] /\ dst'[q] = dst[q]
  BY DEF Return, LockInv, TypeOK, RequestTypeOK
<1>3. pc[r] \notin Critical \cup {"lock1", "lock2"}
  BY DEF Deleting, Committing, Critical
<1> QED
  BY <1>1, <1>2, <1>3, FreeLocks, Unpinned, Labels

LEMMA DeleteRowStep == ASSUME LockInv, NEW r \in Request, DeleteRow(r) PROVE LockInv'
<1>1. pc[r] \in Deleting
  BY DEF DeleteRow, Deleting
<1>2. TablesTypeOK'
  BY DEF DeleteRow, LockInv, TypeOK, TablesTypeOK
<1> QED
  BY <1>1, <1>2, ReturnStep, S3Unchanged DEF DeleteRow, LockInv, TypeOK

LEMMA PutObjectStep ==
    ASSUME LockInv, NEW r \in Request, NEW k \in Key, PutObject(r, k) PROVE LockInv'
<1>1. \A q \in Request \ {r} : pc'[q] = pc[q] /\ dst'[q] = dst[q]
  BY DEF PutObject, Goto, LockInv, TypeOK, RequestTypeOK
<1>2. /\ pc[r] = "idle" /\ pc'[r] = "stat" /\ dst'[r] = k
      /\ UNCHANGED <<fid, src, cur, locks, tables, faults>>
  BY DEF PutObject, Goto, LockInv, TypeOK, RequestTypeOK
<1>3. "stat" \in Committing /\ "stat" \notin Moving \cup Deleting \cup Critical
  BY DEF Committing, Moving, Deleting, Critical
<1>4. RequestTypeOK'
  <2>1. /\ pc' \in [Request -> {"idle"} \cup Moving \cup Deleting \cup Committing]
        /\ dst' \in [Request -> Key \cup {None}]
    BY <1>3 DEF PutObject, Goto, LockInv, TypeOK, RequestTypeOK
  <2> QED
    BY <1>1, <1>2, <1>3, <2>1 DEF LockInv, TypeOK, RequestTypeOK
<1>5. LocksTypeOK' /\ HoldsLocks' /\ PinsConnection' /\ NothingLeaks'
  <2>1. pc[r] \notin Critical \cup {"lock1", "lock2"}
    BY <1>2 DEF Critical
  <2> QED
    BY <1>1, <1>2, <1>3, <2>1, FreeLocks, Unpinned
<1>6. S3TypeOK'
  <2>1. lastPut + 1 \in Content /\ lastPut + 1 \in 0 .. MaxContent
    BY FilesAssumption DEF PutObject, LockInv, TypeOK, S3TypeOK, Content
  <2> QED
    BY <2>1 DEF PutObject, LockInv, TypeOK, S3TypeOK
<1> QED
  BY <1>2, <1>4, <1>5, <1>6, TablesUnchanged DEF LockInv, TypeOK

LEMMA CommitStatStep == ASSUME LockInv, NEW r \in Request, CommitStat(r) PROVE LockInv'
<1>1. pc[r] \in Committing /\ dst[r] \in Key /\ UNCHANGED <<s3, tables, locks, faults>>
  BY DEF CommitStat, Committing, LockInv, TypeOK, RequestTypeOK
<1>2. CASE Return(r)
  BY <1>1, <1>2, ReturnStep, S3Unchanged, TablesUnchanged DEF LockInv, TypeOK
<1>3. CASE Goto(r, "upsert") /\ UNCHANGED <<fid, src, dst, cur>>
  <2>1. \A q \in Request : pc'[q] = IF q = r THEN "upsert" ELSE pc[q]
    BY <1>3 DEF Goto, LockInv, TypeOK, RequestTypeOK
  <2>2. "upsert" \in Committing /\ "upsert" \notin Moving \cup Deleting \cup Critical
    BY DEF Committing, Moving, Deleting, Critical
  <2>3. RequestTypeOK'
    BY <1>1, <1>3, <2>1, <2>2 DEF Goto, LockInv, TypeOK, RequestTypeOK
  <2>4. pc[r] \notin Critical \cup {"lock1", "lock2"}
    BY <1>1 DEF Committing, Critical
  <2>5. LocksTypeOK' /\ HoldsLocks' /\ PinsConnection' /\ NothingLeaks'
    BY <1>1, <1>3, <2>1, <2>2, <2>4, FreeLocks, Unpinned
  <2> QED
    BY <1>1, <2>3, <2>5, S3Unchanged, TablesUnchanged DEF LockInv, TypeOK
<1> QED
  BY <1>2, <1>3 DEF CommitStat

LEMMA CommitUpsertStep == ASSUME LockInv, NEW r \in Request, CommitUpsert(r) PROVE LockInv'
<1>1. pc[r] \in Committing /\ dst[r] \in Key
  BY DEF CommitUpsert, Committing, LockInv, TypeOK, RequestTypeOK
<1>2. TablesTypeOK'
  <2>1. CASE UNCHANGED tables
    BY <2>1, TablesUnchanged DEF LockInv, TypeOK
  <2>2. CASE /\ lastFile < MaxFile /\ lastFile' = lastFile + 1
             /\ row' = [row EXCEPT ![lastFile + 1] = dst[r]]
    BY <1>1, <2>2, FilesAssumption DEF LockInv, TypeOK, TablesTypeOK, File
  <2> QED
    BY <2>1, <2>2 DEF CommitUpsert
<1>3. S3TypeOK'
  BY <1>1 DEF CommitUpsert, LockInv, TypeOK, S3TypeOK
<1> QED
  BY <1>1, <1>2, <1>3, ReturnStep DEF CommitUpsert, LockInv, TypeOK

LEMMA FaultStep == ASSUME LockInv, NEW r \in Request, Fault(r) PROVE LockInv'
<1>1. faults' \in 0 .. MaxFaults
  BY FilesAssumption
     DEF Fault, CallFails, Crash, CopyReplyLost, UpdateReplyLost, LockInv, TypeOK
<1>2. CASE Ends(r) /\ UNCHANGED <<s3, tables>>
  BY <1>1, <1>2, EndLocks, S3Unchanged, TablesUnchanged DEF LockInv, TypeOK
<1>3. CASE CallFails(r)
  <2>1. CASE pc[r] = "update"
    BY <1>1, <1>3, <2>1, UpdateGoes DEF CallFails, tables
  <2> QED
    BY <1>2, <1>3, <2>1, ReleaseEnds DEF CallFails
<1>4. CASE CopyReplyLost(r)
  <2>1. cur[r] \in Key /\ dst[r] \in Key
    BY <1>4, Labels DEF CopyReplyLost, Critical, LockInv, TypeOK, RequestTypeOK
  <2> QED
    BY <1>1, <1>4, <2>1, ReleaseStep, CopyType, TablesUnchanged
       DEF CopyReplyLost, LockInv, TypeOK
<1>5. CASE UpdateReplyLost(r)
  BY <1>1, <1>5, UpdateGoes DEF UpdateReplyLost
<1> QED
  BY <1>2, <1>3, <1>4, <1>5, CrashEnds DEF Fault, Crash

\* A session that ends takes a lock out of the pool, and touches no request.
LEMMA SessionEndsStep == ASSUME LockInv, NEW h \in LockIds, SessionEnds(h) PROVE LockInv'
<1>1. /\ owner[h] = Pooled /\ UNCHANGED <<s3, tables, pinned, pc, fid, src, dst, cur, faults>>
      /\ leaked' = leaked \ {h}
  BY DEF SessionEnds, request
<1>2. \A i \in LockIds : owner'[i] = IF i = h THEN None ELSE owner[i]
  BY DEF SessionEnds, LockInv, TypeOK, LocksTypeOK
<1>3. LocksTypeOK'
  BY DEF SessionEnds, LockInv, TypeOK, LocksTypeOK
<1>4. RequestTypeOK' /\ PinsConnection'
  BY <1>1 DEF LockInv, TypeOK, RequestTypeOK, PinsConnection
<1>5. NothingLeaks'
  BY <1>1, <1>2 DEF LockInv, NothingLeaks
<1>6. HoldsLocks'
  <2>1. \A q \in Request, i \in LockIds : owner[i] = q => owner'[i] = q
    BY <1>1, <1>2, Ranges
  <2>2. \A q \in Request : pc[q] \in Moving => src[q] \in Key /\ dst[q] \in Key /\ FirstKey(q) \in Key
    BY DEF LockInv, TypeOK, RequestTypeOK, FirstKey
  <2>3. \A q \in Request : pc[q] \in {"lock2"} \cup Critical => pc[q] \in Moving
    BY Labels
  <2>4. \A q \in Request : FirstKey(q)' = FirstKey(q) /\ pc'[q] = pc[q] /\ src'[q] = src[q] /\ dst'[q] = dst[q]
    BY <1>1 DEF FirstKey
  <2> QED
    <3> SUFFICES ASSUME NEW q \in Request
                 PROVE  /\ pc'[q] = "lock2" => owner'[Hash[FirstKey(q)']] = q
                        /\ pc'[q] \in Critical => /\ owner'[Hash[src'[q]]] = q
                                                  /\ owner'[Hash[dst'[q]]] = q
      BY DEF HoldsLocks
    <3>1. \A k \in Key : owner[Hash[k]] = q => owner'[Hash[k]] = q
      BY <2>1, Ranges
    <3> QED
      BY <2>2, <2>3, <2>4, <3>1 DEF LockInv, HoldsLocks
<1> QED
  BY <1>1, <1>3, <1>4, <1>5, <1>6, S3Unchanged, TablesUnchanged DEF LockInv, TypeOK

LEMMA NextLockInv == LockInv /\ [Next]_vars => LockInv'
<1> SUFFICES ASSUME LockInv, [Next]_vars PROVE LockInv'
  OBVIOUS
<1>1. CASE UNCHANGED vars
  <2>1. UNCHANGED <<s3, tables, locks, pc, fid, src, dst, cur, faults>>
    BY <1>1 DEF vars, request
  <2>2. RequestTypeOK' /\ HoldsLocks' /\ PinsConnection' /\ NothingLeaks'
    BY <2>1 DEF LockInv, TypeOK, RequestTypeOK, HoldsLocks, PinsConnection, NothingLeaks,
                FirstKey, locks
  <2> QED
    BY <2>1, <2>2, S3Unchanged, TablesUnchanged, LocksUnchanged DEF LockInv, TypeOK
<1>2. ASSUME NEW r \in Request, NewRequest(r) PROVE LockInv'
  BY <1>2, MoveGetFileStep, DeleteGetFileStep, PutObjectStep DEF NewRequest
<1>3. ASSUME NEW r \in Request, MoveStep(r) PROVE LockInv'
  BY <1>3, MoveCheckStep, MoveAcquireStep, MoveLockStep, MoveAbortStep, MoveRereadStep,
     MoveRecheckStep, MoveCopyStep, MoveUpdateStep, MoveDeleteOldStep, MoveRollbackStep
     DEF MoveStep
<1>4. ASSUME NEW r \in Request, Step(r) PROVE LockInv'
  BY <1>3, <1>4, DeleteObjectStep, DeleteRowStep, CommitStatStep, CommitUpsertStep DEF Step
<1> QED
  BY <1>1, <1>2, <1>4, FaultStep, SessionEndsStep DEF Next

\* The lock invariant holds in every reachable state, with any mix of
\* requests and any faults.
THEOREM LocksHeld == Spec => []LockInv
  BY InitLockInv, NextLockInv, PTL DEF Spec

\* Every variable of the files service keeps its type: AcquireMoveLocks is
\* only called with two different keys, and each step has the keys it uses.
THEOREM TypeCorrect == Spec => []TypeOK
  BY LocksHeld, PTL DEF LockInv

\* The release of AcquireMoveLocks gives back the pinned connection, whatever way
\* the handler returns or dies, and every lock, but one whose unlock fails in a
\* session that goes on (its error is ignored): that one stays in the pool.
THEOREM LocksNeverLeak == Spec => []NothingLeaks
  BY LocksHeld, PTL DEF LockInv

\* Two moves that lock a common key are never both inside the locked part of
\* moveFileWithLocks, also when hashtext maps other keys to the same lock.
THEOREM MovesAreExclusive == Spec => []MovesExclude
<1>1. LockInv => MovesExclude
  <2> SUFFICES ASSUME LockInv, NEW q \in Request, NEW r \in Request, q # r,
                      pc[q] \in Critical, pc[r] \in Critical
               PROVE  {src[q], dst[q]} \cap {src[r], dst[r]} = {}
    BY DEF MovesExclude
  <2>1. owner[Hash[src[q]]] = q /\ owner[Hash[dst[q]]] = q
    BY DEF LockInv, HoldsLocks
  <2>2. owner[Hash[src[r]]] = r /\ owner[Hash[dst[r]]] = r
    BY DEF LockInv, HoldsLocks
  <2> QED
    BY <2>1, <2>2
<1> QED
  BY <1>1, LocksHeld, PTL

-----------------------------------------------------------------------------
(***************************************************************************)
(* Concurrent moves of different files lose nothing: for any number of     *)
(* movers, keys and faults and for any hash, each file's row leads to its  *)
(* bytes at every moment of every move.                                    *)
(***************************************************************************)

\* Clients only move files, one move per file at a time, no commit is reported
\* as failed and no unlock fails.
MovesOnly == Ops = {"move"} /\ SameFile = FALSE /\ Disturbances = {}

\* The files that clients have: none is added or given up.
AllLive == live = 1 .. InitFiles /\ \A f \in File : row[f] # None <=> f \in live

\* files.key is unique.
KeysUnique == \A f, g \in File : row[f] = row[g] /\ row[f] # None => f = g

\* All requests are moves, one per file.
OneMover ==
    /\ \A r \in Request : pc[r] \in Moving \cup {"idle"}
    /\ \A q, r \in Request : pc[q] \in Moving /\ pc[r] \in Moving /\ fid[q] = fid[r] => q = r

\* The key read first stays the file's key until the move itself changes it,
\* and is the key read under the locks.
SourceKnown ==
    \A r \in Request :
        /\ pc[r] \in Moving => row[fid[r]] = IF pc[r] = "deleteOld" THEN dst[r] ELSE src[r]
        /\ pc[r] \in Critical \ {"reread"} => cur[r] = src[r]

\* From the check under the locks to the update nobody owns the destination,
\* and from the update to the deletion nobody owns the source.
EndsFree ==
    \A r \in Request :
        /\ pc[r] \in {"copy", "update", "rollback"} => \A f \in File : row[f] # dst[r]
        /\ pc[r] = "deleteOld" => \A f \in File : row[f] # src[r]

\* Between the copy and the update the destination has the file's bytes.
CopyThere == \A r \in Request : pc[r] = "update" => obj[dst[r]] = fid[r]

DataInv == AllLive /\ KeysUnique /\ OneMover /\ SourceKnown /\ EndsFree /\ CopyThere
              /\ RowLeadsToBytes

MoveInv == LockInv /\ DataInv

-----------------------------------------------------------------------------

\* The other requests stay as they are.
Others(r) == \A q \in Request \ {r} : /\ pc'[q] = pc[q] /\ fid'[q] = fid[q] /\ src'[q] = src[q]
                                      /\ dst'[q] = dst[q] /\ cur'[q] = cur[q]

\* Objects that rows or copies of other moves lead to stay as they are.
ObjectsKept(r) ==
    /\ \A f \in File : row[f] # None => obj'[row[f]] = obj[row[f]]
    /\ \A q \in Request \ {r} : pc[q] = "update" => obj'[dst[q]] = obj[dst[q]]

LEMMA InitMoveInv == ASSUME MovesOnly, Init PROVE MoveInv
<1>1. LockInv
  BY InitLockInv
<1>2. AllLive /\ KeysUnique
  BY FilesAssumption DEF Init, AllLive, KeysUnique, File, None
<1>3. OneMover /\ SourceKnown /\ EndsFree /\ CopyThere
  <2>1. \A r \in Request : pc[r] = "idle"
    BY DEF Init
  <2> QED
    BY <2>1, Labels DEF OneMover, SourceKnown, EndsFree, CopyThere
<1>4. RowLeadsToBytes
  BY FilesAssumption DEF Init, RowLeadsToBytes, File, None, Key
<1> QED
  BY <1>1, <1>2, <1>3, <1>4 DEF MoveInv, DataInv

\* What the lock invariant says of a moving request's fields.
LEMMA Fields == ASSUME LockInv, NEW r \in Request, pc[r] \in Moving
                PROVE  fid[r] \in File /\ src[r] \in Key /\ dst[r] \in Key /\ src[r] # dst[r]
  BY DEF LockInv, TypeOK, RequestTypeOK

\* Two moves under their locks share no key.
LEMMA Apart == ASSUME LockInv, NEW q \in Request, NEW r \in Request, q # r,
                      pc[q] \in Critical, pc[r] \in Critical
               PROVE  /\ src[q] # src[r] /\ src[q] # dst[r]
                      /\ dst[q] # src[r] /\ dst[q] # dst[r]
  BY DEF LockInv, HoldsLocks

\* A request ends without touching a row.
LEMMA Leave ==
    ASSUME MoveInv, NEW r \in Request, pc'[r] = "idle", Others(r),
           UNCHANGED <<row, live>>, ObjectsKept(r)
    PROVE  DataInv'
<1> USE DEF MoveInv, DataInv
<1>1. AllLive' /\ KeysUnique'
  BY DEF AllLive, KeysUnique
<1>2. OneMover'
  BY Labels DEF OneMover, Others
<1>3. SourceKnown'
  BY Labels DEF SourceKnown, Others
<1>4. EndsFree' /\ CopyThere'
  BY DEF EndsFree, CopyThere, Others, ObjectsKept
<1>5. RowLeadsToBytes'
  BY DEF RowLeadsToBytes, ObjectsKept
<1> QED
  BY <1>1, <1>2, <1>3, <1>4, <1>5

\* A move goes on to a label before the update of its row.
LEMMA GoOn ==
    ASSUME MoveInv, NEW r \in Request, NEW label \in Moving \ {"deleteOld"},
           pc[r] \in Moving \ {"deleteOld"}, pc'[r] = label, Others(r),
           fid'[r] = fid[r], src'[r] = src[r], dst'[r] = dst[r],
           UNCHANGED <<row, live>>, ObjectsKept(r),
           label \in Critical \ {"reread"} => cur'[r] = src[r],
           label \in {"copy", "update", "rollback"} => \A f \in File : row[f] # dst[r],
           label = "update" => obj'[dst[r]] = fid[r]
    PROVE  DataInv'
<1> USE DEF MoveInv, DataInv
<1>1. AllLive' /\ KeysUnique'
  BY DEF AllLive, KeysUnique
<1>2. OneMover'
  BY DEF OneMover, Others
<1>3. SourceKnown'
  BY DEF SourceKnown, Others
<1>4. EndsFree' /\ CopyThere'
  BY DEF EndsFree, CopyThere, Others, ObjectsKept
<1>5. RowLeadsToBytes'
  BY DEF RowLeadsToBytes, ObjectsKept
<1> QED
  BY <1>1, <1>2, <1>3, <1>4, <1>5

\* The forms in which the actions change requests.
LEMMA ReturnOthers == ASSUME LockInv, NEW r \in Request, Return(r)
                      PROVE  pc'[r] = "idle" /\ Others(r)
  BY DEF LockInv, TypeOK, RequestTypeOK, Return, Others

LEMMA ReleaseOthers == ASSUME LockInv, NEW r \in Request, Release(r)
                       PROVE  pc'[r] = "idle" /\ Others(r)
  BY ReturnOthers DEF Release

LEMMA GotoOthers == ASSUME LockInv, NEW r \in Request, NEW label, Goto(r, label),
                           UNCHANGED <<fid, src, dst, cur>>
                    PROVE  /\ pc'[r] = label /\ Others(r) /\ fid'[r] = fid[r]
                           /\ src'[r] = src[r] /\ dst'[r] = dst[r] /\ cur'[r] = cur[r]
  BY DEF LockInv, TypeOK, RequestTypeOK, Goto, Others

LEMMA SameObjects == ASSUME NEW r \in Request, UNCHANGED obj PROVE ObjectsKept(r)
  BY DEF ObjectsKept

\* A change at a key that no row leads to, and that r has locked, is seen by
\* nobody else.
LEMMA OwnKey ==
    ASSUME MoveInv, NEW r \in Request, pc[r] \in Critical, NEW k \in {src[r], dst[r]}, NEW v,
           \A f \in File : row[f] # k, obj' = [obj EXCEPT ![k] = v]
    PROVE  ObjectsKept(r)
<1>1. k \in Key /\ \A i \in Key \ {k} : obj'[i] = obj[i]
  BY Fields, Labels DEF MoveInv, LockInv, TypeOK, S3TypeOK
<1>2. \A f \in File : row[f] # None => row[f] \in Key \ {k}
  BY DEF MoveInv, LockInv, TypeOK, TablesTypeOK
<1>3. \A q \in Request \ {r} : pc[q] = "update" => dst[q] \in Key \ {k}
  <2>1. "update" \in Critical
    BY DEF Critical
  <2> QED
    BY <2>1, Apart, Fields, Labels DEF MoveInv
<1> QED
  BY <1>1, <1>2, <1>3 DEF ObjectsKept

-----------------------------------------------------------------------------
(* The steps of a move *)

LEMMA GetFileData ==
    ASSUME MovesOnly, MoveInv, NEW r \in Request, NEW f \in File, NEW k \in Key,
           MoveGetFile(r, f, k)
    PROVE  DataInv'
<1> USE DEF MoveInv, DataInv
<1>1. /\ pc'[r] = "check" /\ fid'[r] = f /\ src'[r] = row[f] /\ dst'[r] = k
      /\ Others(r) /\ UNCHANGED <<row, live, obj>>
  BY DEF MoveGetFile, Goto, LockInv, TypeOK, RequestTypeOK, Others, s3, tables
<1>2. AllLive' /\ KeysUnique' /\ RowLeadsToBytes'
  BY <1>1 DEF AllLive, KeysUnique, RowLeadsToBytes
<1>3. OneMover'
  <2>1. \A q \in Request : ~(pc[q] \in Moving /\ fid[q] = f)
    BY DEF MoveGetFile, Busy, MovesOnly
  <2> QED
    BY <1>1, <2>1, Labels DEF OneMover, Others
<1>4. SourceKnown' /\ EndsFree' /\ CopyThere'
  BY <1>1 DEF SourceKnown, EndsFree, CopyThere, Others, Critical
<1> QED
  BY <1>2, <1>3, <1>4

LEMMA CheckData == ASSUME MoveInv, NEW r \in Request, MoveCheck(r) PROVE DataInv'
<1>1. UNCHANGED <<row, live>> /\ ObjectsKept(r)
  BY SameObjects DEF MoveCheck, s3, tables
<1>2. CASE Return(r)
  BY <1>1, <1>2, ReturnOthers, Leave DEF MoveInv
<1>3. CASE Goto(r, "acquire") /\ UNCHANGED <<fid, src, dst, cur>>
  <2>1. /\ "acquire" \in Moving \ {"deleteOld"} /\ "acquire" \notin Critical
        /\ pc[r] \in Moving \ {"deleteOld"}
    BY DEF MoveCheck, Moving, Critical
  <2> QED
    BY <1>1, <1>3, <2>1, GotoOthers, GoOn DEF MoveInv
<1> QED
  BY <1>2, <1>3 DEF MoveCheck

LEMMA AcquireData == ASSUME MoveInv, NEW r \in Request, MoveAcquire(r) PROVE DataInv'
<1>1. UNCHANGED <<row, live>> /\ ObjectsKept(r)
  BY SameObjects DEF MoveAcquire, s3, tables
<1>2. /\ "lock1" \in Moving \ {"deleteOld"} /\ "lock1" \notin Critical
      /\ pc[r] \in Moving \ {"deleteOld"}
  BY DEF MoveAcquire, Moving, Critical
<1> QED
  BY <1>1, <1>2, GotoOthers, GoOn DEF MoveInv, MoveAcquire

LEMMA LockData == ASSUME MoveInv, NEW r \in Request, MoveLock(r) PROVE DataInv'
<1> DEFINE label == IF pc[r] = "lock1" THEN "lock2" ELSE "reread"
<1>1. UNCHANGED <<row, live>> /\ ObjectsKept(r)
  BY SameObjects DEF MoveLock, s3, tables
<1>2. /\ label \in Moving \ {"deleteOld"} /\ label \notin Critical \ {"reread"}
      /\ pc[r] \in Moving \ {"deleteOld"}
      /\ label \notin {"copy", "update", "rollback"}
  BY DEF MoveLock, Moving, Critical
<1>3. Goto(r, label) /\ UNCHANGED <<fid, src, dst, cur>>
  BY DEF MoveLock
<1> HIDE DEF label
<1> QED
  BY <1>1, <1>2, <1>3, GotoOthers, GoOn DEF MoveInv

\* A request that releases its locks without touching S3 or a row.
LEMMA ReleaseData ==
    ASSUME MoveInv, NEW r \in Request, Release(r), UNCHANGED <<obj, row, live>>
    PROVE  DataInv'
  BY ReleaseOthers, SameObjects, Leave DEF MoveInv

LEMMA RereadData == ASSUME MoveInv, NEW r \in Request, MoveReread(r) PROVE DataInv'
<1>1. UNCHANGED <<obj, row, live>>
  BY DEF MoveReread, s3, tables
<1>2. CASE Release(r)
  BY <1>1, <1>2, ReleaseData
<1>3. CASE /\ cur' = [cur EXCEPT ![r] = row[fid[r]]]
           /\ Goto(r, "recheck") /\ UNCHANGED <<fid, src, dst, locks>>
  <2>1. /\ "recheck" \in Moving \ {"deleteOld"} /\ pc[r] \in Moving \ {"deleteOld"}
    BY DEF MoveReread, Moving
  <2>2. /\ pc'[r] = "recheck" /\ Others(r) /\ cur'[r] = row[fid[r]]
        /\ fid'[r] = fid[r] /\ src'[r] = src[r] /\ dst'[r] = dst[r]
    BY <1>3 DEF MoveInv, LockInv, TypeOK, RequestTypeOK, Goto, Others
  <2>3. row[fid[r]] = src[r]
    BY <2>1 DEF MoveInv, DataInv, SourceKnown
  <2> QED
    BY <1>1, <2>1, <2>2, <2>3, SameObjects, GoOn
<1> QED
  BY <1>2, <1>3 DEF MoveReread

LEMMA RecheckData == ASSUME MoveInv, NEW r \in Request, MoveRecheck(r) PROVE DataInv'
<1>1. UNCHANGED <<obj, row, live>>
  BY DEF MoveRecheck, s3, tables
<1>2. CASE Occupied(dst[r])
  BY <1>1, <1>2, ReleaseData DEF MoveRecheck
<1>3. CASE ~Occupied(dst[r])
  <2>1. /\ "copy" \in Moving \ {"deleteOld"} /\ pc[r] \in Moving \ {"deleteOld"}
        /\ pc[r] \in Critical \ {"reread"}
    BY DEF MoveRecheck, Moving, Critical
  <2>2. \A f \in File : row[f] # dst[r]
    BY <1>3 DEF Occupied, RowAt
  <2>3. cur[r] = src[r]
    BY <2>1 DEF MoveInv, DataInv, SourceKnown
  <2>4. Goto(r, "copy") /\ UNCHANGED <<fid, src, dst, cur>>
    BY <1>3 DEF MoveRecheck
  <2>5. /\ pc'[r] = "copy" /\ Others(r) /\ fid'[r] = fid[r]
        /\ src'[r] = src[r] /\ dst'[r] = dst[r] /\ cur'[r] = cur[r]
    BY <2>4, GotoOthers DEF MoveInv
  <2> QED
    BY <1>1, <2>1, <2>2, <2>3, <2>5, SameObjects, GoOn
<1> QED
  BY <1>2, <1>3

\* What a move about to copy knows.
LEMMA AtCopy == ASSUME MoveInv, NEW r \in Request, pc[r] \in {"copy", "update"}
                PROVE  /\ pc[r] \in Critical /\ fid[r] \in File
                       /\ cur[r] = src[r] /\ src[r] \in Key /\ dst[r] \in Key
                       /\ \A f \in File : row[f] # dst[r]
                       /\ row[fid[r]] = src[r] /\ obj[src[r]] = fid[r]
<1>1. pc[r] \in Critical \ {"reread"} /\ pc[r] \in Moving \ {"deleteOld"}
  BY DEF Critical, Moving
<1>2. fid[r] \in File /\ src[r] \in Key /\ dst[r] \in Key
  BY <1>1, Fields DEF MoveInv
<1>3. cur[r] = src[r] /\ row[fid[r]] = src[r]
  BY <1>1 DEF MoveInv, DataInv, SourceKnown
<1>4. \A f \in File : row[f] # dst[r]
  BY DEF MoveInv, DataInv, EndsFree
<1>5. obj[src[r]] = fid[r]
  BY <1>2, <1>3, Ranges DEF MoveInv, DataInv, AllLive, RowLeadsToBytes
<1> QED
  BY <1>1, <1>2, <1>3, <1>4, <1>5

LEMMA CopyData == ASSUME MoveInv, NEW r \in Request, MoveCopy(r) PROVE DataInv'
<1>1. pc[r] = "copy" /\ UNCHANGED <<row, live>>
  BY DEF MoveCopy, tables
<1>2. obj[cur[r]] = fid[r] /\ obj[cur[r]] # None
  BY <1>1, AtCopy, Ranges
<1>3. /\ obj' = [obj EXCEPT ![dst[r]] = fid[r]] /\ Goto(r, "update")
      /\ UNCHANGED <<fid, src, dst, cur>>
  BY <1>2 DEF MoveCopy
<1>4. ObjectsKept(r)
  BY <1>1, <1>3, AtCopy, OwnKey
<1>5. obj'[dst[r]] = fid[r]
  BY <1>1, <1>3, AtCopy DEF MoveInv, LockInv, TypeOK, S3TypeOK
<1>6. "update" \in Moving \ {"deleteOld"} /\ pc[r] \in Moving \ {"deleteOld"}
  BY <1>1 DEF Moving
<1>7. /\ pc'[r] = "update" /\ Others(r) /\ fid'[r] = fid[r]
      /\ src'[r] = src[r] /\ dst'[r] = dst[r] /\ cur'[r] = cur[r]
  BY <1>3, GotoOthers DEF MoveInv
<1> QED
  BY <1>1, <1>4, <1>5, <1>6, <1>7, AtCopy, GoOn

\* A failed update goes to the rollback with its row as it was.
LEMMA ToRollback ==
    ASSUME MoveInv, NEW r \in Request, pc[r] = "update", Goto(r, "rollback"),
           UNCHANGED <<fid, src, dst, cur, obj, row, live>>
    PROVE  DataInv'
<1>1. "rollback" \in Moving \ {"deleteOld"} /\ pc[r] \in Moving \ {"deleteOld"}
  BY DEF Moving
<1>2. /\ pc'[r] = "rollback" /\ Others(r) /\ fid'[r] = fid[r]
      /\ src'[r] = src[r] /\ dst'[r] = dst[r] /\ cur'[r] = cur[r]
  BY GotoOthers DEF MoveInv
<1> QED
  BY <1>1, <1>2, AtCopy, SameObjects, GoOn

LEMMA UpdateData == ASSUME MoveInv, NEW r \in Request, MoveUpdate(r) PROVE DataInv'
<1>1. pc[r] = "update" /\ UNCHANGED <<obj, live>>
  BY DEF MoveUpdate, s3
<1>2. CASE Goto(r, "rollback") /\ UNCHANGED <<row, fid, src, dst, cur, locks>>
  BY <1>1, <1>2, ToRollback
<1>3. CASE Release(r) /\ UNCHANGED row
  BY <1>1, <1>3, ReleaseData
<1>4. CASE /\ row' = [row EXCEPT ![fid[r]] = dst[r]] /\ Goto(r, "deleteOld")
           /\ UNCHANGED <<fid, src, dst, cur, locks>>
  <2> USE DEF MoveInv, DataInv
  <2>1. /\ pc[r] \in Critical \ {"reread"} /\ fid[r] \in File /\ cur[r] = src[r]
        /\ src[r] \in Key /\ dst[r] \in Key /\ src[r] # dst[r] /\ dst[r] # None
        /\ row[fid[r]] = src[r] /\ obj[dst[r]] = fid[r]
        /\ \A f \in File : row[f] # dst[r]
    BY <1>1, AtCopy, Fields, Labels, Ranges DEF CopyThere
  <2>2. /\ pc'[r] = "deleteOld" /\ Others(r) /\ fid'[r] = fid[r]
        /\ src'[r] = src[r] /\ dst'[r] = dst[r] /\ cur'[r] = cur[r]
    BY <1>4, GotoOthers
  <2>3. \A f \in File : row'[f] = IF f = fid[r] THEN dst[r] ELSE row[f]
    BY <1>4 DEF LockInv, TypeOK, TablesTypeOK
  <2>4. AllLive'
    BY <1>1, <2>1, <2>3, Ranges DEF AllLive
  <2>5. KeysUnique'
    BY <2>1, <2>3 DEF KeysUnique
  <2>6. OneMover'
    BY <1>1, <2>2 DEF OneMover, Others, Moving
  <2>7. SourceKnown'
    <3>1. \A q \in Request \ {r} : pc[q] \in Moving => fid[q] # fid[r] /\ fid[q] \in File
      BY <2>1, Labels, Fields DEF OneMover
    <3> QED
      BY <2>1, <2>2, <2>3, <3>1 DEF SourceKnown, Others
  <2>8. EndsFree'
    <3>1. \A q \in Request \ {r} : pc[q] \in Critical => dst[r] # dst[q] /\ dst[r] # src[q]
      BY <2>1, Apart
    <3>2. \A f \in File : row'[f] # src[r]
      BY <2>1, <2>3, Ranges DEF KeysUnique
    <3> QED
      BY <2>2, <2>3, <3>1, <3>2 DEF EndsFree, Others, Critical
  <2>9. CopyThere' /\ RowLeadsToBytes'
    BY <1>1, <2>1, <2>2, <2>3 DEF CopyThere, RowLeadsToBytes, Others
  <2> QED
    BY <2>4, <2>5, <2>6, <2>7, <2>8, <2>9
<1> QED
  BY <1>2, <1>3, <1>4 DEF MoveUpdate

LEMMA DeleteOldData == ASSUME MoveInv, NEW r \in Request, MoveDeleteOld(r) PROVE DataInv'
<1>1. pc[r] \in Critical \ {"reread"} /\ pc[r] = "deleteOld" /\ UNCHANGED <<row, live>>
  BY DEF MoveDeleteOld, Critical, tables
<1>2. OldKey(r) = src[r] /\ \A f \in File : row[f] # src[r]
  BY <1>1 DEF OldKey, MoveInv, DataInv, SourceKnown, EndsFree
<1>3. ObjectsKept(r)
  BY <1>1, <1>2, OwnKey DEF MoveDeleteOld
<1> QED
  BY <1>1, <1>3, ReleaseOthers, Leave DEF MoveDeleteOld, MoveInv

LEMMA RollbackData == ASSUME MoveInv, NEW r \in Request, MoveRollback(r) PROVE DataInv'
<1>1. pc[r] \in Critical /\ pc[r] = "rollback" /\ UNCHANGED <<row, live>>
  BY DEF MoveRollback, Critical, tables
<1>2. \A f \in File : row[f] # dst[r]
  BY <1>1 DEF MoveInv, DataInv, EndsFree
<1>3. ObjectsKept(r)
  BY <1>1, <1>2, OwnKey DEF MoveRollback
<1> QED
  BY <1>1, <1>3, ReleaseOthers, Leave DEF MoveRollback, MoveInv

LEMMA FaultData == ASSUME MovesOnly, MoveInv, NEW r \in Request, Fault(r) PROVE DataInv'
<1>1. CASE Return(r) /\ UNCHANGED <<s3, tables>>
  BY <1>1, ReturnOthers, SameObjects, Leave DEF MoveInv, s3, tables
<1>2. CASE CallFails(r)
  <2>1. CASE pc[r] = "update"
    BY <1>2, <2>1, ToRollback DEF CallFails, s3, tables
  <2> QED
    BY <1>1, <1>2, <2>1 DEF CallFails, Release
<1>3. CASE CopyReplyLost(r)
  <2>1. pc[r] = "copy" /\ UNCHANGED <<row, live>>
    BY <1>3 DEF CopyReplyLost, tables
  <2>2. ObjectsKept(r)
    BY <1>3, <2>1, AtCopy, OwnKey DEF CopyReplyLost
  <2> QED
    BY <1>3, <2>1, <2>2, ReleaseOthers, Leave DEF CopyReplyLost, MoveInv
<1> QED
  BY <1>1, <1>2, <1>3 DEF Fault, Crash, UpdateReplyLost, MovesOnly

-----------------------------------------------------------------------------

LEMMA NextMoveInv == ASSUME MovesOnly PROVE MoveInv /\ [Next]_vars => MoveInv'
<1> SUFFICES ASSUME MoveInv, [Next]_vars PROVE DataInv'
  BY NextLockInv DEF MoveInv
<1>1. CASE UNCHANGED vars
  BY <1>1 DEF MoveInv, DataInv, AllLive, KeysUnique, OneMover, SourceKnown, EndsFree,
              CopyThere, RowLeadsToBytes, vars, s3, tables, request
<1>2. ASSUME NEW r \in Request, NewRequest(r) PROVE DataInv'
  BY <1>2, GetFileData DEF NewRequest, DeleteGetFile, PutObject, MovesOnly
<1>3. ASSUME NEW r \in Request, MoveStep(r) PROVE DataInv'
  <2>1. CASE MoveDeadlockAbort(r)
    BY <2>1, ReleaseData DEF MoveDeadlockAbort, s3, tables
  <2> QED
    BY <1>3, <2>1, CheckData, AcquireData, LockData, RereadData, RecheckData, CopyData,
       UpdateData, DeleteOldData, RollbackData DEF MoveStep
<1>4. ASSUME NEW r \in Request, Step(r) PROVE DataInv'
  <2>1. pc[r] \notin Deleting \cup Committing
    BY Labels DEF MoveInv, DataInv, OneMover
  <2> QED
    BY <1>3, <1>4, <2>1
       DEF Step, DeleteObject, DeleteRow, CommitStat, CommitUpsert, Deleting, Committing
<1>5. ASSUME NEW h \in LockIds, SessionEnds(h) PROVE DataInv'
  BY <1>5 DEF SessionEnds, MoveInv, DataInv, AllLive, KeysUnique, OneMover, SourceKnown, EndsFree,
              CopyThere, RowLeadsToBytes, s3, tables, request
<1> QED
  BY <1>1, <1>2, <1>4, <1>5, FaultData DEF Next

\* With one move per file at a time, every file's row leads to its bytes in
\* every reachable state of MoveFile: before, during and after a move, after a
\* failed call, a lost copy reply, a deadlock abort or a crash.
THEOREM MovesKeepBytes == ASSUME MovesOnly PROVE Spec => []RowLeadsToBytes
<1>1. Init => MoveInv
  BY InitMoveInv
<1>2. MoveInv /\ [Next]_vars => MoveInv'
  BY NextMoveInv
<1>3. MoveInv => RowLeadsToBytes
  BY DEF MoveInv, DataInv
<1> QED
  BY <1>1, <1>2, <1>3, PTL DEF Spec

\* "No lost data when changing a file": in that regime the bytes of every file
\* stay stored under some key.
THEOREM MovesLoseNothing == ASSUME MovesOnly PROVE Spec => []NoLostData
<1>1. Init => MoveInv
  BY InitMoveInv
<1>2. MoveInv /\ [Next]_vars => MoveInv'
  BY NextMoveInv
<1>3. MoveInv => NoLostData
  <2> SUFFICES ASSUME MoveInv, NEW c \in live PROVE \E k \in Key : obj[k] = c
    BY DEF NoLostData
  <2>1. c \in File
    BY FilesAssumption DEF MoveInv, DataInv, AllLive, File
  <2>2. row[c] \in Key /\ obj[row[c]] = c
    BY <2>1 DEF MoveInv, LockInv, TypeOK, TablesTypeOK, DataInv, AllLive, RowLeadsToBytes
  <2> QED
    BY <2>2
<1> QED
  BY <1>1, <1>2, <1>3, PTL DEF Spec

-----------------------------------------------------------------------------
(***************************************************************************)
(* Moves never wait for one another in a circle when no two keys share a   *)
(* lock and unlocks succeed: a mover between its locks holds only the      *)
(* smaller of its keys and waits for the larger, so along a chain of       *)
(* waiters the keys increase.                                              *)
(***************************************************************************)

\* A mover waits for its first lock with none, for its second with the first.
HoldsInOrder ==
    \A r \in Request, h \in LockIds :
        owner[h] = r => pc[r] # "lock1" /\ (pc[r] = "lock2" => h = Hash[FirstKey(r)])

\* No connection of the pool has a lock.
PoolClean == leaked = {} /\ \A h \in LockIds : owner[h] # Pooled

\* A release whose unlocks succeed leaves no lock.
LEMMA CleanEnd ==
    ASSUME "unlock" \notin Disturbances, PoolClean, NEW r \in Request, Release(r) \/ Crash(r)
    PROVE  PoolClean' /\ \A h \in LockIds : owner'[h] \in {owner[h], None}
<1>1. CASE Release(r)
  <2>1. leaked' = {} /\ owner' = [h \in LockIds |-> IF owner[h] # r THEN owner[h]
                                     ELSE IF h \in leaked' THEN Pooled ELSE None]
    BY <1>1 DEF Release, ReleaseLocks, UnlockErrors, PoolClean
  <2> QED
    BY <2>1, Ranges DEF PoolClean
<1>2. CASE Crash(r)
  BY <1>2, Ranges DEF Crash, PoolClean
<1> QED
  BY <1>1, <1>2

\* And a connection of a clean pool comes without one.
LEMMA CleanAcquire ==
    ASSUME LockInv, PoolClean, NEW r \in Request, MoveAcquire(r) PROVE UNCHANGED <<owner, leaked>>
<1>1. HeldBy(Pooled) = {}
  BY DEF HeldBy, PoolClean
<1> QED
  BY <1>1 DEF MoveAcquire, LockInv, TypeOK, LocksTypeOK

\* No lock is taken, and r keeps none or goes on past both.
LEMMA OrderKept ==
    ASSUME HoldsInOrder, NEW r \in Request, Others(r),
           \A h \in LockIds : owner'[h] \in {owner[h], None},
           pc'[r] \notin {"lock1", "lock2"} \/ \A h \in LockIds : owner'[h] # r
    PROVE  HoldsInOrder'
<1> SUFFICES ASSUME NEW q \in Request, NEW h \in LockIds, owner'[h] = q
             PROVE  pc'[q] # "lock1" /\ (pc'[q] = "lock2" => h = Hash[FirstKey(q)'])
  BY DEF HoldsInOrder
<1>1. CASE q = r
  BY <1>1
<1>2. CASE q # r
  <2>1. owner[h] = q
    BY Ranges
  <2>2. pc'[q] = pc[q] /\ FirstKey(q)' = FirstKey(q)
    BY <1>2 DEF Others, FirstKey
  <2> QED
    BY <2>1, <2>2 DEF HoldsInOrder
<1> QED
  BY <1>1, <1>2

LEMMA ReleaseOrder ==
    ASSUME "unlock" \notin Disturbances, PoolClean, LockInv, HoldsInOrder, NEW r \in Request,
           Release(r) \/ Crash(r)
    PROVE  HoldsInOrder'
<1>1. \A h \in LockIds : owner'[h] \in {owner[h], None}
  BY CleanEnd
<1>2. Others(r) /\ pc'[r] = "idle"
  BY ReturnOthers DEF Release, Crash
<1> QED
  BY <1>1, <1>2, OrderKept

\* A request that pins nothing holds no lock.
LEMMA FreeOrder ==
    ASSUME LockInv, HoldsInOrder, NEW r \in Request, r \notin pinned, UNCHANGED owner, Others(r)
    PROVE  HoldsInOrder'
<1>1. \A h \in LockIds : owner[h] # r
  BY Ranges DEF LockInv, NothingLeaks
<1> QED
  BY <1>1, OrderKept

LEMMA LockOrder ==
    ASSUME LockInv, HoldsInOrder, NEW r \in Request, MoveLock(r) PROVE HoldsInOrder'
<1>1. /\ src[r] \in Key /\ dst[r] \in Key /\ src[r] # dst[r] /\ LockKey(r) \in Key
      /\ pc[r] \in {"lock1", "lock2"}
  BY Labels DEF MoveLock, LockInv, TypeOK, RequestTypeOK, LockKey
<1>2. \A h \in LockIds : owner'[h] = IF h = Hash[LockKey(r)] THEN r ELSE owner[h]
  BY DEF MoveLock, LockInv, TypeOK, LocksTypeOK
<1>3. /\ pc'[r] = IF pc[r] = "lock1" THEN "lock2" ELSE "reread"
      /\ Others(r) /\ src'[r] = src[r] /\ dst'[r] = dst[r]
  BY GotoOthers DEF MoveLock
<1>4. owner[Hash[LockKey(r)]] \in {None, r}
  BY DEF MoveLock
<1> SUFFICES ASSUME NEW q \in Request, NEW h \in LockIds, owner'[h] = q
             PROVE  pc'[q] # "lock1" /\ (pc'[q] = "lock2" => h = Hash[FirstKey(q)'])
  BY DEF HoldsInOrder
<1>5. CASE q # r
  <2>1. owner[h] = q
    BY <1>2, <1>5
  <2>2. pc'[q] = pc[q] /\ FirstKey(q)' = FirstKey(q)
    BY <1>3, <1>5 DEF Others, FirstKey
  <2> QED
    BY <2>1, <2>2 DEF HoldsInOrder
<1>6. CASE q = r /\ pc[r] = "lock1"
  <2>1. owner[h] # r
    BY <1>6 DEF HoldsInOrder
  <2>2. h = Hash[LockKey(r)]
    BY <1>2, <1>6, <2>1
  <2>3. LockKey(r) = FirstKey(r) /\ FirstKey(r)' = FirstKey(r)
    BY <1>1, <1>3, <1>6, Ranges DEF LockKey, FirstKey
  <2> QED
    BY <1>3, <1>6, <2>2, <2>3
<1>7. CASE q = r /\ pc[r] = "lock2"
  BY <1>3, <1>7
<1> QED
  BY <1>1, <1>5, <1>6, <1>7

\* A step within the locked part.
LEMMA CriticalOrder ==
    ASSUME LockInv, HoldsInOrder, NEW r \in Request, NEW label \in Critical, Goto(r, label),
           UNCHANGED <<src, dst, owner>>
    PROVE  HoldsInOrder'
<1>1. /\ \A q \in Request \ {r} : pc'[q] = pc[q] /\ src'[q] = src[q] /\ dst'[q] = dst[q]
      /\ pc'[r] \notin {"lock1", "lock2"}
  BY Labels DEF Goto, LockInv, TypeOK, RequestTypeOK
<1> QED
  BY <1>1 DEF HoldsInOrder, FirstKey

LEMMA NewRequestOrder ==
    ASSUME LockInv, HoldsInOrder, NEW r \in Request, NewRequest(r) PROVE HoldsInOrder'
<1>1. pc[r] = "idle" /\ UNCHANGED owner
  BY DEF NewRequest, MoveGetFile, DeleteGetFile, PutObject, locks
<1>2. Others(r)
  BY DEF NewRequest, MoveGetFile, DeleteGetFile, PutObject, Goto, Others,
         LockInv, TypeOK, RequestTypeOK
<1> QED
  BY <1>1, <1>2, Labels, Unpinned, FreeOrder

LEMMA StepOrder ==
    ASSUME "unlock" \notin Disturbances, PoolClean, LockInv, HoldsInOrder, NEW r \in Request, Step(r)
    PROVE  HoldsInOrder'
<1>1. CASE MoveCheck(r) \/ MoveAcquire(r)
  <2>1. Others(r) /\ UNCHANGED owner /\ pc[r] \in {"check", "acquire"}
    BY <1>1, ReturnOthers, GotoOthers, CleanAcquire DEF MoveCheck, MoveAcquire, locks
  <2> QED
    BY <2>1, Labels, Unpinned, FreeOrder
<1>2. CASE MoveLock(r)
  BY <1>2, LockOrder
<1>3. CASE MoveReread(r) \/ MoveRecheck(r) \/ MoveCopy(r) \/ MoveUpdate(r)
  <2>1. \/ Release(r)
        \/ \E label \in Critical : Goto(r, label) /\ UNCHANGED <<src, dst, owner>>
    BY <1>3 DEF MoveReread, MoveRecheck, MoveCopy, MoveUpdate, Critical, locks
  <2> QED
    BY <2>1, ReleaseOrder, CriticalOrder
<1>4. CASE MoveDeadlockAbort(r) \/ MoveDeleteOld(r) \/ MoveRollback(r)
  BY <1>4, ReleaseOrder DEF MoveDeadlockAbort, MoveDeleteOld, MoveRollback
<1>5. CASE DeleteObject(r) \/ DeleteRow(r) \/ CommitStat(r) \/ CommitUpsert(r)
  <2>1. Others(r) /\ UNCHANGED owner /\ pc[r] \in Deleting \cup Committing
    BY <1>5, ReturnOthers, GotoOthers
       DEF DeleteObject, DeleteRow, CommitStat, CommitUpsert, locks, Deleting, Committing
  <2> QED
    BY <2>1, Labels, Unpinned, FreeOrder
<1> QED
  BY <1>1, <1>2, <1>3, <1>4, <1>5 DEF Step, MoveStep

LEMMA FaultOrder ==
    ASSUME "unlock" \notin Disturbances, PoolClean, LockInv, HoldsInOrder, NEW r \in Request, Fault(r)
    PROVE  HoldsInOrder'
<1>1. \/ Release(r) \/ Crash(r)
      \/ \E label \in Critical : Goto(r, label) /\ UNCHANGED <<src, dst, owner>>
  BY DEF Fault, CallFails, CopyReplyLost, UpdateReplyLost, Critical, locks
<1> QED
  BY <1>1, ReleaseOrder, CriticalOrder

LEMMA NextClean ==
    ASSUME "unlock" \notin Disturbances PROVE LockInv /\ PoolClean /\ [Next]_vars => PoolClean'
<1> SUFFICES ASSUME LockInv, PoolClean, [Next]_vars PROVE PoolClean'
  OBVIOUS
<1>1. CASE UNCHANGED <<owner, leaked>>
  BY <1>1 DEF PoolClean
<1>2. ASSUME NEW r \in Request, Release(r) \/ Crash(r) PROVE PoolClean'
  BY <1>2, CleanEnd
<1>3. ASSUME NEW r \in Request, MoveAcquire(r) PROVE PoolClean'
  BY <1>1, <1>3, CleanAcquire
<1>4. ASSUME NEW r \in Request, MoveLock(r) PROVE PoolClean'
  <2>1. \A i \in LockIds : owner'[i] \in {owner[i], r}
    BY <1>4 DEF MoveLock, LockInv, TypeOK, LocksTypeOK
  <2> QED
    BY <1>4, <2>1, Ranges DEF MoveLock, PoolClean
<1>5. ASSUME NEW r \in Request, NewRequest(r) PROVE PoolClean'
  BY <1>1, <1>5 DEF NewRequest, MoveGetFile, DeleteGetFile, PutObject, locks
<1>6. ASSUME NEW r \in Request, Step(r) PROVE PoolClean'
  <2>1. CASE MoveCheck(r) \/ DeleteObject(r) \/ DeleteRow(r) \/ CommitStat(r) \/ CommitUpsert(r)
    BY <1>1, <2>1 DEF MoveCheck, DeleteObject, DeleteRow, CommitStat, CommitUpsert, locks
  <2>2. CASE MoveReread(r) \/ MoveRecheck(r) \/ MoveCopy(r) \/ MoveUpdate(r)
    BY <1>1, <1>2, <2>2 DEF MoveReread, MoveRecheck, MoveCopy, MoveUpdate, locks
  <2>3. CASE MoveDeadlockAbort(r) \/ MoveDeleteOld(r) \/ MoveRollback(r)
    BY <1>2, <2>3 DEF MoveDeadlockAbort, MoveDeleteOld, MoveRollback
  <2> QED
    BY <1>3, <1>4, <1>6, <2>1, <2>2, <2>3 DEF Step, MoveStep
<1>7. ASSUME NEW r \in Request, Fault(r) PROVE PoolClean'
  BY <1>1, <1>2, <1>7 DEF Fault, CallFails, CopyReplyLost, UpdateReplyLost, locks
<1>8. ASSUME NEW h \in LockIds, SessionEnds(h) PROVE PoolClean'
  BY <1>8 DEF SessionEnds, PoolClean
<1> QED
  BY <1>1, <1>5, <1>6, <1>7, <1>8 DEF Next, vars, locks

LEMMA NextOrder ==
    ASSUME "unlock" \notin Disturbances
    PROVE  LockInv /\ PoolClean /\ HoldsInOrder /\ [Next]_vars => HoldsInOrder'
<1> SUFFICES ASSUME LockInv, PoolClean, HoldsInOrder, [Next]_vars PROVE HoldsInOrder'
  OBVIOUS
<1>1. CASE UNCHANGED vars
  <2>1. UNCHANGED <<pc, src, dst, owner>>
    BY <1>1 DEF vars, locks, request
  <2> QED
    BY <2>1 DEF HoldsInOrder, FirstKey
<1>2. ASSUME NEW h \in LockIds, SessionEnds(h) PROVE HoldsInOrder'
  BY <1>2 DEF SessionEnds, PoolClean
<1> QED
  BY <1>1, <1>2, NewRequestOrder, StepOrder, FaultOrder DEF Next

\* A set of keys has a largest one.
LEMMA LargestKey ==
    ASSUME NEW W \in SUBSET Key, W # {} PROVE \E k \in W : \A j \in W : j <= k
<1> DEFINE D == {NumKeys - k : k \in W}
<1>1. D \in SUBSET Nat /\ D # {}
  <2>1. \A k \in W : NumKeys - k \in Nat
    BY FilesAssumption DEF Key
  <2> QED
    BY <2>1
<1> HIDE DEF D
<1>2. PICK x \in D : \A y \in D : ~(<<y, x>> \in OpToRel(<, Nat))
  BY <1>1, NatLessThanWellFounded, WFMin
<1>3. ASSUME NEW y \in D PROVE ~(y < x)
  <2>1. x \in Nat /\ y \in Nat
    BY <1>1
  <2>2. ~(<<y, x>> \in OpToRel(<, Nat))
    BY <1>2
  <2> QED
    BY <2>1, <2>2 DEF OpToRel
<1>4. PICK k \in W : x = NumKeys - k
  BY <1>2 DEF D
<1>5. ASSUME NEW j \in W PROVE j <= k
  <2>1. ~(NumKeys - j < NumKeys - k)
    BY <1>3, <1>4 DEF D
  <2> QED
    BY <2>1, FilesAssumption DEF Key
<1> QED
  BY <1>5

\* "M(A->B) and M(B->A) serialize instead of deadlocking": AcquireMoveLocks
\* takes the locks in byte order, so with keys that hashtext tells apart, and no
\* failed unlock that leaves a lock in the pool, no set of moves waits for
\* itself, however many there are.
THEOREM LocksNeverCycle ==
    ASSUME \A j, k \in Key : Hash[j] = Hash[k] => j = k, "unlock" \notin Disturbances
    PROVE  Spec => []NoLockCycle
<1>1. Init => HoldsInOrder /\ PoolClean
  BY Ranges DEF Init, HoldsInOrder, PoolClean
<1>2. LockInv /\ HoldsInOrder => NoLockCycle
  <2> SUFFICES ASSUME LockInv, HoldsInOrder, NEW S \in SUBSET Request, Deadlocked(S)
               PROVE  FALSE
    BY DEF NoLockCycle
  <2> DEFINE W == {LockKey(r) : r \in S}
  <2>1. ASSUME NEW r \in S
        PROVE  /\ pc[r] \in {"lock1", "lock2"} /\ LockKey(r) \in Key
               /\ src[r] \in Key /\ dst[r] \in Key /\ src[r] # dst[r]
    <3>1. pc[r] \in {"lock1", "lock2"} /\ r \in Request
      BY DEF Deadlocked, WaitsFor
    <3>2. pc[r] \in Moving
      BY <3>1, Labels
    <3>3. src[r] \in Key /\ dst[r] \in Key /\ src[r] # dst[r]
      BY <3>1, <3>2 DEF LockInv, TypeOK, RequestTypeOK
    <3> QED
      BY <3>1, <3>3 DEF LockKey
  <2>2. W \in SUBSET Key /\ W # {}
    BY <2>1 DEF Deadlocked
  <2>3. PICK k \in W : \A j \in W : j <= k
    BY <2>2, LargestKey
  <2>4. PICK r \in S : k = LockKey(r)
    BY <2>3
  <2>5. PICK q \in S : WaitsFor(r, q)
    BY <2>4 DEF Deadlocked
  <2>6. owner[Hash[k]] = q /\ Hash[k] \in LockIds /\ q \in Request
    BY <2>1, <2>4, <2>5, Ranges DEF WaitsFor
  <2>7. pc[q] = "lock2" /\ Hash[k] = Hash[FirstKey(q)]
    BY <2>1, <2>6 DEF HoldsInOrder
  <2>8. FirstKey(q) \in Key
    BY <2>1 DEF FirstKey
  <2>9. k = FirstKey(q)
    BY <2>2, <2>7, <2>8
  <2>10. k < LockKey(q)
    <3>1. src[q] \in Nat /\ dst[q] \in Nat /\ src[q] # dst[q]
      BY <2>1, Ranges
    <3>2. LockKey(q) = IF src[q] < dst[q] THEN dst[q] ELSE src[q]
      BY <2>7, <3>1 DEF LockKey
    <3> QED
      BY <2>9, <3>1, <3>2 DEF FirstKey
  <2>11. LockKey(q) <= k
    BY <2>3
  <2>12. k \in Nat /\ LockKey(q) \in Nat
    BY <2>1, <2>2, <2>3, Ranges
  <2> QED
    BY <2>10, <2>11, <2>12
<1> QED
  BY <1>1, <1>2, InitLockInv, NextLockInv, NextClean, NextOrder, PTL DEF Spec
-----------------------------------------------------------------------------
(* Who waits for whom *)

\* Who waits for a lock waits for a move under way, or for a lock in the pool.
LEMMA WaitsForMove ==
    ASSUME LockInv, leaked = {}, NEW r \in Request, pc[r] \in {"lock1", "lock2"},
           owner[Hash[LockKey(r)]] \notin {None, r}
    PROVE  \E q \in pinned : WaitsFor(r, q) /\ pc[q] # "idle"
<1>1. LockKey(r) \in Key
  BY Labels DEF LockInv, TypeOK, RequestTypeOK, LockKey
<1>2. Hash[LockKey(r)] \in LockIds
  BY <1>1, Ranges
<1>3. owner[Hash[LockKey(r)]] \in pinned
  BY <1>2 DEF LockInv, NothingLeaks
<1>4. pc[owner[Hash[LockKey(r)]]] # "idle"
  BY <1>3, Labels DEF LockInv, NothingLeaks
<1> QED
  BY <1>3, <1>4 DEF WaitsFor

\* Waiters pin their connections while the holder of a lock needs another one
\* (store.go:210).  With any number of requests, any pool and any hash that is
\* the only way for all of them to wait, other than for a lock whose unlock
\* failed: with a connection left everybody would wait for a lock, and Postgres
\* breaks such a cycle; so the pool is pinned, and not by lock waiters alone.
THEOREM WedgedByPool == Spec => []WedgedOnlyByPool
<1>1. LockInv => WedgedOnlyByPool
  <2> SUFFICES ASSUME LockInv, Wedged, leaked = {}
               PROVE  /\ ~Connection
                      /\ \E r \in pinned : pc[r] \in Critical /\ Stuck(r)
    BY DEF WedgedOnlyByPool
  <2>1. pinned \subseteq Request /\ \A r \in pinned : pc[r] # "idle"
    BY Labels DEF LockInv, TypeOK, LocksTypeOK, NothingLeaks
  <2>2. ~Connection
    <3> SUFFICES ASSUME Connection PROVE FALSE
      OBVIOUS
    <3> DEFINE S == {r \in Request : pc[r] # "idle"}
    <3>1. ASSUME NEW r \in S PROVE \E q \in S : WaitsFor(r, q)
      <4>1. pc[r] \in {"lock1", "lock2"} /\ owner[Hash[LockKey(r)]] \notin {None, r}
        BY DEF Wedged, Stuck
      <4> QED
        BY <2>1, <4>1, WaitsForMove
    <3>2. S # {} /\ S \in SUBSET Request
      BY DEF Wedged
    <3> HIDE DEF S
    <3>3. Deadlocked(S)
      BY <3>1, <3>2 DEF Deadlocked
    <3> QED
      BY <3>2, <3>3 DEF Wedged
  <2>3. \E r \in pinned : pc[r] \in Critical /\ Stuck(r)
    <3> SUFFICES ASSUME \A r \in pinned : ~(pc[r] \in Critical /\ Stuck(r)) PROVE FALSE
      OBVIOUS
    <3>1. ASSUME NEW r \in pinned PROVE \E q \in pinned : WaitsFor(r, q)
      <4>1. Stuck(r) /\ pc[r] \notin Critical
        BY <2>1 DEF Wedged
      <4>2. pc[r] \in Moving \ {"check", "acquire"}
        BY DEF LockInv, NothingLeaks
      <4>3. pc[r] \in {"lock1", "lock2"}
        BY <4>1, <4>2, Labels
      <4>4. owner[Hash[LockKey(r)]] \notin {None, r}
        BY <4>1, <4>3 DEF Stuck, Statements
      <4> QED
        BY <2>1, <4>3, <4>4, WaitsForMove
    <3>2. pinned # {}
      <4>1. ASSUME pinned = {} PROVE FALSE
        BY <2>2, <4>1, FS_EmptySet, FilesAssumption DEF Connection
      <4> QED
        BY <4>1
    <3> QED
      BY <2>1, <3>1, <3>2 DEF Wedged, Deadlocked
  <2> QED
    BY <2>2, <2>3
<1> QED
  BY <1>1, LocksHeld, PTL
=============================================================================
