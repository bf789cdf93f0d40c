----------------------- MODULE MultipartUploadProofs -----------------------
(***************************************************************************)
(* Proofs about MultipartUpload, for any tabs, files, sizes, part size,    *)
(* retries, batches and faults: no key ever holds a partial or a mixed     *)
(* file, a part is not sent twice, and the driver implements FileUpload.   *)
(*                                                                         *)
(* The object store knows nothing of files, so the invariant has to: every *)
(* upload id belongs to one file.  The parts it holds are that file's, the *)
(* sessions that name it carry its fingerprint, and the tabs that fill it  *)
(* are at that file, however many they are.  What a tab has behind it, by  *)
(* sending or by having found it landed, is in the upload as long as that  *)
(* is open; so what CompleteMultipartUpload lists is the whole file.       *)
(***************************************************************************)
EXTENDS MultipartUpload, WellFoundedInduction, TLAPS

TabTypes ==
    /\ pc \in [Tabs -> Labels]
    /\ batch \in [Tabs -> Seq(Files)] /\ queue \in [Tabs -> Seq(Files)]
    /\ uploadId \in [Tabs -> Nat]
    /\ landed = [t \in Tabs |-> landed[t]] /\ listed = [t \in Tabs |-> listed[t]]
    /\ \A t \in Tabs : DOMAIN landed[t] \subseteq Nat /\ DOMAIN listed[t] \subseteq Nat
    /\ part \in [Tabs -> Nat \ {0}]
    /\ attempt \in [Tabs -> 1..PART_RETRY_ATTEMPTS]
    /\ aborted \in [Tabs -> BOOLEAN] /\ status \in [Tabs -> BOOLEAN]
    /\ done \in [Tabs -> BOOLEAN] /\ shown \in [Tabs -> SUBSET Keys]

StoreTypes ==
    /\ session \in [Keys -> StoredSession \cup {NoSession}]
    /\ upload \in [Ids -> {"none", "open", "completed", "aborted"}]
    /\ parts = [u \in Ids |-> parts[u]] /\ object = [k \in Keys |-> object[k]]
    /\ \A u \in Ids : DOMAIN parts[u] \subseteq Nat
    /\ row \in [Keys -> BOOLEAN]
    /\ created \in 0..MaxUploads /\ faults \in 0..MaxFaults /\ interrupts \in 0..MaxInterrupts

\* Ids not handed out yet are nobody's.
FreshInv ==
    /\ \A u \in Ids : u > created => parts[u] = NoParts
    /\ \A k \in Keys : session[k].uploadId \in 0..created
    /\ \A t \in Tabs : uploadId[t] \in 0..created

\* The parts s holds are parts of f.
PartsOf(s, f) == DOMAIN s \subseteq PartNumbers(f) /\ s = [i \in DOMAIN s |-> Bytes(f, i)]

\* The upload is f's.
Owned(u, f) ==
    /\ PartsOf(parts[u], f)
    /\ \A k \in Keys : session[k].uploadId = u =>
          session[k].fingerprint = Fingerprint[f] /\ k = Key[f]
    /\ \A t \in Tabs : uploadId[t] = u => queue[t] # <<>> /\ Head(queue[t]) = f

UploadInv == \A u \in 1..created : \E f \in Files : Owned(u, f)

\* The labels at which a tab has an upload, the completion's last.
Filling == {"part", "send", "abort", "cancelled", "complete", "assemble", "index", "completed"}

PcInv(t) ==
    /\ pc[t] \notin {"idle", "file"} => queue[t] # <<>>
    /\ pc[t] \in {"idle", "file"} => uploadId[t] = 0
    /\ pc[t] \in {"list"} \cup Filling => uploadId[t] # 0
    /\ pc[t] = "send" => part[t] \in PartNumbers(file(t))

\* The files of the queue are of a batch.
FromBatch(t, f) == \E b \in Batches[t] : \E i \in DOMAIN b : b[i] = f
QueueInv(t) == \A i \in 1..Len(queue[t]) : FromBatch(t, queue[t][i])

\* What is behind the tab is in the upload.
Behind(t, i) == i < part[t] \/ i \in DOMAIN landed[t]
HeldInv(t) ==
    /\ pc[t] \in {"part", "send"} /\ Open(t) =>
          \A i \in PartNumbers(file(t)) : Behind(t, i) => i \in DOMAIN parts[uploadId[t]]
    /\ pc[t] = "complete" /\ Open(t) => PartNumbers(file(t)) \subseteq DOMAIN parts[uploadId[t]]
    /\ pc[t] = "assemble" => listed[t] = Whole(file(t))

\* No other tab is ever given this tab's file; what the upload holds ahead of
\* the tab is then what was found landed.
Alone(t) == \A u \in Tabs \ {t} : \A b \in Batches[u] : \A i \in DOMAIN b : b[i] # file(t)
Ahead(t, i) == i > part[t] \/ (pc[t] = "part" /\ i = part[t])
AheadInv(t) ==
    pc[t] \in {"part", "send"} /\ Alone(t) =>
        /\ \A i \in DOMAIN parts[uploadId[t]] : Ahead(t, i) =>
              i \in DOMAIN landed[t] /\ landed[t][i] = PartSize(file(t), i)
        /\ pc[t] = "send" /\ attempt[t] = 1 => part[t] \notin DOMAIN parts[uploadId[t]]

TabInv(t) == PcInv(t) /\ QueueInv(t) /\ HeldInv(t) /\ AheadInv(t)

Inv ==
    /\ TabTypes /\ StoreTypes
    /\ FreshInv /\ UploadInv
    /\ \A t \in Tabs : TabInv(t)
    /\ ObjectIsWholeFile

-----------------------------------------------------------------------------
(* Parts and plans.                                                         *)

LEMMA NoPartsOf ==
    /\ DOMAIN NoParts = {}
    /\ \A f : PartsOf(NoParts, f)
<1>1. DOMAIN NoParts = {}
  BY DEF NoParts
<1>2. ASSUME NEW f PROVE PartsOf(NoParts, f)
  BY DEF NoParts, PartsOf
<1> QED
  BY <1>1, <1>2

LEMMA Plan == ASSUME NEW f \in Files PROVE \E n \in Int : PartNumbers(f) = 1..n
  BY ConstantsAssumption DEF PartNumbers, planParts

LEMMA PartsAreNumbers == ASSUME NEW f \in Files PROVE PartNumbers(f) \subseteq Nat \ {0}
  BY Plan

\* A file whose parts are all there.
LEMMA AllParts ==
    ASSUME NEW s, NEW f, PartsOf(s, f), PartNumbers(f) \subseteq DOMAIN s PROVE s = Whole(f)
  BY DEF PartsOf, Whole

LEMMA NatMin ==
    ASSUME NEW S \in SUBSET Nat, S # {} PROVE \E m \in S : \A j \in S : m <= j
<1>1. PICK x \in S : \A y \in S : ~(<<y, x>> \in OpToRel(<, Nat))
  BY NatLessThanWellFounded, WFMin
<1>2. ASSUME NEW y \in S PROVE x <= y
  <2>1. ~(<<y, x>> \in OpToRel(<, Nat))
    BY <1>1
  <2>2. x \in Nat /\ y \in Nat
    OBVIOUS
  <2>3. ~(y < x)
    BY <2>1, <2>2 DEF OpToRel
  <2> QED
    BY <2>2, <2>3
<1> QED
  BY <1>2

LEMMA HeadOf ==
    ASSUME NEW q \in Seq(Files), q # <<>>
    PROVE  Head(q) \in Files /\ Head(q) = q[1] /\ 1 \in 1..Len(q) /\ Tail(q) \in Seq(Files)
  OBVIOUS

-----------------------------------------------------------------------------
(* A step of tab t, for the other tabs.                                     *)

OnlyTab(t) ==
    \A s \in Tabs \ {t} :
        /\ pc'[s] = pc[s] /\ queue'[s] = queue[s] /\ uploadId'[s] = uploadId[s]
        /\ landed'[s] = landed[s] /\ listed'[s] = listed[s]
        /\ part'[s] = part[s] /\ attempt'[s] = attempt[s]

\* An upload may gain parts or be closed, and only by a tab that fills it.
StoreStep(t) ==
    \A u \in 1..created :
        /\ upload'[u] = "open" => upload[u] = "open" /\ DOMAIN parts[u] \subseteq DOMAIN parts'[u]
        /\ uploadId[t] # u => parts'[u] = parts[u]

LEMMA Owner ==
    ASSUME Inv, NEW t \in Tabs, uploadId[t] # 0
    PROVE  /\ uploadId[t] \in 1..created /\ uploadId[t] \in Ids
           /\ queue[t] # <<>> /\ file(t) \in Files
           /\ Owned(uploadId[t], file(t))
<1>1. uploadId[t] \in 1..created /\ uploadId[t] \in Ids
  <2>1. uploadId[t] \in 0..created
    BY DEF Inv, FreshInv
  <2>2. created \in 0..MaxUploads
    BY DEF Inv, StoreTypes
  <2> QED
    BY <2>1, <2>2, ConstantsAssumption DEF Ids
<1>2. PICK f \in Files : Owned(uploadId[t], f)
  BY <1>1 DEF Inv, UploadInv
<1>3. queue[t] # <<>> /\ file(t) = f
  BY <1>2 DEF Owned, file
<1> QED
  BY <1>1, <1>2, <1>3

LEMMA Others ==
    ASSUME Inv, NEW t \in Tabs, OnlyTab(t), StoreStep(t), NEW s \in Tabs \ {t}
    PROVE  TabInv(s)'
<1>1. /\ pc'[s] = pc[s] /\ queue'[s] = queue[s] /\ uploadId'[s] = uploadId[s]
      /\ landed'[s] = landed[s] /\ listed'[s] = listed[s]
      /\ part'[s] = part[s] /\ attempt'[s] = attempt[s]
  BY DEF OnlyTab
<1>2. TabInv(s) /\ queue[s] \in Seq(Files)
  BY DEF Inv, TabTypes
<1>3. PcInv(s)' /\ QueueInv(s)'
  BY <1>1, <1>2 DEF TabInv, PcInv, QueueInv, file
<1>4. CASE uploadId[s] = 0
  <2>1. pc[s] \notin Filling
    BY <1>2, <1>4 DEF TabInv, PcInv
  <2> QED
    BY <1>1, <1>3, <2>1 DEF TabInv, HeldInv, AheadInv, Filling
<1>5. CASE uploadId[s] # 0
  <2> DEFINE u == uploadId[s]
  <2>1. u \in 1..created /\ queue[s] # <<>> /\ file(s) \in Files /\ Owned(u, file(s))
    BY <1>5, Owner
  <2>2. file(s)' = file(s) /\ uploadId'[s] = u
    BY <1>1 DEF file
  <2>3. upload'[u] = "open" => upload[u] = "open" /\ DOMAIN parts[u] \subseteq DOMAIN parts'[u]
    BY <2>1 DEF StoreStep
  <2>4. HeldInv(s)'
    BY <1>1, <1>2, <2>2, <2>3 DEF TabInv, HeldInv, Open, Behind
  <2>5. AheadInv(s)'
    <3> SUFFICES ASSUME pc[s] \in {"part", "send"}, Alone(s)
                 PROVE  parts'[u] = parts[u]
      BY <1>1, <1>2, <2>2 DEF TabInv, AheadInv, Ahead, Alone
    <3>1. CASE uploadId[t] # u
      BY <2>1, <3>1 DEF StoreStep
    <3>2. CASE uploadId[t] = u
      <4>1. queue[t] # <<>> /\ Head(queue[t]) = file(s)
        BY <2>1, <3>2 DEF Owned
      <4>2. FromBatch(t, Head(queue[t]))
        <5>1. queue[t] \in Seq(Files) /\ QueueInv(t)
          BY DEF Inv, TabTypes, TabInv
        <5> QED
          BY <4>1, <5>1, HeadOf DEF QueueInv
      <4> QED
        BY <4>1, <4>2 DEF FromBatch, Alone
    <3> QED
      BY <3>1, <3>2
  <2> QED
    BY <1>3, <2>4, <2>5 DEF TabInv
<1> QED
  BY <1>4, <1>5

\* What keeps an upload its file's.
LEMMA OwnedKept ==
    ASSUME Inv, NEW u \in 1..created, NEW f \in Files, Owned(u, f),
           PartsOf(parts'[u], f),
           \A k \in Keys : session'[k].uploadId = u => session'[k] = session[k],
           \A s \in Tabs : uploadId'[s] = u =>
                \/ uploadId[s] = u /\ queue'[s] = queue[s]
                \/ queue'[s] # <<>> /\ Head(queue'[s]) = f
    PROVE  Owned(u, f)'
<1>1. ASSUME NEW k \in Keys, session'[k].uploadId = u
      PROVE  session'[k].fingerprint = Fingerprint[f] /\ k = Key[f]
  <2>1. session'[k] = session[k]
    BY <1>1
  <2> QED
    BY <1>1, <2>1 DEF Owned
<1>2. ASSUME NEW s \in Tabs, uploadId'[s] = u PROVE queue'[s] # <<>> /\ Head(queue'[s]) = f
  BY <1>2 DEF Owned
<1> QED
  BY <1>1, <1>2 DEF Owned

\* The upload of tab t after its step: none, the one before with the queue as
\* it was, or one that is its file's.
UploadStep(t) ==
    uploadId'[t] # 0 =>
        \/ uploadId'[t] = uploadId[t] /\ queue'[t] = queue[t]
        \/ /\ uploadId'[t] \in 1..created /\ queue'[t] # <<>>
           /\ \A f \in Files : Owned(uploadId'[t], f) => Head(queue'[t]) = f

\* A step of tab t that hands out no upload id.
LEMMA Step_Inv ==
    ASSUME Inv, NEW t \in Tabs,
           TabTypes', StoreTypes', OnlyTab(t), TabInv(t)', StoreStep(t), UploadStep(t),
           created' = created,
           \A u \in Ids : parts'[u] = parts[u] \/
                (u <= created /\ \A f \in Files : Owned(u, f) => PartsOf(parts'[u], f)),
           \A k \in Keys : session'[k] = session[k] \/ session'[k] = NoSession,
           ObjectIsWholeFile'
    PROVE  Inv'
<1>1. created \in 0..MaxUploads /\ MaxUploads \in Nat
  BY ConstantsAssumption DEF Inv, StoreTypes
<1>2. FreshInv'
  <2>1. ASSUME NEW u \in Ids, u > created PROVE parts'[u] = NoParts
    <3>1. parts'[u] = parts[u]
      BY <1>1, <2>1 DEF Ids
    <3> QED
      BY <2>1, <3>1 DEF Inv, FreshInv
  <2>2. ASSUME NEW k \in Keys PROVE session'[k].uploadId \in 0..created
    <3>1. CASE session'[k] = session[k]
      BY <3>1 DEF Inv, FreshInv
    <3>2. CASE session'[k] = NoSession
      BY <1>1, <3>2 DEF NoSession
    <3> QED
      BY <3>1, <3>2
  <2>3. ASSUME NEW s \in Tabs PROVE uploadId'[s] \in 0..created
    <3>1. uploadId[s] \in 0..created
      BY DEF Inv, FreshInv
    <3>2. uploadId'[s] = uploadId[s] \/ uploadId'[s] = 0 \/ uploadId'[s] \in 1..created
      BY DEF OnlyTab, UploadStep
    <3> QED
      BY <1>1, <3>1, <3>2
  <2> QED
    BY <2>1, <2>2, <2>3 DEF FreshInv
<1>3. UploadInv'
  <2> SUFFICES ASSUME NEW u \in 1..created PROVE \E f \in Files : Owned(u, f)'
    BY DEF UploadInv
  <2>1. PICK f \in Files : Owned(u, f)
    BY DEF Inv, UploadInv
  <2>2. PartsOf(parts'[u], f)
    <3>1. u \in Ids
      BY <1>1 DEF Ids
    <3> QED
      BY <2>1, <3>1 DEF Owned
  <2>3. ASSUME NEW k \in Keys, session'[k].uploadId = u PROVE session'[k] = session[k]
    <3>1. NoSession.uploadId # u
      BY <1>1 DEF NoSession
    <3> QED
      BY <2>3, <3>1
  <2>4. ASSUME NEW s \in Tabs, uploadId'[s] = u
        PROVE  \/ uploadId[s] = u /\ queue'[s] = queue[s]
               \/ queue'[s] # <<>> /\ Head(queue'[s]) = f
    <3>1. CASE s # t
      BY <2>4, <3>1 DEF OnlyTab
    <3>2. CASE s = t
      <4>1. u # 0
        BY <1>1
      <4>2. \/ uploadId'[t] = uploadId[t] /\ queue'[t] = queue[t]
            \/ queue'[t] # <<>> /\ Head(queue'[t]) = f
        BY <2>1, <2>4, <3>2, <4>1 DEF UploadStep
      <4> QED
        BY <2>4, <3>2, <4>2
    <3> QED
      BY <3>1, <3>2
  <2> QED
    BY <2>1, <2>2, <2>3, <2>4, OwnedKept
<1>4. ASSUME NEW s \in Tabs PROVE TabInv(s)'
  <2>1. CASE s = t
    BY <2>1
  <2>2. CASE s # t
    BY <2>2, Others
  <2> QED
    BY <2>1, <2>2
<1> QED
  BY <1>2, <1>3, <1>4 DEF Inv

\* The batch ends.
LEMMA Thrown ==
    ASSUME Inv, NEW t \in Tabs, Throw(t)
    PROVE  TabTypes' /\ OnlyTab(t) /\ TabInv(t)' /\ uploadId'[t] = 0
<1>1. TabTypes'
  <2>1. /\ landed' = [s \in Tabs |-> landed'[s]] /\ listed' = [s \in Tabs |-> listed'[s]]
        /\ \A s \in Tabs : DOMAIN landed'[s] \subseteq Nat /\ DOMAIN listed'[s] \subseteq Nat
    BY NoPartsOf DEF Throw, Inv, TabTypes
  <2>2. part' \in [Tabs -> Nat \ {0}] /\ attempt' \in [Tabs -> 1..PART_RETRY_ATTEMPTS]
    BY ConstantsAssumption DEF Throw, Inv, TabTypes
  <2>3. /\ pc' \in [Tabs -> Labels] /\ queue' \in [Tabs -> Seq(Files)]
        /\ uploadId' \in [Tabs -> Nat] /\ status' \in [Tabs -> BOOLEAN]
    BY DEF Throw, Goto, Inv, TabTypes, Labels
  <2>4. UNCHANGED <<batch, done, shown, aborted>>
    BY DEF Throw, userVars
  <2> QED
    BY <2>1, <2>2, <2>3, <2>4 DEF Inv, TabTypes
<1>2. OnlyTab(t)
  BY DEF Throw, Goto, Inv, TabTypes, OnlyTab
<1>3. pc'[t] = "idle" /\ queue'[t] = <<>> /\ uploadId'[t] = 0
  BY DEF Throw, Goto, Inv, TabTypes
<1>4. TabInv(t)'
  BY <1>3 DEF TabInv, PcInv, QueueInv, HeldInv, AheadInv, Filling
<1> QED
  BY <1>1, <1>2, <1>3, <1>4

\* The tab moves on to a label at which nothing new is known.
LEMMA Moved ==
    ASSUME Inv, NEW t \in Tabs, pc[t] \notin {"idle", "file"},
           NEW l \in {"commit", "committed", "abort", "cancelled", "index", "completed", "create"},
           l \in Filling => uploadId[t] # 0,
           Goto(t, l), UNCHANGED <<userVars, batchVars, loopVars>>
    PROVE  /\ TabTypes' /\ OnlyTab(t) /\ TabInv(t)'
           /\ uploadId'[t] = uploadId[t] /\ queue'[t] = queue[t]
<1>1. UNCHANGED <<batch, done, shown, queue, aborted, status, uploadId, landed, part, attempt,
                  listed>>
  BY DEF userVars, batchVars, loopVars
<1>2. TabTypes'
  BY <1>1 DEF Goto, Inv, TabTypes, Labels
<1>3. OnlyTab(t)
  BY <1>1 DEF Goto, Inv, TabTypes, OnlyTab
<1>4. pc'[t] = l
  BY DEF Goto, Inv, TabTypes
<1>5. PcInv(t) /\ QueueInv(t)
  BY DEF Inv, TabInv
<1>6. TabInv(t)'
  BY <1>1, <1>4, <1>5 DEF TabInv, PcInv, QueueInv, HeldInv, AheadInv, Filling
<1> QED
  BY <1>1, <1>2, <1>3, <1>6

\* Steps in which the object store's uploads and their parts stay as they are.
LEMMA Quiet ==
    ASSUME Inv, NEW t \in Tabs,
           TabTypes', StoreTypes', OnlyTab(t), TabInv(t)', UploadStep(t),
           UNCHANGED <<upload, parts, created>>,
           \A k \in Keys : session'[k] = session[k] \/ session'[k] = NoSession,
           ObjectIsWholeFile'
    PROVE  Inv'
<1>1. StoreStep(t)
  BY DEF StoreStep
<1>2. created' = created
  OBVIOUS
<1> QED
  BY <1>1, <1>2, Step_Inv

LEMMA Stored ==
    ASSUME Inv, NEW t \in Tabs, queue[t] # <<>>,
           object' = [object EXCEPT ![key(t)] = Whole(file(t))]
    PROVE  ObjectIsWholeFile' /\ object' = [k \in Keys |-> object'[k]]
<1>1. file(t) \in Files /\ key(t) = Key[file(t)] /\ key(t) \in Keys
  BY HeadOf DEF Inv, TabTypes, file, key, Keys
<1>2. object = [k \in Keys |-> object[k]]
  BY DEF Inv, StoreTypes
<1>3. \A k \in Keys : object'[k] = IF k = key(t) THEN Whole(file(t)) ELSE object[k]
  BY <1>1, <1>2
<1>4. ObjectIsWholeFile'
  BY <1>1, <1>3 DEF Inv, ObjectIsWholeFile
<1> QED
  BY <1>2, <1>4

LEMMA Init_Inv == Init => Inv
<1> SUFFICES ASSUME Init PROVE Inv
  OBVIOUS
<1>1. TabTypes
  BY ConstantsAssumption, NoPartsOf DEF Init, TabTypes, Labels
<1>2. StoreTypes
  BY ConstantsAssumption, NoPartsOf DEF Init, StoreTypes
<1>3. FreshInv
  BY DEF Init, FreshInv, NoSession
<1>4. UploadInv
  BY DEF Init, UploadInv
<1>5. ASSUME NEW t \in Tabs PROVE TabInv(t)
  BY DEF Init, TabInv, PcInv, QueueInv, HeldInv, AheadInv, Filling
<1>6. ObjectIsWholeFile
  BY DEF Init, ObjectIsWholeFile
<1> QED
  BY <1>1, <1>2, <1>3, <1>4, <1>5, <1>6 DEF Inv

-----------------------------------------------------------------------------
(* Browser.tsx.                                                             *)

LEMMA handleUploadChange_Inv ==
    ASSUME Inv, NEW t \in Tabs, handleUploadChange(t) PROVE Inv'
<1>1. PICK b \in Batches[t] : batch' = [batch EXCEPT ![t] = b] /\ queue' = [queue EXCEPT ![t] = b]
  BY DEF handleUploadChange
<1>2. /\ pc[t] = "idle" /\ pc' = [pc EXCEPT ![t] = "file"]
      /\ aborted' = [aborted EXCEPT ![t] = FALSE]
      /\ UNCHANGED <<uploadId, landed, part, attempt, listed, status, done, shown>>
  BY DEF handleUploadChange, Goto, loopVars
<1>3. UNCHANGED <<session, upload, parts, object, row, created, faults, interrupts>>
  BY DEF handleUploadChange, storeVars, bounds
<1>4. b \in Seq(Files)
  BY ConstantsAssumption
<1>5. TabTypes'
  BY <1>1, <1>2, <1>4 DEF Inv, TabTypes, Labels
<1>6. OnlyTab(t)
  BY <1>1, <1>2 DEF Inv, TabTypes, OnlyTab
<1>7. pc'[t] = "file" /\ queue'[t] = b /\ uploadId'[t] = uploadId[t]
  BY <1>1, <1>2 DEF Inv, TabTypes
<1>8. uploadId[t] = 0
  BY <1>2 DEF Inv, TabInv, PcInv
<1>9. QueueInv(t)'
  BY <1>4, <1>7 DEF QueueInv, FromBatch
<1>10. TabInv(t)' /\ UploadStep(t)
  BY <1>7, <1>8, <1>9 DEF TabInv, PcInv, HeldInv, AheadInv, Filling, UploadStep
<1>11. StoreTypes' /\ ObjectIsWholeFile'
  BY <1>3 DEF Inv, StoreTypes, ObjectIsWholeFile
<1> QED
  BY <1>3, <1>5, <1>6, <1>10, <1>11, Quiet

LEMMA StartFile_Inv ==
    ASSUME Inv, NEW t \in Tabs, StartFile(t) PROVE Inv'
<1> DEFINE large == Size[file(t)] >= MULTIPART_THRESHOLD_BYTES
           existing == session[key(t)]
           resumes == Resumes(existing, file(t))
<1>1. PICK l \in {"put", "list", "create"} :
        /\ pc' = [pc EXCEPT ![t] = l]
        /\ l = "list" => large /\ resumes
        /\ l # "list" => ~(large /\ resumes)
  <2>1. CASE ~large
    BY <2>1 DEF StartFile, Goto
  <2>2. CASE large /\ resumes
    BY <2>2 DEF StartFile, Goto
  <2>3. CASE large /\ ~resumes
    BY <2>3 DEF StartFile, Goto
  <2> QED
    BY <2>1, <2>2, <2>3
<1>2. /\ pc[t] = "file" /\ queue[t] # <<>>
      /\ status' = [status EXCEPT ![t] = @ \/ large]
      /\ uploadId' = [uploadId EXCEPT ![t] = IF large /\ resumes THEN existing.uploadId ELSE 0]
      /\ UNCHANGED <<batch, done, shown, queue, landed, part, attempt, aborted, listed>>
  BY DEF StartFile, userVars
<1>3. UNCHANGED <<session, upload, parts, object, row, created, faults, interrupts>>
  BY DEF StartFile, storeVars, bounds
<1>4. file(t) \in Files /\ key(t) \in Keys
  BY <1>2, HeadOf DEF Inv, TabTypes, file, key, Keys
<1>5. existing.uploadId \in 0..created /\ existing \in StoredSession \cup {NoSession}
  BY <1>4 DEF Inv, FreshInv, StoreTypes
<1>6. created \in Nat /\ MaxUploads \in Nat
  BY ConstantsAssumption DEF Inv, StoreTypes
<1>7. resumes => existing.uploadId # 0
  <2> SUFFICES ASSUME resumes PROVE existing.uploadId # 0
    OBVIOUS
  <2>1. existing.fingerprint # "none"
    BY <1>4, FingerprintAssumption DEF Resumes
  <2>2. existing # NoSession
    BY <2>1 DEF NoSession
  <2> QED
    BY <1>5, <1>6, <2>2 DEF StoredSession, Ids
<1>8. TabTypes'
  <2>1. pc' \in [Tabs -> Labels]
    BY <1>1 DEF Inv, TabTypes, Labels
  <2>2. uploadId' \in [Tabs -> Nat]
    BY <1>2, <1>5, <1>6 DEF Inv, TabTypes
  <2>3. status' \in [Tabs -> BOOLEAN]
    BY <1>2 DEF Inv, TabTypes
  <2> QED
    BY <1>2, <2>1, <2>2, <2>3 DEF Inv, TabTypes
<1>9. OnlyTab(t)
  BY <1>1, <1>2 DEF Inv, TabTypes, OnlyTab
<1>10. /\ pc'[t] = l /\ queue'[t] = queue[t]
       /\ uploadId'[t] = IF large /\ resumes THEN existing.uploadId ELSE 0
  BY <1>1, <1>2 DEF Inv, TabTypes
<1>11. TabInv(t)'
  <2>1. QueueInv(t)'
    BY <1>10 DEF Inv, TabInv, QueueInv
  <2>2. PcInv(t)'
    BY <1>1, <1>2, <1>7, <1>10 DEF PcInv, Filling
  <2>3. HeldInv(t)' /\ AheadInv(t)'
    BY <1>10 DEF HeldInv, AheadInv
  <2> QED
    BY <2>1, <2>2, <2>3 DEF TabInv
<1>12. UploadStep(t)
  <2> SUFFICES ASSUME uploadId'[t] # 0
               PROVE  /\ uploadId'[t] \in 1..created /\ queue'[t] # <<>>
                      /\ \A f \in Files : Owned(uploadId'[t], f) => Head(queue'[t]) = f
    BY DEF UploadStep
  <2>1. resumes /\ uploadId'[t] = existing.uploadId
    BY <1>10
  <2>2. uploadId'[t] \in 1..created
    BY <1>5, <1>6, <1>7, <2>1
  <2>3. ASSUME NEW f \in Files, Owned(uploadId'[t], f) PROVE file(t) = f
    <3>1. existing.fingerprint = Fingerprint[f]
      BY <1>4, <2>1, <2>3 DEF Owned
    <3> QED
      BY <1>4, <2>1, <3>1, FingerprintAssumption DEF Resumes
  <2> QED
    BY <1>2, <1>10, <2>2, <2>3 DEF file
<1>13. StoreTypes' /\ ObjectIsWholeFile'
  BY <1>3 DEF Inv, StoreTypes, ObjectIsWholeFile
<1> QED
  BY <1>3, <1>8, <1>9, <1>11, <1>12, <1>13, Quiet

LEMMA onSuccess_Inv ==
    ASSUME Inv, NEW t \in Tabs, onSuccess(t) PROVE Inv'
<1>1. /\ pc[t] = "file" /\ pc' = [pc EXCEPT ![t] = "idle"]
      /\ status' = [status EXCEPT ![t] = FALSE] /\ done' = [done EXCEPT ![t] = TRUE]
      /\ shown' = [shown EXCEPT ![t] = {k \in Keys : row[k]}]
      /\ UNCHANGED <<batch, queue, uploadId, landed, part, attempt, listed, aborted>>
  BY DEF onSuccess, Goto, loopVars
<1>2. UNCHANGED <<session, upload, parts, object, row, created, faults, interrupts>>
  BY DEF onSuccess, storeVars, bounds
<1>3. TabTypes'
  BY <1>1 DEF Inv, TabTypes, Labels
<1>4. OnlyTab(t)
  BY <1>1 DEF Inv, TabTypes, OnlyTab
<1>5. pc'[t] = "idle" /\ queue'[t] = queue[t] /\ uploadId'[t] = uploadId[t]
  BY <1>1 DEF Inv, TabTypes
<1>6. uploadId[t] = 0 /\ QueueInv(t)
  BY <1>1 DEF Inv, TabInv, PcInv
<1>7. TabInv(t)' /\ UploadStep(t)
  BY <1>5, <1>6 DEF TabInv, PcInv, QueueInv, HeldInv, AheadInv, Filling, UploadStep
<1>8. StoreTypes' /\ ObjectIsWholeFile'
  BY <1>2 DEF Inv, StoreTypes, ObjectIsWholeFile
<1> QED
  BY <1>2, <1>3, <1>4, <1>7, <1>8, Quiet

\* A step that leaves every tab where it is.
LEMMA Cancel_Inv ==
    ASSUME Inv, NEW t \in Tabs, Cancel(t) PROVE Inv'
<1>1. /\ aborted' = [aborted EXCEPT ![t] = TRUE]
      /\ UNCHANGED <<pc, batch, done, shown, queue, status, uploadId, landed, part, attempt, listed>>
  BY DEF Cancel, userVars, loopVars
<1>2. /\ UNCHANGED <<session, upload, parts, object, row, created, faults>>
      /\ interrupts' \in 0..MaxInterrupts
  BY ConstantsAssumption DEF Cancel, storeVars, Interrupt, Inv, StoreTypes
<1>3. TabTypes' /\ OnlyTab(t)
  BY <1>1 DEF Inv, TabTypes, OnlyTab
<1>4. TabInv(t)' /\ UploadStep(t)
  <2>1. TabInv(t)
    BY DEF Inv
  <2> QED
    BY <1>1, <1>2, <2>1 DEF TabInv, PcInv, QueueInv, HeldInv, AheadInv, Alone, Open, Behind, Ahead,
       file, UploadStep
<1>5. StoreTypes' /\ ObjectIsWholeFile'
  BY <1>2 DEF Inv, StoreTypes, ObjectIsWholeFile
<1> QED
  BY <1>2, <1>3, <1>4, <1>5, Quiet

\* Bounds of the faults.
LEMMA FaultTypes ==
    ASSUME Inv, Fault \/ NoFault \/ Interrupt
    PROVE  faults' \in 0..MaxFaults /\ interrupts' \in 0..MaxInterrupts
  BY ConstantsAssumption DEF Inv, StoreTypes, Fault, NoFault, Interrupt, bounds

\* A step after which the batch is over and the uploads are as before.
LEMMA Thrown_Inv ==
    ASSUME Inv, NEW t \in Tabs, Throw(t), StoreTypes', UNCHANGED <<upload, parts, created>>,
           \A k \in Keys : session'[k] = session[k] \/ session'[k] = NoSession,
           ObjectIsWholeFile'
    PROVE  Inv'
  BY Thrown, Quiet DEF UploadStep

LEMMA Reload_Inv ==
    ASSUME Inv, NEW t \in Tabs, Reload(t) PROVE Inv'
<1>1. UNCHANGED <<session, upload, parts, object, row, created>> /\ Throw(t) /\ Interrupt
  BY DEF Reload, storeVars
<1>2. StoreTypes' /\ ObjectIsWholeFile'
  BY <1>1, FaultTypes DEF Inv, StoreTypes, ObjectIsWholeFile
<1> QED
  BY <1>1, <1>2, Thrown_Inv

\* Where a tab is at a file, that file and its key are known.
LEMMA AtFile ==
    ASSUME Inv, NEW t \in Tabs, queue[t] # <<>>
    PROVE  file(t) \in Files /\ key(t) = Key[file(t)] /\ key(t) \in Keys
  BY HeadOf DEF Inv, TabTypes, file, key, Keys

LEMMA Labelled ==
    ASSUME Inv, NEW t \in Tabs, pc[t] \notin {"idle", "file"}
    PROVE  queue[t] # <<>> /\ (pc[t] \in {"list"} \cup Filling => uploadId[t] # 0)
  BY DEF Inv, TabInv, PcInv

LEMMA PutSmall_Inv ==
    ASSUME Inv, NEW t \in Tabs, PutSmall(t) PROVE Inv'
<1>1. pc[t] = "put" /\ UNCHANGED <<session, upload, parts, row, created>>
  BY DEF PutSmall
<1>2. queue[t] # <<>>
  BY <1>1, Labelled
<1>3. faults' \in 0..MaxFaults /\ interrupts' \in 0..MaxInterrupts
  BY FaultTypes DEF PutSmall
<1>4. ObjectIsWholeFile' /\ StoreTypes'
  <2>1. CASE object' = [object EXCEPT ![key(t)] = Whole(file(t))]
    BY <1>1, <1>2, <1>3, <2>1, Stored DEF Inv, StoreTypes
  <2>2. CASE object' = [object EXCEPT ![key(t)] = object[key(t)]]
    <3>1. object' = object
      BY <2>2 DEF Inv, StoreTypes
    <3> QED
      BY <1>1, <1>3, <3>1 DEF Inv, StoreTypes, ObjectIsWholeFile
  <2> QED
    BY <2>1, <2>2 DEF PutSmall
<1>5. CASE Goto(t, "commit") /\ UNCHANGED <<userVars, batchVars, loopVars>>
  <2>1. /\ TabTypes' /\ OnlyTab(t) /\ TabInv(t)'
        /\ uploadId'[t] = uploadId[t] /\ queue'[t] = queue[t]
    BY <1>1, <1>5, Moved DEF Filling
  <2> QED
    BY <1>1, <1>4, <2>1, Quiet DEF UploadStep
<1>6. CASE Throw(t)
  BY <1>1, <1>4, <1>6, Thrown_Inv
<1> QED
  BY <1>5, <1>6 DEF PutSmall

LEMMA indexUploadedKey_Inv ==
    ASSUME Inv, NEW t \in Tabs, NEW l \in {"committed", "completed"},
           pc[t] \notin {"idle", "file"}, l \in Filling => uploadId[t] # 0,
           indexUploadedKey(t, l)
    PROVE  Inv'
<1>1. UNCHANGED <<session, upload, parts, object, created>>
  BY DEF indexUploadedKey
<1>2. faults' \in 0..MaxFaults /\ interrupts' \in 0..MaxInterrupts
  BY FaultTypes DEF indexUploadedKey
<1>3. row' \in [Keys -> BOOLEAN]
  <2>1. key(t) \in Keys /\ row \in [Keys -> BOOLEAN]
    BY Labelled, AtFile DEF Inv, StoreTypes
  <2> QED
    BY <2>1 DEF indexUploadedKey
<1>4. StoreTypes' /\ ObjectIsWholeFile'
  BY <1>1, <1>2, <1>3 DEF Inv, StoreTypes, ObjectIsWholeFile
<1>5. CASE Goto(t, l) /\ UNCHANGED <<userVars, batchVars, loopVars>>
  <2>1. /\ TabTypes' /\ OnlyTab(t) /\ TabInv(t)'
        /\ uploadId'[t] = uploadId[t] /\ queue'[t] = queue[t]
    BY <1>5, Moved
  <2> QED
    BY <1>1, <1>4, <2>1, Quiet DEF UploadStep
<1>6. CASE Throw(t)
  BY <1>1, <1>4, <1>6, Thrown_Inv
<1> QED
  BY <1>5, <1>6 DEF indexUploadedKey

LEMMA Index_Inv ==
    ASSUME Inv, NEW t \in Tabs, commitUpload(t) \/ IndexObject(t) PROVE Inv'
<1>1. CASE commitUpload(t)
  BY <1>1, indexUploadedKey_Inv DEF commitUpload, Filling
<1>2. CASE IndexObject(t)
  BY <1>2, indexUploadedKey_Inv, Labelled DEF IndexObject, Filling
<1> QED
  BY <1>1, <1>2

-----------------------------------------------------------------------------
(* resumeOrCreateUpload.                                                    *)

LEMMA listUploadedParts_Inv ==
    ASSUME Inv, NEW t \in Tabs, listUploadedParts(t) PROVE Inv'
<1>1. /\ pc[t] = "list"
      /\ UNCHANGED <<batch, done, shown, queue, aborted, status, uploadId, attempt, listed>>
      /\ UNCHANGED <<session, upload, parts, object, row, created>>
  BY DEF listUploadedParts, userVars, batchVars, storeVars
<1>2. faults' \in 0..MaxFaults /\ interrupts' \in 0..MaxInterrupts
  BY FaultTypes DEF listUploadedParts
<1>3. StoreTypes' /\ ObjectIsWholeFile'
  BY <1>1, <1>2 DEF Inv, StoreTypes, ObjectIsWholeFile
<1>4. queue[t] # <<>> /\ uploadId[t] # 0
  BY <1>1, Labelled
<1>5. CASE /\ landed' = [landed EXCEPT ![t] = Landed(uploadId[t])]
           /\ part' = [part EXCEPT ![t] = 1]
           /\ Goto(t, "part")
  <2> DEFINE u == uploadId[t]
  <2>1. u \in Ids /\ file(t) \in Files /\ PartsOf(parts[u], file(t))
    BY <1>4, Owner DEF Owned
  <2>2. DOMAIN Landed(u) = DOMAIN parts[u] /\ DOMAIN parts[u] \subseteq PartNumbers(file(t))
    BY <2>1 DEF Landed, PartsOf
  <2>3. ASSUME NEW i \in DOMAIN parts[u] PROVE Landed(u)[i] = PartSize(file(t), i)
    <3>1. parts[u][i] = Bytes(file(t), i)
      BY <2>1 DEF PartsOf
    <3> QED
      BY <3>1 DEF Landed, Bytes
  <2>4. PartNumbers(file(t)) \subseteq Nat \ {0}
    BY <2>1, PartsAreNumbers
  <2>5. TabTypes'
    <3>1. landed' = [s \in Tabs |-> landed'[s]] /\ \A s \in Tabs : DOMAIN landed'[s] \subseteq Nat
      BY <1>5, <2>2, <2>4 DEF Inv, TabTypes
    <3>2. part' \in [Tabs -> Nat \ {0}] /\ pc' \in [Tabs -> Labels]
      BY <1>5 DEF Inv, TabTypes, Goto, Labels
    <3> QED
      BY <1>1, <3>1, <3>2 DEF Inv, TabTypes
  <2>6. OnlyTab(t)
    BY <1>1, <1>5 DEF Goto, Inv, TabTypes, OnlyTab
  <2>7. pc'[t] = "part" /\ landed'[t] = Landed(u) /\ part'[t] = 1
    BY <1>5 DEF Goto, Inv, TabTypes
  <2>8. file(t)' = file(t)
    BY <1>1 DEF file
  <2>9. PcInv(t)' /\ QueueInv(t)'
    BY <1>1, <1>4, <2>7 DEF PcInv, QueueInv, Inv, TabInv
  <2>10. HeldInv(t)'
    <3>1. ASSUME NEW i \in PartNumbers(file(t)), Behind(t, i)' PROVE i \in DOMAIN parts[u]
      BY <2>2, <2>4, <2>7, <3>1 DEF Behind
    <3> QED
      BY <1>1, <2>7, <2>8, <3>1 DEF HeldInv
  <2>11. AheadInv(t)'
    BY <1>1, <2>2, <2>3, <2>7, <2>8 DEF AheadInv
  <2> QED
    BY <1>1, <1>3, <2>5, <2>6, <2>9, <2>10, <2>11, Quiet DEF TabInv, UploadStep
<1>6. CASE Goto(t, AfterListError) /\ UNCHANGED <<landed, part>>
  <2>1. Goto(t, "create") /\ UNCHANGED <<userVars, batchVars, loopVars>>
    BY <1>1, <1>6 DEF AfterListError, userVars, batchVars, loopVars
  <2>2. /\ TabTypes' /\ OnlyTab(t) /\ TabInv(t)'
        /\ uploadId'[t] = uploadId[t] /\ queue'[t] = queue[t]
    BY <1>1, <2>1, Moved DEF Filling
  <2> QED
    BY <1>1, <1>3, <2>2, Quiet DEF UploadStep
<1> QED
  BY <1>5, <1>6 DEF listUploadedParts

\* A step of tab t in which a new upload id is handed out for its file.
LEMMA HandedOut ==
    ASSUME Inv, NEW t \in Tabs, queue[t] # <<>>, created < MaxUploads,
           created' = created + 1, upload' = [upload EXCEPT ![created + 1] = "open"],
           parts' = parts, TabTypes', StoreTypes', OnlyTab(t), TabInv(t)',
           uploadId'[t] = 0 \/ (uploadId'[t] = created + 1 /\ queue'[t] = queue[t]),
           \A k \in Keys : session'[k] = session[k] \/
                (k = key(t) /\ session'[k] = [uploadId |-> created + 1,
                                              fingerprint |-> Fingerprint[file(t)]]),
           ObjectIsWholeFile'
    PROVE  Inv'
<1>1. created \in Nat /\ MaxUploads \in Nat /\ created + 1 \in Ids
  BY ConstantsAssumption DEF Inv, StoreTypes, Ids
<1>2. file(t) \in Files /\ key(t) = Key[file(t)] /\ key(t) \in Keys
  BY AtFile
<1>3. StoreStep(t)
  BY <1>1 DEF StoreStep, Inv, StoreTypes, Ids
<1>4. ASSUME NEW s \in Tabs
      PROVE  \/ uploadId'[s] = 0
             \/ uploadId'[s] \in 1..created /\ uploadId'[s] = uploadId[s] /\ queue'[s] = queue[s]
             \/ s = t /\ uploadId'[s] = created + 1 /\ queue'[s] = queue[s]
  <2>1. uploadId[s] \in 0..created
    BY DEF Inv, FreshInv
  <2>2. CASE s = t
    BY <2>2
  <2>3. CASE s # t
    <3>1. uploadId'[s] = uploadId[s] /\ queue'[s] = queue[s]
      BY <2>3 DEF OnlyTab
    <3> QED
      BY <1>1, <2>1, <3>1
  <2> QED
    BY <2>2, <2>3
<1>5. ASSUME NEW k \in Keys
      PROVE  \/ session'[k] = session[k] /\ session'[k].uploadId \in 0..created
             \/ /\ session'[k].uploadId = created + 1 /\ k = Key[file(t)]
                /\ session'[k].fingerprint = Fingerprint[file(t)]
  <2>1. CASE session'[k] = session[k]
    BY <2>1 DEF Inv, FreshInv
  <2>2. CASE k = key(t) /\ session'[k] = [uploadId |-> created + 1,
                                          fingerprint |-> Fingerprint[file(t)]]
    BY <1>2, <2>2
  <2> QED
    BY <2>1, <2>2
<1>6. FreshInv'
  <2>1. \A u \in Ids : u > created + 1 => parts'[u] = NoParts
    BY <1>1 DEF Inv, FreshInv, Ids
  <2>2. \A k \in Keys : session'[k].uploadId \in 0..(created + 1)
    BY <1>1, <1>5
  <2>3. \A s \in Tabs : uploadId'[s] \in 0..(created + 1)
    BY <1>1, <1>4
  <2> QED
    BY <2>1, <2>2, <2>3 DEF FreshInv
<1>7. UploadInv'
  <2> SUFFICES ASSUME NEW u \in 1..(created + 1) PROVE \E f \in Files : Owned(u, f)'
    BY DEF UploadInv
  <2>1. CASE u = created + 1
    <3>1. parts'[u] = NoParts
      BY <1>1, <2>1 DEF Inv, FreshInv
    <3>2. PartsOf(parts'[u], file(t))
      BY <3>1, NoPartsOf
    <3>3. ASSUME NEW k \in Keys, session'[k].uploadId = u
          PROVE  session'[k].fingerprint = Fingerprint[file(t)] /\ k = Key[file(t)]
      BY <1>1, <1>5, <2>1, <3>3
    <3>4. ASSUME NEW s \in Tabs, uploadId'[s] = u
          PROVE  queue'[s] # <<>> /\ Head(queue'[s]) = file(t)
      <4>1. s = t /\ queue'[s] = queue[s]
        BY <1>1, <1>4, <2>1, <3>4
      <4> QED
        BY <4>1 DEF file
    <3>5. PICK f \in Files : f = file(t)
      BY <1>2
    <3>6. Owned(u, f)'
      BY <3>2, <3>3, <3>4, <3>5 DEF Owned
    <3> QED
      BY <3>6
  <2>2. CASE u \in 1..created
    <3>1. PICK f \in Files : Owned(u, f)
      BY <2>2 DEF Inv, UploadInv
    <3>2. PartsOf(parts'[u], f)
      BY <3>1 DEF Owned
    <3>3. \A k \in Keys : session'[k].uploadId = u => session'[k] = session[k]
      BY <1>1, <1>5, <2>2
    <3>4. \A s \in Tabs : uploadId'[s] = u => uploadId[s] = u /\ queue'[s] = queue[s]
      BY <1>1, <1>4, <2>2
    <3> QED
      BY <2>2, <3>1, <3>2, <3>3, <3>4, OwnedKept
  <2> QED
    BY <1>1, <2>1, <2>2
<1>8. ASSUME NEW s \in Tabs PROVE TabInv(s)'
  <2>1. CASE s = t
    BY <2>1
  <2>2. CASE s # t
    BY <1>3, <2>2, Others
  <2> QED
    BY <2>1, <2>2
<1> QED
  BY <1>6, <1>7, <1>8 DEF Inv

LEMMA createMultipartUpload_Inv ==
    ASSUME Inv, NEW t \in Tabs, createMultipartUpload(t) PROVE Inv'
<1>1. pc[t] = "create" /\ created < MaxUploads /\ UNCHANGED <<parts, object, row>>
  BY DEF createMultipartUpload
<1>2. faults' \in 0..MaxFaults /\ interrupts' \in 0..MaxInterrupts
  BY FaultTypes DEF createMultipartUpload
<1>3. queue[t] # <<>>
  BY <1>1, Labelled
<1>4. ObjectIsWholeFile'
  BY <1>1 DEF Inv, ObjectIsWholeFile
<1>5. created \in Nat /\ MaxUploads \in Nat /\ created + 1 \in Ids
  BY <1>1, ConstantsAssumption DEF Inv, StoreTypes, Ids
<1> DEFINE new == /\ upload' = [upload EXCEPT ![created + 1] = "open"]
                  /\ created' = created + 1
<1>6. CASE new /\ saveSession(t)
           /\ uploadId' = [uploadId EXCEPT ![t] = created + 1]
           /\ landed' = [landed EXCEPT ![t] = NoParts]
           /\ part' = [part EXCEPT ![t] = 1]
           /\ Goto(t, "part")
           /\ UNCHANGED <<userVars, batchVars, attempt, listed>>
  <2>1. file(t) \in Files /\ key(t) \in Keys
    BY <1>3, AtFile
  <2>2. StoreTypes'
    <3>1. session' \in [Keys -> StoredSession \cup {NoSession}]
      BY <1>5, <1>6, <2>1 DEF saveSession, StoredSession, Inv, StoreTypes
    <3> QED
      BY <1>1, <1>2, <1>5, <1>6, <3>1 DEF Inv, StoreTypes
  <2>3. UNCHANGED <<batch, done, shown, queue, aborted, status, attempt, listed>>
    BY <1>6 DEF userVars, batchVars
  <2>4. TabTypes'
    <3>1. landed' = [s \in Tabs |-> landed'[s]] /\ \A s \in Tabs : DOMAIN landed'[s] \subseteq Nat
      BY <1>6, NoPartsOf DEF Inv, TabTypes
    <3>2. /\ part' \in [Tabs -> Nat \ {0}] /\ pc' \in [Tabs -> Labels]
          /\ uploadId' \in [Tabs -> Nat]
      BY <1>5, <1>6 DEF Inv, TabTypes, Goto, Labels
    <3> QED
      BY <2>3, <3>1, <3>2 DEF Inv, TabTypes
  <2>5. OnlyTab(t)
    BY <1>6, <2>3 DEF Goto, Inv, TabTypes, OnlyTab
  <2>6. pc'[t] = "part" /\ landed'[t] = NoParts /\ part'[t] = 1 /\ uploadId'[t] = created + 1
    BY <1>6 DEF Goto, Inv, TabTypes
  <2>7. parts'[created + 1] = NoParts
    BY <1>1, <1>5 DEF Inv, FreshInv
  <2>8. PcInv(t)' /\ QueueInv(t)'
    BY <1>3, <1>5, <2>3, <2>6 DEF PcInv, QueueInv, Inv, TabInv
  <2>9. HeldInv(t)'
    <3>1. PartNumbers(file(t)) \subseteq Nat \ {0} /\ file(t)' = file(t)
      BY <2>1, <2>3, PartsAreNumbers DEF file
    <3>2. ASSUME NEW i \in PartNumbers(file(t)) PROVE ~Behind(t, i)'
      BY <2>6, <3>1, NoPartsOf DEF Behind
    <3> QED
      BY <2>6, <3>1, <3>2 DEF HeldInv
  <2>10. AheadInv(t)'
    BY <2>6, <2>7, NoPartsOf DEF AheadInv
  <2>11. \A k \in Keys : session'[k] = session[k] \/
             (k = key(t) /\ session'[k] = [uploadId |-> created + 1,
                                           fingerprint |-> Fingerprint[file(t)]])
    BY <1>6 DEF saveSession, Inv, StoreTypes
  <2> QED
    BY <1>1, <1>3, <1>4, <1>6, <2>2, <2>3, <2>4, <2>5, <2>6, <2>8, <2>9, <2>10, <2>11, HandedOut
       DEF TabInv
<1>7. CASE Throw(t) /\ UNCHANGED <<upload, created, session>>
  <2>1. StoreTypes'
    BY <1>1, <1>2, <1>7 DEF Inv, StoreTypes
  <2> QED
    BY <1>1, <1>4, <1>7, <2>1, Thrown_Inv
<1>8. CASE Throw(t) /\ new /\ UNCHANGED session
  <2>1. StoreTypes'
    BY <1>1, <1>2, <1>5, <1>8 DEF Inv, StoreTypes
  <2> QED
    BY <1>1, <1>3, <1>4, <1>8, <2>1, Thrown, HandedOut
<1> QED
  BY <1>6, <1>7, <1>8 DEF createMultipartUpload

-----------------------------------------------------------------------------
(* uploadFileMultipart.                                                     *)

LEMMA NextPart_Inv ==
    ASSUME Inv, NEW t \in Tabs, NextPart(t) PROVE Inv'
<1>1. /\ pc[t] = "part"
      /\ UNCHANGED <<batch, done, shown, queue, aborted, status, uploadId, landed, listed>>
      /\ UNCHANGED <<session, upload, parts, object, row, created, faults, interrupts>>
  BY DEF NextPart, userVars, batchVars, storeVars, bounds
<1>2. StoreTypes' /\ ObjectIsWholeFile'
  BY <1>1 DEF Inv, StoreTypes, ObjectIsWholeFile
<1>3. queue[t] # <<>> /\ uploadId[t] # 0
  BY <1>1, Labelled DEF Filling
<1>4. file(t) \in Files /\ PartNumbers(file(t)) \subseteq Nat \ {0} /\ part[t] \in Nat \ {0}
  BY <1>3, AtFile, PartsAreNumbers DEF Inv, TabTypes
<1>5. UploadStep(t) /\ file(t)' = file(t)
  BY <1>1 DEF UploadStep, file
<1>6. HeldInv(t) /\ AheadInv(t) /\ QueueInv(t)
  BY DEF Inv, TabInv
\* The cancellation is seen.
<1>7. CASE Goto(t, "abort") /\ UNCHANGED <<part, attempt>>
  <2>1. UNCHANGED <<userVars, batchVars, loopVars>>
    BY <1>1, <1>7 DEF userVars, batchVars, loopVars
  <2>2. TabTypes' /\ OnlyTab(t) /\ TabInv(t)'
    BY <1>1, <1>3, <1>7, <2>1, Moved
  <2> QED
    BY <1>1, <1>2, <1>5, <2>2, Quiet
\* The first missing part is sent.
<1>8. CASE /\ Missing(t) # {} /\ Goto(t, "send")
           /\ part' = [part EXCEPT ![t] = CHOOSE i \in Missing(t) : \A j \in Missing(t) : i <= j]
           /\ attempt' = [attempt EXCEPT ![t] = 1]
  <2>1. Missing(t) \subseteq PartNumbers(file(t))
    BY DEF Missing
  <2>2. PICK m \in Missing(t) : m = part'[t] /\ \A j \in Missing(t) : m <= j
    <3>1. \E m \in Missing(t) : \A j \in Missing(t) : m <= j
      BY <1>4, <1>8, <2>1, NatMin
    <3>2. part'[t] = CHOOSE i \in Missing(t) : \A j \in Missing(t) : i <= j
      BY <1>8 DEF Inv, TabTypes
    <3> QED
      BY <3>1, <3>2
  <2>3. m \in PartNumbers(file(t)) /\ m \in Nat \ {0}
    BY <1>4, <2>1
  <2>4. TabTypes'
    <3>1. part' \in [Tabs -> Nat \ {0}]
      BY <1>8, <2>2, <2>3 DEF Inv, TabTypes
    <3>2. attempt' \in [Tabs -> 1..PART_RETRY_ATTEMPTS] /\ pc' \in [Tabs -> Labels]
      BY <1>8, ConstantsAssumption DEF Inv, TabTypes, Goto, Labels
    <3> QED
      BY <1>1, <3>1, <3>2 DEF Inv, TabTypes
  <2>5. OnlyTab(t)
    BY <1>1, <1>8 DEF Goto, Inv, TabTypes, OnlyTab
  <2>6. pc'[t] = "send" /\ part'[t] = m /\ attempt'[t] = 1
    BY <1>8, <2>2 DEF Goto, Inv, TabTypes
  <2>7. PcInv(t)' /\ QueueInv(t)'
    BY <1>1, <1>3, <1>5, <1>6, <2>3, <2>6 DEF PcInv, QueueInv
  <2>8. HeldInv(t)'
    <3>1. ASSUME NEW i \in PartNumbers(file(t)), Behind(t, i)' PROVE Behind(t, i)
      <4>1. CASE i \in DOMAIN landed[t]
        BY <4>1 DEF Behind
      <4>2. CASE i \notin DOMAIN landed[t]
        <5>1. i < m
          BY <1>1, <2>6, <3>1, <4>2 DEF Behind
        <5>2. i \notin Missing(t)
          BY <1>4, <2>2, <2>3, <5>1
        <5>3. ~(i >= part[t])
          BY <4>2, <5>2 DEF Missing
        <5> QED
          BY <1>4, <5>3 DEF Behind
      <4> QED
        BY <4>1, <4>2
    <3> QED
      BY <1>1, <1>5, <1>6, <2>6, <3>1 DEF HeldInv, Open
  <2>9. AheadInv(t)'
    <3> SUFFICES ASSUME Alone(t)
                 PROVE  /\ \A i \in DOMAIN parts[uploadId[t]] : i > m =>
                              i \in DOMAIN landed[t] /\ landed[t][i] = PartSize(file(t), i)
                        /\ m \notin DOMAIN parts[uploadId[t]]
      BY <1>1, <1>5, <2>6 DEF AheadInv, Alone, Ahead
    <3>1. m >= part[t] /\ ~(m \in DOMAIN landed[t] /\ landed[t][m] = PartSize(file(t), m))
      BY DEF Missing
    <3>2. DOMAIN parts[uploadId[t]] \subseteq Nat
      BY <1>3, Owner DEF Inv, StoreTypes
    <3>3. ASSUME NEW i \in DOMAIN parts[uploadId[t]], i >= part[t] PROVE Ahead(t, i)
      BY <1>1, <1>4, <3>2, <3>3 DEF Ahead
    <3>4. ASSUME NEW i \in DOMAIN parts[uploadId[t]], i >= part[t]
          PROVE  i \in DOMAIN landed[t] /\ landed[t][i] = PartSize(file(t), i)
      BY <1>1, <1>6, <3>3, <3>4 DEF AheadInv
    <3> QED
      BY <1>4, <2>3, <3>1, <3>2, <3>4
  <2> QED
    BY <1>1, <1>2, <1>5, <2>4, <2>5, <2>7, <2>8, <2>9, Quiet DEF TabInv
\* Nothing is missing.
<1>9. CASE /\ part[t] \notin PartNumbers(file(t)) \/ Missing(t) = {}
           /\ Goto(t, "complete") /\ UNCHANGED <<part, attempt>>
  <2>1. TabTypes' /\ OnlyTab(t)
    BY <1>1, <1>9 DEF Inv, TabTypes, Goto, Labels, OnlyTab
  <2>2. pc'[t] = "complete"
    BY <1>9 DEF Goto, Inv, TabTypes
  <2>3. PcInv(t)' /\ QueueInv(t)' /\ AheadInv(t)'
    BY <1>1, <1>3, <1>6, <2>2 DEF PcInv, QueueInv, AheadInv
  <2>4. ASSUME NEW i \in PartNumbers(file(t)) PROVE Behind(t, i)
    <3>1. CASE part[t] \notin PartNumbers(file(t))
      <4>1. PICK n \in Int : PartNumbers(file(t)) = 1..n
        BY <1>4, Plan
      <4> QED
        BY <1>4, <3>1, <4>1 DEF Behind
    <3>2. CASE Missing(t) = {}
      <4>1. ~(i >= part[t]) \/ i \in DOMAIN landed[t]
        BY <3>2 DEF Missing
      <4> QED
        BY <1>4, <4>1 DEF Behind
    <3> QED
      BY <1>9, <3>1, <3>2
  <2>5. HeldInv(t)'
    BY <1>1, <1>5, <1>6, <2>2, <2>4 DEF HeldInv, Open
  <2> QED
    BY <1>1, <1>2, <1>5, <2>1, <2>3, <2>5, Quiet DEF TabInv
<1> QED
  BY <1>7, <1>8, <1>9 DEF NextPart

\* The bytes of a part of the tab's file reach its upload, or do not.
Lands(t) == parts' = parts \/ PartLands(t)

LEMMA LandsKeeps ==
    ASSUME Inv, NEW t \in Tabs, pc[t] = "send", Lands(t), UNCHANGED upload
    PROVE  /\ StoreStep(t)
           /\ parts' = [u \in Ids |-> parts'[u]] /\ \A u \in Ids : DOMAIN parts'[u] \subseteq Nat
           /\ \A u \in Ids : parts'[u] = parts[u] \/
                  (u <= created /\ \A f \in Files : Owned(u, f) => PartsOf(parts'[u], f))
           /\ DOMAIN parts[uploadId[t]] \subseteq DOMAIN parts'[uploadId[t]]
           /\ DOMAIN parts'[uploadId[t]] \subseteq DOMAIN parts[uploadId[t]] \cup {part[t]}
           /\ PartLands(t) => part[t] \in DOMAIN parts'[uploadId[t]]
<1> DEFINE v == uploadId[t]
<1>1. /\ v \in 1..created /\ v \in Ids /\ file(t) \in Files /\ Owned(v, file(t))
      /\ queue[t] # <<>>
  BY Labelled, Owner DEF Filling
<1>2. part[t] \in PartNumbers(file(t)) /\ PartNumbers(file(t)) \subseteq Nat \ {0}
  BY <1>1, PartsAreNumbers DEF Inv, TabInv, PcInv
<1>3. parts = [u \in Ids |-> parts[u]] /\ \A u \in Ids : DOMAIN parts[u] \subseteq Nat
  BY DEF Inv, StoreTypes
<1>4. CASE parts' = parts
  <2>1. ~PartLands(t) \/ part[t] \in DOMAIN parts[v]
    <3> SUFFICES ASSUME PartLands(t) PROVE part[t] \in DOMAIN parts[v]
      OBVIOUS
    <3>1. parts'[v] = [i \in DOMAIN parts[v] \cup {part[t]} |->
                          IF i = part[t] THEN Bytes(file(t), i) ELSE parts[v][i]]
      BY <1>1, <1>3 DEF PartLands
    <3>2. DOMAIN parts'[v] = DOMAIN parts[v] \cup {part[t]}
      BY <3>1
    <3> QED
      BY <1>4, <3>2
  <2>2. StoreStep(t)
    BY <1>4 DEF StoreStep
  <2> QED
    BY <1>3, <1>4, <2>1, <2>2
<1>5. CASE PartLands(t)
  <2> DEFINE more == [i \in DOMAIN parts[v] \cup {part[t]} |->
                          IF i = part[t] THEN Bytes(file(t), i) ELSE parts[v][i]]
  <2>1. parts' = [parts EXCEPT ![v] = more]
    BY <1>5 DEF PartLands
  <2>2. DOMAIN more = DOMAIN parts[v] \cup {part[t]}
    OBVIOUS
  <2>3. PartsOf(more, file(t))
    <3>1. PartsOf(parts[v], file(t))
      BY <1>1 DEF Owned
    <3>2. ASSUME NEW i \in DOMAIN more PROVE more[i] = Bytes(file(t), i)
      BY <3>1 DEF PartsOf
    <3> QED
      BY <1>2, <3>1, <3>2 DEF PartsOf
  <2> HIDE DEF more
  <2>4. /\ parts'[v] = more
        /\ \A u \in Ids : u # v => parts'[u] = parts[u]
        /\ parts' = [u \in Ids |-> parts'[u]]
    BY <1>1, <1>3, <2>1
  <2>5. ASSUME NEW f \in Files, Owned(v, f) PROVE f = file(t)
    BY <2>5 DEF Owned, file
  <2>6. v <= created
    BY <1>1
  <2>7. StoreStep(t)
    <3>1. ASSUME NEW u \in 1..created PROVE u \in Ids
      BY ConstantsAssumption DEF Inv, StoreTypes, Ids
    <3> QED
      BY <2>2, <2>4, <3>1 DEF StoreStep
  <2>8. ASSUME NEW u \in Ids PROVE DOMAIN parts'[u] \subseteq Nat
    BY <1>2, <1>3, <2>2, <2>4
  <2>9. \A u \in Ids : parts'[u] = parts[u] \/
            (u <= created /\ \A f \in Files : Owned(u, f) => PartsOf(parts'[u], f))
    BY <2>3, <2>4, <2>5, <2>6
  <2> QED
    BY <2>2, <2>4, <2>7, <2>8, <2>9
<1> QED
  BY <1>4, <1>5 DEF Lands

LEMMA uploadPartWithRetry_Inv ==
    ASSUME Inv, NEW t \in Tabs, uploadPartWithRetry(t) PROVE Inv'
<1>1. pc[t] = "send" /\ UNCHANGED <<session, upload, object, row, created>> /\ Lands(t)
  BY DEF uploadPartWithRetry, Lands
<1>2. faults' \in 0..MaxFaults /\ interrupts' \in 0..MaxInterrupts
  BY FaultTypes DEF uploadPartWithRetry
<1>3. ObjectIsWholeFile' /\ StoreTypes'
  BY <1>1, <1>2, LandsKeeps DEF Inv, StoreTypes, ObjectIsWholeFile
<1>4. /\ StoreStep(t) /\ created' = created
      /\ \A u \in Ids : parts'[u] = parts[u] \/
             (u <= created /\ \A f \in Files : Owned(u, f) => PartsOf(parts'[u], f))
      /\ \A k \in Keys : session'[k] = session[k]
  BY <1>1, LandsKeeps
<1>5. /\ queue[t] # <<>> /\ uploadId[t] # 0 /\ file(t) \in Files
      /\ PartNumbers(file(t)) \subseteq Nat \ {0}
      /\ part[t] \in Nat \ {0}
  BY <1>1, Labelled, AtFile, PartsAreNumbers DEF Filling, Inv, TabTypes
<1>6. PcInv(t) /\ HeldInv(t) /\ AheadInv(t) /\ QueueInv(t)
  BY DEF Inv, TabInv
\* The part is up.
<1>7. CASE /\ PartLands(t) /\ part' = [part EXCEPT ![t] = @ + 1] /\ Goto(t, "part")
           /\ UNCHANGED <<userVars, batchVars, uploadId, landed, attempt, listed>>
  <2>1. UNCHANGED <<batch, done, shown, queue, aborted, status, uploadId, landed, attempt, listed>>
    BY <1>7 DEF userVars, batchVars
  <2>2. TabTypes'
    <3>1. part' \in [Tabs -> Nat \ {0}] /\ pc' \in [Tabs -> Labels]
      BY <1>7 DEF Inv, TabTypes, Goto, Labels
    <3> QED
      BY <2>1, <3>1 DEF Inv, TabTypes
  <2>3. OnlyTab(t)
    BY <1>7, <2>1 DEF Goto, Inv, TabTypes, OnlyTab
  <2>4. pc'[t] = "part" /\ part'[t] = part[t] + 1 /\ file(t)' = file(t)
    BY <1>7, <2>1 DEF Goto, Inv, TabTypes, file
  <2>5. PcInv(t)' /\ QueueInv(t)'
    BY <1>5, <1>6, <2>1, <2>4 DEF PcInv, QueueInv
  <2>6. HeldInv(t)'
    <3>1. ASSUME NEW i \in PartNumbers(file(t)), Behind(t, i)' PROVE Behind(t, i) \/ i = part[t]
      BY <1>5, <2>1, <2>4, <3>1 DEF Behind
    <3>2. /\ DOMAIN parts[uploadId[t]] \subseteq DOMAIN parts'[uploadId[t]]
          /\ part[t] \in DOMAIN parts'[uploadId[t]]
      BY <1>1, <1>7, LandsKeeps
    <3> QED
      BY <1>1, <1>6, <2>1, <2>4, <3>1, <3>2 DEF HeldInv, Open
  <2>7. AheadInv(t)'
    <3> SUFFICES ASSUME Alone(t), NEW i \in DOMAIN parts'[uploadId[t]], Ahead(t, i)'
                 PROVE  i \in DOMAIN landed[t] /\ landed[t][i] = PartSize(file(t), i)
      BY <2>1, <2>4 DEF AheadInv, Alone
    <3>1. i \in DOMAIN parts[uploadId[t]] \cup {part[t]}
      BY <1>1, LandsKeeps
    <3>2. DOMAIN parts[uploadId[t]] \subseteq Nat
      BY <1>5, Owner DEF Inv, StoreTypes
    <3>3. i > part[t] /\ i \in DOMAIN parts[uploadId[t]]
      BY <1>5, <2>4, <3>1, <3>2 DEF Ahead
    <3> QED
      BY <1>1, <1>6, <3>3 DEF AheadInv, Ahead
  <2> QED
    BY <1>3, <1>4, <2>1, <2>2, <2>3, <2>5, <2>6, <2>7, Step_Inv DEF TabInv, UploadStep
\* The try failed and is repeated.
<1>8. CASE /\ ~Exhausted(attempt[t]) /\ attempt' = [attempt EXCEPT ![t] = @ + 1]
           /\ UNCHANGED <<userVars, pc, batchVars, uploadId, landed, part, listed>>
  <2>1. /\ UNCHANGED <<pc, batch, done, shown, queue, aborted, status, uploadId, landed, part>>
        /\ UNCHANGED listed
    BY <1>8 DEF userVars, batchVars
  <2>2. attempt[t] \in 1..PART_RETRY_ATTEMPTS /\ attempt[t] < PART_RETRY_ATTEMPTS
    BY <1>8, ConstantsAssumption DEF Exhausted, Inv, TabTypes
  <2>3. TabTypes'
    <3>1. attempt' \in [Tabs -> 1..PART_RETRY_ATTEMPTS]
      BY <1>8, <2>2, ConstantsAssumption DEF Inv, TabTypes
    <3> QED
      BY <2>1, <3>1 DEF Inv, TabTypes
  <2>4. OnlyTab(t)
    BY <1>8, <2>1 DEF Inv, TabTypes, OnlyTab
  <2>5. attempt'[t] # 1 /\ file(t)' = file(t)
    BY <1>8, <2>1, <2>2, ConstantsAssumption DEF Inv, TabTypes, file
  <2>6. PcInv(t)' /\ QueueInv(t)'
    BY <1>6, <2>1, <2>5 DEF PcInv, QueueInv
  <2>7. HeldInv(t)'
    <3>1. DOMAIN parts[uploadId[t]] \subseteq DOMAIN parts'[uploadId[t]]
      BY <1>1, LandsKeeps
    <3> QED
      BY <1>1, <1>6, <2>1, <2>5, <3>1 DEF HeldInv, Open, Behind
  <2>8. AheadInv(t)'
    <3> SUFFICES ASSUME Alone(t), NEW i \in DOMAIN parts'[uploadId[t]], Ahead(t, i)'
                 PROVE  i \in DOMAIN landed[t] /\ landed[t][i] = PartSize(file(t), i)
      BY <2>1, <2>5 DEF AheadInv, Alone
    <3>1. i \in DOMAIN parts[uploadId[t]] \cup {part[t]}
      BY <1>1, LandsKeeps
    <3>2. i > part[t] /\ i \in DOMAIN parts[uploadId[t]]
      BY <1>1, <1>5, <2>1, <3>1 DEF Ahead
    <3> QED
      BY <1>1, <1>6, <3>2 DEF AheadInv, Ahead
  <2> QED
    BY <1>3, <1>4, <2>1, <2>3, <2>4, <2>6, <2>7, <2>8, Step_Inv DEF TabInv, UploadStep
\* The last try failed.
<1>9. CASE Throw(t)
  BY <1>3, <1>4, <1>9, Thrown, Step_Inv DEF UploadStep
\* The transfer was interrupted.
<1>10. CASE Goto(t, "abort") /\ UNCHANGED <<userVars, batchVars, loopVars>>
  <2>1. /\ TabTypes' /\ OnlyTab(t) /\ TabInv(t)'
        /\ uploadId'[t] = uploadId[t] /\ queue'[t] = queue[t]
    BY <1>1, <1>5, <1>10, Moved
  <2> QED
    BY <1>3, <1>4, <2>1, Step_Inv DEF UploadStep
<1> QED
  BY <1>7, <1>8, <1>9, <1>10 DEF uploadPartWithRetry

\* The tab's upload is closed, with or without its parts.
LEMMA Closed ==
    ASSUME Inv, NEW t \in Tabs, uploadId[t] # 0, NEW end \in {"aborted", "completed"},
           upload' = [upload EXCEPT ![uploadId[t]] = end],
           parts' = parts \/ parts' = [parts EXCEPT ![uploadId[t]] = NoParts]
    PROVE  /\ StoreStep(t)
           /\ upload' \in [Ids -> {"none", "open", "completed", "aborted"}]
           /\ parts' = [u \in Ids |-> parts'[u]] /\ \A u \in Ids : DOMAIN parts'[u] \subseteq Nat
           /\ \A u \in Ids : parts'[u] = parts[u] \/
                  (u <= created /\ \A f \in Files : Owned(u, f) => PartsOf(parts'[u], f))
<1> DEFINE v == uploadId[t]
<1>1. v \in 1..created /\ v \in Ids /\ v <= created
  BY Owner
<1>2. /\ upload \in [Ids -> {"none", "open", "completed", "aborted"}]
      /\ parts = [u \in Ids |-> parts[u]] /\ \A u \in Ids : DOMAIN parts[u] \subseteq Nat
  BY DEF Inv, StoreTypes
<1>3. /\ upload' \in [Ids -> {"none", "open", "completed", "aborted"}]
      /\ upload'[v] # "open" /\ \A u \in Ids : u # v => upload'[u] = upload[u]
  BY <1>1, <1>2
<1>4. /\ parts'[v] = parts[v] \/ parts'[v] = NoParts
      /\ \A u \in Ids : u # v => parts'[u] = parts[u]
      /\ parts' = [u \in Ids |-> parts'[u]]
  BY <1>1, <1>2
<1>5. ASSUME NEW u \in 1..created PROVE u \in Ids
  BY ConstantsAssumption DEF Inv, StoreTypes, Ids
<1>6. StoreStep(t)
  BY <1>3, <1>4, <1>5 DEF StoreStep
<1>7. \A u \in Ids : DOMAIN parts'[u] \subseteq Nat
  BY <1>2, <1>4, NoPartsOf
<1>8. \A u \in Ids : parts'[u] = parts[u] \/
          (u <= created /\ \A f \in Files : Owned(u, f) => PartsOf(parts'[u], f))
  BY <1>1, <1>4, NoPartsOf
<1> QED
  BY <1>3, <1>4, <1>6, <1>7, <1>8

LEMMA abortMultipartUpload_Inv ==
    ASSUME Inv, NEW t \in Tabs, abortMultipartUpload(t) PROVE Inv'
<1>1. pc[t] = "abort" /\ UNCHANGED <<session, object, row, created>>
  BY DEF abortMultipartUpload
<1>2. queue[t] # <<>> /\ uploadId[t] # 0
  BY <1>1, Labelled DEF Filling
<1>3. faults' \in 0..MaxFaults /\ interrupts' \in 0..MaxInterrupts
  BY FaultTypes DEF abortMultipartUpload
<1> DEFINE closes == /\ upload' = [upload EXCEPT ![uploadId[t]] = "aborted"]
                     /\ parts' = [parts EXCEPT ![uploadId[t]] = NoParts]
<1>4. ASSUME closes
      PROVE  /\ StoreTypes' /\ ObjectIsWholeFile' /\ StoreStep(t)
             /\ \A u \in Ids : parts'[u] = parts[u] \/
                    (u <= created /\ \A f \in Files : Owned(u, f) => PartsOf(parts'[u], f))
  <2>1. /\ StoreStep(t)
        /\ upload' \in [Ids -> {"none", "open", "completed", "aborted"}]
        /\ parts' = [u \in Ids |-> parts'[u]] /\ \A u \in Ids : DOMAIN parts'[u] \subseteq Nat
        /\ \A u \in Ids : parts'[u] = parts[u] \/
               (u <= created /\ \A f \in Files : Owned(u, f) => PartsOf(parts'[u], f))
    BY <1>2, <1>4, Closed
  <2> QED
    BY <1>1, <1>3, <2>1 DEF Inv, StoreTypes, ObjectIsWholeFile
<1>5. CASE closes /\ Goto(t, "cancelled") /\ UNCHANGED <<userVars, batchVars, loopVars>>
  <2>1. /\ TabTypes' /\ OnlyTab(t) /\ TabInv(t)'
        /\ uploadId'[t] = uploadId[t] /\ queue'[t] = queue[t]
    BY <1>1, <1>2, <1>5, Moved
  <2> QED
    BY <1>1, <1>4, <1>5, <2>1, Step_Inv DEF UploadStep
<1>6. CASE closes /\ Throw(t)
  BY <1>1, <1>4, <1>6, Thrown, Step_Inv DEF UploadStep
<1>7. CASE UNCHANGED <<upload, parts>> /\ Throw(t)
  <2>1. StoreTypes' /\ ObjectIsWholeFile'
    BY <1>1, <1>3, <1>7 DEF Inv, StoreTypes, ObjectIsWholeFile
  <2> QED
    BY <1>1, <1>7, <2>1, Thrown_Inv
<1> QED
  BY <1>5, <1>6, <1>7 DEF abortMultipartUpload

LEMMA Cleared ==
    ASSUME Inv, NEW t \in Tabs, queue[t] # <<>>, clearSession(t)
    PROVE  /\ session' \in [Keys -> StoredSession \cup {NoSession}]
           /\ \A k \in Keys : session'[k] = session[k] \/ session'[k] = NoSession
  BY AtFile DEF clearSession, Inv, StoreTypes

LEMMA CancelDone_Inv ==
    ASSUME Inv, NEW t \in Tabs, CancelDone(t) PROVE Inv'
<1>1. /\ pc[t] = "cancelled" /\ clearSession(t) /\ Throw(t)
      /\ UNCHANGED <<upload, parts, object, row, created, faults, interrupts>>
  BY DEF CancelDone, storeVars, bounds
<1>2. queue[t] # <<>>
  BY <1>1, Labelled
<1>3. /\ session' \in [Keys -> StoredSession \cup {NoSession}]
      /\ \A k \in Keys : session'[k] = session[k] \/ session'[k] = NoSession
  BY <1>1, <1>2, Cleared
<1>4. StoreTypes' /\ ObjectIsWholeFile'
  BY <1>1, <1>3 DEF Inv, StoreTypes, ObjectIsWholeFile
<1> QED
  BY <1>1, <1>3, <1>4, Thrown_Inv

LEMMA completeMultipartUpload_Inv ==
    ASSUME Inv, NEW t \in Tabs, completeMultipartUpload(t) PROVE Inv'
<1>1. pc[t] = "complete" /\ UNCHANGED <<session, upload, parts, object, row, created>>
  BY DEF completeMultipartUpload, storeVars
<1>2. faults' \in 0..MaxFaults /\ interrupts' \in 0..MaxInterrupts
  BY FaultTypes DEF completeMultipartUpload
<1>3. StoreTypes' /\ ObjectIsWholeFile'
  BY <1>1, <1>2 DEF Inv, StoreTypes, ObjectIsWholeFile
<1>4. CASE /\ Open(t) /\ listed' = [listed EXCEPT ![t] = parts[uploadId[t]]]
           /\ Goto(t, "assemble")
           /\ UNCHANGED <<userVars, batchVars, uploadId, landed, part, attempt>>
  <2>1. UNCHANGED <<batch, done, shown, queue, aborted, status, uploadId, landed, part, attempt>>
    BY <1>4 DEF userVars, batchVars
  <2>2. queue[t] # <<>> /\ uploadId[t] # 0
    BY <1>1, Labelled DEF Filling
  <2>3. uploadId[t] \in Ids /\ PartsOf(parts[uploadId[t]], file(t))
    BY <2>2, Owner DEF Owned
  <2>4. PartNumbers(file(t)) \subseteq DOMAIN parts[uploadId[t]]
    BY <1>1, <1>4 DEF Inv, TabInv, HeldInv
  <2>5. parts[uploadId[t]] = Whole(file(t))
    BY <2>3, <2>4, AllParts
  <2>6. TabTypes'
    <3>1. listed' = [s \in Tabs |-> listed'[s]] /\ \A s \in Tabs : DOMAIN listed'[s] \subseteq Nat
      BY <1>4, <2>3 DEF Inv, TabTypes, StoreTypes
    <3>2. pc' \in [Tabs -> Labels]
      BY <1>4 DEF Inv, TabTypes, Goto, Labels
    <3> QED
      BY <2>1, <3>1, <3>2 DEF Inv, TabTypes
  <2>7. OnlyTab(t)
    BY <1>4, <2>1 DEF Goto, Inv, TabTypes, OnlyTab
  <2>8. pc'[t] = "assemble" /\ listed'[t] = Whole(file(t)) /\ file(t)' = file(t)
    BY <1>4, <2>1, <2>5 DEF Goto, Inv, TabTypes, file
  <2>9. TabInv(t)'
    BY <2>1, <2>2, <2>8 DEF TabInv, PcInv, QueueInv, HeldInv, AheadInv, Filling, Inv
  <2> QED
    BY <1>1, <1>3, <2>1, <2>6, <2>7, <2>9, Quiet DEF UploadStep
<1>5. CASE Throw(t)
  BY <1>1, <1>3, <1>5, Thrown_Inv
<1> QED
  BY <1>4, <1>5 DEF completeMultipartUpload

LEMMA AssembleObject_Inv ==
    ASSUME Inv, NEW t \in Tabs, AssembleObject(t) PROVE Inv'
<1>1. pc[t] = "assemble" /\ UNCHANGED <<session, parts, row, created>>
  BY DEF AssembleObject
<1>2. faults' \in 0..MaxFaults /\ interrupts' \in 0..MaxInterrupts
  BY FaultTypes DEF AssembleObject
<1>3. queue[t] # <<>> /\ uploadId[t] # 0
  BY <1>1, Labelled DEF Filling
<1>4. CASE /\ upload' = [upload EXCEPT ![uploadId[t]] = "completed"]
           /\ object' = [object EXCEPT ![key(t)] = listed[t]]
           /\ Goto(t, "index") /\ UNCHANGED <<userVars, batchVars, loopVars>>
  <2>1. listed[t] = Whole(file(t))
    BY <1>1 DEF Inv, TabInv, HeldInv
  <2>2. ObjectIsWholeFile' /\ object' = [k \in Keys |-> object'[k]]
    BY <1>3, <1>4, <2>1, Stored
  <2>3. /\ StoreStep(t)
        /\ upload' \in [Ids -> {"none", "open", "completed", "aborted"}]
    BY <1>1, <1>3, <1>4, Closed
  <2>4. StoreTypes'
    BY <1>1, <1>2, <2>2, <2>3 DEF Inv, StoreTypes
  <2>5. /\ TabTypes' /\ OnlyTab(t) /\ TabInv(t)'
        /\ uploadId'[t] = uploadId[t] /\ queue'[t] = queue[t]
    BY <1>1, <1>3, <1>4, Moved
  <2> QED
    BY <1>1, <2>2, <2>3, <2>4, <2>5, Step_Inv DEF UploadStep
<1>5. CASE Throw(t) /\ UNCHANGED <<upload, object>>
  <2>1. StoreTypes' /\ ObjectIsWholeFile'
    BY <1>1, <1>2, <1>5 DEF Inv, StoreTypes, ObjectIsWholeFile
  <2> QED
    BY <1>1, <1>5, <2>1, Thrown_Inv
<1> QED
  BY <1>4, <1>5 DEF AssembleObject

LEMMA UploadDone_Inv ==
    ASSUME Inv, NEW t \in Tabs, UploadDone(t) PROVE Inv'
<1>1. /\ pc[t] \in {"completed", "committed"} /\ pc' = [pc EXCEPT ![t] = "file"]
      /\ queue' = [queue EXCEPT ![t] = Tail(@)] /\ uploadId' = [uploadId EXCEPT ![t] = 0]
      /\ landed' = [landed EXCEPT ![t] = NoParts] /\ listed' = [listed EXCEPT ![t] = NoParts]
      /\ part' = [part EXCEPT ![t] = 1]
      /\ UNCHANGED <<batch, done, shown, attempt, aborted, status>>
      /\ UNCHANGED <<upload, parts, object, row, created, faults, interrupts>>
  BY DEF UploadDone, Goto, userVars, storeVars, bounds
<1>2. queue[t] # <<>> /\ queue[t] \in Seq(Files)
  BY <1>1, Labelled DEF Inv, TabTypes
<1>3. /\ session' \in [Keys -> StoredSession \cup {NoSession}]
      /\ \A k \in Keys : session'[k] = session[k] \/ session'[k] = NoSession
  <2>1. CASE clearSession(t)
    BY <1>2, <2>1, Cleared
  <2>2. CASE UNCHANGED session
    BY <2>2 DEF Inv, StoreTypes
  <2> QED
    BY <2>1, <2>2 DEF UploadDone
<1>4. StoreTypes' /\ ObjectIsWholeFile'
  BY <1>1, <1>3 DEF Inv, StoreTypes, ObjectIsWholeFile
<1>5. TabTypes'
  <2>1. /\ landed' = [s \in Tabs |-> landed'[s]] /\ listed' = [s \in Tabs |-> listed'[s]]
        /\ \A s \in Tabs : DOMAIN landed'[s] \subseteq Nat /\ DOMAIN listed'[s] \subseteq Nat
    BY <1>1, NoPartsOf DEF Inv, TabTypes
  <2>2. queue' \in [Tabs -> Seq(Files)]
    BY <1>1, <1>2, HeadOf DEF Inv, TabTypes
  <2>3. /\ pc' \in [Tabs -> Labels] /\ uploadId' \in [Tabs -> Nat]
        /\ part' \in [Tabs -> Nat \ {0}]
    BY <1>1 DEF Inv, TabTypes, Labels
  <2> QED
    BY <1>1, <2>1, <2>2, <2>3 DEF Inv, TabTypes
<1>6. OnlyTab(t)
  BY <1>1 DEF Inv, TabTypes, OnlyTab
<1>7. pc'[t] = "file" /\ queue'[t] = Tail(queue[t]) /\ uploadId'[t] = 0
  BY <1>1 DEF Inv, TabTypes
<1>8. QueueInv(t)'
  <2>1. ASSUME NEW i \in 1..Len(Tail(queue[t])) PROVE FromBatch(t, Tail(queue[t])[i])
    <3>1. i + 1 \in 1..Len(queue[t]) /\ Tail(queue[t])[i] = queue[t][i + 1]
      BY <1>2
    <3>2. FromBatch(t, queue[t][i + 1])
      BY <3>1 DEF Inv, TabInv, QueueInv
    <3> QED
      BY <3>1, <3>2
  <2> QED
    BY <1>7, <2>1 DEF QueueInv
<1>9. TabInv(t)' /\ UploadStep(t)
  BY <1>7, <1>8 DEF TabInv, PcInv, HeldInv, AheadInv, Filling, UploadStep
<1> QED
  BY <1>1, <1>3, <1>4, <1>5, <1>6, <1>9, Quiet

LEMMA Next_Inv == ASSUME Inv, [Next]_vars PROVE Inv'
<1>1. ASSUME NEW t \in Tabs, handleUploadChange(t) \/ Cancel(t) \/ Reload(t) \/ Upload(t)
      PROVE  Inv'
  BY <1>1, handleUploadChange_Inv, Cancel_Inv, Reload_Inv, StartFile_Inv, onSuccess_Inv,
     PutSmall_Inv, Index_Inv, listUploadedParts_Inv, createMultipartUpload_Inv, NextPart_Inv,
     uploadPartWithRetry_Inv, abortMultipartUpload_Inv, CancelDone_Inv,
     completeMultipartUpload_Inv, AssembleObject_Inv, UploadDone_Inv DEF Upload
<1>2. CASE UNCHANGED vars
  <2>1. /\ UNCHANGED <<pc, batch, done, shown, queue, aborted, status, uploadId, landed, part>>
        /\ UNCHANGED <<attempt, listed, session, upload, parts, object, row, created>>
        /\ UNCHANGED <<faults, interrupts>>
    BY <1>2 DEF vars, tabVars, userVars, batchVars, loopVars, storeVars, bounds
  <2>2. TabTypes' /\ StoreTypes'
    BY <2>1 DEF Inv, TabTypes, StoreTypes
  <2>3. FreshInv' /\ ObjectIsWholeFile'
    BY <2>1 DEF Inv, FreshInv, ObjectIsWholeFile
  <2>4. UploadInv'
    BY <2>1 DEF Inv, UploadInv, Owned
  <2>5. ASSUME NEW t \in Tabs PROVE TabInv(t)'
    <3>1. TabInv(t)
      BY DEF Inv
    <3> QED
      BY <2>1, <3>1 DEF TabInv, PcInv, QueueInv, HeldInv, AheadInv, Ahead, Alone, Open, Behind, file
  <2> QED
    BY <2>2, <2>3, <2>4, <2>5 DEF Inv
<1> QED
  BY <1>1, <1>2 DEF Next

-----------------------------------------------------------------------------
(* Theorems.                                                                *)

\* Every reachable state satisfies the inductive invariant.
THEOREM UploadInvariant == Spec => []Inv
  BY Init_Inv, Next_Inv, PTL DEF Spec

\* The variables keep their types, and a tab that is past resumeOrCreateUpload
\* has an upload and a file to put into it.
THEOREM UploadTypeCorrect == Spec => []TypeOK
<1>1. Inv => TypeOK
  <2> SUFFICES ASSUME Inv PROVE TypeOK
    OBVIOUS
  <2>1. uploadId \in [Tabs -> 0..created]
    BY DEF Inv, TabTypes, FreshInv
  <2>2. \A t \in Tabs :
          /\ pc[t] \notin {"idle", "file"} => queue[t] # <<>>
          /\ pc[t] \in Filling => uploadId[t] # 0
    BY DEF Inv, TabInv, PcInv
  <2>3. /\ pc \in [Tabs -> Labels]
        /\ batch \in [Tabs -> Seq(Files)] /\ queue \in [Tabs -> Seq(Files)]
        /\ \A t \in Tabs : DOMAIN landed[t] \subseteq Nat /\ DOMAIN listed[t] \subseteq Nat
        /\ part \in [Tabs -> Nat \ {0}]
        /\ attempt \in [Tabs -> 1..PART_RETRY_ATTEMPTS]
        /\ aborted \in [Tabs -> BOOLEAN] /\ status \in [Tabs -> BOOLEAN]
        /\ done \in [Tabs -> BOOLEAN] /\ shown \in [Tabs -> SUBSET Keys]
    BY DEF Inv, TabTypes
  <2>4. /\ session \in [Keys -> StoredSession \cup {NoSession}]
        /\ upload \in [Ids -> {"none", "open", "completed", "aborted"}]
        /\ \A u \in Ids : DOMAIN parts[u] \subseteq Nat
        /\ row \in [Keys -> BOOLEAN]
        /\ created \in 0..MaxUploads /\ faults \in 0..MaxFaults
        /\ interrupts \in 0..MaxInterrupts
    BY DEF Inv, StoreTypes
  <2> QED
    BY <2>1, <2>2, <2>3, <2>4 DEF TypeOK, Filling
<1> QED
  BY <1>1, UploadInvariant, PTL

\* Whatever tabs share a session, whichever calls fail and whoever cancels or
\* reloads, AssembleObject and PutSmall leave under a key only the whole of one
\* file of that key.
THEOREM ObjectsAreWholeFiles == Spec => []ObjectIsWholeFile
<1>1. Inv => ObjectIsWholeFile
  BY DEF Inv
<1> QED
  BY <1>1, UploadInvariant, PTL

\* A tab whose file no other tab is given never sends again a part its upload
\* already holds, except as a retry of uploadPartWithRetry: what
\* listUploadedParts reported is exactly what there is.
THEOREM SendsOnlyMissingParts == Spec => []OnlyMissingPartsAreSent
<1>1. Inv => OnlyMissingPartsAreSent
  <2> SUFFICES ASSUME Inv, NEW t \in Tabs, pc[t] = "send", Alone(t),
                      part[t] \in DOMAIN parts[uploadId[t]]
               PROVE  attempt[t] > 1
    BY DEF OnlyMissingPartsAreSent, Alone
  <2>1. attempt[t] \in 1..PART_RETRY_ATTEMPTS /\ AheadInv(t)
    BY DEF Inv, TabTypes, TabInv
  <2>2. attempt[t] # 1
    BY <2>1 DEF AheadInv
  <2> QED
    BY <2>1, <2>2, ConstantsAssumption
<1> QED
  BY <1>1, UploadInvariant, PTL

-----------------------------------------------------------------------------
(* The driver implements FileUpload.                                        *)

Stage == [t \in Tabs |-> StageOf(pc[t])]

LEMMA Stages ==
    /\ StageOf("idle") = "idle"
    /\ \A l \in {"file", "put", "list", "create", "part", "send", "abort", "cancelled",
                 "complete", "assemble"} : StageOf(l) = "sending"
    /\ \A l \in {"commit", "index"} : StageOf(l) = "stored"
    /\ \A l \in {"committed", "completed"} : StageOf(l) = "indexed"
    /\ \A l \in Labels : l # "idle" => StageOf(l) # "idle"
  BY DEF StageOf, Labels

LEMMA StageStep ==
    ASSUME Inv, NEW t \in Tabs, NEW l, Goto(t, l)
    PROVE  Stage' = [Stage EXCEPT ![t] = StageOf(l)] /\ Stage[t] = StageOf(pc[t])
  BY DEF Goto, Inv, TabTypes, Stage

\* A step of the promise, or none.
PromiseStep == Promise!Next \/ UNCHANGED Promise!vars

LEMMA StutterStep ==
    ASSUME Inv, NEW t \in Tabs, NEW l, Goto(t, l), StageOf(l) = StageOf(pc[t]),
           UNCHANGED <<queue, object, row>>
    PROVE  PromiseStep
<1>1. Stage' = Stage
  BY StageStep DEF Stage
<1> QED
  BY <1>1 DEF PromiseStep, Promise!vars, Stage

LEMMA EndStep ==
    ASSUME Inv, NEW t \in Tabs, pc[t] # "idle", Throw(t), UNCHANGED <<object, row>>
    PROVE  PromiseStep
<1>1. Stage' = [Stage EXCEPT ![t] = "idle"] /\ Stage[t] # "idle"
  BY StageStep, Stages DEF Throw, Inv, TabTypes
<1>2. queue' = [queue EXCEPT ![t] = <<>>]
  BY DEF Throw
<1>3. Promise!End(t)
  BY <1>1, <1>2 DEF Promise!End, Stage
<1> QED
  BY <1>3 DEF PromiseStep, Promise!Next

LEMMA StoreStepOfPromise ==
    ASSUME Inv, NEW t \in Tabs, queue[t] # <<>>, StageOf(pc[t]) = "sending",
           object' = [object EXCEPT ![key(t)] = Whole(file(t))], UNCHANGED row,
           \/ Throw(t)
           \/ \E l \in {"commit", "index"} : Goto(t, l) /\ UNCHANGED queue
    PROVE  PromiseStep
<1>1. object' = [object EXCEPT ![Key[Head(queue[t])]] = Whole(Head(queue[t]))]
  BY DEF key, file
<1>2. CASE Throw(t)
  <2>1. Stage' = [Stage EXCEPT ![t] = "idle"] /\ Stage[t] = "sending"
    BY <1>2, StageStep, Stages DEF Throw
  <2>2. queue' = [queue EXCEPT ![t] = <<>>]
    BY <1>2 DEF Throw
  <2>3. Promise!Store(t, "idle")
    BY <1>1, <2>1, <2>2 DEF Promise!Store, Stage
  <2> QED
    BY <2>3 DEF PromiseStep, Promise!Next
<1>3. ASSUME NEW l \in {"commit", "index"}, Goto(t, l), UNCHANGED queue PROVE PromiseStep
  <2>1. Stage' = [Stage EXCEPT ![t] = "stored"] /\ Stage[t] = "sending"
    BY <1>3, StageStep, Stages
  <2>2. queue' = [queue EXCEPT ![t] = queue[t]]
    BY <1>3 DEF Inv, TabTypes
  <2>3. Promise!Store(t, "stored")
    BY <1>1, <2>1, <2>2 DEF Promise!Store, Stage
  <2> QED
    BY <2>3 DEF PromiseStep, Promise!Next
<1> QED
  BY <1>2, <1>3

LEMMA IndexStepOfPromise ==
    ASSUME Inv, NEW t \in Tabs, StageOf(pc[t]) = "stored",
           row' = [row EXCEPT ![key(t)] = TRUE], UNCHANGED object,
           \/ Throw(t)
           \/ \E l \in {"committed", "completed"} : Goto(t, l) /\ UNCHANGED queue
    PROVE  PromiseStep
<1>1. row' = [row EXCEPT ![Key[Head(queue[t])]] = TRUE]
  BY DEF key, file
<1>2. CASE Throw(t)
  <2>1. Stage' = [Stage EXCEPT ![t] = "idle"] /\ Stage[t] = "stored"
    BY <1>2, StageStep, Stages DEF Throw
  <2>2. queue' = [queue EXCEPT ![t] = <<>>]
    BY <1>2 DEF Throw
  <2>3. Promise!Index(t, "idle")
    BY <1>1, <2>1, <2>2 DEF Promise!Index, Stage
  <2> QED
    BY <2>3 DEF PromiseStep, Promise!Next
<1>3. ASSUME NEW l \in {"committed", "completed"}, Goto(t, l), UNCHANGED queue PROVE PromiseStep
  <2>1. Stage' = [Stage EXCEPT ![t] = "indexed"] /\ Stage[t] = "stored"
    BY <1>3, StageStep, Stages
  <2>2. queue' = [queue EXCEPT ![t] = queue[t]]
    BY <1>3 DEF Inv, TabTypes
  <2>3. Promise!Index(t, "indexed")
    BY <1>1, <2>1, <2>2 DEF Promise!Index, Stage
  <2> QED
    BY <2>3 DEF PromiseStep, Promise!Next
<1> QED
  BY <1>2, <1>3

\* Each step of the browser's batch loop is a step of the promise or none.
LEMMA Batch_Promise ==
    ASSUME Inv, NEW t \in Tabs,
           \/ handleUploadChange(t) \/ Cancel(t) \/ Reload(t) \/ StartFile(t) \/ onSuccess(t)
           \/ UploadDone(t)
    PROVE  PromiseStep
<1>1. CASE handleUploadChange(t)
  <2>1. PICK b \in Batches[t] : queue' = [queue EXCEPT ![t] = b]
    BY <1>1 DEF handleUploadChange
  <2>2. b \in Seq(Files) /\ queue'[t] = b
    BY <2>1, ConstantsAssumption DEF Inv, TabTypes
  <2>3. Stage' = [Stage EXCEPT ![t] = "sending"] /\ Stage[t] = "idle"
    BY <1>1, StageStep, Stages DEF handleUploadChange
  <2>4. UNCHANGED <<object, row>>
    BY <1>1 DEF handleUploadChange, storeVars
  <2>5. Promise!Begin(t)
    BY <2>1, <2>2, <2>3, <2>4 DEF Promise!Begin, Stage
  <2> QED
    BY <2>5 DEF PromiseStep, Promise!Next
<1>2. CASE Cancel(t)
  <2>1. UNCHANGED <<pc, queue, object, row>>
    BY <1>2 DEF Cancel, storeVars
  <2> QED
    BY <2>1 DEF PromiseStep, Promise!vars
<1>3. CASE Reload(t)
  BY <1>3, EndStep DEF Reload, storeVars
<1>4. CASE StartFile(t)
  <2>1. UNCHANGED <<queue, object, row>> /\ pc[t] = "file"
    BY <1>4 DEF StartFile, storeVars
  <2>2. PICK l \in {"put", "list", "create"} : Goto(t, l)
    <3> DEFINE large == Size[file(t)] >= MULTIPART_THRESHOLD_BYTES
               resumes == Resumes(session[key(t)], file(t))
    <3>1. CASE ~large
      BY <1>4, <3>1 DEF StartFile
    <3>2. CASE large /\ resumes
      BY <1>4, <3>2 DEF StartFile
    <3>3. CASE large /\ ~resumes
      BY <1>4, <3>3 DEF StartFile
    <3> QED
      BY <3>1, <3>2, <3>3
  <2>3. StageOf(l) = StageOf(pc[t])
    BY <2>1, Stages
  <2> QED
    BY <2>1, <2>2, <2>3, StutterStep
<1>5. CASE onSuccess(t)
  <2>1. UNCHANGED <<queue, object, row>> /\ pc[t] = "file" /\ queue[t] = <<>> /\ Goto(t, "idle")
    BY <1>5 DEF onSuccess, storeVars
  <2>2. Stage' = [Stage EXCEPT ![t] = "idle"] /\ Stage[t] = "sending"
    BY <2>1, StageStep, Stages
  <2>3. queue' = [queue EXCEPT ![t] = <<>>]
    BY <2>1 DEF Inv, TabTypes
  <2>4. Promise!End(t)
    BY <2>1, <2>2, <2>3 DEF Promise!End, Stage
  <2> QED
    BY <2>4 DEF PromiseStep, Promise!Next
<1>6. CASE UploadDone(t)
  <2>1. /\ UNCHANGED <<object, row>> /\ Goto(t, "file") /\ pc[t] \in {"completed", "committed"}
        /\ queue' = [queue EXCEPT ![t] = Tail(queue[t])]
    BY <1>6 DEF UploadDone, storeVars
  <2>2. Stage' = [Stage EXCEPT ![t] = "sending"] /\ Stage[t] = "indexed"
    BY <2>1, StageStep, Stages
  <2>3. Promise!Advance(t)
    BY <2>1, <2>2 DEF Promise!Advance, Stage
  <2> QED
    BY <2>3 DEF PromiseStep, Promise!Next
<1> QED
  BY <1>1, <1>2, <1>3, <1>4, <1>5, <1>6

\* Only the PUT of a small file, the assembly and the two ways to index change
\* what is promised; the other calls may end the batch.
LEMMA Calls_Promise ==
    ASSUME Inv, NEW t \in Tabs,
           \/ PutSmall(t) \/ commitUpload(t) \/ IndexObject(t) \/ AssembleObject(t)
           \/ listUploadedParts(t) \/ createMultipartUpload(t) \/ NextPart(t)
           \/ uploadPartWithRetry(t) \/ abortMultipartUpload(t) \/ CancelDone(t)
           \/ completeMultipartUpload(t)
    PROVE  PromiseStep
<1>1. CASE PutSmall(t)
  <2>1. /\ pc[t] = "put" /\ queue[t] # <<>> /\ UNCHANGED row /\ StageOf(pc[t]) = "sending"
        /\ object = [k \in Keys |-> object[k]]
    BY <1>1, Labelled, Stages DEF PutSmall, Inv, StoreTypes
  <2>2. CASE /\ object' = [object EXCEPT ![key(t)] = Whole(file(t))]
             /\ Throw(t) \/ (Goto(t, "commit") /\ UNCHANGED queue)
    BY <2>1, <2>2, StoreStepOfPromise
  <2>3. CASE Throw(t) /\ object' = [object EXCEPT ![key(t)] = object[key(t)]]
    BY <2>1, <2>3, EndStep
  <2> QED
    BY <1>1, <2>2, <2>3 DEF PutSmall, batchVars
<1>2. ASSUME NEW l \in {"committed", "completed"}, pc[t] \in {"commit", "index"},
             indexUploadedKey(t, l)
      PROVE  PromiseStep
  <2>1. UNCHANGED object /\ StageOf(pc[t]) = "stored" /\ row \in [Keys -> BOOLEAN]
    BY <1>2, Stages DEF indexUploadedKey, Inv, StoreTypes
  <2>2. CASE /\ row' = [row EXCEPT ![key(t)] = TRUE]
             /\ Throw(t) \/ (Goto(t, l) /\ UNCHANGED queue)
    BY <2>1, <2>2, IndexStepOfPromise
  <2>3. CASE Throw(t) /\ row' = [row EXCEPT ![key(t)] = row[key(t)]]
    <3>1. UNCHANGED row
      BY <2>1, <2>3
    <3> QED
      BY <1>2, <2>1, <2>3, <3>1, EndStep
  <2> QED
    BY <1>2, <2>2, <2>3 DEF indexUploadedKey, batchVars
<1>3. CASE commitUpload(t) \/ IndexObject(t)
  BY <1>2, <1>3 DEF commitUpload, IndexObject
<1>4. CASE AssembleObject(t)
  <2>1. /\ pc[t] = "assemble" /\ queue[t] # <<>> /\ UNCHANGED row
        /\ StageOf(pc[t]) = "sending" /\ listed[t] = Whole(file(t))
    BY <1>4, Labelled, Stages DEF AssembleObject, Inv, TabInv, HeldInv
  <2>2. CASE object' = [object EXCEPT ![key(t)] = listed[t]] /\ Goto(t, "index") /\ UNCHANGED queue
    BY <2>1, <2>2, StoreStepOfPromise
  <2>3. CASE Throw(t) /\ UNCHANGED object
    BY <2>1, <2>3, EndStep
  <2> QED
    BY <1>4, <2>2, <2>3 DEF AssembleObject, batchVars
<1>5. CASE \/ listUploadedParts(t) \/ createMultipartUpload(t) \/ NextPart(t)
           \/ uploadPartWithRetry(t) \/ abortMultipartUpload(t) \/ CancelDone(t)
           \/ completeMultipartUpload(t)
  <2>1. /\ pc[t] \in {"list", "create", "part", "send", "abort", "cancelled", "complete"}
        /\ UNCHANGED <<object, row>>
    BY <1>5 DEF listUploadedParts, createMultipartUpload, NextPart, uploadPartWithRetry,
       abortMultipartUpload, CancelDone, completeMultipartUpload, storeVars
  <2>2. \/ Throw(t)
        \/ UNCHANGED <<pc, queue>>
        \/ /\ UNCHANGED queue
           /\ \E l \in {"create", "part", "send", "abort", "cancelled", "complete", "assemble"} :
                 Goto(t, l)
    BY <1>5 DEF listUploadedParts, createMultipartUpload, NextPart, uploadPartWithRetry,
       abortMultipartUpload, CancelDone, completeMultipartUpload, AfterListError, batchVars
  <2>3. CASE Throw(t)
    BY <2>1, <2>3, EndStep
  <2>4. CASE UNCHANGED <<pc, queue>>
    BY <2>1, <2>4 DEF PromiseStep, Promise!vars
  <2>5. ASSUME UNCHANGED queue,
               NEW l \in {"create", "part", "send", "abort", "cancelled", "complete", "assemble"},
               Goto(t, l)
        PROVE  PromiseStep
    <3>1. StageOf(l) = StageOf(pc[t])
      BY <2>1, <2>5, Stages
    <3> QED
      BY <2>1, <2>5, <3>1, StutterStep
  <2> QED
    BY <2>2, <2>3, <2>4, <2>5
<1> QED
  BY <1>1, <1>3, <1>4, <1>5

LEMMA Next_Promise == ASSUME Inv, [Next]_vars PROVE [Promise!Next]_Promise!vars
<1> SUFFICES PromiseStep
  BY DEF PromiseStep
<1>1. ASSUME NEW t \in Tabs, handleUploadChange(t) \/ Cancel(t) \/ Reload(t) \/ Upload(t)
      PROVE  PromiseStep
  BY <1>1, Batch_Promise, Calls_Promise DEF Upload
<1>2. CASE UNCHANGED vars
  BY <1>2 DEF vars, tabVars, batchVars, storeVars, PromiseStep, Promise!vars
<1> QED
  BY <1>1, <1>2 DEF Next

\* The parts, sessions, retries and lost replies of multipartUpload.ts implement
\* FileUpload: a key changes in one step to the whole of the file at the head of
\* a batch that is being sent, and gets its row only afterwards.
THEOREM UploadImplementsPromise == Spec => ImplementsUpload
<1>1. Init => Promise!Init
  <2> SUFFICES ASSUME Init PROVE Promise!Init
    OBVIOUS
  <2>1. Stage = [t \in Tabs |-> "idle"]
    BY Stages DEF Init, Stage
  <2> QED
    BY <2>1 DEF Init, Promise!Init, NoParts, Keys, Promise!Keys, Stage
<1> QED
  BY <1>1, Next_Promise, UploadInvariant, PTL DEF Spec, ImplementsUpload, Promise!Spec
=============================================================================
