-------------------------- MODULE MultipartUpload --------------------------
(***************************************************************************)
(* Uploading from the browser: the batch loop of Browser.tsx, the          *)
(* resumable driver of multipartUpload.ts, and the part of the files       *)
(* service and of the object store that its calls reach.  Several tabs     *)
(* share one localStorage, in which a session is keyed by the destination  *)
(* key alone.  Calls fail, replies are lost, the user cancels, reloads and *)
(* tries again.                                                            *)
(***************************************************************************)
EXTENDS Integers, Sequences

CONSTANTS
    Tabs,                 \* browser tabs
    Files,                \* the files a user may pick
    Size,                 \* file.size, by file
    Key,                  \* directory + file.name, by file
    Fingerprint,          \* name:size:lastModified, by file
    Batches,              \* the batches of files each tab's user may pick
    PART_SIZE_BYTES,
    PART_RETRY_ATTEMPTS,
    MaxUploads,           \* bound: upload ids the object store hands out
    MaxFaults,            \* bound: failed calls and lost replies
    MaxInterrupts         \* bound: cancels and reloads by the users

ASSUME ConstantsAssumption ==
    /\ Size \in [Files -> Nat]
    /\ \A t \in Tabs : Batches[t] \subseteq Seq(Files)
    /\ PART_SIZE_BYTES \in Nat \ {0}
    /\ PART_RETRY_ATTEMPTS \in Nat \ {0}
    /\ MaxUploads \in Nat /\ MaxFaults \in Nat /\ MaxInterrupts \in Nat

\* fileFingerprint is accepted by its authors as identifying the file.
ASSUME FingerprintAssumption ==
    /\ \A f, g \in Files : Fingerprint[f] = Fingerprint[g] => f = g
    /\ \A f \in Files : Fingerprint[f] # "none"

VARIABLES
    batch,       \* the files the tab's user picked last
    pc,          \* where each tab's uploadMutation stands
    queue,       \* the files of the batch not yet done, the current one first
    uploadId,    \* the tab's multipart upload
    landed,      \* part sizes listUploadedParts reported: [part number -> size]
    part,        \* the part the loop is at
    attempt,     \* tries of that part
    aborted,     \* the tab's AbortSignal
    status,      \* whether uploadStatus (and so the Cancel button) is shown
    listed,      \* the parts CompleteMultipartUpload listed before assembling
    done,        \* whether the tab's batch has succeeded
    shown,       \* keys the tab's directory listing shows
    session,     \* localStorage, by key
    upload,      \* the object store's uploads
    parts,       \* and the parts it holds for them
    object,      \* and its objects, by key: the parts they were made of
    row,         \* whether the key has a files row
    created,     \* upload ids handed out
    faults,
    interrupts

userVars == <<batch, done, shown>>
batchVars == <<queue, aborted, status>>
loopVars == <<uploadId, landed, part, attempt, listed>>
tabVars == <<pc, userVars, batchVars, loopVars>>
storeVars == <<upload, parts, object, row, created>>
bounds == <<faults, interrupts>>
vars == <<tabVars, session, storeVars, bounds>>

Keys == {Key[f] : f \in Files}
Ids == 1..MaxUploads
NoParts == <<>>
StoredSession == [uploadId : Ids, fingerprint : {Fingerprint[f] : f \in Files}]
NoSession == [uploadId |-> 0, fingerprint |-> "none"]

MULTIPART_THRESHOLD_BYTES == 2 * PART_SIZE_BYTES

\* The byte ranges of a file, by part number; the last one may be short.
planParts(fileSize) ==
    [i \in 1..((fileSize + PART_SIZE_BYTES - 1) \div PART_SIZE_BYTES) |->
        [start |-> (i - 1) * PART_SIZE_BYTES,
         end |-> IF i * PART_SIZE_BYTES < fileSize THEN i * PART_SIZE_BYTES ELSE fileSize]]

PartNumbers(f) == DOMAIN planParts(Size[f])
PartSize(f, i) == planParts(Size[f])[i].end - planParts(Size[f])[i].start

\* One stored part: whose bytes it holds and how many.
Bytes(f, i) == [from |-> f, size |-> PartSize(f, i)]

\* All the bytes of a file.
Whole(f) == [i \in PartNumbers(f) |-> Bytes(f, i)]

file(t) == Head(queue[t])
key(t) == Key[file(t)]

Init ==
    /\ batch = [t \in Tabs |-> <<>>]
    /\ pc = [t \in Tabs |-> "idle"]
    /\ queue = [t \in Tabs |-> <<>>]
    /\ uploadId = [t \in Tabs |-> 0]
    /\ landed = [t \in Tabs |-> NoParts]
    /\ part = [t \in Tabs |-> 1]
    /\ attempt = [t \in Tabs |-> 1]
    /\ aborted = [t \in Tabs |-> FALSE]
    /\ status = [t \in Tabs |-> FALSE]
    /\ listed = [t \in Tabs |-> NoParts]
    /\ done = [t \in Tabs |-> FALSE]
    /\ shown = [t \in Tabs |-> {}]
    /\ session = [k \in Keys |-> NoSession]
    /\ upload = [u \in Ids |-> "none"]
    /\ parts = [u \in Ids |-> NoParts]
    /\ object = [k \in Keys |-> NoParts]
    /\ row = [k \in Keys |-> FALSE]
    /\ created = 0
    /\ faults = 0 /\ interrupts = 0

-----------------------------------------------------------------------------
(* Building blocks.                                                         *)

Fault ==
    /\ faults < MaxFaults
    /\ faults' = faults + 1
    /\ UNCHANGED interrupts

Interrupt ==
    /\ interrupts < MaxInterrupts
    /\ interrupts' = interrupts + 1
    /\ UNCHANGED faults

NoFault == UNCHANGED bounds

Goto(t, l) == pc' = [pc EXCEPT ![t] = l]

\* mutationFn throws: the batch ends, `finally` clears the status and nothing
\* is invalidated.
Throw(t) ==
    /\ Goto(t, "idle")
    /\ queue' = [queue EXCEPT ![t] = <<>>]
    /\ status' = [status EXCEPT ![t] = FALSE]
    /\ uploadId' = [uploadId EXCEPT ![t] = 0]
    /\ landed' = [landed EXCEPT ![t] = NoParts]
    /\ listed' = [listed EXCEPT ![t] = NoParts]
    /\ part' = [part EXCEPT ![t] = 1]
    /\ attempt' = [attempt EXCEPT ![t] = 1]
    /\ UNCHANGED <<userVars, aborted>>

saveSession(t) ==
    session' = [session EXCEPT ![key(t)] =
                   [uploadId |-> created + 1, fingerprint |-> Fingerprint[file(t)]]]

clearSession(t) == session' = [session EXCEPT ![key(t)] = NoSession]

Open(t) == upload[uploadId[t]] = "open"

-----------------------------------------------------------------------------
(* Browser.tsx: the upload mutation.                                        *)

\* The user picks the batch, the first time or to retry it.
handleUploadChange(t) ==
    /\ pc[t] = "idle" /\ ~done[t]
    /\ Goto(t, "file")
    /\ \E b \in Batches[t] :
        /\ batch' = [batch EXCEPT ![t] = b]
        /\ queue' = [queue EXCEPT ![t] = b]
    /\ aborted' = [aborted EXCEPT ![t] = FALSE]
    /\ UNCHANGED <<loopVars, status, done, shown, session, storeVars, bounds>>

\* loadSession and the comparison with this file's fingerprint.
Resumes_AnySession(existing, f) == existing # NoSession
Resumes(existing, f) == existing.fingerprint = Fingerprint[f]

\* The loop of mutationFn: the next file, by the path its size selects.
\* A persisted session is resumed when it matches the file.
StartFile(t) ==
    /\ pc[t] = "file" /\ queue[t] # <<>>
    /\ LET large == Size[file(t)] >= MULTIPART_THRESHOLD_BYTES
           existing == session[key(t)]
           resumes == Resumes(existing, file(t)) IN
        /\ Goto(t, CASE ~large -> "put" [] large /\ resumes -> "list" [] OTHER -> "create")
        /\ status' = [status EXCEPT ![t] = @ \/ large]
        /\ uploadId' = [uploadId EXCEPT ![t] =
                           IF large /\ resumes THEN existing.uploadId ELSE 0]
    /\ UNCHANGED <<userVars, queue, landed, part, attempt, aborted, listed,
                   session, storeVars, bounds>>

\* Every file is up: onSuccess invalidates the directory listings, which are
\* read again.
onSuccess(t) ==
    /\ pc[t] = "file" /\ queue[t] = <<>>
    /\ Goto(t, "idle")
    /\ status' = [status EXCEPT ![t] = FALSE]
    /\ done' = [done EXCEPT ![t] = TRUE]
    /\ shown' = [shown EXCEPT ![t] = {k \in Keys : row[k]}]
    /\ UNCHANGED <<batch, queue, loopVars, aborted, session, storeVars, bounds>>

\* The Cancel button, there while a status is shown: it aborts the signal of
\* the current batch.
Cancel(t) ==
    /\ status[t] /\ ~aborted[t]
    /\ Interrupt
    /\ aborted' = [aborted EXCEPT ![t] = TRUE]
    /\ UNCHANGED <<userVars, pc, queue, loopVars, status, session, storeVars>>

\* The tab is reloaded; what it had asked of the server has been answered, or
\* is answered to nobody (the lost replies below).
Reload(t) ==
    /\ pc[t] \notin {"idle", "assemble", "index"}
    /\ Interrupt
    /\ Throw(t)
    /\ UNCHANGED <<session, storeVars>>

\* A small file: one PUT to a presigned URL, which replaces the object.
PutSmall(t) ==
    /\ pc[t] = "put"
    /\ \/ /\ NoFault
          /\ Goto(t, "commit")
          /\ object' = [object EXCEPT ![key(t)] = Whole(file(t))]
          /\ UNCHANGED <<userVars, batchVars, loopVars>>
       \/ /\ Fault /\ Throw(t)
          /\ \E stored \in {object[key(t)], Whole(file(t))} :
                object' = [object EXCEPT ![key(t)] = stored]
    /\ UNCHANGED <<session, upload, parts, row, created>>

\* CommitUpload, or the indexing half of CompleteMultipartUpload: the key is
\* stat'ed and its row upserted.
indexUploadedKey(t, next) ==
    /\ \/ /\ NoFault
          /\ Goto(t, next)
          /\ row' = [row EXCEPT ![key(t)] = TRUE]
          /\ UNCHANGED <<userVars, batchVars, loopVars>>
       \/ /\ Fault /\ Throw(t)
          /\ \E r \in {row[key(t)], TRUE} : row' = [row EXCEPT ![key(t)] = r]
    /\ UNCHANGED <<session, upload, parts, object, created>>

commitUpload(t) == pc[t] = "commit" /\ indexUploadedKey(t, "committed")

-----------------------------------------------------------------------------
(* multipartUpload.ts: resumeOrCreateUpload.                                *)

\* The sizes of the parts the object store has.
Landed_Nothing(u) == NoParts
Landed(u) == [i \in DOMAIN parts[u] |-> parts[u][i].size]

\* Where an error of listUploadedParts leads.
AfterListError_Retry == "list"
AfterListError == "create"

\* The parts of the recorded upload.  Any error, not only that the upload is
\* gone, falls through to a fresh one.
listUploadedParts(t) ==
    /\ pc[t] = "list"
    /\ \/ /\ Open(t) /\ NoFault
          /\ landed' = [landed EXCEPT ![t] = Landed(uploadId[t])]
          /\ part' = [part EXCEPT ![t] = 1]
          /\ Goto(t, "part")
       \/ /\ IF Open(t) THEN Fault ELSE NoFault
          /\ Goto(t, AfterListError)
          /\ UNCHANGED <<landed, part>>
    /\ UNCHANGED <<userVars, batchVars, uploadId, attempt, listed, session,
                   storeVars>>

\* A fresh upload, recorded as the session of the key whatever session the key
\* had.  The reply may be lost after the object store opened the upload.
createMultipartUpload(t) ==
    /\ pc[t] = "create" /\ created < MaxUploads
    /\ \/ /\ NoFault
          /\ upload' = [upload EXCEPT ![created + 1] = "open"]
          /\ created' = created + 1
          /\ saveSession(t)
          /\ uploadId' = [uploadId EXCEPT ![t] = created + 1]
          /\ landed' = [landed EXCEPT ![t] = NoParts]
          /\ part' = [part EXCEPT ![t] = 1]
          /\ Goto(t, "part")
          /\ UNCHANGED <<userVars, batchVars, attempt, listed>>
       \/ /\ Fault /\ Throw(t)
          /\ \/ UNCHANGED <<upload, created>>
             \/ /\ upload' = [upload EXCEPT ![created + 1] = "open"]
                /\ created' = created + 1
          /\ UNCHANGED session
    /\ UNCHANGED <<parts, object, row>>

-----------------------------------------------------------------------------
(* uploadFileMultipart: the loop over the plan.                             *)

Missing_SkipsOne(t) == {i \in PartNumbers(file(t)) : i > part[t]}

\* A part that landed with the size the plan gives it is skipped.
Missing(t) ==
    {i \in PartNumbers(file(t)) : i >= part[t] /\
        ~(i \in DOMAIN landed[t] /\ landed[t][i] = PartSize(file(t), i))}

\* To the next part to send, to the cancellation, or to the completion: the
\* signal is looked at once per part, so not after the last one.
NextPart(t) ==
    /\ pc[t] = "part"
    /\ LET more == part[t] \in PartNumbers(file(t)) IN
       \/ /\ more /\ aborted[t]
          /\ Goto(t, "abort")
          /\ UNCHANGED <<part, attempt>>
       \/ /\ more /\ ~aborted[t] /\ Missing(t) # {}
          /\ Goto(t, "send")
          /\ part' = [part EXCEPT ![t] = CHOOSE i \in Missing(t) : \A j \in Missing(t) : i <= j]
          /\ attempt' = [attempt EXCEPT ![t] = 1]
       \/ /\ ~more \/ (~aborted[t] /\ Missing(t) = {})
          /\ Goto(t, "complete")
          /\ UNCHANGED <<part, attempt>>
    /\ UNCHANGED <<userVars, batchVars, uploadId, landed, listed, session,
                   storeVars, bounds>>

\* The bytes of the current part reach the object store.
PartLands(t) ==
    parts' = [parts EXCEPT ![uploadId[t]] =
                [i \in DOMAIN @ \cup {part[t]} |->
                    IF i = part[t] THEN Bytes(file(t), i) ELSE @[i]]]

\* Whether the attempt was the last one.
Exhausted(n) == n >= PART_RETRY_ATTEMPTS

\* uploadPartWithRetry: a presigned URL and a PUT.  A failed try is repeated
\* until the attempts are used up, which ends the batch and keeps the session;
\* an abort interrupts the transfer, whose bytes may still land.
uploadPartWithRetry(t) ==
    /\ pc[t] = "send"
    /\ \/ /\ Open(t) /\ ~aborted[t] /\ NoFault
          /\ PartLands(t)
          /\ part' = [part EXCEPT ![t] = @ + 1]
          /\ Goto(t, "part")
          /\ UNCHANGED <<userVars, batchVars, uploadId, landed, attempt,
                         listed>>
       \/ /\ ~aborted[t]
          /\ IF Open(t) THEN Fault ELSE NoFault
          /\ UNCHANGED parts \/ (Open(t) /\ PartLands(t))
          /\ \/ /\ ~Exhausted(attempt[t])
                /\ attempt' = [attempt EXCEPT ![t] = @ + 1]
                /\ UNCHANGED <<userVars, pc, batchVars, uploadId, landed, part,
                               listed>>
             \/ /\ Exhausted(attempt[t])
                /\ Throw(t)
       \/ /\ aborted[t] /\ NoFault
          /\ UNCHANGED parts \/ (Open(t) /\ PartLands(t))
          /\ Goto(t, "abort")
          /\ UNCHANGED <<userVars, batchVars, loopVars>>
    /\ UNCHANGED <<session, upload, object, row, created>>

\* cancel(): the upload is aborted in the object store.  An error leaves the
\* session as it was.
abortMultipartUpload(t) ==
    /\ pc[t] = "abort"
    /\ \/ /\ Open(t) /\ NoFault
          /\ upload' = [upload EXCEPT ![uploadId[t]] = "aborted"]
          /\ parts' = [parts EXCEPT ![uploadId[t]] = NoParts]
          /\ Goto(t, "cancelled")
          /\ UNCHANGED <<userVars, batchVars, loopVars>>
       \/ /\ IF Open(t) THEN Fault ELSE NoFault
          /\ \/ UNCHANGED <<upload, parts>>
             \/ /\ Open(t)
                /\ upload' = [upload EXCEPT ![uploadId[t]] = "aborted"]
                /\ parts' = [parts EXCEPT ![uploadId[t]] = NoParts]
          /\ Throw(t)
    /\ UNCHANGED <<session, object, row, created>>

\* and, once the reply is there, the session of the key is dropped, whoever's
\* it is by then.
CancelDone(t) ==
    /\ pc[t] = "cancelled"
    /\ clearSession(t)
    /\ Throw(t)
    /\ UNCHANGED <<storeVars, bounds>>

\* CompleteMultipartUpload lists the parts itself ...
completeMultipartUpload(t) ==
    /\ pc[t] = "complete"
    /\ \/ /\ Open(t) /\ NoFault
          /\ listed' = [listed EXCEPT ![t] = parts[uploadId[t]]]
          /\ Goto(t, "assemble")
          /\ UNCHANGED <<userVars, batchVars, uploadId, landed, part, attempt>>
       \/ /\ IF Open(t) THEN Fault ELSE NoFault
          /\ Throw(t)
    /\ UNCHANGED <<session, storeVars>>

\* ... and has the object store assemble exactly those.
AssembleObject(t) ==
    /\ pc[t] = "assemble"
    /\ \/ /\ Open(t) /\ NoFault
          /\ upload' = [upload EXCEPT ![uploadId[t]] = "completed"]
          /\ object' = [object EXCEPT ![key(t)] = listed[t]]
          /\ Goto(t, "index")
          /\ UNCHANGED <<userVars, batchVars, loopVars>>
       \/ /\ IF Open(t) THEN Fault ELSE NoFault
          /\ Throw(t)
          /\ UNCHANGED <<upload, object>>
    /\ UNCHANGED <<session, parts, row, created>>

IndexObject(t) == pc[t] = "index" /\ indexUploadedKey(t, "completed")

\* The reply is there: a multipart upload's session is cleared and the loop
\* goes on to the next file.
UploadDone(t) ==
    /\ pc[t] \in {"completed", "committed"}
    /\ IF pc[t] = "completed" THEN clearSession(t) ELSE UNCHANGED session
    /\ Goto(t, "file")
    /\ queue' = [queue EXCEPT ![t] = Tail(@)]
    /\ uploadId' = [uploadId EXCEPT ![t] = 0]
    /\ landed' = [landed EXCEPT ![t] = NoParts]
    /\ listed' = [listed EXCEPT ![t] = NoParts]
    /\ part' = [part EXCEPT ![t] = 1]
    /\ UNCHANGED <<userVars, attempt, aborted, status, storeVars, bounds>>

-----------------------------------------------------------------------------
\* The steps a running upload takes by itself.
Upload(t) ==
    \/ StartFile(t) \/ onSuccess(t)
    \/ PutSmall(t) \/ commitUpload(t)
    \/ listUploadedParts(t) \/ createMultipartUpload(t)
    \/ NextPart(t) \/ uploadPartWithRetry(t)
    \/ abortMultipartUpload(t) \/ CancelDone(t)
    \/ completeMultipartUpload(t) \/ AssembleObject(t) \/ IndexObject(t)
    \/ UploadDone(t)

Next == \E t \in Tabs : handleUploadChange(t) \/ Cancel(t) \/ Reload(t) \/ Upload(t)

Spec == Init /\ [][Next]_vars

\* The event loop runs every pending continuation, and the user tries a failed
\* batch again.
FairSpec ==
    /\ Spec
    /\ \A t \in Tabs : WF_vars(Upload(t)) /\ WF_vars(handleUploadChange(t))

-----------------------------------------------------------------------------
(* Properties.                                                              *)

Labels == {"idle", "file", "put", "commit", "committed", "list", "create", "part",
           "send", "abort", "cancelled", "complete", "assemble", "index", "completed"}

\* Every variable holds what the code's types allow; a tab that is past
\* resumeOrCreateUpload has an upload and a file to put into it.
TypeOK ==
    /\ pc \in [Tabs -> Labels]
    /\ batch \in [Tabs -> Seq(Files)] /\ queue \in [Tabs -> Seq(Files)]
    /\ uploadId \in [Tabs -> 0..created]
    /\ \A t \in Tabs : DOMAIN landed[t] \subseteq Nat /\ DOMAIN listed[t] \subseteq Nat
    /\ part \in [Tabs -> Nat \ {0}]
    /\ attempt \in [Tabs -> 1..PART_RETRY_ATTEMPTS]
    /\ aborted \in [Tabs -> BOOLEAN] /\ status \in [Tabs -> BOOLEAN]
    /\ done \in [Tabs -> BOOLEAN] /\ shown \in [Tabs -> SUBSET Keys]
    /\ session \in [Keys -> StoredSession \cup {NoSession}]
    /\ upload \in [Ids -> {"none", "open", "completed", "aborted"}]
    /\ \A u \in Ids : DOMAIN parts[u] \subseteq Nat
    /\ row \in [Keys -> BOOLEAN]
    /\ created \in 0..MaxUploads /\ faults \in 0..MaxFaults
    /\ interrupts \in 0..MaxInterrupts
    /\ \A t \in Tabs :
        /\ pc[t] \notin {"idle", "file"} => queue[t] # <<>>
        /\ pc[t] \in {"part", "send", "abort", "cancelled", "complete", "assemble",
                      "index", "completed"} => uploadId[t] # 0

\* A key never holds a partial or mixed file: whatever the tabs sharing the
\* session storage do, an object that CompleteMultipartUpload assembles from
\* the parts it finds, or that a small PUT writes, is the whole of one file of
\* that key.
ObjectIsWholeFile ==
    \A k \in Keys : object[k] # NoParts =>
        \E f \in Files : Key[f] = k /\ object[k] = Whole(f)

\* "listUploadedParts tells us which parts already landed in S3 so we only
\* upload what's missing" (multipartUpload.ts:10): when no other tab uploads
\* the same file, a part the object store already holds is sent again only as
\* a retry within the same call, after a reply was lost.
OnlyMissingPartsAreSent ==
    \A t \in Tabs :
        /\ pc[t] = "send"
        /\ \A u \in Tabs \ {t} : \A b \in Batches[u] : \A i \in DOMAIN b : b[i] # file(t)
        /\ part[t] \in DOMAIN parts[uploadId[t]]
        => attempt[t] > 1

\* "Throws (leaving the session in place for a later retry) if any part
\* exhausts its retries or the final CompleteMultipartUpload call fails"
\* (multipartUpload.ts:189): a tab that gives up on an upload the object store
\* still holds leaves the session that resumes it.
FailureKeepsSession ==
    [][\A t \in Tabs :
          /\ pc[t] \in {"send", "complete"} /\ pc'[t] = "idle"
          /\ upload'[uploadId[t]] = "open"
          => session'[key(t)].uploadId = uploadId[t]]_vars

\* "Resumes uploadId from a persisted session if it matches this file and S3
\* still has it, otherwise starts a fresh multipart upload"
\* (multipartUpload.ts:133): no fresh upload replaces one that could have been
\* resumed.
ResumesWhatS3StillHas ==
    [][\A t \in Tabs :
          /\ pc[t] = "create" /\ pc'[t] = "part"
          /\ session[key(t)].fingerprint = Fingerprint[file(t)]
          => upload[session[key(t)].uploadId] # "open"]_vars

\* Whatever fails on the way, a user who keeps trying gets every file of the
\* batch stored, indexed and listed: no leftover of an earlier attempt, in
\* local storage or in the object store, blocks the upload for good.
EventuallyUploaded ==
    \A t \in Tabs : <>(/\ done[t]
                       /\ \A i \in DOMAIN batch[t] :
                            LET k == Key[batch[t][i]] IN row[k] /\ k \in shown[t])

\* The promise of FileUpload, in terms of what the calls have done so far.
StageOf(l) == CASE l = "idle" -> "idle"
                [] l \in {"commit", "index"} -> "stored"
                [] l \in {"committed", "completed"} -> "indexed"
                [] OTHER -> "sending"
Promise == INSTANCE FileUpload WITH stage <- [t \in Tabs |-> StageOf(pc[t])]

\* The parts, sessions, retries and lost replies of the driver implement an
\* upload in which each key changes in one step to a whole file that a tab is
\* sending, and gets its row only afterwards.
ImplementsUpload == Promise!Spec

=============================================================================
