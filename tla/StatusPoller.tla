---------------------------- MODULE StatusPoller ----------------------------
(***************************************************************************)
(* Preview statuses from the index queue to the thumbnail: the preview     *)
(* indexer works on files, the services compute a status from two          *)
(* statements (the file row, then its queue row), and a listing of the web *)
(* client shows it, patched by a poller every two seconds.  Polls overlap, *)
(* fail, are answered late, and race with fetches of the listing itself.   *)
(* Objects are replaced meanwhile, and their finished jobs queued again.   *)
(* The indexer is the one of IndexQueue without its leases: claims outlive *)
(* their jobs.                                                             *)
(***************************************************************************)
EXTENDS Integers

CONSTANTS
    Files,
    Kinds,          \* what objects hold: "image", "unsupported", "other"
    NewKinds,       \* what they are replaced by
    MaxPolls,       \* bound: polls under way at a time
    MaxAttempts,    \* attempts of a job before it is parked
    MaxFetches,     \* bound: fetches of the listing after the first
    MaxUpsets       \* bound: files deleted or replaced, and failed calls

ASSUME ConstantsAssumption ==
    /\ Kinds \subseteq {"image", "unsupported", "other"} /\ NewKinds \subseteq Kinds
    /\ MaxPolls \in Nat \ {0} /\ MaxAttempts \in Nat \ {0}

VARIABLES
    kind,        \* object: what it holds
    exists,      \* the file has a row
    contentType, \* stat result
    job,         \* preview job of the file
    attempts,
    stale,       \* the file was marked after its job was completed
    held,        \* what the object was since the last report of each indexer
    previewKey,  \* the file has a preview result
    shown,       \* row of each file in the query cache
    calls,       \* server calls under way, by slot
    raced,       \* history: an answer straddled the job's completion
    replaced,    \* history: the object was replaced
    urlFailed,   \* history: preview URLs could not be presigned for a listing
    fetches, upsets

indexVars == <<contentType, job, attempts, stale, held, previewKey>>
queueVars == <<kind, exists, indexVars>>
history == <<raced, replaced, urlFailed>>
bounds == <<fetches, upsets>>
pollerVars == <<queueVars, shown, calls, history, bounds>>

PreviewStatus == {"NONE", "PENDING", "PROCESSING", "READY", "FAILED"}
JobStatus == {"none", "pending", "claimed", "done", "error"}
Indexer == {"stat", "preview"}

-----------------------------------------------------------------------------
(* What a status is computed from, and a row of the listing.                *)

FileRow(f) == [contentType |-> contentType[f], previewKey |-> previewKey[f]]
NoRow == [contentType |-> "unknown", previewKey |-> FALSE]

previewStatus_ClaimedIsNone(row, queued) ==
    CASE row.previewKey -> "READY"
      [] ~row.previewKey /\ queued = "pending" -> "PENDING"
      [] ~row.previewKey /\ queued = "error" -> "FAILED"
      [] ~row.previewKey /\ queued \in {"claimed", "done"} -> "NONE"
      [] OTHER -> IF row.contentType \in {"unknown", "image"} THEN "PENDING" ELSE "NONE"

previewStatus(row, queued) ==
    CASE row.previewKey -> "READY"
      [] ~row.previewKey /\ queued = "pending" -> "PENDING"
      [] ~row.previewKey /\ queued = "claimed" -> "PROCESSING"
      [] ~row.previewKey /\ queued = "error" -> "FAILED"
      [] ~row.previewKey /\ queued = "done" -> "NONE"
      [] OTHER -> IF row.contentType \in {"unknown", "image"} THEN "PENDING" ELSE "NONE"

NotShown == [status |-> "absent", url |-> FALSE]
ShownRow == {NotShown} \cup [status : PreviewStatus, url : BOOLEAN]

\* A call of the web server: a poll for ids, a listing ("list") of everything,
\* or the next page ("next"), which brings back the rows there were at its
\* beginning besides the new ones.
Slots == {0} \cup 1..MaxPolls      \* 0: the listing's own fetch
NoCall == [op |-> "none", phase |-> "none", ids |-> {},
           rows |-> [f \in Files |-> NoRow], found |-> {},
           answer |-> [f \in Files |-> NotShown]]
Call(op, ids, before) ==
    [NoCall EXCEPT !.op = op, !.phase = "asked", !.ids = ids, !.answer = before]

PollerInit ==
    /\ kind \in [Files -> Kinds]
    /\ exists = [f \in Files |-> TRUE]
    /\ contentType = [f \in Files |-> "unknown"]
    /\ job = [f \in Files |-> "none"]
    /\ attempts = [f \in Files |-> 0]
    /\ stale = [f \in Files |-> FALSE]
    /\ held = [i \in Indexer |-> [f \in Files |-> {kind[f]}]]
    /\ previewKey = [f \in Files |-> FALSE]
    /\ shown = [f \in Files |-> NotShown]
    /\ \E ids \in SUBSET Files \ {{}} :
          calls = [s \in Slots |-> IF s = 0 THEN Call("list", ids, [f \in Files |-> NotShown])
                                  ELSE NoCall]
    /\ raced = [f \in Files |-> FALSE] /\ replaced = [f \in Files |-> FALSE]
    /\ urlFailed = FALSE
    /\ fetches = 0 /\ upsets = 0

-----------------------------------------------------------------------------
(* The indexers.                                                            *)

TypeOf(k) == IF k = "other" THEN "other" ELSE "image"

Outside == <<shown, calls, history, bounds>>

\* An indexer reads the object some time after its last report, and reports
\* what it has read, although the object may have been replaced since.
Reported(i, f) == held' = [held EXCEPT ![i][f] = {kind[f]}]

StatIndexed(f) ==
    /\ exists[f]
    /\ \E k \in held["stat"][f] :
          /\ contentType[f] # TypeOf(k)
          /\ contentType' = [contentType EXCEPT ![f] = TypeOf(k)]
    /\ Reported("stat", f)
    /\ UNCHANGED <<kind, exists, job, attempts, stale, previewKey, Outside>>

\* SeedIndexQueue.
Seed(f) ==
    /\ exists[f] /\ job[f] = "none"
    /\ job' = [job EXCEPT ![f] = "pending"]
    /\ attempts' = [attempts EXCEPT ![f] = 0]
    /\ UNCHANGED <<kind, exists, contentType, stale, held, previewKey, Outside>>

\* RequeueStaleIndexQueue: a parked job is left alone.
Requeue(f) ==
    /\ job[f] \in {"done", "pending"} /\ stale[f]
    /\ job' = [job EXCEPT ![f] = "pending"]
    /\ attempts' = [attempts EXCEPT ![f] = 0]
    /\ stale' = [stale EXCEPT ![f] = FALSE]
    /\ UNCHANGED <<kind, exists, contentType, held, previewKey, Outside>>

Claim(f) ==
    /\ job[f] = "pending"
    /\ job' = [job EXCEPT ![f] = "claimed"]
    /\ attempts' = [attempts EXCEPT ![f] = @ + 1]
    /\ UNCHANGED <<kind, exists, contentType, stale, held, previewKey, Outside>>

\* Result row, mark and status change in one transaction; a skipped file writes
\* no result, and keeps the one of its content before.
Complete(f) ==
    /\ job[f] = "claimed"
    /\ job' = [job EXCEPT ![f] = "done"]
    /\ \E k \in held["preview"][f] : previewKey' = [previewKey EXCEPT ![f] = @ \/ k = "image"]
    /\ Reported("preview", f)
    /\ UNCHANGED <<kind, exists, contentType, attempts, stale, Outside>>

Exhausted(f) == attempts[f] >= MaxAttempts

Fail(f) ==
    /\ job[f] = "claimed"
    /\ job' = [job EXCEPT ![f] = IF Exhausted(f) THEN "error" ELSE "pending"]
    /\ Reported("preview", f)
    /\ UNCHANGED <<kind, exists, contentType, attempts, stale, previewKey, Outside>>

\* The row goes, and its queue row and results with it.
Delete(f) ==
    /\ exists[f] /\ upsets < MaxUpsets
    /\ exists' = [exists EXCEPT ![f] = FALSE]
    /\ contentType' = [contentType EXCEPT ![f] = "unknown"]
    /\ job' = [job EXCEPT ![f] = "none"]
    /\ stale' = [stale EXCEPT ![f] = FALSE]
    /\ held' = [i \in Indexer |-> [held[i] EXCEPT ![f] = {kind[f]}]]
    /\ previewKey' = [previewKey EXCEPT ![f] = FALSE]
    /\ upsets' = upsets + 1
    /\ UNCHANGED <<kind, attempts, shown, calls, history, fetches>>

\* An upload over the key, or a change that the crawler finds: the file keeps
\* its row and its results, and is marked.  A job under way takes the new mark
\* when it completes.
Replace(f) ==
    /\ exists[f] /\ upsets < MaxUpsets
    /\ \E k \in NewKinds :
          /\ kind' = [kind EXCEPT ![f] = k]
          /\ held' = [i \in Indexer |-> [held[i] EXCEPT
                        ![f] = IF i = "stat" \/ job[f] = "claimed" THEN @ \cup {k} ELSE {k}]]
    /\ stale' = [stale EXCEPT ![f] = @ \/ job[f] = "done"]
    /\ replaced' = [replaced EXCEPT ![f] = TRUE]
    /\ upsets' = upsets + 1
    /\ UNCHANGED <<exists, contentType, job, attempts, previewKey, shown, calls,
                   raced, urlFailed, fetches>>

-----------------------------------------------------------------------------
(* GetFilePreviewStatuses, and the status part of ListFiles and             *)
(* ListDirectory: one statement for the file rows, one for the queue rows.  *)

\* What is left of a call once it is answered.
Answered(c, answer) == [NoCall EXCEPT !.op = c.op, !.phase = "answered", !.answer = answer]

Step(s, call) ==
    /\ calls' = [calls EXCEPT ![s] = call]
    /\ UNCHANGED <<queueVars, shown, bounds>>

GetFilesByIDs(s) ==
    /\ calls[s].phase = "asked"
    /\ LET found == {f \in calls[s].ids : exists[f]} IN
       Step(s, [calls[s] EXCEPT !.phase = "rows", !.found = found,
                  !.rows = [f \in Files |-> IF f \in found THEN FileRow(f) ELSE NoRow]])
    /\ UNCHANGED history

\* A poll's URLs are presigned from the rows already read; a listing's are
\* asked for in another call.
GetIndexQueueStatuses(s) ==
    /\ calls[s].phase = "rows"
    /\ LET c == calls[s]
           status(f) == previewStatus(c.rows[f], job[f])
           answer == [f \in Files |->
                        IF f \in c.found
                        THEN [status |-> status(f), url |-> c.op = "poll" /\ status(f) = "READY"]
                        ELSE c.answer[f]] IN
       /\ Step(s, IF c.op = "poll" THEN Answered(c, answer)
                  ELSE [c EXCEPT !.phase = "urls", !.answer = answer])
       /\ raced' = [f \in Files |-> raced[f] \/
                        (f \in c.found /\ ~c.rows[f].previewKey /\ previewKey[f])]
    /\ UNCHANGED <<replaced, urlFailed>>

\* getPreviewURL for the rows that have a preview key; when it fails the page
\* goes out without thumbnails.
GetPreviewURL(s) ==
    /\ calls[s].phase = "urls"
    /\ LET c == calls[s] IN
       \/ /\ Step(s, Answered(c, [f \in Files |->
                IF f \in c.found
                THEN [c.answer[f] EXCEPT !.url = c.rows[f].previewKey /\ previewKey[f]]
                ELSE c.answer[f]]))
          /\ UNCHANGED history
       \/ /\ upsets < MaxUpsets
          /\ calls' = [calls EXCEPT ![s] = Answered(c, c.answer)]
          /\ urlFailed' = TRUE
          /\ upsets' = upsets + 1
          /\ UNCHANGED <<queueVars, shown, raced, replaced, fetches>>

-----------------------------------------------------------------------------
(* The client.                                                              *)

ShownRows == {f \in Files : shown[f] # NotShown}

\* The listing is loaded again: after an error, on focus, by an invalidation.
FetchList ==
    /\ calls[0] = NoCall /\ fetches < MaxFetches
    /\ \E ids \in {i \in SUBSET Files : i # {} /\ ShownRows \subseteq i} :
          calls' = [calls EXCEPT ![0] = Call("list", ids, [f \in Files |-> NotShown])]
    /\ fetches' = fetches + 1
    /\ UNCHANGED <<queueVars, shown, history, upsets>>

\* The pages before are the ones the query held when this fetch began; the new
\* one may hold none of the files followed here.
FetchNextPage ==
    /\ calls[0] = NoCall /\ fetches < MaxFetches /\ ShownRows # {}
    /\ \E ids \in SUBSET (Files \ ShownRows) :
          calls' = [calls EXCEPT ![0] = Call("next", ids, shown)]
    /\ fetches' = fetches + 1
    /\ UNCHANGED <<queueVars, shown, history, upsets>>

\* Another sort order or filter: the query under the new key is empty and is
\* loaded; the fetch of the old one is no longer this listing's.
ChangeKey ==
    /\ ShownRows # {} /\ fetches < MaxFetches
    /\ shown' = [f \in Files |-> NotShown]
    /\ \E ids \in SUBSET Files \ {{}} :
          calls' = [calls EXCEPT ![0] = Call("list", ids, [f \in Files |-> NotShown])]
    /\ fetches' = fetches + 1
    /\ UNCHANGED <<queueVars, history, upsets>>

PendingIds_OnlyPending(rows) == {f \in Files : rows[f].status \in {"PENDING"}}
PendingIds(rows) == {f \in Files : rows[f].status \in {"PENDING", "PROCESSING"}}

\* The interval timer: it does not wait for the poll before.
Tick ==
    /\ PendingIds(shown) # {}
    /\ \E s \in 1..MaxPolls :
          /\ calls[s] = NoCall
          /\ \A r \in 1..(s - 1) : calls[r] # NoCall
          /\ calls' = [calls EXCEPT ![s] = Call("poll", PendingIds(shown), [f \in Files |-> NotShown])]
    /\ UNCHANGED <<queueVars, shown, history, bounds>>

\* The cached row with a poll's answer; a thumbnail is never taken away.
Patch_OnlyStatus(row, update) ==
    IF row = NotShown \/ update = NotShown THEN row ELSE [row EXCEPT !.status = update.status]
Patch(row, update) ==
    IF row = NotShown \/ update = NotShown THEN row
    ELSE [status |-> update.status, url |-> update.url \/ row.url]

Deliver(s) ==
    /\ calls[s].phase = "answered"
    /\ shown' = [f \in Files |-> IF calls[s].op = "poll" THEN Patch(shown[f], calls[s].answer[f])
                                 ELSE calls[s].answer[f]]
    /\ calls' = [calls EXCEPT ![s] = NoCall]
    /\ UNCHANGED <<queueVars, history, bounds>>

\* An error of a poll is ignored, one of a listing keeps its rows.
CallFails(s) ==
    /\ calls[s].phase = "asked" /\ upsets < MaxUpsets
    /\ calls' = [calls EXCEPT ![s] = NoCall]
    /\ upsets' = upsets + 1
    /\ UNCHANGED <<queueVars, shown, history, fetches>>

Answer(s) == GetFilesByIDs(s) \/ GetIndexQueueStatuses(s) \/ GetPreviewURL(s) \/ Deliver(s)
Index(f) == Seed(f) \/ Requeue(f) \/ Claim(f)
Finish(f) == Complete(f) \/ Fail(f)
Upset(f) == Delete(f) \/ Replace(f)

PollerNext ==
    \/ \E f \in Files : Index(f) \/ Finish(f) \/ StatIndexed(f) \/ Upset(f)
    \/ \E s \in Slots : Answer(s) \/ CallFails(s)
    \/ FetchList \/ FetchNextPage \/ ChangeKey \/ Tick

PollerSpec == PollerInit /\ [][PollerNext]_pollerVars

\* The preview worker and the servers keep working, the timer keeps firing, and
\* a job does not stay claimed for ever.
PollerFairSpec ==
    /\ PollerSpec
    /\ \A f \in Files : WF_pollerVars(Index(f)) /\ WF_pollerVars(Finish(f))
    /\ \A s \in Slots : WF_pollerVars(Answer(s))
    /\ WF_pollerVars(Tick)

-----------------------------------------------------------------------------
(* Properties.                                                              *)

PollerTypeOK ==
    /\ kind \in [Files -> Kinds]
    /\ exists \in [Files -> BOOLEAN]
    /\ contentType \in [Files -> {"unknown", "image", "other"}]
    /\ job \in [Files -> JobStatus]
    /\ attempts \in [Files -> 0..MaxAttempts]
    /\ stale \in [Files -> BOOLEAN]
    /\ held \in [Indexer -> [Files -> SUBSET Kinds]]
    /\ previewKey \in [Files -> BOOLEAN]
    /\ shown \in [Files -> ShownRow]
    /\ \A s \in Slots : calls[s].ids \subseteq Files /\ calls[s].answer \in [Files -> ShownRow]

\* A row that claims a preview shows it: READY without a thumbnail is left only
\* where a listing could not have its URLs presigned, or the file is gone.
ReadyShowsThumbnail ==
    \A f \in Files : shown[f].status = "READY" /\ ~shown[f].url => urlFailed \/ ~exists[f]

\* NONE is final for the poller: a file is shown so while its preview exists
\* only if the job completed between the two statements of one answer, or the
\* object was replaced and its job queued again (RequeueStaleIndexQueue).
NoneOnlyAfterRace ==
    \A f \in Files : shown[f].status = "NONE" /\ previewKey[f] => raced[f] \/ replaced[f]

\* Once the index is at rest every row comes to show what the index says,
\* whatever the order in which polls and listings were answered, and also when
\* the object was replaced under a row that was not final yet.  A NONE is never
\* asked for again (useFileStatusPoller.ts:33): it may stay although the object
\* was replaced, or although the job of what is known not to be an image failed.
Outcome(f) == previewStatus(FileRow(f), job[f])
Excused(f) == ~exists[f] \/ shown[f] = NotShown \/ raced[f]
NoneStays(f) == shown[f].status = "NONE" /\ (replaced[f] \/ contentType[f] = "other")
EventuallyShowsOutcome ==
    <>[](\A f \in Files : \/ Excused(f) \/ NoneStays(f)
                          \/ /\ shown[f].status = Outcome(f)
                             /\ previewKey[f] => shown[f].url \/ urlFailed)

\* "No preview exists and none is coming" (files.proto, PREVIEW_STATUS_NONE): a
\* NONE shown for a file is true of it.
NoneMeansNoPreview ==
    \A f \in Files : shown[f].status = "NONE" => ~previewKey[f]
=============================================================================
