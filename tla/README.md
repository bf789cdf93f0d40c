# Verification of the file indexer

TLA+ models of the file indexer, the TLC configurations that check them on small
instances, and TLAPS proofs for instances of any size. The models are translated
from the Go services, the SQL queries, the migrations and the web client of this
repository;
`PROJECT.json` maps every definition to the lines it stands for.

## 1. The system

S3 is the source of truth; Postgres holds what was derived from it. A crawler lists
the bucket into `files`; one worker loop per index type (stat, preview, exif) drains a
queue of files and writes result tables; the files service uploads, moves and deletes;
the search service reads; a web client drives both services.

| part | state it keeps | operations | hard behaviour | what makes it correct |
|---|---|---|---|---|
| Index queue and worker loop (`internal/service/indexer/{runner,queue}.go`, `queries/index_queue.sql`) | `index_queue` rows (status, attempts, times, mark), result rows, a worker's batch | seed, requeue stale, claim, process, complete, fail, backoff | several pods, claims that expire, crashes, lost replies, edits and deletions while a job is in flight | claims are exclusive; rows follow the lifecycle; every file ends indexed or parked; an edit is re-indexed |
| Files service (`internal/service/files/server.go`) | S3 objects, `files`, advisory locks, pooled connections | presigned upload and commit, multipart, move, delete file, delete directory, preview URLs | requests on the same keys, S3 and Postgres failing one after the other, lock order, pool exhaustion | no bytes are lost; rows lead to their bytes; locks exclude and leak only when an unlock fails; requests end |
| Crawler (`internal/service/crawler/crawl.go`) | cutoff, current batch, `seen_at` | read clock, walk, upsert batches, sweep | uploads, moves, deletions and out-of-band changes during the walk, aborted crawls | only rows of vanished objects are swept; table and bucket converge |
| Directory index (`internal/db/store.go`, `queries/directories.sql`) | `directories` | insert ancestors, prune empties, prune orphans | READ COMMITTED transactions that do not see each other | a directory exists exactly when a file is under it |
| Preview GC (`internal/service/previewgc`) | claimed keys, orphans found | list keys, walk, delete | an indexer that writes previews and rows meanwhile | never deletes a preview a row claims |
| Effective date (`migrations/008`) | `files.effective_taken_at` | triggers on two result tables | two indexers completing one file at once | equals the coalesced value of the result rows |
| Search service (`internal/service/search`) | none (cursors travel with the client) | list files, list directory, search directories | the tables change between two pages | no page repeats or skips what did not change |
| Worker health (`indexer/status.go`) | last heartbeat | beat, freshness | long batches | a working pod is not restarted |
| Upload client (`web/src/lib/multipartUpload.ts`, `components/Browser.tsx`) | sessions in local storage, the batch under way, S3's uploads | pick a batch, resume, put parts, retry, cancel, complete | several tabs on one key, lost replies, reloads, another file of the same name | what lands is one whole file; only missing parts are sent; an upload ends |
| Infinite lists (`web/src/components/{FileList,DirectoryList,PhotoWall}.tsx`) | pages in the query cache, the fetch under way, the observer | scroll, delete, upload, refetch | rows move between pages, an invalidation meets a scroll | one walk in order, nothing steady skipped, the end is reached |
| Status poller (`web/src/lib/useFileStatusPoller.ts`) | polls under way, patched rows | tick, patch | replies overtake each other and the listing | the last status shown is the indexer's |
| File actions (`FileTable`, `DirectoryList`, `routes/file.$id.tsx`) | dialogs, mutations, invalidated queries | delete, move, delete folder | a reply after the user went elsewhere | what was deleted leaves the screen; a reply reaches its own dialog; a count is not an old one |
| Requests (`routes`, `web/src/server`, `validateUploadKey`, `validateDirPath`) | URL parameters, filters, search box, cached lists | links, filters, debounce, walks, move dialog, every server function | tokens bound to parameters that change, paths normalised three times | nothing the user can bring about is refused; the screen shows what was asked |

How they interact: the crawler and the files service write `files` (and `directories`,
in the same transaction); the workers read `files.marked_at` and S3; deleting a `files`
row cascades to queue and result rows; the files service and the crawler meet only in the
tables and the bucket, never by a call; two movers meet in Postgres advisory locks; the
preview GC and the preview worker meet only in the bucket and `index_preview_result`.

`PROJECT.json` lists the hazards of this code line by line, with the properties that
cover them.

## 2. Modules

| module | models | proofs |
|---|---|---|
| `IndexQueue` | one index type's queue, its workers, and the files and objects under it | `IndexQueueProofs` |
| `JobLifecycle` | the abstract lifecycle of a queue row (the diagram of `001_initial.sql`), refined by `IndexQueue` | `IndexQueueProofs` |
| `FilesService` | MoveFile, DeleteFile, upload and CommitUpload over S3, `files`, advisory locks and the pool | `FilesServiceProofs` |
| `Crawler` | one crawl after another against the bucket, the table and the requests | `IndexingProofs` |
| `DirectoryIndex` | the transactions of `db.Store` on `files` and `directories`, statement by statement | `DirectoryIndexProofs` |
| `EffectiveDate` | the date triggers of migration 008 under two completions, and the days of the photo wall | `InfiniteListProofs` |
| `FileUpload` | the abstract upload: a key receives one whole file or keeps what it has | `MultipartUploadProofs` |
| `MultipartUpload` | the browser's uploads with the calls of the files service and S3 under them; refines `FileUpload` | `MultipartUploadProofs` |
| `SearchPages` | the keyset pages and cursors of the search service, as operators | `InfiniteListProofs` |
| `InfiniteList` | the three scrolling lists over `SearchPages` and tables that change | `InfiniteListProofs` |
| `StatusPoller` | preview worker, the two reads of the service, the listing and its poller | `IndexingProofs` |
| `FileActions` | the delete, move and folder dialogs, their mutations and the cache | `FileActionsProofs` |
| `ListRequests` | what a listing's URL becomes on its way to the search service's queries, as operators | `WebRequestsProofs` |
| `FileRequests` | the same for every call of the files service, with its validation | `WebRequestsProofs` |
| `FileMetadata` | which readings of an image are stored and get a line in the metadata table | `WebRequestsProofs` |
| `WebRequests` | routes, filters, search box, folder walks and the move dialog over the last three | `WebRequestsProofs` |
| `MC*` | symmetry sets and constant values for TLC; a module whose constants a cfg can spell (`InfiniteList`, `StatusPoller`) has none and is run itself | |

`InfiniteList` composes with `SearchPages`, and `WebRequests` with `ListRequests`,
`FileRequests` and `FileMetadata`: the client's state machine calls the service's
operators, so that a change on either side shows.

Names such as `Claimable_NoTTL` or `Scope_Keys` are mutants: plausible mistakes in the
definition that follows them. Each property of a passing run has one that violates it.

### IndexQueue

Every SQL statement or transaction and every S3 read is one step; workers interleave
there. `pc[w]` is the place in `Run`: `seed`, `requeue`, `claim`, `work`, `complete`,
`fail`. Times are kept as the comparisons the queries make: `due` is
`next_attempt_at <= now()`, `expired` is `now() - claimed_at >= stale_timeout`. An
object is the time its bytes were uploaded and its last-modified time; a result is the
object it was read from. Three disturbances are switched by a constant: claims that
expire under a working holder (`slow`), status writes that commit but are reported as
failed (`lostAck`), and moves in flight (`move`). Without the first two a configuration
is called *timely*. `stray` is a history variable: the files whose latest result was read
under a key they had already been moved away from; the bytes there may be another file's, and
newer, so a later re-index under the file's own key may go back. Different index types never touch the same rows, so one is modelled.

### FilesService

Each statement and each S3 call of the three handlers is a step. A lock is identified by
`Hash[key]`, as `hashtext(key)` does, and taken in key order; a waiting or locked move
pins a connection and every statement needs a free one. `live` is a history variable: the
contents that were committed and never given up by a deletion or an overwriting upload.
Faults are failed calls, crashes of a replica (Postgres drops its session locks), and
committed updates whose reply is lost. An unlock may fail too: `store.go:236` ignores the error
and puts the connection back, so the lock stays in the pool (`leaked`) until the pool closes
its session. A `PoolSize` above the number of requests stands
for a deployment that never runs out of connections; the default pool of pgx is the
larger of four and the number of CPUs.

### Crawler

The walk goes through the keys in byte order, one listed key per step (an S3 page of one
key; larger pages are the case in which nothing happens between two steps). There is one
crawl at a time (`concurrencyPolicy: Forbid`), so `seen_at` is one bit per row: its
comparison with the cutoff. `SlowTx` lets a transaction begin before the cutoff and write
after it, because `now()` is the transaction's start. Two history variables: `gone`, rows
whose object was missing at some moment since the cutoff, and `slipped`, unstamped rows
that were moved, or written by a transaction older than the cutoff, since then.

### DirectoryIndex

A key is a sequence of path segments, a directory a proper prefix of one; a marker key
ends in an empty segment. The transactions run at READ COMMITTED: a prune is a snapshot
that fixes the candidates and later one deletion per row; an insertion waits for the
outcome of another's insertion or deletion of the same row but not for a prune that has
only looked. A row that was deleted and inserted again is another row, so it leaves the
candidates of prunes that began before. Postgres's deadlock detector is an action. `race`
is a history variable: which kinds of transactions have overlapped since the last crawl
that no request overlapped. `DeleteDirectory` lists its files, deletes their objects and
only then begins its transaction, in three actions: the listing overlaps no transaction, and
`race` notes when the transaction deletes a row whose key is no longer the one listed. Advisory
locks are left out here: without them there are more interleavings, and the properties hold
for those too. A move deletes its old object in the step that commits; what a crawl could see
between the two it also sees after an object was put back out of band.

### EffectiveDate

A completion is three steps: the upsert, whose trigger starts an UPDATE with its snapshot
of the other indexer's result; the moment the UPDATE has the `files` row; the commit.
`raced` is a history variable: the files whose two completions were open together. The
photo wall is a function of the committed state.

### MultipartUpload

`stage[t]` is where the batch loop of `Browser.tsx` and the driver `uploadMultipart` are in
tab `t`; every awaited call is a step and may fail before or after its effect. The tabs
share local storage and the bucket. An S3 upload is a map from part number to the file the
part came from; completing it makes an object that is the sequence of what landed. The
refinement of `FileUpload` maps the stages to idle, sending and failed.

### SearchPages and InfiniteList

A listing is a set of rows with a sort value and an id. `FilesPage` reads one row more
than the page (the sentinel) and cuts; a token is the last row's values or, in a directory
listing, the last directory's name. The list keeps pages with their tokens as
`useInfiniteQuery` does; a refetch reads all pages again one by one from the first. The
observer is `attached` from an effect run on, and reports only changes of visibility.
`steady` is a history variable: the items that have not moved since the first page on the
screen was read. `missed` is another: what, since then, has kept a deleted row on the
page. A scroll cancels a refetch under way; `PollPatches` is the status poller's
`setQueryData` on the same query, which turns a query whose refetch failed back into a
success, and leaves a fetch under way alone.

### StatusPoller

Files have a kind of content; the jobs of the preview worker go through the states of
`JobLifecycle` without leases. `Replace` is an upload over the key: the file keeps its row,
its results and its job, which `Requeue` (`RequeueStaleIndexQueue`) takes back from done to
pending if it was complete; a job under way may report on the content before (`held`), and
takes the new mark. The stat indexer may report late, too, or never again: no fairness is assumed of it. The server answers a poll in two steps (`files`, then
`index_queue`), a listing in two as well; replies are applied in any order. `raced` marks
an answer between whose statements the job was completed, `replaced` a file whose object
was replaced: of such a file a row that says NONE is left as it is, since the poller asks
only for rows that are pending or processing.

### FileActions

A cache entry for each listing on the way (root, folders, all files), with what was
fetched, whether it is stale, and the fetch under way with what it will bring. A mutation in
flight remembers only what the code's closure does; its callbacks come from the latest
render, as TanStack Query's do, which is why `home` and `route` are compared when it ends.
`Scroll` is `fetchNextPage`: it takes the place of a fetch under way, an invalidation's refetch
included, and what it brings is added to the rows there are; pages are not told apart.
`PollPatches` is the status poller's `setQueryData`, which makes the rows there are current
and takes an error away. `missed` names the listings an invalidation came to nothing for, until
they are read in full again; `since` the numbers of files a folder has had since its dialog was
opened, which is what the count in the dialog is compared with. A dialog is an overlay over the
whole page, so none is opened from under another. An alert is followed to the dialog it first
shows in; that of a failed deletion also stays with its mutation and is shown in the next
deletion's dialog until that is confirmed (`FileTable.tsx:211`).

### ListRequests, FileRequests, FileMetadata and WebRequests

A path is the sequence of its segments, as `split('/')` gives it, so that trimming,
collapsing of slashes and the directory test are about segments; a name is a member of a
small set with what `trim` makes of it as a constant. An id is a string with its number as
a constant, since `BigInt` accepts spellings that `toString` never gives back. A wire
message is the record the service reads after proto3's defaults.
`FileRequests!Call(fn, data, key)` is one server function end to end: the validator, the
message, what the service does with it (which rows exist is left open, so an id may be gone
and the destination of a move occupied), and what the browser gets; `FileCalls` are the calls
that the page on the screen can make in the current state. `WebRequests` is the client: the URL
(`loc`), the lists by query key, the search box with its timer, one modal at a time.

## 3. Runs

| run | instance | shows |
|---|---|---|
| `queue_timely` | 2 workers, 2 keys, 1 id, 1 fault, moves, MaxAttempts 2, fair | exclusive claims, lifecycle (refinement), parked only after MaxAttempts claims since the row was enqueued, results never go back but for stray ones, a row known to be stale is re-indexed |
| `queue_disturbed` | 2 workers, 1 file, slow claims, lost acknowledgements, fair | marks never run ahead, completed rows keep results, every file ends indexed or parked although two workers report on one row |
| `files_same_file` | 2 movers that may move one file, 1 fault, fair | nothing lost, rows lead to bytes, no lock cycle, every move ends |
| `files_mixed` | 2 requests of any kind, a pool of 2, colliding hashes, lost commits, failed unlocks | locks exclude; nothing is left behind but a lock whose unlock failed; all wait only when moves have pinned the whole pool and one holds its locks, or for such a lock |
| `crawler_sync` | 3 keys, batch 2, all requests, late transactions, 1 fault, fair | the sweep deletes only rows that were gone or slipped past the walk; table and bucket converge whatever happened |
| `directory_repair` | 2 clients, one of which deletes directories, and the crawler, two nested keys and a marker key, 1 fault, fair | a directory is missing only after an insertion overlapped a prune, orphaned only after two prunes overlapped or `DeleteDirectory` deleted a row that had moved since it was listed; crawls make `directories` exact for good |
| `multipart_upload` | 2 tabs, 2 versions of a large file and a small one, 1 fault, 1 interruption, fair | an object is one whole file, only missing parts are sent, `FileUpload` is implemented, a batch that is tried again and again is stored, indexed and listed |
| `infinite_list` | 3 lists, 3 directories, 3 files, pages of 2, 2 changes, 1 edit, 1 fault, fair | rows are one walk, nothing steady is skipped, a deleted row leaves unless a scroll cancelled the refetch or the status poller hid its failure, the end is reached |
| `status_poller` | 1 file of any kind, 2 polls at a time, 1 fetch of the listing, 1 upset (a failed call, a deletion, or an image uploaded over the file), fair | READY has its thumbnail, NONE beside a preview only after the race of the two reads or a replacement, the row ends with the index's outcome unless it says NONE |
| `file_actions` | 2 files, root and one folder, 2 operations, 2 detours (a detour is a navigation, scroll, poll, change by others, failed fetch, refusal or lost reply) | what was deleted leaves its listing unless the invalidation came to nothing, a reply reaches its own dialog unless the user cancelled it or left the page of the file deleted, a folder's count is none of an earlier visit |
| `web_requests` | 7 links, 3 folders, 3 keys, 3 new names, 3 operations, 2 visits, 1 fault, fair | nothing is refused but what the property names and a move to an occupied key, the screen shows what was asked, stored readings are shown, the search box settles |
| `files_same_file_doc` | 3 movers | violation, see section 5 |

Further instances are kept beside these for use by hand: `IndexQueueTimely.cfg`
(batches of two, two ids; with `MaxClock = 3` and one id it also reaches the stray results,
which need a third moment and which the theorem `ResultsOnlyGetNewer` covers at any clock),
`FilesMoves.cfg` (three movers), `DirectoryRaces.cfg` (two
clients that make any request), `EffectiveDate.cfg` (the invariants of
`EffectiveDate`, proved but for its types), and the `*Doc.cfg` files of section 5.

Why the bounds are enough to be interesting: two workers and one row already give every
order of claim, expiry, late report and re-claim; two contents give an edit between read
and completion; batch size two with two files gives full, partial and empty batches; three
movers give a chain (one waits for a lock while the other two change what it will find);
three keys with a batch of two give a full flush, a final flush and keys before and behind
the walk; a file two directories deep and a key one deeper give both directory races, the
stale listing (the file goes where the pruned ancestors do not reach) and, as two
transactions insert two directories in any order, the deadlocks. Two versions of one file
name, of two and three parts, give a session that fits neither file; two tabs give a part
sent into an upload that the other has completed. Pages of two over three directories and
three files give a page of directories, a mixed one, one exactly full of directories and
one of files. Two polls at once give a late reply after a newer one; one file is enough
there because polls patch each row on its own. The object is
replaced by an image because only that can turn a NONE into a preview; a re-index never
takes a preview away, and the theorems are about any replacement. The folders, names and keys of
`web_requests` are one of each way a path can be spelled: with and without its slash,
with a leading slash, blanks, "..", and the reserved prefix; `MaxDepth` bounds the walks,
which start only while the search box is untouched and end the run of a behaviour, so that
the two parts are not multiplied with each other (they share no state but the URL, which
links change in the midst of typing). All bounds on counters
(`MaxClock`, `MaxOps`, `MaxFaults`, `MaxContent`, `MaxPolls`, `MaxActs`...) are named constants and limit the
environment, never the code; `attempts` saturates above MaxAttempts because the code only
compares it.

`files_mixed` looks at states without the bytes of the objects (`VIEW`): steps read only whether
an object is there, and its properties not even that. It says `CHECK_DEADLOCK FALSE` because with all ids and contents used up and
all files deleted no request is left to make; the runs of the web client because a user
whose operations are used up and whose page is at rest does nothing more.

### Fairness

- Worker steps, request steps, transaction steps: weak fairness. Each is the next
  statement of a running goroutine.
- `Start` of a worker: weakly fair, Kubernetes restarts a pod that has stopped.
- `BackoffElapses`, `ClaimExpires`: weakly fair, time passes.
- Crawls: weakly fair, a CronJob starts them again and again.
- `MoveLock`: strongly fair, because Postgres queues lock waiters in order, so a lock that
  is released again and again is eventually granted to a given waiter.
- Web client: pending continuations of an upload run, requests are answered or fail, timers
  (debounce, poll interval, reconnection) fire. Of the user only this is assumed: the one
  of `InfiniteList` keeps scrolling, the one of `MultipartUpload` tries a failed batch again.
  Properties of the other modules need nothing of the user.
- Clients, out-of-band changes and faults otherwise have no fairness and are finitely many in an
  instance: the liveness properties say what happens once they pause.

## 4. Proofs

All theorems hold for every value of the constants that the modules' named assumptions
admit (natural bounds, a natural batch size above zero, a known set of disturbances...). Each
safety theorem rests on an inductive invariant, which TLC checked on an instance before it
was proved; what follows says what each adds and why. Eight modules hold them; where one
covers two components, their proofs share only the file.

- `IndexQueueProofs`, with every disturbance: `TypeCorrect`, `MarksNeverRunAhead`,
  `DoneRowsHaveResults`. An id that was never allocated or whose file was deleted must have no
  mark and no result (or a new row under it would start with one), and a worker about to
  complete must have read an object. `IInv` adds exactly that.
- `IndexQueueProofs`, for timely configurations: `ClaimsAreExclusive`,
  `ParkedAfterMaxAttempts`, `QueueFollowsLifecycle` (the refinement of `JobLifecycle`),
  `ErrorRowsStayParked`. `XInv` ties each held job to its row (claimed, unexpired, with the
  attempt number handed out) and says that no two jobs, held by one or by two workers, are of
  one file. Exclusivity is what makes every report on a row a lifecycle step, so the other
  theorems rest on it. So does `ResultsOnlyGetNewer`, that a completion never replaces a
  result by an older one: `NewerInv` says that no time is ahead of the clock, that the result
  of a file that is not stray is no newer than the object under its key and under the key of
  the job held for it, and that what a worker has read lies between the two; exclusivity keeps
  others from replacing the result meanwhile. The attempt to prove it without the
  exception showed the case behind `stray`, which takes one more moment than the run has.
- `FilesServiceProofs`, for any mix of requests, any hash and all faults: `TypeCorrect`,
  `LocksNeverLeak`, `MovesAreExclusive`. The invariant says which locks a request at each
  place holds, that a pinned connection belongs to a request that is acquiring or holding
  locks, and that an idle request has nothing. A lock whose unlock failed (`store.go:240`
  ignores the error) stays with a connection of the pool and may come back with it to any
  move. The key step is that a key's lock has one owner, however hashes collide.
- `LocksNeverCycle`, for a hash without collisions and unlocks that succeed: a mover that waits for its second lock
  holds only that of the smaller key (`HoldsInOrder`), so along a cycle of waiting movers the
  keys would descend for ever. Both assumptions are needed: with collisions the cycle exists
  (section 5), and a connection that brings a lock along breaks the order.
- `MovesKeepBytes`, `MovesLoseNothing`, for movers of distinct files without lost commits and
  any number of movers, keys and faults. The invariant strengthens "rows lead to their bytes"
  by: keys are unique, one mover per file, the key read is the row's key, the destination of a
  mover past its check is free, and between copy and deletion the copy is there.
- `WedgedByPool`, for any number of requests, any pool, hash, files and faults: all requests
  under way wait only when moves have pinned every connection and one of them, past its locks,
  needs another for a statement (or when a failed unlock has left a lock in the pool). With a
  connection left all would wait for locks of moves under way and form a cycle, and Postgres
  fails one of those; with none left and only lock waiters pinning, the pinned ones would. The
  wedge itself is real: nothing bounds the moves by the pool (section 5).
- `IndexingProofs`, the crawler: `SweepSparesTheSeen`, for any requests, moves, late
  transactions and faults. The invariant `SweepInv`: during a walk a row that is neither
  stamped nor gone nor slipped has its key ahead of the walk or in the batch.
  `SweepSparesTheLiving` is the corollary for a crawler without moves and with transactions
  that do not straddle the cutoff: `CalmInv` adds that then nothing slips. `RowsHaveOwnKeys`
  shows the UNIQUE key of `files` of the model's table (its first attempt found that an earlier
  `NewIds` could give two new keys of one batch the same id); `CrawlerTypeCorrect` adds that a
  batch stays within its size, because there is room in it while the walk goes on.
- `DirectoryIndexProofs`, for any keys, clients, requests and faults: `DirectoriesTypeCorrect`,
  `LackOnlyAfterRace`, `OrphanOnlyAfterPrunes`. Both races are about what a transaction saw
  and what has been committed when it writes, so the invariant says what makes each commit
  exact: a prune goes on finding empty what it deletes, because whoever could have put a file
  there would have overlapped it; what it keeps holds a file that it sees; an insertion has
  the ancestors of its keys in the table, among its own rows or still to do; rows of files
  that were written are locked, so a purge that found the listed keys keeps them until it
  commits. For the history to be cleared by an undisturbed crawl, the
  invariant follows that crawl: the files it has stamped have their directories, and its sweep
  deletes the others.
- `InfiniteListProofs`, for any listing, page size, changes and order of fetches: `ListTypes`,
  `ListIsOneWalk`, `ListSkipsNothing`, `DeletedLeaves`. What a page holds is defined by counting
  (`FirstN`), and no induction is needed: the rows of a page are numbered without gaps, so a row
  that lies before one of them is one of them. A token lies behind everything shown so far; the
  page asked for with it lies behind the token and reaches up to its own token without a gap.
  The invariant says this of the pages on the screen and of the pages a refetch has collected,
  and that a deleted file is in no page read since.
- The same module, for the photo wall: `TriggersKeepInSync`, for any files and dates (zero is no
  file id), where `DateInv` says that a transaction that is alone on its file has seen the other
  indexer's committed date, and that a file that has not raced has at most one open; and
  `OneHeadingForADay`, for finitely many photos, by the same numbering without gaps.
- `MultipartUploadProofs`, for any tabs, files, sizes, retries, batches and faults:
  `UploadTypeCorrect`, `ObjectsAreWholeFiles`, `SendsOnlyMissingParts`. S3 knows nothing of
  files, so the invariant has to: every upload id belongs to one file; its parts are that
  file's, the sessions that name it carry its fingerprint, and the tabs that fill it are at
  that file. What a tab has behind it, by sending it or by having found it landed, is in the
  upload as long as that is open. For a tab that is alone with its file, what is still ahead
  of it is not (`AheadInv`). `UploadImplementsPromise` is the refinement of `FileUpload`, one
  lemma per action: the initial state maps to the abstract one and every step to a step or a
  stutter.
- `IndexingProofs`, the poller, for any files, polls and upsets: `PollerTypeCorrect`,
  `ReadyRowsHaveThumbnails`, `NoneOnlyFromRace`. What a reply will put on the screen was
  computed from rows read earlier, so the invariant follows the answer through the call: a
  preview key that was read is still there unless the file is gone, a content type that was
  read is the object's unless it was replaced, and every answer under way could be shown at once.
- `FileActionsProofs`, for any files, folders, operations and detours: `ActionsTypeCorrect`,
  `DeletedRowsStayGone`, `RepliesReach`, `FoldersAreCounted`. The invariant follows a row
  that is known to be gone: the server does not have it there, neither what the cache relies
  on nor what a fetch has read holds it, and until the mutation settles the queries it
  will invalidate include the listings its row left. For the dialogs: of each kind of mutation
  at most one is mounted, and while it is and was not cancelled the dialog is its own. For the
  counts: what a folder has now, what a fetch has read and what its dialog shows once it is
  fetched are all in `since`.

- `WebRequestsProofs`, for any paths, texts, filters, pages and acts of the user:
  `StoredReadingsAreShown`, `ShownWasAsked`, `NothingIsRefused`. The invariant: what a list asks
  is what its query key says, its tokens were issued for that key, a lookup holds the answer to
  its own text or none, and the move dialog stands in a directory. Every call is then followed
  method by method, through validator, wire and service; that a path comes out of
  `normalizeUploadPath` as the directory on the screen is shown by counting its non-empty
  segments. The last two theorems assume `NamesAreStrings`: a name put together of two names is
  a name, and "" adds nothing. It is true of the strings without a slash, which are what the
  code has; the provers do not know strings as sequences, and a finite set of names, such as
  TLC's, is not closed like that, so it cannot be an ASSUME of the module. The attempt to prove
  `NeverRefused` found one more of its exceptions, the folder marker of section 5.

Only model-checked, and why: liveness under fairness is outside what the provers do.

## 5. Where the code and its documentation disagree

The run `files_same_file_doc` expects a violation: a move locks the key it read before
waiting, then copies from and deletes the key it reads under the locks. Three overlapping
moves lose bytes (`server.go:345`).

The configurations below are kept for the reader: each violates its property in seconds
and is run with `tlc -config <file> <MC module>` (on `StatusPoller` or `InfiniteList` itself for
theirs).

| configuration | property | what happens |
|---|---|---|
| `IndexQueueMarkDoc.cfg` | `MarkMatchesResult` | `CompleteIndexQueue` copies `files.marked_at` at completion: an object overwritten and listed between the worker's read and its completion is recorded as indexed with the new mark and the old result, and never re-indexed (`index_queue.sql:78` says the opposite) |
| `CrawlerMoveDoc.cfg` | `SweepsOnlyGone` | a file moved to a key behind the walk is swept (`crawl.go:73`) |
| `EffectiveDateDoc.cfg` (on `EffectiveDate`) | `KeptInSync` | stat and exif complete together; the second UPDATE read the first's result before it was committed (`008_effective_taken_at.sql:4`) |
| `MultipartResumeDoc.cfg` | `ResumesWhatS3StillHas` | a call that fails to list the parts makes the client start afresh, although S3 still has the session's upload (`multipartUpload.ts:133`, `150`) |
| `MultipartSessionDoc.cfg` | `FailureKeepsSession` | an upload that fails does not leave its session for a later retry (`multipartUpload.ts:189`): another tab's upload to the key has replaced it |
| `InfiniteListScrollDoc.cfg` | `ScrollAlwaysReachesEnd` | after a failed page the error takes the sentinel off the page, and no observer is attached when the list comes back (`FileList.tsx:70`) |
| `InfiniteListDeleteDoc.cfg` | `InvalidatedListIsReadAgain` | a scroll cancels the refetch of an invalidation and the deleted row stays (`FileTable.tsx:32`) |
| `PreviewNoneDoc.cfg` | `NoneMeansNoPreview` | a job completed between the two reads is answered as NONE, and the poller never asks again (the cfg has no upsets: an upload over a skipped file does the same) |
| `FileActionsDeleteDoc.cfg` | `DeleteInvalidatesItsListing` | the user changed the folder before the reply: the new folder's listing is invalidated, not the one the row was in (`FileTable.tsx:32`) |
| `FileActionsCountDoc.cfg` | `ConfirmWaitsForCount` | a folder's dialog that is opened again shows the old count with the button enabled while it is counted again: `statsPending`, "True while the folder-contents stats fetch is in flight" (`DeleteFolderConfirmation.tsx:7`), is given TanStack's `isPending`, which is false as soon as there are data (`DirectoryList.tsx:122`) |
| `WebSeaLevelDoc.cfg` | `SeaLevelIsShown` | an altitude of zero is stored on purpose and then not shown (`FileMetadataTable.tsx:76`) |

Others are one change of constants away:

| start from | with | property | what happens |
|---|---|---|---|
| `IndexQueueMarkDoc.cfg` | `MaxClock = 1`, `MaxFaults = 2` | `AttemptsWithinBudget` | a job whose holders die is claimed beyond MaxAttempts (`config.go:83`) |
| `IndexQueueMarkDoc.cfg` | `SkippedContents = {2}` | `SkippedLeavesNoRow` | re-indexing content that is now skipped leaves the old result row (`002_preview.sql:6`) |
| `IndexQueueMarkDoc.cfg` | two workers, `Disturbances = {"slow"}` | `ErrorStaysParked` | a claimant whose claim expired fails late and puts a parked row back to pending (`index_queue.sql:35`) |
| `CrawlerMoveDoc.cfg` | `Ops = {"upload"}`, `SlowTx = TRUE` | `SweepsOnlyGone` | an upsert whose transaction began before the cutoff sets `seen_at` back (`files.sql:32`) |
| `DirectoryRaces.cfg` | `Ops <- Deletes`, `MaxFaults = 0` | `NoOrphan` | two deletions of a directory's last files leave the directory (`directories.sql:82`) |
| `FilesSameFileDoc.cfg` | `NumKeys = 3`, `Ops = {"move", "delete"}`, `SameFile = FALSE`, `CHECK_DEADLOCK FALSE` | `NoLostData` | a second DeleteFile removes the object that was moved to the freed key |
| `FilesSameFileDoc.cfg` | two requests, `NumKeys = 3`, `InitFiles = 1`, `Ops = {"move", "upload"}`, `SameFile = FALSE` | `NoLostData` | a copy overwrites an upload committed after the destination was checked (`server.go:354`) |
| `FilesSameFileDoc.cfg` | two requests, `NumKeys = 3`, `SameFile = FALSE`, `MaxFaults = 2`, `Disturbances = {"lostCommit"}` | `NoLostData` | a committed update whose reply is lost is followed by deleting the copy (`server.go:378`) |
| `FilesSameFileDoc.cfg` | three files and contents, `Hash <- HashColliding`, `SameFile = FALSE` | `NoLockCycle` | with colliding hashes, key order is no lock order (`store.go:192`) |
| `FilesMixed.cfg` | | `NotWedged` | waiting movers pin every connection and the lock holder cannot get one (`store.go:190`) |
| `FilesMixed.cfg` | | `ReleaseUnlocks` | "it unlocks the keys and returns the connection to the pool" (`store.go:182`): an unlock that fails in a session that survives leaves its lock in the pool |

Seen while modelling `WebRequests`, and named as exceptions in its properties: a new folder
called " a" is listed under " a/" while uploads go to "a/" (`uploadPath.ts:9`); on a URL
whose path lacks its slash, "New folder" glues the name to it (`Browser.tsx:125`); a file
whose key starts with "/" moves to another directory than the dialog lists; an id spelled
with leading zeros shows its metadata but can be neither opened nor downloaded
(`impl.ts:370`); MoveFile lacks the ".." check uploads have (`server.go:289`), which only
the dialog makes up for; parts beyond the ten thousandth are refused when 160 GB have been
sent; an object whose key ends in "/" (a folder marker) has no last segment, so moving it to
the root asks for an empty key and is refused. That the destination of a move is occupied
(`server.go:300`, and again under the locks) is the one refusal that depends on the rows:
`MoveFile` gives `AlreadyExists` beside the other replies, and `NeverRefused` allows it.

A later crawl repairs what the crawler configurations and the two deletions of a directory show
(`crawler_sync`, `directory_repair`), though the swept row's results have to be indexed
again. The rest stays: lost bytes are lost, a stale mark or a leftover result row lasts
until the object changes again, a wedged pool until a client gives up, and a lock left in the
pool until its connection is closed.

## 6. What is not modelled, and the plan

Not modelled for good: decoding images and parsing metadata (computations on one file's
bytes), trigram matching and ranking (Postgres), layout, formatting of dates and sizes and
keyboard handling, generated gRPC and sqlc code beyond the fields it carries, migrations as
a process, logging and configuration (their values are constants), the folder tree (no page
mounts it), heartbeat freshness (it compares lengths of time). `fetchChildDirectories` stops
after a hundred pages; the dialog of `WebRequests` lists what the service has.

Left out of a module, on purpose: the walks of the move dialog through folders that appear
or go meanwhile; sort fields other than one at a time in `SearchPages`; other replicas of the
web server, which keeps no state.

Planned, in this order:

1. `PreviewGC`: claimed keys, walk, age test and DeleteMany against a preview worker that
   writes its object before its row; composed with deletions that leave previews behind.
2. DeleteDirectory's batches and cursor as actions of `FilesService`.
3. Proofs: type correctness of `WebRequests`.
4. `ExifProcess`: header read, escalation, merge of two versions.
5. Pure algorithms checked against a definition: `fitWithin`, `backoff`, the byte range of
   the subtree test.
