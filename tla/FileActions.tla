---------------------------- MODULE FileActions ----------------------------
(***************************************************************************)
(* Deleting and moving files in the web client: the dialogs of the file    *)
(* table, of the directory listing and of the file page, the mutations     *)
(* they start, the query cache those invalidate, and the user who meanwhile *)
(* cancels, opens another dialog or goes elsewhere.  The query cache and   *)
(* the router (TanStack) are external and modelled from how the components *)
(* use them: a mutation outlives its component and, while it is pending,   *)
(* takes its callbacks from the component's latest render; an invalidation *)
(* marks the queries and fetches those on screen again, but lets a fetch   *)
(* finish that has no data yet or that no component watches any more; the  *)
(* next page a scroll asks for takes the place of a fetch under way; and a *)
(* patch of the cached rows makes them current.  The folders offered as    *)
(* destinations ("folder-tree") are left out: with "Add folder" a move may *)
(* go to any folder.  Pages of a listing are not told apart.               *)
(***************************************************************************)
EXTENDS Integers, FiniteSets

CONSTANTS
    Files,          \* file ids
    Start,          \* the folder each file is in at first
    Root,           \* the bucket root
    Subfolders,     \* folders in it
    MaxOps,         \* bound: confirmed deletions and moves
    MaxDetours      \* bound: navigations, scrolls, polls, changes by others,
                    \* failed fetches, refusals and lost replies

ASSUME ConstantsAssumption ==
    /\ Root \notin Subfolders /\ "gone" \notin {Root} \cup Subfolders
    /\ Start \in [Files -> {Root} \cup Subfolders]
    /\ MaxOps \in Nat /\ MaxDetours \in Nat

VARIABLES
    place,       \* server: folder of each file, or "gone"
    route,       \* page on screen
    cache,       \* query cache
    dialog,      \* dialog on screen
    inflight,    \* mutations not yet settled
    told,        \* rows the user was told are gone: [key, row]
    missed,      \* history: queries an invalidation came to nothing for and
                 \* that were not read in full since
    since,       \* history: the numbers of files each folder has had since its
                 \* dialog was opened, or since the fetch that this joined
    ops, detours

history == <<told, missed, since>>
bounds == <<ops, detours>>
vars == <<place, route, cache, dialog, inflight, history, bounds>>

Folders == {Root} \cup Subfolders

-----------------------------------------------------------------------------
(* Routes and queries.                                                      *)

Browse(d) == [page |-> "browse", at |-> d]
Search == [page |-> "search", at |-> "all"]
FilePage(f) == [page |-> "file", at |-> f]
Routes == {Browse(d) : d \in Folders} \cup {Search} \cup {FilePage(f) : f \in Files}

FilesKey == [query |-> "files", at |-> "all"]
DirectoryKey(d) == [query |-> "directory", at |-> d]
MetadataKey(f) == [query |-> "file-metadata", at |-> f]
StatsKey(d) == [query |-> "directory-stats", at |-> d]
Keys == {FilesKey} \cup {DirectoryKey(d) : d \in Folders}
        \cup {MetadataKey(f) : f \in Files} \cup {StatsKey(d) : d \in Subfolders}

\* The query of the page, and the one of the dialog over it.
PageKey(r) == CASE r.page = "browse" -> DirectoryKey(r.at)
                [] r.page = "search" -> FilesKey
                [] r.page = "file" -> MetadataKey(r.at)
NoDialog == [kind |-> "none", target |-> "none", from |-> "none"]
DialogKeys(d) == IF d.kind = "folder" THEN {StatsKey(d.target)} ELSE {}
Active == {PageKey(route)} \cup DialogKeys(dialog)

\* What a query reads: the rows of a listing, folders first, the folder a file
\* is in, or the number of files in a folder.
In(d) == {f \in Files : place[f] = d}
NonEmpty == {d \in Subfolders : In(d) # {}}
Read(k) == CASE k.query = "files" -> {f \in Files : place[f] # "gone"}
             [] k.query = "directory" -> In(k.at) \cup (IF k.at = Root THEN NonEmpty ELSE {})
             [] k.query = "file-metadata" -> {place[k.at]}
             [] k.query = "directory-stats" -> {Cardinality(In(k.at))}

NoEntry == [loaded |-> FALSE, data |-> {}, invalidated |-> FALSE, error |-> FALSE,
            fetch |-> "none", next |-> FALSE, got |-> {}]
Begin(e) == [e EXCEPT !.fetch = "asked", !.next = FALSE, !.got = {}, !.error = @ /\ e.loaded]

Mount_CachedStats(c, ks, expired) == [k \in Keys |->
    IF /\ k \in ks /\ c[k].fetch = "none"
       /\ ~c[k].loaded \/ c[k].invalidated \/ expired \/ k.query = "file-metadata"
    THEN Begin(c[k]) ELSE c[k]]

\* A component mounts: a query without data, invalidated, failed, or older than
\* its stale time is fetched; metadata and statistics always are.
Mount(c, ks, expired) == [k \in Keys |->
    IF /\ k \in ks /\ c[k].fetch = "none"
       /\ \/ ~c[k].loaded \/ c[k].invalidated \/ expired
          \/ k.query \in {"file-metadata", "directory-stats"}
    THEN Begin(c[k]) ELSE c[k]]

\* A listing is on the page when it is there, the table when that is not empty.
ListShown(r, c) == r.page # "file" /\ c[PageKey(r)].loaded /\ ~c[PageKey(r)].error
TableShown(r, c) == ListShown(r, c) /\ c[PageKey(r)].data # {}

-----------------------------------------------------------------------------
(* Mutations.  home: the page they were confirmed in, while the component   *)
(* that holds them is mounted; keys and parent: what their callbacks use.   *)

InvalidatedBy(op, r) ==
    CASE op = "move" -> {k \in Keys : k.query \in {"files", "directory"}}
                        \cup (IF r.page = "file" THEN {MetadataKey(r.at)} ELSE {})
      [] op = "folder" -> {k \in Keys : k.query \in {"directory"}}
      [] op = "delete" /\ r.page = "browse" -> {DirectoryKey(r.at)}
      [] op = "delete" /\ r.page = "search" -> {FilesKey}
      [] op = "delete" /\ r.page = "file" ->
            {k \in Keys : k.query \in {"files", "directory"}}

\* Folder dialogs belong to the listing, the other ones to the table in it,
\* which goes when its rows do, or to the file page.
Holds(kind, r, c) ==
    r.page = "file" \/ (IF kind = "folder" THEN r.page = "browse" ELSE TableShown(r, c))

Rerender_Shared(m, r, c) == IF m.home = "none" THEN m ELSE
    [m EXCEPT !.keys = InvalidatedBy(m.op, r), !.home = r.page,
              !.parent = IF r.page = "file" THEN c[MetadataKey(r.at)].data ELSE @]

\* While mounted, the callbacks are those of the latest render.
Rerender(m, r, c) ==
    IF m.home = r.page /\ Holds(m.op, r, c)
    THEN [m EXCEPT !.keys = InvalidatedBy(m.op, r),
                   !.strayed = m.op = "delete" /\ r # m.origin,
                   !.parent = IF r.page = "file" THEN c[MetadataKey(r.at)].data ELSE @]
    ELSE [m EXCEPT !.home = "none"]

\* A commit of route, cache, dialog and mutations.
Commit(r, c, d, ms) ==
    /\ route' = r /\ cache' = c
    /\ dialog' = IF r.page = route.page /\ Holds(d.kind, r, c) THEN d ELSE NoDialog
    /\ inflight' = {Rerender(m, r, c) : m \in ms}

Init ==
    /\ place = Start
    /\ route = Browse(Root)
    /\ cache = Mount([k \in Keys |-> NoEntry], {PageKey(route)}, FALSE)
    /\ dialog = NoDialog
    /\ inflight = {} /\ told = {} /\ missed = {}
    /\ since = [d \in Subfolders |-> {Cardinality(In(d))}]
    /\ ops = 0 /\ detours = 0

-----------------------------------------------------------------------------
(* Queries.                                                                 *)

\* The next page is added to the ones there are.
FetchReads(k) ==
    /\ cache[k].fetch = "asked"
    /\ LET kept == IF cache[k].next THEN cache[k].data ELSE {} IN
       cache' = [cache EXCEPT ![k].fetch = "read", ![k].got = kept \cup Read(k)]
    /\ missed' = IF cache[k].next THEN missed ELSE missed \ {k}
    /\ UNCHANGED <<place, route, dialog, inflight, told, since, bounds>>

\* The metadata of a file that is gone is an error, and data once loaded stays.
Failed(e) == [e EXCEPT !.fetch = "none", !.next = FALSE, !.got = {}, !.error = TRUE]
FetchArrives(k) ==
    /\ cache[k].fetch = "read"
    /\ LET e == cache[k]
           arrived == IF k.query = "file-metadata" /\ e.got = {"gone"} THEN Failed(e)
                      ELSE [NoEntry EXCEPT !.loaded = TRUE, !.data = e.got] IN
       Commit(route, [cache EXCEPT ![k] = arrived], dialog, inflight)
    /\ UNCHANGED <<place, history, bounds>>

FetchFails(k) ==
    /\ cache[k].fetch = "asked" /\ detours < MaxDetours
    /\ Commit(route, [cache EXCEPT ![k] = Failed(@)], dialog, inflight)
    /\ detours' = detours + 1
    /\ UNCHANGED <<place, history, ops>>

\* The end of the list comes into view: the next page is fetched, and a fetch of
\* the whole listing under way is dropped.
Scroll ==
    /\ detours < MaxDetours /\ ListShown(route, cache)
    /\ LET k == PageKey(route)
           e == cache[k] IN
       /\ ~e.next
       /\ cache' = [cache EXCEPT ![k] = [Begin(e) EXCEPT !.next = TRUE]]
       /\ missed' = IF e.invalidated \/ e.fetch # "none" THEN missed \cup {k} ELSE missed
    /\ detours' = detours + 1
    /\ UNCHANGED <<place, route, dialog, inflight, told, since, ops>>

\* A poll's reply patches the rows of a listing, one left by now perhaps: the
\* cache takes it for good and current; a fetch goes on.
ReadInFull(e) == e.fetch = "read" /\ ~e.next
PollPatches(k) ==
    /\ detours < MaxDetours
    /\ k.query \in {"files", "directory"} /\ cache[k].loaded
    /\ cache[k].error \/ cache[k].invalidated
    /\ Commit(route, [cache EXCEPT ![k].error = FALSE, ![k].invalidated = FALSE],
              dialog, inflight)
    /\ missed' = IF cache[k].invalidated /\ ~ReadInFull(cache[k]) THEN missed \cup {k} ELSE missed
    /\ detours' = detours + 1
    /\ UNCHANGED <<place, told, since, ops>>

\* invalidateQueries for the keys of a mutation.
Restarts_IfIdle(k) == k \in Active /\ cache[k].fetch = "none"
Restarts(k) == k \in Active /\ (cache[k].loaded \/ cache[k].fetch = "none")
Invalidate(ks) == [k \in Keys |->
    CASE k \in ks /\ Restarts(k) -> [Begin(cache[k]) EXCEPT !.invalidated = cache[k].loaded]
      [] k \in ks /\ ~Restarts(k) -> [cache[k] EXCEPT !.invalidated = cache[k].loaded]
      [] OTHER -> cache[k]]

-----------------------------------------------------------------------------
(* The user.                                                                *)

\* Anywhere but to a file that is not listed; `expired` when the stale time of
\* what is shown next has passed.
Visit(r) ==
    /\ detours < MaxDetours /\ r # route
    /\ r.page = "file" => TableShown(route, cache) /\ r.at \in cache[PageKey(route)].data
    /\ \E expired \in BOOLEAN :
          Commit(r, Mount(cache, {PageKey(r)}, expired), dialog, inflight)
    /\ detours' = detours + 1
    /\ UNCHANGED <<place, history, ops>>

\* A dialog covers the page: nothing under it can be clicked to open another.
Open(kind, x, from) ==
    LET d == [kind |-> kind, target |-> x, from |-> from] IN
    /\ dialog = NoDialog /\ ops < MaxOps
    /\ cache' = Mount(cache, DialogKeys(d), FALSE)
    /\ dialog' = d
    /\ since' = IF kind = "folder" /\ cache[StatsKey(x)].fetch = "none"
                THEN [since EXCEPT ![x] = {Cardinality(In(x))}] ELSE since
    /\ UNCHANGED <<place, route, inflight, told, missed, bounds>>

\* From a row's menu, or from the buttons of the file page.
OpenFromTable ==
    /\ TableShown(route, cache)
    /\ \E f \in cache[PageKey(route)].data :
          IF f \in Subfolders THEN route.page = "browse" /\ Open("folder", f, "none")
          ELSE \E kind \in {"delete", "move"} :
                  Open(kind, f, IF route.page = "browse" THEN route.at ELSE place[f])

OpenFromPage ==
    /\ route.page = "file" /\ cache[PageKey(route)].loaded /\ ~cache[PageKey(route)].error
    /\ \E kind \in {"delete", "move"}, d \in cache[PageKey(route)].data : Open(kind, route.at, d)

\* Cancel, Escape and a click beside the dialog; a mutation goes on.
Cancel ==
    /\ dialog # NoDialog
    /\ dialog' = NoDialog
    /\ inflight' = {[m EXCEPT !.cancelled = @ \/ (m.home # "none" /\ m.op = dialog.kind)] :
                       m \in inflight}
    /\ UNCHANGED <<place, route, cache, history, bounds>>

\* What a folder's dialog shows of its contents.
Counted(d) == IF d.kind # "folder" THEN "none"
              ELSE IF cache[StatsKey(d.target)].error THEN "failed"
              ELSE IF cache[StatsKey(d.target)].loaded THEN "shown" ELSE "waiting"

isPending(op) == \E m \in inflight : m.op = op /\ m.home # "none"
StatsPending(d) == Counted(d) = "waiting"

\* The dialog's confirm button; a move needs another folder than the one shown.
Confirm ==
    /\ dialog # NoDialog /\ ops < MaxOps
    /\ ~isPending(dialog.kind) /\ ~StatsPending(dialog)
    /\ \E to \in (IF dialog.kind = "move" THEN Folders \ {dialog.from} ELSE {"gone"}) :
          inflight' = inflight \cup
             {Rerender([op |-> dialog.kind, target |-> dialog.target, to |-> to,
                        origin |-> route, home |-> route.page, keys |-> {}, parent |-> {},
                        strayed |-> FALSE, cancelled |-> FALSE, status |-> "sent"],
                       route, cache)}
    /\ ops' = ops + 1
    /\ UNCHANGED <<place, route, cache, dialog, history, detours>>

-----------------------------------------------------------------------------
(* The server, and what comes back.                                         *)

\* The folders' numbers of files are noted after a change.
NoteCounts == since' = [d \in Subfolders |-> since[d] \cup {Cardinality(In(d)')}]

Replace(m, new) == (inflight \ {m}) \cup {new}

\* Rows that are there again are no longer told gone.
Returned(f, to) == {t \in told : t.row \in {f, to} /\ t.key.at \in {to, Root, "all"}}

Apply(m) ==
    /\ m.status = "sent"
    /\ LET moved == IF m.op = "folder" THEN In(m.target) ELSE {m.target}
           possible == IF m.op = "folder" THEN TRUE ELSE place[m.target] \notin {"gone", m.to} IN
       \/ /\ possible
          /\ place' = [f \in Files |-> IF f \in moved THEN m.to ELSE place[f]]
          /\ told' = told \ Returned(m.target, m.to)
          /\ inflight' = Replace(m, [m EXCEPT !.status = "done"])
          /\ UNCHANGED detours
       \/ /\ ~possible
          /\ inflight' = Replace(m, [m EXCEPT !.status = "refused"])
          /\ UNCHANGED <<place, told, detours>>
       \/ /\ possible /\ detours < MaxDetours
          /\ inflight' = Replace(m, [m EXCEPT !.status = "refused"])
          /\ detours' = detours + 1
          /\ UNCHANGED <<place, told>>
    /\ NoteCounts
    /\ UNCHANGED <<route, cache, dialog, missed, ops>>

\* The reply to an operation that was done is lost.
ReplyLost(m) ==
    /\ m.status = "done" /\ detours < MaxDetours
    /\ inflight' = Replace(m, [m EXCEPT !.status = "refused"])
    /\ detours' = detours + 1
    /\ UNCHANGED <<place, route, cache, dialog, history, ops>>

\* The listings a row left by what the user did there.
Left(m) ==
    CASE m.op = "folder" -> {[key |-> DirectoryKey(Root), row |-> m.target]}
      [] m.op = "move" /\ m.origin.page = "browse" ->
            {[key |-> DirectoryKey(m.origin.at), row |-> m.target]}
      [] m.op = "delete" /\ m.origin.page # "file" ->
            {[key |-> PageKey(m.origin), row |-> m.target]}
      [] m.op = "delete" /\ m.origin.page = "file" ->
            {[key |-> k, row |-> m.target] : k \in {FilesKey} \cup {DirectoryKey(d) : d \in m.parent}}
      [] OTHER -> {}

\* onSuccess: the queries are invalidated, the dialog of this kind is closed if
\* its component is still there; the file page goes to the parent folder, even
\* when the user has left it.
onSuccess(m) ==
    /\ m.status = "done"
    /\ LET c == Invalidate(m.keys)
           navigates == m.op = "delete" /\ m.origin.page = "file"
           closes == m.home # "none" /\ dialog.kind = m.op IN
       \/ /\ navigates
          /\ \E d \in m.parent :
                Commit(Browse(d), Mount(c, {DirectoryKey(d)}, FALSE), dialog, inflight \ {m})
       \/ /\ ~navigates
          /\ Commit(route, c, IF closes THEN NoDialog ELSE dialog, inflight \ {m})
    /\ told' = told \cup {t \in Left(m) : t.row \notin Read(t.key)}
    /\ missed' = missed \cup (IF m.strayed THEN {t.key : t \in Left(m)} ELSE {})
                     \cup {k \in m.keys : cache[k].fetch # "none" /\
                                       (k \notin Active \/ ~cache[k].loaded)}
    /\ UNCHANGED <<place, since, bounds>>

\* onError: an alert in the dialog, nothing else.
onError(m) ==
    /\ m.status = "refused"
    /\ inflight' = inflight \ {m}
    /\ UNCHANGED <<place, route, cache, dialog, history, bounds>>

\* Another client deletes or moves a file.
OthersChange ==
    /\ detours < MaxDetours
    /\ \E f \in Files, to \in Folders \cup {"gone"} :
          /\ place[f] \notin {"gone", to}
          /\ place' = [place EXCEPT ![f] = to]
          /\ told' = told \ Returned(f, to)
    /\ detours' = detours + 1
    /\ NoteCounts
    /\ UNCHANGED <<route, cache, dialog, inflight, missed, ops>>

Fetch(k) == FetchReads(k) \/ FetchArrives(k)
Settle == \E m \in inflight : onSuccess(m) \/ onError(m)

Next ==
    \/ \E k \in Keys : Fetch(k) \/ FetchFails(k) \/ PollPatches(k)
    \/ Scroll
    \/ \E r \in Routes : Visit(r)
    \/ OpenFromTable \/ OpenFromPage \/ Cancel \/ Confirm
    \/ \E m \in inflight : Apply(m) \/ ReplyLost(m)
    \/ Settle
    \/ OthersChange

Spec == Init /\ [][Next]_vars

-----------------------------------------------------------------------------
(* Properties.                                                              *)

TypeOK ==
    /\ place \in [Files -> Folders \cup {"gone"}]
    /\ route \in Routes
    /\ \A k \in Keys :
          /\ cache[k].fetch \in {"none", "asked", "read"}
          /\ cache[k].fetch # "none" => cache[k].got = {} \/ cache[k].fetch = "read"
          /\ cache[k].invalidated => cache[k].loaded
    /\ dialog.kind \in {"none", "delete", "move", "folder"}
    /\ \A m \in inflight : m.keys \subseteq Keys /\ m.home \in {"none", route.page}
    /\ told \subseteq [key : Keys, row : Files \cup Subfolders]

\* A row whose deletion or move succeeded is not in the listing it was started
\* from once that is up to date as far as the cache knows.  Until the listing is
\* next read in full this may fail where the invalidation came to nothing: a
\* fetch with no data yet, or for a page already left, went on; the user scrolled
\* on while the listing was fetched again; a poll's reply made the old rows
\* current; or the user had gone to another folder's listing, and that one was
\* invalidated (FileTable.tsx:70, DirectoryList.tsx:66).
ToldIsGone ==
    \A t \in told : LET e == cache[t.key] IN
        e.loaded /\ e.fetch = "none" /\ ~e.invalidated /\ ~e.error
            => t.row \notin e.data \/ t.key \in missed

\* A mutation that is mounted and was not cancelled has its own dialog before it.
DialogIsOwn ==
    \A m \in inflight : m.home # "none" /\ ~m.cancelled
        => dialog.kind = m.op /\ dialog.target = m.target

\* When a reply arrives, the dialog it closes or shows its error in is the one it
\* was confirmed in, unless the user cancelled that one (FileTable.tsx:74, 96).
\* The exception: a deletion confirmed on a file's page the user has left goes to
\* the parent folder and takes whatever is open with it (file.$id.tsx:51).
Closes(m) == dialog # NoDialog /\ dialog' = NoDialog /\ onSuccess(m)
Alerts(m) == m.home # "none" /\ dialog.kind = m.op /\ onError(m)
FromPageLeft(m) == m.op = "delete" /\ m.origin.page = "file" /\ m.home = "none"
Reached ==
    \A m \in inflight : Closes(m) \/ Alerts(m) =>
       \/ dialog.kind = m.op /\ dialog.target = m.target
       \/ m.cancelled \/ FromPageLeft(m)
RepliesReachTheirDialog == [][Reached]_vars

\* Once the number of files in a folder's dialog is not being fetched again, it is
\* one the folder has had since the dialog was opened, not a cached one of an
\* earlier visit (DirectoryList.tsx:58).  A fetch that an earlier opening left
\* under way is joined, and counts from that opening on.
CountIsOfThisOpening ==
    Counted(dialog) = "shown" /\ cache[StatsKey(dialog.target)].fetch = "none"
        => cache[StatsKey(dialog.target)].data \subseteq since[dialog.target]

\* "True while the folder-contents stats fetch is in flight"
\* (DeleteFolderConfirmation.tsx:7), and then the button is disabled: a folder's
\* deletion is not confirmed while its contents are being counted.
ConfirmWaitsForCount ==
    [][Confirm /\ dialog.kind = "folder" => cache[StatsKey(dialog.target)].fetch = "none"]_vars

\* "Query keys invalidated after a delete succeeds - each caller owns its list
\* query" (FileTable.tsx): the listing a row was deleted from is among them.
DeleteInvalidatesItsListing ==
    [][\A m \in inflight : onSuccess(m) => \A t \in Left(m) : t.key \in m.keys]_vars
=============================================================================
