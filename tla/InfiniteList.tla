---------------------------- MODULE InfiniteList ----------------------------
(***************************************************************************)
(* The scrolling listings of the web client (FileList, DirectoryList,      *)
(* PhotoWall): an infinite query whose pages are fetched one after the     *)
(* other while files and directories come, go and change their place, rows *)
(* are deleted and files uploaded from the view itself, and calls fail.    *)
(* The query cache (TanStack Query) is external and modelled from how the  *)
(* components use it: a fetch of the next page cancels a refetch under way *)
(* and appends to the pages there were when it began; an invalidation      *)
(* cancels any fetch and reads all pages again, the first excepted, which  *)
(* it lets finish; an error keeps the pages but shows the alert instead.   *)
(***************************************************************************)
EXTENDS SearchPages

CONSTANTS
    Views,          \* which components: "files", "directory", "photos"
    Dirs,           \* child directories that may exist
    Files,          \* file ids
    MaxRank,        \* bound: values of the sort field
    PAGE_SIZE,
    MaxChanges,     \* bound: changes by other clients, the crawler and indexers
    MaxEdits,       \* bound: deletions and uploads by this user
    MaxFaults       \* bound: failed fetches

ASSUME ConstantsAssumption ==
    /\ Views \subseteq {"files", "directory", "photos"}
    /\ Dirs \subseteq Nat \ {0} /\ IsFiniteSet(Dirs)
    /\ Files \subseteq Nat \ {0} /\ IsFiniteSet(Files)
    /\ PAGE_SIZE \in Nat \ {0} /\ MaxRank \in Nat \ {0}

VARIABLES
    view,        \* the component shown
    dirs,        \* server: child directories
    rank,        \* server: sort value of each file, 0 when there is none
    pages,       \* query data
    fetch,       \* the fetch under way
    isError,     \* the last fetch failed
    attached,    \* the observer watches the sentinel that is on the page
    deleting,    \* file whose deletion was confirmed and not yet answered
    gone,        \* files this view deleted, their listings invalidated
    steady,      \* items there, unmoved, since the shown pages were begun
    missed,      \* history: see Missed
    erred,       \* history: the list was replaced by an error
    changes, edits, faults

serverVars == <<dirs, rank>>
clientVars == <<pages, fetch, isError, attached>>
userVars == <<deleting, gone>>
history == <<steady, missed, erred>>
bounds == <<changes, edits, faults>>
vars == <<view, serverVars, clientVars, userVars, history, bounds>>

\* A directory or a file at its place in the order.
Items == [kind : {"dir"}, at : Dirs] \cup [kind : {"file"}, at : Files, rank : 1..MaxRank]
DirItem(d) == [kind |-> "dir", at |-> d]
FileItem(row) == [kind |-> "file", at |-> row.id, rank |-> row.rank]

\* What the view's listing consists of.
ViewDirs == IF view = "directory" THEN dirs ELSE {}
RowOf(f) == [rank |-> rank[f], id |-> f]
Rows == {RowOf(f) : f \in {g \in Files : rank[g] # 0}}
Present == {DirItem(d) : d \in ViewDirs} \cup {FileItem(row) : row \in Rows}

\* What has kept the shown pages from being read again, or an error from being
\* shown, since they were read.
Missed == {"scroll", "poll"}

-----------------------------------------------------------------------------
(* The infinite query.                                                      *)

\* req: how far the server is with the page asked for; got: pages of a
\* refetch so far; want: pages it reads at most; items: see steady.
Idle == [kind |-> "idle", req |-> "none", token |-> NoToken, found |-> <<>>,
         got |-> <<>>, want |-> 0, reply |-> <<>>, items |-> {}]
Ask(kind, token, got, want, items) ==
    [Idle EXCEPT !.kind = kind, !.req = "asked", !.token = token, !.got = got,
                 !.want = want, !.items = items]

\* getNextPageParam: the last page's token.
NextToken(ps) == IF ps = <<>> THEN NoToken ELSE ps[Len(ps)].next
hasNextPage(ps) == NextToken(ps) # NoToken

\* All pages again, from the first.
Refetch(kind) == Ask(kind, NoToken, <<>>, IF pages = <<>> THEN 1 ELSE Len(pages), Present)

ShownFiles(ps) == UNION {{ps[i].files[j].id : j \in DOMAIN ps[i].files} : i \in DOMAIN ps}
ShownDirs(ps) == UNION {{ps[i].dirs[j] : j \in DOMAIN ps[i].dirs} : i \in DOMAIN ps}

\* Whether the sentinel is rendered: not while loading or after an error, and
\* not below an empty photo wall.
SentinelShown(ps, err) ==
    /\ ps # <<>> /\ ~err
    /\ view = "photos" => ShownFiles(ps) # {}

\* The effect that attaches the observer runs again only when one of its
\* dependencies, hasNextPage and isFetchingNextPage, changed.
EffectRuns_OnFetching(ps, f) == (f.kind = "next") # (fetch.kind = "next")
EffectRuns(ps, f) ==
    \/ hasNextPage(ps) # hasNextPage(pages)
    \/ (f.kind = "next") # (fetch.kind = "next")

\* A commit of the component; a sentinel rendered anew is watched only if the
\* effect runs with it.
Render(ps, f, err) ==
    /\ pages' = ps /\ fetch' = f /\ isError' = err
    /\ attached' = (SentinelShown(ps, err) /\ (EffectRuns(ps, f) \/ attached))
    /\ erred' = (erred \/ (err /\ ps # <<>>))

Init ==
    /\ view \in Views
    /\ dirs = Dirs
    /\ rank = [f \in Files |-> IF f % 2 = 0 THEN 1 ELSE MaxRank]
    /\ pages = <<>>
    /\ fetch = Ask("first", NoToken, <<>>, 1, Present)
    /\ isError = FALSE /\ attached = FALSE
    /\ deleting = 0 /\ gone = {}
    /\ steady = {} /\ missed = {} /\ erred = FALSE
    /\ changes = 0 /\ edits = 0 /\ faults = 0

-----------------------------------------------------------------------------
(* One page: listFiles or listDirectory, two statements on the server.      *)

ReadDirectories ==
    /\ fetch.req = "asked"
    /\ LET found == IF fetch.token.phase = "files" THEN <<>>
                    ELSE ListChildDirectories(ViewDirs, fetch.token, PAGE_SIZE)
       IN fetch' = IF DirectoriesFill(found, PAGE_SIZE)
                   THEN [fetch EXCEPT !.req = "answered",
                                      !.reply = <<DirectoriesPage(found, PAGE_SIZE)>>]
                   ELSE [fetch EXCEPT !.req = "files", !.found = found]
    /\ UNCHANGED <<view, serverVars, pages, isError, attached, userVars, history, bounds>>

ReadFiles ==
    /\ fetch.req = "files"
    /\ LET room == PAGE_SIZE - Len(fetch.found) + 1
           found == listFiles(Rows, FilesToken(fetch.token), room)
       IN fetch' = [fetch EXCEPT !.req = "answered",
                       !.reply = <<FilesPage(fetch.found, found, PAGE_SIZE)>>]
    /\ UNCHANGED <<view, serverVars, pages, isError, attached, userVars, history, bounds>>

\* The page is there.  A first page or a next page completes the fetch; a
\* refetch goes on, with the token it was just given, until it has as many
\* pages as before or there are no more.
PageArrives ==
    /\ fetch.req = "answered"
    /\ LET got == Append(fetch.got, fetch.reply[1])
           finished == Len(got) >= fetch.want \/ ~hasNextPage(got) IN
       \/ /\ finished
          /\ Render(got, Idle, FALSE)
          /\ steady' = IF fetch.kind = "next" THEN steady ELSE fetch.items
          /\ missed' = IF fetch.kind = "next" THEN missed ELSE {}
       \/ /\ ~finished
          /\ fetch' = Ask(fetch.kind, NextToken(got), got, fetch.want, fetch.items)
          /\ UNCHANGED <<pages, isError, attached, history>>
    /\ UNCHANGED <<view, serverVars, userVars, bounds>>

\* The call and its retries failed: the pages are kept, the error is shown.
FetchFails ==
    /\ fetch.req = "asked" /\ faults < MaxFaults
    /\ faults' = faults + 1
    /\ Render(pages, Idle, TRUE)
    /\ UNCHANGED <<view, serverVars, userVars, steady, missed, changes, edits>>

\* The sentinel comes into view.  hasNextPage and isFetchingNextPage are looked
\* at, not whether a refetch is under way, which this cancels.
CanFetchNext == hasNextPage(pages) /\ fetch.kind # "next"
Scroll ==
    /\ attached
    /\ CanFetchNext
    /\ Render(pages, Ask("next", NextToken(pages), pages, Len(pages) + 1, {}), isError)
    /\ missed' = IF fetch.kind = "refetch" THEN missed \cup {"scroll"} ELSE missed
    /\ UNCHANGED <<view, serverVars, userVars, steady, bounds>>

\* The connection is back, or the view is mounted again: an errored or stale
\* query is read again.
Reconnect ==
    /\ fetch.kind = "idle" /\ isError
    /\ Render(pages, Refetch(IF pages = <<>> THEN "first" ELSE "refetch"),
              pages # <<>> /\ isError)
    /\ UNCHANGED <<view, serverVars, userVars, steady, missed, bounds>>

\* The status poller's reply to an earlier tick patches rows of the cached pages:
\* to the query that is a success, it clears the error and leaves a fetch under
\* way alone.
PollPatches ==
    /\ pages # <<>> /\ isError
    /\ Render(pages, fetch, FALSE)
    /\ missed' = missed \cup {"poll"}
    /\ UNCHANGED <<view, serverVars, userVars, steady, bounds>>

-----------------------------------------------------------------------------
(* The user's own changes.                                                  *)

\* invalidateQueries for the listing's key.
Invalidate_KeepsFetch == IF fetch.kind = "idle" THEN Refetch("refetch") ELSE fetch
Invalidate == IF pages = <<>> /\ fetch.kind = "first" THEN fetch
              ELSE Refetch(IF pages = <<>> THEN "first" ELSE "refetch")

Drop(item, s) == s \ {item}

\* deleteFile reaches the server; the dialog stays until the answer.
ConfirmDelete ==
    /\ view # "photos" /\ deleting = 0 /\ ~isError /\ edits < MaxEdits
    /\ \E f \in ShownFiles(pages) :
        LET item == FileItem(RowOf(f)) IN
        /\ rank[f] # 0
        /\ deleting' = f
        /\ rank' = [rank EXCEPT ![f] = 0]
        /\ fetch' = [fetch EXCEPT !.items = Drop(item, @)]
        /\ steady' = Drop(item, steady)
    /\ edits' = edits + 1
    /\ UNCHANGED <<view, dirs, pages, isError, attached, gone, missed, erred,
                   changes, faults>>

\* onSuccess: the view's listing is invalidated.
DeleteDone ==
    /\ deleting # 0
    /\ Render(pages, Invalidate, isError)
    /\ gone' = gone \cup {deleting}
    /\ deleting' = 0
    /\ UNCHANGED <<view, serverVars, steady, missed, bounds>>

\* An upload from the directory view: the row, then the invalidation.
UploadDone ==
    /\ view = "directory" /\ edits < MaxEdits
    /\ \E f \in Files, r \in 1..MaxRank :
        /\ rank[f] = 0 /\ f \notin gone /\ f # deleting
        /\ rank' = [rank EXCEPT ![f] = r]
    /\ Render(pages, Invalidate, pages # <<>> /\ isError)
    /\ edits' = edits + 1
    /\ UNCHANGED <<view, dirs, userVars, steady, missed, changes, faults>>

-----------------------------------------------------------------------------
(* Everyone else: other clients, the crawler, the stat and exif indexers.   *)

FileChanges ==
    /\ changes < MaxChanges
    /\ \E f \in Files, r \in 0..MaxRank :
        LET item == FileItem(RowOf(f)) IN
        /\ r # rank[f] /\ f \notin gone /\ f # deleting
        /\ rank' = [rank EXCEPT ![f] = r]
        /\ fetch' = [fetch EXCEPT !.items = Drop(item, @)]
        /\ steady' = Drop(item, steady)
    /\ changes' = changes + 1
    /\ UNCHANGED <<view, dirs, pages, isError, attached, userVars, missed, erred,
                   edits, faults>>

DirectoryChanges ==
    /\ view = "directory" /\ changes < MaxChanges
    /\ \E d \in Dirs :
        LET item == DirItem(d) IN
        /\ dirs' = IF d \in dirs THEN dirs \ {d} ELSE dirs \cup {d}
        /\ fetch' = [fetch EXCEPT !.items = Drop(item, @)]
        /\ steady' = Drop(item, steady)
    /\ changes' = changes + 1
    /\ UNCHANGED <<view, rank, pages, isError, attached, userVars, missed, erred,
                   edits, faults>>

Fetching == ReadDirectories \/ ReadFiles \/ PageArrives

Next ==
    \/ ReadDirectories \/ ReadFiles \/ PageArrives \/ FetchFails
    \/ Scroll \/ Reconnect \/ PollPatches
    \/ ConfirmDelete \/ DeleteDone \/ UploadDone
    \/ FileChanges \/ DirectoryChanges

Spec == Init /\ [][Next]_vars

\* Requests are answered, the user keeps scrolling to the end of the list, and
\* a connection comes back.
FairSpec ==
    /\ Spec
    /\ WF_vars(Fetching) /\ WF_vars(Scroll) /\ WF_vars(Reconnect) /\ WF_vars(DeleteDone)

-----------------------------------------------------------------------------
(* Properties.                                                              *)

\* Values stay in their types and the fetch under way is one the query makes.
TypeOK ==
    /\ view \in Views /\ dirs \subseteq Dirs /\ rank \in [Files -> 0..MaxRank]
    /\ isError \in BOOLEAN /\ attached \in BOOLEAN
    /\ fetch.kind \in {"idle", "first", "refetch", "next"}
    /\ fetch.req \in {"none", "asked", "files", "answered"}
    /\ (fetch.kind = "idle") <=> (fetch.req = "none")
    /\ fetch.kind = "first" => pages = <<>>
    /\ fetch.kind \in {"next", "refetch"} => pages # <<>>
    /\ \A i \in DOMAIN pages : Len(pages[i].dirs) + Len(pages[i].files) <= PAGE_SIZE
    /\ deleting \in Files \cup {0} /\ gone \subseteq Files /\ steady \subseteq Items
    /\ missed \subseteq Missed

\* Rows are in order within a page and from page to page.
OneWalk(ps) ==
    /\ \A i, j \in DOMAIN ps : \A a \in DOMAIN ps[i].dirs, b \in DOMAIN ps[j].dirs :
          i < j \/ (i = j /\ a < b) => ps[i].dirs[a] < ps[j].dirs[b]
    /\ \A i, j \in DOMAIN ps : \A a \in DOMAIN ps[i].files, b \in DOMAIN ps[j].files :
          i < j \/ (i = j /\ a < b) => Before(ps[i].files[a], ps[j].files[b])
    /\ \A i, j \in DOMAIN ps : ps[i].files # <<>> /\ i < j => ps[j].dirs = <<>>

\* The rows on the page are one walk of the listing: directories before files,
\* each ascending, so no directory is listed twice and a file only if its place
\* changed in between.  Pages fetched before and after a deletion, an upload, a
\* change of the sort field or a cancelled refetch never mix two walks.
RowsAreOneWalk == OneWalk(pages)

\* Up to where the walk has come.
Reached(item, t) ==
    CASE t = NoToken -> TRUE
      [] t.phase = "directories" -> item.kind = "dir" /\ item.at <= t.lastDir
      [] t.phase = "files" ->
            \/ item.kind = "dir"
            \/ ~Before([rank |-> t.lastRank, id |-> t.lastId],
                       [rank |-> item.rank, id |-> item.at])

Shown(item, ps) == IF item.kind = "dir" THEN item.at \in ShownDirs(ps)
                   ELSE item.at \in ShownFiles(ps)

\* A directory or file that stayed where it was since the walk began, and that
\* the walk has passed, is on the page: pagination by token skips nothing, not
\* even at the change from directories to files with a page that is exactly
\* full, and whatever was removed or added meanwhile.
NothingSteadyIsSkipped ==
    pages # <<>> => \A item \in steady : Reached(item, NextToken(pages)) => Shown(item, pages)

\* A file deleted from this view has left it once nothing is being fetched and
\* no error is shown, unless, since the pages were last read, the user scrolled
\* while a refetch was under way, which cancels it, or a refetch failed and the
\* status poller's setQueryData took the error away (useFileStatusPoller.ts:49).
DeletedRowLeaves ==
    fetch.kind = "idle" /\ ~isError /\ missed = {} => gone \cap ShownFiles(pages) = {}

\* Query keys are "invalidated after a delete succeeds" (FileTable.tsx:32), so
\* that the list is read again: the same without the exception.
InvalidatedListIsReadAgain ==
    fetch.kind = "idle" /\ ~isError => gone \cap ShownFiles(pages) = {}

\* Scrolling reaches the end of the listing, unless the list was once replaced
\* by an error message.
ScrollReachesEnd == <>[](~hasNextPage(pages) \/ erred)

\* "Infinite scroll: fetch the next page whenever the sentinel below the list
\* becomes visible" (FileList.tsx:70): the same without the exception.
ScrollAlwaysReachesEnd == <>[](~hasNextPage(pages))

=============================================================================
