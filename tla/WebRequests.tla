---------------------------- MODULE WebRequests ----------------------------
(***************************************************************************)
(* The browser's side of searching and listing: the header's search box    *)
(* with its debounced dropdown, the routes and their URL filters, and the  *)
(* infinite queries that keep one list of pages per filter combination     *)
(* while replies to earlier filters are still on their way.  Every request *)
(* goes through ListRequests: the web server's validator, the wire, the    *)
(* search service's checks.  The file page shows a file's metadata, and    *)
(* the pages ask the files service (FileRequests) for what concerns single *)
(* files and folders: the paths of the browser, its uploads and its move   *)
(* dialog are modelled to see what those requests name.                    *)
(*                                                                         *)
(* What the pages hold, and what a list shows while rows change, are the   *)
(* subjects of SearchPages and InfiniteList.                               *)
(***************************************************************************)
EXTENDS FileRequests, FileMetadata

CONSTANTS
    Input,      \* what the user may type into the box
    Trim,       \* String.prototype.trim on those
    Links,      \* hand-written URLs: [route, search]
    Categories, \* the content type categories of the index
    Images,     \* tags of the images that may be opened
    Folders,    \* the directories of the index
    Keys,       \* the keys of files that may be opened
    NewNames,   \* what the user may call a new folder
    FileNames,  \* the names of files to upload
    FileTypes,  \* their MIME types, never empty (file.type or a default)
    Parts,      \* the part numbers of files to upload in parts
    MaxDepth,   \* bound: the depth of the folder the move dialog shows
    MaxOps,     \* bound: keystrokes and other acts on the box
    MaxVisits,  \* bound: navigations
    MaxActs,    \* bound: both together
    MaxPages,   \* bound: pages of one list
    MaxFaults   \* bound: calls that fail

ASSUME InputAssumption ==
    /\ Input \subseteq Text /\ "" \in Input
    /\ Trim \in [Input -> Text]
    /\ Trim[""] = ""
    /\ Folders \cup Keys \subseteq Seq(Name) \ {<<>>}
    /\ \A path \in Folders : endsWithSlash(path)
    /\ NewNames \subseteq Name /\ FileNames \subseteq Name \ {"", ".", ".."}
    /\ FileTypes \subseteq STRING \ {""}
    /\ Parts \subseteq Nat \ {0}
    /\ \A tags \in Images : \A f \in DOMAIN tags : tags[f] \in TagValue(f)

\* What a URL may hold in the place of a string, it may also lack.
ASSUME LinksAssumption ==
    \A link \in Links :
        LET MayBe(name, S) == name \in DOMAIN link.search =>
                                  link.search[name] \in S \cup {NotAString}
        IN  /\ link.route \in {"/", "/search", "/recents", "/photos", "/file"}
            /\ MayBe("path", Seq(Name) \ {<<>>})
            /\ MayBe("query", Text) /\ MayBe("type", Type)

VARIABLES
    box,        \* the search box: its text, the debounced query, the timer, the dropdown
    suggestions,\* the cached lookups behind the dropdown, by query key
    loc,        \* the current route and its filters
    lists,      \* the cached infinite queries, by query key
    categories, \* the options of the type filter
    modal,      \* what covers the page: the metadata of an image, or
                \* the move dialog
    refused,    \* what a validator or the service refused
    ops, visits, faults

vars == <<box, suggestions, loc, lists, categories, modal, refused, ops, visits, faults>>

----------------------------------------------------------------------------
(* Routes, query keys and the input each list sends. *)

Route == {"/", "/search", "/recents", "/photos", "/file"}

\* What a route's validateSearch makes of the parameters of a URL.
Filters(route, search) ==
    CASE route = "/" -> normalizeBrowseFilters(search)
      [] route = "/search" -> normalizeSearchFilters(search)
      [] route = "/recents" -> normalizeListFilters(search)
      [] route = "/file" -> [id |-> search.id]
      [] OTHER -> [none |-> TRUE]

\* RECENTS_FILTERS, overridden by the route's own.
FileListFilters(l) ==
    IF l.route = "/recents"
    THEN [query |-> "", type |-> "", sort |-> l.filters.sort, order |-> l.filters.order]
    ELSE l.filters

PAGE_SIZE == 50
PHOTO_PAGE_SIZE == 24
RESULT_LIMIT == 10
FOLDER_RESULT_LIMIT == 5

ListKey_NoOrder(l) ==
    CASE l.route = "/" -> <<"directory", l.filters.path, l.filters.sort>>
      [] l.route = "/photos" -> <<"photos">>
      [] OTHER -> <<"files", FileListFilters(l).query, FileListFilters(l).type,
                    FileListFilters(l).sort>>

ListKey(l) ==
    CASE l.route = "/" -> <<"directory", l.filters.path, l.filters.sort, l.filters.order>>
      [] l.route = "/photos" -> <<"photos">>
      [] OTHER -> <<"files", FileListFilters(l)>>

\* The object handed to listFiles or listDirectory, for the page at a token.
ListInput(l, token) ==
    CASE l.route = "/" ->
            [path |-> l.filters.path, pageSize |-> PAGE_SIZE, pageToken |-> token,
             sortField |-> l.filters.sort, sortOrder |-> l.filters.order]
      [] l.route = "/photos" ->
            [pageSize |-> PHOTO_PAGE_SIZE, pageToken |-> token, query |-> "",
             contentType |-> "image/", sortField |-> "takenAt", sortOrder |-> "desc"]
      [] OTHER ->
            LET f == FileListFilters(l)
            IN  [pageSize |-> PAGE_SIZE, pageToken |-> token, query |-> f.query,
                 contentType |-> f.type, sortField |-> f.sort, sortOrder |-> f.order]

HasList(l) == l.route # "/file"

\* A server function: the validator, the handler, the service.
CallListing(input) ==
    IF "path" \in DOMAIN input
    THEN IF validateListDirectoryInput(input) THEN ListDirectory(listDirectoryImpl(input))
         ELSE {Refused}
    ELSE IF validateListFilesInput(input) THEN ListFiles(listFilesImpl(input))
         ELSE {Refused}
CallSearchDirectories(input) ==
    IF validateSearchDirectoriesInput(input)
    THEN SearchDirectories(searchDirectoriesImpl(input)) ELSE {Refused}

----------------------------------------------------------------------------
(* The infinite query of a list.  `asked` remembers the queries the kept   *)
(* pages answered.  A fetch reads pages one by one: the next one, or, when *)
(* it starts over, as many as are kept, each with the token of the last.   *)

NoCall == [at |-> "none"]
NoEntry == [pages |-> 0, next |-> NoToken, asked |-> {}, call |-> NoCall]
Entry(k) == IF k \in DOMAIN lists THEN lists[k] ELSE NoEntry
SetEntry(k, e) == [key \in DOMAIN lists \cup {k} |-> IF key = k THEN e ELSE lists[key]]

\* A request without its place in the walk.
Query(input) == [f \in DOMAIN input \ {"pageToken", "pageSize"} |-> input[f]]

Asking(l, token, page, upto, asked) ==
    [at |-> l, input |-> ListInput(l, token), page |-> page, upto |-> upto, asked |-> asked]

\* An observer that mounts on a key fetches when there is no data, or the data
\* is stale; a fetch that is under way is joined.
Observe(l) ==
    LET e == Entry(ListKey(l))
        again == [e EXCEPT !.call = Asking(l, NoToken, 1, IF e.pages = 0 THEN 1 ELSE e.pages, {})]
    IN  IF ~HasList(l) THEN lists' = lists
        ELSE IF e.call # NoCall THEN lists' = lists
        ELSE \/ lists' = SetEntry(ListKey(l), again)
             \/ e.pages > 0 /\ lists' = lists

Show(l) == loc' = l /\ Observe(l)

Navigate(route, search) ==
    /\ modal = {} /\ modal' = {}
    /\ visits < MaxVisits /\ visits' = visits + 1
    /\ ops + visits < MaxActs
    /\ Show([route |-> route, filters |-> Filters(route, search)])

\* The sentinel below the list comes into view.
FetchNextPage ==
    LET k == ListKey(loc)
        e == Entry(k)
    IN  /\ HasList(loc)
        /\ e.call = NoCall
        /\ e.next # NoToken
        /\ e.pages < MaxPages
        /\ lists' = SetEntry(k, [e EXCEPT !.call =
                        Asking(loc, e.next, e.pages + 1, e.pages + 1, e.asked)])
        /\ UNCHANGED <<box, suggestions, loc, categories, modal, refused, ops, visits, faults>>

\* A page arrives, for whatever list asked for it.
ListReply(k) ==
    LET e == lists[k]
        c == e.call
        asked == c.asked \cup {Query(c.input)}
    IN  /\ c # NoCall
        /\ UNCHANGED <<box, suggestions, loc, categories, modal, ops, visits, faults>>
        /\ \E r \in CallListing(c.input) :
             IF r = Refused
             THEN /\ refused' = refused \cup {c.input}
                  /\ lists' = SetEntry(k, [e EXCEPT !.call = NoCall])
             ELSE /\ UNCHANGED refused
                  /\ lists' = SetEntry(k,
                       IF c.page < c.upto /\ r.nextPageToken # NoToken
                       THEN [e EXCEPT !.call =
                                Asking(c.at, r.nextPageToken, c.page + 1, c.upto, asked)]
                       ELSE [pages |-> c.page, next |-> r.nextPageToken,
                             asked |-> asked, call |-> NoCall])

ListFails(k) ==
    /\ lists[k].call # NoCall
    /\ faults < MaxFaults
    /\ faults' = faults + 1
    /\ lists' = [lists EXCEPT ![k].call = NoCall]
    /\ UNCHANGED <<box, suggestions, loc, categories, modal, refused, ops, visits>>

\* The categories of the type filter; until they arrive there are none.
listContentTypes ==
    /\ loc.route \in {"/search", "/recents"}
    /\ categories' = Categories
    /\ categories # Categories
    /\ UNCHANGED <<box, suggestions, loc, lists, modal, refused, ops, visits, faults>>

----------------------------------------------------------------------------
(* The search box and its dropdown. *)

Lookup == {"files", "folders"}

\* What a lookup asks the web server for.
LookupInput(kind, text) ==
    IF kind = "files"
    THEN [query |-> text, pageSize |-> RESULT_LIMIT, sortField |-> "key", sortOrder |-> "asc"]
    ELSE [query |-> text, pageSize |-> FOLDER_RESULT_LIMIT]

SuggestionKey(kind, text) == <<kind, text>>

\* One cached lookup: the text its data answers, whether that has rows, and
\* the text of the call under way.
NoData == "no data"
NoSuggestion == [of |-> NoData, rows |-> FALSE, fetching |-> NoData]
Suggestion(kind, text) ==
    LET k == SuggestionKey(kind, text)
    IN  IF k \in DOMAIN suggestions THEN suggestions[k] ELSE NoSuggestion

isFetching(text) == \E kind \in Lookup : Suggestion(kind, text).fetching # NoData

\* The dropdown's rows of one kind, and its "No matches" line.
Rows(kind) == box.open /\ box.query # "" /\ Suggestion(kind, box.query).rows
NoMatches ==
    /\ box.open /\ box.query # "" /\ ~isFetching(box.query)
    /\ \A kind \in Lookup : ~Suggestion(kind, box.query).rows

\* The query of the two lookups changes: each fetches, its data being stale at
\* once, unless it is fetching already.
setQuery(text) ==
    LET keys == {SuggestionKey(kind, text) : kind \in Lookup}
        kindOf(k) == k[1]
    IN  suggestions' =
          IF text = box.query \/ text = "" THEN suggestions
          ELSE [k \in DOMAIN suggestions \cup keys |->
                  IF k \in keys /\ Suggestion(kindOf(k), text).fetching = NoData
                  THEN [Suggestion(kindOf(k), text) EXCEPT !.fetching = text]
                  ELSE suggestions[k]]

\* While the metadata dialog is open, it is all the user can act on.
UserActs == modal = {} /\ ops + visits < MaxActs /\ ops < MaxOps /\ ops' = ops + 1

\* onChange: the effect on the text clears the last timer and sets a new one.
TypeText_KeepsTimer(t) ==
    /\ UserActs
    /\ t # box.input
    /\ box' = [box EXCEPT !.input = t, !.open = TRUE]
    /\ UNCHANGED <<suggestions, loc, lists, categories, modal, refused, visits, faults>>
TypeText(t) ==
    /\ UserActs
    /\ t # box.input
    /\ box' = [box EXCEPT !.input = t, !.open = TRUE, !.timer = TRUE]
    /\ UNCHANGED <<suggestions, loc, lists, categories, modal, refused, visits, faults>>

\* The debounce runs out.
Debounce ==
    /\ box.timer
    /\ UNCHANGED <<loc, lists, categories, modal, refused, ops, visits, faults>>
    /\ box' = [box EXCEPT !.query = Trim[box.input], !.timer = FALSE]
    /\ setQuery(Trim[box.input])

\* Focus opens the dropdown, Escape and leaving the box close it.
ToggleDropdown ==
    /\ UserActs
    /\ box' = [box EXCEPT !.open = ~box.open]
    /\ UNCHANGED <<suggestions, loc, lists, categories, modal, refused, visits, faults>>

\* Enter goes to the results page, with the text itself and not the query.
PressEnter ==
    /\ Trim[box.input] # ""
    /\ box' = [box EXCEPT !.open = FALSE]
    /\ Navigate("/search", [DEFAULT_SEARCH_FILTERS EXCEPT !.query = Trim[box.input]])
    /\ UNCHANGED <<suggestions, categories, refused, ops, faults>>

\* Picking a row empties the box; if it held text, its effect sets a timer.
ClearBox == [input |-> "", query |-> "", open |-> FALSE,
             timer |-> box.timer \/ box.input # ""]
HandleSelect ==
    /\ Rows("files")
    /\ box' = ClearBox
    /\ \E id \in Id : Canonical(id) /\ Navigate("/file", [id |-> id])
    /\ UNCHANGED <<suggestions, categories, refused, ops, faults>>
HandleSelectFolder(path) ==
    /\ Rows("folders")
    /\ box' = ClearBox
    /\ Navigate("/", [DEFAULT_BROWSE_FILTERS EXCEPT !.path = path])
    /\ UNCHANGED <<suggestions, categories, refused, ops, faults>>

SuggestionReply(k) ==
    LET s == suggestions[k]
        input == LookupInput(k[1], s.fetching)
        found(r) == IF k[1] = "files" THEN r.files ELSE r.directories
    IN  /\ s.fetching # NoData
        /\ UNCHANGED <<box, loc, lists, categories, modal, ops, visits, faults>>
        /\ \E r \in IF k[1] = "files" THEN CallListing(input) ELSE CallSearchDirectories(input) :
             IF r = Refused
             THEN /\ refused' = refused \cup {input}
                  /\ suggestions' = [suggestions EXCEPT ![k].fetching = NoData]
             ELSE /\ UNCHANGED refused
                  /\ suggestions' = [suggestions EXCEPT ![k] =
                        [of |-> s.fetching, rows |-> found(r), fetching |-> NoData]]

SuggestionFails(k) ==
    /\ suggestions[k].fetching # NoData
    /\ faults < MaxFaults
    /\ faults' = faults + 1
    /\ suggestions' = [suggestions EXCEPT ![k].fetching = NoData]
    /\ UNCHANGED <<box, loc, lists, categories, modal, refused, ops, visits>>

----------------------------------------------------------------------------
(* The header's links, hand-written URLs, the filters and the file page. *)

OpenLink(link) ==
    /\ Navigate(link.route, link.search)
    /\ UNCHANGED <<box, suggestions, categories, refused, ops, faults>>

\* The options of the type filter: the categories, and the filter in force.
optionValues == {"", loc.filters.type} \cup categories

SetType(type) ==
    /\ loc.route = "/search"
    /\ type \in optionValues \ {loc.filters.type}
    /\ Navigate("/search", [loc.filters EXCEPT !.type = type])
    /\ UNCHANGED <<box, suggestions, categories, refused, ops, faults>>

\* A file of the list, or of the photo wall, is opened.
OpenFile ==
    /\ HasList(loc)
    /\ Entry(ListKey(loc)).pages > 0
    /\ \E id \in Id : Canonical(id) /\ Navigate("/file", [id |-> id])
    /\ UNCHANGED <<box, suggestions, categories, refused, ops, faults>>

\* The dialog depends on nothing else here: it is only looked at on a page
\* opened by its link, before the user does anything else.
ShowMetadata(image) ==
    /\ loc.route = "/file"
    /\ ops = 0 /\ visits = 0
    /\ modal = {}
    /\ modal' = {[image |-> image, lines |-> Lines(image)]}
    /\ UNCHANGED <<box, suggestions, loc, lists, categories, refused, ops, visits, faults>>
CloseMetadata ==
    /\ modal # {}
    /\ modal' = {}
    /\ UNCHANGED <<box, suggestions, loc, lists, categories, refused, ops, visits, faults>>

----------------------------------------------------------------------------
(* Walking the folders.  Bound: nobody uses the search box before or after *)
(* a walk, or follows a link after it.                                     *)

Walk(route, search) ==
    /\ box.input = "" /\ ~box.open /\ suggestions = <<>> /\ faults = 0
    /\ \A k \in DOMAIN lists : lists[k].call = NoCall
    /\ modal = {}
    /\ visits < MaxVisits /\ visits' = visits + 1
    /\ ops' = MaxOps
    /\ Show([route |-> route, filters |-> Filters(route, search)])
    /\ UNCHANGED <<box, suggestions, categories, modal, refused, faults>>

DirectoryOf(key) == Append(Front(key), "")
Ancestors(segments, upto) == {Root} \cup {Append(SubSeq(segments, 1, i), "") : i \in 1 .. upto}

\* The segments a breadcrumb shows, and the paths it leads to.
Segments(path) == IF endsWithSlash(path) THEN Front(path) ELSE path
Breadcrumbs(path, lastIsCurrent) ==
    IF path = Root THEN {Root}
    ELSE Ancestors(Segments(path), Len(Segments(path)) - IF lastIsCurrent THEN 1 ELSE 0)

\* The child directories a listing of a path returns.
ChildDirectories(path) ==
    LET dir == normalizeDirPath(path)
    IN  IF dir = InvalidPath THEN {}
        ELSE {d \in Folders : Len(d) = Len(dir) + 1 /\ IsPrefix(Front(dir), d)}

Browsing == loc.route = "/" /\ Entry(ListKey(loc)).pages > 0

handleNavigate(path) ==
    /\ loc.route = "/"
    /\ Walk("/", [loc.filters EXCEPT !.path = path])

OpenFolder ==
    /\ Browsing
    /\ \E path \in ChildDirectories(loc.filters.path) : handleNavigate(path)
ClickBreadcrumb ==
    /\ loc.route = "/"
    /\ \E path \in Breadcrumbs(loc.filters.path, TRUE) : handleNavigate(path)
handleNewFolder(name) ==
    /\ loc.route = "/"
    /\ name # ""
    /\ handleNavigate(Append(Concat(loc.filters.path, name), ""))

\* The breadcrumb of the file page, once the file has loaded.
LeaveFilePage(key) ==
    /\ loc.route = "/file"
    /\ \E path \in Breadcrumbs(DirectoryOf(key), FALSE) :
          Walk("/", [DEFAULT_BROWSE_FILTERS EXCEPT !.path = path])

\* The move dialog: it opens on the folder of the file, and walks from there.
Others == <<box, suggestions, loc, lists, categories, refused, ops, visits, faults>>

OpenMoveDialog(key) ==
    /\ loc.route = "/file" /\ Canonical(loc.filters.id)
    /\ ops = 0 /\ visits = 0
    /\ modal = {}
    /\ modal' = {[id |-> loc.filters.id, key |-> key, viewPath |-> DirectoryOf(key)]}
    /\ UNCHANGED Others

MoveDialogs == {m \in modal : "viewPath" \in DOMAIN m}
navigateTo(path) ==
    /\ Len(path) <= MaxDepth
    /\ modal' = {[m EXCEPT !.viewPath = path] : m \in modal}
    /\ UNCHANGED Others

WalkInDialog ==
    \E m \in MoveDialogs :
        LET segments == NonEmptySegments(m.viewPath)
        IN  \E path \in ChildDirectories(m.viewPath)
                          \cup Ancestors(segments, Len(segments) - 1) : navigateTo(path)
handleNewFolderSubmit(typed) ==
    LET name == trimEnd[trimStart[typed]]
        prefix(path) == IF path = Root THEN Root ELSE Slashed(path)
    IN  \E m \in MoveDialogs :
            /\ name \notin {"", ".", ".."}
            /\ navigateTo(Append(Concat(prefix(m.viewPath), name), ""))

----------------------------------------------------------------------------
(* The calls to the files service that the page may make as it stands.     *)
(* They change nothing that is modelled here.  `key` is that of the file a *)
(* move is about, `shown` the path the user sees when asking.              *)

Asked(fn, data, key, shown) == [fn |-> fn, data |-> data, key |-> key, shown |-> shown]

\* The page of a file; its buttons appear once the metadata has been found.
CallsOfFilePage ==
    IF loc.route # "/file" THEN {}
    ELSE LET id == loc.filters.id
             found == \E o \in Call("getFileMetadata", [id |-> id], Root) : ~o.thrown
         IN  {Asked(fn, [id |-> id], Root, Root) :
                fn \in {"getFileMetadata", "getOpenUrl"} \cup
                       (IF found THEN {"getDownloadUrl", "deleteFile"} ELSE {})}

\* The rows of a list: their menus, and the poll for their previews.
CallsOfRows ==
    IF ~HasList(loc) \/ Entry(ListKey(loc)).pages = 0 THEN {}
    ELSE UNION {{Asked("getDownloadUrl", [id |-> id], Root, Root),
                 Asked("deleteFile", [id |-> id], Root, Root),
                 Asked("getFilePreviewStatuses", [ids |-> <<id>>], Root, Root)} :
                    id \in {id \in Id : Canonical(id)}}

\* A folder to delete: its statistics, then the deletion.
CallsOfFolders ==
    IF ~Browsing THEN {}
    ELSE {Asked(fn, [path |-> path], Root, loc.filters.path) :
            fn \in {"getDirectoryStats", "deleteDirectory"},
            path \in ChildDirectories(loc.filters.path)}

\* A file goes to the folder of the path, in one piece or in parts.
UploadTo(path, name) ==
    LET key == Concat(normalizeUploadPath(path), name)
    IN  {Asked(fn, [key |-> key], Root, path) : fn \in {"getUploadUrl", "commitUpload"}}
        \cup {Asked("createMultipartUpload", [key |-> key, contentType |-> type], Root, path) :
                type \in FileTypes}
        \cup {Asked("getUploadPartUrl", [key |-> key, uploadId |-> id, partNumber |-> n],
                    Root, path) :
                id \in UploadId, n \in Parts}
        \cup {Asked(fn, [key |-> key, uploadId |-> id], Root, path) :
                id \in UploadId,
                fn \in {"listUploadedParts", "completeMultipartUpload", "abortMultipartUpload"}}
CallsOfUpload ==
    IF loc.route # "/" THEN {}
    ELSE UNION {UploadTo(loc.filters.path, name) : name \in FileNames}

\* "Move here", which is off while the destination is where the file is.
CallsOfDialog ==
    {Asked("moveFile", [id |-> m.id, destinationKey |-> Concat(m.viewPath, Last(m.key))],
           m.key, m.viewPath) :
        m \in {m \in MoveDialogs : Concat(m.viewPath, Last(m.key)) # m.key}}

FileCalls ==
    CallsOfFilePage \cup CallsOfRows \cup CallsOfFolders \cup CallsOfUpload \cup CallsOfDialog

----------------------------------------------------------------------------

Init ==
    /\ box = [input |-> "", query |-> "", timer |-> TRUE, open |-> FALSE]
    /\ suggestions = <<>>
    /\ loc = [route |-> "/file", filters |-> [id |-> CHOOSE id \in Id : Canonical(id)]]
    /\ lists = <<>>
    /\ categories = {}
    /\ modal = {}
    /\ refused = {}
    /\ ops = 0 /\ visits = 0 /\ faults = 0

LookupEnds == \E k \in DOMAIN suggestions : SuggestionReply(k) \/ SuggestionFails(k)
Replies ==
    \/ \E k \in DOMAIN lists : ListReply(k) \/ ListFails(k)
    \/ LookupEnds
    \/ listContentTypes

Next ==
    \/ \E t \in Input : TypeText(t)
    \/ Debounce
    \/ ToggleDropdown
    \/ PressEnter
    \/ HandleSelect
    \/ \E p \in Folders : HandleSelectFolder(p)
    \/ \E link \in Links : OpenLink(link)
    \/ \E type \in Type : SetType(type)
    \/ OpenFile
    \/ \E image \in Images : ShowMetadata(image)
    \/ CloseMetadata
    \/ OpenFolder
    \/ ClickBreadcrumb
    \/ \E name \in NewNames : handleNewFolder(name)
    \/ \E key \in Keys : LeaveFilePage(key)
    \/ \E key \in Keys : OpenMoveDialog(key)
    \/ WalkInDialog
    \/ \E name \in NewNames : handleNewFolderSubmit(name)
    \/ FetchNextPage
    \/ Replies

Spec == Init /\ [][Next]_vars

\* The timer fires, and a lookup ends, with an answer or an error.  One
\* fairness condition for both is enough, as neither goes on for ever.
FairSpec == Spec /\ WF_vars(Debounce \/ LookupEnds)

----------------------------------------------------------------------------
(* Properties. *)

TypeOK ==
    /\ box \in [input : Input, query : Text, timer : BOOLEAN, open : BOOLEAN]
    /\ loc \in [route : Route, filters : BrowseFilters \cup SearchFilters \cup ListFilters
                                            \cup [id : Id] \cup [none : {TRUE}]]
    /\ \A k \in DOMAIN lists :
          LET e == lists[k]
          IN  /\ e.pages \in 0 .. MaxPages
              /\ e.next \in PageToken \cup {NoToken}
              /\ e.call # NoCall =>
                    IF "path" \in DOMAIN e.call.input
                    THEN listDirectoryImpl(e.call.input) \in ListDirectoryRequest
                    ELSE listFilesImpl(e.call.input) \in ListFilesRequest
    /\ \A k \in DOMAIN suggestions :
          suggestions[k] \in [of : Text \cup {NoData}, rows : BOOLEAN,
                              fetching : Text \cup {NoData}]
    /\ categories \in {{}, Categories}
    /\ ops \in 0 .. MaxOps
    /\ visits \in 0 .. MaxVisits
    /\ faults \in 0 .. MaxFaults

\* No request the user can bring about is refused, by the web server's
\* validators, the wire, the search service or the files service: whatever a
\* URL holds is normalised before it is sent, a page token is only ever sent
\* back with the arguments it was issued for, although pages of the filters
\* before arrive after the filters have changed, and the keys and paths the
\* pages put together are ones the services take.  Refused are what names
\* another directory ("..") or the reserved one, a folder whose path starts
\* with a slash, an id that is not one or is not spelled like one, the part
\* after the ten thousandth, a move to the root of an object whose key ends in
\* a slash (it has no name there), and a move to where the service has a file
\* of that name.  Whatever is asked for may also be gone.  The key in the move
\* dialog is taken for the one the service has: nobody else has moved the file.
Unacceptable(path) == hasDotDotSegment(path) \/ Reserved(path)
BeyondLast(part) == part > 10000
Gone(reply) == reply = NotFound \/ ("urls" \in DOMAIN reply /\ reply.urls = {})
NeverRefused ==
    /\ \A input \in refused : "path" \in DOMAIN input /\ hasDotDotSegment(input.path)
    /\ \A c \in FileCalls : \A o \in Call(c.fn, c.data, c.key) :
          LET d == c.data
          IN  o.thrown =>
                \/ Gone(o.reply)
                \/ "id" \in DOMAIN d /\ ~Canonical(d.id)
                \/ "key" \in DOMAIN d /\ Unacceptable(d.key)
                \/ "path" \in DOMAIN d /\ (Unacceptable(d.path) \/ Absolute(d.path))
                \/ "destinationKey" \in DOMAIN d /\
                      \/ Reserved(d.destinationKey)
                      \/ d.destinationKey = Root
                      \/ o.reply = AlreadyExists
                \/ "partNumber" \in DOMAIN d /\ BeyondLast(d.partNumber)

\* What is on the screen answers what is asked for now: the pages of the list
\* were all read for the filters of the current URL, the rows of the dropdown
\* for the query in the box, and "No matches" is only shown when both lookups
\* of that query found nothing, or a call has failed.  And what is asked for
\* is what is on the screen: an upload lands in the directory that the page
\* lists, unless its path has blanks around it or an empty segment, and a move
\* in the one that the dialog lists, unless its path starts with a slash.
Untidy(path) == trim(path) # path \/ \E i \in 1 .. Len(path) - 1 : path[i] = ""
ShownIsWhatWasAsked ==
    /\ HasList(loc) =>
          Entry(ListKey(loc)).asked \subseteq {Query(ListInput(loc, NoToken))}
    /\ \A kind \in Lookup : Rows(kind) => Suggestion(kind, box.query).of = box.query
    /\ NoMatches => faults > 0 \/ \A kind \in Lookup : Suggestion(kind, box.query).of = box.query
    /\ \A c \in CallsOfUpload :
          \/ hasDotDotSegment(c.shown) \/ Untidy(c.shown)
          \/ DirectoryOf(c.data.key) = normalizeDirPath(c.shown)
    /\ \A c \in CallsOfDialog :
          \/ hasDotDotSegment(c.shown) \/ Absolute(c.shown)
          \/ DirectoryOf(c.data.destinationKey) = normalizeDirPath(c.shown)

\* A reading that the exif indexer stored gets a line in the metadata table,
\* and nothing else does.  The exceptions: an altitude of zero, what the GPS
\* block holds beside coordinates that are not there, and the dimensions and
\* the like of an image without an EXIF block.
StoredIsShown ==
    \A m \in {m \in modal : "image" \in DOMAIN m} :
        LET row == IndexExifResult(m.image)
            stored == IF row = NoRow THEN {} ELSE DOMAIN row.values
            noBlock == IF row = NoRow \/ row.hasExif THEN {} ELSE ExifField
            noPlace == IF Coordinates \subseteq stored THEN {} ELSE GPSField
            seaLevel == {f \in stored \cap {"gpsAltitude"} : row.values[f] = "zero"}
        IN  m.lines = stored \ (noBlock \cup noPlace \cup seaLevel)

\* Once the user leaves the box alone, the dropdown's query becomes the text
\* in the box and "Searching..." goes away, whatever was typed and picked in
\* between and however the replies come in.
SearchSettles == <>[](box.query = Trim[box.input] /\ ~isFetching(box.query))

----------------------------------------------------------------------------
(* What the repository says and the program does not do. *)

\* exif.go: an altitude of 0 "legitimately means sea level", so it is stored;
\* the table gives no line to it.
SeaLevelIsShown ==
    \A m \in {m \in modal : "image" \in DOMAIN m} :
        LET row == IndexExifResult(m.image)
        IN  row # NoRow /\ "gpsAltitude" \in DOMAIN row.values /\ row.hasExif
            => "gpsAltitude" \in m.lines
=============================================================================
