---------------------------- MODULE ListRequests ----------------------------
(***************************************************************************)
(* What a listing request goes through between the URL and the search      *)
(* service: the filters a route reads from its search parameters, the      *)
(* input the browser sends to the web server, the web server's validator,  *)
(* the wire message it builds, and the checks of the search service.       *)
(*                                                                         *)
(* A JavaScript object is a function whose domain is the set of its fields *)
(* that are not undefined.  Texts and MIME filters are strings, paths and  *)
(* keys the sequences that split('/') makes of them: "docs/" is            *)
(* <<"docs", "">>, "docs" is <<"docs">>, "" is <<"">>.  NotAString stands  *)
(* for what a URL parameter may also parse to (a number, a list).          *)
(***************************************************************************)
EXTENDS Naturals, SequencesExt

CONSTANTS
    Text,       \* what search boxes and query parameters may hold
    Type,       \* content type filters
    Name,       \* path segments, "" among them
    trimStart,  \* a name without its leading blanks
    trimEnd,    \* a name without its trailing blanks
    NotAString,
    InvalidPath

Path == Seq(STRING)
Root == <<"">>

ASSUME RequestAssumption ==
    /\ "" \in Text /\ "" \in Type /\ "image/" \in Type /\ "" \in Name
    /\ Name \subseteq STRING
    /\ trimStart \in [Name -> Name] /\ trimEnd \in [Name -> Name]
    /\ InvalidPath \notin Path

----------------------------------------------------------------------------
(* Paths. *)

endsWithSlash(path) == Len(path) > 1 /\ Last(path) = ""
Slashed(path) == IF endsWithSlash(path) THEN path ELSE Append(path, "")
hasDotDotSegment(path) == \E i \in DOMAIN path : path[i] = ".."

\* path + name, of a name without a slash.
Concat(path, name) == Append(Front(path), Last(path) \o name)

\* The search service's reading of a browse path.
normalizeDirPath(path) ==
    IF path = Root THEN Root
    ELSE IF hasDotDotSegment(path) THEN InvalidPath
    ELSE Slashed(IF Len(path) > 1 /\ path[1] = "" THEN Tail(path) ELSE path)

----------------------------------------------------------------------------
(* The wire messages. *)

SortField == {"UNSPECIFIED", "KEY", "LAST_MODIFIED", "SIZE", "TAKEN_AT"}
SortOrder == {"UNSPECIFIED", "ASC", "DESC"}
ListPhase == {"UNSPECIFIED", "DIRECTORIES", "FILES"}

\* A token names the query it was issued for.  The row it stopped at is left
\* to SearchPages; here it only says that there is one.
PageToken ==
    [sortField : SortField, sortOrder : SortOrder, query : Text, contentType : Type,
     path : Path, phase : ListPhase]
NoToken == [phase |-> "none"]

ListFilesRequest ==
    [pageSize : Nat, pageToken : PageToken \cup {NoToken}, query : Text,
     contentType : Type, sortField : SortField, sortOrder : SortOrder]
ListDirectoryRequest ==
    [path : Path, pageSize : Nat, pageToken : PageToken \cup {NoToken},
     sortField : SortField, sortOrder : SortOrder]
SearchDirectoriesRequest ==
    [query : Text, pageSize : Nat, pageToken : PageToken \cup {NoToken}]
Request == ListFilesRequest \cup ListDirectoryRequest \cup SearchDirectoriesRequest

\* A response, with its rows reduced to whether there are any.
ListFilesResponse == [files : BOOLEAN, nextPageToken : PageToken \cup {NoToken}]
ListDirectoryResponse ==
    [directories : BOOLEAN, files : BOOLEAN, nextPageToken : PageToken \cup {NoToken}]
SearchDirectoriesResponse ==
    [directories : BOOLEAN, nextPageToken : PageToken \cup {NoToken}]
Refused == [error |-> "INVALID_ARGUMENT"]

----------------------------------------------------------------------------
(* The filters of a route. *)

SORT_FIELDS == {"key", "lastModified", "size", "takenAt"}
SORT_ORDERS == {"asc", "desc"}

BrowseFilters == [path : Path, sort : SORT_FIELDS, order : SORT_ORDERS]
SearchFilters == [query : Text, type : Type, sort : SORT_FIELDS, order : SORT_ORDERS]
ListFilters == [sort : SORT_FIELDS, order : SORT_ORDERS]

DEFAULT_BROWSE_FILTERS == [path |-> Root, sort |-> "key", order |-> "asc"]
DEFAULT_SEARCH_FILTERS == [query |-> "", type |-> "", sort |-> "key", order |-> "asc"]
DEFAULT_LIST_FILTERS == [sort |-> "lastModified", order |-> "desc"]

\* A parameter of a URL, when it is there and of the set asked for.
Param(search, name, legal, default) ==
    IF name \in DOMAIN search /\ search[name] \in legal THEN search[name] ELSE default
AString(search, name, default) ==
    IF name \in DOMAIN search /\ search[name] # NotAString THEN search[name] ELSE default

parseSort(search) == Param(search, "sort", SORT_FIELDS, DEFAULT_BROWSE_FILTERS.sort)
parseOrder(search) == Param(search, "order", SORT_ORDERS, DEFAULT_BROWSE_FILTERS.order)

normalizeBrowseFilters(search) ==
    [path |-> AString(search, "path", DEFAULT_BROWSE_FILTERS.path),
     sort |-> parseSort(search), order |-> parseOrder(search)]
normalizeSearchFilters(search) ==
    [query |-> AString(search, "query", DEFAULT_SEARCH_FILTERS.query),
     type |-> AString(search, "type", DEFAULT_SEARCH_FILTERS.type),
     sort |-> parseSort(search), order |-> parseOrder(search)]
normalizeListFilters(search) ==
    [sort |-> Param(search, "sort", SORT_FIELDS, DEFAULT_LIST_FILTERS.sort),
     order |-> Param(search, "order", SORT_ORDERS, DEFAULT_LIST_FILTERS.order)]

----------------------------------------------------------------------------
(* The web server: a validator, then the message its handler builds. *)

SORT_FIELD_PB == [key |-> "KEY", lastModified |-> "LAST_MODIFIED", size |-> "SIZE",
                  takenAt |-> "TAKEN_AT"]
SORT_ORDER_PB == [asc |-> "ASC", desc |-> "DESC"]

\* input.field ?? default
Given(input, field, default) == IF field \in DOMAIN input THEN input[field] ELSE default

\* A field that is undefined passes; the validators differ only in the fields
\* they know.
Passes(input, field, legal) == field \in DOMAIN input => input[field] \in legal

validateListFilesInput(input) ==
    /\ Passes(input, "pageSize", Nat \ {0})
    /\ Passes(input, "pageToken", PageToken \cup {NoToken})
    /\ Passes(input, "query", Text)
    /\ Passes(input, "contentType", Type)
    /\ Passes(input, "sortField", SORT_FIELDS)
    /\ Passes(input, "sortOrder", SORT_ORDERS)
validateListDirectoryInput(input) ==
    /\ Passes(input, "path", Path)
    /\ Passes(input, "pageSize", Nat \ {0})
    /\ Passes(input, "pageToken", PageToken \cup {NoToken})
    /\ Passes(input, "sortField", SORT_FIELDS)
    /\ Passes(input, "sortOrder", SORT_ORDERS)
validateSearchDirectoriesInput(input) ==
    /\ Passes(input, "pageSize", Nat \ {0})
    /\ Passes(input, "pageToken", PageToken \cup {NoToken})
    /\ Passes(input, "query", Text)

listFilesImpl(input) ==
    [pageSize |-> Given(input, "pageSize", 0),
     pageToken |-> Given(input, "pageToken", NoToken),
     query |-> Given(input, "query", ""),
     contentType |-> Given(input, "contentType", ""),
     sortField |-> SORT_FIELD_PB[Given(input, "sortField", "key")],
     sortOrder |-> SORT_ORDER_PB[Given(input, "sortOrder", "asc")]]
listDirectoryImpl(input) ==
    [path |-> Given(input, "path", Root),
     pageSize |-> Given(input, "pageSize", 0),
     pageToken |-> Given(input, "pageToken", NoToken),
     sortField |-> SORT_FIELD_PB[Given(input, "sortField", "key")],
     sortOrder |-> SORT_ORDER_PB[Given(input, "sortOrder", "asc")]]
searchDirectoriesImpl(input) ==
    [query |-> Given(input, "query", ""),
     pageSize |-> Given(input, "pageSize", 0),
     pageToken |-> Given(input, "pageToken", NoToken)]

----------------------------------------------------------------------------
(* The search service. *)

normalizeSort(req) ==
    [field |-> IF req.sortField = "UNSPECIFIED" THEN "KEY" ELSE req.sortField,
     order |-> IF req.sortOrder = "UNSPECIFIED" THEN "ASC" ELSE req.sortOrder]

newCursor(sort, query, contentType) ==
    [sortField |-> sort.field, sortOrder |-> sort.order, query |-> query,
     contentType |-> contentType, path |-> Root, phase |-> "UNSPECIFIED"]
newDirCursor(sort, path, phase) ==
    [sortField |-> sort.field, sortOrder |-> sort.order, query |-> "", contentType |-> "",
     path |-> path, phase |-> phase]
newSearchDirsCursor(query) ==
    [sortField |-> "UNSPECIFIED", sortOrder |-> "UNSPECIFIED", query |-> query,
     contentType |-> "", path |-> Root, phase |-> "UNSPECIFIED"]

\* What the service may answer, whatever its tables hold: a refusal, or any
\* page, the last one or one with a token that resumes after it.
ListFiles(req) ==
    LET sort == normalizeSort(req)
        token == req.pageToken
        issued == newCursor(sort, req.query, req.contentType)
    IN  IF token # NoToken /\
           (token.sortField # sort.field \/ token.sortOrder # sort.order \/
            token.query # req.query \/ token.contentType # req.contentType)
        THEN {Refused}
        ELSE {r \in [files : BOOLEAN, nextPageToken : {issued, NoToken}] :
                  r.nextPageToken # NoToken => r.files}

ListDirectory_RawPath(req) ==
    LET sort == normalizeSort(req)
        token == req.pageToken
        path == normalizeDirPath(req.path)
        issued == {newDirCursor(sort, path, phase) : phase \in {"DIRECTORIES", "FILES"}}
    IN  IF \/ path = InvalidPath
           \/ token # NoToken /\
              (token.path # req.path \/ token.sortField # sort.field \/
               token.sortOrder # sort.order)
        THEN {Refused}
        ELSE [directories : BOOLEAN, files : BOOLEAN,
              nextPageToken : issued \cup {NoToken}]

\* Pages of directories come first: a page whose token resumes among the
\* directories holds no file, one that answers a token of the files phase no
\* directory.
ListDirectory(req) ==
    LET sort == normalizeSort(req)
        token == req.pageToken
        path == normalizeDirPath(req.path)
        issued == {newDirCursor(sort, path, phase) : phase \in {"DIRECTORIES", "FILES"}}
    IN  IF \/ path = InvalidPath
           \/ token # NoToken /\
              (token.path # path \/ token.sortField # sort.field \/
               token.sortOrder # sort.order)
        THEN {Refused}
        ELSE {r \in [directories : BOOLEAN, files : BOOLEAN,
                     nextPageToken : issued \cup {NoToken}] :
                 LET inFiles == token # NoToken /\ token.phase = "FILES"
                     next == r.nextPageToken
                 IN  /\ inFiles => ~r.directories /\ (next = NoToken \/ next.phase = "FILES")
                     /\ next # NoToken =>
                            /\ r.directories \/ r.files
                            /\ next.phase = "DIRECTORIES" => r.directories /\ ~r.files}

SearchDirectories(req) ==
    IF req.pageToken # NoToken /\ req.pageToken.query # req.query
    THEN {Refused}
    ELSE {r \in [directories : BOOLEAN,
                 nextPageToken : {newSearchDirsCursor(req.query), NoToken}] :
              r.nextPageToken # NoToken => r.directories}
=============================================================================
