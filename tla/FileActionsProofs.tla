------------------------- MODULE FileActionsProofs -------------------------
(***************************************************************************)
(* Proofs about FileActions, for any files, folders and number of          *)
(* operations and detours: a deleted or moved row does not come back, a    *)
(* reply reaches the dialog it belongs to, and the number of files shown   *)
(* before a folder is deleted is none of an earlier visit.                 *)
(*                                                                         *)
(* For the first, the invariant follows a row that the user was told is    *)
(* gone: the server no longer has it there, neither what the cache relies  *)
(* on nor what a fetch under way has read holds it, and until a mutation   *)
(* settles, the queries it will invalidate include the listings its row    *)
(* left, unless it strayed.  For the second, a mutation of each kind has   *)
(* at most one mounted component.  For the third, the number of files a    *)
(* folder has now is among those it has had, and so is every number that   *)
(* was read since.                                                         *)
(***************************************************************************)
EXTENDS FileActions, TLAPS

Kind == {"delete", "move", "folder"}
Row == Files \cup Subfolders
Place == Folders \cup {"gone"}
Datum == Row \cup Place \cup {Cardinality(S) : S \in SUBSET Files}

Entry == [loaded : BOOLEAN, data : SUBSET Datum, invalidated : BOOLEAN, error : BOOLEAN,
          fetch : {"none", "asked", "read"}, next : BOOLEAN, got : SUBSET Datum]

Dialog == [kind : Kind, target : Row, from : Place \cup {"none"}]

Mutation == [op : Kind, target : Row, to : Place, origin : Routes,
             home : {"none", "browse", "search", "file"}, keys : SUBSET Keys,
             parent : SUBSET Folders, strayed : BOOLEAN, cancelled : BOOLEAN,
             status : {"sent", "done", "refused"}]

Listing(k) == k.query \in {"files", "directory"}

\* An entry of the cache: what a listing and the metadata of a file hold.
EntryInv(k, e) ==
    /\ e \in Entry
    /\ e.invalidated => e.loaded
    /\ e.fetch = "asked" => e.got = {}
    /\ e.next => Listing(k)
    /\ Listing(k) => e.data \subseteq Row /\ e.got \subseteq Row
    /\ k.query = "file-metadata" =>
          e.data \subseteq Folders /\ (e.got \subseteq Folders \/ e.got = {"gone"})

Cached(c) == c = [k \in Keys |-> c[k]] /\ \A k \in Keys : EntryInv(k, c[k])

TypeInv ==
    /\ place \in [Files -> Place]
    /\ route \in Routes
    /\ Cached(cache)
    /\ dialog \in Dialog \cup {NoDialog}
    /\ inflight \in SUBSET Mutation
    /\ told \in SUBSET [key : Keys, row : Row]

\* The component of a dialog is mounted, and a folder's dialog is of a folder.
DialogInv ==
    /\ dialog # NoDialog => Holds(dialog.kind, route, cache)
    /\ dialog.kind = "folder" => dialog.target \in Subfolders

\* A mutation whose component is mounted is of this page and the only one of
\* its kind; uncancelled, the dialog is its own.
HomeInv ==
    /\ \A m \in inflight : m.home \in {"none", route.page}
    /\ \A m, n \in inflight :
          m.op = n.op /\ m.home # "none" /\ n.home # "none" => m = n
    /\ DialogIsOwn

\* A folder is deleted, not moved, and the queries a mutation invalidates
\* include the listings its row leaves, unless it strayed.
MutationInv(m) ==
    /\ m.op = "folder" => m.to = "gone"
    /\ ~m.strayed => \A t \in Left(m) : t.key \in m.keys

\* The rows the cache relies on: they are current and will not be replaced by
\* what was read, or the next page is being added to them.
Current(e) ==
    \/ e.loaded /\ ~e.invalidated /\ ~ReadInFull(e)
    \/ e.fetch = "asked" /\ e.next

\* A row that is told gone: on the server, on the screen and on the way.
ToldInv(t) ==
    /\ Listing(t.key) /\ t.row \notin Read(t.key)
    /\ t.key \in missed \/
          /\ Current(cache[t.key]) => t.row \notin cache[t.key].data
          /\ cache[t.key].fetch = "read" => t.row \notin cache[t.key].got

\* The number of a folder's files: on the server, on the way, and in its dialog.
Settled(e) == e.loaded /\ e.fetch = "none" /\ ~e.error
CountInv(d) == LET e == cache[StatsKey(d)] IN
    /\ Cardinality(In(d)) \in since[d]
    /\ e.fetch = "read" => e.got \subseteq since[d]
    /\ dialog.kind = "folder" /\ dialog.target = d /\ Settled(e) => e.data \subseteq since[d]

MutationsInv == \A m \in inflight : MutationInv(m)
ToldsInv == \A t \in told : ToldInv(t)
CountsInv == since = [d \in Subfolders |-> since[d]] /\ \A d \in Subfolders : CountInv(d)

Inv == TypeInv /\ DialogInv /\ HomeInv /\ MutationsInv /\ ToldsInv /\ CountsInv

-----------------------------------------------------------------------------
(* Routes, keys and entries.                                                *)

LEMMA RouteKinds ==
    ASSUME NEW r \in Routes
    PROVE  /\ r.page \in {"browse", "search", "file"}
           /\ r.page = "browse" => r.at \in Folders /\ r = Browse(r.at)
           /\ r.page = "file" => r.at \in Files /\ r = FilePage(r.at)
           /\ r.page = "search" => r = Search
  BY DEF Routes, Browse, FilePage, Search

LEMMA PageKeys ==
    ASSUME NEW r \in Routes
    PROVE  /\ PageKey(r) \in Keys
           /\ r.page = "browse" => PageKey(r) = DirectoryKey(r.at)
           /\ r.page = "search" => PageKey(r) = FilesKey
           /\ r.page = "file" => PageKey(r) = MetadataKey(r.at)
           /\ r.page # "file" => Listing(PageKey(r))
<1>1. CASE r.page = "browse"
  <2>1. PageKey(r) = DirectoryKey(r.at)
    BY <1>1 DEF PageKey
  <2> QED
    BY <1>1, <2>1, RouteKinds DEF Keys, DirectoryKey, Listing
<1>2. CASE r.page = "search"
  <2>1. PageKey(r) = FilesKey
    BY <1>2 DEF PageKey
  <2> QED
    BY <1>2, <2>1 DEF Keys, FilesKey, Listing
<1>3. CASE r.page = "file"
  <2>1. PageKey(r) = MetadataKey(r.at)
    BY <1>3 DEF PageKey
  <2> QED
    BY <1>3, <2>1, RouteKinds DEF Keys
<1> QED
  BY <1>1, <1>2, <1>3, RouteKinds

LEMMA KeyKinds ==
    /\ \A d \in Folders : DirectoryKey(d) \in Keys /\ Listing(DirectoryKey(d))
    /\ FilesKey \in Keys /\ Listing(FilesKey)
    /\ \A d \in Folders : DirectoryKey(d).query = "directory" /\ DirectoryKey(d).at = d
    /\ \A f \in Files : MetadataKey(f) \in Keys /\ MetadataKey(f).query = "file-metadata"
    /\ FilesKey.query = "files" /\ FilesKey.at = "all"
  BY DEF Keys, DirectoryKey, FilesKey, MetadataKey, Listing

LEMMA ListingKinds ==
    ASSUME NEW k \in Keys, Listing(k)
    PROVE  \/ k = FilesKey /\ k.query = "files"
           \/ k.at \in Folders /\ k = DirectoryKey(k.at) /\ k.query = "directory"
  BY DEF Keys, DirectoryKey, FilesKey, MetadataKey, StatsKey, Listing

LEMMA RootIsFolder == Root \in Folders /\ Subfolders \subseteq Folders
  BY DEF Folders

LEMMA BeginEntry ==
    ASSUME NEW e \in Entry
    PROVE  /\ Begin(e) \in Entry /\ Begin(e).loaded = e.loaded /\ Begin(e).data = e.data
           /\ Begin(e).invalidated = e.invalidated
           /\ Begin(e).fetch = "asked" /\ Begin(e).got = {} /\ Begin(e).next = FALSE
           /\ Begin(e).error => e.error
<1>1. PICK b \in BOOLEAN : b = (e.error /\ e.loaded)
  BY Zenon
<1>2. Begin(e) = [e EXCEPT !.fetch = "asked", !.next = FALSE, !.got = {}, !.error = b]
  BY <1>1 DEF Begin
<1>3. /\ Begin(e) \in Entry /\ Begin(e).loaded = e.loaded /\ Begin(e).data = e.data
      /\ Begin(e).invalidated = e.invalidated
      /\ Begin(e).fetch = "asked" /\ Begin(e).got = {} /\ Begin(e).error = b
      /\ Begin(e).next = FALSE
  BY <1>2 DEF Entry
<1> QED
  BY <1>1, <1>3

LEMMA FailedEntry ==
    ASSUME NEW e \in Entry
    PROVE  /\ Failed(e) \in Entry /\ Failed(e).loaded = e.loaded /\ Failed(e).data = e.data
           /\ Failed(e).invalidated = e.invalidated
           /\ Failed(e).fetch = "none" /\ Failed(e).got = {} /\ Failed(e).error = TRUE
           /\ Failed(e).next = FALSE
  BY DEF Failed, Entry

LEMMA NoEntryTypes ==
    /\ NoEntry \in Entry /\ NoEntry.loaded = FALSE /\ NoEntry.invalidated = FALSE
    /\ NoEntry.data = {} /\ NoEntry.got = {} /\ NoEntry.fetch = "none" /\ NoEntry.error = FALSE
    /\ NoEntry.next = FALSE
  BY DEF NoEntry, Entry

\* A component that mounts begins fetches and does nothing else to the cache.
LEMMA MountEntries ==
    ASSUME NEW c, NEW ks, NEW expired, NEW k \in Keys
    PROVE  /\ \/ Mount(c, ks, expired)[k] = c[k]
              \/ c[k].fetch = "none" /\ Mount(c, ks, expired)[k] = Begin(c[k])
           /\ Mount(c, ks, expired) = [j \in Keys |-> Mount(c, ks, expired)[j]]
<1>1. \/ Mount(c, ks, expired)[k] = c[k]
      \/ c[k].fetch = "none" /\ Mount(c, ks, expired)[k] = Begin(c[k])
  BY DEF Mount
<1>2. Mount(c, ks, expired) = [j \in Keys |-> Mount(c, ks, expired)[j]]
  BY DEF Mount
<1> QED
  BY <1>1, <1>2

LEMMA BeginKeepsEntry ==
    ASSUME NEW k, NEW e, EntryInv(k, e) PROVE EntryInv(k, Begin(e))
<1>1. e \in Entry
  BY DEF EntryInv
<1> QED
  BY <1>1, BeginEntry DEF EntryInv

-----------------------------------------------------------------------------
(* What a step may do to an entry so that a row told gone stays gone, and a *)
(* folder's number of files is one it has had.                              *)

\* What is relied on was relied on before, or was brought by the fetch; what the
\* fetch has read it had read before, or reads now, perhaps to add it.  What is
\* settled was settled before, or was brought by the fetch.
Follows(k, e, new) ==
    /\ Current(new) =>
          \/ Current(e) /\ new.data = e.data
          \/ e.fetch = "read" /\ new.data = e.got
    /\ new.fetch = "read" =>
          \/ e.fetch = "read" /\ new.got = e.got
          \/ new.got = Read(k)
          \/ Current(e) /\ new.got = e.data \cup Read(k)

Counts(k, e, new) ==
    /\ new.fetch = "read" => (e.fetch = "read" /\ new.got = e.got) \/ new.got = Read(k)
    /\ Settled(new) =>
          \/ Settled(e) /\ new.data = e.data
          \/ e.fetch = "read" /\ new.data = e.got

\* The listing is read in full.
Renewed(k, new) == ~Current(new) /\ (new.fetch = "read" => new.got = Read(k))

Safe(k, e, new) ==
    /\ Listing(k) =>
          \/ k \in missed'
          \/ Renewed(k, new)
          \/ k \notin missed /\ Follows(k, e, new)
    /\ ~Listing(k) => Counts(k, e, new)

LEMMA BeginFollows ==
    ASSUME NEW k, NEW e \in Entry
    PROVE  /\ Follows(k, e, e) /\ Counts(k, e, e)
           /\ e.fetch = "none" => Follows(k, e, Begin(e))
           /\ Counts(k, e, Begin(e))
  BY BeginEntry DEF Follows, Counts, Current, Settled, ReadInFull

LEMMA Unmissed ==
    ASSUME NEW k, NEW e, NEW new, missed \subseteq missed',
           Listing(k) => Follows(k, e, new), ~Listing(k) => Counts(k, e, new)
    PROVE  Safe(k, e, new)
  BY DEF Safe

LEMMA StatsKinds ==
    ASSUME NEW d \in Subfolders
    PROVE  /\ StatsKey(d) \in Keys /\ ~Listing(StatsKey(d))
           /\ StatsKey(d).query = "directory-stats" /\ StatsKey(d).at = d
           /\ Read(StatsKey(d)) = {Cardinality(In(d))}
  BY DEF Keys, StatsKey, Listing, Read

LEMMA ToldKept ==
    ASSUME Inv, UNCHANGED place, \A k \in Keys : Safe(k, cache[k], cache'[k])
    PROVE  \A t \in told : ToldInv(t)'
<1> SUFFICES ASSUME NEW t \in told PROVE ToldInv(t)'
  OBVIOUS
<1>1. ToldInv(t) /\ t.key \in Keys
  BY DEF Inv, TypeInv, ToldsInv
<1>2. Read(t.key)' = Read(t.key)
  BY DEF Read, In, NonEmpty
<1>3. /\ Listing(t.key) /\ t.row \notin Read(t.key)
      /\ \/ t.key \in missed'
         \/ Renewed(t.key, cache'[t.key])
         \/ t.key \notin missed /\ Follows(t.key, cache[t.key], cache'[t.key])
  BY <1>1 DEF Safe, ToldInv
<1>4. CASE Renewed(t.key, cache'[t.key])
  BY <1>2, <1>3, <1>4 DEF ToldInv, Renewed, Current
<1>5. CASE t.key \notin missed /\ Follows(t.key, cache[t.key], cache'[t.key])
  <2>1. /\ Current(cache[t.key]) => t.row \notin cache[t.key].data
        /\ cache[t.key].fetch = "read" => t.row \notin cache[t.key].got
    BY <1>1, <1>5 DEF ToldInv
  <2>2. /\ Current(cache'[t.key]) => t.row \notin cache'[t.key].data
        /\ cache'[t.key].fetch = "read" => t.row \notin cache'[t.key].got
    BY <1>3, <1>5, <2>1 DEF Follows
  <2> QED
    BY <1>2, <1>3, <2>2 DEF ToldInv, Current
<1> QED
  BY <1>2, <1>3, <1>4, <1>5 DEF ToldInv

\* A step that opens no dialog.
LEMMA CountsKept ==
    ASSUME Inv, UNCHANGED <<place, since>>, dialog' \in {dialog, NoDialog},
           \A k \in Keys : Safe(k, cache[k], cache'[k])
    PROVE  CountsInv'
<1>1. since' = [d \in Subfolders |-> since'[d]]
  BY DEF Inv, CountsInv
<1>2. ASSUME NEW d \in Subfolders PROVE CountInv(d)'
  <2>1. CountInv(d)
    BY DEF Inv, CountsInv
  <2>2. Counts(StatsKey(d), cache[StatsKey(d)], cache'[StatsKey(d)])
    BY StatsKinds DEF Safe
  <2>3. Read(StatsKey(d)) = {Cardinality(In(d))} /\ In(d)' = In(d)
    BY StatsKinds DEF In
  <2>4. dialog'.kind = "folder" => dialog' = dialog
    BY DEF NoDialog
  <2> QED
    BY <2>1, <2>2, <2>3, <2>4 DEF CountInv, Counts, Settled
<1> QED
  BY <1>1, <1>2 DEF CountsInv

-----------------------------------------------------------------------------
(* Mutations across a render.                                               *)

LEMMA InvalidatedKeys ==
    ASSUME NEW op \in Kind, NEW r \in Routes
    PROVE  /\ InvalidatedBy(op, r) \subseteq Keys
           /\ op = "folder" => DirectoryKey(Root) \in InvalidatedBy(op, r)
           /\ op = "move" => \A d \in Folders : DirectoryKey(d) \in InvalidatedBy(op, r)
           /\ op = "delete" /\ r.page # "file" => PageKey(r) \in InvalidatedBy(op, r)
           /\ op = "delete" /\ r.page = "file" =>
                 /\ FilesKey \in InvalidatedBy(op, r)
                 /\ \A d \in Folders : DirectoryKey(d) \in InvalidatedBy(op, r)
<1>1. CASE op = "folder"
  <2>1. InvalidatedBy(op, r) = {k \in Keys : k.query \in {"directory"}}
    BY <1>1 DEF InvalidatedBy
  <2> QED
    BY <1>1, <2>1, KeyKinds, RootIsFolder
<1>2. CASE op = "move"
  <2>1. InvalidatedBy(op, r) = {k \in Keys : k.query \in {"files", "directory"}}
                        \cup (IF r.page = "file" THEN {MetadataKey(r.at)} ELSE {})
    BY <1>2 DEF InvalidatedBy
  <2> QED
    BY <1>2, <2>1, KeyKinds, RouteKinds
<1>3. CASE op = "delete" /\ r.page = "browse"
  <2>1. InvalidatedBy(op, r) = {DirectoryKey(r.at)}
    BY <1>3 DEF InvalidatedBy
  <2> QED
    BY <1>3, <2>1, KeyKinds, RouteKinds, PageKeys
<1>4. CASE op = "delete" /\ r.page = "search"
  <2>1. InvalidatedBy(op, r) = {FilesKey}
    BY <1>4 DEF InvalidatedBy
  <2> QED
    BY <1>4, <2>1, KeyKinds, PageKeys
<1>5. CASE op = "delete" /\ r.page = "file"
  <2>1. InvalidatedBy(op, r) = {k \in Keys : k.query \in {"files", "directory"}}
    BY <1>5 DEF InvalidatedBy
  <2> QED
    BY <1>5, <2>1, KeyKinds
<1> QED
  BY <1>1, <1>2, <1>3, <1>4, <1>5, RouteKinds DEF Kind

LEMMA LeftRows ==
    ASSUME NEW m \in Mutation, NEW t \in Left(m)
    PROVE  /\ t = [key |-> t.key, row |-> m.target] /\ t.key \in Keys /\ Listing(t.key)
           /\ \/ m.op = "folder" /\ t.key = DirectoryKey(Root)
              \/ m.op = "move" /\ \E d \in Folders : t.key = DirectoryKey(d)
              \/ m.op = "delete" /\ m.origin.page # "file" /\ t.key = PageKey(m.origin)
              \/ /\ m.op = "delete" /\ m.origin.page = "file"
                 /\ t.key = FilesKey \/ \E d \in Folders : t.key = DirectoryKey(d)
<1>0. m.op \in Kind /\ m.origin \in Routes /\ m.parent \subseteq Folders
  BY DEF Mutation
<1>1. CASE m.op = "folder"
  <2>1. t = [key |-> DirectoryKey(Root), row |-> m.target]
    BY <1>1 DEF Left
  <2> QED
    BY <1>1, <2>1, KeyKinds, RootIsFolder
<1>2. CASE m.op = "move"
  <2>1. m.origin.page = "browse" /\ t = [key |-> DirectoryKey(m.origin.at), row |-> m.target]
    BY <1>2 DEF Left
  <2> QED
    BY <1>0, <1>2, <2>1, KeyKinds, RouteKinds
<1>3. CASE m.op = "delete" /\ m.origin.page # "file"
  <2>1. t = [key |-> PageKey(m.origin), row |-> m.target]
    BY <1>3 DEF Left
  <2> QED
    BY <1>0, <1>3, <2>1, PageKeys
<1>4. CASE m.op = "delete" /\ m.origin.page = "file"
  <2>1. PICK k \in {FilesKey} \cup {DirectoryKey(d) : d \in m.parent} :
            t = [key |-> k, row |-> m.target]
    BY <1>4 DEF Left
  <2> QED
    BY <1>0, <1>4, <2>1, KeyKinds
<1> QED
  BY <1>0, <1>1, <1>2, <1>3, <1>4 DEF Kind

\* What a mutation leaves depends on nothing a render or a reply changes but
\* the parent folder.
LEMMA SameLeft ==
    ASSUME NEW m, NEW n, n.op = m.op, n.target = m.target, n.origin = m.origin,
           n.parent = m.parent
    PROVE  Left(n) = Left(m)
  BY DEF Left

Same(m, n) ==
    /\ n.op = m.op /\ n.target = m.target /\ n.to = m.to /\ n.origin = m.origin
    /\ n.cancelled = m.cancelled /\ n.status = m.status

LEMMA Rerendered ==
    ASSUME NEW m \in Mutation, NEW r \in Routes, NEW c,
           r.page = "file" => c[MetadataKey(r.at)].data \subseteq Folders,
           m.home = r.page, Holds(m.op, r, c),
           m.op = "folder" => m.to = "gone"
    PROVE  LET n == Rerender(m, r, c) IN
           n \in Mutation /\ Same(m, n) /\ n.home = m.home /\ MutationInv(n)
<1> DEFINE n == Rerender(m, r, c)
           p == IF r.page = "file" THEN c[MetadataKey(r.at)].data ELSE m.parent
<1>1. PICK u \in BOOLEAN : u = (m.op = "delete" /\ r # m.origin)
  BY Zenon
<1>2. n = [m EXCEPT !.keys = InvalidatedBy(m.op, r), !.strayed = u, !.parent = p]
  BY <1>1 DEF Rerender
<1>3. m.op \in Kind /\ m.origin \in Routes
  BY DEF Mutation
<1>4. InvalidatedBy(m.op, r) \in SUBSET Keys
  BY <1>3, InvalidatedKeys
<1>5. p \in SUBSET Folders
  BY DEF Mutation
<1> HIDE DEF n, p
<1>6. n \in Mutation /\ Same(m, n) /\ n.home = m.home
  BY <1>2, <1>4, <1>5 DEF Mutation, Same
<1>7. n.keys = InvalidatedBy(m.op, r) /\ n.strayed = u
  BY <1>2 DEF Mutation
<1>8. ASSUME ~n.strayed, NEW t \in Left(n) PROVE t.key \in n.keys
  <2>1. m.op = "delete" => r = m.origin
    BY <1>1, <1>7, <1>8
  <2>2. n.op = m.op /\ n.origin = m.origin
    BY <1>6 DEF Same
  <2> QED
    BY <1>3, <1>6, <1>7, <2>1, <2>2, LeftRows, InvalidatedKeys
<1>9. MutationInv(n)
  BY <1>6, <1>8 DEF MutationInv, Same
<1> QED
  BY <1>6, <1>9 DEF n

LEMMA Unmounted ==
    ASSUME NEW m \in Mutation, MutationInv(m), NEW r, NEW c, ~(m.home = r.page /\ Holds(m.op, r, c))
    PROVE  LET n == Rerender(m, r, c) IN
           n \in Mutation /\ Same(m, n) /\ n.home = "none" /\ MutationInv(n)
<1> DEFINE n == Rerender(m, r, c)
<1>1. n = [m EXCEPT !.home = "none"]
  BY DEF Rerender
<1> HIDE DEF n
<1>2. /\ n \in Mutation /\ Same(m, n) /\ n.home = "none" /\ n.parent = m.parent
      /\ n.keys = m.keys /\ n.strayed = m.strayed
  BY <1>1 DEF Mutation, Same
<1>3. Left(n) = Left(m)
  BY <1>2, SameLeft DEF Same
<1>4. MutationInv(n)
  BY <1>2, <1>3 DEF MutationInv, Same
<1> QED
  BY <1>2, <1>4 DEF n

-----------------------------------------------------------------------------
(* A commit.                                                                *)

\* A dialog that is closed was that of no pending, uncancelled mutation.
LEMMA Committed ==
    ASSUME Inv, NEW r \in Routes, NEW c, Cached(c), NEW d, NEW ms, ms \subseteq inflight,
           \/ d = dialog
           \/ d = NoDialog /\ \A m \in ms : m.home = "none" \/ m.cancelled,
           Commit(r, c, d, ms)
    PROVE  /\ route' \in Routes /\ Cached(cache') /\ dialog' \in Dialog \cup {NoDialog}
           /\ inflight' \in SUBSET Mutation
           /\ DialogInv' /\ HomeInv' /\ MutationsInv'
<1>1. /\ route' = r /\ cache' = c
      /\ dialog' = IF r.page = route.page /\ Holds(d.kind, r, c) THEN d ELSE NoDialog
      /\ inflight' = {Rerender(m, r, c) : m \in ms}
  BY DEF Commit
<1>2. /\ \A m \in inflight : m \in Mutation /\ MutationInv(m)
      /\ \A m \in inflight : m.home \in {"none", route.page}
      /\ dialog \in Dialog \cup {NoDialog} /\ route \in Routes
  BY DEF Inv, TypeInv, MutationsInv, HomeInv
<1>3. r.page = "file" => c[MetadataKey(r.at)].data \subseteq Folders
  BY RouteKinds, KeyKinds DEF Cached, EntryInv
<1>4. ASSUME NEW m \in ms
      PROVE  LET n == Rerender(m, r, c) IN
             /\ n \in Mutation /\ Same(m, n) /\ MutationInv(n)
             /\ \/ n.home = "none"
                \/ n.home = m.home /\ m.home = r.page /\ Holds(m.op, r, c)
  <2>1. m \in Mutation /\ MutationInv(m)
    BY <1>2
  <2>2. CASE m.home = r.page /\ Holds(m.op, r, c)
    BY <1>3, <2>1, <2>2, Rerendered DEF MutationInv
  <2>3. CASE ~(m.home = r.page /\ Holds(m.op, r, c))
    BY <2>1, <2>3, Unmounted
  <2> QED
    BY <2>2, <2>3
<1>5. inflight' \in SUBSET Mutation /\ MutationsInv'
  BY <1>1, <1>4 DEF MutationsInv
<1>6. dialog' \in Dialog \cup {NoDialog} /\ (dialog' # NoDialog => dialog' = dialog)
  BY <1>1, <1>2
<1>7. DialogInv'
  BY <1>1, <1>6 DEF Inv, DialogInv, NoDialog
<1>8. r.page # "none"
  BY RouteKinds
<1>9. \A n \in inflight' : n.home \in {"none", route'.page}
  BY <1>1, <1>4
<1>10. ASSUME NEW n1 \in inflight', NEW n2 \in inflight',
              n1.op = n2.op, n1.home # "none", n2.home # "none"
       PROVE  n1 = n2
  <2>1. PICK m1 \in ms : n1 = Rerender(m1, r, c)
    BY <1>1
  <2>2. PICK m2 \in ms : n2 = Rerender(m2, r, c)
    BY <1>1
  <2>3. m1.op = n1.op /\ m1.home # "none"
    BY <1>4, <1>10, <2>1 DEF Same
  <2>4. m2.op = n2.op /\ m2.home # "none"
    BY <1>4, <1>10, <2>2 DEF Same
  <2>5. m1 = m2
    BY <1>10, <2>3, <2>4 DEF Inv, HomeInv
  <2> QED
    BY <2>1, <2>2, <2>5
<1>11. ASSUME NEW n \in inflight', n.home # "none", ~n.cancelled
       PROVE  dialog'.kind = n.op /\ dialog'.target = n.target
  <2>1. PICK m \in ms : n = Rerender(m, r, c)
    BY <1>1
  <2>2. /\ m.op = n.op /\ m.target = n.target /\ m.cancelled = n.cancelled
        /\ m.home # "none" /\ m.home = r.page /\ Holds(m.op, r, c)
    BY <1>4, <1>8, <1>11, <2>1 DEF Same
  <2>3. dialog.kind = m.op /\ dialog.target = m.target
    BY <1>11, <2>2 DEF Inv, HomeInv, DialogIsOwn
  <2>4. d = dialog
    BY <1>11, <2>2
  <2>5. r.page = route.page
    BY <1>2, <2>2
  <2> QED
    BY <1>1, <2>2, <2>3, <2>4, <2>5
<1>12. HomeInv'
  BY <1>9, <1>10, <1>11 DEF HomeInv, DialogIsOwn
<1> QED
  BY <1>1, <1>5, <1>6, <1>7, <1>12

\* The same for a step that leaves route and mutations alone and takes no
\* listing from the screen.
LEMMA Kept ==
    ASSUME Inv, UNCHANGED <<route, dialog, inflight>>, Cached(cache'),
           TableShown(route, cache) => TableShown(route, cache')
    PROVE  DialogInv' /\ HomeInv' /\ MutationsInv'
<1>1. DialogInv'
  BY DEF Inv, DialogInv, Holds
<1>2. HomeInv'
  BY DEF Inv, HomeInv, DialogIsOwn
<1>3. MutationsInv'
  BY DEF Inv, MutationsInv
<1> QED
  BY <1>1, <1>2, <1>3

LEMMA InvParts ==
    ASSUME place' \in [Files -> Place], route' \in Routes, Cached(cache'),
           dialog' \in Dialog \cup {NoDialog}, inflight' \in SUBSET Mutation,
           told' \in SUBSET [key : Keys, row : Row],
           DialogInv', HomeInv', MutationsInv', ToldsInv', CountsInv'
    PROVE  Inv'
  BY DEF Inv, TypeInv

LEMMA PartsInv ==
    ASSUME Inv
    PROVE  /\ place \in [Files -> Place] /\ route \in Routes /\ Cached(cache)
           /\ dialog \in Dialog \cup {NoDialog} /\ inflight \in SUBSET Mutation
           /\ told \in SUBSET [key : Keys, row : Row]
           /\ \A k \in Keys : EntryInv(k, cache[k]) /\ cache[k] \in Entry
           /\ \A m \in inflight : m \in Mutation /\ MutationInv(m)
  BY DEF Inv, TypeInv, Cached, EntryInv, MutationsInv

-----------------------------------------------------------------------------
(* The initial state, and the queries.                                      *)

LEMMA ReadTypes ==
    ASSUME NEW k \in Keys, place \in [Files -> Place]
    PROVE  /\ Read(k) \in SUBSET Datum /\ (Listing(k) => Read(k) \subseteq Row)
           /\ k.query = "file-metadata" => Read(k) \subseteq Folders \/ Read(k) = {"gone"}
<1>0. k.query \in {"files", "directory", "file-metadata", "directory-stats"}
  BY DEF Keys, FilesKey, DirectoryKey, MetadataKey, StatsKey
<1>1. CASE k.query = "files"
  <2>1. Read(k) \subseteq Files
    BY <1>1 DEF Read
  <2> QED
    BY <1>1, <2>1 DEF Row, Datum
<1>2. CASE k.query = "directory"
  <2>1. Read(k) \subseteq Row
    BY <1>2 DEF Read, In, NonEmpty, Row
  <2> QED
    BY <1>2, <2>1 DEF Row, Datum
<1>3. CASE k.query = "file-metadata"
  <2>1. k.at \in Files
    BY <1>3 DEF Keys, FilesKey, DirectoryKey, MetadataKey, StatsKey
  <2>2. Read(k) = {place[k.at]} /\ place[k.at] \in Place
    BY <1>3, <2>1 DEF Read
  <2> QED
    BY <1>3, <2>2 DEF Place, Datum, Listing
<1>4. CASE k.query = "directory-stats"
  <2>1. Read(k) = {Cardinality(In(k.at))} /\ In(k.at) \in SUBSET Files
    BY <1>4 DEF Read, In
  <2> QED
    BY <1>4, <2>1 DEF Datum, Listing
<1> QED
  BY <1>0, <1>1, <1>2, <1>3, <1>4

LEMMA MountCached ==
    ASSUME NEW c, NEW ks, NEW expired, Cached(c) PROVE Cached(Mount(c, ks, expired))
<1> DEFINE n == Mount(c, ks, expired)
<1>0. n = [j \in Keys |-> n[j]]
  BY DEF Mount
<1>1. ASSUME NEW k \in Keys PROVE EntryInv(k, n[k])
  <2>1. n[k] = c[k] \/ n[k] = Begin(c[k])
    BY MountEntries
  <2>2. EntryInv(k, c[k])
    BY DEF Cached
  <2> HIDE DEF n
  <2> QED
    BY <2>1, <2>2, BeginKeepsEntry
<1> HIDE DEF n
<1>2. Cached(n)
  BY <1>0, <1>1 DEF Cached
<1> QED
  BY <1>2 DEF n

LEMMA InitInv == Init => Inv
<1> SUFFICES ASSUME Init PROVE Inv
  OBVIOUS
<1>1. place \in [Files -> Place]
  BY ConstantsAssumption DEF Init, Place, Folders
<1>2. route \in Routes
  BY RootIsFolder DEF Init, Routes
<1> DEFINE empty == [k \in Keys |-> NoEntry]
<1>3. Cached(empty)
  BY NoEntryTypes DEF Cached, EntryInv
<1> HIDE DEF empty
<1>4. Cached(cache)
  BY <1>3, MountCached DEF Init, empty
<1>5. dialog = NoDialog /\ inflight = {} /\ told = {}
  BY DEF Init
<1>6. DialogInv /\ HomeInv
  BY <1>5 DEF DialogInv, HomeInv, DialogIsOwn, NoDialog
<1>7. CountsInv
  <2>1. since = [d \in Subfolders |-> {Cardinality(In(d))}]
    BY DEF Init
  <2>2. ASSUME NEW d \in Subfolders PROVE CountInv(d)
    <3>1. StatsKey(d) \in Keys /\ empty[StatsKey(d)] = NoEntry
      BY StatsKinds DEF empty
    <3>2. cache = Mount(empty, {PageKey(route)}, FALSE)
      BY DEF Init, empty
    <3>3. cache[StatsKey(d)] \in {NoEntry, Begin(NoEntry)}
      BY <3>1, <3>2 DEF Mount
    <3>4. cache[StatsKey(d)].fetch # "read"
      BY <3>3, NoEntryTypes, BeginEntry
    <3> QED
      BY <1>5, <2>1, <3>4 DEF CountInv, NoDialog
  <2> QED
    BY <2>1, <2>2 DEF CountsInv
<1> QED
  BY <1>1, <1>2, <1>4, <1>5, <1>6, <1>7 DEF Inv, TypeInv, MutationsInv, ToldsInv

LEMMA FetchReadsInv ==
    ASSUME Inv, NEW k \in Keys, FetchReads(k) PROVE Inv'
<1> DEFINE e == cache[k]
           kept == IF e.next THEN e.data ELSE {}
           new == [e EXCEPT !.fetch = "read", !.got = kept \cup Read(k)]
<1>1. /\ e.fetch = "asked"
      /\ cache' = [cache EXCEPT ![k].fetch = "read", ![k].got = kept \cup Read(k)]
      /\ missed' = IF e.next THEN missed ELSE missed \ {k}
      /\ UNCHANGED <<place, route, dialog, inflight, told, since>>
  BY DEF FetchReads
<1>2. e \in Entry /\ EntryInv(k, e) /\ Cached(cache) /\ place \in [Files -> Place]
  BY PartsInv
<1>3. /\ new.loaded = e.loaded /\ new.data = e.data /\ new.error = e.error
      /\ new.invalidated = e.invalidated /\ new.fetch = "read" /\ new.got = kept \cup Read(k)
      /\ new.next = e.next
  BY <1>2 DEF Entry
<1>4. Read(k) \in SUBSET Datum /\ kept \cup Read(k) \in SUBSET Datum
  BY <1>2, ReadTypes DEF Entry
<1>5. new \in Entry
  BY <1>2, <1>4 DEF Entry
<1>6. EntryInv(k, new)
  <2>1. Listing(k) => kept \subseteq Row
    BY <1>2 DEF EntryInv
  <2>2. ~Listing(k) => new.got = Read(k)
    BY <1>2, <1>3 DEF EntryInv
  <2>3. k.query = "file-metadata" => ~Listing(k)
    BY DEF Listing
  <2> HIDE DEF new, kept, e
  <2>4. Listing(k) => new.got \subseteq Row
    BY <1>2, <1>3, <2>1, ReadTypes
  <2> QED
    BY <1>2, <1>3, <1>5, <2>2, <2>3, <2>4, ReadTypes DEF EntryInv
<1>7. cache' = [j \in Keys |-> IF j = k THEN new ELSE cache[j]]
  BY <1>1, <1>2 DEF Cached
<1>8. Safe(k, e, new)
  <2>1. CASE e.next
    <3>1. Listing(k)
      BY <1>2, <2>1 DEF EntryInv
    <3>2. Current(e) /\ Follows(k, e, new)
      BY <1>1, <1>3, <2>1 DEF Follows, Current, ReadInFull
    <3> QED
      BY <1>1, <2>1, <3>1, <3>2 DEF Safe
  <2>2. CASE ~e.next
    <3>1. Renewed(k, new) /\ Counts(k, e, new)
      BY <1>3, <2>2 DEF Renewed, Counts, Current, Settled, ReadInFull
    <3> QED
      BY <3>1 DEF Safe
  <2> QED
    BY <2>1, <2>2
<1>9. \A j \in Keys \ {k} : Safe(j, cache[j], cache'[j])
  BY <1>1, <1>7, PartsInv, BeginFollows DEF Safe
<1> HIDE DEF new, e
<1>10. Cached(cache')
  BY <1>2, <1>6, <1>7 DEF Cached
<1>11. \A j \in Keys : Safe(j, cache[j], cache'[j])
  BY <1>7, <1>8, <1>9 DEF e
<1>12. TableShown(route, cache) => TableShown(route, cache')
  <2>1. PageKey(route) \in Keys
    BY PartsInv, PageKeys
  <2> QED
    BY <1>3, <1>7, <2>1 DEF TableShown, ListShown, e
<1>13. ToldsInv' /\ CountsInv'
  BY <1>1, <1>11, ToldKept, CountsKept DEF ToldsInv
<1>14. DialogInv' /\ HomeInv' /\ MutationsInv'
  BY <1>1, <1>10, <1>12, Kept
<1> QED
  BY <1>1, <1>10, <1>13, <1>14, PartsInv, InvParts

LEMMA CommitInv ==
    ASSUME Inv, NEW r \in Routes, NEW c, Cached(c), Commit(r, c, dialog, inflight),
           \A k \in Keys : Safe(k, cache[k], c[k]),
           UNCHANGED <<place, told, since>>
    PROVE  Inv'
<1>1. /\ route' \in Routes /\ Cached(cache') /\ dialog' \in Dialog \cup {NoDialog}
      /\ inflight' \in SUBSET Mutation /\ DialogInv' /\ HomeInv' /\ MutationsInv'
  BY Committed
<1>2. cache' = c
  BY DEF Commit
<1>3. dialog' \in {dialog, NoDialog}
  BY DEF Commit
<1>4. ToldsInv' /\ CountsInv'
  BY <1>2, <1>3, ToldKept, CountsKept DEF ToldsInv
<1> QED
  BY <1>1, <1>4, PartsInv, InvParts

\* One entry changes.
LEMMA EntryChanges ==
    ASSUME Inv, NEW k \in Keys, NEW new, EntryInv(k, new), Safe(k, cache[k], new),
           missed \subseteq missed'
    PROVE  LET c == [cache EXCEPT ![k] = new] IN
           Cached(c) /\ \A j \in Keys : Safe(j, cache[j], c[j])
<1>1. Cached(cache)
  BY PartsInv
<1>2. [cache EXCEPT ![k] = new] = [j \in Keys |-> IF j = k THEN new ELSE cache[j]]
  BY <1>1 DEF Cached
<1>3. \A j \in Keys : Safe(j, cache[j], cache[j])
  BY PartsInv, BeginFollows DEF Safe
<1> DEFINE c == [cache EXCEPT ![k] = new]
<1>4. c = [j \in Keys |-> IF j = k THEN new ELSE cache[j]]
  BY <1>2
<1> HIDE DEF c
<1>5. Cached(c) /\ \A j \in Keys : Safe(j, cache[j], c[j])
  BY <1>1, <1>3, <1>4 DEF Cached
<1> QED
  BY <1>5 DEF c

LEMMA FailedKeeps ==
    ASSUME NEW k, NEW e, EntryInv(k, e)
    PROVE  /\ EntryInv(k, Failed(e)) /\ Counts(k, e, Failed(e))
           /\ e.fetch = "asked" => Follows(k, e, Failed(e))
<1>1. e \in Entry
  BY DEF EntryInv
<1> QED
  BY <1>1, FailedEntry DEF EntryInv, Follows, Counts, Current, Settled, ReadInFull

LEMMA FetchArrivesInv ==
    ASSUME Inv, NEW k \in Keys, FetchArrives(k) PROVE Inv'
<1> DEFINE e == cache[k]
           full == [NoEntry EXCEPT !.loaded = TRUE, !.data = e.got]
           arrived == IF k.query = "file-metadata" /\ e.got = {"gone"} THEN Failed(e) ELSE full
<1>1. /\ e.fetch = "read" /\ Commit(route, [cache EXCEPT ![k] = arrived], dialog, inflight)
      /\ UNCHANGED <<place, told, missed, since>>
  BY DEF FetchArrives, history
<1>2. e \in Entry /\ EntryInv(k, e) /\ route \in Routes
  BY PartsInv
<1> HIDE DEF e
<1>3. /\ EntryInv(k, Failed(e)) /\ Counts(k, e, Failed(e))
      /\ k.query = "file-metadata" => ~Listing(k)
  BY <1>2, FailedKeeps DEF Listing
<1>4. ASSUME ~(k.query = "file-metadata" /\ e.got = {"gone"})
      PROVE  EntryInv(k, full) /\ Follows(k, e, full) /\ Counts(k, e, full)
  <2>1. /\ full.loaded = TRUE /\ full.data = e.got /\ full.invalidated = FALSE
        /\ full.fetch = "none" /\ full.got = {} /\ full.next = FALSE
    BY DEF NoEntry
  <2>2. full \in Entry
    BY <1>2, NoEntryTypes DEF Entry
  <2>3. k.query = "file-metadata" => e.got \subseteq Folders
    BY <1>2, <1>4 DEF EntryInv
  <2>4. Listing(k) => e.got \subseteq Row
    BY <1>2 DEF EntryInv
  <2> HIDE DEF full
  <2>5. EntryInv(k, full)
    BY <2>1, <2>2, <2>3, <2>4 DEF EntryInv
  <2>6. Follows(k, e, full) /\ Counts(k, e, full)
    BY <1>1, <2>1 DEF Follows, Counts
  <2> QED
    BY <2>5, <2>6
<1>5. EntryInv(k, arrived) /\ Safe(k, cache[k], arrived)
  BY <1>1, <1>3, <1>4, Unmissed DEF e
<1> HIDE DEF arrived
<1> QED
  BY <1>1, <1>2, <1>5, EntryChanges, CommitInv

LEMMA FetchFailsInv ==
    ASSUME Inv, NEW k \in Keys, FetchFails(k) PROVE Inv'
<1>1. Cached(cache) /\ route \in Routes /\ EntryInv(k, cache[k])
  BY PartsInv
<1>2. [cache EXCEPT ![k] = Failed(@)] = [cache EXCEPT ![k] = Failed(cache[k])]
  BY <1>1 DEF Cached
<1>3. /\ Commit(route, [cache EXCEPT ![k] = Failed(cache[k])], dialog, inflight)
      /\ cache[k].fetch = "asked" /\ UNCHANGED <<place, told, missed, since>>
  BY <1>2 DEF FetchFails, history
<1>4. EntryInv(k, Failed(cache[k])) /\ Safe(k, cache[k], Failed(cache[k]))
  BY <1>1, <1>3, FailedKeeps, Unmissed
<1> QED
  BY <1>1, <1>3, <1>4, EntryChanges, CommitInv

LEMMA PollPatchesInv ==
    ASSUME Inv, NEW k \in Keys, PollPatches(k) PROVE Inv'
<1> DEFINE e == cache[k]
           new == [e EXCEPT !.error = FALSE, !.invalidated = FALSE]
<1>1. Cached(cache) /\ route \in Routes /\ EntryInv(k, e) /\ e \in Entry
  BY PartsInv
<1>2. [cache EXCEPT ![k].error = FALSE, ![k].invalidated = FALSE] = [cache EXCEPT ![k] = new]
  BY <1>1 DEF Cached
<1>3. /\ Commit(route, [cache EXCEPT ![k] = new], dialog, inflight)
      /\ UNCHANGED <<place, told, since>> /\ Listing(k) /\ e.loaded
      /\ missed' = IF e.invalidated /\ ~ReadInFull(e) THEN missed \cup {k} ELSE missed
  BY <1>2 DEF PollPatches, Listing
<1>4. /\ new \in Entry /\ new.loaded = e.loaded /\ new.data = e.data /\ new.fetch = e.fetch
      /\ new.next = e.next /\ new.got = e.got /\ new.invalidated = FALSE
  BY <1>1 DEF Entry
<1> HIDE DEF new, e
<1>5. EntryInv(k, new)
  BY <1>1, <1>4 DEF EntryInv
<1>6. k \in missed' \/ Follows(k, e, new)
  BY <1>3, <1>4 DEF Follows, Current, ReadInFull
<1>7. Safe(k, cache[k], new) /\ missed \subseteq missed'
  BY <1>3, <1>6 DEF Safe, e
<1> QED
  BY <1>1, <1>3, <1>5, <1>7, EntryChanges, CommitInv

LEMMA ScrollInv ==
    ASSUME Inv, Scroll PROVE Inv'
<1> DEFINE k == PageKey(route)
           e == cache[k]
           new == [Begin(e) EXCEPT !.next = TRUE]
<1>1. /\ route.page # "file" /\ e.loaded /\ ~e.error /\ ~e.next
      /\ cache' = [cache EXCEPT ![k] = new]
      /\ missed' = IF e.invalidated \/ e.fetch # "none" THEN missed \cup {k} ELSE missed
      /\ UNCHANGED <<place, route, dialog, inflight, told, since>>
  BY DEF Scroll, ListShown
<1>2. k \in Keys /\ Listing(k)
  BY <1>1, PartsInv, PageKeys
<1>3. Cached(cache) /\ EntryInv(k, e) /\ e \in Entry
  BY <1>2, PartsInv
<1>4. /\ new \in Entry /\ new.loaded = e.loaded /\ new.data = e.data /\ new.fetch = "asked"
      /\ new.next = TRUE /\ new.got = {} /\ new.invalidated = e.invalidated
      /\ new.error => e.error
  BY <1>3, BeginEntry DEF Entry
<1> HIDE DEF new, e, k
<1>5. EntryInv(k, new)
  BY <1>2, <1>3, <1>4 DEF EntryInv
<1>6. k \in missed' \/ Follows(k, e, new)
  BY <1>1, <1>4 DEF Follows, Current, ReadInFull
<1>7. Safe(k, cache[k], new) /\ missed \subseteq missed'
  BY <1>1, <1>2, <1>6 DEF Safe, e
<1>8. Cached(cache') /\ \A j \in Keys : Safe(j, cache[j], cache'[j])
  BY <1>1, <1>2, <1>5, <1>7, EntryChanges
<1>9. TableShown(route, cache) => TableShown(route, cache')
  BY <1>1, <1>2, <1>3, <1>4 DEF TableShown, ListShown, Cached, k, e
<1>10. DialogInv' /\ HomeInv' /\ MutationsInv'
  BY <1>1, <1>8, <1>9, Kept
<1>11. ToldsInv' /\ CountsInv'
  BY <1>1, <1>8, ToldKept, CountsKept DEF ToldsInv
<1> QED
  BY <1>1, <1>8, <1>10, <1>11, PartsInv, InvParts

\* Mounting a component leaves the table and the rows told gone alone.
LEMMA MountFollows ==
    ASSUME Inv, NEW ks, NEW expired
    PROVE  LET c == Mount(cache, ks, expired) IN
           /\ Cached(c)
           /\ \A k \in Keys : Follows(k, cache[k], c[k]) /\ Counts(k, cache[k], c[k])
           /\ TableShown(route, cache) => TableShown(route, c)
<1> DEFINE c == Mount(cache, ks, expired)
<1>1. Cached(c)
  BY PartsInv, MountCached
<1>2. \A k \in Keys :
         /\ cache[k] \in Entry
         /\ c[k] = cache[k] \/ (cache[k].fetch = "none" /\ c[k] = Begin(cache[k]))
  BY PartsInv, MountEntries
<1> HIDE DEF c
<1>3. \A k \in Keys : Follows(k, cache[k], c[k]) /\ Counts(k, cache[k], c[k])
  BY <1>2, BeginFollows
<1>4. TableShown(route, cache) => TableShown(route, c)
  <2>1. PageKey(route) \in Keys
    BY PartsInv, PageKeys
  <2> DEFINE k == PageKey(route)
  <2>2. cache[k] \in Entry /\ (c[k] = cache[k] \/ c[k] = Begin(cache[k]))
    BY <1>2, <2>1
  <2> HIDE DEF k
  <2>3. /\ c[k].loaded = cache[k].loaded /\ c[k].data = cache[k].data
        /\ c[k].error => cache[k].error
    BY <2>2, BeginEntry
  <2> QED
    BY <2>3 DEF TableShown, ListShown, k
<1> QED
  BY <1>1, <1>3, <1>4 DEF c

LEMMA VisitInv ==
    ASSUME Inv, NEW r \in Routes, Visit(r) PROVE Inv'
<1>1. PICK expired \in BOOLEAN :
          Commit(r, Mount(cache, {PageKey(r)}, expired), dialog, inflight)
  BY DEF Visit
<1>2. UNCHANGED <<place, told, missed, since>>
  BY DEF Visit, history
<1>3. /\ Cached(Mount(cache, {PageKey(r)}, expired))
      /\ \A k \in Keys : Safe(k, cache[k], Mount(cache, {PageKey(r)}, expired)[k])
  BY <1>2, MountFollows, Unmissed
<1> QED
  BY <1>1, <1>2, <1>3, CommitInv

-----------------------------------------------------------------------------
(* The user.                                                                *)

LEMMA OpenInv ==
    ASSUME Inv, NEW kind \in Kind, NEW x \in Row, NEW from \in Place \cup {"none"},
           Holds(kind, route, cache), kind = "folder" => x \in Subfolders,
           Open(kind, x, from)
    PROVE  Inv'
<1> DEFINE d == [kind |-> kind, target |-> x, from |-> from]
<1>1. /\ dialog = NoDialog /\ cache' = Mount(cache, DialogKeys(d), FALSE) /\ dialog' = d
      /\ since' = IF kind = "folder" /\ cache[StatsKey(x)].fetch = "none"
                  THEN [since EXCEPT ![x] = {Cardinality(In(x))}] ELSE since
      /\ UNCHANGED <<place, route, inflight, told, missed>>
  BY DEF Open
<1>2. d \in Dialog
  BY DEF Dialog
<1>3. /\ Cached(cache')
      /\ \A k \in Keys : Follows(k, cache[k], cache'[k]) /\ Counts(k, cache[k], cache'[k])
      /\ TableShown(route, cache) => TableShown(route, cache')
  BY <1>1, MountFollows
<1>4. d.kind = kind /\ d.target = x
  OBVIOUS
<1> HIDE DEF d
<1>5. DialogInv'
  BY <1>1, <1>3, <1>4 DEF DialogInv, Holds
<1>6. \A m \in inflight : m.home = "none" \/ m.cancelled
  BY <1>1, PartsInv DEF Inv, HomeInv, DialogIsOwn, Mutation, Kind, NoDialog
<1>7. HomeInv'
  <2>1. DialogIsOwn'
    BY <1>1, <1>6 DEF DialogIsOwn
  <2> QED
    BY <1>1, <2>1 DEF HomeInv, Inv
<1>8. MutationsInv'
  BY <1>1 DEF Inv, MutationsInv
<1>9. ToldsInv'
  <2>1. \A k \in Keys : Safe(k, cache[k], cache'[k])
    BY <1>1, <1>3, Unmissed
  <2> QED
    BY <1>1, <2>1, ToldKept DEF ToldsInv
<1>10. ASSUME NEW b \in Subfolders PROVE CountInv(b)'
  <2> DEFINE k == StatsKey(b)
  <2>1. /\ k \in Keys /\ k.query = "directory-stats"
        /\ Read(k) = {Cardinality(In(b))} /\ In(b)' = In(b)
    BY <1>1, StatsKinds DEF In
  <2>2. CountInv(b) /\ Counts(k, cache[k], cache'[k])
    BY <1>3, <2>1 DEF Inv, CountsInv
  <2>3. kind = "folder" /\ x = b => cache'[k].fetch # "none"
    <3>1. ASSUME kind = "folder", x = b, cache[k].fetch = "none"
          PROVE  cache'[k] = Begin(cache[k])
      <4>1. k \in DialogKeys(d)
        BY <1>4, <3>1 DEF DialogKeys
      <4> HIDE DEF k
      <4>2. cache' = Mount(cache, DialogKeys(d), FALSE)
        BY <1>1 DEF d
      <4> QED
        BY <2>1, <3>1, <4>1, <4>2 DEF Mount
    <3>2. cache'[k] = cache[k] \/ cache'[k] = Begin(cache[k])
      <4>1. cache' = Mount(cache, DialogKeys(d), FALSE)
        BY <1>1 DEF d
      <4> HIDE DEF k
      <4> QED
        BY <2>1, <4>1 DEF Mount
    <3> HIDE DEF k
    <3> QED
      BY <2>1, <3>1, <3>2, PartsInv, BeginEntry
  <2>4. since' = [c \in Subfolders |-> since'[c]]
    BY <1>1 DEF Inv, CountsInv
  <2>5. \/ since'[b] = since[b]
        \/ kind = "folder" /\ x = b /\ cache[k].fetch = "none" /\ since'[b] = {Cardinality(In(b))}
    BY <1>1 DEF Inv, CountsInv
  <2> HIDE DEF k
  <2>6. Cardinality(In(b)) \in since'[b]
    BY <2>2, <2>5 DEF CountInv
  <2>7. cache'[k].fetch = "read" => cache'[k].got \subseteq since'[b]
    <3>1. cache'[k].fetch = "read" =>
             (cache[k].fetch = "read" /\ cache'[k].got = cache[k].got) \/ cache'[k].got = Read(k)
      BY <2>2 DEF Counts
    <3>2. cache[k].fetch = "read" => cache[k].got \subseteq since[b]
      BY <2>2 DEF CountInv, k
    <3> QED
      BY <2>1, <2>5, <2>6, <3>1, <3>2
  <2>8. ~(dialog'.kind = "folder" /\ dialog'.target = b /\ Settled(cache'[k]))
    BY <1>1, <1>4, <2>3 DEF Settled, d
  <2> QED
    BY <2>1, <2>6, <2>7, <2>8 DEF CountInv, Settled, k
<1>11. CountsInv'
  <2>1. since' = [c \in Subfolders |-> since'[c]]
    BY <1>1 DEF Inv, CountsInv
  <2> QED
    BY <1>10, <2>1 DEF CountsInv
<1> QED
  BY <1>1, <1>2, <1>3, <1>5, <1>7, <1>8, <1>9, <1>11, PartsInv, InvParts

LEMMA OpenFromTableInv ==
    ASSUME Inv, OpenFromTable PROVE Inv'
<1>1. TableShown(route, cache)
  BY DEF OpenFromTable
<1>2. PICK f \in cache[PageKey(route)].data :
          IF f \in Subfolders THEN route.page = "browse" /\ Open("folder", f, "none")
          ELSE \E kind \in {"delete", "move"} :
                  Open(kind, f, IF route.page = "browse" THEN route.at ELSE place[f])
  BY DEF OpenFromTable
<1>3. f \in Row
  <2>1. PageKey(route) \in Keys /\ Listing(PageKey(route))
    BY <1>1, PartsInv, PageKeys DEF TableShown, ListShown
  <2>2. EntryInv(PageKey(route), cache[PageKey(route)])
    BY <2>1, PartsInv
  <2> QED
    BY <1>2, <2>1, <2>2 DEF EntryInv
<1>4. CASE f \in Subfolders
  <2>1. Holds("folder", route, cache)
    BY <1>2, <1>4 DEF Holds
  <2> QED
    BY <1>2, <1>3, <1>4, <2>1, OpenInv DEF Kind
<1>5. CASE f \notin Subfolders
  <2>1. PICK kind \in {"delete", "move"} :
            Open(kind, f, IF route.page = "browse" THEN route.at ELSE place[f])
    BY <1>2, <1>5
  <2>2. Holds(kind, route, cache)
    BY <1>1 DEF Holds, ListShown, TableShown
  <2>3. (IF route.page = "browse" THEN route.at ELSE place[f]) \in Place
    BY <1>3, <1>5, PartsInv, RouteKinds DEF Place, Row
  <2> QED
    BY <1>3, <2>1, <2>2, <2>3, OpenInv DEF Kind
<1> QED
  BY <1>4, <1>5

LEMMA OpenFromPageInv ==
    ASSUME Inv, OpenFromPage PROVE Inv'
<1>1. route.page = "file" /\ route \in Routes
  BY PartsInv DEF OpenFromPage
<1>2. PICK kind \in {"delete", "move"}, d \in cache[PageKey(route)].data :
          Open(kind, route.at, d)
  BY DEF OpenFromPage
<1>3. route.at \in Files /\ PageKey(route) = MetadataKey(route.at)
  BY <1>1, RouteKinds, PageKeys
<1>4. d \in Folders
  <2>1. EntryInv(PageKey(route), cache[PageKey(route)]) /\ PageKey(route).query = "file-metadata"
    BY <1>3, KeyKinds, PartsInv
  <2> QED
    BY <1>2, <2>1 DEF EntryInv
<1>5. Holds(kind, route, cache)
  BY <1>1 DEF Holds
<1> QED
  BY <1>2, <1>3, <1>4, <1>5, OpenInv DEF Kind, Row, Place

LEMMA CancelInv ==
    ASSUME Inv, Cancel PROVE Inv'
<1> DEFINE C(m) == [m EXCEPT !.cancelled = @ \/ (m.home # "none" /\ m.op = dialog.kind)]
<1>1. /\ dialog' = NoDialog /\ inflight' = {C(m) : m \in inflight}
      /\ UNCHANGED <<place, route, cache, told, missed, since>>
  BY DEF Cancel, history
<1>2. ASSUME NEW m \in inflight
      PROVE  /\ C(m) \in Mutation /\ MutationInv(C(m))
             /\ C(m).op = m.op /\ C(m).home = m.home /\ (m.home # "none" => C(m).cancelled)
  <2>1. m \in Mutation /\ MutationInv(m)
    BY PartsInv
  <2>2. PICK u \in BOOLEAN : u = (m.cancelled \/ (m.home # "none" /\ m.op = dialog.kind))
    BY Zenon
  <2>3. C(m) = [m EXCEPT !.cancelled = u]
    BY <2>1, <2>2 DEF Mutation
  <2>4. m.home # "none" => u
    BY <2>2 DEF Inv, HomeInv, DialogIsOwn
  <2> HIDE DEF C
  <2>5. /\ C(m) \in Mutation /\ C(m).op = m.op /\ C(m).home = m.home /\ C(m).cancelled = u
        /\ C(m).target = m.target /\ C(m).origin = m.origin /\ C(m).parent = m.parent
        /\ C(m).keys = m.keys /\ C(m).strayed = m.strayed
        /\ C(m).to = m.to
    BY <2>1, <2>3 DEF Mutation
  <2>6. Left(C(m)) = Left(m)
    BY <2>5, SameLeft
  <2>7. MutationInv(C(m))
    BY <2>1, <2>5, <2>6 DEF MutationInv
  <2> QED
    BY <2>4, <2>5, <2>7
<1> HIDE DEF C
<1>3. inflight' \in SUBSET Mutation /\ MutationsInv'
  BY <1>1, <1>2 DEF MutationsInv
<1>4. HomeInv'
  <2>1. \A n \in inflight' : n.home \in {"none", route'.page} /\ (n.home = "none" \/ n.cancelled)
    BY <1>1, <1>2 DEF Inv, HomeInv
  <2>2. ASSUME NEW n1 \in inflight', NEW n2 \in inflight',
               n1.op = n2.op, n1.home # "none", n2.home # "none"
        PROVE  n1 = n2
    <3>1. PICK m1 \in inflight : n1 = C(m1)
      BY <1>1
    <3>2. PICK m2 \in inflight : n2 = C(m2)
      BY <1>1
    <3>3. m1 = m2
      BY <1>2, <2>2, <3>1, <3>2 DEF Inv, HomeInv
    <3> QED
      BY <3>1, <3>2, <3>3
  <2> QED
    BY <2>1, <2>2 DEF HomeInv, DialogIsOwn
<1>5. DialogInv'
  BY <1>1 DEF DialogInv, NoDialog
<1>6. ToldsInv' /\ CountsInv'
  <2>1. \A k \in Keys : Safe(k, cache[k], cache'[k])
    BY <1>1, PartsInv, BeginFollows DEF Safe
  <2> QED
    BY <1>1, <2>1, ToldKept, CountsKept DEF ToldsInv
<1>7. Cached(cache')
  BY <1>1, PartsInv
<1> QED
  BY <1>1, <1>3, <1>4, <1>5, <1>6, <1>7, PartsInv, InvParts

LEMMA ConfirmInv ==
    ASSUME Inv, Confirm PROVE Inv'
<1>1. PICK to \in (IF dialog.kind = "move" THEN Folders \ {dialog.from} ELSE {"gone"}) :
          inflight' = inflight \cup
             {Rerender([op |-> dialog.kind, target |-> dialog.target, to |-> to,
                        origin |-> route, home |-> route.page, keys |-> {}, parent |-> {},
                        strayed |-> FALSE, cancelled |-> FALSE, status |-> "sent"],
                       route, cache)}
  BY DEF Confirm
<1> DEFINE m == [op |-> dialog.kind, target |-> dialog.target, to |-> to,
                 origin |-> route, home |-> route.page, keys |-> {}, parent |-> {},
                 strayed |-> FALSE, cancelled |-> FALSE, status |-> "sent"]
           n == Rerender(m, route, cache)
<1>2. /\ dialog \in Dialog /\ dialog # NoDialog /\ ~isPending(dialog.kind)
      /\ UNCHANGED <<place, route, cache, dialog, told, missed, since>>
  BY PartsInv DEF Confirm, history
<1>3. dialog.kind = "folder" => to = "gone"
  BY <1>1
<1>4. to \in Place
  BY <1>1 DEF Place
<1>5. /\ m \in Mutation /\ m.op = dialog.kind /\ m.home = route.page
      /\ m.target = dialog.target /\ m.to = to
  BY <1>2, <1>3, <1>4, PartsInv, RouteKinds DEF Mutation, Dialog
<1>6. Holds(m.op, route, cache)
  BY <1>2, <1>5 DEF Inv, DialogInv
<1>7. route.page = "file" => cache[MetadataKey(route.at)].data \subseteq Folders
  BY PartsInv, RouteKinds, KeyKinds DEF EntryInv
<1>8. inflight' = inflight \cup {n}
  BY <1>1
<1> HIDE DEF m
<1>9. n \in Mutation /\ Same(m, n) /\ n.home = m.home /\ MutationInv(n)
  BY <1>3, <1>5, <1>6, <1>7, PartsInv, Rerendered
<1> HIDE DEF n
<1>10. inflight' \in SUBSET Mutation /\ MutationsInv'
  BY <1>8, <1>9, PartsInv DEF MutationsInv
<1>11. HomeInv'
  <2>1. n.op = dialog.kind /\ n.target = dialog.target /\ n.home = route.page
    BY <1>5, <1>9 DEF Same
  <2>2. \A i \in inflight : ~(i.op = n.op /\ i.home # "none")
    BY <1>2, <2>1 DEF isPending
  <2>3. \A i \in inflight' : i.home \in {"none", route'.page}
    BY <1>2, <1>8, <2>1 DEF Inv, HomeInv
  <2>4. \A i, j \in inflight' : i.op = j.op /\ i.home # "none" /\ j.home # "none" => i = j
    BY <1>8, <2>2 DEF Inv, HomeInv
  <2>5. DialogIsOwn'
    BY <1>2, <1>8, <2>1 DEF Inv, HomeInv, DialogIsOwn
  <2> QED
    BY <2>3, <2>4, <2>5 DEF HomeInv
<1>12. DialogInv' /\ Cached(cache')
  BY <1>2, PartsInv DEF Inv, DialogInv
<1>13. ToldsInv' /\ CountsInv'
  <2>1. \A k \in Keys : Safe(k, cache[k], cache'[k])
    BY <1>2, PartsInv, BeginFollows DEF Safe
  <2> QED
    BY <1>2, <2>1, ToldKept, CountsKept DEF ToldsInv
<1> QED
  BY <1>2, <1>10, <1>11, <1>12, <1>13, PartsInv, InvParts

-----------------------------------------------------------------------------
(* The server, and what comes back.                                         *)

\* A mutation's status changes, or it is gone.
LEMMA Answered ==
    ASSUME Inv, NEW m \in inflight, NEW s \in {"sent", "done", "refused"},
           inflight' \subseteq Replace(m, [m EXCEPT !.status = s]),
           UNCHANGED <<route, cache, dialog>>
    PROVE  inflight' \in SUBSET Mutation /\ DialogInv' /\ HomeInv' /\ MutationsInv'
<1>1. PICK n : n = [m EXCEPT !.status = s]
  OBVIOUS
<1>2. m \in Mutation /\ MutationInv(m)
  BY PartsInv
<1>3. /\ n \in Mutation /\ n.op = m.op /\ n.target = m.target /\ n.home = m.home
      /\ n.cancelled = m.cancelled /\ n.origin = m.origin /\ n.parent = m.parent
      /\ n.keys = m.keys /\ n.strayed = m.strayed /\ n.to = m.to
  BY <1>1, <1>2 DEF Mutation
<1>4. MutationInv(n)
  BY <1>2, <1>3, SameLeft DEF MutationInv
<1>5. \A i \in inflight' : i = n \/ (i \in inflight /\ i # m)
  BY <1>1 DEF Replace
<1>6. inflight' \in SUBSET Mutation /\ MutationsInv'
  BY <1>3, <1>4, <1>5, PartsInv DEF MutationsInv
<1>7. DialogInv'
  BY DEF Inv, DialogInv
<1>8. HomeInv'
  <2>1. \A i \in inflight' : i.home \in {"none", route'.page}
    BY <1>3, <1>5 DEF Inv, HomeInv
  <2>2. \A i, j \in inflight' : i.op = j.op /\ i.home # "none" /\ j.home # "none" => i = j
    BY <1>3, <1>5 DEF Inv, HomeInv
  <2>3. DialogIsOwn'
    BY <1>3, <1>5 DEF Inv, HomeInv, DialogIsOwn
  <2> QED
    BY <2>1, <2>2, <2>3 DEF HomeInv
<1> QED
  BY <1>6, <1>7, <1>8

\* Files vanish and one file moves: what is told gone after the returned rows
\* were taken out is gone on the server still.
LEMMA PlacesChange ==
    ASSUME Inv, NEW x, NEW to \in Place, told' = told \ Returned(x, to),
           place' \in [Files -> Place], UNCHANGED <<cache, missed>>,
           \A f \in Files : \/ place'[f] \in {place[f], "gone"}
                            \/ f = x /\ place'[f] = to
    PROVE  ToldsInv'
<1> SUFFICES ASSUME NEW t \in told' PROVE ToldInv(t)'
  BY DEF ToldsInv
<1>1. t \in told /\ t \notin Returned(x, to) /\ ToldInv(t) /\ t.key \in Keys /\ Listing(t.key)
  BY DEF Inv, TypeInv, ToldsInv, ToldInv
<1>2. ~(t.row \in {x, to} /\ t.key.at \in {to, Root, "all"})
  BY <1>1 DEF Returned
<1>3. t.row \notin Read(t.key)
  BY <1>1 DEF ToldInv
<1>4. t.row \notin Read(t.key)'
  <2>1. CASE t.key = FilesKey /\ t.key.query = "files"
    <3>1. Read(t.key) = {f \in Files : place[f] # "gone"}
      BY <2>1 DEF Read
    <3>2. Read(t.key)' = {f \in Files : place'[f] # "gone"}
      BY <2>1 DEF Read
    <3>3. t.key.at = "all"
      BY <2>1 DEF FilesKey
    <3> QED
      BY <1>2, <1>3, <3>1, <3>2, <3>3
  <2>2. CASE t.key.at \in Folders /\ t.key.query = "directory"
    <3>1. Read(t.key) = In(t.key.at) \cup (IF t.key.at = Root THEN NonEmpty ELSE {})
      BY <2>2 DEF Read
    <3>2. Read(t.key)' = In(t.key.at)' \cup (IF t.key.at = Root THEN NonEmpty' ELSE {})
      BY <2>2 DEF Read
    <3>3. \A d \in Folders : d # "gone"
      BY ConstantsAssumption DEF Folders
    <3>4. t.row \notin In(t.key.at)'
      BY <1>2, <1>3, <2>2, <3>1, <3>3 DEF In
    <3>5. ASSUME t.key.at = Root, t.row \in NonEmpty' PROVE FALSE
      <4>1. t.row \in Subfolders /\ t.row \in Folders
        BY <3>5, RootIsFolder DEF NonEmpty
      <4>2. PICK f \in Files : place'[f] = t.row
        BY <3>5 DEF NonEmpty, In
      <4>3. place[f] # t.row
        BY <1>3, <3>1, <3>5, <4>1 DEF NonEmpty, In
      <4>4. place'[f] = to
        BY <3>3, <4>1, <4>2, <4>3
      <4> QED
        BY <1>2, <3>5, <4>2, <4>4
    <3> QED
      BY <3>2, <3>4, <3>5
  <2> QED
    BY <1>1, <2>1, <2>2, ListingKinds
<1> QED
  BY <1>1, <1>4 DEF ToldInv, Current

\* A folder's new number of files is noted.
LEMMA CountsNoted ==
    ASSUME Inv, UNCHANGED <<cache, dialog>>, NoteCounts PROVE CountsInv'
<1>1. since' = [d \in Subfolders |-> since[d] \cup {Cardinality(In(d)')}]
  BY DEF NoteCounts
<1>2. ASSUME NEW d \in Subfolders PROVE CountInv(d)'
  <2>1. CountInv(d)
    BY DEF Inv, CountsInv
  <2>2. since'[d] = since[d] \cup {Cardinality(In(d)')} /\ Cardinality(In(d))' = Cardinality(In(d)')
    BY <1>1
  <2> QED
    BY <2>1, <2>2 DEF CountInv, Settled
<1> QED
  BY <1>1, <1>2 DEF CountsInv

LEMMA UntoldKept ==
    ASSUME Inv, UNCHANGED <<place, cache, told, missed>> PROVE ToldsInv'
<1>1. \A k \in Keys : Safe(k, cache[k], cache'[k])
  BY PartsInv, BeginFollows DEF Safe
<1> QED
  BY <1>1, ToldKept DEF ToldsInv

LEMMA ApplyInv ==
    ASSUME Inv, NEW m \in inflight, Apply(m) PROVE Inv'
<1>1. UNCHANGED <<route, cache, dialog, missed>> /\ NoteCounts
  BY DEF Apply
<1>2. m \in Mutation /\ MutationInv(m) /\ m.to \in Place /\ place \in [Files -> Place]
  BY PartsInv DEF Mutation
<1>3. PICK s \in {"sent", "done", "refused"} : inflight' = Replace(m, [m EXCEPT !.status = s])
  BY DEF Apply
<1>4. inflight' \in SUBSET Mutation /\ DialogInv' /\ HomeInv' /\ MutationsInv'
  BY <1>1, <1>3, Answered
<1>5. place' \in [Files -> Place] /\ told' \subseteq told /\ ToldsInv'
  <2>1. CASE UNCHANGED <<place, told>>
    BY <1>1, <1>2, <2>1, UntoldKept
  <2>2. CASE /\ place' = [f \in Files |-> IF f \in (IF m.op = "folder" THEN In(m.target)
                                                                      ELSE {m.target})
                                          THEN m.to ELSE place[f]]
             /\ told' = told \ Returned(m.target, m.to)
    <3>1. place' \in [Files -> Place]
      BY <1>2, <2>2
    <3>2. \A f \in Files : \/ place'[f] \in {place[f], "gone"}
                           \/ f = m.target /\ place'[f] = m.to
      BY <1>2, <2>2 DEF MutationInv
    <3> QED
      BY <1>1, <1>2, <2>2, <3>1, <3>2, PlacesChange
  <2> QED
    BY <2>1, <2>2 DEF Apply
<1>6. told' \in SUBSET [key : Keys, row : Row]
  BY <1>5, PartsInv
<1>7. route' \in Routes /\ Cached(cache') /\ dialog' \in Dialog \cup {NoDialog}
  BY <1>1, PartsInv
<1> QED
  BY <1>1, <1>4, <1>5, <1>6, <1>7, CountsNoted, InvParts

LEMMA OthersChangeInv ==
    ASSUME Inv, OthersChange PROVE Inv'
<1>1. UNCHANGED <<route, cache, dialog, inflight, missed>> /\ NoteCounts
  BY DEF OthersChange
<1>2. PICK f \in Files, to \in Place :
          place' = [place EXCEPT ![f] = to] /\ told' = told \ Returned(f, to)
  BY DEF OthersChange, Place
<1>3. place' \in [Files -> Place]
  BY <1>2, PartsInv
<1>4. \A g \in Files : place'[g] \in {place[g], "gone"} \/ (g = f /\ place'[g] = to)
  BY <1>2, PartsInv
<1>5. ToldsInv'
  BY <1>1, <1>2, <1>3, <1>4, PlacesChange
<1>6. Cached(cache') /\ route' \in Routes /\ dialog' \in Dialog \cup {NoDialog}
      /\ inflight' \in SUBSET Mutation
  BY <1>1, PartsInv
<1>7. told' \in SUBSET [key : Keys, row : Row]
  BY <1>2, PartsInv
<1>8. TableShown(route, cache) => TableShown(route, cache')
  BY <1>1
<1>9. DialogInv' /\ HomeInv' /\ MutationsInv'
  BY <1>1, <1>6, <1>8, Kept
<1> QED
  BY <1>1, <1>3, <1>5, <1>6, <1>7, <1>9, CountsNoted, InvParts

\* A reply that is lost, or an error: nothing but the mutation changes.
LEMMA UnansweredInv ==
    ASSUME Inv, NEW m \in inflight, ReplyLost(m) \/ onError(m) PROVE Inv'
<1>1. UNCHANGED <<place, route, cache, dialog, told, missed, since>>
  BY DEF ReplyLost, onError, history
<1>2. inflight' \subseteq Replace(m, [m EXCEPT !.status = "refused"])
  BY DEF ReplyLost, onError, Replace
<1>3. inflight' \in SUBSET Mutation /\ DialogInv' /\ HomeInv' /\ MutationsInv'
  BY <1>1, <1>2, Answered
<1>4. ToldsInv' /\ CountsInv'
  <2>1. \A k \in Keys : Safe(k, cache[k], cache'[k])
    BY <1>1, PartsInv, BeginFollows DEF Safe
  <2> QED
    BY <1>1, <2>1, UntoldKept, CountsKept
<1>5. place' \in [Files -> Place] /\ route' \in Routes /\ dialog' \in Dialog \cup {NoDialog}
      /\ told' \in SUBSET [key : Keys, row : Row] /\ Cached(cache')
  BY <1>1, PartsInv
<1> QED
  BY <1>3, <1>4, <1>5, InvParts

LEMMA InvalidateEntries ==
    ASSUME Inv, NEW ks, NEW k \in Keys
    PROVE  LET new == Invalidate(ks)[k] IN
           /\ EntryInv(k, new) /\ Follows(k, cache[k], new) /\ Counts(k, cache[k], new)
           /\ k \in ks =>
                 \/ ~Current(new) /\ new.fetch # "read" /\ (new.loaded => new.invalidated)
                 \/ cache[k].fetch # "none" /\ (k \notin Active \/ ~cache[k].loaded)
           /\ new.loaded = cache[k].loaded /\ new.data = cache[k].data
           /\ new.error => cache[k].error
<1> DEFINE e == cache[k]
           new == Invalidate(ks)[k]
<1>1. e \in Entry /\ EntryInv(k, e)
  BY PartsInv
<1>2. CASE k \in ks /\ Restarts(k)
  <2>1. new = [Begin(e) EXCEPT !.invalidated = e.loaded]
    BY <1>2 DEF Invalidate
  <2> HIDE DEF new, e
  <2>2. /\ new \in Entry /\ new.loaded = e.loaded /\ new.invalidated = e.loaded
        /\ new.data = e.data /\ new.fetch = "asked" /\ new.got = {} /\ new.next = FALSE
        /\ new.error => e.error
    BY <1>1, <2>1, BeginEntry DEF Entry
  <2> QED
    BY <1>1, <2>2 DEF EntryInv, Follows, Counts, Current, Settled, ReadInFull, e, new
<1>3. CASE k \in ks /\ ~Restarts(k)
  <2>1. new = [e EXCEPT !.invalidated = e.loaded]
    BY <1>3 DEF Invalidate
  <2>2. e.fetch # "none" => k \notin Active \/ ~e.loaded
    BY <1>3 DEF Restarts
  <2> HIDE DEF new, e
  <2>3. /\ new \in Entry /\ new.loaded = e.loaded /\ new.invalidated = e.loaded
        /\ new.data = e.data /\ new.fetch = e.fetch /\ new.got = e.got
        /\ new.next = e.next /\ new.error = e.error
    BY <1>1, <2>1 DEF Entry
  <2> QED
    BY <1>1, <2>2, <2>3 DEF EntryInv, Follows, Counts, Current, Settled, ReadInFull, e, new
<1>4. CASE k \notin ks
  <2>1. new = e
    BY <1>4 DEF Invalidate
  <2> QED
    BY <1>1, <1>4, <2>1, BeginFollows
<1> QED
  BY <1>2, <1>3, <1>4

LEMMA OnSuccessInv ==
    ASSUME Inv, NEW m \in inflight, onSuccess(m) PROVE Inv'
<1> DEFINE c == Invalidate(m.keys)
           navigates == m.op = "delete" /\ m.origin.page = "file"
           closes == m.home # "none" /\ dialog.kind = m.op
           rest == inflight \ {m}
<1>1. /\ \/ navigates /\ \E d \in m.parent :
                Commit(Browse(d), Mount(c, {DirectoryKey(d)}, FALSE), dialog, rest)
         \/ ~navigates /\ Commit(route, c, IF closes THEN NoDialog ELSE dialog, rest)
      /\ told' = told \cup {t \in Left(m) : t.row \notin Read(t.key)}
      /\ missed' = missed \cup (IF m.strayed THEN {t.key : t \in Left(m)} ELSE {})
                       \cup {k \in m.keys : cache[k].fetch # "none" /\
                                         (k \notin Active \/ ~cache[k].loaded)}
      /\ UNCHANGED <<place, since>>
  BY DEF onSuccess
<1>2. m \in Mutation /\ MutationInv(m) /\ m.keys \subseteq Keys /\ m.parent \subseteq Folders
  BY PartsInv DEF Mutation
<1>3. Cached(c)
  <2>1. c = [k \in Keys |-> c[k]]
    BY DEF Invalidate
  <2>2. \A k \in Keys : EntryInv(k, c[k])
    BY InvalidateEntries
  <2> HIDE DEF c
  <2> QED
    BY <2>1, <2>2 DEF Cached
<1>4. \A k \in Keys :
         /\ Follows(k, cache[k], c[k]) /\ Counts(k, cache[k], c[k])
         /\ k \in m.keys =>
               \/ ~Current(c[k]) /\ c[k].fetch # "read" /\ (c[k].loaded => c[k].invalidated)
               \/ cache[k].fetch # "none" /\ (k \notin Active \/ ~cache[k].loaded)
  BY InvalidateEntries
<1> HIDE DEF c
<1>5. closes => \A i \in rest : i.home = "none" \/ i.cancelled
  BY DEF Inv, HomeInv, DialogIsOwn
<1>6. /\ route' \in Routes /\ Cached(cache') /\ dialog' \in Dialog \cup {NoDialog}
      /\ inflight' \in SUBSET Mutation /\ DialogInv' /\ HomeInv' /\ MutationsInv'
      /\ \A k \in Keys : cache'[k] = c[k] \/ (c[k].fetch = "none" /\ cache'[k] = Begin(c[k]))
      /\ dialog' \in {dialog, NoDialog}
  <2>1. CASE \E d \in m.parent :
                Commit(Browse(d), Mount(c, {DirectoryKey(d)}, FALSE), dialog, rest)
    <3>1. PICK d \in m.parent :
              Commit(Browse(d), Mount(c, {DirectoryKey(d)}, FALSE), dialog, rest)
      BY <2>1
    <3>2. Browse(d) \in Routes
      BY <1>2 DEF Routes
    <3>3. Cached(Mount(c, {DirectoryKey(d)}, FALSE))
      BY <1>3, MountCached
    <3>4. cache' = Mount(c, {DirectoryKey(d)}, FALSE)
      BY <3>1 DEF Commit
    <3>5. \A k \in Keys :
             cache'[k] = c[k] \/ (c[k].fetch = "none" /\ cache'[k] = Begin(c[k]))
      <4> SUFFICES ASSUME NEW k \in Keys
                   PROVE  cache'[k] = c[k] \/ (c[k].fetch = "none" /\ cache'[k] = Begin(c[k]))
        OBVIOUS
      <4> QED
        BY <3>4 DEF Mount
    <3>6. /\ route' \in Routes /\ Cached(cache') /\ dialog' \in Dialog \cup {NoDialog}
          /\ inflight' \in SUBSET Mutation /\ DialogInv' /\ HomeInv' /\ MutationsInv'
      BY <3>1, <3>2, <3>3, Committed
    <3>7. dialog' \in {dialog, NoDialog}
      BY <3>1 DEF Commit
    <3> QED
      BY <3>5, <3>6, <3>7
  <2>2. CASE Commit(route, c, IF closes THEN NoDialog ELSE dialog, rest)
    <3>1. cache' = c /\ route \in Routes
      BY <2>2, PartsInv DEF Commit
    <3>2. PICK d : d = IF closes THEN NoDialog ELSE dialog
      OBVIOUS
    <3>3. d = dialog \/ (d = NoDialog /\ \A i \in rest : i.home = "none" \/ i.cancelled)
      BY <1>5, <3>2
    <3>4. Commit(route, c, d, rest) /\ rest \subseteq inflight /\ dialog' \in {d, NoDialog}
      BY <2>2, <3>2 DEF Commit
    <3> QED
      BY <1>3, <3>1, <3>3, <3>4, Committed
  <2> QED
    BY <1>1, <2>1, <2>2
<1>7. \A k \in Keys : c[k] \in Entry
  BY <1>3 DEF Cached, EntryInv
<1>8. \A k \in Keys : Safe(k, cache[k], cache'[k])
  <2> SUFFICES ASSUME NEW k \in Keys PROVE Safe(k, cache[k], cache'[k])
    OBVIOUS
  <2>1. CASE cache'[k] = c[k]
    BY <1>1, <1>4, <2>1, Unmissed
  <2>2. CASE c[k].fetch = "none" /\ cache'[k] = Begin(c[k])
    <3>1. Follows(k, c[k], Begin(c[k])) /\ Counts(k, c[k], Begin(c[k]))
      BY <1>7, <2>2, BeginFollows
    <3>2. Begin(c[k]).fetch = "asked"
      BY <1>7, BeginEntry
    <3>3. Follows(k, cache[k], cache'[k]) /\ Counts(k, cache[k], cache'[k])
      BY <1>4, <2>2, <3>1, <3>2 DEF Follows, Counts, Settled
    <3> QED
      BY <1>1, <3>3, Unmissed
  <2> QED
    BY <1>6, <2>1, <2>2
<1>9. (\A t \in told : ToldInv(t)') /\ CountsInv'
  BY <1>1, <1>6, <1>8, ToldKept, CountsKept
<1>10. ASSUME NEW t \in Left(m), t.row \notin Read(t.key)
       PROVE  t \in [key : Keys, row : Row] /\ ToldInv(t)'
  <2>1. t = [key |-> t.key, row |-> m.target] /\ t.key \in Keys /\ Listing(t.key)
    BY <1>2, LeftRows
  <2>2. t \in [key : Keys, row : Row]
    BY <1>2, <2>1 DEF Mutation
  <2>3. Read(t.key)' = Read(t.key)
    BY <1>1 DEF Read, In, NonEmpty
  <2>4. CASE m.strayed
    BY <1>1, <1>10, <2>1, <2>2, <2>3, <2>4 DEF ToldInv
  <2>5. CASE ~m.strayed
    <3>1. t.key \in m.keys
      BY <1>2, <2>5 DEF MutationInv
    <3>2. CASE cache[t.key].fetch # "none" /\ (t.key \notin Active \/ ~cache[t.key].loaded)
      <4>1. t.key \in missed'
        BY <1>1, <3>1, <3>2
      <4> QED
        BY <1>10, <2>1, <2>2, <2>3, <4>1 DEF ToldInv
    <3>3. CASE /\ ~Current(c[t.key]) /\ c[t.key].fetch # "read"
               /\ c[t.key].loaded => c[t.key].invalidated
      <4>1. ~Current(cache'[t.key]) /\ cache'[t.key].fetch # "read"
        <5> DEFINE b == c[t.key]
        <5>1. b \in Entry /\ (cache'[t.key] = b \/ cache'[t.key] = Begin(b))
          BY <1>6, <1>7, <2>1
        <5>2. ~Current(b) /\ b.fetch # "read" /\ (b.loaded => b.invalidated)
          BY <3>3
        <5> HIDE DEF b
        <5>3. ~Current(Begin(b)) /\ Begin(b).fetch # "read"
          BY <5>1, <5>2, BeginEntry DEF Current
        <5> QED
          BY <5>1, <5>2, <5>3
      <4> QED
        BY <1>10, <2>1, <2>2, <2>3, <4>1 DEF ToldInv, Current
    <3> QED
      BY <1>4, <2>1, <3>1, <3>2, <3>3
  <2> QED
    BY <2>4, <2>5
<1>11. ToldsInv' /\ told' \in SUBSET [key : Keys, row : Row]
  BY <1>1, <1>9, <1>10, PartsInv DEF ToldsInv
<1>12. place' \in [Files -> Place]
  BY <1>1, PartsInv
<1> QED
  BY <1>6, <1>9, <1>11, <1>12, InvParts

-----------------------------------------------------------------------------
(* The theorems.                                                            *)

LEMMA NextInv == Inv /\ [Next]_vars => Inv'
<1> SUFFICES ASSUME Inv, [Next]_vars PROVE Inv'
  OBVIOUS
<1>1. CASE UNCHANGED vars
  <2>1. UNCHANGED <<place, route, cache, dialog, inflight, told, missed, since>>
    BY <1>1 DEF vars, history
  <2>2. Cached(cache')
    BY <2>1, PartsInv
  <2>3. DialogInv' /\ HomeInv' /\ MutationsInv'
    BY <2>1, <2>2, Kept
  <2>4. ToldsInv' /\ CountsInv'
    <3>1. \A k \in Keys : Safe(k, cache[k], cache'[k])
      BY <2>1, PartsInv, BeginFollows DEF Safe
    <3> QED
      BY <2>1, <3>1, UntoldKept, CountsKept
  <2> QED
    BY <2>1, <2>2, <2>3, <2>4, PartsInv, InvParts
<1>2. CASE Next
  <2>1. CASE \E k \in Keys : Fetch(k) \/ FetchFails(k) \/ PollPatches(k)
    BY <2>1, FetchReadsInv, FetchArrivesInv, FetchFailsInv, PollPatchesInv DEF Fetch
  <2>7. CASE Scroll
    BY <2>7, ScrollInv
  <2>2. CASE \E r \in Routes : Visit(r)
    BY <2>2, VisitInv
  <2>3. CASE OpenFromTable \/ OpenFromPage \/ Cancel \/ Confirm
    BY <2>3, OpenFromTableInv, OpenFromPageInv, CancelInv, ConfirmInv
  <2>4. CASE \E m \in inflight : Apply(m) \/ ReplyLost(m)
    BY <2>4, ApplyInv, UnansweredInv
  <2>5. CASE Settle
    BY <2>5, OnSuccessInv, UnansweredInv DEF Settle
  <2>6. CASE OthersChange
    BY <2>6, OthersChangeInv
  <2> QED
    BY <1>2, <2>1, <2>2, <2>3, <2>4, <2>5, <2>6, <2>7 DEF Next
<1> QED
  BY <1>1, <1>2

\* The inductive invariant: routes, entries, dialogs and mutations are well
\* formed, a mutation's component is mounted at most once per kind, and a row
\* that is told gone is gone on the server, on the screen and on the way.
THEOREM FileActionsInvariant == Spec => []Inv
<1>1. Init => Inv
  BY InitInv
<1>2. Inv /\ [Next]_vars => Inv'
  BY NextInv
<1> QED
  BY <1>1, <1>2, PTL DEF Spec

\* The variables keep their types, in particular a fetch that has not read has
\* brought nothing, and a mounted mutation is of the page on screen.
THEOREM ActionsTypeCorrect == Spec => []TypeOK
<1>1. Inv => TypeOK
  <2> SUFFICES ASSUME Inv PROVE TypeOK
    OBVIOUS
  <2>1. place \in [Files -> Folders \cup {"gone"}] /\ route \in Routes
    BY PartsInv DEF Place
  <2>2. \A k \in Keys :
          /\ cache[k].fetch \in {"none", "asked", "read"}
          /\ cache[k].fetch # "none" => cache[k].got = {} \/ cache[k].fetch = "read"
          /\ cache[k].invalidated => cache[k].loaded
    BY PartsInv DEF EntryInv, Entry
  <2>3. dialog.kind \in {"none", "delete", "move", "folder"}
    BY PartsInv DEF Dialog, NoDialog, Kind
  <2>4. \A m \in inflight : m.keys \subseteq Keys /\ m.home \in {"none", route.page}
    BY PartsInv DEF Inv, HomeInv, Mutation
  <2>5. told \subseteq [key : Keys, row : Files \cup Subfolders]
    BY PartsInv DEF Row
  <2> QED
    BY <2>1, <2>2, <2>3, <2>4, <2>5 DEF TypeOK
<1> QED
  BY <1>1, FileActionsInvariant, PTL

\* A row whose deletion or move succeeded is not in the listing it was started
\* from once that is current for the cache, except until the next full reading of
\* a listing that the invalidation came to nothing for (see ToldIsGone).
THEOREM DeletedRowsStayGone == Spec => []ToldIsGone
<1>1. Inv => ToldIsGone
  BY DEF Inv, ToldsInv, ToldInv, ToldIsGone, Current, ReadInFull
<1> QED
  BY <1>1, FileActionsInvariant, PTL

\* A reply's own step closes no dialog but by its callback, or by leaving the page.
LEMMA ClosedDialog ==
    ASSUME Inv, NEW m \in inflight, Closes(m)
    PROVE  \/ m.home # "none" /\ dialog.kind = m.op
           \/ m.op = "delete" /\ m.origin.page = "file"
<1> DEFINE c == Invalidate(m.keys)
<1>1. SUFFICES ASSUME ~(m.op = "delete" /\ m.origin.page = "file"),
                      ~(m.home # "none" /\ dialog.kind = m.op)
               PROVE  FALSE
  OBVIOUS
<1>2. Commit(route, c, dialog, inflight \ {m}) /\ dialog # NoDialog /\ dialog' = NoDialog
  BY <1>1 DEF Closes, onSuccess
<1>3. ~Holds(dialog.kind, route, c) /\ Holds(dialog.kind, route, cache)
  BY <1>2 DEF Commit, Inv, DialogInv
<1>4. TableShown(route, cache) /\ ~TableShown(route, c)
  BY <1>3 DEF Holds
<1>5. PageKey(route) \in Keys
  BY PartsInv, PageKeys
<1>6. LET k == PageKey(route) IN
         /\ c[k].loaded = cache[k].loaded /\ c[k].data = cache[k].data
         /\ c[k].error => cache[k].error
  BY <1>5, InvalidateEntries
<1> QED
  BY <1>4, <1>6 DEF TableShown, ListShown

\* The dialog a reply closes or reports in is the one it was confirmed in, unless
\* the user cancelled that one or has left the page of the file deleted.
THEOREM RepliesReach == Spec => RepliesReachTheirDialog
<1> DEFINE Own(m) == dialog.kind = m.op /\ dialog.target = m.target
<1>1. Inv => Reached
  <2> SUFFICES ASSUME Inv, NEW m \in inflight, Closes(m) \/ Alerts(m)
               PROVE  Own(m) \/ m.cancelled \/ FromPageLeft(m)
    BY DEF Reached
  <2>1. m.home # "none" => Own(m) \/ m.cancelled
    BY DEF Inv, HomeInv, DialogIsOwn
  <2>2. CASE m.home # "none"
    BY <2>1, <2>2
  <2>3. CASE m.home = "none"
    <3>1. Closes(m)
      BY <2>3 DEF Alerts
    <3>2. m.op = "delete" /\ m.origin.page = "file"
      BY <2>3, <3>1, ClosedDialog
    <3> QED
      BY <2>3, <3>1, <3>2 DEF FromPageLeft
  <2> QED
    BY <2>2, <2>3
<1>2. Inv /\ [Next]_vars => [Reached]_vars
  BY <1>1
<1> QED
  BY <1>2, FileActionsInvariant, PTL DEF Spec, RepliesReachTheirDialog

\* The number of files shown before a folder is deleted, once it is not being
\* fetched again, is one the folder has had since the dialog was opened.
THEOREM FoldersAreCounted == Spec => []CountIsOfThisOpening
<1>1. Inv => CountIsOfThisOpening
  <2> SUFFICES ASSUME Inv, Counted(dialog) = "shown", cache[StatsKey(dialog.target)].fetch = "none"
               PROVE  cache[StatsKey(dialog.target)].data \subseteq since[dialog.target]
    BY DEF CountIsOfThisOpening
  <2>1. dialog.kind = "folder" /\ Settled(cache[StatsKey(dialog.target)])
    BY DEF Counted, Settled
  <2>2. dialog.target \in Subfolders
    BY <2>1 DEF Inv, DialogInv
  <2> QED
    BY <2>1, <2>2 DEF Inv, CountsInv, CountInv
<1> QED
  BY <1>1, FileActionsInvariant, PTL
=============================================================================
