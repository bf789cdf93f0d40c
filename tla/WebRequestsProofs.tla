------------------------- MODULE WebRequestsProofs -------------------------
(***************************************************************************)
(* What the web client asks for is accepted, what it shows is what it      *)
(* asked for, and the metadata it shows is what was stored: for any texts, *)
(* types, paths, ids, links and images, and any order of the replies.      *)
(*                                                                         *)
(* The invariant says that everything a list will ever send is written in  *)
(* its query key: a call under way, of the filters in force or of earlier  *)
(* ones, asks what its key says, with no token or with one that was issued *)
(* for that key.  A cached lookup answers its own text or none, and the    *)
(* path of the move dialog names a directory.  The calls to the files      *)
(* service are then followed, method by method, through the validator, the *)
(* wire and the service.                                                   *)
(***************************************************************************)
EXTENDS WebRequests, FiniteSetTheorems, SequenceTheorems, TLAPS

-----------------------------------------------------------------------------
(* The inductive invariant.                                                 *)

\* A path as a URL may hold it, and one that names a directory.
Browsed == Seq(Name) \ {<<>>}
Directory == {p \in Browsed : Last(p) = ""}

LocationOK(l) ==
    /\ l.route \in Route
    /\ l.route = "/" => l.filters \in [path : Browsed, sort : SORT_FIELDS, order : SORT_ORDERS]
    /\ l.route = "/search" => l.filters \in SearchFilters
    /\ l.route = "/recents" => l.filters \in ListFilters

\* What a list asks for is written in its key.
KeyOK(k) ==
    /\ k[1] \in {"directory", "photos", "files"}
    /\ k[1] = "directory" => k[2] \in Browsed /\ k[3] \in SORT_FIELDS /\ k[4] \in SORT_ORDERS
    /\ k[1] = "files" => k[2] \in SearchFilters

InputOf(k, token) ==
    CASE k[1] = "directory" ->
            [path |-> k[2], pageSize |-> PAGE_SIZE, pageToken |-> token,
             sortField |-> k[3], sortOrder |-> k[4]]
      [] k[1] = "photos" ->
            [pageSize |-> PHOTO_PAGE_SIZE, pageToken |-> token, query |-> "",
             contentType |-> "image/", sortField |-> "takenAt", sortOrder |-> "desc"]
      [] k[1] = "files" ->
            [pageSize |-> PAGE_SIZE, pageToken |-> token, query |-> k[2].query,
             contentType |-> k[2].type, sortField |-> k[2].sort, sortOrder |-> k[2].order]

\* A token was issued for the list that sends it back.
Issued(k, t) ==
    LET i == InputOf(k, NoToken)
    IN  /\ t \in PageToken
        /\ t.sortField = SORT_FIELD_PB[i.sortField] /\ t.sortOrder = SORT_ORDER_PB[i.sortOrder]
        /\ IF k[1] = "directory" THEN t.path = normalizeDirPath(i.path)
           ELSE t.query = i.query /\ t.contentType = i.contentType
Fits(k, t) == t = NoToken \/ Issued(k, t)

Answers(k) == {Query(InputOf(k, NoToken))}

CallOK(k, c) ==
    /\ LocationOK(c.at) /\ HasList(c.at) /\ ListKey(c.at) = k
    /\ c.input = InputOf(k, c.input.pageToken) /\ Fits(k, c.input.pageToken)
    /\ c.asked \subseteq Answers(k)

EntryOK(k, e) ==
    /\ e = [pages |-> e.pages, next |-> e.next, asked |-> e.asked, call |-> e.call]
    /\ Fits(k, e.next) /\ e.asked \subseteq Answers(k)
    /\ e.call # NoCall => CallOK(k, e.call)

ListsInv ==
    /\ LocationOK(loc)
    /\ \A k \in DOMAIN lists : KeyOK(k) /\ EntryOK(k, lists[k])

\* A cached lookup answers its own text or none.
SuggestionOK(k, s) ==
    /\ k[1] \in Lookup /\ k[2] \in Text /\ k = SuggestionKey(k[1], k[2])
    /\ s = [of |-> s.of, rows |-> s.rows, fetching |-> s.fetching]
    /\ s.of \in {NoData, k[2]} /\ s.fetching \in {NoData, k[2]} /\ s.rows \in BOOLEAN
    /\ s.rows => s.of = k[2]

\* The lookups of the query in the box have answered, or will, or a call failed.
LookedUp(s, text) == s.of = text \/ s.fetching = text \/ faults > 0

BoxInv ==
    /\ box \in [input : Input, query : Text, timer : BOOLEAN, open : BOOLEAN]
    /\ faults \in Nat
    /\ suggestions = [k \in DOMAIN suggestions |-> suggestions[k]]
    /\ \A k \in DOMAIN suggestions : SuggestionOK(k, suggestions[k])
    /\ box.query # "" =>
          \A kind \in Lookup : /\ SuggestionKey(kind, box.query) \in DOMAIN suggestions
                               /\ LookedUp(suggestions[SuggestionKey(kind, box.query)], box.query)

ImageOK(m) == m.image \in Images /\ m = [image |-> m.image, lines |-> Lines(m.image)]
DialogOK(m) ==
    /\ m = [id |-> m.id, key |-> m.key, viewPath |-> m.viewPath]
    /\ m.key \in Browsed /\ m.viewPath \in Directory /\ Canonical(m.id)
ModalInv ==
    /\ \A m, n \in modal : m = n
    /\ \A m \in modal : \/ DOMAIN m = {"image", "lines"} /\ ImageOK(m)
                        \/ DOMAIN m = {"id", "key", "viewPath"} /\ DialogOK(m)

RefusedInv == \A input \in refused : "path" \in DOMAIN input /\ hasDotDotSegment(input.path)

Inv == ListsInv /\ BoxInv /\ ModalInv /\ RefusedInv

LEMMA LastOf ==
    ASSUME NEW S, NEW p \in Seq(S), p # <<>>
    PROVE  Len(p) \in Nat \ {0} /\ p[Len(p)] \in S /\ Last(p) = p[Len(p)]
BY DEF Last

LEMMA FrontOf ==
    ASSUME NEW S, NEW p \in Seq(S), p # <<>>
    PROVE  /\ Front(p) \in Seq(S) /\ Len(Front(p)) = Len(p) - 1
           /\ \A i \in 1 .. Len(p) - 1 : Front(p)[i] = p[i]
<1> DEFINE n == Len(p) - 1
<1>1. Len(p) \in Nat \ {0} /\ n \in Nat /\ n \in Int /\ 1 \in Int
  BY LastOf
<1>2. \A i \in 1 .. n : p[i] \in S
  BY <1>1
<1> HIDE DEF n
<1>3. /\ SubSeq(p, 1, n) \in Seq(S) /\ Len(SubSeq(p, 1, n)) = IF 1 <= n THEN n - 1 + 1 ELSE 0
      /\ \A i \in 1 .. n - 1 + 1 : SubSeq(p, 1, n)[i] = p[1 + i - 1]
  BY <1>1, <1>2, SubSeqProperties
<1>4. n - 1 + 1 = n /\ \A i \in 1 .. n : 1 + i - 1 = i
  BY <1>1
<1> QED
  BY <1>1, <1>3, <1>4 DEF Front, n

LEMMA SeqOfMore ==
    ASSUME NEW S, NEW T, S \subseteq T, NEW p \in Seq(S)
    PROVE  p \in Seq(T)
<1>1. p \in [1 .. Len(p) -> S] /\ Len(p) \in Nat
  OBVIOUS
<1>2. p \in [1 .. Len(p) -> T]
  BY <1>1
<1> QED
  BY <1>1, <1>2

LEMMA OneOf ==
    ASSUME NEW S, NEW x \in S
    PROVE  /\ <<x>> \in Seq(S) /\ <<x>> # <<>> /\ Len(<<x>>) = 1 /\ <<x>>[1] = x
           /\ Front(<<x>>) = <<>> /\ Last(<<x>>) = x /\ DOMAIN <<x>> = {1}
<1>1. <<x>> \in Seq(S) /\ <<x>> # <<>> /\ Len(<<x>>) = 1 /\ <<x>>[1] = x /\ DOMAIN <<x>> = {1}
  OBVIOUS
<1>2. Front(<<x>>) \in Seq(S) /\ Len(Front(<<x>>)) = 0
  BY <1>1, FrontOf
<1> QED
  BY <1>1, <1>2 DEF Last

LEMMA SameSeq ==
    ASSUME NEW S, NEW p \in Seq(S), NEW q \in Seq(S), Len(p) = Len(q),
           \A i \in 1 .. Len(p) : p[i] = q[i]
    PROVE  p = q
OBVIOUS

-----------------------------------------------------------------------------
(* The metadata table.                                                      *)

Class == {"zero", "number", "text", "timestamp"}
MayBeZero == ZeroIsAReading \cup {"gpsAltitude"}

\* What the indexer keeps of the two blocks.
LEMMA KeptExif ==
    ASSUME NEW tags, \A f \in DOMAIN tags : tags[f] \in Class
    PROVE  LET e == applyExif(tags)
           IN  /\ e = [hasExif |-> e.hasExif, values |-> e.values]
               /\ e.hasExif \in BOOLEAN
               /\ e.values = [f \in DOMAIN e.values |-> e.values[f]]
               /\ DOMAIN e.values \subseteq ExifField
               /\ \A f \in DOMAIN e.values : e.values[f] \in Class
               /\ \A f \in DOMAIN e.values \ MayBeZero : e.values[f] # "zero"
<1> DEFINE found == NonZero(Fields(tags, ExifField))
           pair == Coordinates \subseteq found
           sure == IF pair THEN found ELSE found \ Coordinates
           hasExif == sure \cap Definitive # {}
           kept == sure \cup (IF hasExif THEN ZeroIsAReading ELSE {})
                        \cup (IF pair THEN {"gpsAltitude"} ELSE {})
           value(f) == IF f \in DOMAIN tags THEN tags[f] ELSE "zero"
<1>1. found \subseteq ExifField \cap DOMAIN tags /\ \A f \in found : tags[f] # "zero"
  BY DEF NonZero, Fields
<1>2. ZeroIsAReading \subseteq ExifField /\ "gpsAltitude" \in ExifField
  BY DEF ZeroIsAReading, ExifField, CameraNumber, GPSField
<1>3. applyExif(tags) = [hasExif |-> hasExif, values |-> [f \in kept |-> value(f)]]
  BY DEF applyExif
<1>4. sure \subseteq found
  OBVIOUS
<1>5. kept \subseteq ExifField /\ \A f \in kept \ MayBeZero : f \in found
  <2> HIDE DEF hasExif, pair, found, sure
  <2> QED
    BY <1>1, <1>2, <1>4 DEF MayBeZero
<1>6. \A f : value(f) \in Class
  BY DEF Class
<1>7. \A f \in kept \ MayBeZero : value(f) # "zero"
  BY <1>1, <1>5
<1>8. hasExif \in BOOLEAN
  OBVIOUS
<1> HIDE DEF hasExif, kept, value
<1> DEFINE e == [hasExif |-> hasExif, values |-> [f \in kept |-> value(f)]]
<1>9. e.hasExif = hasExif /\ e.values = [f \in kept |-> value(f)]
  OBVIOUS
<1>10. DOMAIN e.values = kept /\ \A f \in kept : e.values[f] = value(f)
  BY <1>9
<1>11. e = [hasExif |-> e.hasExif, values |-> e.values]
  BY <1>9
<1> HIDE DEF e
<1> QED
  BY <1>3, <1>5, <1>6, <1>7, <1>8, <1>9, <1>10, <1>11 DEF e

LEMMA KeptXmp ==
    ASSUME NEW tags, \A f \in DOMAIN tags : tags[f] \in Class
    PROVE  LET x == applyXMP(tags)
           IN  /\ x = [hasXmp |-> x.hasXmp, values |-> x.values]
               /\ x.hasXmp \in BOOLEAN
               /\ x.values = [f \in DOMAIN x.values |-> x.values[f]]
               /\ DOMAIN x.values \subseteq XmpField
               /\ x.hasXmp <=> DOMAIN x.values # {}
               /\ \A f \in DOMAIN x.values : x.values[f] \in Class /\ x.values[f] # "zero"
<1> DEFINE found == NonZero(Fields(tags, XmpField))
<1>1. found \subseteq XmpField \cap DOMAIN tags /\ \A f \in found : tags[f] # "zero"
  BY DEF NonZero, Fields
<1>2. applyXMP(tags) = [hasXmp |-> found # {}, values |-> Fields(tags, found)]
  BY DEF applyXMP
<1> HIDE DEF found
<1>3. Fields(tags, found) = [f \in found |-> tags[f]]
  BY <1>1 DEF Fields
<1> DEFINE x == [hasXmp |-> found # {}, values |-> [f \in found |-> tags[f]]]
<1>4. x.hasXmp = (found # {}) /\ x.values = [f \in found |-> tags[f]]
  OBVIOUS
<1>5. x.hasXmp \in BOOLEAN /\ (x.hasXmp <=> found # {})
  BY <1>4
<1>6. DOMAIN x.values = found /\ \A f \in found : x.values[f] = tags[f]
  BY <1>4
<1>7. x = [hasXmp |-> x.hasXmp, values |-> x.values]
  BY <1>4
<1>8. x.values = [f \in DOMAIN x.values |-> x.values[f]]
  BY <1>4
<1>9. applyXMP(tags) = x
  BY <1>2, <1>3
<1> HIDE DEF x
<1> QED
  BY <1>1, <1>5, <1>6, <1>7, <1>8, <1>9

LEMMA RowKept ==
    ASSUME NEW tags, \A f \in DOMAIN tags : tags[f] \in Class,
           NEW row, row = IndexExifResult(tags), row # NoRow
    PROVE  /\ row = [hasExif |-> row.hasExif, hasXmp |-> row.hasXmp, values |-> row.values]
           /\ row.hasExif \in BOOLEAN /\ row.hasXmp \in BOOLEAN
           /\ row.values = [f \in DOMAIN row.values |-> row.values[f]]
           /\ DOMAIN row.values \subseteq ExifField \cup XmpField
           /\ DOMAIN row.values \cap XmpField # {} => row.hasXmp
           /\ \A f \in DOMAIN row.values : row.values[f] \in Class
           /\ \A f \in DOMAIN row.values \ MayBeZero : row.values[f] # "zero"
<1> DEFINE e == applyExif(tags)
           x == applyXMP(tags)
           S == DOMAIN e.values \cup DOMAIN x.values
           value(f) == IF f \in DOMAIN e.values THEN e.values[f] ELSE x.values[f]
<1>1. /\ e.hasExif \in BOOLEAN /\ DOMAIN e.values \subseteq ExifField
      /\ \A f \in DOMAIN e.values : e.values[f] \in Class
      /\ \A f \in DOMAIN e.values \ MayBeZero : e.values[f] # "zero"
  BY KeptExif
<1>2. /\ x.hasXmp \in BOOLEAN /\ DOMAIN x.values \subseteq XmpField
      /\ x.hasXmp <=> DOMAIN x.values # {}
      /\ \A f \in DOMAIN x.values : x.values[f] \in Class /\ x.values[f] # "zero"
  BY KeptXmp
<1>3. row = [hasExif |-> e.hasExif, hasXmp |-> x.hasXmp, values |-> [f \in S |-> value(f)]]
  BY DEF IndexExifResult
<1> HIDE DEF e, x
<1>4. S \subseteq ExifField \cup XmpField /\ \A f \in S : value(f) \in Class
  BY <1>1, <1>2
<1>5. \A f \in S \ MayBeZero : value(f) # "zero"
  BY <1>1, <1>2
<1>6. ExifField \cap XmpField = {}
  BY DEF ExifField, XmpField, XmpText, CameraText, CameraNumber, GPSField, Coordinates
<1>7. S \cap XmpField # {} => x.hasXmp
  BY <1>1, <1>2, <1>6
<1> HIDE DEF S, value
<1> QED
  BY <1>1, <1>2, <1>3, <1>4, <1>5, <1>7

\* Every stored reading gets a line but for the three exceptions.
LEMMA LinesAreStored ==
    ASSUME NEW tags \in Images
    PROVE  LET row == IndexExifResult(tags)
               stored == IF row = NoRow THEN {} ELSE DOMAIN row.values
               noBlock == IF row = NoRow \/ row.hasExif THEN {} ELSE ExifField
               noPlace == IF Coordinates \subseteq stored THEN {} ELSE GPSField
               seaLevel == {f \in stored \cap {"gpsAltitude"} : row.values[f] = "zero"}
           IN  Lines(tags) = stored \ (noBlock \cup noPlace \cup seaLevel)
<1> DEFINE row == IndexExifResult(tags)
<1>1. \A f \in DOMAIN tags : tags[f] \in Class
  BY InputAssumption DEF TagValue, Class
<1>2. CASE row = NoRow
  BY <1>2 DEF Lines
<1>3. CASE row # NoRow
  <2> DEFINE S == DOMAIN row.values
             shown(f) == IF f \in TimeField THEN "isoText" ELSE row.values[f]
             dto == toExifMetadataDto(row)
  <2>1. /\ row = [hasExif |-> row.hasExif, hasXmp |-> row.hasXmp, values |-> row.values]
        /\ row.hasExif \in BOOLEAN /\ row.hasXmp \in BOOLEAN
        /\ row.values = [f \in S |-> row.values[f]]
        /\ S \subseteq ExifField \cup XmpField
        /\ S \cap XmpField # {} => row.hasXmp
        /\ \A f \in S : row.values[f] \in Class
        /\ \A f \in S \ MayBeZero : row.values[f] # "zero"
    BY <1>1, <1>3, RowKept
  <2> HIDE DEF row
  <2>2. /\ dto.hasExif = row.hasExif /\ dto.hasXmp = row.hasXmp
        /\ dto.values = [f \in S |-> shown(f)]
    BY <2>1 DEF toExifMetadataDto
  <2>3. \A f : Row(dto.values, f) <=> f \in S /\ ~(f = "gpsAltitude" /\ row.values[f] = "zero")
    <3> SUFFICES ASSUME NEW f \in S
                 PROVE  (RowValue(dto.values, f) # "undefined")
                            <=> ~(f = "gpsAltitude" /\ row.values[f] = "zero")
      BY <2>2 DEF Row
    <3>1. dto.values[f] = shown(f)
      BY <2>2
    <3>2. CASE f \in WithUnit
      <4>1. f \notin TimeField /\ (f \in MayBeZero <=> f = "gpsAltitude")
        BY <3>2 DEF WithUnit, TimeField, MayBeZero, ZeroIsAReading
      <4> QED
        BY <2>1, <3>1, <3>2, <4>1 DEF RowValue
    <3>3. CASE f \notin WithUnit
      <4>1. f # "gpsAltitude"
        BY <3>3 DEF WithUnit
      <4>2. shown(f) # "undefined"
        BY <2>1 DEF Class
      <4> QED
        BY <3>1, <3>3, <4>1, <4>2 DEF RowValue
    <3> QED
      BY <3>2, <3>3
  <2>4. Lines(tags) = ExifSection(dto)
    BY <1>3 DEF Lines, exifToProto, row
  <2>5. DOMAIN dto.values = S
    BY <2>2
  <2> DEFINE camera == IF row.hasExif THEN ExifField \ GPSField ELSE {}
             gps == IF row.hasExif /\ Coordinates \subseteq S THEN GPSField ELSE {}
             xmp == IF row.hasXmp THEN XmpField ELSE {}
  <2>6. ExifSection(dto) = {f \in camera \cup gps \cup xmp : Row(dto.values, f)}
    BY <2>2, <2>5 DEF ExifSection
  <2>7. GPSField \subseteq ExifField /\ GPSField \cap XmpField = {} /\ ExifField \cap XmpField = {}
    BY DEF ExifField, XmpField, XmpText, CameraText, CameraNumber, GPSField, Coordinates
  <2> DEFINE sea(f) == f = "gpsAltitude" /\ row.values[f] = "zero"
  <2>8. \A f : f \in ExifSection(dto) <=> f \in camera \cup gps \cup xmp /\ f \in S /\ ~sea(f)
    BY <2>3, <2>6
  <2>9. \A f \in S : f \in camera \cup gps \cup xmp
            <=> /\ row.hasExif \/ f \notin ExifField
                /\ Coordinates \subseteq S \/ f \notin GPSField
    <3> HIDE DEF S
    <3> QED
      BY <2>1, <2>7
  <2> QED
    BY <1>3, <2>4, <2>8, <2>9 DEF row
<1> QED
  BY <1>2, <1>3
-----------------------------------------------------------------------------
(* Paths.                                                                   *)

\* Names put together are names, as with all strings that hold no slash.
NamesAreStrings == \A a, b \in Name : a \o b \in Name /\ "" \o a = a

LEMMA AppendOf ==
    ASSUME NEW p \in Seq(Name), NEW x \in Name
    PROVE  /\ Append(p, x) \in Browsed
           /\ Len(Append(p, x)) = Len(p) + 1 /\ Last(Append(p, x)) = x
           /\ Front(Append(p, x)) = p
           /\ \A i \in 1 .. Len(p) : Append(p, x)[i] = p[i]
<1> DEFINE q == Append(p, x)
<1>1. /\ q \in Seq(Name) /\ q # <<>> /\ Len(q) = Len(p) + 1 /\ q[Len(p) + 1] = x
      /\ \A i \in 1 .. Len(p) : q[i] = p[i]
  BY AppendProperties
<1>2. Len(p) \in Nat
  OBVIOUS
<1> HIDE DEF q
<1>3. /\ Front(q) \in Seq(Name) /\ Len(Front(q)) = Len(q) - 1
      /\ \A i \in 1 .. Len(q) - 1 : Front(q)[i] = q[i]
  BY <1>1, FrontOf
<1>4. Len(Front(q)) = Len(p) /\ \A i \in 1 .. Len(p) : Front(q)[i] = p[i]
  BY <1>1, <1>2, <1>3
<1>5. Front(q) = p
  BY <1>3, <1>4
<1> QED
  BY <1>1, <1>5 DEF q, Last, Browsed

LEMMA ToDirectory ==
    ASSUME NEW p \in Seq(Name)
    PROVE  Append(p, "") \in Directory
BY AppendOf, RequestAssumption DEF Directory

LEMMA BrowsedPath ==
    ASSUME NEW p \in Browsed
    PROVE  /\ p \in Seq(Name) /\ p \in Path /\ Len(p) \in Nat \ {0} /\ Last(p) \in Name
           /\ Front(p) \in Seq(Name) /\ Len(Front(p)) = Len(p) - 1
           /\ \A i \in 1 .. Len(p) - 1 : Front(p)[i] = p[i]
           /\ p = Append(Front(p), Last(p))
<1>1. /\ p \in Seq(Name) /\ p # <<>> /\ Len(p) \in Nat \ {0} /\ p[Len(p)] \in Name
      /\ Last(p) = p[Len(p)] /\ Last(p) \in Name
  BY LastOf DEF Browsed
<1>2. p \in Path
  <2>1. Name \subseteq STRING
    BY RequestAssumption
  <2> QED
    BY <1>1, <2>1, SeqOfMore DEF Path
<1>3. /\ Front(p) \in Seq(Name) /\ Len(Front(p)) = Len(p) - 1
      /\ \A i \in 1 .. Len(p) - 1 : Front(p)[i] = p[i]
  BY <1>1, FrontOf
<1> DEFINE q == Append(Front(p), Last(p))
<1>4. /\ q \in Seq(Name) /\ Len(q) = Len(p) /\ q[Len(p)] = p[Len(p)]
      /\ \A i \in 1 .. Len(p) - 1 : q[i] = p[i]
  BY <1>1, <1>3, AppendProperties
<1> HIDE DEF q
<1>5. \A i \in 1 .. Len(p) : q[i] = p[i]
  <2> TAKE i \in 1 .. Len(p)
  <2>1. i = Len(p) \/ i \in 1 .. Len(p) - 1
    BY <1>1
  <2> QED
    BY <1>4, <2>1
<1>6. q = p
  BY <1>1, <1>4, <1>5
<1> QED
  BY <1>1, <1>2, <1>3, <1>6 DEF q

LEMMA Directories ==
    /\ Root \in Directory /\ Directory \subseteq Browsed
    /\ Folders \subseteq Directory
    /\ \A p \in Browsed : DirectoryOf(p) \in Directory
    /\ \A p \in Directory : DirectoryOf(p) = p /\ (p = Root \/ endsWithSlash(p))
<1>1. Root \in Browsed /\ Last(Root) = "" /\ Len(Root) = 1
  <2>1. "" \in Name
    BY RequestAssumption
  <2> QED
    BY <2>1, OneOf DEF Root, Browsed
<1>2. \A p \in Folders : p \in Browsed /\ Last(p) = ""
  BY InputAssumption DEF Browsed, endsWithSlash
<1>3. \A p \in Browsed : DirectoryOf(p) \in Directory
  BY BrowsedPath, ToDirectory DEF DirectoryOf
<1>4. ASSUME NEW p \in Directory
      PROVE  DirectoryOf(p) = p /\ (p = Root \/ endsWithSlash(p))
  <2>1. p \in Browsed /\ Last(p) = ""
    BY DEF Directory
  <2>2. /\ Len(p) \in Nat \ {0} /\ Front(p) \in Seq(Name) /\ Len(Front(p)) = Len(p) - 1
        /\ p = Append(Front(p), "")
    BY <2>1, BrowsedPath
  <2>3. Len(p) = 1 => p = Root
    <3> SUFFICES ASSUME Len(p) = 1 PROVE p = Root
      OBVIOUS
    <3>1. p \in Seq(Name) /\ p[1] = ""
      BY <2>1, BrowsedPath DEF Last
    <3>2. Root \in Seq(Name) /\ Len(Root) = 1 /\ Root[1] = ""
      BY <1>1, LastOf DEF Browsed, Last
    <3>3. \A i \in 1 .. Len(p) : i = 1
      OBVIOUS
    <3> QED
      BY <3>1, <3>2, <3>3, SameSeq, Zenon
  <2>4. DirectoryOf(p) = p
    BY <2>2 DEF DirectoryOf
  <2>6. Len(p) \in Nat \ {0}
    BY <2>2
  <2>5. Len(p) = 1 \/ Len(p) > 1
    BY <2>6
  <2> QED
    BY <2>1, <2>3, <2>4, <2>5 DEF endsWithSlash
<1> QED
  BY <1>1, <1>2, <1>3, <1>4 DEF Directory

LEMMA ConcatOf ==
    ASSUME NamesAreStrings, NEW p \in Browsed, NEW n \in Name
    PROVE  /\ Concat(p, n) \in Browsed /\ Len(Concat(p, n)) = Len(p)
           /\ Front(Concat(p, n)) = Front(p) /\ Last(Concat(p, n)) = Last(p) \o n
           /\ \A i \in 1 .. Len(p) - 1 : Concat(p, n)[i] = p[i]
           /\ Append(Concat(p, n), "") \in Directory
           /\ p \in Directory => Last(Concat(p, n)) = n
<1> DEFINE x == Last(p) \o n
<1>1. /\ Front(p) \in Seq(Name) /\ Last(p) \in Name /\ Len(Front(p)) = Len(p) - 1
      /\ Len(p) \in Nat \ {0} /\ \A i \in 1 .. Len(p) - 1 : Front(p)[i] = p[i]
  BY BrowsedPath
<1>2. x \in Name /\ (Last(p) = "" => x = n)
  BY <1>1 DEF NamesAreStrings
<1>3. Concat(p, n) = Append(Front(p), x)
  BY DEF Concat
<1> HIDE DEF x
<1>4. /\ Concat(p, n) \in Browsed /\ Len(Concat(p, n)) = Len(p)
      /\ Last(Concat(p, n)) = x /\ Front(Concat(p, n)) = Front(p)
      /\ \A i \in 1 .. Len(p) - 1 : Concat(p, n)[i] = p[i]
  <2>1. /\ Concat(p, n) \in Browsed /\ Len(Concat(p, n)) = Len(Front(p)) + 1
        /\ Last(Concat(p, n)) = x /\ Front(Concat(p, n)) = Front(p)
        /\ \A i \in 1 .. Len(Front(p)) : Concat(p, n)[i] = Front(p)[i]
    BY <1>1, <1>2, <1>3, AppendOf
  <2> QED
    BY <1>1, <2>1
<1>5. Append(Concat(p, n), "") \in Directory
  BY <1>4, ToDirectory, BrowsedPath
<1> QED
  BY <1>2, <1>4, <1>5 DEF Directory, x

\* The service refuses a path with ".." in it, and only that.
LEMMA Normalized ==
    ASSUME NEW p \in Browsed
    PROVE  /\ hasDotDotSegment(p) => normalizeDirPath(p) = InvalidPath
           /\ ~hasDotDotSegment(p) =>
                 normalizeDirPath(p) \in Path /\ normalizeDirPath(p) # InvalidPath
<1>1. p \in Path /\ Root \in Path /\ Len(p) \in Nat \ {0}
  BY BrowsedPath, Directories
<1>2. ~hasDotDotSegment(Root)
  <2>1. DOMAIN Root = {1} /\ Root[1] = ""
    BY RequestAssumption, OneOf DEF Root
  <2> QED
    BY <2>1 DEF hasDotDotSegment
<1> DEFINE q == IF Len(p) > 1 /\ p[1] = "" THEN Tail(p) ELSE p
<1>3. q \in Path
  <2>1. Len(p) > 1 => Tail(p) \in Seq(STRING)
    BY <1>1, HeadTailProperties DEF Path
  <2> QED
    BY <1>1, <2>1 DEF Path
<1> HIDE DEF q
<1>4. Slashed(q) \in Path
  <2>1. "" \in STRING
    BY RequestAssumption
  <2>2. Append(q, "") \in Path
    BY <1>3, <2>1, AppendProperties DEF Path
  <2> QED
    BY <1>3, <2>2 DEF Slashed
<1>5. InvalidPath \notin Path
  BY RequestAssumption
<1> QED
  BY <1>1, <1>2, <1>4, <1>5 DEF normalizeDirPath, q

-----------------------------------------------------------------------------
(* The path of an upload.  The places of a sequence that hold something are *)
(* numbered by how many come before them, without gaps.                     *)

Place(S, i) == Cardinality({j \in S : j < i}) + 1

LEMMA Places ==
    ASSUME NEW n \in Nat, NEW S \in SUBSET (1 .. n)
    PROVE  /\ Cardinality(S) \in Nat
           /\ \A m \in 1 .. Cardinality(S) : \E i \in S : Place(S, i) = m
<1> DEFINE N == Cardinality(S)
           Below(i) == {j \in S : j < i}
           place == [i \in S |-> Place(S, i)]
<1>1. IsFiniteSet(S) /\ N \in Nat /\ \A i \in S : i \in Nat
  <2>1. IsFiniteSet(1 .. n)
    BY FS_Interval
  <2>2. IsFiniteSet(S)
    BY <2>1, FS_Subset
  <2> QED
    BY <2>2, FS_CardinalityType
<1>2. ASSUME NEW i \in S
      PROVE  /\ IsFiniteSet(Below(i)) /\ Cardinality(Below(i)) \in Nat
             /\ Cardinality(Below(i)) < N /\ place[i] = Cardinality(Below(i)) + 1
  <2>1. Below(i) \in SUBSET S /\ i \notin Below(i)
    BY <1>1
  <2>2. IsFiniteSet(Below(i)) /\ Cardinality(Below(i)) <= N /\ Cardinality(Below(i)) # N
    BY <1>1, <2>1, FS_Subset
  <2>3. Cardinality(Below(i)) \in Nat
    BY <2>2, FS_CardinalityType
  <2> QED
    BY <1>1, <2>2, <2>3 DEF Place
<1>3. \A i, j : j \in Below(i) <=> j \in S /\ j < i
  OBVIOUS
<1>4. place = [i \in S |-> place[i]] /\ \A i \in S : place[i] = Place(S, i)
  OBVIOUS
<1> HIDE DEF place, Below, N
<1>5. place \in [S -> 1 .. N]
  <2>1. \A i \in S : place[i] \in 1 .. N
    BY <1>1, <1>2
  <2> QED
    BY <1>4, <2>1
<1>6. ASSUME NEW i \in S, NEW j \in S, i < j
      PROVE  place[i] < place[j]
  <2>0. i \in Nat /\ j \in Nat /\ \A k \in S : k < i => k < j
    BY <1>1, <1>6
  <2>1. Below(i) \in SUBSET Below(j)
    BY <1>3, <2>0, Zenon
  <2>3. i \in Below(j)
    BY <1>3, <1>6
  <2>4. i \notin Below(i)
    BY <1>3, <2>0
  <2>2. Cardinality(Below(i)) <= Cardinality(Below(j))
        /\ Cardinality(Below(i)) # Cardinality(Below(j))
    BY <1>2, <2>1, <2>3, <2>4, FS_Subset
  <2> QED
    BY <1>2, <2>2
<1>7. place \in Surjection(S, 1 .. N)
  <2>1. \A i, j \in S : place[i] = place[j] => i = j
    <3> SUFFICES ASSUME NEW i \in S, NEW j \in S, place[i] = place[j], i # j PROVE FALSE
      OBVIOUS
    <3>1. i < j \/ j < i
      BY <1>1
    <3>2. place[i] \in Nat
      BY <1>2
    <3> QED
      BY <1>6, <3>1, <3>2
  <2>2. place \in Injection(S, 1 .. N)
    BY <1>5, <2>1 DEF Injection, IsInjective
  <2>3. IsFiniteSet(1 .. N) /\ Cardinality(1 .. N) = N
    BY <1>1, FS_Interval
  <2> QED
    BY <1>1, <2>2, <2>3, FS_Injection DEF N
<1> QED
  BY <1>1, <1>4, <1>7 DEF Surjection, N

Blank == ""
Filled(p) == {i \in DOMAIN p : p[i] # Blank}
At(p, n) == CHOOSE i \in Filled(p) : Place(Filled(p), i) = n

LEMMA Segmented ==
    ASSUME NEW p \in Seq(Name)
    PROVE  /\ NonEmptySegments(p) \in Seq(Name)
           /\ \A n \in 1 .. Len(NonEmptySegments(p)) : NonEmptySegments(p)[n] # Blank
           /\ Len(NonEmptySegments(p)) = Cardinality(Filled(p))
           /\ \A n \in 1 .. Cardinality(Filled(p)) :
                 NonEmptySegments(p)[n] = p[At(p, n)]
<1> DEFINE S == Filled(p)
           N == Cardinality(S)
           s == [n \in 1 .. N |-> p[At(p, n)]]
<1>1. S \in SUBSET (1 .. Len(p)) /\ \A i \in S : p[i] \in Name /\ p[i] # Blank
  BY DEF Filled
<1>2. Len(p) \in Nat
  OBVIOUS
<1>3. N \in Nat /\ \A n \in 1 .. N : \E i \in S : Place(S, i) = n
  BY <1>1, <1>2, Places
<1>4. \A n \in 1 .. N : At(p, n) \in S
  BY <1>3 DEF At
<1>5. NonEmptySegments(p) = s
  BY DEF NonEmptySegments, Filled, Place, Blank, At
<1> HIDE DEF S, N
<1>6. \A n \in 1 .. N : p[At(p, n)] \in Name /\ p[At(p, n)] # Blank
  BY <1>1, <1>4
<1>7. s \in Seq(Name) /\ Len(s) = N /\ \A n \in 1 .. N : s[n] = p[At(p, n)]
  BY <1>3, <1>6
<1> HIDE DEF s
<1> QED
  BY <1>5, <1>6, <1>7 DEF S, N

\* When only places after m are empty, the first m are what is left.
LEMMA FilledFront ==
    ASSUME NEW p \in Seq(Name), NEW m \in 0 .. Len(p), Filled(p) = 1 .. m
    PROVE  /\ Len(NonEmptySegments(p)) = m
           /\ \A i \in 1 .. m : NonEmptySegments(p)[i] = p[i]
<1>1. m \in Nat /\ Len(p) \in Nat
  OBVIOUS
<1>2. Cardinality(1 .. m) = m
  BY <1>1, FS_Interval
<1>3. ASSUME NEW i \in 1 .. m
      PROVE  Place(1 .. m, i) = i
  <2>1. {j \in 1 .. m : j < i} = 1 .. (i - 1)
    BY <1>1
  <2>2. i - 1 \in Nat /\ (i - 1) - 1 + 1 = i - 1
    BY <1>1
  <2>3. Cardinality(1 .. (i - 1)) = i - 1
    BY <2>2, FS_Interval
  <2>4. Place(1 .. m, i) = Cardinality(1 .. (i - 1)) + 1
    BY <2>1, Zenon DEF Place
  <2> QED
    BY <1>1, <2>3, <2>4
<1>4. \A i \in 1 .. m : At(p, i) = i
  <2> TAKE i \in 1 .. m
  <2>1. \A j \in 1 .. m : Place(1 .. m, j) = i <=> j = i
    BY <1>3
  <2>2. (CHOOSE j \in 1 .. m : Place(1 .. m, j) = i) = i
    BY <2>1
  <2> QED
    BY <2>2, Zenon DEF At
<1> QED
  BY <1>2, <1>4, Segmented

LEMMA Trimmed ==
    ASSUME NEW p \in Browsed
    PROVE  trim(p) \in Seq(Name)
<1>1. p \in Seq(Name) /\ Len(p) \in Nat \ {0}
  BY BrowsedPath
<1>2. trimStart \in [Name -> Name] /\ trimEnd \in [Name -> Name]
  BY RequestAssumption
<1> DEFINE start == [p EXCEPT ![1] = trimStart[@]]
<1>3. start \in Seq(Name) /\ Len(start) = Len(p)
  BY <1>1, <1>2
<1>4. trim(p) = [start EXCEPT ![Len(p)] = trimEnd[@]]
  BY DEF trim
<1> HIDE DEF start
<1> QED
  BY <1>1, <1>2, <1>3, <1>4

LEMMA UploadPath ==
    ASSUME NEW p \in Browsed
    PROVE  /\ normalizeUploadPath(p) \in Directory
           /\ \A i \in 1 .. Len(normalizeUploadPath(p)) - 1 : normalizeUploadPath(p)[i] # Blank
<1> DEFINE s == NonEmptySegments(trim(p))
<1>1. s \in Seq(Name) /\ \A n \in 1 .. Len(s) : s[n] # Blank
  BY Trimmed, Segmented
<1>2. normalizeUploadPath(p) = IF s = <<>> THEN Root ELSE Append(s, Blank)
  BY DEF normalizeUploadPath, Blank
<1> HIDE DEF s
<1>3. CASE s = <<>>
  <2>1. Root \in Directory /\ Len(Root) = 1
    BY Directories, RequestAssumption, OneOf DEF Root
  <2>2. normalizeUploadPath(p) = Root
    BY <1>2, <1>3
  <2>3. \A i \in 1 .. Len(Root) - 1 : FALSE
    BY <2>1
  <2> QED
    BY <2>1, <2>2, <2>3
<1>4. CASE s # <<>>
  <2>1. Blank \in Name
    BY RequestAssumption DEF Blank
  <2>2. Len(Append(s, Blank)) = Len(s) + 1 /\ \A i \in 1 .. Len(s) : Append(s, Blank)[i] = s[i]
    BY <1>1, <2>1, AppendOf
  <2>3. Len(s) \in Nat
    BY <1>1
  <2>4. normalizeUploadPath(p) = Append(s, Blank)
    BY <1>2, <1>4
  <2>5. Append(s, Blank) \in Directory
    BY <1>1, ToDirectory DEF Blank
  <2>6. \A i \in 1 .. Len(Append(s, Blank)) - 1 : Append(s, Blank)[i] # Blank
    BY <1>1, <2>2, <2>3
  <2> QED
    BY <2>4, <2>5, <2>6
<1> QED
  BY <1>3, <1>4

\* A file goes to the directory whose listing is on the screen, if the path has
\* no blanks around it and no empty segment.
LEMMA UploadedWhereShown ==
    ASSUME NamesAreStrings, NEW p \in Browsed, NEW name \in Name,
           ~hasDotDotSegment(p), ~Untidy(p)
    PROVE  DirectoryOf(Concat(normalizeUploadPath(p), name)) = normalizeDirPath(p)
<1> DEFINE up == normalizeUploadPath(p)
           s == NonEmptySegments(p)
<1>1. trim(p) = p /\ \A i \in 1 .. Len(p) - 1 : p[i] # Blank
  BY DEF Untidy, Blank
<1>2. /\ p \in Seq(Name) /\ Len(p) \in Nat \ {0} /\ Last(p) = p[Len(p)] /\ Front(p) \in Seq(Name)
      /\ p # <<>> /\ Len(Front(p)) = Len(p) - 1 /\ \A i \in 1 .. Len(p) - 1 : Front(p)[i] = p[i]
  BY BrowsedPath DEF Browsed, Last
<1>3. up = IF s = <<>> THEN Root ELSE Append(s, Blank)
  BY <1>1 DEF normalizeUploadPath, Blank
<1>4. up \in Directory
  BY UploadPath
<1>5. DirectoryOf(Concat(up, name)) = up
  <2>1. Front(Concat(up, name)) = Front(up) /\ DirectoryOf(up) = up
    BY <1>4, ConcatOf, Directories
  <2> QED
    BY <2>1 DEF DirectoryOf
<1>6. s \in Seq(Name) /\ Len(s) \in Nat
  BY <1>2, Segmented
<1>7. DOMAIN p = 1 .. Len(p)
  BY <1>2
<1>8. normalizeDirPath(p) = IF p = Root THEN Root ELSE Slashed(p)
  <2>1. ~(Len(p) > 1 /\ p[1] = "")
    <3>1. Len(p) > 1 => p[1] # Blank
      BY <1>1, <1>2
    <3> QED
      BY <3>1 DEF Blank
  <2> QED
    BY <2>1 DEF normalizeDirPath
<1>9. Slashed(p) = IF Len(p) > 1 /\ Last(p) = Blank THEN p ELSE Append(p, Blank)
  BY DEF Slashed, endsWithSlash, Blank
<1> HIDE DEF s, up
<1>10. CASE Last(p) = Blank
  <2>1. Filled(p) = 1 .. Len(p) - 1
    <3>1. \A i \in 1 .. Len(p) : p[i] # Blank <=> i \in 1 .. Len(p) - 1
      <4> TAKE i \in 1 .. Len(p)
      <4>1. i = Len(p) \/ i \in 1 .. Len(p) - 1
        BY <1>2
      <4>2. Len(p) \notin 1 .. Len(p) - 1
        BY <1>2
      <4> QED
        BY <1>1, <1>2, <1>10, <4>1, <4>2
    <3>2. \A i \in 1 .. Len(p) - 1 : i \in 1 .. Len(p)
      BY <1>2
    <3> QED
      BY <1>7, <3>1, <3>2 DEF Filled
  <2>2. Len(p) - 1 \in 0 .. Len(p)
    BY <1>2
  <2>3. Len(s) = Len(p) - 1 /\ \A i \in 1 .. Len(p) - 1 : s[i] = p[i]
    BY <1>2, <2>1, <2>2, FilledFront DEF s
  <2>4. s = Front(p)
    <3>1. \A i \in 1 .. Len(s) : s[i] = Front(p)[i]
      BY <1>2, <2>3
    <3> QED
      BY <1>2, <1>6, <2>3, <3>1, SameSeq
  <2>5. p \in Directory
    BY <1>10 DEF Directory, Blank
  <2>6. CASE p = Root
    <3>1. s = <<>>
      <4>1. Len(Root) = 1
        BY RequestAssumption, OneOf DEF Root
      <4> QED
        BY <1>6, <2>3, <2>6, <4>1
    <3> QED
      BY <1>3, <1>5, <1>8, <2>6, <3>1 DEF up
  <2>7. CASE p # Root
    <3>1. endsWithSlash(p)
      BY <2>5, <2>7, Directories
    <3>2. Len(p) > 1
      BY <3>1 DEF endsWithSlash
    <3>3. s # <<>>
      BY <1>2, <2>3, <3>2
    <3>4. Append(s, Blank) = p
      BY <1>10, <2>4, BrowsedPath
    <3> QED
      BY <1>3, <1>5, <1>8, <1>9, <1>10, <2>7, <3>2, <3>3, <3>4 DEF up
  <2> QED
    BY <2>6, <2>7
<1>11. CASE Last(p) # Blank
  <2>1. Filled(p) = 1 .. Len(p)
    <3>1. \A i \in 1 .. Len(p) : i = Len(p) \/ i \in 1 .. Len(p) - 1
      BY <1>2
    <3>2. \A i \in 1 .. Len(p) : p[i] # Blank
      BY <1>1, <1>2, <1>11, <3>1
    <3> QED
      BY <1>7, <3>2 DEF Filled
  <2>2. Len(p) \in 0 .. Len(p)
    BY <1>2
  <2>3. Len(s) = Len(p) /\ \A i \in 1 .. Len(p) : s[i] = p[i]
    BY <1>2, <2>1, <2>2, FilledFront DEF s
  <2>4. s = p
    BY <1>2, <1>6, <2>3, SameSeq
  <2>5. p # Root
    BY <1>11, Directories DEF Directory, Blank
  <2> QED
    BY <1>2, <1>3, <1>5, <1>8, <1>9, <1>11, <2>4, <2>5 DEF up
<1> QED
  BY <1>10, <1>11

-----------------------------------------------------------------------------
(* Listings: what a list asks for, and what it is answered.                 *)

LEMMA InputOfKey ==
    ASSUME NEW l, LocationOK(l), HasList(l), NEW t
    PROVE  KeyOK(ListKey(l)) /\ ListInput(l, t) = InputOf(ListKey(l), t)
<1> DEFINE k == ListKey(l)
<1>1. l.route \in {"/", "/search", "/recents", "/photos"}
  BY DEF LocationOK, HasList, Route
<1>2. CASE l.route = "/"
  <2>1. k = <<"directory", l.filters.path, l.filters.sort, l.filters.order>>
    BY <1>2 DEF ListKey
  <2>2. l.filters \in [path : Browsed, sort : SORT_FIELDS, order : SORT_ORDERS]
    BY <1>2 DEF LocationOK
  <2>3. k[1] = "directory" /\ k[2] = l.filters.path /\ k[3] = l.filters.sort /\ k[4] = l.filters.order
    BY <2>1
  <2> HIDE DEF k
  <2>4. KeyOK(k)
    BY <2>2, <2>3 DEF KeyOK
  <2> QED
    BY <1>2, <2>3, <2>4 DEF ListInput, InputOf, k
<1>3. CASE l.route = "/photos"
  <2>1. k[1] = "photos"
    BY <1>3 DEF ListKey
  <2> HIDE DEF k
  <2>2. KeyOK(k)
    BY <2>1 DEF KeyOK
  <2> QED
    BY <1>3, <2>1, <2>2 DEF ListInput, InputOf, k
<1>4. CASE l.route \in {"/search", "/recents"}
  <2> DEFINE f == FileListFilters(l)
  <2>1. k = <<"files", f>>
    BY <1>4 DEF ListKey
  <2>2. f \in SearchFilters
    <3>1. "" \in Text /\ "" \in Type
      BY RequestAssumption
    <3> QED
      BY <1>4, <3>1 DEF LocationOK, FileListFilters, SearchFilters, ListFilters
  <2>3. k[1] = "files" /\ k[2] = f
    BY <2>1
  <2> HIDE DEF k, f
  <2>4. KeyOK(k)
    BY <2>2, <2>3 DEF KeyOK
  <2> QED
    BY <1>4, <2>3, <2>4 DEF ListInput, InputOf, k, f
<1> QED
  BY <1>1, <1>2, <1>3, <1>4

LEMMA SortOnWire ==
    /\ \A f \in SORT_FIELDS : SORT_FIELD_PB[f] \in SortField \ {"UNSPECIFIED"}
    /\ \A o \in SORT_ORDERS : SORT_ORDER_PB[o] \in SortOrder \ {"UNSPECIFIED"}
BY DEF SORT_FIELDS, SORT_ORDERS, SORT_FIELD_PB, SORT_ORDER_PB, SortField, SortOrder

LEMMA SameQuery ==
    ASSUME NEW k, KeyOK(k), NEW t
    PROVE  InputOf(k, t).pageToken = t /\ Query(InputOf(k, t)) \in Answers(k)
<1> DEFINE i == InputOf(k, t)
           j == InputOf(k, NoToken)
<1>1. k[1] \in {"directory", "photos", "files"}
  BY DEF KeyOK
<1>2. /\ i.pageToken = t /\ DOMAIN i = DOMAIN j
      /\ \A f \in DOMAIN i \ {"pageToken", "pageSize"} : i[f] = j[f]
  <2> HIDE DEF i, j
  <2>1. CASE k[1] = "directory"
    <3> DEFINE a(u) == [path |-> k[2], pageSize |-> PAGE_SIZE, pageToken |-> u,
                        sortField |-> k[3], sortOrder |-> k[4]]
    <3>1. i = a(t) /\ j = a(NoToken)
      BY <2>1 DEF InputOf, i, j
    <3>2. \A u : /\ DOMAIN a(u) = {"path", "pageSize", "pageToken", "sortField", "sortOrder"}
                 /\ a(u).pageToken = u /\ a(u).path = k[2]
                 /\ a(u).sortField = k[3] /\ a(u).sortOrder = k[4]
      OBVIOUS
    <3> HIDE DEF a
    <3>3. DOMAIN i = {"path", "pageSize", "pageToken", "sortField", "sortOrder"}
          /\ DOMAIN j = DOMAIN i
      BY <3>1, <3>2
    <3>4. i.path = j.path /\ i.sortField = j.sortField /\ i.sortOrder = j.sortOrder
      BY <3>1, <3>2
    <3>5. \A f \in DOMAIN i \ {"pageToken", "pageSize"} : f \in {"path", "sortField", "sortOrder"}
      BY <3>3
    <3>6. i.pageToken = t
      BY <3>1, <3>2
    <3>7. \A f \in {"path", "sortField", "sortOrder"} : i[f] = j[f]
      BY <3>4
    <3>8. \A f \in DOMAIN i \ {"pageToken", "pageSize"} : i[f] = j[f]
      BY <3>5, <3>7, Zenon
    <3> QED
      BY <3>3, <3>6, <3>8
  <2>2. CASE k[1] = "photos"
    <3> DEFINE a(u) == [pageSize |-> PHOTO_PAGE_SIZE, pageToken |-> u, query |-> "",
                        contentType |-> "image/", sortField |-> "takenAt", sortOrder |-> "desc"]
    <3>1. i = a(t) /\ j = a(NoToken)
      BY <2>2 DEF InputOf, i, j
    <3>2. PICK q, c, f, o :
              /\ i = [pageSize |-> PHOTO_PAGE_SIZE, pageToken |-> t, query |-> q,
                      contentType |-> c, sortField |-> f, sortOrder |-> o]
              /\ j = [pageSize |-> PHOTO_PAGE_SIZE, pageToken |-> NoToken, query |-> q,
                      contentType |-> c, sortField |-> f, sortOrder |-> o]
      BY <3>1, Zenon
    <3> QED
      BY <3>2
  <2>3. CASE k[1] = "files"
    BY <2>3 DEF InputOf, i, j
  <2> QED
    BY <1>1, <2>1, <2>2, <2>3
<1> HIDE DEF i, j
<1>3. Query(i) = Query(j)
  BY <1>2 DEF Query
<1> QED
  BY <1>2, <1>3 DEF Answers, i, j

\* A listing of files is never refused, and its token is its own.
LEMMA FilesAnswer ==
    ASSUME NEW k, KeyOK(k), k[1] \in {"photos", "files"}, NEW t, Fits(k, t),
           NEW r \in CallListing(InputOf(k, t))
    PROVE  r # Refused /\ Fits(k, r.nextPageToken)
<1> DEFINE i == InputOf(k, t)
           req == listFilesImpl(i)
           field == SORT_FIELD_PB[i.sortField]
           order == SORT_ORDER_PB[i.sortOrder]
<1>1. /\ i = [pageSize |-> i.pageSize, pageToken |-> t, query |-> i.query,
              contentType |-> i.contentType, sortField |-> i.sortField, sortOrder |-> i.sortOrder]
      /\ i.pageSize \in Nat \ {0} /\ i.query \in Text /\ i.contentType \in Type
      /\ i.sortField \in SORT_FIELDS /\ i.sortOrder \in SORT_ORDERS
  <2>0. "" \in Text /\ "image/" \in Type
    BY RequestAssumption
  <2>1. CASE k[1] = "photos"
    <3>1. i = [pageSize |-> 24, pageToken |-> t, query |-> "",
               contentType |-> "image/", sortField |-> "takenAt", sortOrder |-> "desc"]
      BY <2>1 DEF InputOf, PHOTO_PAGE_SIZE
    <3> HIDE DEF i
    <3>2. i.pageSize = 24 /\ i.pageToken = t /\ i.query = "" /\ i.contentType = "image/"
          /\ i.sortField = "takenAt" /\ i.sortOrder = "desc"
      BY <3>1
    <3>3. "takenAt" \in SORT_FIELDS /\ "desc" \in SORT_ORDERS
      BY DEF SORT_FIELDS, SORT_ORDERS
    <3>7. i.pageSize = 24
      BY <3>1
    <3>4. i.pageSize \in Nat \ {0}
      BY <3>7
    <3>5. i.query \in Text /\ i.contentType \in Type /\ i.sortField \in SORT_FIELDS
            /\ i.sortOrder \in SORT_ORDERS
      BY <2>0, <3>2, <3>3
    <3>6. i = [pageSize |-> i.pageSize, pageToken |-> t, query |-> i.query,
               contentType |-> i.contentType, sortField |-> i.sortField, sortOrder |-> i.sortOrder]
      BY <3>1, <3>2, Zenon
    <3> QED
      BY <3>4, <3>5, <3>6
  <2>2. CASE k[1] = "files"
    BY <2>2 DEF InputOf, PAGE_SIZE, KeyOK, SearchFilters
  <2> QED
    BY <2>1, <2>2
<1>2. LET j == InputOf(k, NoToken)
      IN  /\ j.query = i.query /\ j.contentType = i.contentType
          /\ j.sortField = i.sortField /\ j.sortOrder = i.sortOrder
  BY DEF InputOf
<1>3. k[1] # "directory"
  OBVIOUS
<1>4. t \in PageToken \cup {NoToken}
  BY DEF Fits, Issued
<1>5. Fits(k, t) => t = NoToken \/ (t.sortField = field /\ t.sortOrder = order
                                      /\ t.query = i.query /\ t.contentType = i.contentType)
  BY <1>2, <1>3 DEF Fits, Issued
<1>6. field \in SortField \ {"UNSPECIFIED"} /\ order \in SortOrder \ {"UNSPECIFIED"}
  BY <1>1, SortOnWire
<1>7. ASSUME NEW u \in PageToken, u.sortField = field, u.sortOrder = order,
             u.query = i.query, u.contentType = i.contentType
      PROVE  Fits(k, u)
  BY <1>2, <1>3, <1>7 DEF Fits, Issued
<1> HIDE DEF i
<1>8. "path" \notin DOMAIN i /\ validateListFilesInput(i)
  <2>1. DOMAIN i = {"pageSize", "pageToken", "query", "contentType", "sortField", "sortOrder"}
        /\ i.pageToken = t
    BY <1>1
  <2> QED
    BY <1>1, <1>4, <2>1 DEF validateListFilesInput, Passes
<1>9. r \in ListFiles(req)
  BY <1>8 DEF CallListing, i
<1>10. /\ req.pageToken = t /\ req.query = i.query /\ req.contentType = i.contentType
       /\ req.sortField = field /\ req.sortOrder = order
  BY <1>1 DEF listFilesImpl, Given
<1> HIDE DEF req, field, order
<1> DEFINE sort == normalizeSort(req)
           issued == newCursor(sort, req.query, req.contentType)
<1>11. sort.field = field /\ sort.order = order
  BY <1>6, <1>10 DEF normalizeSort
<1>12. /\ issued \in PageToken /\ issued.sortField = field /\ issued.sortOrder = order
       /\ issued.query = i.query /\ issued.contentType = i.contentType
  <2>1. Root \in Path
    BY Directories, BrowsedPath
  <2> HIDE DEF sort
  <2> QED
    BY <1>1, <1>6, <1>10, <1>11, <2>1 DEF newCursor, PageToken, ListPhase
<1>13. r \in [files : BOOLEAN, nextPageToken : {issued, NoToken}]
  BY <1>5, <1>9, <1>10, <1>11 DEF ListFiles
<1> HIDE DEF issued
<1>14. r # Refused
  BY <1>13 DEF Refused
<1>15. r.nextPageToken = issued \/ r.nextPageToken = NoToken
  BY <1>13
<1> QED
  BY <1>7, <1>12, <1>14, <1>15 DEF Fits

\* A listing of a directory is refused for ".." only.
LEMMA DirectoryAnswer ==
    ASSUME NEW k, KeyOK(k), k[1] = "directory", NEW t, Fits(k, t),
           NEW r \in CallListing(InputOf(k, t))
    PROVE  /\ r = Refused => "path" \in DOMAIN InputOf(k, t)
                             /\ hasDotDotSegment(InputOf(k, t).path)
           /\ r # Refused => Fits(k, r.nextPageToken)
<1> DEFINE i == InputOf(k, t)
           req == listDirectoryImpl(i)
           field == SORT_FIELD_PB[k[3]]
           order == SORT_ORDER_PB[k[4]]
           path == normalizeDirPath(k[2])
<1>1. /\ i = [path |-> k[2], pageSize |-> PAGE_SIZE, pageToken |-> t,
              sortField |-> k[3], sortOrder |-> k[4]]
      /\ k[2] \in Browsed /\ k[3] \in SORT_FIELDS /\ k[4] \in SORT_ORDERS
  BY DEF InputOf, KeyOK
<1>2. LET j == InputOf(k, NoToken)
      IN  j.path = k[2] /\ j.sortField = k[3] /\ j.sortOrder = k[4]
  BY DEF InputOf
<1>4. t \in PageToken \cup {NoToken}
  BY DEF Fits, Issued
<1>5. t = NoToken \/ (t.sortField = field /\ t.sortOrder = order /\ t.path = path)
  BY <1>2 DEF Fits, Issued
<1>6. field \in SortField \ {"UNSPECIFIED"} /\ order \in SortOrder \ {"UNSPECIFIED"}
  BY <1>1, SortOnWire
<1>7. ASSUME NEW u \in PageToken, u.sortField = field, u.sortOrder = order, u.path = path
      PROVE  Fits(k, u)
  BY <1>2, <1>7 DEF Fits, Issued
<1> HIDE DEF i
<1>8. "path" \in DOMAIN i /\ i.path = k[2] /\ validateListDirectoryInput(i)
  <2>1. k[2] \in Path
    BY <1>1, BrowsedPath
  <2>2. DOMAIN i = {"path", "pageSize", "pageToken", "sortField", "sortOrder"}
        /\ i.pageToken = t /\ i.path = k[2] /\ i.pageSize = PAGE_SIZE
        /\ i.sortField = k[3] /\ i.sortOrder = k[4]
    BY <1>1
  <2> QED
    BY <1>1, <1>4, <2>1, <2>2 DEF validateListDirectoryInput, Passes, PAGE_SIZE
<1>9. r \in ListDirectory(req)
  BY <1>8 DEF CallListing, i
<1>10. /\ req.pageToken = t /\ req.path = k[2]
       /\ req.sortField = field /\ req.sortOrder = order
  BY <1>1 DEF listDirectoryImpl, Given
<1> HIDE DEF req, field, order, path
<1>11. CASE hasDotDotSegment(k[2])
  <2>1. path = InvalidPath
    BY <1>1, <1>11, Normalized DEF path
  <2>2. r = Refused
    BY <1>9, <1>10, <2>1 DEF ListDirectory, path
  <2> QED
    BY <1>8, <1>11, <2>2 DEF i
<1>12. CASE ~hasDotDotSegment(k[2])
  <2> DEFINE sort == normalizeSort(req)
             issued == {newDirCursor(sort, path, phase) : phase \in {"DIRECTORIES", "FILES"}}
  <2>1. path \in Path /\ path # InvalidPath
    BY <1>1, <1>12, Normalized DEF path
  <2>2. sort.field = field /\ sort.order = order
    BY <1>6, <1>10 DEF normalizeSort
  <2> HIDE DEF sort
  <2>3. \A u \in issued : u \in PageToken /\ u.sortField = field /\ u.sortOrder = order
                            /\ u.path = path
    <3>1. "" \in Text /\ "" \in Type
      BY RequestAssumption
    <3>2. ASSUME NEW phase \in {"DIRECTORIES", "FILES"}
          PROVE  LET u == newDirCursor(sort, path, phase)
                 IN  u \in PageToken /\ u.sortField = field /\ u.sortOrder = order
                       /\ u.path = path
      <4>1. newDirCursor(sort, path, phase) =
              [sortField |-> field, sortOrder |-> order, query |-> "", contentType |-> "",
               path |-> path, phase |-> phase]
        BY <2>2 DEF newDirCursor
      <4>2. phase \in ListPhase
        BY DEF ListPhase
      <4> DEFINE u == [sortField |-> field, sortOrder |-> order, query |-> "",
                       contentType |-> "", path |-> path, phase |-> phase]
      <4>3. u \in PageToken
        BY <1>6, <2>1, <3>1, <4>2 DEF PageToken
      <4>4. u.sortField = field /\ u.sortOrder = order /\ u.path = path
        OBVIOUS
      <4> HIDE DEF u
      <4> QED
        BY <4>1, <4>3, <4>4 DEF u
    <3> QED
      BY <3>2
  <2>4. r \in [directories : BOOLEAN, files : BOOLEAN, nextPageToken : issued \cup {NoToken}]
    BY <1>5, <1>9, <1>10, <2>1, <2>2 DEF ListDirectory, path, sort
  <2> HIDE DEF issued
  <2>5. r # Refused
    BY <2>4 DEF Refused
  <2>6. r.nextPageToken \in issued \/ r.nextPageToken = NoToken
    BY <2>4
  <2> QED
    BY <1>7, <2>3, <2>5, <2>6 DEF Fits
<1> QED
  BY <1>11, <1>12

LEMMA Answered ==
    ASSUME NEW k, KeyOK(k), NEW t, Fits(k, t), NEW r \in CallListing(InputOf(k, t))
    PROVE  /\ r = Refused => "path" \in DOMAIN InputOf(k, t)
                             /\ hasDotDotSegment(InputOf(k, t).path)
           /\ r # Refused => Fits(k, r.nextPageToken)
<1>1. k[1] \in {"directory", "photos", "files"}
  BY DEF KeyOK
<1> QED
  BY <1>1, FilesAnswer, DirectoryAnswer

\* The lookups of the search box are never refused.
LEMMA LookupAnswered ==
    ASSUME NEW kind \in Lookup, NEW text \in Text,
           NEW r \in IF kind = "files" THEN CallListing(LookupInput(kind, text))
                     ELSE CallSearchDirectories(LookupInput(kind, text))
    PROVE  r # Refused /\ IF kind = "files" THEN r.files \in BOOLEAN ELSE r.directories \in BOOLEAN
<1> DEFINE i == LookupInput(kind, text)
<1>1. CASE kind = "files"
  <2>1. i = [query |-> text, pageSize |-> 10, sortField |-> "key", sortOrder |-> "asc"]
    BY <1>1 DEF LookupInput, RESULT_LIMIT
  <2>2. DOMAIN i = {"query", "pageSize", "sortField", "sortOrder"}
        /\ i.query = text /\ i.pageSize = 10 /\ i.sortField = "key" /\ i.sortOrder = "asc"
    BY <2>1
  <2> HIDE DEF i
  <2>3. "path" \notin DOMAIN i /\ validateListFilesInput(i)
    BY <2>2 DEF validateListFilesInput, Passes, SORT_FIELDS, SORT_ORDERS
  <2>4. r \in ListFiles(listFilesImpl(i))
    BY <1>1, <2>3 DEF CallListing, i
  <2>5. listFilesImpl(i).pageToken = NoToken
    BY <2>2 DEF listFilesImpl, Given
  <2>6. r.files \in BOOLEAN /\ DOMAIN r = {"files", "nextPageToken"}
    BY <2>4, <2>5 DEF ListFiles
  <2> QED
    BY <1>1, <2>6 DEF Refused
<1>2. CASE kind = "folders"
  <2>1. i = [query |-> text, pageSize |-> 5]
    BY <1>2 DEF LookupInput, FOLDER_RESULT_LIMIT
  <2>2. DOMAIN i = {"query", "pageSize"} /\ i.query = text /\ i.pageSize = 5
    BY <2>1
  <2> HIDE DEF i
  <2>3. validateSearchDirectoriesInput(i)
    BY <2>2 DEF validateSearchDirectoriesInput, Passes
  <2>4. r \in SearchDirectories(searchDirectoriesImpl(i))
    BY <1>2, <2>3 DEF CallSearchDirectories, i
  <2>5. searchDirectoriesImpl(i).pageToken = NoToken
    BY <2>2 DEF searchDirectoriesImpl, Given
  <2>6. r.directories \in BOOLEAN /\ DOMAIN r = {"directories", "nextPageToken"}
    BY <2>4, <2>5 DEF SearchDirectories
  <2> QED
    BY <1>2, <2>6 DEF Refused
<1> QED
  BY <1>1, <1>2 DEF Lookup

-----------------------------------------------------------------------------
(* The invariant is inductive.                                              *)

SearchOK(search) ==
    /\ "path" \in DOMAIN search => search.path \in Browsed \cup {NotAString}
    /\ "query" \in DOMAIN search => search.query \in Text \cup {NotAString}
    /\ "type" \in DOMAIN search => search.type \in Type \cup {NotAString}

LEMMA Located ==
    ASSUME NEW route \in Route, NEW search, SearchOK(search)
    PROVE  LocationOK([route |-> route, filters |-> Filters(route, search)])
<1> DEFINE l == [route |-> route, filters |-> Filters(route, search)]
<1>1. /\ DEFAULT_BROWSE_FILTERS.path \in Browsed
      /\ DEFAULT_SEARCH_FILTERS.query \in Text /\ DEFAULT_SEARCH_FILTERS.type \in Type
  BY Directories, RequestAssumption DEF DEFAULT_BROWSE_FILTERS, DEFAULT_SEARCH_FILTERS
<1>2. /\ parseSort(search) \in SORT_FIELDS /\ parseOrder(search) \in SORT_ORDERS
      /\ normalizeListFilters(search) \in ListFilters
  BY DEF parseSort, parseOrder, Param, normalizeListFilters, ListFilters, SORT_FIELDS,
         SORT_ORDERS, DEFAULT_BROWSE_FILTERS, DEFAULT_LIST_FILTERS
<1>3. /\ AString(search, "path", DEFAULT_BROWSE_FILTERS.path) \in Browsed
      /\ AString(search, "query", DEFAULT_SEARCH_FILTERS.query) \in Text
      /\ AString(search, "type", DEFAULT_SEARCH_FILTERS.type) \in Type
  BY <1>1 DEF SearchOK, AString
<1>4. normalizeBrowseFilters(search)
        \in [path : Browsed, sort : SORT_FIELDS, order : SORT_ORDERS]
  BY <1>2, <1>3 DEF normalizeBrowseFilters
<1>5. normalizeSearchFilters(search) \in SearchFilters
  BY <1>2, <1>3 DEF normalizeSearchFilters, SearchFilters
<1>6. l.route = route /\ l.filters = Filters(route, search)
  OBVIOUS
<1>7. /\ route = "/" => l.filters = normalizeBrowseFilters(search)
      /\ route = "/search" => l.filters = normalizeSearchFilters(search)
      /\ route = "/recents" => l.filters = normalizeListFilters(search)
  BY <1>6 DEF Filters
<1> HIDE DEF l
<1>8. LocationOK(l)
  BY <1>2, <1>4, <1>5, <1>6, <1>7 DEF LocationOK
<1> QED
  BY <1>8 DEF l

LEMMA EntryKept ==
    ASSUME ListsInv, NEW k, KeyOK(k)
    PROVE  EntryOK(k, Entry(k))
<1>1. EntryOK(k, NoEntry)
  BY DEF EntryOK, NoEntry, Fits
<1> QED
  BY <1>1 DEF Entry, ListsInv

LEMMA EntrySet ==
    ASSUME ListsInv, NEW k, KeyOK(k), NEW e, EntryOK(k, e), lists' = SetEntry(k, e)
    PROVE  \A key \in DOMAIN lists' : KeyOK(key) /\ EntryOK(key, lists'[key])
<1> SUFFICES ASSUME NEW key \in DOMAIN lists'
             PROVE  KeyOK(key) /\ EntryOK(key, lists'[key])
  OBVIOUS
<1>1. key \in DOMAIN lists \cup {k} /\ lists'[key] = IF key = k THEN e ELSE lists[key]
  BY DEF SetEntry
<1>2. CASE key = k
  BY <1>1, <1>2
<1>3. CASE key # k
  BY <1>1, <1>3 DEF ListsInv
<1> QED
  BY <1>2, <1>3

\* A list may ask with a token of its own.
LEMMA EntryAsks ==
    ASSUME NEW l, LocationOK(l), HasList(l), NEW e, EntryOK(ListKey(l), e),
           NEW t, Fits(ListKey(l), t), NEW page, NEW upto,
           NEW asked, asked \subseteq Answers(ListKey(l))
    PROVE  EntryOK(ListKey(l), [e EXCEPT !.call = Asking(l, t, page, upto, asked)])
<1> DEFINE k == ListKey(l)
           c == Asking(l, t, page, upto, asked)
           f == [e EXCEPT !.call = c]
<1>1. KeyOK(k) /\ ListInput(l, t) = InputOf(k, t)
  BY InputOfKey
<1>2. c.at = l /\ c.input = InputOf(k, t) /\ c.asked = asked
  BY <1>1 DEF Asking
<1>3. InputOf(k, t).pageToken = t
  BY <1>1, SameQuery
<1> HIDE DEF c
<1>4. CallOK(k, c)
  BY <1>2, <1>3 DEF CallOK
<1>5. e = [pages |-> e.pages, next |-> e.next, asked |-> e.asked, call |-> e.call]
      /\ Fits(k, e.next) /\ e.asked \subseteq Answers(k)
  BY DEF EntryOK
<1> HIDE DEF k
<1>6. f = [pages |-> e.pages, next |-> e.next, asked |-> e.asked, call |-> c]
  BY <1>5
<1> HIDE DEF f
<1>7. f.pages = e.pages /\ f.next = e.next /\ f.asked = e.asked /\ f.call = c
  BY <1>6
<1>8. EntryOK(k, f)
  BY <1>4, <1>5, <1>6, <1>7 DEF EntryOK
<1> QED
  BY <1>8 DEF f, c, k

LEMMA EntryStops ==
    ASSUME NEW k, NEW e, EntryOK(k, e)
    PROVE  EntryOK(k, [e EXCEPT !.call = NoCall])
<1> DEFINE f == [e EXCEPT !.call = NoCall]
<1>5. e = [pages |-> e.pages, next |-> e.next, asked |-> e.asked, call |-> e.call]
      /\ Fits(k, e.next) /\ e.asked \subseteq Answers(k)
  BY DEF EntryOK
<1>6. f = [pages |-> e.pages, next |-> e.next, asked |-> e.asked, call |-> NoCall]
  BY <1>5
<1> HIDE DEF f
<1>7. f.pages = e.pages /\ f.next = e.next /\ f.asked = e.asked /\ f.call = NoCall
  BY <1>6
<1>8. EntryOK(k, f)
  BY <1>5, <1>6, <1>7 DEF EntryOK
<1> QED
  BY <1>8 DEF f

LEMMA ShowKeeps ==
    ASSUME ListsInv, NEW l, LocationOK(l), Show(l)
    PROVE  ListsInv'
<1> DEFINE k == ListKey(l)
           e == Entry(k)
           again == [e EXCEPT !.call = Asking(l, NoToken, 1, IF e.pages = 0 THEN 1 ELSE e.pages, {})]
<1>1. loc' = l /\ LocationOK(loc')
  BY DEF Show
<1>2. lists' = lists \/ (HasList(l) /\ lists' = SetEntry(k, again))
  BY DEF Show, Observe
<1>3. CASE lists' = lists
  BY <1>1, <1>3 DEF ListsInv
<1>4. CASE HasList(l) /\ lists' = SetEntry(k, again)
  <2>1. KeyOK(k)
    BY <1>4, InputOfKey
  <2>2. EntryOK(k, e)
    BY <2>1, EntryKept
  <2>3. Fits(k, NoToken) /\ {} \subseteq Answers(k)
    BY DEF Fits
  <2>4. EntryOK(k, again)
    BY <1>4, <2>2, <2>3, EntryAsks
  <2> HIDE DEF again, k
  <2> QED
    BY <1>1, <1>4, <2>1, <2>4, EntrySet DEF ListsInv
<1> QED
  BY <1>2, <1>3, <1>4

LEMMA FetchNextKeeps ==
    ASSUME ListsInv, FetchNextPage
    PROVE  ListsInv'
<1> DEFINE k == ListKey(loc)
           e == Entry(k)
           asks == [e EXCEPT !.call = Asking(loc, e.next, e.pages + 1, e.pages + 1, e.asked)]
<1>1. LocationOK(loc) /\ HasList(loc) /\ lists' = SetEntry(k, asks) /\ loc' = loc
  BY DEF ListsInv, FetchNextPage
<1>2. KeyOK(k)
  BY <1>1, InputOfKey
<1>3. EntryOK(k, e)
  BY <1>2, EntryKept
<1>4. Fits(k, e.next) /\ e.asked \subseteq Answers(k)
  BY <1>3 DEF EntryOK
<1>5. EntryOK(k, asks)
  BY <1>1, <1>3, <1>4, EntryAsks
<1> HIDE DEF asks, k
<1> QED
  BY <1>1, <1>2, <1>5, EntrySet DEF ListsInv

LEMMA ListReplyKeeps ==
    ASSUME ListsInv, RefusedInv, NEW k \in DOMAIN lists, ListReply(k)
    PROVE  ListsInv' /\ RefusedInv'
<1> DEFINE e == lists[k]
           c == e.call
           t == c.input.pageToken
           asked == c.asked \cup {Query(c.input)}
<1>1. KeyOK(k) /\ EntryOK(k, e) /\ c # NoCall /\ CallOK(k, c)
  BY DEF ListsInv, ListReply, EntryOK
<1>2. /\ c.input = InputOf(k, t) /\ Fits(k, t) /\ asked \subseteq Answers(k)
      /\ LocationOK(c.at) /\ HasList(c.at) /\ ListKey(c.at) = k
  BY <1>1, SameQuery DEF CallOK
<1>3. loc' = loc /\ LocationOK(loc')
  BY DEF ListReply, ListsInv
<1>4. PICK r \in CallListing(c.input) :
        IF r = Refused
        THEN /\ refused' = refused \cup {c.input}
             /\ lists' = SetEntry(k, [e EXCEPT !.call = NoCall])
        ELSE /\ UNCHANGED refused
             /\ lists' = SetEntry(k,
                  IF c.page < c.upto /\ r.nextPageToken # NoToken
                  THEN [e EXCEPT !.call =
                           Asking(c.at, r.nextPageToken, c.page + 1, c.upto, asked)]
                  ELSE [pages |-> c.page, next |-> r.nextPageToken,
                        asked |-> asked, call |-> NoCall])
  BY DEF ListReply
<1>5. /\ r = Refused => "path" \in DOMAIN c.input /\ hasDotDotSegment(c.input.path)
      /\ r # Refused => Fits(k, r.nextPageToken)
  BY <1>1, <1>2, Answered
<1> HIDE DEF e, c, t, asked
<1>6. CASE r = Refused
  <2>1. RefusedInv'
    BY <1>4, <1>5, <1>6 DEF RefusedInv
  <2>2. EntryOK(k, [e EXCEPT !.call = NoCall])
    BY <1>1, EntryStops
  <2> DEFINE f == [e EXCEPT !.call = NoCall]
  <2>3. lists' = SetEntry(k, f)
    BY <1>4, <1>6
  <2> HIDE DEF f
  <2>4. EntryOK(k, f)
    BY <2>2 DEF f
  <2> QED
    BY <1>1, <1>3, <2>1, <2>3, <2>4, EntrySet DEF ListsInv
<1>7. CASE r # Refused
  <2> DEFINE more == [e EXCEPT !.call = Asking(c.at, r.nextPageToken, c.page + 1, c.upto, asked)]
             last == [pages |-> c.page, next |-> r.nextPageToken, asked |-> asked, call |-> NoCall]
  <2>1. RefusedInv'
    BY <1>4, <1>7 DEF RefusedInv
  <2>2. EntryOK(k, more)
    BY <1>1, <1>2, <1>5, <1>7, EntryAsks
  <2>3. EntryOK(k, last)
    BY <1>2, <1>5, <1>7 DEF EntryOK
  <2>4. lists' = SetEntry(k, more) \/ lists' = SetEntry(k, last)
    BY <1>4, <1>7
  <2> HIDE DEF more, last
  <2> QED
    BY <1>1, <1>3, <2>1, <2>2, <2>3, <2>4, EntrySet DEF ListsInv
<1> QED
  BY <1>6, <1>7

LEMMA ListFailsKeeps ==
    ASSUME ListsInv, NEW k \in DOMAIN lists, ListFails(k)
    PROVE  ListsInv'
<1>1. /\ loc' = loc /\ DOMAIN lists' = DOMAIN lists
      /\ \A key \in DOMAIN lists :
            lists'[key] = IF key = k THEN [lists[k] EXCEPT !.call = NoCall] ELSE lists[key]
  BY DEF ListFails
<1>2. EntryOK(k, [lists[k] EXCEPT !.call = NoCall])
  BY EntryStops DEF ListsInv
<1> QED
  BY <1>1, <1>2 DEF ListsInv

\* What is left alone keeps its part of the invariant.
LEMMA PartsStay ==
    /\ ListsInv /\ UNCHANGED <<loc, lists>> => ListsInv'
    /\ BoxInv /\ UNCHANGED <<box, suggestions, faults>> => BoxInv'
    /\ ModalInv /\ UNCHANGED modal => ModalInv'
    /\ RefusedInv /\ UNCHANGED refused => RefusedInv'
<1>1. ListsInv /\ UNCHANGED <<loc, lists>> => ListsInv'
  BY DEF ListsInv
<1>2. BoxInv /\ UNCHANGED <<box, suggestions, faults>> => BoxInv'
  BY DEF BoxInv, LookedUp
<1>3. ModalInv /\ UNCHANGED modal => ModalInv'
  BY DEF ModalInv
<1>4. RefusedInv /\ UNCHANGED refused => RefusedInv'
  BY DEF RefusedInv
<1> QED
  BY <1>1, <1>2, <1>3, <1>4

LEMMA FaultKeepsBox ==
    ASSUME BoxInv, UNCHANGED <<box, suggestions>>, faults' = faults + 1
    PROVE  BoxInv'
<1>0. faults \in Nat
  BY DEF BoxInv
<1>1. faults' \in Nat /\ faults' > 0
  BY <1>0
<1> QED
  BY <1>1 DEF BoxInv, LookedUp

\* The box changes, and its query stays or becomes empty.
LEMMA BoxKeeps ==
    ASSUME BoxInv, UNCHANGED <<suggestions, faults>>,
           box' \in [input : Input, query : Text, timer : BOOLEAN, open : BOOLEAN],
           box'.query \in {"", box.query}
    PROVE  BoxInv'
BY DEF BoxInv, LookedUp, SuggestionOK, SuggestionKey

LEMMA DebounceKeeps ==
    ASSUME BoxInv, Debounce
    PROVE  BoxInv'
<1> DEFINE text == Trim[box.input]
           keys == {SuggestionKey(kind, text) : kind \in Lookup}
<1>1. /\ box \in [input : Input, query : Text, timer : BOOLEAN, open : BOOLEAN]
      /\ suggestions = [k \in DOMAIN suggestions |-> suggestions[k]]
      /\ \A k \in DOMAIN suggestions : SuggestionOK(k, suggestions[k])
  BY DEF BoxInv
<1>2. text \in Text
  BY <1>1, InputAssumption
<1>3. faults' = faults /\ box' = [box EXCEPT !.query = text, !.timer = FALSE] /\ setQuery(text)
  BY DEF Debounce
<1>4. /\ box' \in [input : Input, query : Text, timer : BOOLEAN, open : BOOLEAN]
      /\ box'.query = text
  BY <1>1, <1>2, <1>3
<1> HIDE DEF text
<1>5. CASE text = box.query \/ text = ""
  <2>1. suggestions' = suggestions
    BY <1>3, <1>5 DEF setQuery
  <2> QED
    BY <1>3, <1>4, <1>5, <2>1, BoxKeeps
<1>6. CASE ~(text = box.query \/ text = "")
  <2> DEFINE old(k) == Suggestion(k[1], text)
             asked(k) == [old(k) EXCEPT !.fetching = text]
  <2>1. suggestions' = [k \in DOMAIN suggestions \cup keys |->
                          IF k \in keys /\ old(k).fetching = NoData THEN asked(k)
                          ELSE suggestions[k]]
    BY <1>3, <1>6 DEF setQuery
  <2>2. \A k \in keys : k[1] \in Lookup /\ k[2] = text /\ k = SuggestionKey(k[1], text)
    BY DEF SuggestionKey
  <2>3. ASSUME NEW k \in keys
        PROVE  /\ SuggestionOK(k, old(k)) /\ SuggestionOK(k, asked(k)) /\ asked(k).fetching = text
               /\ old(k).fetching \in {NoData, text}
               /\ k \notin DOMAIN suggestions => old(k).fetching = NoData
               /\ k \in DOMAIN suggestions => old(k) = suggestions[k]
    <3>1. k[1] \in Lookup /\ k[2] = text /\ k = SuggestionKey(k[1], text)
      BY <2>2
    <3>2. SuggestionOK(k, NoSuggestion)
      BY <1>2, <3>1 DEF SuggestionOK, NoSuggestion
    <3>3. old(k) = IF k \in DOMAIN suggestions THEN suggestions[k] ELSE NoSuggestion
      BY <3>1 DEF Suggestion
    <3>4. NoSuggestion.fetching = NoData
      BY DEF NoSuggestion
    <3> HIDE DEF old
    <3>5. SuggestionOK(k, old(k))
      BY <1>1, <3>2, <3>3
    <3>6. old(k) = [of |-> old(k).of, rows |-> old(k).rows, fetching |-> old(k).fetching]
      BY <3>5 DEF SuggestionOK
    <3>7. asked(k) = [of |-> old(k).of, rows |-> old(k).rows, fetching |-> text]
      BY <3>6
    <3> HIDE DEF asked
    <3>8. asked(k).of = old(k).of /\ asked(k).rows = old(k).rows /\ asked(k).fetching = text
      BY <3>7
    <3>9. SuggestionOK(k, asked(k))
      BY <3>1, <3>5, <3>7, <3>8 DEF SuggestionOK
    <3>10. old(k).fetching \in {NoData, text}
      BY <3>1, <3>5 DEF SuggestionOK
    <3> QED
      BY <3>3, <3>4, <3>5, <3>8, <3>9, <3>10
  <2> HIDE DEF asked, old, keys
  <2>4. /\ DOMAIN suggestions' = DOMAIN suggestions \cup keys
        /\ suggestions' = [k \in DOMAIN suggestions' |-> suggestions'[k]]
    BY <2>1
  <2>5. ASSUME NEW k \in DOMAIN suggestions'
        PROVE  SuggestionOK(k, suggestions'[k])
    <3>1. suggestions'[k] = IF k \in keys /\ old(k).fetching = NoData THEN asked(k)
                            ELSE suggestions[k]
      BY <2>1, <2>4
    <3> QED
      BY <1>1, <2>3, <2>4, <3>1
  <2>6. ASSUME NEW kind \in Lookup
        PROVE  /\ SuggestionKey(kind, text) \in DOMAIN suggestions'
               /\ suggestions'[SuggestionKey(kind, text)].fetching = text
    <3> DEFINE k == SuggestionKey(kind, text)
    <3>1. k \in keys
      BY DEF keys
    <3> HIDE DEF k
    <3>2. suggestions'[k] = IF old(k).fetching = NoData THEN asked(k) ELSE suggestions[k]
      BY <2>1, <2>4, <3>1
    <3>3. suggestions'[k].fetching = text
      BY <2>3, <3>1, <3>2
    <3> QED
      BY <2>4, <3>1, <3>3 DEF k
  <2> QED
    BY <1>3, <1>4, <2>4, <2>5, <2>6 DEF BoxInv, LookedUp
<1> QED
  BY <1>5, <1>6

\* One cached lookup is replaced by one that still answers its own text.
LEMMA LookupKeeps ==
    ASSUME BoxInv, NEW k \in DOMAIN suggestions, NEW s,
           suggestions' = [suggestions EXCEPT ![k] = s], UNCHANGED box,
           faults' \in Nat, faults' >= faults,
           SuggestionOK(k, s), s.of = k[2] \/ faults' > 0
    PROVE  BoxInv'
<1>1. faults \in Nat
  BY DEF BoxInv
<1>2. faults > 0 => faults' > 0
  BY <1>1
<1>3. /\ suggestions = [q \in DOMAIN suggestions |-> suggestions[q]]
      /\ \A q \in DOMAIN suggestions : SuggestionOK(q, suggestions[q])
  BY DEF BoxInv
<1>4. /\ DOMAIN suggestions' = DOMAIN suggestions
      /\ \A q \in DOMAIN suggestions : suggestions'[q] = IF q = k THEN s ELSE suggestions[q]
      /\ suggestions' = [q \in DOMAIN suggestions' |-> suggestions'[q]]
  BY <1>3
<1>5. \A q \in DOMAIN suggestions : SuggestionOK(q, suggestions'[q])
  BY <1>3, <1>4
<1>6. ASSUME NEW kind \in Lookup, box.query # ""
      PROVE  LET q == SuggestionKey(kind, box.query)
             IN  q \in DOMAIN suggestions /\ LookedUp(suggestions[q], box.query)'
  <2> DEFINE q == SuggestionKey(kind, box.query)
  <2>1. q \in DOMAIN suggestions /\ LookedUp(suggestions[q], box.query)
    BY <1>6 DEF BoxInv
  <2>2. q = k => k[2] = box.query
    BY DEF SuggestionKey
  <2>3. suggestions'[q] = IF q = k THEN s ELSE suggestions[q]
    BY <1>4, <2>1
  <2> HIDE DEF q
  <2>4. LookedUp(suggestions[q], box.query)'
           <=> suggestions'[q].of = box.query \/ suggestions'[q].fetching = box.query \/ faults' > 0
    BY DEF LookedUp, q
  <2>5. LookedUp(suggestions[q], box.query)'
    BY <1>2, <2>1, <2>2, <2>3, <2>4 DEF LookedUp
  <2> QED
    BY <2>1, <2>5 DEF q
<1> QED
  BY <1>3, <1>4, <1>5, <1>6 DEF BoxInv, LookedUp

LEMMA SuggestionReplyKeeps ==
    ASSUME BoxInv, RefusedInv, NEW k \in DOMAIN suggestions, SuggestionReply(k)
    PROVE  BoxInv' /\ RefusedInv'
<1> DEFINE s == suggestions[k]
           input == LookupInput(k[1], s.fetching)
           found(r) == IF k[1] = "files" THEN r.files ELSE r.directories
           replies == IF k[1] = "files" THEN CallListing(input) ELSE CallSearchDirectories(input)
<1>1. /\ SuggestionOK(k, s) /\ s.fetching # NoData /\ faults \in Nat
      /\ box' = box /\ faults' = faults
  BY DEF BoxInv, SuggestionReply
<1>2. k[1] \in Lookup /\ k[2] \in Text /\ s.fetching = k[2]
  BY <1>1 DEF SuggestionOK
<1>3. PICK r \in replies :
        IF r = Refused
        THEN /\ refused' = refused \cup {input}
             /\ suggestions' = [suggestions EXCEPT ![k].fetching = NoData]
        ELSE /\ UNCHANGED refused
             /\ suggestions' = [suggestions EXCEPT ![k] =
                   [of |-> s.fetching, rows |-> found(r), fetching |-> NoData]]
  BY DEF SuggestionReply
<1>4. r # Refused /\ found(r) \in BOOLEAN
  BY <1>2, LookupAnswered
<1> HIDE DEF replies, found, input
<1> DEFINE new == [of |-> k[2], rows |-> found(r), fetching |-> NoData]
<1>5. UNCHANGED refused /\ suggestions' = [suggestions EXCEPT ![k] = new]
  BY <1>2, <1>3, <1>4
<1>6. new.of = k[2] /\ new.rows = found(r) /\ new.fetching = NoData
  OBVIOUS
<1>7. SuggestionOK(k, new)
  <2>1. k = SuggestionKey(k[1], k[2])
    BY <1>1 DEF SuggestionOK
  <2> QED
    BY <1>2, <1>4, <1>6, <2>1 DEF SuggestionOK
<1> HIDE DEF new
<1>8. faults' \in Nat /\ faults' >= faults
  BY <1>1
<1> QED
  BY <1>1, <1>5, <1>6, <1>7, <1>8, LookupKeeps, PartsStay

LEMMA SuggestionFailsKeeps ==
    ASSUME BoxInv, NEW k \in DOMAIN suggestions, SuggestionFails(k)
    PROVE  BoxInv'
<1> DEFINE s == suggestions[k]
           new == [of |-> s.of, rows |-> s.rows, fetching |-> NoData]
<1>1. /\ SuggestionOK(k, s) /\ faults \in Nat /\ box' = box /\ faults' = faults + 1
      /\ suggestions' = [suggestions EXCEPT ![k].fetching = NoData]
  BY DEF BoxInv, SuggestionFails
<1>2. s = [of |-> s.of, rows |-> s.rows, fetching |-> s.fetching]
  BY <1>1 DEF SuggestionOK
<1>3. suggestions' = [suggestions EXCEPT ![k] = new]
  <2>1. [s EXCEPT !.fetching = NoData] = new
    BY <1>2
  <2>2. suggestions' = [suggestions EXCEPT ![k] = [s EXCEPT !.fetching = NoData]]
    BY <1>1
  <2> HIDE DEF new, s
  <2> QED
    BY <2>1, <2>2
<1>4. new.of = s.of /\ new.rows = s.rows /\ new.fetching = NoData
  OBVIOUS
<1>5. SuggestionOK(k, new)
  BY <1>1, <1>4 DEF SuggestionOK
<1> HIDE DEF new
<1>6. faults' \in Nat /\ faults' >= faults /\ faults' > 0
  BY <1>1
<1> QED
  BY <1>1, <1>3, <1>5, <1>6, LookupKeeps

LEMMA NavigateKeeps ==
    ASSUME ListsInv, NEW route \in Route, NEW search, SearchOK(search), Navigate(route, search)
    PROVE  ListsInv' /\ ModalInv'
<1>1. modal' = {} /\ Show([route |-> route, filters |-> Filters(route, search)])
  BY DEF Navigate
<1>2. LocationOK([route |-> route, filters |-> Filters(route, search)])
  BY Located
<1>3. ListsInv'
  BY <1>1, <1>2, ShowKeeps
<1> QED
  BY <1>1, <1>3 DEF ModalInv

LEMMA WalkKeeps ==
    ASSUME Inv, NEW route \in Route, NEW search, SearchOK(search), Walk(route, search)
    PROVE  Inv'
<1>1. /\ Show([route |-> route, filters |-> Filters(route, search)])
      /\ UNCHANGED <<box, suggestions, faults>> /\ UNCHANGED modal /\ UNCHANGED refused
  BY DEF Walk
<1>2. LocationOK([route |-> route, filters |-> Filters(route, search)])
  BY Located
<1>3. ListsInv'
  BY <1>1, <1>2, ShowKeeps DEF Inv
<1> QED
  BY <1>1, <1>3, PartsStay DEF Inv

\* Every directory a path lies in is one.
LEMMA AncestorsAre ==
    ASSUME NEW segments \in Seq(Name), NEW upto \in Int, upto <= Len(segments)
    PROVE  Ancestors(segments, upto) \subseteq Directory
<1> SUFFICES ASSUME NEW i \in 1 .. upto PROVE Append(SubSeq(segments, 1, i), "") \in Directory
  BY Directories DEF Ancestors
<1>1. Len(segments) \in Nat /\ i \in Int /\ 1 \in Int /\ \A j \in 1 .. i : j \in 1 .. Len(segments)
  OBVIOUS
<1>2. \A j \in 1 .. i : segments[j] \in Name
  BY <1>1
<1>3. SubSeq(segments, 1, i) \in Seq(Name)
  BY <1>1, <1>2, SubSeqProperties
<1> QED
  BY <1>3, ToDirectory

LEMMA BreadcrumbsAre ==
    ASSUME NEW p \in Browsed, NEW last \in BOOLEAN
    PROVE  Breadcrumbs(p, last) \subseteq Directory
<1> DEFINE segments == Segments(p)
           upto == Len(segments) - IF last THEN 1 ELSE 0
<1>1. segments \in Seq(Name)
  BY BrowsedPath DEF Segments
<1>2. Len(segments) \in Nat
  BY <1>1
<1>3. upto \in Int /\ upto <= Len(segments)
  BY <1>2
<1> HIDE DEF segments, upto
<1>4. Ancestors(segments, upto) \subseteq Directory
  BY <1>1, <1>3, AncestorsAre
<1> QED
  BY <1>4, Directories DEF Breadcrumbs, segments, upto

LEMMA ChildrenAre ==
    ASSUME NEW p
    PROVE  ChildDirectories(p) \subseteq Folders
BY DEF ChildDirectories

LEMMA NavigateToKeeps ==
    ASSUME ModalInv, NEW m0 \in MoveDialogs, NEW path \in Directory, navigateTo(path)
    PROVE  ModalInv'
<1>1. m0 \in modal /\ "viewPath" \in DOMAIN m0
  BY DEF MoveDialogs
<1>2. DialogOK(m0)
  BY <1>1 DEF ModalInv
<1> DEFINE new == [id |-> m0.id, key |-> m0.key, viewPath |-> path]
<1>3. m0 = [id |-> m0.id, key |-> m0.key, viewPath |-> m0.viewPath]
  BY <1>2 DEF DialogOK
<1>4. [m0 EXCEPT !.viewPath = path] = new
  BY <1>3
<1>5. \A m \in modal : m = m0
  BY <1>1 DEF ModalInv
<1>6. modal' = {[m EXCEPT !.viewPath = path] : m \in modal}
  BY DEF navigateTo
<1>7. modal' = {new}
  BY <1>1, <1>4, <1>5, <1>6
<1>8. new.id = m0.id /\ new.key = m0.key /\ new.viewPath = path
      /\ DOMAIN new = {"id", "key", "viewPath"}
  OBVIOUS
<1>9. DialogOK(new)
  BY <1>2, <1>8 DEF DialogOK
<1> HIDE DEF new
<1> QED
  BY <1>7, <1>8, <1>9 DEF ModalInv

LEMMA OpensDialog ==
    ASSUME ModalInv, NEW key \in Keys, OpenMoveDialog(key)
    PROVE  ModalInv'
<1> DEFINE new == [id |-> loc.filters.id, key |-> key, viewPath |-> DirectoryOf(key)]
<1>1. modal' = {new} /\ Canonical(loc.filters.id)
  BY DEF OpenMoveDialog
<1>2. key \in Browsed
  BY InputAssumption DEF Browsed
<1>3. DirectoryOf(key) \in Directory
  BY <1>2, Directories
<1>4. new.id = loc.filters.id /\ new.key = key /\ new.viewPath = DirectoryOf(key)
      /\ DOMAIN new = {"id", "key", "viewPath"}
  OBVIOUS
<1>5. DialogOK(new)
  BY <1>1, <1>2, <1>3, <1>4 DEF DialogOK
<1> HIDE DEF new
<1> QED
  BY <1>1, <1>4, <1>5 DEF ModalInv

LEMMA ShowsMetadata ==
    ASSUME NEW image \in Images, ShowMetadata(image)
    PROVE  ModalInv'
<1> DEFINE new == [image |-> image, lines |-> Lines(image)]
<1>1. modal' = {new}
  BY DEF ShowMetadata
<1>2. new.image = image /\ new.lines = Lines(image) /\ DOMAIN new = {"image", "lines"}
  OBVIOUS
<1>3. ImageOK(new)
  BY <1>2 DEF ImageOK
<1> HIDE DEF new
<1> QED
  BY <1>1, <1>2, <1>3 DEF ModalInv

LEMMA InitInv == Init => Inv
<1> SUFFICES ASSUME Init PROVE Inv
  OBVIOUS
<1>1. ListsInv
  <2>1. loc.route = "/file" /\ lists = <<>>
    BY DEF Init
  <2>2. LocationOK(loc)
    BY <2>1 DEF LocationOK, Route
  <2>3. DOMAIN lists = {}
    BY <2>1
  <2> QED
    BY <2>2, <2>3 DEF ListsInv
<1>2. BoxInv
  <2>1. box = [input |-> "", query |-> "", timer |-> TRUE, open |-> FALSE]
        /\ faults = 0 /\ suggestions = <<>>
    BY DEF Init
  <2>2. "" \in Input /\ "" \in Text
    BY InputAssumption, RequestAssumption
  <2>3. box \in [input : Input, query : Text, timer : BOOLEAN, open : BOOLEAN] /\ box.query = ""
    BY <2>1, <2>2
  <2>4. DOMAIN suggestions = {} /\ suggestions = [k \in DOMAIN suggestions |-> suggestions[k]]
    <3>1. suggestions = <<>>
      BY <2>1
    <3>2. DOMAIN suggestions = {}
      BY <3>1
    <3>3. suggestions = [k \in {} |-> suggestions[k]]
      BY <3>1
    <3> QED
      BY <3>2, <3>3
  <2>5. faults \in Nat
    BY <2>1
  <2> QED
    BY <2>3, <2>4, <2>5 DEF BoxInv
<1>3. ModalInv /\ RefusedInv
  BY DEF Init, ModalInv, RefusedInv
<1> QED
  BY <1>1, <1>2, <1>3 DEF Inv

\* The acts that lead to another page, and what they do to the box.
LEMMA GoesElsewhere ==
    ASSUME Inv, NEW route \in Route, NEW search, SearchOK(search), Navigate(route, search),
           BoxInv', UNCHANGED refused
    PROVE  Inv'
BY NavigateKeeps, PartsStay DEF Inv

LEMMA ClearedBox ==
    ASSUME BoxInv, box' = ClearBox, UNCHANGED <<suggestions, faults>>
    PROVE  BoxInv'
<1>1. box \in [input : Input, query : Text, timer : BOOLEAN, open : BOOLEAN]
  BY DEF BoxInv
<1>2. "" \in Input /\ "" \in Text
  BY InputAssumption, RequestAssumption
<1>3. box' \in [input : Input, query : Text, timer : BOOLEAN, open : BOOLEAN]
      /\ box'.query = ""
  BY <1>1, <1>2 DEF ClearBox
<1> QED
  BY <1>3, BoxKeeps

LEMMA BoxActsKeep ==
    ASSUME BoxInv,
           \/ \E t \in Input : TypeText(t)
           \/ ToggleDropdown
           \/ PressEnter
    PROVE  BoxInv'
<1>1. box \in [input : Input, query : Text, timer : BOOLEAN, open : BOOLEAN]
  BY DEF BoxInv
<1>2. ASSUME NEW t \in Input, TypeText(t) PROVE BoxInv'
  <2>1. box' = [box EXCEPT !.input = t, !.open = TRUE, !.timer = TRUE]
        /\ UNCHANGED <<suggestions, faults>>
    BY <1>2 DEF TypeText
  <2>2. box' \in [input : Input, query : Text, timer : BOOLEAN, open : BOOLEAN]
        /\ box'.query = box.query
    BY <1>1, <2>1
  <2> QED
    BY <2>1, <2>2, BoxKeeps
<1>3. ASSUME ToggleDropdown PROVE BoxInv'
  <2>1. box' = [box EXCEPT !.open = ~box.open] /\ UNCHANGED <<suggestions, faults>>
    BY <1>3 DEF ToggleDropdown
  <2>2. box' \in [input : Input, query : Text, timer : BOOLEAN, open : BOOLEAN]
        /\ box'.query = box.query
    BY <1>1, <2>1
  <2> QED
    BY <2>1, <2>2, BoxKeeps
<1>4. ASSUME PressEnter PROVE BoxInv'
  <2>1. box' = [box EXCEPT !.open = FALSE] /\ UNCHANGED <<suggestions, faults>>
    BY <1>4 DEF PressEnter
  <2>2. box' \in [input : Input, query : Text, timer : BOOLEAN, open : BOOLEAN]
        /\ box'.query = box.query
    BY <1>1, <2>1
  <2> QED
    BY <2>1, <2>2, BoxKeeps
<1> QED
  BY <1>2, <1>3, <1>4

\* The paths and filters that the pages put into their URLs.
LEMMA SearchesOf ==
    /\ \A p \in Browsed : SearchOK([DEFAULT_BROWSE_FILTERS EXCEPT !.path = p])
    /\ \A q \in Text : SearchOK([DEFAULT_SEARCH_FILTERS EXCEPT !.query = q])
    /\ \A id : SearchOK([id |-> id])
    /\ \A f \in [path : Browsed, sort : SORT_FIELDS, order : SORT_ORDERS], p \in Browsed :
          SearchOK([f EXCEPT !.path = p])
    /\ \A f \in SearchFilters, type \in Type : SearchOK([f EXCEPT !.type = type])
    /\ \A link \in Links : link.route \in Route /\ SearchOK(link.search)
<1>1. ASSUME NEW p \in Browsed PROVE SearchOK([DEFAULT_BROWSE_FILTERS EXCEPT !.path = p])
  <2> DEFINE f == [DEFAULT_BROWSE_FILTERS EXCEPT !.path = p]
  <2>1. f.path = p /\ DOMAIN f = {"path", "sort", "order"}
    BY DEF DEFAULT_BROWSE_FILTERS
  <2> HIDE DEF f
  <2>2. SearchOK(f)
    BY <2>1 DEF SearchOK
  <2> QED
    BY <2>2 DEF f
<1>2. ASSUME NEW q \in Text PROVE SearchOK([DEFAULT_SEARCH_FILTERS EXCEPT !.query = q])
  <2> DEFINE f == [DEFAULT_SEARCH_FILTERS EXCEPT !.query = q]
  <2>1. f.query = q /\ f.type = "" /\ DOMAIN f = {"query", "type", "sort", "order"}
    BY DEF DEFAULT_SEARCH_FILTERS
  <2> HIDE DEF f
  <2>2. "" \in Type
    BY RequestAssumption
  <2>3. SearchOK(f)
    BY <2>1, <2>2 DEF SearchOK
  <2> QED
    BY <2>3 DEF f
<1>3. \A id : SearchOK([id |-> id])
  BY DEF SearchOK
<1>4. ASSUME NEW f \in [path : Browsed, sort : SORT_FIELDS, order : SORT_ORDERS], NEW p \in Browsed
      PROVE  SearchOK([f EXCEPT !.path = p])
  BY DEF SearchOK
<1>5. ASSUME NEW f \in SearchFilters, NEW type \in Type PROVE SearchOK([f EXCEPT !.type = type])
  BY DEF SearchOK, SearchFilters
<1>6. ASSUME NEW link \in Links PROVE link.route \in Route /\ SearchOK(link.search)
  BY LinksAssumption DEF Route, SearchOK, Browsed
<1> QED
  BY <1>1, <1>2, <1>3, <1>4, <1>5, <1>6

LEMMA NextInv ==
    ASSUME NamesAreStrings, Inv, [Next]_vars
    PROVE  Inv'
<1>0. LocationOK(loc) /\ ListsInv /\ BoxInv /\ ModalInv /\ RefusedInv
  BY DEF Inv, ListsInv
<1>1. ASSUME NEW t \in Input, TypeText(t) PROVE Inv'
  <2>1. UNCHANGED <<loc, lists>> /\ UNCHANGED modal /\ UNCHANGED refused
    BY <1>1 DEF TypeText
  <2> QED
    BY <1>0, <1>1, <2>1, BoxActsKeep, PartsStay DEF Inv
<1>2. ASSUME Debounce PROVE Inv'
  <2>1. UNCHANGED <<loc, lists>> /\ UNCHANGED modal /\ UNCHANGED refused
    BY <1>2 DEF Debounce
  <2> QED
    BY <1>0, <1>2, <2>1, DebounceKeeps, PartsStay DEF Inv
<1>3. ASSUME ToggleDropdown PROVE Inv'
  <2>1. UNCHANGED <<loc, lists>> /\ UNCHANGED modal /\ UNCHANGED refused
    BY <1>3 DEF ToggleDropdown
  <2> QED
    BY <1>0, <1>3, <2>1, BoxActsKeep, PartsStay DEF Inv
<1>4. ASSUME PressEnter PROVE Inv'
  <2> DEFINE search == [DEFAULT_SEARCH_FILTERS EXCEPT !.query = Trim[box.input]]
  <2>1. Navigate("/search", search) /\ UNCHANGED refused
    BY <1>4 DEF PressEnter
  <2>2. Trim[box.input] \in Text
    BY <1>0, InputAssumption DEF BoxInv
  <2>3. SearchOK(search)
    BY <2>2, SearchesOf
  <2>4. BoxInv'
    BY <1>0, <1>4, BoxActsKeep
  <2>5. "/search" \in Route
    BY DEF Route
  <2> HIDE DEF search
  <2> QED
    BY <2>1, <2>3, <2>4, <2>5, GoesElsewhere
<1>5. ASSUME HandleSelect PROVE Inv'
  <2>1. PICK id \in Id : Navigate("/file", [id |-> id])
    BY <1>5 DEF HandleSelect
  <2>2. BoxInv' /\ UNCHANGED refused
    BY <1>0, <1>5, ClearedBox DEF HandleSelect
  <2>3. "/file" \in Route /\ SearchOK([id |-> id])
    BY SearchesOf DEF Route
  <2> QED
    BY <2>1, <2>2, <2>3, GoesElsewhere
<1>6. ASSUME NEW p \in Folders, HandleSelectFolder(p) PROVE Inv'
  <2> DEFINE search == [DEFAULT_BROWSE_FILTERS EXCEPT !.path = p]
  <2>1. Navigate("/", search) /\ UNCHANGED refused
    BY <1>6 DEF HandleSelectFolder
  <2>2. BoxInv'
    BY <1>0, <1>6, ClearedBox DEF HandleSelectFolder
  <2>3. "/" \in Route
    BY DEF Route
  <2>4. SearchOK(search)
    BY Directories, SearchesOf
  <2> HIDE DEF search
  <2> QED
    BY <2>1, <2>2, <2>3, <2>4, GoesElsewhere
<1>7. ASSUME NEW link \in Links, OpenLink(link) PROVE Inv'
  <2>1. /\ Navigate(link.route, link.search) /\ UNCHANGED refused
        /\ UNCHANGED <<box, suggestions, faults>>
    BY <1>7 DEF OpenLink
  <2>2. BoxInv'
    BY <1>0, <2>1, PartsStay
  <2>3. link.route \in Route /\ SearchOK(link.search)
    BY SearchesOf
  <2> QED
    BY <2>1, <2>2, <2>3, GoesElsewhere
<1>8. ASSUME NEW type \in Type, SetType(type) PROVE Inv'
  <2> DEFINE search == [loc.filters EXCEPT !.type = type]
  <2>1. /\ Navigate("/search", search) /\ UNCHANGED refused
        /\ UNCHANGED <<box, suggestions, faults>> /\ loc.route = "/search"
    BY <1>8 DEF SetType
  <2>2. BoxInv'
    BY <1>0, <2>1, PartsStay
  <2>3. "/search" \in Route /\ loc.filters \in SearchFilters
    BY <1>0, <2>1 DEF Route, LocationOK
  <2>4. SearchOK(search)
    BY <2>3, SearchesOf
  <2> HIDE DEF search
  <2> QED
    BY <2>1, <2>2, <2>3, <2>4, GoesElsewhere
<1>9. ASSUME OpenFile PROVE Inv'
  <2>1. PICK id \in Id : Navigate("/file", [id |-> id])
    BY <1>9 DEF OpenFile
  <2>2. UNCHANGED <<box, suggestions, faults>> /\ UNCHANGED refused
    BY <1>9 DEF OpenFile
  <2>3. BoxInv'
    BY <1>0, <2>2, PartsStay
  <2>4. "/file" \in Route /\ SearchOK([id |-> id])
    BY SearchesOf DEF Route
  <2> QED
    BY <2>1, <2>2, <2>3, <2>4, GoesElsewhere
<1>10. ASSUME NEW image \in Images, ShowMetadata(image) PROVE Inv'
  <2>1. UNCHANGED <<loc, lists>> /\ UNCHANGED <<box, suggestions, faults>> /\ UNCHANGED refused
    BY <1>10 DEF ShowMetadata
  <2> QED
    BY <1>0, <1>10, <2>1, ShowsMetadata, PartsStay DEF Inv
<1>11. ASSUME CloseMetadata PROVE Inv'
  <2>1. UNCHANGED <<loc, lists>> /\ UNCHANGED <<box, suggestions, faults>> /\ UNCHANGED refused
    BY <1>11 DEF CloseMetadata
  <2>2. ModalInv'
    BY <1>11 DEF CloseMetadata, ModalInv
  <2> QED
    BY <1>0, <2>1, <2>2, PartsStay DEF Inv
<1>12. ASSUME NEW p \in Browsed, handleNavigate(p) PROVE Inv'
  <2> DEFINE search == [loc.filters EXCEPT !.path = p]
  <2>1. Walk("/", search) /\ loc.route = "/"
    BY <1>12 DEF handleNavigate
  <2>2. loc.filters \in [path : Browsed, sort : SORT_FIELDS, order : SORT_ORDERS]
    BY <1>0, <2>1 DEF LocationOK
  <2>3. SearchOK(search)
    BY <2>2, SearchesOf
  <2>4. "/" \in Route
    BY DEF Route
  <2> HIDE DEF search
  <2> QED
    BY <2>1, <2>3, <2>4, WalkKeeps
<1>13. ASSUME OpenFolder PROVE Inv'
  <2>1. PICK p \in ChildDirectories(loc.filters.path) : handleNavigate(p)
    BY <1>13 DEF OpenFolder
  <2>2. p \in Browsed
    BY ChildrenAre, Directories
  <2> QED
    BY <1>12, <2>1, <2>2
<1>14. ASSUME ClickBreadcrumb PROVE Inv'
  <2>1. PICK p \in Breadcrumbs(loc.filters.path, TRUE) : handleNavigate(p)
    BY <1>14 DEF ClickBreadcrumb
  <2>2. loc.filters.path \in Browsed
    BY <1>0, <1>14 DEF ClickBreadcrumb, LocationOK
  <2>3. p \in Browsed
    BY <2>2, BreadcrumbsAre, Directories
  <2> QED
    BY <1>12, <2>1, <2>3
<1>15. ASSUME NEW name \in NewNames, handleNewFolder(name) PROVE Inv'
  <2> DEFINE p == Append(Concat(loc.filters.path, name), "")
  <2>1. handleNavigate(p)
    BY <1>15 DEF handleNewFolder
  <2>2. loc.filters.path \in Browsed
    BY <1>0, <1>15 DEF handleNewFolder, LocationOK
  <2>3. name \in Name
    BY InputAssumption
  <2>4. p \in Browsed
    BY <2>2, <2>3, ConcatOf, Directories
  <2> HIDE DEF p
  <2> QED
    BY <1>12, <2>1, <2>4
<1>16. ASSUME NEW key \in Keys, LeaveFilePage(key) PROVE Inv'
  <2>1. PICK p \in Breadcrumbs(DirectoryOf(key), FALSE) :
            Walk("/", [DEFAULT_BROWSE_FILTERS EXCEPT !.path = p])
    BY <1>16 DEF LeaveFilePage
  <2>2. key \in Browsed
    BY InputAssumption DEF Browsed
  <2>3. DirectoryOf(key) \in Browsed
    BY <2>2, Directories
  <2>4. p \in Browsed
    BY <2>3, BreadcrumbsAre, Directories
  <2>5. "/" \in Route
    BY DEF Route
  <2> DEFINE search == [DEFAULT_BROWSE_FILTERS EXCEPT !.path = p]
  <2>6. SearchOK(search) /\ Walk("/", search)
    BY <2>1, <2>4, SearchesOf
  <2> HIDE DEF search
  <2> QED
    BY <2>5, <2>6, WalkKeeps
<1>17. ASSUME NEW key \in Keys, OpenMoveDialog(key) PROVE Inv'
  <2>1. UNCHANGED <<loc, lists>> /\ UNCHANGED <<box, suggestions, faults>> /\ UNCHANGED refused
    BY <1>17 DEF OpenMoveDialog, Others
  <2> QED
    BY <1>0, <1>17, <2>1, OpensDialog, PartsStay DEF Inv
<1>18. ASSUME NEW m \in MoveDialogs, NEW p \in Directory, navigateTo(p) PROVE Inv'
  <2>1. UNCHANGED <<loc, lists>> /\ UNCHANGED <<box, suggestions, faults>> /\ UNCHANGED refused
    BY <1>18 DEF navigateTo, Others
  <2> QED
    BY <1>0, <1>18, <2>1, NavigateToKeeps, PartsStay DEF Inv
<1>19. \A m \in MoveDialogs : m.viewPath \in Directory /\ m.viewPath \in Seq(Name)
  <2>1. \A m \in MoveDialogs : DialogOK(m)
    BY <1>0 DEF MoveDialogs, ModalInv
  <2> QED
    BY <2>1, Directories, BrowsedPath DEF DialogOK
<1>20. ASSUME WalkInDialog PROVE Inv'
  <2>1. PICK m \in MoveDialogs :
          \E p \in ChildDirectories(m.viewPath)
                     \cup Ancestors(NonEmptySegments(m.viewPath),
                                    Len(NonEmptySegments(m.viewPath)) - 1) : navigateTo(p)
    BY <1>20 DEF WalkInDialog
  <2> DEFINE segments == NonEmptySegments(m.viewPath)
  <2>2. segments \in Seq(Name)
    BY <1>19, Segmented
  <2>3. PICK p \in ChildDirectories(m.viewPath) \cup Ancestors(segments, Len(segments) - 1) :
            navigateTo(p)
    BY <2>1
  <2> HIDE DEF segments
  <2>4. Len(segments) - 1 \in Int /\ Len(segments) - 1 <= Len(segments)
    BY <2>2
  <2>5. Ancestors(segments, Len(segments) - 1) \subseteq Directory
    BY <2>2, <2>4, AncestorsAre
  <2>6. p \in Directory
    BY <2>3, <2>5, ChildrenAre, Directories
  <2> QED
    BY <1>18, <2>3, <2>6
<1>21. ASSUME NEW typed \in NewNames, handleNewFolderSubmit(typed) PROVE Inv'
  <2> DEFINE name == trimEnd[trimStart[typed]]
             prefix(path) == IF path = Root THEN Root ELSE Slashed(path)
  <2>1. PICK m \in MoveDialogs : navigateTo(Append(Concat(prefix(m.viewPath), name), ""))
    BY <1>21 DEF handleNewFolderSubmit
  <2>2. name \in Name
    BY InputAssumption, RequestAssumption
  <2>3. prefix(m.viewPath) \in Browsed
    <3>1. m.viewPath \in Directory
      BY <1>19
    <3> QED
      BY <3>1, Directories DEF Slashed
  <2> HIDE DEF name, prefix
  <2>4. Append(Concat(prefix(m.viewPath), name), "") \in Directory
    BY <2>2, <2>3, ConcatOf
  <2> QED
    BY <1>18, <2>1, <2>4
<1>22. ASSUME FetchNextPage PROVE Inv'
  <2>1. UNCHANGED <<box, suggestions, faults>> /\ UNCHANGED modal /\ UNCHANGED refused
    BY <1>22 DEF FetchNextPage
  <2> QED
    BY <1>0, <1>22, <2>1, FetchNextKeeps, PartsStay DEF Inv
<1>23. ASSUME NEW k \in DOMAIN lists, ListReply(k) PROVE Inv'
  <2>1. UNCHANGED <<box, suggestions, faults>> /\ UNCHANGED modal
    BY <1>23 DEF ListReply
  <2> QED
    BY <1>0, <1>23, <2>1, ListReplyKeeps, PartsStay DEF Inv
<1>24. ASSUME NEW k \in DOMAIN lists, ListFails(k) PROVE Inv'
  <2>1. UNCHANGED <<box, suggestions>> /\ faults' = faults + 1
        /\ UNCHANGED modal /\ UNCHANGED refused
    BY <1>24 DEF ListFails
  <2>2. BoxInv'
    BY <1>0, <2>1, FaultKeepsBox
  <2> QED
    BY <1>0, <1>24, <2>1, <2>2, ListFailsKeeps, PartsStay DEF Inv
<1>25. ASSUME NEW k \in DOMAIN suggestions, SuggestionReply(k) PROVE Inv'
  <2>1. UNCHANGED <<loc, lists>> /\ UNCHANGED modal
    BY <1>25 DEF SuggestionReply
  <2> QED
    BY <1>0, <1>25, <2>1, SuggestionReplyKeeps, PartsStay DEF Inv
<1>26. ASSUME NEW k \in DOMAIN suggestions, SuggestionFails(k) PROVE Inv'
  <2>1. UNCHANGED <<loc, lists>> /\ UNCHANGED modal /\ UNCHANGED refused
    BY <1>26 DEF SuggestionFails
  <2> QED
    BY <1>0, <1>26, <2>1, SuggestionFailsKeeps, PartsStay DEF Inv
<1>27. ASSUME listContentTypes PROVE Inv'
  <2>1. UNCHANGED <<loc, lists>> /\ UNCHANGED <<box, suggestions, faults>>
        /\ UNCHANGED modal /\ UNCHANGED refused
    BY <1>27 DEF listContentTypes
  <2> QED
    BY <1>0, <2>1, PartsStay DEF Inv
<1>28. CASE UNCHANGED vars
  <2>1. UNCHANGED <<loc, lists>> /\ UNCHANGED <<box, suggestions, faults>>
        /\ UNCHANGED modal /\ UNCHANGED refused
    BY <1>28 DEF vars
  <2> QED
    BY <1>0, <2>1, PartsStay DEF Inv
<1> QED
  BY <1>1, <1>2, <1>3, <1>4, <1>5, <1>6, <1>7, <1>8, <1>9, <1>10, <1>11, <1>13, <1>14, <1>15,
     <1>16, <1>17, <1>20, <1>21, <1>22, <1>23, <1>24, <1>25, <1>26, <1>27, <1>28
     DEF Next, Replies, LookupEnds

LEMMA AlwaysInv ==
    ASSUME NamesAreStrings
    PROVE  Spec => []Inv
BY InitInv, NextInv, PTL DEF Spec

-----------------------------------------------------------------------------
(* What follows from the invariant.                                         *)

\* The dialog shows an image that may be opened, and its lines.
ImagesInv == \A m \in modal : "image" \in DOMAIN m => m.image \in Images /\ m.lines = Lines(m.image)

LEMMA ImagesNext ==
    ASSUME ImagesInv, [Next]_vars
    PROVE  ImagesInv'
<1>1. ASSUME modal' \in {{}, modal} PROVE ImagesInv'
  BY <1>1 DEF ImagesInv
<1>2. ASSUME NEW image \in Images, ShowMetadata(image) PROVE ImagesInv'
  <2>1. \A m \in modal' : m = [image |-> image, lines |-> Lines(image)]
    BY <1>2 DEF ShowMetadata
  <2> QED
    BY <2>1 DEF ImagesInv
<1>3. ASSUME NEW key \in Keys, OpenMoveDialog(key) PROVE ImagesInv'
  <2>1. \A m \in modal' :
           m = [id |-> loc.filters.id, key |-> key, viewPath |-> DirectoryOf(key)]
    BY <1>3 DEF OpenMoveDialog
  <2> QED
    BY <2>1 DEF ImagesInv
<1>4. ASSUME NEW path, navigateTo(path) PROVE ImagesInv'
  <2> SUFFICES ASSUME NEW m \in modal', "image" \in DOMAIN m
               PROVE  m.image \in Images /\ m.lines = Lines(m.image)
    BY DEF ImagesInv
  <2>1. PICK n \in modal : m = [n EXCEPT !.viewPath = path]
    BY <1>4 DEF navigateTo
  <2>2. DOMAIN m = DOMAIN n
    BY <2>1
  <2>3. n.image \in Images /\ n.lines = Lines(n.image)
    BY <2>2 DEF ImagesInv
  <2> QED
    BY <2>1, <2>2, <2>3
<1>5. WalkInDialog => \E path : navigateTo(path)
  BY DEF WalkInDialog
<1>6. ASSUME NEW name, handleNewFolderSubmit(name) PROVE \E path : navigateTo(path)
  BY <1>6 DEF handleNewFolderSubmit
<1>7. ASSUME \E path : navigateTo(path) PROVE ImagesInv'
  BY <1>4, <1>7
<1>8. ASSUME NEW route, NEW search, Navigate(route, search) \/ Walk(route, search)
      PROVE  modal' \in {{}, modal}
  BY <1>8 DEF Navigate, Walk
<1>9. CASE (\E t \in Input : TypeText(t)) \/ Debounce \/ ToggleDropdown \/ CloseMetadata
           \/ FetchNextPage \/ Replies \/ UNCHANGED vars
  <2>1. modal' \in {{}, modal}
    BY <1>9 DEF TypeText, Debounce, ToggleDropdown, CloseMetadata, FetchNextPage, Replies,
       LookupEnds, ListReply, ListFails, SuggestionReply, SuggestionFails, listContentTypes, vars
  <2> QED
    BY <2>1, <1>1
<1>10. CASE \/ PressEnter \/ HandleSelect \/ \E p \in Folders : HandleSelectFolder(p)
            \/ \E link \in Links : OpenLink(link)
            \/ \E type \in Type : SetType(type)
            \/ OpenFile
  <2>1. \E route, search : Navigate(route, search)
    BY <1>10, Zenon DEF PressEnter, HandleSelect, HandleSelectFolder, OpenLink, SetType, OpenFile
  <2> QED
    BY <2>1, <1>1, <1>8
<1>11. CASE \/ OpenFolder \/ ClickBreadcrumb
            \/ \E name \in NewNames : handleNewFolder(name)
            \/ \E key \in Keys : LeaveFilePage(key)
  <2>1. \E route, search : Walk(route, search)
    BY <1>11, Zenon DEF OpenFolder, ClickBreadcrumb, handleNewFolder, LeaveFilePage, handleNavigate
  <2> QED
    BY <2>1, <1>1, <1>8
<1> QED
  BY <1>2, <1>3, <1>5, <1>6, <1>7, <1>9, <1>10, <1>11, Zenon DEF Next

\* What the metadata dialog shows is exactly what the exif indexer stored, for
\* every image, up to the exceptions StoredIsShown names.
THEOREM StoredReadingsAreShown == Spec => []StoredIsShown
<1>1. ASSUME ImagesInv PROVE StoredIsShown
  <2> SUFFICES ASSUME NEW m \in modal, "image" \in DOMAIN m
               PROVE  LET row == IndexExifResult(m.image)
                          stored == IF row = NoRow THEN {} ELSE DOMAIN row.values
                          noBlock == IF row = NoRow \/ row.hasExif THEN {} ELSE ExifField
                          noPlace == IF Coordinates \subseteq stored THEN {} ELSE GPSField
                          seaLevel == {f \in stored \cap {"gpsAltitude"} :
                                            row.values[f] = "zero"}
                      IN  m.lines = stored \ (noBlock \cup noPlace \cup seaLevel)
    BY DEF StoredIsShown
  <2>1. m.image \in Images /\ m.lines = Lines(m.image)
    BY <1>1 DEF ImagesInv
  <2> QED
    BY <2>1, LinesAreStored, Zenon
<1>2. Init => ImagesInv
  BY DEF Init, ImagesInv
<1> QED
  BY <1>1, <1>2, ImagesNext, PTL DEF Spec

LEMMA ListShown ==
    ASSUME ListsInv, HasList(loc)
    PROVE  Entry(ListKey(loc)).asked \subseteq {Query(ListInput(loc, NoToken))}
<1> DEFINE k == ListKey(loc)
<1>1. LocationOK(loc)
  BY DEF ListsInv
<1>2. KeyOK(k) /\ ListInput(loc, NoToken) = InputOf(k, NoToken)
  BY <1>1, InputOfKey
<1>3. EntryOK(k, Entry(k))
  BY <1>2, EntryKept
<1> QED
  BY <1>2, <1>3 DEF EntryOK, Answers

LEMMA DropdownShown ==
    ASSUME BoxInv
    PROVE  /\ \A kind \in Lookup : Rows(kind) => Suggestion(kind, box.query).of = box.query
           /\ NoMatches => \/ faults > 0
                           \/ \A kind \in Lookup : Suggestion(kind, box.query).of = box.query
<1> DEFINE q == box.query
           s(kind) == suggestions[SuggestionKey(kind, q)]
<1>1. ASSUME q # "", NEW kind \in Lookup
      PROVE  /\ Suggestion(kind, q) = s(kind)
             /\ s(kind).rows => s(kind).of = q
             /\ s(kind).fetching = NoData => s(kind).of = q \/ faults > 0 \/ q = NoData
  <2>1. SuggestionKey(kind, q) \in DOMAIN suggestions /\ LookedUp(s(kind), q)
    BY <1>1 DEF BoxInv
  <2>2. SuggestionOK(SuggestionKey(kind, q), s(kind)) /\ SuggestionKey(kind, q)[2] = q
    BY <2>1 DEF BoxInv, SuggestionKey
  <2>3. Suggestion(kind, q) = s(kind)
    BY <2>1 DEF Suggestion
  <2>4. s(kind).rows => s(kind).of = q
    BY <2>2 DEF SuggestionOK
  <2>5. s(kind).of = q \/ s(kind).fetching = q \/ faults > 0
    BY <2>1 DEF LookedUp
  <2> QED
    BY <2>3, <2>4, <2>5
<1>2. ASSUME q # "", NEW kind \in Lookup
      PROVE  s(kind).of \in {NoData, q}
  <2>1. SuggestionKey(kind, q) \in DOMAIN suggestions
    BY <1>2 DEF BoxInv
  <2>2. SuggestionOK(SuggestionKey(kind, q), s(kind)) /\ SuggestionKey(kind, q)[2] = q
    BY <2>1 DEF BoxInv, SuggestionKey
  <2> QED
    BY <2>2 DEF SuggestionOK
<1>3. ASSUME NEW kind \in Lookup, Rows(kind)
      PROVE  Suggestion(kind, q).of = q
  BY <1>1, <1>3 DEF Rows
<1>4. ASSUME NoMatches, ~(faults > 0), NEW kind \in Lookup
      PROVE  Suggestion(kind, q).of = q
  <2>1. q # "" /\ Suggestion(kind, q).fetching = NoData
    BY <1>4 DEF NoMatches, isFetching
  <2> QED
    BY <1>1, <1>2, <1>4, <2>1
<1> QED
  BY <1>3, <1>4

LEMMA UploadShown ==
    ASSUME NamesAreStrings, ListsInv, NEW c \in CallsOfUpload
    PROVE  \/ hasDotDotSegment(c.shown) \/ Untidy(c.shown)
           \/ DirectoryOf(c.data.key) = normalizeDirPath(c.shown)
<1> DEFINE p == loc.filters.path
<1>1. loc.route = "/" /\ \E name \in FileNames :
         c.shown = p /\ c.data.key = Concat(normalizeUploadPath(p), name)
  BY DEF CallsOfUpload, UploadTo, Asked
<1>2. PICK name \in FileNames : c.shown = p /\ c.data.key = Concat(normalizeUploadPath(p), name)
  BY <1>1
<1>3. p \in Browsed
  BY <1>1 DEF ListsInv, LocationOK
<1>4. name \in Name
  BY InputAssumption
<1> QED
  BY <1>2, <1>3, <1>4, UploadedWhereShown

\* A directory that does not start with a slash is what the service makes of it.
LEMMA DirectoryStays ==
    ASSUME NEW p \in Directory, ~hasDotDotSegment(p), ~Absolute(p)
    PROVE  normalizeDirPath(p) = p
<1>1. p = Root \/ endsWithSlash(p)
  BY Directories
<1> QED
  BY <1>1 DEF normalizeDirPath, Absolute, Slashed

LEMMA DialogCall ==
    ASSUME NamesAreStrings, ModalInv, NEW c \in CallsOfDialog
    PROVE  \E m \in modal :
             LET dest == Concat(m.viewPath, Last(m.key))
             IN  /\ m.key \in Browsed /\ m.viewPath \in Directory /\ Canonical(m.id)
                 /\ dest \in Browsed /\ dest # m.key /\ Front(dest) = Front(m.viewPath)
                 /\ c.fn = "moveFile" /\ c.key = m.key /\ c.shown = m.viewPath
                 /\ c.data = [id |-> m.id, destinationKey |-> dest]
<1>1. PICK m \in MoveDialogs :
        /\ Concat(m.viewPath, Last(m.key)) # m.key
        /\ c = Asked("moveFile", [id |-> m.id,
                                  destinationKey |-> Concat(m.viewPath, Last(m.key))],
                     m.key, m.viewPath)
  BY DEF CallsOfDialog
<1>2. m \in modal /\ "viewPath" \in DOMAIN m
  BY DEF MoveDialogs
<1>3. m.key \in Browsed /\ m.viewPath \in Directory /\ Canonical(m.id)
  BY <1>2 DEF ModalInv, DialogOK
<1>4. Last(m.key) \in Name /\ m.viewPath \in Browsed
  BY <1>3, BrowsedPath, Directories
<1>5. /\ Concat(m.viewPath, Last(m.key)) \in Browsed
      /\ Front(Concat(m.viewPath, Last(m.key))) = Front(m.viewPath)
  BY <1>4, ConcatOf
<1>6. /\ c.fn = "moveFile" /\ c.key = m.key /\ c.shown = m.viewPath
      /\ c.data = [id |-> m.id, destinationKey |-> Concat(m.viewPath, Last(m.key))]
  BY <1>1 DEF Asked
<1> QED
  BY <1>1, <1>2, <1>3, <1>5, <1>6, Zenon

LEMMA MoveShown ==
    ASSUME NamesAreStrings, ModalInv, NEW c \in CallsOfDialog
    PROVE  \/ hasDotDotSegment(c.shown) \/ Absolute(c.shown)
           \/ DirectoryOf(c.data.destinationKey) = normalizeDirPath(c.shown)
<1>1. PICK m \in modal :
        LET dest == Concat(m.viewPath, Last(m.key))
        IN  /\ m.viewPath \in Directory
            /\ Front(dest) = Front(m.viewPath) /\ c.shown = m.viewPath
            /\ c.data = [id |-> m.id, destinationKey |-> dest]
  BY DialogCall
<1>2. /\ c.shown \in Directory /\ Front(c.data.destinationKey) = Front(c.shown)
  BY <1>1
<1>3. DirectoryOf(c.data.destinationKey) = DirectoryOf(c.shown)
  BY <1>2 DEF DirectoryOf
<1>4. DirectoryOf(c.shown) = c.shown
  BY <1>2, Directories
<1> QED
  BY <1>2, <1>3, <1>4, DirectoryStays

\* What is on the screen answers what is asked for now, and what is asked for
\* is what is on the screen: the list and its filters, the dropdown and its
\* query, the directory of an upload or of a move and the one that is listed.
THEOREM ShownWasAsked ==
    ASSUME NamesAreStrings
    PROVE  Spec => []ShownIsWhatWasAsked
<1>1. Inv => ShownIsWhatWasAsked
  BY ListShown, DropdownShown, UploadShown, MoveShown DEF Inv, ShownIsWhatWasAsked
<1> QED
  BY <1>1, AlwaysInv, PTL

-----------------------------------------------------------------------------
(* The calls to the files service.                                          *)

\* An outcome that NeverRefused allows for every call, and for a move.
Fine(o) == o.thrown => Gone(o.reply)
FineMove(o) == Fine(o) \/ o.reply = AlreadyExists

LEMMA Replied ==
    ASSUME NEW replies, Refused \notin replies, NEW o \in Outcomes(replies)
    PROVE  /\ FineMove(o)
           /\ AlreadyExists \notin replies => Fine(o)
<1>1. PICK r \in replies :
        o = [reply |-> r, thrown |-> ~(r \notin {Refused, NotFound, AlreadyExists})]
  BY DEF Outcomes, Outcome
<1>2. o.reply = r /\ (o.thrown => r \in {NotFound, AlreadyExists})
  BY <1>1
<1> QED
  BY <1>2 DEF Fine, FineMove, Gone

LEMMA NoRefusal ==
    /\ NotFound # Refused /\ AlreadyExists # Refused /\ NotFound # AlreadyExists
    /\ \A e \in {Refused, AlreadyExists} :
          /\ Empty # e
          /\ \A n : e \notin FileResponse(n)
          /\ e \notin [uploadId : UploadId] /\ e \notin UploadResponse
          /\ e \notin StatsResponse /\ e \notin DeleteDirectoryResponse
          /\ \A s : [urls |-> s] # e
<1>1. /\ Refused.error = "INVALID_ARGUMENT" /\ NotFound.error = "NOT_FOUND"
      /\ AlreadyExists.error = "ALREADY_EXISTS"
  BY DEF Refused, NotFound, AlreadyExists
<1>2. NotFound # Refused /\ AlreadyExists # Refused /\ NotFound # AlreadyExists
  BY <1>1
<1>3. ASSUME NEW e \in {Refused, AlreadyExists}
      PROVE  /\ Empty # e
             /\ \A n : e \notin FileResponse(n)
             /\ e \notin [uploadId : UploadId] /\ e \notin UploadResponse
             /\ e \notin StatsResponse /\ e \notin DeleteDirectoryResponse
             /\ \A s : [urls |-> s] # e
  <2>1. DOMAIN e = {"error"}
    BY DEF Refused, AlreadyExists
  <2>2. Empty # e
    <3>1. DOMAIN Empty = {"done"}
      BY DEF Empty
    <3> QED
      BY <2>1, <3>1
  <2>3. ASSUME NEW n PROVE e \notin FileResponse(n)
    <3>1. ASSUME NEW r \in FileResponse(n) PROVE DOMAIN r = {"file"}
      BY DEF FileResponse
    <3> QED
      BY <2>1, <3>1
  <2>4. e \notin [uploadId : UploadId] /\ e \notin UploadResponse
    <3>1. ASSUME NEW r \in [uploadId : UploadId] PROVE DOMAIN r = {"uploadId"}
      OBVIOUS
    <3>2. ASSUME NEW r \in UploadResponse PROVE DOMAIN r = {"url"}
      BY DEF UploadResponse
    <3> QED
      BY <2>1, <3>1, <3>2
  <2>5. e \notin StatsResponse /\ e \notin DeleteDirectoryResponse
    <3>1. ASSUME NEW r \in StatsResponse PROVE DOMAIN r = {"fileCount"}
      BY DEF StatsResponse
    <3>2. ASSUME NEW r \in DeleteDirectoryResponse PROVE DOMAIN r = {"deletedCount"}
      BY DEF DeleteDirectoryResponse
    <3> QED
      BY <2>1, <3>1, <3>2
  <2>6. ASSUME NEW s PROVE [urls |-> s] # e
    <3>1. DOMAIN [urls |-> s] = {"urls"}
      OBVIOUS
    <3> QED
      BY <2>1, <3>1
  <2> QED
    BY <2>2, <2>3, <2>4, <2>5, <2>6
<1> QED
  BY <1>2, <1>3

\* The message each method takes.
LEMMA Messages ==
    /\ FilesService["getDownloadURL"] = GetDownloadURLRequest
    /\ FilesService["getOpenURL"] = GetOpenURLRequest
    /\ FilesService["getFileInfo"] = GetFileInfoRequest
    /\ FilesService["deleteFile"] = DeleteFileRequest
    /\ FilesService["moveFile"] = MoveFileRequest
    /\ FilesService["getFilePreviewStatuses"] = GetFilePreviewStatusesRequest
    /\ FilesService["getUploadURL"] = GetUploadURLRequest
    /\ FilesService["commitUpload"] = CommitUploadRequest
    /\ FilesService["createMultipartUpload"] = CreateMultipartUploadRequest
    /\ FilesService["getUploadPartURL"] = GetUploadPartURLRequest
    /\ FilesService["listUploadedParts"] = ListUploadedPartsRequest
    /\ FilesService["completeMultipartUpload"] = CompleteMultipartUploadRequest
    /\ FilesService["abortMultipartUpload"] = AbortMultipartUploadRequest
    /\ FilesService["getDirectoryStats"] = GetDirectoryStatsRequest
    /\ FilesService["deleteDirectory"] = DeleteDirectoryRequest
BY DEF FilesService

LEMMA IdOnWire ==
    ASSUME NEW id, Canonical(id)
    PROVE  /\ id \in Digits /\ id \in Id /\ BigInt[id] \in int64 /\ toString[BigInt[id]] = id
           /\ [id |-> BigInt[id]] \in GetFileInfoRequest
           /\ [id |-> BigInt[id]] \in DeleteFileRequest
           /\ <<BigInt[id]>> \in Seq(int64)
           /\ ToSet(<<BigInt[id]>>) = {BigInt[id]} /\ ToSet(<<id>>) = {id}
<1>1. id \in Digits /\ id \in Id /\ BigInt[id] \in Nat /\ MaxInt64 \in Nat
      /\ toString[BigInt[id]] = id /\ BigInt[id] <= MaxInt64
  BY IdAssumption DEF Canonical
<1>2. BigInt[id] \in int64
  BY <1>1 DEF int64
<1> QED
  BY <1>1, <1>2 DEF GetFileInfoRequest, DeleteFileRequest, ToSet

LEMMA UrlsReplied ==
    ASSUME NEW id, Canonical(id), NEW method \in {"getDownloadURL", "getOpenURL"},
           NEW o \in UrlFor(id, Send(method, [ids |-> <<BigInt[id]>>], Root))
    PROVE  Fine(o)
<1> DEFINE n == BigInt[id]
           req == [ids |-> <<n>>]
<1>1. req \in FilesService[method]
  <2>1. req \in GetDownloadURLRequest /\ req \in GetOpenURLRequest
    BY IdOnWire DEF GetDownloadURLRequest, GetOpenURLRequest
  <2> QED
    BY <2>1, Messages, Zenon
<1>2. Send(method, req, Root) = GetURLsResponse(<<n>>)
  BY <1>1 DEF Send, Serve
<1>3. Send(method, req, Root) = {[urls |-> found] : found \in SUBSET {n}}
  BY <1>2, IdOnWire DEF GetURLsResponse
<1>4. PICK r \in Send(method, req, Root) :
        o = [reply |-> r, thrown |-> ~(r # Refused /\ \E k \in r.urls : toString[k] = id)]
  BY DEF UrlFor, Outcome
<1>5. PICK found \in SUBSET {n} : r = [urls |-> found]
  BY <1>3, <1>4
<1>6. r # Refused /\ r.urls = found /\ "urls" \in DOMAIN r
  BY <1>5, NoRefusal
<1>7. toString[n] = id
  BY IdOnWire
<1>8. o.reply = r /\ (o.thrown => found = {})
  <2>1. o.reply = r /\ (o.thrown => ~ \E k \in found : toString[k] = id)
    BY <1>4, <1>6
  <2> QED
    BY <2>1, <1>5, <1>7
<1> QED
  BY <1>6, <1>8 DEF Fine, Gone

\* The calls that name a file by its id.
LEMMA IdCalls ==
    ASSUME NEW id, Canonical(id), NEW key,
           NEW fn \in {"getDownloadUrl", "getOpenUrl", "getFileMetadata", "deleteFile"},
           NEW o \in Call(fn, [id |-> id], key)
    PROVE  Fine(o)
<1> DEFINE d == [id |-> id]
           n == BigInt[id]
<1>1. d.id = id /\ validateIdInput(d)
  BY IdOnWire DEF validateIdInput
<1>2. CASE fn = "getDownloadUrl"
  <2>1. o \in UrlFor(id, Send("getDownloadURL", [ids |-> <<n>>], Root))
    BY <1>1, <1>2 DEF Call, Handled, getDownloadUrlImpl
  <2> QED
    BY <2>1, UrlsReplied
<1>3. CASE fn = "getOpenUrl"
  <2>1. o \in UrlFor(id, Send("getOpenURL", [ids |-> <<n>>], Root))
    BY <1>1, <1>3 DEF Call, Handled, getOpenUrlImpl
  <2> QED
    BY <2>1, UrlsReplied
<1>4. CASE fn = "getFileMetadata"
  <2>1. o \in Outcomes(Send("getFileInfo", [id |-> n], Root))
    BY <1>1, <1>4 DEF Call, Handled, getFileMetadataImpl
  <2>2. [id |-> n] \in FilesService["getFileInfo"]
    BY IdOnWire, Messages
  <2>3. Send("getFileInfo", [id |-> n], Root) = {NotFound} \cup FileResponse(n)
    BY <2>2 DEF Send, Serve
  <2> QED
    BY <2>1, <2>3, NoRefusal, Replied
<1>5. CASE fn = "deleteFile"
  <2>1. o \in Outcomes(Send("deleteFile", [id |-> n], Root))
    BY <1>1, <1>5 DEF Call, Handled, deleteFileImpl
  <2>2. [id |-> n] \in FilesService["deleteFile"]
    BY IdOnWire, Messages
  <2>3. Send("deleteFile", [id |-> n], Root) = {NotFound, Empty}
    BY <2>2 DEF Send, Serve
  <2> QED
    BY <2>1, <2>3, NoRefusal, Replied
<1> QED
  BY <1>2, <1>3, <1>4, <1>5

LEMMA StatusCalls ==
    ASSUME NEW id, Canonical(id), NEW key,
           NEW o \in Call("getFilePreviewStatuses", [ids |-> <<id>>], key)
    PROVE  Fine(o)
<1> DEFINE d == [ids |-> <<id>>]
           ns == [i \in DOMAIN <<id>> |-> BigInt[<<id>>[i]]]
<1>1. d.ids = <<id>> /\ <<id>> \in Seq(Id) /\ ToSet(<<id>>) \subseteq Digits
  <2>1. id \in Id /\ id \in Digits /\ ToSet(<<id>>) = {id}
    BY IdOnWire
  <2> QED
    BY <2>1, OneOf
<1>2. validateIdsInput(d)
  BY <1>1 DEF validateIdsInput
<1>3. o \in Outcomes(Send("getFilePreviewStatuses", [ids |-> ns], Root))
  BY <1>1, <1>2 DEF Call, Handled, getFilePreviewStatusesImpl
<1>4. ns \in Seq(int64)
  <2>1. DOMAIN <<id>> = 1 .. 1 /\ <<id>>[1] = id
    OBVIOUS
  <2>2. BigInt[id] \in int64
    BY IdOnWire
  <2>3. \A i \in 1 .. 1 : i = 1
    OBVIOUS
  <2>4. ns \in [1 .. 1 -> int64]
    BY <2>1, <2>2, <2>3
  <2> QED
    BY <2>4
<1>5. [ids |-> ns] \in FilesService["getFilePreviewStatuses"]
  BY <1>4, Messages DEF GetFilePreviewStatusesRequest
<1> HIDE DEF ns
<1>6. Send("getFilePreviewStatuses", [ids |-> ns], Root) = GetURLsResponse(ns)
  BY <1>5 DEF Send, Serve
<1>7. Refused \notin GetURLsResponse(ns) /\ AlreadyExists \notin GetURLsResponse(ns)
  BY NoRefusal DEF GetURLsResponse
<1> QED
  BY <1>3, <1>6, <1>7, Replied

\* The calls that name a folder.
LEMMA FolderCalls ==
    ASSUME NEW p \in Folders, ~Unacceptable(p), ~Absolute(p), NEW key,
           NEW fn \in {"getDirectoryStats", "deleteDirectory"},
           NEW o \in Call(fn, [path |-> p], key)
    PROVE  Fine(o)
<1> DEFINE d == [path |-> p]
<1>1. p \in Path /\ endsWithSlash(p) /\ p # Root
  <2>1. p \in Browsed /\ endsWithSlash(p)
    BY InputAssumption DEF Browsed
  <2>2. Len(p) > 1
    BY <2>1 DEF endsWithSlash
  <2>3. Len(Root) = 1
    BY DEF Root
  <2> QED
    BY <2>1, <2>2, <2>3, BrowsedPath
<1>2. validateDirPath(p)
  BY <1>1 DEF validateDirPath, Unacceptable
<1>3. d.path = p /\ validatePathInput(d)
  BY <1>1 DEF validatePathInput
<1>4. CASE fn = "getDirectoryStats"
  <2>1. o \in Outcomes(Send("getDirectoryStats", d, Root))
    BY <1>3, <1>4 DEF Call, Handled, getDirectoryStatsImpl
  <2>2. d \in FilesService["getDirectoryStats"]
    BY <1>1, Messages DEF GetDirectoryStatsRequest
  <2>3. Send("getDirectoryStats", d, Root) = StatsResponse
    BY <1>2, <1>3, <2>2 DEF Send, Serve, DirectoryRpc
  <2> QED
    BY <2>1, <2>3, NoRefusal, Replied
<1>5. CASE fn = "deleteDirectory"
  <2>1. o \in Outcomes(Send("deleteDirectory", d, Root))
    BY <1>3, <1>5 DEF Call, Handled, deleteDirectoryImpl
  <2>2. d \in FilesService["deleteDirectory"]
    BY <1>1, Messages DEF DeleteDirectoryRequest
  <2>3. Send("deleteDirectory", d, Root) = DeleteDirectoryResponse
    BY <1>2, <1>3, <2>2 DEF Send, Serve, DirectoryRpc
  <2> QED
    BY <2>1, <2>3, NoRefusal, Replied
<1> QED
  BY <1>4, <1>5

\* "Move here".
LEMMA MoveCalls ==
    ASSUME NEW id, Canonical(id), NEW key, NEW dest \in Browsed,
           dest # Root, dest # key, ~Reserved(dest),
           NEW o \in Call("moveFile", [id |-> id, destinationKey |-> dest], key)
    PROVE  FineMove(o)
<1> DEFINE d == [id |-> id, destinationKey |-> dest]
           req == [id |-> BigInt[id], destinationKey |-> dest]
<1>1. d.id = id /\ d.destinationKey = dest /\ validateMoveFileInput(d)
  BY IdOnWire DEF validateMoveFileInput
<1>2. o \in Outcomes(Send("moveFile", req, key))
  BY <1>1 DEF Call, Handled, moveFileImpl
<1>3. req \in FilesService["moveFile"] /\ req.destinationKey = dest
  BY IdOnWire, BrowsedPath, Messages DEF MoveFileRequest
<1>4. Send("moveFile", req, key) = {NotFound, AlreadyExists, Empty}
  BY <1>3 DEF Send, Serve, MoveFile
<1> QED
  BY <1>2, <1>4, NoRefusal, Replied

\* The key of an upload is one the service takes, if its folder is.
LEMMA UploadKey ==
    ASSUME NamesAreStrings, NEW p \in Browsed, NEW name \in FileNames
    PROVE  LET key == Concat(normalizeUploadPath(p), name)
           IN  /\ key \in Path /\ key # Root
               /\ ~Unacceptable(key) => validateUploadKey(key)
<1> DEFINE up == normalizeUploadPath(p)
           key == Concat(up, name)
<1>1. up \in Directory /\ up \in Browsed /\ \A i \in 1 .. Len(up) - 1 : up[i] # Blank
  BY UploadPath, Directories
<1>2. name \in Name /\ name # Blank
  BY InputAssumption DEF Blank
<1> HIDE DEF up
<1>3. /\ key \in Browsed /\ Len(key) = Len(up) /\ Last(key) = name
      /\ \A i \in 1 .. Len(up) - 1 : key[i] = up[i]
  BY <1>1, <1>2, ConcatOf
<1> HIDE DEF key
<1>4. key \in Path /\ Len(key) \in Nat \ {0}
  BY <1>3, BrowsedPath
<1>5. key # Root
  <2>1. Last(Root) = Blank
    BY Directories DEF Directory, Blank
  <2> QED
    BY <1>2, <1>3, <2>1
<1>6. Len(key) > 1 => key[1] # Blank
  BY <1>1, <1>3, <1>4
<1>7. ~Absolute(key)
  BY <1>6 DEF Absolute, Blank
<1>8. ~Unacceptable(key) => validateUploadKey(key)
  BY <1>5, <1>7 DEF Unacceptable, validateUploadKey
<1> QED
  BY <1>4, <1>5, <1>8 DEF key, up

\* The calls of an upload in one piece.
LEMMA KeyCalls ==
    ASSUME NEW k \in Path, k # Root, validateUploadKey(k), NEW key,
           NEW fn \in {"getUploadUrl", "commitUpload"},
           NEW o \in Call(fn, [key |-> k], key)
    PROVE  Fine(o)
<1> DEFINE d == [key |-> k]
<1>1. d.key = k /\ DOMAIN d = {"key"} /\ validateKeyInput(d)
  BY DEF validateKeyInput
<1>2. \A responses : UploadRpc(d, responses) = responses
  BY <1>1 DEF UploadRpc
<1>3. CASE fn = "getUploadUrl"
  <2>1. o \in Outcomes(Send("getUploadURL", d, Root))
    BY <1>1, <1>3 DEF Call, Handled, getUploadUrlImpl
  <2>2. d \in FilesService["getUploadURL"]
    BY Messages DEF GetUploadURLRequest
  <2>3. Send("getUploadURL", d, Root) = UploadResponse
    BY <1>2, <2>2 DEF Send, Serve
  <2> QED
    BY <2>1, <2>3, NoRefusal, Replied
<1>4. CASE fn = "commitUpload"
  <2>1. o \in Outcomes(Send("commitUpload", d, Root))
    BY <1>1, <1>4 DEF Call, Handled, commitUploadImpl
  <2>2. d \in FilesService["commitUpload"]
    BY Messages DEF CommitUploadRequest
  <2>3. Send("commitUpload", d, Root) = {NotFound} \cup FileResponse(0)
    BY <1>2, <2>2 DEF Send, Serve
  <2> QED
    BY <2>1, <2>3, NoRefusal, Replied
<1> QED
  BY <1>3, <1>4

LEMMA CreateCalls ==
    ASSUME NEW k \in Path, k # Root, validateUploadKey(k), NEW key,
           NEW type \in FileTypes,
           NEW o \in Call("createMultipartUpload", [key |-> k, contentType |-> type], key)
    PROVE  Fine(o)
<1> DEFINE d == [key |-> k, contentType |-> type]
<1>0. type \in STRING /\ type # ""
  BY InputAssumption
<1>1. /\ d.key = k /\ d.contentType = type
      /\ DOMAIN d = {"key", "contentType"} /\ validateCreateMultipartUploadInput(d)
  BY <1>0 DEF validateCreateMultipartUploadInput
<1>2. \A responses : UploadRpc(d, responses) = responses
  BY <1>1 DEF UploadRpc
<1>3. o \in Outcomes(Send("createMultipartUpload", d, Root))
  BY <1>1 DEF Call, Handled, createMultipartUploadImpl
<1>4. d \in FilesService["createMultipartUpload"]
  BY <1>0, Messages DEF CreateMultipartUploadRequest
<1>5. Send("createMultipartUpload", d, Root) = [uploadId : UploadId]
  BY <1>2, <1>4 DEF Send, Serve
<1> QED
  BY <1>3, <1>5, NoRefusal, Replied

\* A part number that the wire and the service take.
PartOK(n) == n \in Nat /\ n \in int32 /\ n \in minPartNumber .. maxPartNumber

LEMMA PartNumbers ==
    ASSUME NEW n \in Parts, ~BeyondLast(n)
    PROVE  PartOK(n)
<1>1. n \in Nat \ {0}
  BY InputAssumption
<1>2. n \in Nat /\ minPartNumber <= n /\ n <= maxPartNumber
  BY <1>1 DEF BeyondLast, minPartNumber, maxPartNumber
<1>3. minPartNumber \in Nat /\ maxPartNumber \in Nat
  BY DEF minPartNumber, maxPartNumber
<1>4. MaxInt32 \in Nat /\ maxPartNumber <= MaxInt32
  BY DEF maxPartNumber, MaxInt32
<1> QED
  BY <1>2, <1>3, <1>4 DEF int32, PartOK

LEMMA PartCalls ==
    ASSUME NEW k \in Path, k # Root, validateUploadKey(k), NEW key,
           NEW id \in UploadId, NEW n, PartOK(n),
           NEW o \in Call("getUploadPartUrl",
                          [key |-> k, uploadId |-> id, partNumber |-> n], key)
    PROVE  Fine(o)
<1> DEFINE d == [key |-> k, uploadId |-> id, partNumber |-> n]
<1>0. id \in STRING /\ id # ""
  BY IdAssumption
<1>1. /\ d.key = k /\ d.uploadId = id /\ d.partNumber = n
      /\ DOMAIN d = {"key", "uploadId", "partNumber"}
  OBVIOUS
<1>2. n \in Nat /\ n \in int32 /\ n \in minPartNumber .. maxPartNumber
  BY DEF PartOK
<1>3. validateUploadPartUrlInput(d)
  BY <1>0, <1>1, <1>2, Zenon DEF validateUploadPartUrlInput
<1>4. \A responses : UploadRpc(d, responses) = responses
  BY <1>0, <1>1, <1>2, Zenon DEF UploadRpc
<1>5. o \in Outcomes(Send("getUploadPartURL", d, Root))
  BY <1>1, <1>3 DEF Call, Handled, getUploadPartUrlImpl
<1>6. d \in FilesService["getUploadPartURL"]
  <2>1. d \in GetUploadPartURLRequest
    BY <1>0, <1>2 DEF GetUploadPartURLRequest
  <2> QED
    BY <2>1, Messages, Zenon
<1>7. Send("getUploadPartURL", d, Root) = UploadResponse
  BY <1>4, <1>6 DEF Send, Serve
<1> QED
  BY <1>5, <1>7, NoRefusal, Replied

\* The calls that name an upload in parts.
LEMMA SessionCalls ==
    ASSUME NEW k \in Path, k # Root, validateUploadKey(k), NEW key,
           NEW fn \in {"listUploadedParts", "completeMultipartUpload", "abortMultipartUpload"},
           NEW id \in UploadId, NEW o \in Call(fn, [key |-> k, uploadId |-> id], key)
    PROVE  Fine(o)
<1> DEFINE d == [key |-> k, uploadId |-> id]
<1>0. id \in STRING /\ id # ""
  BY IdAssumption
<1>1. /\ d.key = k /\ d.uploadId = id /\ DOMAIN d = {"key", "uploadId"}
      /\ validateUploadIdInput(d)
  BY <1>0 DEF validateUploadIdInput
<1>2. \A responses : UploadRpc(d, responses) = responses
  BY <1>0, <1>1 DEF UploadRpc
<1>3. o \in Outcomes(Send(fn, d, Root))
  BY <1>1 DEF Call, Handled, listUploadedPartsImpl, completeMultipartUploadImpl,
              abortMultipartUploadImpl, UploadIdImpl
<1>4. d \in FilesService[fn]
  <2>1. /\ d \in ListUploadedPartsRequest /\ d \in CompleteMultipartUploadRequest
        /\ d \in AbortMultipartUploadRequest
    BY <1>0 DEF ListUploadedPartsRequest, CompleteMultipartUploadRequest,
                AbortMultipartUploadRequest
  <2> QED
    BY <2>1, Messages, Zenon
<1>5. Send(fn, d, Root) \in {{Empty}, {NotFound} \cup FileResponse(0)}
  BY <1>2, <1>4 DEF Send, Serve
<1> QED
  BY <1>3, <1>5, NoRefusal, Replied

LEMMA FilePageCalls ==
    ASSUME NEW c \in CallsOfFilePage, NEW o \in Call(c.fn, c.data, c.key)
    PROVE  Fine(o) \/ ("id" \in DOMAIN c.data /\ ~Canonical(c.data.id))
<1> DEFINE id == loc.filters.id
<1>1. PICK fn \in {"getDownloadUrl", "getOpenUrl", "getFileMetadata", "deleteFile"} :
        c = Asked(fn, [id |-> id], Root, Root)
  <2>1. PICK fn \in {"getFileMetadata", "getOpenUrl"} \cup {"getDownloadUrl", "deleteFile"} :
          c = Asked(fn, [id |-> id], Root, Root)
    BY DEF CallsOfFilePage
  <2> QED
    BY <2>1
<1>2. c.fn = fn /\ c.data = [id |-> id] /\ c.key = Root
  BY <1>1 DEF Asked
<1>3. "id" \in DOMAIN c.data /\ c.data.id = id
  BY <1>2
<1>4. ASSUME Canonical(id) PROVE Fine(o)
  BY <1>2, <1>4, IdCalls
<1> QED
  BY <1>3, <1>4

LEMMA RowCalls ==
    ASSUME NEW c \in CallsOfRows, NEW o \in Call(c.fn, c.data, c.key)
    PROVE  Fine(o)
<1>1. PICK id : /\ Canonical(id)
                /\ \/ c = Asked("getDownloadUrl", [id |-> id], Root, Root)
                   \/ c = Asked("deleteFile", [id |-> id], Root, Root)
                   \/ c = Asked("getFilePreviewStatuses", [ids |-> <<id>>], Root, Root)
  BY DEF CallsOfRows
<1>2. CASE c = Asked("getDownloadUrl", [id |-> id], Root, Root)
  <2>1. c.fn = "getDownloadUrl" /\ c.data = [id |-> id]
    BY <1>2 DEF Asked
  <2> QED
    BY <1>1, <2>1, IdCalls
<1>3. CASE c = Asked("deleteFile", [id |-> id], Root, Root)
  <2>1. c.fn = "deleteFile" /\ c.data = [id |-> id]
    BY <1>3 DEF Asked
  <2> QED
    BY <1>1, <2>1, IdCalls
<1>4. CASE c = Asked("getFilePreviewStatuses", [ids |-> <<id>>], Root, Root)
  <2>1. c.fn = "getFilePreviewStatuses" /\ c.data = [ids |-> <<id>>]
    BY <1>4 DEF Asked
  <2> QED
    BY <1>1, <2>1, StatusCalls
<1> QED
  BY <1>1, <1>2, <1>3, <1>4

LEMMA CallsAboutFolders ==
    ASSUME NEW c \in CallsOfFolders, NEW o \in Call(c.fn, c.data, c.key)
    PROVE  \/ Fine(o)
           \/ "path" \in DOMAIN c.data /\ (Unacceptable(c.data.path) \/ Absolute(c.data.path))
<1>1. PICK fn \in {"getDirectoryStats", "deleteDirectory"},
           path \in ChildDirectories(loc.filters.path) :
        c = Asked(fn, [path |-> path], Root, loc.filters.path)
  BY DEF CallsOfFolders
<1>2. c.fn = fn /\ c.data = [path |-> path]
  BY <1>1 DEF Asked
<1>3. "path" \in DOMAIN c.data /\ c.data.path = path
  BY <1>2
<1>4. path \in Folders
  BY ChildrenAre
<1>5. ASSUME ~Unacceptable(path), ~Absolute(path) PROVE Fine(o)
  BY <1>2, <1>4, <1>5, FolderCalls
<1> QED
  BY <1>3, <1>5

LEMMA MoveDialogCalls ==
    ASSUME NamesAreStrings, ModalInv, NEW c \in CallsOfDialog, NEW o \in Call(c.fn, c.data, c.key)
    PROVE  \/ Fine(o)
           \/ "destinationKey" \in DOMAIN c.data /\
                \/ Reserved(c.data.destinationKey)
                \/ c.data.destinationKey = Root
                \/ o.reply = AlreadyExists
<1>1. PICK m \in modal :
        LET dest == Concat(m.viewPath, Last(m.key))
        IN  /\ m.key \in Browsed /\ m.viewPath \in Directory /\ Canonical(m.id)
            /\ dest \in Browsed /\ dest # m.key /\ Front(dest) = Front(m.viewPath)
            /\ c.fn = "moveFile" /\ c.key = m.key /\ c.shown = m.viewPath
            /\ c.data = [id |-> m.id, destinationKey |-> dest]
  BY DialogCall
<1> DEFINE dest == Concat(m.viewPath, Last(m.key))
<1>2. /\ Canonical(m.id) /\ dest \in Browsed /\ dest # m.key /\ c.fn = "moveFile"
      /\ c.key = m.key /\ c.data = [id |-> m.id, destinationKey |-> dest]
  BY <1>1, Zenon
<1> HIDE DEF dest
<1>3. "destinationKey" \in DOMAIN c.data /\ c.data.destinationKey = dest
  BY <1>2
<1>4. ASSUME ~Reserved(dest), dest # Root PROVE Fine(o) \/ o.reply = AlreadyExists
  BY <1>2, <1>4, MoveCalls DEF FineMove
<1> QED
  BY <1>3, <1>4

\* What an upload may ask for.
UploadAsks(c, k, path) ==
    \/ \E fn \in {"getUploadUrl", "commitUpload"} : c = Asked(fn, [key |-> k], Root, path)
    \/ \E type \in FileTypes :
          c = Asked("createMultipartUpload", [key |-> k, contentType |-> type], Root, path)
    \/ \E id \in UploadId, n \in Parts :
          c = Asked("getUploadPartUrl", [key |-> k, uploadId |-> id, partNumber |-> n],
                    Root, path)
    \/ \E id \in UploadId, fn \in {"listUploadedParts", "completeMultipartUpload",
                                  "abortMultipartUpload"} :
          c = Asked(fn, [key |-> k, uploadId |-> id], Root, path)

LEMMA UploadAnswered ==
    ASSUME NEW k \in Path, k # Root, ~Unacceptable(k) => validateUploadKey(k), NEW path,
           NEW c, UploadAsks(c, k, path), NEW o \in Call(c.fn, c.data, c.key)
    PROVE  \/ Fine(o)
           \/ "key" \in DOMAIN c.data /\ Unacceptable(c.data.key)
           \/ "partNumber" \in DOMAIN c.data /\ BeyondLast(c.data.partNumber)
<1>1. "key" \in DOMAIN c.data /\ c.data.key = k
  BY DEF UploadAsks, Asked
<1>2. ASSUME validateUploadKey(k)
      PROVE  Fine(o) \/ ("partNumber" \in DOMAIN c.data /\ BeyondLast(c.data.partNumber))
  <2>1. ASSUME NEW fn \in {"getUploadUrl", "commitUpload"}, c = Asked(fn, [key |-> k], Root, path)
        PROVE  Fine(o)
    <3>1. c.fn = fn /\ c.data = [key |-> k]
      BY <2>1 DEF Asked
    <3> QED
      BY <1>2, <3>1, KeyCalls
  <2>2. ASSUME NEW type \in FileTypes,
               c = Asked("createMultipartUpload", [key |-> k, contentType |-> type], Root, path)
        PROVE  Fine(o)
    <3>1. c.fn = "createMultipartUpload" /\ c.data = [key |-> k, contentType |-> type]
      BY <2>2 DEF Asked
    <3> QED
      BY <1>2, <3>1, CreateCalls
  <2>3. ASSUME NEW id \in UploadId, NEW n \in Parts,
               c = Asked("getUploadPartUrl", [key |-> k, uploadId |-> id, partNumber |-> n],
                         Root, path)
        PROVE  Fine(o) \/ ("partNumber" \in DOMAIN c.data /\ BeyondLast(c.data.partNumber))
    <3>1. c.fn = "getUploadPartUrl" /\ c.data = [key |-> k, uploadId |-> id, partNumber |-> n]
      BY <2>3 DEF Asked
    <3>2. "partNumber" \in DOMAIN c.data /\ c.data.partNumber = n
      BY <3>1
    <3>3. ASSUME PartOK(n) PROVE Fine(o)
      BY <1>2, <3>1, <3>3, PartCalls
    <3>4. BeyondLast(n) \/ PartOK(n)
      BY PartNumbers, Zenon
    <3> QED
      BY <3>2, <3>3, <3>4, Zenon
  <2>4. ASSUME NEW id \in UploadId,
               NEW fn \in {"listUploadedParts", "completeMultipartUpload",
                           "abortMultipartUpload"},
               c = Asked(fn, [key |-> k, uploadId |-> id], Root, path)
        PROVE  Fine(o)
    <3>1. c.fn = fn /\ c.data = [key |-> k, uploadId |-> id]
      BY <2>4 DEF Asked
    <3> QED
      BY <1>2, <3>1, SessionCalls
  <2> QED
    BY <2>1, <2>2, <2>3, <2>4, Zenon DEF UploadAsks
<1> QED
  BY <1>1, <1>2, Zenon

LEMMA UploadCalls ==
    ASSUME NamesAreStrings, ListsInv, NEW c \in CallsOfUpload, NEW o \in Call(c.fn, c.data, c.key)
    PROVE  \/ Fine(o)
           \/ "key" \in DOMAIN c.data /\ Unacceptable(c.data.key)
           \/ "partNumber" \in DOMAIN c.data /\ BeyondLast(c.data.partNumber)
<1> DEFINE path == loc.filters.path
           k(name) == Concat(normalizeUploadPath(path), name)
<1>1. loc.route = "/" /\ \E name \in FileNames : UploadAsks(c, k(name), path)
  <2>1. loc.route = "/"
    BY DEF CallsOfUpload
  <2>2. PICK name \in FileNames : c \in UploadTo(path, name)
    BY <2>1 DEF CallsOfUpload
  <2>3. UploadAsks(c, k(name), path)
    BY <2>2 DEF UploadTo, UploadAsks
  <2> QED
    BY <2>1, <2>3
<1>2. PICK name \in FileNames : UploadAsks(c, k(name), path)
  BY <1>1
<1>3. path \in Browsed
  BY <1>1 DEF ListsInv, LocationOK
<1>4. /\ k(name) \in Path /\ k(name) # Root
      /\ ~Unacceptable(k(name)) => validateUploadKey(k(name))
  BY <1>3, UploadKey
<1> HIDE DEF k, path
<1> QED
  BY <1>2, <1>4, UploadAnswered

\* No request the user can bring about is refused, but for the exceptions that
\* NeverRefused names: every page token goes back with the arguments it was
\* issued for, and every key, path, id and part number that the pages put
\* together passes the validators, the wire and the service.
THEOREM NothingIsRefused ==
    ASSUME NamesAreStrings
    PROVE  Spec => []NeverRefused
<1>1. ASSUME Inv PROVE NeverRefused
  <2>1. RefusedInv /\ ModalInv /\ ListsInv
    BY <1>1 DEF Inv
  <2>2. ASSUME NEW c \in FileCalls, NEW o \in Call(c.fn, c.data, c.key)
        PROVE  \/ Fine(o)
               \/ "id" \in DOMAIN c.data /\ ~Canonical(c.data.id)
               \/ "key" \in DOMAIN c.data /\ Unacceptable(c.data.key)
               \/ "path" \in DOMAIN c.data /\
                    (Unacceptable(c.data.path) \/ Absolute(c.data.path))
               \/ "destinationKey" \in DOMAIN c.data /\
                    \/ Reserved(c.data.destinationKey)
                    \/ c.data.destinationKey = Root
                    \/ o.reply = AlreadyExists
               \/ "partNumber" \in DOMAIN c.data /\ BeyondLast(c.data.partNumber)
    BY <2>1, <2>2, FilePageCalls, RowCalls, CallsAboutFolders, UploadCalls, MoveDialogCalls, Zenon
       DEF FileCalls
  <2> QED
    BY <2>1, <2>2, Zenon DEF NeverRefused, RefusedInv, Fine
<1> QED
  BY <1>1, AlwaysInv, PTL

=============================================================================
