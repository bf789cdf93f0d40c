------------------------- MODULE InfiniteListProofs -------------------------
(***************************************************************************)
(* The scrolling lists of the web client show one walk of the listing that *)
(* skips nothing and holds nothing deleted, for any listing, page size,    *)
(* edits, faults and order of replies; and the sort value and the headings *)
(* of the photo wall, which is one of them.                                *)
(*                                                                         *)
(* ORDER BY ... LIMIT returns the members of a finite set that come first, *)
(* because counting those before a member numbers them without gaps.  A    *)
(* page therefore lies behind the token it was asked with and reaches up   *)
(* to its own token without a gap.  The invariant keeps this for the pages *)
(* shown and for those the fetch under way has collected.                  *)
(***************************************************************************)
EXTENDS InfiniteList, FiniteSetTheorems, TLAPS

-----------------------------------------------------------------------------
(* The inductive invariant.                                                 *)

Row == [rank : Nat \ {0}, id : Files]
Token == [phase : {"none", "directories", "files"}, lastDir : Nat, lastRank : Nat,
          lastId : Nat]
Page == [dirs : Seq(Dirs), files : Seq(Row), next : Token]
FetchRecord ==
    [kind : {"idle", "first", "refetch", "next"}, req : {"none", "asked", "files", "answered"},
     token : Token, found : Seq(Dirs), got : Seq(Page), want : Nat, reply : Seq(Page),
     items : SUBSET Items]

Cursor(t) == [rank |-> t.lastRank, id |-> t.lastId]

\* A token is the end of the listing or lies behind all that ps shows.
BehindPage(t, q) ==
    /\ t.phase = "directories" =>
          q.files = <<>> /\ \A a \in DOMAIN q.dirs : q.dirs[a] <= t.lastDir
    /\ t.phase = "files" =>
          \A a \in DOMAIN q.files :
              t.lastId # 0 /\ (q.files[a] = Cursor(t) \/ Before(q.files[a], Cursor(t)))

Behind(t, ps) == (t.phase = "none" => t = NoToken) /\ \A i \in DOMAIN ps : BehindPage(t, ps[i])

Short(q) == Len(q.dirs) + Len(q.files) <= PAGE_SIZE

Walk(ps) ==
    /\ ps \in Seq(Page) /\ \A i \in DOMAIN ps : Short(ps[i])
    /\ OneWalk(ps)
    /\ ps # <<>> => Behind(NextToken(ps), ps)

Complete(ps, items) ==
    ps # <<>> => \A item \in items : Reached(item, NextToken(ps)) => Shown(item, ps)

\* What the walk of fetch f must not skip.
Kept(f, st) == IF f.kind = "next" THEN st ELSE f.items

\* The directories of the page being read, when its files are still to come.
FoundInv(f, st) ==
    /\ Len(f.found) <= PAGE_SIZE
    /\ f.token.phase = "files" => f.found = <<>>
    /\ \A a, b \in DOMAIN f.found : a < b => f.found[a] < f.found[b]
    /\ f.token.phase = "directories" => \A a \in DOMAIN f.found : f.token.lastDir < f.found[a]
    /\ \A item \in Kept(f, st) : item.kind = "dir" =>
          item.at \in ShownDirs(f.got) \/ \E a \in DOMAIN f.found : f.found[a] = item.at

\* The pages got so far are a walk that has skipped nothing, and the page that
\* was answered goes on with it.
FetchInv(f, ps, st) ==
    /\ Walk(f.got) /\ Complete(f.got, Kept(f, st))
    /\ f.token = NextToken(f.got)
    /\ f.got # <<>> => f.token # NoToken
    /\ f.kind = "next" => f.got = ps /\ f.want = Len(ps) + 1
    /\ f.req = "files" => FoundInv(f, st)
    /\ f.req = "answered" =>
          /\ f.reply # <<>>
          /\ Walk(Append(f.got, f.reply[1]))
          /\ Complete(Append(f.got, f.reply[1]), Kept(f, st))

TypeInv ==
    /\ view \in Views /\ dirs \subseteq Dirs /\ rank \in [Files -> 0..MaxRank]
    /\ isError \in BOOLEAN /\ attached \in BOOLEAN
    /\ fetch \in FetchRecord
    /\ fetch.kind = "idle" <=> fetch.req = "none"
    /\ fetch.kind = "first" => pages = <<>>
    /\ fetch.kind \in {"next", "refetch"} => pages # <<>>
    /\ deleting \in Files \cup {0} /\ gone \subseteq Files /\ missed \subseteq Missed

WalkInv ==
    /\ Walk(pages) /\ Complete(pages, steady)
    /\ fetch.kind # "idle" => FetchInv(fetch, pages, steady)

\* What stayed where it was is still there.
SteadyInv == steady \subseteq Present /\ fetch.items \subseteq Present

\* A deleted file is in no page read since, nor in the pages shown unless they
\* are about to be read again or could not be.
GoneInv ==
    /\ \A f \in gone \cup {deleting} : f # 0 => rank[f] = 0
    /\ deleting # 0 => pages # <<>>
    /\ attached \/ fetch.kind = "next" => ~isError
    /\ fetch.kind \in {"idle", "next"} /\ ~isError /\ missed = {} => gone \cap ShownFiles(pages) = {}
    /\ fetch.kind \in {"first", "refetch"} => gone \cap ShownFiles(fetch.got) = {}
    /\ fetch.req = "answered" => gone \cap ShownFiles(fetch.reply) = {}

Inv == TypeInv /\ WalkInv /\ SteadyInv /\ GoneInv

-----------------------------------------------------------------------------
(* ORDER BY ... LIMIT: what FirstN returns.  The members of a finite set    *)
(* are numbered by how many come before them, without gaps.                 *)

Precedes(R, y, x) == <<y, x>> \in R

StrictOrder(R, S) ==
    /\ \A x \in S : ~Precedes(R, x, x)
    /\ \A x, y, z \in S : Precedes(R, x, y) /\ Precedes(R, y, z) => Precedes(R, x, z)
    /\ \A x, y \in S : x = y \/ Precedes(R, x, y) \/ Precedes(R, y, x)

Number(R, S) == [x \in S |-> Cardinality({y \in S : Precedes(R, y, x)}) + 1]

LEMMA Numbering ==
    ASSUME NEW S, IsFiniteSet(S), NEW R, StrictOrder(R, S)
    PROVE  /\ Cardinality(S) \in Nat
           /\ Number(R, S) \in [S -> 1..Cardinality(S)]
           /\ \A x, y \in S : Precedes(R, x, y) <=> Number(R, S)[x] < Number(R, S)[y]
           /\ \A i \in 1..Cardinality(S) : \E x \in S : Number(R, S)[x] = i
<1> DEFINE N == Cardinality(S)
           num == Number(R, S)
           Below(x) == {y \in S : Precedes(R, y, x)}
<1>1. N \in Nat
  BY FS_CardinalityType
<1>2. ASSUME NEW x \in S
      PROVE  /\ IsFiniteSet(Below(x)) /\ Cardinality(Below(x)) \in Nat
             /\ Cardinality(Below(x)) < N /\ num[x] = Cardinality(Below(x)) + 1
  <2>1. Below(x) \in SUBSET S /\ x \notin Below(x)
    BY DEF StrictOrder
  <2>2. IsFiniteSet(Below(x)) /\ Cardinality(Below(x)) <= N /\ Cardinality(Below(x)) # N
    BY <2>1, FS_Subset
  <2>3. Cardinality(Below(x)) \in Nat
    BY <2>2, FS_CardinalityType
  <2> QED
    BY <1>1, <2>2, <2>3 DEF Number
<1>3. num = [x \in S |-> num[x]]
  BY DEF Number
<1>4. \A x : Below(x) = {y \in S : Precedes(R, y, x)}
  OBVIOUS
<1> HIDE DEF num, Below, N
<1>5. num \in [S -> 1..N]
  <2>1. \A x \in S : num[x] \in 1..N
    BY <1>1, <1>2
  <2> QED
    BY <1>3, <2>1
<1>6. ASSUME NEW x \in S, NEW y \in S, Precedes(R, x, y)
      PROVE  num[x] < num[y]
  <2>1. Below(x) \in SUBSET Below(y) /\ x \in Below(y) /\ x \notin Below(x)
    BY <1>4, <1>6 DEF StrictOrder
  <2>2. Cardinality(Below(x)) <= Cardinality(Below(y))
        /\ Cardinality(Below(x)) # Cardinality(Below(y))
    BY <1>2, <2>1, FS_Subset
  <2> QED
    BY <1>2, <2>2
<1>7. \A x, y \in S : Precedes(R, x, y) <=> num[x] < num[y]
  <2> SUFFICES ASSUME NEW x \in S, NEW y \in S, num[x] < num[y] PROVE Precedes(R, x, y)
    BY <1>6
  <2>1. x # y /\ ~Precedes(R, y, x)
    BY <1>2, <1>6
  <2> QED
    BY <2>1 DEF StrictOrder
<1>8. num \in Surjection(S, 1..N)
  <2>1. \A x, y \in S : num[x] = num[y] => x = y
    BY <1>2, <1>7 DEF StrictOrder
  <2>2. num \in Injection(S, 1..N)
    BY <1>5, <2>1 DEF Injection, IsInjective
  <2>3. IsFiniteSet(1..N) /\ Cardinality(1..N) = N
    BY <1>1, FS_Interval
  <2> QED
    BY <2>2, <2>3, FS_Injection DEF N
<1>9. \A i \in 1..N : \E x \in S : num[x] = i
  BY <1>8 DEF Surjection
<1> QED
  BY <1>1, <1>5, <1>7, <1>9 DEF num, N

\* The members of S that come first, in their order, and at most n.
IsFirst(s, S, n, R) ==
    /\ s \in Seq(S) /\ Len(s) <= n
    /\ \A a, b \in 1..Len(s) : a < b => Precedes(R, s[a], s[b])
    /\ \A x \in S : \/ \E a \in 1..Len(s) : s[a] = x
                    \/ Len(s) = n /\ \A a \in 1..Len(s) : Precedes(R, s[a], x)

LEMMA FirstOfNumbered ==
    ASSUME NEW S, IsFiniteSet(S), NEW R, StrictOrder(R, S), NEW n \in Nat,
           NEW size, size = IF Cardinality(S) < n THEN Cardinality(S) ELSE n,
           NEW s \in [1..size -> S], \A i \in 1..size : Number(R, S)[s[i]] = i
    PROVE  IsFirst(s, S, n, R)
<1> DEFINE N == Cardinality(S)
           num == Number(R, S)
<1>1. /\ N \in Nat /\ num \in [S -> 1..N]
      /\ \A x, y \in S : Precedes(R, x, y) <=> num[x] < num[y]
  BY Numbering
<1>2. \A i \in 1..size : s[i] \in S /\ num[s[i]] = i
  OBVIOUS
<1> HIDE DEF num
<1>3. size \in Nat /\ size <= N /\ size <= n /\ (size = N \/ size = n)
  BY <1>1
<1> HIDE DEF N
<1>4. s \in Seq(S) /\ Len(s) = size
  BY <1>2, <1>3
<1>5. \A a, b \in 1..size : a < b => Precedes(R, s[a], s[b])
  BY <1>1, <1>2
<1>6. ASSUME NEW x \in S
      PROVE  \/ \E a \in 1..size : s[a] = x
             \/ size = n /\ \A a \in 1..size : Precedes(R, s[a], x)
  <2>1. num[x] \in 1..N
    BY <1>1
  <2>2. CASE num[x] \in 1..size
    <3>1. s[num[x]] \in S /\ num[s[num[x]]] = num[x]
      BY <1>2, <2>2
    <3>2. \A y \in S : num[y] = num[x] => y = x
      BY <1>1, <2>1 DEF StrictOrder
    <3> QED
      BY <2>2, <3>1, <3>2
  <2>3. CASE num[x] \notin 1..size
    <3>1. size < num[x] /\ size = n
      BY <1>1, <1>3, <2>1, <2>3
    <3>2. \A a \in 1..size : num[s[a]] < num[x]
      BY <1>2, <1>3, <2>1, <3>1
    <3> QED
      BY <1>1, <1>2, <3>1, <3>2
  <2> QED
    BY <2>2, <2>3
<1> QED
  BY <1>3, <1>4, <1>5, <1>6 DEF IsFirst

\* The two orders of the listings.
Up(S) == {p \in S \X S : p[1] < p[2]}
Sorted(S) == {p \in S \X S : Before(p[1], p[2])}

LEMMA BeforeIsOrder ==
    /\ Row \subseteq [rank : Nat, id : Nat]
    /\ \A x \in Row : ~Before(x, x) /\ x.rank # 0 /\ x.id # 0
    /\ \A x, y, z \in [rank : Nat, id : Nat] : Before(x, y) /\ Before(y, z) => Before(x, z)
    /\ \A x, y \in [rank : Nat, id : Nat] : x = y \/ Before(x, y) \/ Before(y, x)
    /\ \A x, y \in [rank : Nat, id : Nat] : Before(x, y) => x # y /\ ~Before(y, x)
<1>1. \A x \in Row : x.rank \in Nat \ {0} /\ x.id \in Nat \ {0} /\ x \in [rank : Nat, id : Nat]
  BY ConstantsAssumption DEF Row
<1>2. \A x, y \in [rank : Nat, id : Nat] : x.rank = y.rank /\ x.id = y.id => x = y
  OBVIOUS
<1>3. \A x \in [rank : Nat, id : Nat] : x.rank \in Nat /\ x.id \in Nat
  OBVIOUS
<1> QED
  BY <1>1, <1>2, <1>3 DEF Before

LEMMA FirstDirectories ==
    ASSUME NEW S \in SUBSET Nat, IsFiniteSet(S), NEW n \in Nat
    PROVE  LET s == FirstN(S, n, LAMBDA a, b : a < b)
           IN  /\ s \in Seq(S) /\ Len(s) <= n
               /\ \A a, b \in 1..Len(s) : a < b => s[a] < s[b]
               /\ \A x \in S : \/ \E a \in 1..Len(s) : s[a] = x
                               \/ Len(s) = n /\ \A a \in 1..Len(s) : s[a] < x
<1> DEFINE s == FirstN(S, n, LAMBDA a, b : a < b)
           R == Up(S)
<1>1. \A x, y \in S : Precedes(R, x, y) <=> x < y
  BY DEF Precedes, Up
<1>2. StrictOrder(R, S)
  BY <1>1 DEF StrictOrder
<1>3. \A x \in S : {y \in S : y < x} = {y \in S : Precedes(R, y, x)}
  BY <1>1
<1> DEFINE size == IF Cardinality(S) < n THEN Cardinality(S) ELSE n
           place(x) == Cardinality({y \in S : y < x}) + 1
<1>4. s = [i \in 1..size |-> CHOOSE x \in S : place(x) = i]
  BY Zenon DEF FirstN
<1>5. \A x \in S : Number(R, S)[x] = place(x)
  BY <1>3 DEF Number
<1>6. Cardinality(S) \in Nat /\ \A i \in 1..Cardinality(S) : \E x \in S : Number(R, S)[x] = i
  BY <1>2, Numbering, Zenon
<1> HIDE DEF s, R, place
<1>7. ASSUME NEW i \in 1..size PROVE s[i] \in S /\ Number(R, S)[s[i]] = i
  <2>1. PICK x \in S : place(x) = i
    BY <1>5, <1>6
  <2>2. s[i] = CHOOSE z \in S : place(z) = i
    BY <1>4, Zenon
  <2>3. s[i] \in S /\ place(s[i]) = i
    BY <2>1, <2>2, Zenon
  <2> QED
    BY <1>5, <2>3
<1>8. s \in [1..size -> S]
  BY <1>4, <1>7, Zenon
<1>9. IsFirst(s, S, n, R)
  BY <1>2, <1>7, <1>8, FirstOfNumbered
<1>10. /\ s \in Seq(S) /\ Len(s) <= n
       /\ \A a, b \in 1..Len(s) : a < b => s[a] < s[b]
       /\ \A x \in S : \/ \E a \in 1..Len(s) : s[a] = x
                       \/ Len(s) = n /\ \A a \in 1..Len(s) : s[a] < x
  <2>1. s \in Seq(S) /\ \A a \in 1..Len(s) : s[a] \in S
    BY <1>9 DEF IsFirst
  <2> QED
    BY <1>1, <1>9, <2>1 DEF IsFirst
<1> QED
  BY <1>10 DEF s

LEMMA FirstFiles ==
    ASSUME NEW S \in SUBSET Row, IsFiniteSet(S), NEW n \in Nat
    PROVE  LET s == FirstN(S, n, Before)
           IN  /\ s \in Seq(S) /\ Len(s) <= n
               /\ \A a, b \in 1..Len(s) : a < b => Before(s[a], s[b])
               /\ \A x \in S : \/ \E a \in 1..Len(s) : s[a] = x
                               \/ Len(s) = n /\ \A a \in 1..Len(s) : Before(s[a], x)
<1> DEFINE s == FirstN(S, n, Before)
           R == Sorted(S)
<1>1. \A x, y \in S : Precedes(R, x, y) <=> Before(x, y)
  BY DEF Precedes, Sorted
<1>2. StrictOrder(R, S)
  BY <1>1, BeforeIsOrder DEF StrictOrder
<1>3. \A x \in S : {y \in S : Before(y, x)} = {y \in S : Precedes(R, y, x)}
  BY <1>1
<1> DEFINE size == IF Cardinality(S) < n THEN Cardinality(S) ELSE n
           place(x) == Cardinality({y \in S : Before(y, x)}) + 1
<1>4. s = [i \in 1..size |-> CHOOSE x \in S : place(x) = i]
  BY Zenon DEF FirstN
<1>5. \A x \in S : Number(R, S)[x] = place(x)
  BY <1>3 DEF Number
<1>6. Cardinality(S) \in Nat /\ \A i \in 1..Cardinality(S) : \E x \in S : Number(R, S)[x] = i
  BY <1>2, Numbering, Zenon
<1> HIDE DEF s, R, place
<1>7. ASSUME NEW i \in 1..size PROVE s[i] \in S /\ Number(R, S)[s[i]] = i
  <2>1. PICK x \in S : place(x) = i
    BY <1>5, <1>6
  <2>2. s[i] = CHOOSE z \in S : place(z) = i
    BY <1>4, Zenon
  <2>3. s[i] \in S /\ place(s[i]) = i
    BY <2>1, <2>2, Zenon
  <2> QED
    BY <1>5, <2>3
<1>8. s \in [1..size -> S]
  BY <1>4, <1>7, Zenon
<1>9. IsFirst(s, S, n, R)
  BY <1>2, <1>7, <1>8, FirstOfNumbered
<1>10. /\ s \in Seq(S) /\ Len(s) <= n
       /\ \A a, b \in 1..Len(s) : a < b => Before(s[a], s[b])
       /\ \A x \in S : \/ \E a \in 1..Len(s) : s[a] = x
                       \/ Len(s) = n /\ \A a \in 1..Len(s) : Before(s[a], x)
  <2>1. s \in Seq(S) /\ \A a \in 1..Len(s) : s[a] \in S
    BY <1>9 DEF IsFirst
  <2> QED
    BY <1>1, <1>9, <2>1 DEF IsFirst
<1> QED
  BY <1>10 DEF s

-----------------------------------------------------------------------------
(* Walks.                                                                   *)

\* The page read with token t, and where its own token stands.
Follows(p, t) ==
    /\ p \in Page /\ Short(p)
    /\ \A a, b \in DOMAIN p.dirs : a < b => p.dirs[a] < p.dirs[b]
    /\ \A a, b \in DOMAIN p.files : a < b => Before(p.files[a], p.files[b])
    /\ t.phase = "directories" => \A a \in DOMAIN p.dirs : t.lastDir < p.dirs[a]
    /\ t.phase = "files" =>
          /\ p.dirs = <<>>
          /\ t.lastId # 0 => \A a \in DOMAIN p.files : Before(Cursor(t), p.files[a])
    /\ p.next.phase = "none" => p.next = NoToken
    /\ BehindPage(p.next, p)
    /\ p.next.phase = "directories" =>
          t.phase # "files" /\ (t.phase = "directories" => t.lastDir <= p.next.lastDir)
    /\ p.next.phase = "files" /\ t.phase = "files" /\ t.lastId # 0 =>
          p.next.lastId # 0 /\ Before(Cursor(t), Cursor(p.next))

LEMMA Pages ==
    /\ \A t \in Token : /\ t.phase \in {"none", "directories", "files"} /\ t.lastDir \in Nat
                        /\ t.lastRank \in Nat /\ t.lastId \in Nat
                        /\ Cursor(t) \in [rank : Nat, id : Nat]
    /\ \A p \in Page : /\ p.dirs \in Seq(Dirs) /\ p.files \in Seq(Row) /\ p.next \in Token
                       /\ \A a \in DOMAIN p.dirs : p.dirs[a] \in Dirs /\ p.dirs[a] \in Nat \ {0}
                       /\ \A a \in DOMAIN p.files : p.files[a] \in Row
    /\ NoToken \in Token
<1>1. \A t \in Token : /\ t.phase \in {"none", "directories", "files"} /\ t.lastDir \in Nat
                       /\ t.lastRank \in Nat /\ t.lastId \in Nat
                       /\ Cursor(t) \in [rank : Nat, id : Nat]
  BY DEF Token, Cursor
<1>2. ASSUME NEW p \in Page
      PROVE  /\ p.dirs \in Seq(Dirs) /\ p.files \in Seq(Row) /\ p.next \in Token
             /\ \A a \in DOMAIN p.dirs : p.dirs[a] \in Dirs /\ p.dirs[a] \in Nat \ {0}
             /\ \A a \in DOMAIN p.files : p.files[a] \in Row
  <2>1. p.dirs \in Seq(Dirs) /\ p.files \in Seq(Row) /\ p.next \in Token
    BY DEF Page
  <2>2. \A a \in DOMAIN p.dirs : p.dirs[a] \in Dirs
    BY <2>1
  <2>3. \A a \in DOMAIN p.files : p.files[a] \in Row
    BY <2>1
  <2> QED
    BY <2>1, <2>2, <2>3, ConstantsAssumption
<1>3. NoToken \in Token
  BY DEF Token, NoToken
<1> QED
  BY <1>1, <1>2, <1>3

LEMMA NextTokens ==
    ASSUME NEW ps \in Seq(Page)
    PROVE  /\ NextToken(ps) \in Token
           /\ \A p \in Page : /\ NextToken(Append(ps, p)) = p.next
                              /\ Append(ps, p) \in Seq(Page) /\ Append(ps, p) # <<>>
                              /\ Len(Append(ps, p)) = Len(ps) + 1
                              /\ \A i \in 1..Len(ps) : Append(ps, p)[i] = ps[i]
                              /\ Append(ps, p)[Len(ps) + 1] = p
                              /\ DOMAIN Append(ps, p) = DOMAIN ps \cup {Len(ps) + 1}
<1>1. ps # <<>> => ps[Len(ps)] \in Page
  OBVIOUS
<1>2. NextToken(ps) \in Token
  BY <1>1, Pages DEF NextToken
<1>3. ASSUME NEW p \in Page
      PROVE  /\ NextToken(Append(ps, p)) = p.next
             /\ Append(ps, p) \in Seq(Page) /\ Append(ps, p) # <<>>
             /\ Len(Append(ps, p)) = Len(ps) + 1
             /\ \A i \in 1..Len(ps) : Append(ps, p)[i] = ps[i]
             /\ Append(ps, p)[Len(ps) + 1] = p
             /\ DOMAIN Append(ps, p) = DOMAIN ps \cup {Len(ps) + 1}
  <2> DEFINE qs == Append(ps, p)
  <2>1. /\ qs \in Seq(Page) /\ Len(qs) = Len(ps) + 1
        /\ \A i \in 1..Len(ps) : qs[i] = ps[i]
        /\ qs[Len(ps) + 1] = p
    OBVIOUS
  <2> HIDE DEF qs
  <2>2. DOMAIN qs = DOMAIN ps \cup {Len(ps) + 1} /\ qs # <<>>
    BY <2>1
  <2> QED
    BY <2>1, <2>2 DEF NextToken, qs
<1> QED
  BY <1>2, <1>3

LEMMA WalkGoesOn ==
    ASSUME NEW ps, Walk(ps), ps # <<>> => NextToken(ps) # NoToken,
           NEW p, Follows(p, NextToken(ps))
    PROVE  Walk(Append(ps, p))
<1> DEFINE t == NextToken(ps)
           qs == Append(ps, p)
           n == Len(ps) + 1
<1>1. /\ ps \in Seq(Page) /\ p \in Page /\ t \in Token /\ n \in Nat /\ n - 1 = Len(ps)
      /\ DOMAIN ps = 1..(n - 1) /\ DOMAIN qs = 1..n /\ qs[n] = p /\ NextToken(qs) = p.next
      /\ qs \in Seq(Page) /\ qs # <<>> /\ \A i \in 1..(n - 1) : qs[i] = ps[i] /\ ps[i] \in Page
  BY NextTokens DEF Walk, Follows
<1>2. \A i \in 1..(n - 1) : BehindPage(t, ps[i]) /\ t.phase # "none"
  BY <1>1 DEF Walk, Behind
<1> HIDE DEF t, qs, n
<1>3. Follows(p, t)
  BY DEF t
<1>4. ASSUME NEW i \in 1..n, NEW j \in 1..n, NEW a \in DOMAIN qs[i].dirs,
             NEW b \in DOMAIN qs[j].dirs, i < j \/ (i = j /\ a < b)
      PROVE  qs[i].dirs[a] < qs[j].dirs[b]
  <2>1. CASE j # n
    BY <1>1, <1>4, <2>1 DEF Walk, OneWalk
  <2>2. CASE j = n /\ i = n
    BY <1>1, <1>3, <1>4, <2>2 DEF Follows
  <2>3. CASE j = n /\ i # n
    <3>1. i \in 1..(n - 1) /\ qs[i] = ps[i] /\ qs[j] = p /\ t.phase \in {"directories", "files"}
      <4>1. i \in 1..(n - 1)
        BY <1>1, <2>3
      <4>2. t.phase \in {"none", "directories", "files"}
        BY <1>1, Pages
      <4> QED
        BY <1>1, <1>2, <2>3, <4>1, <4>2
    <3>2. t.phase = "directories"
      BY <1>1, <1>3, <3>1 DEF Follows
    <3>3. ps[i].dirs[a] <= t.lastDir /\ t.lastDir < p.dirs[b]
      BY <1>2, <1>3, <3>1, <3>2 DEF BehindPage, Follows
    <3>4. ps[i].dirs[a] \in Nat /\ p.dirs[b] \in Nat /\ t.lastDir \in Nat
      BY <1>1, <3>1, Pages
    <3> QED
      BY <3>1, <3>3, <3>4
  <2> QED
    BY <2>1, <2>2, <2>3
<1>5. ASSUME NEW i \in 1..n, NEW j \in 1..n, NEW a \in DOMAIN qs[i].files,
             NEW b \in DOMAIN qs[j].files, i < j \/ (i = j /\ a < b)
      PROVE  Before(qs[i].files[a], qs[j].files[b])
  <2>1. CASE j # n
    BY <1>1, <1>5, <2>1 DEF Walk, OneWalk
  <2>2. CASE j = n /\ i = n
    BY <1>1, <1>3, <1>5, <2>2 DEF Follows
  <2>3. CASE j = n /\ i # n
    <3>1. i \in 1..(n - 1) /\ qs[i] = ps[i] /\ qs[j] = p /\ t.phase \in {"directories", "files"}
      <4>1. i \in 1..(n - 1)
        BY <1>1, <2>3
      <4>2. t.phase \in {"none", "directories", "files"}
        BY <1>1, Pages
      <4> QED
        BY <1>1, <1>2, <2>3, <4>1, <4>2
    <3>2. t.phase = "files"
      BY <1>1, <1>2, <3>1 DEF BehindPage
    <3>3. /\ t.lastId # 0 /\ Before(Cursor(t), p.files[b])
          /\ ps[i].files[a] = Cursor(t) \/ Before(ps[i].files[a], Cursor(t))
      BY <1>2, <1>3, <3>1, <3>2 DEF BehindPage, Follows
    <3>4. ps[i].files[a] \in Row /\ p.files[b] \in Row /\ Cursor(t) \in [rank : Nat, id : Nat]
      BY <1>1, <3>1, Pages
    <3> QED
      BY <3>1, <3>3, <3>4, BeforeIsOrder
  <2> QED
    BY <2>1, <2>2, <2>3
<1>6. ASSUME NEW i \in 1..n, NEW j \in 1..n, qs[i].files # <<>>, i < j PROVE qs[j].dirs = <<>>
  <2>1. CASE j # n
    BY <1>1, <1>6, <2>1 DEF Walk, OneWalk
  <2>2. CASE j = n
    <3>1. i \in 1..(n - 1) /\ qs[i] = ps[i] /\ qs[j] = p /\ t.phase \in {"directories", "files"}
      BY <1>1, <1>2, <1>6, <2>2, Pages
    <3> QED
      BY <1>2, <1>3, <1>6, <3>1 DEF BehindPage, Follows
  <2> QED
    BY <2>1, <2>2
<1>7. OneWalk(qs)
  BY <1>1, <1>4, <1>5, <1>6 DEF OneWalk
<1>8. ASSUME NEW i \in 1..n PROVE BehindPage(p.next, qs[i])
  <2>1. CASE i = n
    BY <1>1, <1>3, <2>1 DEF Follows
  <2>2. CASE i # n
    <3>1. /\ i \in 1..(n - 1) /\ qs[i] = ps[i] /\ ps[i] \in Page /\ p.next \in Token
          /\ t.phase \in {"directories", "files"} /\ BehindPage(t, ps[i])
      BY <1>1, <1>2, <2>2, Pages
    <3>2. CASE p.next.phase = "directories"
      <4>1. t.phase = "directories" /\ t.lastDir <= p.next.lastDir
        BY <1>3, <3>1, <3>2 DEF Follows
      <4>2. /\ ps[i].files = <<>> /\ \A a \in DOMAIN ps[i].dirs : ps[i].dirs[a] <= t.lastDir
            /\ \A a \in DOMAIN ps[i].dirs : ps[i].dirs[a] \in Nat
            /\ t.lastDir \in Nat /\ p.next.lastDir \in Nat
        BY <1>1, <3>1, <4>1, Pages DEF BehindPage
      <4> QED
        BY <3>1, <3>2, <4>1, <4>2 DEF BehindPage
    <3>3. CASE p.next.phase = "files"
      <4> SUFFICES ASSUME NEW a \in DOMAIN ps[i].files
                   PROVE  p.next.lastId # 0 /\ Before(ps[i].files[a], Cursor(p.next))
        BY <3>1, <3>3 DEF BehindPage
      <4>1. t.phase = "files" /\ t.lastId # 0
        BY <3>1 DEF BehindPage
      <4>2. p.next.lastId # 0 /\ Before(Cursor(t), Cursor(p.next))
        BY <1>3, <3>3, <4>1 DEF Follows
      <4>3. ps[i].files[a] = Cursor(t) \/ Before(ps[i].files[a], Cursor(t))
        BY <3>1, <4>1 DEF BehindPage
      <4>4. ps[i].files[a] \in Row /\ Cursor(t) \in [rank : Nat, id : Nat]
            /\ Cursor(p.next) \in [rank : Nat, id : Nat]
        BY <1>1, <3>1, Pages
      <4> QED
        BY <4>2, <4>3, <4>4, BeforeIsOrder
    <3> QED
      BY <3>2, <3>3 DEF BehindPage
  <2> QED
    BY <2>1, <2>2
<1>9. \A i \in 1..n : Short(qs[i])
  BY <1>1, <1>3 DEF Walk, Follows
<1>10. Behind(NextToken(qs), qs)
  BY <1>1, <1>3, <1>8 DEF Behind, Follows
<1>11. Walk(qs)
  BY <1>1, <1>7, <1>9, <1>10 DEF Walk
<1> QED
  BY <1>11 DEF qs

-----------------------------------------------------------------------------
(* Pages as the service answers them.                                       *)

LEMMA DirectoriesRead ==
    ASSUME NEW t \in Token, NEW D \in SUBSET Dirs
    PROVE  LET found == ListChildDirectories(D, t, PAGE_SIZE)
           IN  /\ found \in Seq(D) /\ Len(found) <= PAGE_SIZE + 1
               /\ \A a, b \in 1..Len(found) : a < b => found[a] < found[b]
               /\ t.phase # "none" => \A a \in 1..Len(found) : t.lastDir < found[a]
               /\ \A d \in D : \/ t.phase # "none" /\ d <= t.lastDir
                               \/ \E a \in 1..Len(found) : found[a] = d
                               \/ /\ Len(found) = PAGE_SIZE + 1
                                  /\ \A a \in 1..Len(found) : found[a] < d
<1> DEFINE found == ListChildDirectories(D, t, PAGE_SIZE)
           S == {d \in D : t.phase = "none" \/ d > t.lastDir}
<1>1. S \in SUBSET Nat /\ IsFiniteSet(S) /\ PAGE_SIZE + 1 \in Nat /\ S \subseteq D
  <2>1. S \in SUBSET Dirs /\ S \subseteq D
    OBVIOUS
  <2>2. IsFiniteSet(S)
    BY <2>1, ConstantsAssumption, FS_Subset
  <2> HIDE DEF S
  <2> QED
    BY <2>1, <2>2, ConstantsAssumption
<1>2. found = FirstN(S, PAGE_SIZE + 1, LAMBDA a, b : a < b)
  BY Zenon DEF ListChildDirectories
<1> HIDE DEF found
<1>3. /\ found \in Seq(S) /\ Len(found) <= PAGE_SIZE + 1
      /\ \A a, b \in 1..Len(found) : a < b => found[a] < found[b]
      /\ \A d \in S : \/ \E a \in 1..Len(found) : found[a] = d
                      \/ Len(found) = PAGE_SIZE + 1 /\ \A a \in 1..Len(found) : found[a] < d
  BY <1>1, <1>2, FirstDirectories, Zenon
<1>4. \A a \in 1..Len(found) : found[a] \in S
  BY <1>3
<1>5. found \in Seq(D)
  BY <1>1, <1>3, <1>4
<1>6. t.phase # "none" => \A a \in 1..Len(found) : t.lastDir < found[a]
  BY <1>4
<1>7. \A d \in D : d \in S \/ (t.phase # "none" /\ d <= t.lastDir)
  BY ConstantsAssumption, Pages
<1> HIDE DEF S
<1>8. /\ found \in Seq(D) /\ Len(found) <= PAGE_SIZE + 1
      /\ \A a, b \in 1..Len(found) : a < b => found[a] < found[b]
      /\ t.phase # "none" => \A a \in 1..Len(found) : t.lastDir < found[a]
      /\ \A d \in D : \/ t.phase # "none" /\ d <= t.lastDir
                      \/ \E a \in 1..Len(found) : found[a] = d
                      \/ /\ Len(found) = PAGE_SIZE + 1
                         /\ \A a \in 1..Len(found) : found[a] < d
  BY <1>3, <1>5, <1>6, <1>7, Zenon
<1> QED
  BY <1>8 DEF found

\* A page full of directories.
LEMMA PageOfDirectories ==
    ASSUME NEW t \in Token, t.phase # "files", NEW D \in SUBSET Dirs, NEW found,
           found = ListChildDirectories(D, t, PAGE_SIZE), DirectoriesFill(found, PAGE_SIZE),
           NEW p, p = DirectoriesPage(found, PAGE_SIZE)
    PROVE  /\ Follows(p, t) /\ p.files = <<>>
           /\ p.next.phase = "directories" /\ p.next # NoToken
           /\ \A d \in D : d <= p.next.lastDir =>
                 \/ t.phase = "directories" /\ d <= t.lastDir
                 \/ \E a \in DOMAIN p.dirs : p.dirs[a] = d
<1>1. /\ found \in Seq(D) /\ Len(found) = PAGE_SIZE + 1
      /\ \A a, b \in 1..Len(found) : a < b => found[a] < found[b]
      /\ t.phase # "none" => \A a \in 1..Len(found) : t.lastDir < found[a]
      /\ \A d \in D : \/ t.phase # "none" /\ d <= t.lastDir
                      \/ \E a \in 1..Len(found) : found[a] = d
                      \/ \A a \in 1..Len(found) : found[a] < d
  <2>1. /\ found \in Seq(D) /\ Len(found) <= PAGE_SIZE + 1
        /\ \A a, b \in 1..Len(found) : a < b => found[a] < found[b]
        /\ t.phase # "none" => \A a \in 1..Len(found) : t.lastDir < found[a]
        /\ \A d \in D : \/ t.phase # "none" /\ d <= t.lastDir
                        \/ \E a \in 1..Len(found) : found[a] = d
                        \/ /\ Len(found) = PAGE_SIZE + 1
                           /\ \A a \in 1..Len(found) : found[a] < d
    BY DirectoriesRead
  <2>2. Len(found) = PAGE_SIZE + 1
    BY <2>1, ConstantsAssumption DEF DirectoriesFill
  <2> QED
    BY <2>1, <2>2
<1>2. /\ PAGE_SIZE \in Nat /\ PAGE_SIZE > 0 /\ D \subseteq Nat
      /\ t.phase \in {"none", "directories"} /\ t.lastDir \in Nat
  BY ConstantsAssumption, Pages
<1>3. \A a \in 1..(PAGE_SIZE + 1) : found[a] \in D /\ found[a] \in Nat
  <2>1. \A a \in 1..Len(found) : found[a] \in D
    BY <1>1
  <2> QED
    BY <1>1, <1>2, <2>1
<1> DEFINE ds == SubSeq(found, 1, PAGE_SIZE)
           last == found[PAGE_SIZE]
<1>4. ds \in Seq(D) /\ Len(ds) = PAGE_SIZE /\ DOMAIN ds = 1..PAGE_SIZE
      /\ \A a \in 1..PAGE_SIZE : ds[a] = found[a]
  BY <1>1, <1>2, <1>3
<1>5. last \in D /\ last \in Nat /\ \A a \in 1..PAGE_SIZE : found[a] <= last
  BY <1>1, <1>2, <1>3
<1>6. /\ p.dirs = ds /\ p.files = <<>> /\ p.next = newDirCursor(last)
      /\ p = [dirs |-> ds, files |-> <<>>, next |-> newDirCursor(last)]
  BY DEF DirectoriesPage
<1>7. /\ p.next.phase = "directories" /\ p.next.lastDir = last /\ p.next \in Token
      /\ p.next # NoToken
  BY <1>5, <1>6 DEF newDirCursor, Token, NoToken
<1> HIDE DEF ds, last
<1>8. p \in Page
  BY <1>4, <1>6, <1>7 DEF Page
<1>9. Short(p)
  BY <1>2, <1>4, <1>6 DEF Short
<1>10. BehindPage(p.next, p)
  BY <1>4, <1>5, <1>6, <1>7 DEF BehindPage
<1>11. t.phase = "directories" =>
          t.lastDir <= last /\ \A a \in DOMAIN p.dirs : t.lastDir < p.dirs[a]
  BY <1>1, <1>2, <1>3, <1>4, <1>6 DEF last
<1>12. \A a, b \in DOMAIN p.dirs : a < b => p.dirs[a] < p.dirs[b]
  BY <1>1, <1>4, <1>6
<1>13. Follows(p, t)
  BY <1>2, <1>6, <1>7, <1>8, <1>9, <1>10, <1>11, <1>12 DEF Follows
<1>14. ASSUME NEW d \in D, d <= last
       PROVE  \/ t.phase = "directories" /\ d <= t.lastDir
              \/ \E a \in DOMAIN p.dirs : p.dirs[a] = d
  <2>1. CASE \A a \in 1..Len(found) : found[a] < d
    BY <1>1, <1>2, <1>5, <1>14, <2>1 DEF last
  <2>2. CASE \E a \in 1..Len(found) : found[a] = d
    <3>1. PICK a \in 1..(PAGE_SIZE + 1) : found[a] = d
      BY <1>1, <2>2
    <3>2. a # PAGE_SIZE + 1
      BY <1>1, <1>2, <1>3, <1>14, <3>1 DEF last
    <3>3. a \in 1..PAGE_SIZE
      BY <1>2, <3>2
    <3> QED
      BY <1>4, <1>6, <3>1, <3>3
  <2> QED
    BY <1>1, <1>2, <2>1, <2>2
<1> QED
  BY <1>6, <1>7, <1>13, <1>14

\* The files read for the room left, one more than fits.
LEMMA FilesRead ==
    ASSUME NEW t \in Token, NEW R \in SUBSET Row, IsFiniteSet(R), NEW n \in Nat
    PROVE  LET found == listFiles(R, t, n)
           IN  /\ found \in Seq(R) /\ Len(found) <= n
               /\ \A a, b \in 1..Len(found) : a < b => Before(found[a], found[b])
               /\ t.lastId # 0 => \A a \in 1..Len(found) : Before(Cursor(t), found[a])
               /\ \A r \in R : \/ t.lastId # 0 /\ ~Before(Cursor(t), r)
                               \/ \E a \in 1..Len(found) : found[a] = r
                               \/ /\ Len(found) = n
                                  /\ \A a \in 1..Len(found) : Before(found[a], r)
<1> DEFINE found == listFiles(R, t, n)
           S == {f \in R : t.lastId = 0 \/ Before(Cursor(t), f)}
<1>1. S \in SUBSET Row /\ IsFiniteSet(S) /\ S \subseteq R
  <2>1. S \in SUBSET R
    OBVIOUS
  <2>2. IsFiniteSet(S)
    BY <2>1, FS_Subset
  <2> QED
    BY <2>1, <2>2
<1>2. found = FirstN(S, n, Before)
  BY Zenon DEF listFiles, Cursor
<1> HIDE DEF found
<1>3. /\ found \in Seq(S) /\ Len(found) <= n
      /\ \A a, b \in 1..Len(found) : a < b => Before(found[a], found[b])
      /\ \A r \in S : \/ \E a \in 1..Len(found) : found[a] = r
                      \/ Len(found) = n /\ \A a \in 1..Len(found) : Before(found[a], r)
  BY <1>1, <1>2, FirstFiles, Zenon
<1>4. \A a \in 1..Len(found) : found[a] \in S
  BY <1>3
<1>5. found \in Seq(R)
  BY <1>1, <1>3, <1>4
<1>6. t.lastId # 0 => \A a \in 1..Len(found) : Before(Cursor(t), found[a])
  BY <1>4
<1>7. \A r \in R : r \in S \/ (t.lastId # 0 /\ ~Before(Cursor(t), r))
  OBVIOUS
<1> HIDE DEF S
<1>8. /\ found \in Seq(R) /\ Len(found) <= n
      /\ \A a, b \in 1..Len(found) : a < b => Before(found[a], found[b])
      /\ t.lastId # 0 => \A a \in 1..Len(found) : Before(Cursor(t), found[a])
      /\ \A r \in R : \/ t.lastId # 0 /\ ~Before(Cursor(t), r)
                      \/ \E a \in 1..Len(found) : found[a] = r
                      \/ Len(found) = n /\ \A a \in 1..Len(found) : Before(found[a], r)
  BY <1>3, <1>5, <1>6, <1>7, Zenon
<1> QED
  BY <1>8 DEF found

\* A page that ends among the files: the directories found for it come first.
LEMMA PageOfFiles ==
    ASSUME NEW t \in Token, NEW ds \in Seq(Dirs), Len(ds) <= PAGE_SIZE,
           \A a, b \in DOMAIN ds : a < b => ds[a] < ds[b],
           t.phase = "files" => ds = <<>>,
           t.phase = "directories" => \A a \in DOMAIN ds : t.lastDir < ds[a],
           NEW R \in SUBSET Row, IsFiniteSet(R), NEW p,
           p = FilesPage(ds, listFiles(R, FilesToken(t), PAGE_SIZE - Len(ds) + 1), PAGE_SIZE)
    PROVE  /\ Follows(p, t) /\ p.dirs = ds /\ p.files \in Seq(R)
           /\ p.next = NoToken \/ p.next.phase = "files"
           /\ \A r \in R : p.next = NoToken \/ ~Before(Cursor(p.next), r) =>
                 \/ t.phase = "files" /\ ~Before(Cursor(t), r)
                 \/ \E a \in DOMAIN p.files : p.files[a] = r
<1> DEFINE room == PAGE_SIZE - Len(ds)
           tok == FilesToken(t)
           found == listFiles(R, tok, room + 1)
           more == Len(found) > room
           fs == IF more THEN SubSeq(found, 1, room) ELSE found
           last == IF room > 0 THEN found[room] ELSE NoFile
           next == IF more THEN newDirFilesCursor(last) ELSE NoToken
<1>1. room \in Nat /\ room + 1 \in Nat /\ Len(ds) + room = PAGE_SIZE
  BY ConstantsAssumption
<1>2. tok \in Token /\ (tok.lastId # 0 => t.phase = "files" /\ tok = t)
      /\ (t.phase = "files" => tok = t)
  BY Pages DEF FilesToken, NoToken
<1>3. /\ found \in Seq(R) /\ Len(found) <= room + 1
      /\ \A a, b \in 1..Len(found) : a < b => Before(found[a], found[b])
      /\ tok.lastId # 0 => \A a \in 1..Len(found) : Before(Cursor(tok), found[a])
      /\ \A r \in R : \/ tok.lastId # 0 /\ ~Before(Cursor(tok), r)
                      \/ \E a \in 1..Len(found) : found[a] = r
                      \/ /\ Len(found) = room + 1
                         /\ \A a \in 1..Len(found) : Before(found[a], r)
  BY <1>1, <1>2, FilesRead
<1>4. /\ p = [dirs |-> ds, files |-> fs, next |-> next]
      /\ p.dirs = ds /\ p.files = fs /\ p.next = next
  BY DEF FilesPage
<1> HIDE DEF found, tok, room
<1>5. \A a \in 1..Len(found) : found[a] \in R /\ found[a] \in Row
  BY <1>3
<1>6. /\ fs \in Seq(R) /\ Len(fs) <= room /\ DOMAIN fs = 1..Len(fs) /\ Len(fs) \in Nat
      /\ \A a \in 1..Len(fs) : a \in 1..Len(found) /\ fs[a] = found[a]
      /\ Len(fs) = IF more THEN room ELSE Len(found)
  <2>1. Len(found) \in Nat
    BY <1>3
  <2>2. CASE more
    <3>1. Len(found) = room + 1 /\ fs = SubSeq(found, 1, room)
      BY <1>1, <1>3, <2>1, <2>2
    <3>2. room \in 0..Len(found)
      BY <1>1, <3>1
    <3>3. /\ SubSeq(found, 1, room) \in Seq(R) /\ Len(SubSeq(found, 1, room)) = room
          /\ \A a \in 1..room : SubSeq(found, 1, room)[a] = found[a]
      BY <1>1, <1>3, <3>2
    <3> HIDE DEF fs, more
    <3>4. fs \in Seq(R) /\ Len(fs) = room /\ \A a \in 1..room : fs[a] = found[a]
      BY <3>1, <3>3
    <3> QED
      BY <1>1, <2>2, <3>1, <3>4
  <2>3. CASE ~more
    BY <1>1, <1>3, <2>1, <2>3
  <2> QED
    BY <2>2, <2>3
<1>7. ASSUME more
      PROVE  /\ next.phase = "files" /\ next \in Token /\ Len(found) = room + 1
             /\ room = 0 => next.lastId = 0 /\ next.lastRank = 0
             /\ room > 0 => next.lastId # 0 /\ Cursor(next) = found[room] /\ found[room] \in Row
  <2>1. Len(found) = room + 1
    BY <1>1, <1>3, <1>7
  <2>2. next = newDirFilesCursor(last)
    BY <1>7
  <2>3. CASE room = 0
    BY <2>1, <2>2, <2>3 DEF newDirFilesCursor, NoFile, Token
  <2>4. CASE room > 0
    <3>1. last = found[room] /\ found[room] \in Row
      BY <1>1, <1>5, <2>1, <2>4
    <3>2. last.rank \in Nat /\ last.id \in Nat /\ last.id # 0
          /\ last = [rank |-> last.rank, id |-> last.id]
      BY <3>1, ConstantsAssumption DEF Row
    <3> QED
      BY <2>1, <2>2, <2>4, <3>1, <3>2 DEF newDirFilesCursor, Token, Cursor
  <2> QED
    BY <1>1, <2>3, <2>4
<1>8. next \in Token /\ (next = NoToken \/ next.phase = "files") /\ (~more => next = NoToken)
  BY <1>7, Pages
<1> HIDE DEF more, fs, next
<1>9. p \in Page /\ Short(p)
  <2>1. fs \in Seq(Row)
    BY <1>5, <1>6
  <2>2. p \in Page
    BY <1>4, <1>8, <2>1 DEF Page
  <2>3. Len(ds) \in Nat
    OBVIOUS
  <2>4. Len(ds) + Len(fs) <= PAGE_SIZE
    BY <1>1, <1>6, <2>3, ConstantsAssumption
  <2> QED
    BY <1>4, <2>2, <2>4 DEF Short
<1>10. \A a, b \in DOMAIN p.files : a < b => Before(p.files[a], p.files[b])
  BY <1>3, <1>4, <1>6
<1>11. t.phase = "files" /\ t.lastId # 0 => \A a \in DOMAIN p.files : Before(Cursor(t), p.files[a])
  BY <1>2, <1>3, <1>4, <1>6
<1>12. next.phase = "none" => next = NoToken
  BY <1>8
<1>13. BehindPage(next, p)
  <2>1. CASE ~more
    BY <1>8, <2>1 DEF BehindPage, NoToken
  <2>2. CASE more
    <3> SUFFICES ASSUME NEW a \in DOMAIN fs
                 PROVE  /\ next.lastId # 0
                        /\ fs[a] = Cursor(next) \/ Before(fs[a], Cursor(next))
      BY <1>4, <1>7, <2>2 DEF BehindPage
    <3>1. Len(fs) = room /\ a \in 1..room /\ room > 0 /\ Len(found) = room + 1
      BY <1>1, <1>6, <1>7, <2>2
    <3>2. Cursor(next) = found[room] /\ next.lastId # 0 /\ fs[a] = found[a]
      BY <1>6, <1>7, <2>2, <3>1
    <3> QED
      BY <1>1, <1>3, <3>1, <3>2
  <2> QED
    BY <2>1, <2>2
<1>14. next.phase = "files" /\ t.phase = "files" /\ t.lastId # 0 =>
          next.lastId # 0 /\ Before(Cursor(t), Cursor(next))
  <2> SUFFICES ASSUME next.phase = "files", t.phase = "files", t.lastId # 0
               PROVE  next.lastId # 0 /\ Before(Cursor(t), Cursor(next))
    OBVIOUS
  <2>1. more
    BY <1>8 DEF NoToken
  <2>2. ds = <<>> /\ room > 0 /\ tok = t
    BY <1>1, <1>2, ConstantsAssumption
  <2>3. Cursor(next) = found[room] /\ next.lastId # 0 /\ room \in 1..Len(found)
    BY <1>1, <1>7, <2>1, <2>2
  <2> QED
    BY <1>3, <2>2, <2>3
<1>15. Follows(p, t)
  BY <1>4, <1>8, <1>9, <1>10, <1>11, <1>12, <1>13, <1>14 DEF Follows, NoToken
<1>16. ASSUME NEW r \in R, next = NoToken \/ ~Before(Cursor(next), r)
       PROVE  \/ t.phase = "files" /\ ~Before(Cursor(t), r)
              \/ \E a \in DOMAIN p.files : p.files[a] = r
  <2>1. CASE tok.lastId # 0 /\ ~Before(Cursor(tok), r)
    BY <1>2, <2>1
  <2>2. CASE \E a \in 1..Len(found) : found[a] = r
    <3>1. PICK a \in 1..Len(found) : found[a] = r
      BY <2>2
    <3>2. CASE ~more
      BY <1>4, <1>6, <3>1, <3>2
    <3>3. CASE more
      <4>1. next # NoToken /\ Len(found) = room + 1
        BY <1>7, <3>3 DEF NoToken
      <4>2. ~Before(Cursor(next), r)
        BY <1>16, <4>1
      <4>3. a # room + 1
        <5>1. CASE room > 0
          BY <1>1, <1>3, <1>7, <3>1, <3>3, <4>1, <4>2, <5>1
        <5>2. CASE room = 0
          BY <1>7, <3>3, <4>2, <5>2, BeforeIsOrder DEF Before, Cursor, Row
        <5> QED
          BY <1>1, <5>1, <5>2
      <4>4. a \in 1..Len(fs)
        BY <1>1, <1>6, <3>1, <3>3, <4>1, <4>3
      <4> QED
        BY <1>4, <1>6, <3>1, <4>4
    <3> QED
      BY <3>2, <3>3
  <2>3. CASE Len(found) = room + 1 /\ \A a \in 1..Len(found) : Before(found[a], r)
    <3>1. more /\ next # NoToken
      BY <1>1, <1>7, <2>3 DEF NoToken, more
    <3>2. CASE room > 0
      BY <1>1, <1>7, <1>16, <2>3, <3>1, <3>2
    <3>3. CASE room = 0
      BY <1>7, <1>16, <3>1, <3>3, BeforeIsOrder DEF Before, Cursor, Row
    <3> QED
      BY <1>1, <3>2, <3>3
  <2> QED
    BY <1>3, <2>1, <2>2, <2>3
<1> QED
  BY <1>4, <1>6, <1>8, <1>15, <1>16

-----------------------------------------------------------------------------
(* Walks that skip nothing.                                                 *)

LEMMA Listing ==
    ASSUME TypeInv
    PROVE  /\ Rows \in SUBSET Row /\ IsFiniteSet(Rows) /\ ViewDirs \in SUBSET Dirs
           /\ \A row \in Rows : row.id \in Files /\ rank[row.id] # 0
           /\ \A item \in Present :
                 \/ item.kind = "dir" /\ item.at \in ViewDirs
                 \/ /\ item.kind = "file" /\ item.at \in Files
                    /\ [rank |-> item.rank, id |-> item.at] \in Rows
           /\ Present \in SUBSET Items
<1> DEFINE there == {g \in Files : rank[g] # 0}
           rowOf == [f \in there |-> RowOf(f)]
<1>1. \A f \in there : RowOf(f) \in Row /\ rank[f] \in 1..MaxRank
  BY ConstantsAssumption DEF TypeInv, RowOf, Row
<1>2. Rows = {RowOf(f) : f \in there}
  BY DEF Rows
<1>3. IsFiniteSet(there)
  BY ConstantsAssumption, FS_Subset
<1>4. rowOf \in Surjection(there, Rows)
  BY <1>2 DEF Surjection
<1>5. IsFiniteSet(Rows)
  BY <1>3, <1>4, FS_Surjection
<1>6. ViewDirs \in SUBSET Dirs
  BY DEF ViewDirs, TypeInv
<1>7. \A row \in Rows : /\ row \in Row /\ row = [rank |-> row.rank, id |-> row.id]
                        /\ row.id \in Files /\ rank[row.id] # 0 /\ row.rank \in 1..MaxRank
  BY <1>1, <1>2 DEF RowOf
<1>8. \A item \in Present :
          \/ item.kind = "dir" /\ item.at \in ViewDirs
          \/ /\ item.kind = "file" /\ item.at \in Files
             /\ [rank |-> item.rank, id |-> item.at] \in Rows
  BY <1>7 DEF Present, DirItem, FileItem
<1>9. Present \in SUBSET Items
  BY <1>6, <1>7 DEF Present, DirItem, FileItem, Items
<1> QED
  BY <1>5, <1>6, <1>7, <1>8, <1>9

LEMMA ShownAppend ==
    ASSUME NEW ps \in Seq(Page), NEW p \in Page
    PROVE  /\ ShownFiles(Append(ps, p)) =
                 ShownFiles(ps) \cup {p.files[a].id : a \in DOMAIN p.files}
           /\ ShownDirs(Append(ps, p)) = ShownDirs(ps) \cup {p.dirs[a] : a \in DOMAIN p.dirs}
<1> DEFINE qs == Append(ps, p)
           n == Len(ps) + 1
           FilesOf(q) == {q.files[a].id : a \in DOMAIN q.files}
           DirsOf(q) == {q.dirs[a] : a \in DOMAIN q.dirs}
<1>1. /\ DOMAIN qs = DOMAIN ps \cup {n} /\ qs[n] = p
      /\ \A i \in DOMAIN ps : qs[i] = ps[i]
  BY NextTokens
<1>2. \A rs : /\ ShownFiles(rs) = UNION {FilesOf(rs[i]) : i \in DOMAIN rs}
              /\ ShownDirs(rs) = UNION {DirsOf(rs[i]) : i \in DOMAIN rs}
  BY DEF ShownFiles, ShownDirs
<1> HIDE DEF qs, n, FilesOf, DirsOf
<1>3. /\ UNION {FilesOf(qs[i]) : i \in DOMAIN qs}
           = (UNION {FilesOf(ps[i]) : i \in DOMAIN ps}) \cup FilesOf(p)
      /\ UNION {DirsOf(qs[i]) : i \in DOMAIN qs}
           = (UNION {DirsOf(ps[i]) : i \in DOMAIN ps}) \cup DirsOf(p)
  BY <1>1
<1>4. /\ ShownFiles(qs) = ShownFiles(ps) \cup FilesOf(p)
      /\ ShownDirs(qs) = ShownDirs(ps) \cup DirsOf(p)
  BY <1>2, <1>3
<1> QED
  BY <1>4 DEF qs, FilesOf, DirsOf

LEMMA NoPages == /\ NextToken(<<>>) = NoToken /\ ShownFiles(<<>>) = {} /\ ShownDirs(<<>>) = {}
                 /\ Walk(<<>>) /\ \A items : Complete(<<>>, items)
  BY DEF NextToken, ShownFiles, ShownDirs, Walk, OneWalk, Complete

LEMMA CompleteDirectories ==
    ASSUME NEW ps \in Seq(Page), NEW D, NEW items, Complete(ps, items),
           \A item \in items : item.kind = "dir" => item.at \in D,
           NEW p \in Page, p.next.phase = "directories",
           \A d \in D : d <= p.next.lastDir =>
               \/ NextToken(ps).phase = "directories" /\ d <= NextToken(ps).lastDir
               \/ \E a \in DOMAIN p.dirs : p.dirs[a] = d
    PROVE  Complete(Append(ps, p), items)
<1> SUFFICES ASSUME NEW item \in items, Reached(item, p.next) PROVE Shown(item, Append(ps, p))
  BY NextTokens DEF Complete
<1>1. item.kind = "dir" /\ item.at <= p.next.lastDir /\ item.at \in D
  BY DEF Reached, NoToken
<1>2. CASE NextToken(ps).phase = "directories" /\ item.at <= NextToken(ps).lastDir
  <2>1. ps # <<>> /\ NextToken(ps) # NoToken
    BY <1>2, NoPages DEF NoToken
  <2>2. Reached(item, NextToken(ps))
    BY <1>1, <1>2, <2>1 DEF Reached
  <2> QED
    BY <1>1, <2>1, <2>2, ShownAppend DEF Complete, Shown
<1>3. CASE \E a \in DOMAIN p.dirs : p.dirs[a] = item.at
  BY <1>1, <1>3, ShownAppend DEF Shown
<1> QED
  BY <1>1, <1>2, <1>3

\* Items are directories or among the rows R.
AmongRows(items, R) ==
    \A item \in items : \/ item.kind = "dir"
                        \/ item.kind = "file" /\ [rank |-> item.rank, id |-> item.at] \in R

\* No row of R between token t and the page's own token is missing from page p.
NoRowMissing(p, t, R) ==
    \A r \in R : p.next = NoToken \/ ~Before(Cursor(p.next), r) =>
        \/ t.phase = "files" /\ ~Before(Cursor(t), r)
        \/ \E a \in DOMAIN p.files : p.files[a] = r

LEMMA CompleteFiles ==
    ASSUME NEW ps \in Seq(Page), NEW R, NEW items, Complete(ps, items), AmongRows(items, R),
           NEW p \in Page, p.next = NoToken \/ p.next.phase = "files",
           \A item \in items : item.kind = "dir" =>
               item.at \in ShownDirs(ps) \/ \E a \in DOMAIN p.dirs : p.dirs[a] = item.at,
           NoRowMissing(p, NextToken(ps), R)
    PROVE  Complete(Append(ps, p), items)
<1> USE DEF AmongRows, NoRowMissing
<1> SUFFICES ASSUME NEW item \in items, Reached(item, p.next) PROVE Shown(item, Append(ps, p))
  BY NextTokens DEF Complete
<1>1. CASE item.kind = "dir"
  BY <1>1, ShownAppend DEF Shown
<1>2. CASE item.kind = "file"
  <2> DEFINE r == [rank |-> item.rank, id |-> item.at]
  <2>1. r \in R /\ (p.next = NoToken \/ ~Before(Cursor(p.next), r))
    BY <1>2 DEF Reached, Cursor
  <2>2. CASE NextToken(ps).phase = "files" /\ ~Before(Cursor(NextToken(ps)), r)
    <3>1. ps # <<>> /\ NextToken(ps) # NoToken
      BY <2>2, NoPages DEF NoToken
    <3>2. Reached(item, NextToken(ps))
      BY <1>2, <2>2, <3>1 DEF Reached, Cursor
    <3> QED
      BY <1>2, <3>1, <3>2, ShownAppend DEF Complete, Shown
  <2>3. CASE \E a \in DOMAIN p.files : p.files[a] = r
    <3>1. PICK a \in DOMAIN p.files : p.files[a] = r
      BY <2>3
    <3>2. p.files[a].id = item.at
      BY <3>1
    <3> QED
      BY <1>2, <3>2, ShownAppend DEF Shown
  <2> QED
    BY <2>1, <2>2, <2>3
<1> QED
  BY <1>1, <1>2

-----------------------------------------------------------------------------
(* The fetches that are begun, and what the steps leave as it was.          *)

LEMMA AskRecord ==
    ASSUME NEW kind, NEW t, NEW got, NEW want, NEW items, NEW f,
           f = Ask(kind, t, got, want, items)
    PROVE  f = [kind |-> kind, req |-> "asked", token |-> t, found |-> <<>>, got |-> got,
                want |-> want, reply |-> <<>>, items |-> items]
  BY DEF Ask, Idle

LEMMA NoFetch == Idle \in FetchRecord /\ Idle.kind = "idle" /\ Idle.req = "none" /\ Idle.items = {}
  BY Pages DEF Idle, FetchRecord

LEMMA Begun ==
    ASSUME TypeInv, Walk(pages), NEW kind \in {"first", "refetch"}, NEW f, f = Refetch(kind)
    PROVE  /\ f \in FetchRecord /\ f.kind = kind /\ f.req = "asked" /\ f.items = Present
           /\ f.got = <<>>
           /\ \A ps, st : FetchInv(f, ps, st)
<1> DEFINE want == IF pages = <<>> THEN 1 ELSE Len(pages)
<1>1. want \in Nat /\ <<>> \in Seq(Page) /\ NoToken \in Token /\ Present \in SUBSET Items
  BY Pages, Listing DEF Walk
<1>0. f = Ask(kind, NoToken, <<>>, want, Present)
  BY DEF Refetch
<1> HIDE DEF want
<1>2. /\ f \in FetchRecord /\ f.kind = kind /\ f.req = "asked" /\ f.token = NoToken
      /\ f.got = <<>> /\ f.items = Present
  <2>1. kind \in {"first", "refetch", "next"} /\ <<>> \in Seq(Dirs)
    OBVIOUS
  <2>2. f = [kind |-> kind, req |-> "asked", token |-> NoToken, found |-> <<>>, got |-> <<>>,
             want |-> want, reply |-> <<>>, items |-> Present]
    BY <1>0, AskRecord
  <2>3. f \in FetchRecord
    BY <1>1, <2>1, <2>2 DEF FetchRecord
  <2> QED
    BY <2>2, <2>3
<1>3. \A ps, st : FetchInv(f, ps, st)
  BY <1>2, NoPages DEF FetchInv
<1> QED
  BY <1>2, <1>3

LEMMA Thinned ==
    ASSUME NEW f \in FetchRecord, NEW ps, NEW st, FetchInv(f, ps, st),
           NEW items \in SUBSET f.items, NEW st2 \in SUBSET st,
           NEW g, g = [f EXCEPT !.items = items]
    PROVE  FetchInv(g, ps, st2)
<1>1. /\ g.kind = f.kind /\ g.req = f.req /\ g.token = f.token /\ g.found = f.found
      /\ g.got = f.got /\ g.reply = f.reply /\ g.items = items /\ g.want = f.want
  BY DEF FetchRecord
<1>2. Kept(g, st2) \subseteq Kept(f, st)
  BY <1>1 DEF Kept
<1> QED
  BY <1>1, <1>2 DEF FetchInv, FoundInv, Complete

LEMMA RenderShape ==
    ASSUME NEW ps, NEW f, NEW err \in BOOLEAN, Render(ps, f, err)
    PROVE  /\ pages' = ps /\ fetch' = f /\ isError' = err
           /\ attached' \in BOOLEAN /\ (attached' => ~err)
<1>1. pages' = ps /\ fetch' = f /\ isError' = err
  BY DEF Render
<1>2. attached' = (SentinelShown(ps, err) /\ (EffectRuns(ps, f) \/ attached))
  BY DEF Render
<1>3. SentinelShown(ps, err) => ~err
  BY DEF SentinelShown
<1>4. attached' \in BOOLEAN /\ (attached' => ~err)
  BY <1>2, <1>3, Zenon
<1> QED
  BY <1>1, <1>4

LEMMA ShownIds == ASSUME NEW ps \in Seq(Page)
                  PROVE  ShownFiles(ps) \subseteq Files /\ (ps = <<>> => ShownFiles(ps) = {})
<1>1. \A i \in DOMAIN ps : \A a \in DOMAIN ps[i].files : ps[i].files[a].id \in Files
  BY Pages DEF Row
<1> QED
  BY <1>1 DEF ShownFiles

\* A file that changes its place or goes takes at most itself out of what is there.
LEMMA OthersStay ==
    ASSUME TypeInv, NEW f \in Files, NEW r \in 0..MaxRank,
           rank' = [rank EXCEPT ![f] = r], view' = view, dirs' = dirs
    PROVE  /\ rank' \in [Files -> 0..MaxRank] /\ rank'[f] = r
           /\ \A g \in Files : g # f => rank'[g] = rank[g]
           /\ Present \ {FileItem(RowOf(f))} \subseteq Present'
           /\ rank[f] = 0 => Present \subseteq Present'
<1>1. /\ rank' \in [Files -> 0..MaxRank] /\ rank'[f] = r
      /\ \A g \in Files : g # f => rank'[g] = rank[g]
  BY DEF TypeInv
<1>2. ViewDirs' = ViewDirs
  BY DEF ViewDirs
<1>3. \A g \in Files : g # f => RowOf(g)' = RowOf(g)
  BY <1>1 DEF RowOf
<1>4. ASSUME NEW item \in Present, item # FileItem(RowOf(f)) \/ rank[f] = 0
      PROVE  item \in Present'
  <2>1. CASE item \in {DirItem(d) : d \in ViewDirs}
    BY <1>2, <2>1 DEF Present
  <2>2. CASE item \in {FileItem(row) : row \in Rows}
    <3>1. PICK g \in Files : rank[g] # 0 /\ item = FileItem(RowOf(g))
      BY <2>2 DEF Rows
    <3>2. g # f /\ rank'[g] # 0 /\ RowOf(g)' = RowOf(g)
      BY <1>1, <1>3, <1>4, <3>1
    <3>3. RowOf(g) \in Rows'
      BY <3>2 DEF Rows
    <3> QED
      BY <3>1, <3>3 DEF Present
  <2> QED
    BY <2>1, <2>2 DEF Present
<1> QED
  BY <1>1, <1>4

-----------------------------------------------------------------------------
(* The steps of a fetch.                                                    *)

LEMMA InitInv == Init => Inv
<1> SUFFICES ASSUME Init PROVE Inv
  OBVIOUS
<1>1. /\ view \in Views /\ dirs \subseteq Dirs /\ rank \in [Files -> 0..MaxRank]
      /\ pages = <<>> /\ isError = FALSE /\ attached = FALSE /\ deleting = 0 /\ gone = {}
      /\ steady = {} /\ missed = {}
  BY ConstantsAssumption DEF Init
<1>2. Present \subseteq Items
  <2>1. ViewDirs \subseteq Dirs
    BY <1>1 DEF ViewDirs
  <2>2. \A row \in Rows : row.id \in Files /\ row.rank \in 1..MaxRank
    BY <1>1, ConstantsAssumption DEF Rows, RowOf
  <2> QED
    BY <2>1, <2>2 DEF Present, DirItem, FileItem, Items
<1>3. fetch = [kind |-> "first", req |-> "asked", token |-> NoToken, found |-> <<>>,
               got |-> <<>>, want |-> 1, reply |-> <<>>, items |-> Present]
  BY AskRecord DEF Init
<1>4. fetch \in FetchRecord
  BY <1>2, <1>3, Pages DEF FetchRecord
<1>5. TypeInv
  BY <1>1, <1>3, <1>4 DEF TypeInv
<1>6. WalkInv
  BY <1>1, <1>3, NoPages DEF WalkInv, FetchInv
<1>7. SteadyInv
  BY <1>1, <1>3 DEF SteadyInv
<1>8. GoneInv
  BY <1>1, <1>3 DEF GoneInv
<1> QED
  BY <1>5, <1>6, <1>7, <1>8 DEF Inv

\* The fields of a fetch.
LEMMA FetchFields ==
    ASSUME Inv
    PROVE  /\ fetch.token \in Token /\ fetch.found \in Seq(Dirs) /\ fetch.got \in Seq(Page)
           /\ fetch.want \in Nat /\ fetch.reply \in Seq(Page) /\ fetch.items \in SUBSET Items
           /\ fetch.kind \in {"idle", "first", "refetch", "next"}
           /\ fetch.req \in {"none", "asked", "files", "answered"}
           /\ pages \in Seq(Page)
  BY DEF Inv, TypeInv, WalkInv, Walk, FetchRecord

\* What must not be skipped is there.
LEMMA KeptIsThere ==
    ASSUME Inv
    PROVE  \A item \in Kept(fetch, steady) :
              \/ item.kind = "dir" /\ item.at \in ViewDirs
              \/ item.kind = "file" /\ [rank |-> item.rank, id |-> item.at] \in Rows
<1>1. Kept(fetch, steady) \subseteq Present
  BY DEF Inv, SteadyInv, Kept
<1> QED
  BY <1>1, Listing DEF Inv

LEMMA ReadDirectoriesInv == Inv /\ ReadDirectories => Inv'
<1> SUFFICES ASSUME Inv, ReadDirectories PROVE Inv'
  OBVIOUS
<1> DEFINE t == fetch.token
           found == IF t.phase = "files" THEN <<>> ELSE ListChildDirectories(ViewDirs, t, PAGE_SIZE)
           p == DirectoriesPage(found, PAGE_SIZE)
<1>1. /\ UNCHANGED <<view, dirs, rank, pages, isError, attached, deleting, gone, steady, missed>>
      /\ fetch.req = "asked"
  BY DEF ReadDirectories, serverVars, userVars, history
<1>2. fetch' = IF DirectoriesFill(found, PAGE_SIZE)
               THEN [fetch EXCEPT !.req = "answered", !.reply = <<p>>]
               ELSE [fetch EXCEPT !.req = "files", !.found = found]
  BY DEF ReadDirectories
<1>3. fetch.kind # "idle" /\ FetchInv(fetch, pages, steady)
  BY <1>1 DEF Inv, TypeInv, WalkInv
<1>4. fetch.token \in Token /\ fetch.got \in Seq(Page) /\ ViewDirs \in SUBSET Dirs
  BY FetchFields, Listing DEF Inv
<1>5. Present' = Present
  BY <1>1 DEF Present, ViewDirs, Rows, RowOf
<1> HIDE DEF found, p, t
<1>6. CASE DirectoriesFill(found, PAGE_SIZE)
  <2>1. t.phase # "files" /\ found = ListChildDirectories(ViewDirs, t, PAGE_SIZE)
    BY <1>6, ConstantsAssumption DEF DirectoriesFill, found
  <2>2. /\ Follows(p, t) /\ p.files = <<>> /\ p.next.phase = "directories"
        /\ \A d \in ViewDirs : d <= p.next.lastDir =>
              \/ t.phase = "directories" /\ d <= t.lastDir
              \/ \E a \in DOMAIN p.dirs : p.dirs[a] = d
    BY <1>4, <1>6, <2>1, PageOfDirectories DEF p, t
  <2>3. p \in Page
    BY <2>2 DEF Follows
  <2>4. /\ t = NextToken(fetch.got) /\ (fetch.got # <<>> => t # NoToken)
        /\ Walk(fetch.got) /\ Complete(fetch.got, Kept(fetch, steady))
    BY <1>3 DEF FetchInv, t
  <2>5. Walk(Append(fetch.got, p))
    BY <2>2, <2>4, WalkGoesOn
  <2>6. Complete(Append(fetch.got, p), Kept(fetch, steady))
    <3>1. \A item \in Kept(fetch, steady) : item.kind = "dir" => item.at \in ViewDirs
      BY KeptIsThere
    <3>2. \A d \in ViewDirs : d <= p.next.lastDir =>
              \/ NextToken(fetch.got).phase = "directories" /\ d <= NextToken(fetch.got).lastDir
              \/ \E a \in DOMAIN p.dirs : p.dirs[a] = d
      BY <2>2, <2>4
    <3>3. p.next.phase = "directories" /\ Complete(fetch.got, Kept(fetch, steady))
      BY <2>2, <2>4
    <3> QED
      BY <1>4, <2>3, <3>1, <3>2, <3>3, CompleteDirectories
  <2>7. /\ fetch' \in FetchRecord /\ fetch'.req = "answered" /\ fetch'.reply = <<p>>
        /\ fetch'.kind = fetch.kind /\ fetch'.got = fetch.got /\ fetch'.token = fetch.token
        /\ fetch'.items = fetch.items /\ fetch'.want = fetch.want
    <3>1. fetch' = [fetch EXCEPT !.req = "answered", !.reply = <<p>>]
      BY <1>2, <1>6
    <3>2. <<p>> \in Seq(Page) /\ fetch \in FetchRecord
      BY <2>3 DEF Inv, TypeInv
    <3> QED
      BY <3>1, <3>2 DEF FetchRecord
  <2>8. Kept(fetch', steady') = Kept(fetch, steady)
    BY <1>1, <2>7 DEF Kept
  <2>9. FetchInv(fetch', pages', steady')
    BY <1>1, <1>3, <2>5, <2>6, <2>7, <2>8 DEF FetchInv
  <2>10. ShownFiles(fetch'.reply) = {}
    BY <2>2, <2>7 DEF ShownFiles
  <2>11. TypeInv'
    BY <1>1, <1>3, <2>7 DEF Inv, TypeInv
  <2>12. WalkInv'
    BY <1>1, <2>9 DEF Inv, WalkInv
  <2>13. SteadyInv' /\ GoneInv'
    BY <1>1, <1>3, <1>5, <2>7, <2>10 DEF Inv, SteadyInv, GoneInv
  <2> QED
    BY <2>11, <2>12, <2>13 DEF Inv
<1>7. CASE ~DirectoriesFill(found, PAGE_SIZE)
  <2>1. /\ found \in Seq(Dirs) /\ Len(found) <= PAGE_SIZE /\ (t.phase = "files" => found = <<>>)
        /\ \A a, b \in DOMAIN found : a < b => found[a] < found[b]
        /\ t.phase = "directories" => \A a \in DOMAIN found : t.lastDir < found[a]
        /\ \A item \in Kept(fetch, steady) : item.kind = "dir" =>
              item.at \in ShownDirs(fetch.got) \/ \E a \in DOMAIN found : found[a] = item.at
    <3>0. /\ t = NextToken(fetch.got) /\ (fetch.got # <<>> => t # NoToken)
          /\ (t.phase # "none" => fetch.got # <<>>)
          /\ Complete(fetch.got, Kept(fetch, steady))
      BY <1>3, NoPages DEF FetchInv, NoToken, t
    <3>1. CASE t.phase = "files"
      <4>1. found = <<>>
        BY <3>1 DEF found
      <4>2. ASSUME NEW item \in Kept(fetch, steady), item.kind = "dir"
            PROVE  item.at \in ShownDirs(fetch.got)
        <5>1. Reached(item, t)
          BY <3>0, <3>1, <4>2 DEF Reached
        <5> QED
          BY <3>0, <3>1, <4>2, <5>1 DEF Complete, Shown
      <4> QED
        BY <3>1, <4>1, <4>2, ConstantsAssumption
    <3>2. CASE t.phase # "files"
      <4>1. found = ListChildDirectories(ViewDirs, t, PAGE_SIZE)
        BY <3>2 DEF found
      <4>2. /\ found \in Seq(ViewDirs) /\ Len(found) <= PAGE_SIZE + 1
            /\ \A a, b \in 1..Len(found) : a < b => found[a] < found[b]
            /\ t.phase # "none" => \A a \in 1..Len(found) : t.lastDir < found[a]
            /\ \A d \in ViewDirs : \/ t.phase # "none" /\ d <= t.lastDir
                                   \/ \E a \in 1..Len(found) : found[a] = d
                                   \/ /\ Len(found) = PAGE_SIZE + 1
                                      /\ \A a \in 1..Len(found) : found[a] < d
        BY <1>4, <4>1, DirectoriesRead DEF t
      <4>3. /\ found \in Seq(Dirs) /\ DOMAIN found = 1..Len(found) /\ Len(found) <= PAGE_SIZE
            /\ Len(found) # PAGE_SIZE + 1
        <5>1. \A a \in 1..Len(found) : found[a] \in Dirs
          BY <1>4, <4>2
        <5>2. found \in Seq(Dirs) /\ DOMAIN found = 1..Len(found) /\ Len(found) \in Nat
          BY <4>2, <5>1
        <5>3. PAGE_SIZE \in Nat
          BY ConstantsAssumption
        <5>4. ~(Len(found) > PAGE_SIZE)
          BY <1>7, Zenon DEF DirectoriesFill
        <5>5. Len(found) <= PAGE_SIZE /\ Len(found) # PAGE_SIZE + 1
          <6> DEFINE n == Len(found)
          <6>1. n \in Nat /\ ~(n > PAGE_SIZE)
            BY <5>2, <5>4
          <6> HIDE DEF n
          <6>2. n <= PAGE_SIZE /\ n # PAGE_SIZE + 1
            BY <5>3, <6>1
          <6> QED
            BY <6>2 DEF n
        <5> QED
          BY <5>2, <5>5
      <4>4. ASSUME NEW item \in Kept(fetch, steady), item.kind = "dir"
            PROVE  item.at \in ShownDirs(fetch.got) \/ \E a \in DOMAIN found : found[a] = item.at
        <5>1. item.at \in ViewDirs
          BY <4>4, KeptIsThere
        <5>2. CASE t.phase # "none" /\ item.at <= t.lastDir
          <6>1. t.phase = "directories" /\ fetch.got # <<>> /\ t # NoToken
            BY <1>4, <3>0, <3>2, <5>2, Pages DEF t
          <6>2. Reached(item, t)
            BY <4>4, <5>2, <6>1 DEF Reached
          <6> QED
            BY <3>0, <4>4, <6>1, <6>2 DEF Complete, Shown
        <5> QED
          BY <4>2, <4>3, <5>1, <5>2
      <4> QED
        BY <3>2, <4>2, <4>3, <4>4
    <3> QED
      BY <3>1, <3>2
  <2>2. /\ fetch' \in FetchRecord /\ fetch'.req = "files" /\ fetch'.found = found
        /\ fetch'.kind = fetch.kind /\ fetch'.got = fetch.got /\ fetch'.token = fetch.token
        /\ fetch'.items = fetch.items /\ fetch'.want = fetch.want
    <3>1. fetch' = [fetch EXCEPT !.req = "files", !.found = found]
      BY <1>2, <1>7
    <3>2. found \in Seq(Dirs) /\ fetch \in FetchRecord
      BY <2>1 DEF Inv, TypeInv
    <3> QED
      BY <3>1, <3>2 DEF FetchRecord
  <2>3. Kept(fetch', steady') = Kept(fetch, steady)
    BY <1>1, <2>2 DEF Kept
  <2>4. FoundInv(fetch', steady')
    BY <2>1, <2>2, <2>3 DEF FoundInv, t
  <2>5. FetchInv(fetch', pages', steady')
    BY <1>1, <1>3, <2>2, <2>3, <2>4 DEF FetchInv
  <2>6. TypeInv'
    BY <1>1, <1>3, <2>2 DEF Inv, TypeInv
  <2>7. WalkInv'
    BY <1>1, <2>5 DEF Inv, WalkInv
  <2>8. SteadyInv' /\ GoneInv'
    BY <1>1, <1>3, <1>5, <2>2 DEF Inv, SteadyInv, GoneInv
  <2> QED
    BY <2>6, <2>7, <2>8 DEF Inv
<1> QED
  BY <1>6, <1>7

LEMMA ReadFilesInv == Inv /\ ReadFiles => Inv'
<1> SUFFICES ASSUME Inv, ReadFiles PROVE Inv'
  OBVIOUS
<1> DEFINE t == fetch.token
           ds == fetch.found
           p == FilesPage(ds, listFiles(Rows, FilesToken(t), PAGE_SIZE - Len(ds) + 1), PAGE_SIZE)
<1>1. /\ UNCHANGED <<view, dirs, rank, pages, isError, attached, deleting, gone, steady, missed>>
      /\ fetch.req = "files"
  BY DEF ReadFiles, serverVars, userVars, history
<1>2. fetch' = [fetch EXCEPT !.req = "answered", !.reply = <<p>>]
  BY DEF ReadFiles
<1>3. fetch.kind # "idle" /\ FetchInv(fetch, pages, steady) /\ FoundInv(fetch, steady)
  BY <1>1 DEF Inv, TypeInv, WalkInv, FetchInv
<1>4. /\ t \in Token /\ ds \in Seq(Dirs) /\ fetch.got \in Seq(Page)
      /\ Rows \in SUBSET Row /\ IsFiniteSet(Rows)
      /\ \A row \in Rows : row.id \in Files /\ rank[row.id] # 0
  BY FetchFields, Listing DEF Inv
<1>5. Present' = Present
  BY <1>1 DEF Present, ViewDirs, Rows, RowOf
<1>6. /\ Len(ds) <= PAGE_SIZE /\ (t.phase = "files" => ds = <<>>)
      /\ \A a, b \in DOMAIN ds : a < b => ds[a] < ds[b]
      /\ t.phase = "directories" => \A a \in DOMAIN ds : t.lastDir < ds[a]
  BY <1>3 DEF FoundInv
<1>7. p = FilesPage(ds, listFiles(Rows, FilesToken(t), PAGE_SIZE - Len(ds) + 1), PAGE_SIZE)
  OBVIOUS
<1> HIDE DEF t, ds, p
<1>8. /\ Follows(p, t) /\ p.dirs = ds /\ p.files \in Seq(Rows)
      /\ p.next = NoToken \/ p.next.phase = "files"
      /\ \A r \in Rows : p.next = NoToken \/ ~Before(Cursor(p.next), r) =>
            \/ t.phase = "files" /\ ~Before(Cursor(t), r)
            \/ \E a \in DOMAIN p.files : p.files[a] = r
  BY <1>4, <1>6, <1>7, PageOfFiles
<1>9. p \in Page
  BY <1>8 DEF Follows
<1>10. /\ t = NextToken(fetch.got) /\ (fetch.got # <<>> => NextToken(fetch.got) # NoToken)
       /\ Walk(fetch.got) /\ Complete(fetch.got, Kept(fetch, steady))
  BY <1>3 DEF FetchInv, t
<1>11. Walk(Append(fetch.got, p))
  BY <1>8, <1>10, WalkGoesOn
<1>12. Complete(Append(fetch.got, p), Kept(fetch, steady))
  <2>1. \A item \in Kept(fetch, steady) : item.kind = "dir" =>
            item.at \in ShownDirs(fetch.got) \/ \E a \in DOMAIN p.dirs : p.dirs[a] = item.at
    BY <1>3, <1>8 DEF FoundInv, ds
  <2>2. NoRowMissing(p, NextToken(fetch.got), Rows)
    BY <1>8, <1>10 DEF NoRowMissing
  <2>3. AmongRows(Kept(fetch, steady), Rows)
    BY KeptIsThere DEF AmongRows
  <2>4. /\ p.next = NoToken \/ p.next.phase = "files"
        /\ Complete(fetch.got, Kept(fetch, steady)) /\ fetch.got \in Seq(Page)
    BY <1>4, <1>8, <1>10
  <2> QED
    BY <1>9, <2>1, <2>2, <2>3, <2>4, CompleteFiles
<1>13. /\ fetch' \in FetchRecord /\ fetch'.req = "answered" /\ fetch'.reply = <<p>>
       /\ fetch'.kind = fetch.kind /\ fetch'.got = fetch.got /\ fetch'.token = fetch.token
       /\ fetch'.items = fetch.items /\ fetch'.want = fetch.want
  <2>1. <<p>> \in Seq(Page) /\ fetch \in FetchRecord
    BY <1>9 DEF Inv, TypeInv
  <2> QED
    BY <1>2, <2>1 DEF FetchRecord
<1>14. Kept(fetch', steady') = Kept(fetch, steady)
  BY <1>1, <1>13 DEF Kept
<1>15. FetchInv(fetch', pages', steady')
  BY <1>1, <1>3, <1>11, <1>12, <1>13, <1>14 DEF FetchInv
<1>16. gone \cap ShownFiles(fetch'.reply) = {}
  <2>1. ShownFiles(fetch'.reply) = {p.files[a].id : a \in DOMAIN p.files}
    BY <1>13 DEF ShownFiles
  <2>2. \A a \in DOMAIN p.files : p.files[a].id \in Files /\ rank[p.files[a].id] # 0
    BY <1>4, <1>8
  <2>3. \A f \in gone : f \in Files /\ rank[f] = 0
    BY ConstantsAssumption DEF Inv, TypeInv, GoneInv
  <2> QED
    BY <2>1, <2>2, <2>3
<1>17. TypeInv'
  BY <1>1, <1>3, <1>13 DEF Inv, TypeInv
<1>18. WalkInv'
  BY <1>1, <1>15 DEF Inv, WalkInv
<1>19. SteadyInv' /\ GoneInv'
  BY <1>1, <1>3, <1>5, <1>13, <1>16 DEF Inv, SteadyInv, GoneInv
<1> QED
  BY <1>17, <1>18, <1>19 DEF Inv

LEMMA PageArrivesInv == Inv /\ PageArrives => Inv'
<1> SUFFICES ASSUME Inv, PageArrives PROVE Inv'
  OBVIOUS
<1> DEFINE p == fetch.reply[1]
           got == Append(fetch.got, p)
           finished == Len(got) >= fetch.want \/ ~hasNextPage(got)
<1>1. /\ UNCHANGED <<view, dirs, rank, deleting, gone>> /\ fetch.req = "answered"
  BY DEF PageArrives, serverVars, userVars
<1>2. /\ fetch.kind \in {"first", "refetch", "next"} /\ FetchInv(fetch, pages, steady)
      /\ fetch.reply # <<>> /\ Walk(got) /\ Complete(got, Kept(fetch, steady))
  BY <1>1, FetchFields DEF Inv, TypeInv, WalkInv, FetchInv
<1>3. p \in Page /\ got \in Seq(Page) /\ got # <<>>
  <2>1. fetch.reply \in Seq(Page) /\ fetch.got \in Seq(Page)
    BY FetchFields
  <2> QED
    BY <1>2, <2>1, NextTokens
<1>4. ShownFiles(got) = ShownFiles(fetch.got) \cup {p.files[a].id : a \in DOMAIN p.files}
  BY <1>3, FetchFields, ShownAppend
<1>5. {p.files[a].id : a \in DOMAIN p.files} \subseteq ShownFiles(fetch.reply)
  <2>1. 1 \in DOMAIN fetch.reply
    BY <1>2, FetchFields
  <2> QED
    BY <2>1 DEF ShownFiles
<1>6. gone \cap {p.files[a].id : a \in DOMAIN p.files} = {}
  BY <1>1, <1>5 DEF Inv, GoneInv
<1>7. Present' = Present
  BY <1>1 DEF Present, ViewDirs, Rows, RowOf
<1>8. /\ Len(got) = Len(fetch.got) + 1 /\ Len(got) \in Nat
      /\ fetch.kind = "next" => Len(got) >= fetch.want
  <2>1. fetch.got \in Seq(Page) /\ Len(fetch.got) \in Nat
    BY FetchFields
  <2>2. Len(got) = Len(fetch.got) + 1
    BY <1>3, <2>1, NextTokens
  <2>3. fetch.kind = "next" => fetch.want = Len(fetch.got) + 1
    BY <1>2 DEF FetchInv
  <2> HIDE DEF got
  <2> QED
    BY <2>1, <2>2, <2>3
<1>9. \/ /\ Render(got, Idle, FALSE)
         /\ steady' = IF fetch.kind = "next" THEN steady ELSE fetch.items
         /\ missed' = IF fetch.kind = "next" THEN missed ELSE {}
      \/ /\ hasNextPage(got) /\ fetch.kind # "next"
         /\ fetch' = Ask(fetch.kind, NextToken(got), got, fetch.want, fetch.items)
         /\ UNCHANGED <<pages, isError, attached, steady, missed>>
  <2> HIDE DEF got
  <2>1. finished \/ (hasNextPage(got) /\ fetch.kind # "next")
    BY <1>8
  <2>2. \/ /\ Render(got, Idle, FALSE)
           /\ steady' = IF fetch.kind = "next" THEN steady ELSE fetch.items
           /\ missed' = IF fetch.kind = "next" THEN missed ELSE {}
        \/ /\ ~finished
           /\ fetch' = Ask(fetch.kind, NextToken(got), got, fetch.want, fetch.items)
           /\ UNCHANGED <<pages, isError, attached, steady, missed>>
    BY DEF PageArrives, history, got
  <2> QED
    BY <2>1, <2>2
<1> HIDE DEF got, p, finished
<1>10. CASE /\ Render(got, Idle, FALSE)
            /\ steady' = IF fetch.kind = "next" THEN steady ELSE fetch.items
            /\ missed' = IF fetch.kind = "next" THEN missed ELSE {}
  <2>1. pages' = got /\ fetch' = Idle /\ isError' = FALSE /\ attached' \in BOOLEAN
    BY <1>10, RenderShape
  <2>2. steady' = Kept(fetch, steady) /\ steady' \subseteq Present
    BY <1>10 DEF Kept, Inv, SteadyInv
  <2>3. TypeInv'
    BY <1>1, <1>10, <2>1, NoFetch DEF Inv, TypeInv
  <2>4. WalkInv'
    BY <1>2, <2>1, <2>2, NoFetch DEF WalkInv
  <2>5. SteadyInv'
    BY <1>7, <2>1, <2>2, NoFetch DEF SteadyInv
  <2>6. missed' = {} => gone \cap ShownFiles(got) = {}
    <3>1. fetch.kind = "next" => ~isError /\ fetch.got = pages /\ missed' = missed
      BY <1>2, <1>10 DEF Inv, GoneInv, FetchInv
    <3>2. missed' = {} => gone \cap ShownFiles(fetch.got) = {}
      BY <1>2, <3>1 DEF Inv, GoneInv
    <3> QED
      BY <1>4, <1>6, <3>2
  <2>7. GoneInv'
    BY <1>1, <1>3, <2>1, <2>6, NoFetch DEF Inv, GoneInv
  <2> QED
    BY <2>3, <2>4, <2>5, <2>7 DEF Inv
<1>11. CASE /\ hasNextPage(got) /\ fetch.kind # "next"
            /\ fetch' = Ask(fetch.kind, NextToken(got), got, fetch.want, fetch.items)
            /\ UNCHANGED <<pages, isError, attached, steady, missed>>
  <2>1. NextToken(got) \in Token /\ NextToken(got) # NoToken
    BY <1>3, <1>11, NextTokens DEF hasNextPage
  <2>2. fetch' = [kind |-> fetch.kind, req |-> "asked", token |-> NextToken(got),
                  found |-> <<>>, got |-> got, want |-> fetch.want, reply |-> <<>>,
                  items |-> fetch.items]
    BY <1>11, AskRecord
  <2>3. fetch' \in FetchRecord
    BY <1>3, <2>1, <2>2, FetchFields DEF FetchRecord
  <2>4. Kept(fetch', steady') = Kept(fetch, steady)
    BY <1>11, <2>2 DEF Kept
  <2>5. FetchInv(fetch', pages', steady')
    BY <1>2, <1>11, <2>1, <2>2, <2>4 DEF FetchInv
  <2>6. gone \cap ShownFiles(got) = {}
    BY <1>2, <1>4, <1>6, <1>11 DEF Inv, GoneInv
  <2>7. TypeInv'
    BY <1>1, <1>2, <1>11, <2>2, <2>3 DEF Inv, TypeInv
  <2>8. WalkInv'
    BY <1>11, <2>5 DEF Inv, WalkInv
  <2>9. SteadyInv'
    BY <1>7, <1>11, <2>2 DEF Inv, SteadyInv
  <2>10. GoneInv'
    BY <1>1, <1>2, <1>11, <2>2, <2>6 DEF Inv, GoneInv
  <2> QED
    BY <2>7, <2>8, <2>9, <2>10 DEF Inv
<1> QED
  BY <1>9, <1>10, <1>11

LEMMA FetchFailsInv == Inv /\ FetchFails => Inv'
<1> SUFFICES ASSUME Inv, FetchFails PROVE Inv'
  OBVIOUS
<1>1. UNCHANGED <<view, dirs, rank, deleting, gone, steady, missed>>
  BY DEF FetchFails, serverVars, userVars
<1>2. pages' = pages /\ fetch' = Idle /\ isError' = TRUE /\ attached' \in BOOLEAN /\ ~attached'
  BY RenderShape DEF FetchFails
<1>3. Present' = Present
  BY <1>1 DEF Present, ViewDirs, Rows, RowOf
<1>4. TypeInv'
  BY <1>1, <1>2, NoFetch DEF Inv, TypeInv
<1>5. WalkInv'
  BY <1>1, <1>2, NoFetch DEF Inv, WalkInv
<1>6. SteadyInv' /\ GoneInv'
  BY <1>1, <1>2, <1>3, NoFetch DEF Inv, SteadyInv, GoneInv
<1> QED
  BY <1>4, <1>5, <1>6 DEF Inv

LEMMA ScrollInv == Inv /\ Scroll => Inv'
<1> SUFFICES ASSUME Inv, Scroll PROVE Inv'
  OBVIOUS
<1>1. /\ UNCHANGED <<view, dirs, rank, deleting, gone, steady>>
      /\ attached /\ hasNextPage(pages) /\ fetch.kind # "next"
      /\ missed' = IF fetch.kind = "refetch" THEN missed \cup {"scroll"} ELSE missed
  BY DEF Scroll, CanFetchNext, serverVars, userVars
<1>2. pages \in Seq(Page) /\ NextToken(pages) \in Token /\ Len(pages) + 1 \in Nat
  BY FetchFields, NextTokens
<1>3. NextToken(pages) # NoToken /\ pages # <<>> /\ isError = FALSE
  BY <1>1, NoPages DEF hasNextPage, Inv, TypeInv, GoneInv
<1>4. /\ pages' = pages /\ isError' = FALSE /\ attached' \in BOOLEAN
      /\ fetch' = Ask("next", NextToken(pages), pages, Len(pages) + 1, {})
  BY <1>3, RenderShape DEF Scroll
<1>5. fetch' = [kind |-> "next", req |-> "asked", token |-> NextToken(pages), found |-> <<>>,
                got |-> pages, want |-> Len(pages) + 1, reply |-> <<>>, items |-> {}]
  BY <1>4 DEF Ask, Idle
<1>6. fetch' \in FetchRecord
  BY <1>2, <1>5 DEF FetchRecord
<1>7. Present' = Present
  BY <1>1 DEF Present, ViewDirs, Rows, RowOf
<1>8. TypeInv'
  <2>1. fetch'.kind = "next" /\ fetch'.req = "asked"
    BY <1>5
  <2> QED
    BY <1>1, <1>3, <1>4, <1>6, <2>1 DEF Inv, TypeInv, Missed
<1>9. Kept(fetch', steady') = steady
  BY <1>1, <1>5 DEF Kept
<1>10. FetchInv(fetch', pages', steady')
  BY <1>3, <1>4, <1>5, <1>9 DEF Inv, WalkInv, FetchInv
<1>11. WalkInv'
  BY <1>1, <1>4, <1>10 DEF Inv, WalkInv
<1>12. SteadyInv'
  BY <1>1, <1>5, <1>7 DEF Inv, SteadyInv
<1>13. missed' = {} => gone \cap ShownFiles(pages) = {}
  <2>1. missed' = {} => missed = {} /\ fetch.kind = "idle"
    BY <1>1, <1>3, FetchFields DEF Inv, TypeInv
  <2> QED
    BY <1>3, <2>1 DEF Inv, GoneInv
<1>14. GoneInv'
  BY <1>1, <1>3, <1>4, <1>5, <1>13 DEF Inv, GoneInv
<1> QED
  BY <1>8, <1>11, <1>12, <1>14 DEF Inv

\* An invalidation or a reconnection: the pages stay, and are read again.
LEMMA ReadAgain ==
    ASSUME Inv, NEW kind \in {"first", "refetch"}, kind = "first" <=> pages = <<>>,
           NEW err \in BOOLEAN, Render(pages, Refetch(kind), err),
           UNCHANGED <<view, dirs, steady, missed>>,
           rank' \in [Files -> 0..MaxRank], Present \subseteq Present',
           gone' \subseteq Files, deleting' \in Files \cup {0},
           \A f \in gone' \cup {deleting'} : f # 0 => rank'[f] = 0,
           deleting' # 0 => pages # <<>>
    PROVE  Inv'
<1>1. pages' = pages /\ fetch' = Refetch(kind) /\ isError' = err /\ attached' \in BOOLEAN
      /\ (attached' => ~err)
  BY RenderShape
<1>2. /\ fetch' \in FetchRecord /\ fetch'.kind = kind /\ fetch'.req = "asked"
      /\ fetch'.items = Present /\ fetch'.got = <<>> /\ FetchInv(fetch', pages', steady')
  <2> DEFINE f == Refetch(kind)
  <2>1. /\ f \in FetchRecord /\ f.kind = kind /\ f.req = "asked"
        /\ f.items = Present /\ f.got = <<>> /\ \A ps, st : FetchInv(f, ps, st)
    BY Begun DEF Inv, WalkInv
  <2> QED
    BY <1>1, <2>1
<1>3. TypeInv'
  BY <1>1, <1>2 DEF Inv, TypeInv
<1>4. WalkInv'
  BY <1>1, <1>2 DEF Inv, WalkInv
<1>5. SteadyInv'
  BY <1>2 DEF Inv, SteadyInv
<1>6. GoneInv'
  BY <1>1, <1>2, NoPages DEF Inv, GoneInv
<1> QED
  BY <1>3, <1>4, <1>5, <1>6 DEF Inv

LEMMA ReconnectInv == Inv /\ Reconnect => Inv'
<1> SUFFICES ASSUME Inv, Reconnect PROVE Inv'
  OBVIOUS
<1> DEFINE kind == IF pages = <<>> THEN "first" ELSE "refetch"
           err == pages # <<>> /\ isError
<1>1. UNCHANGED <<view, dirs, rank, deleting, gone, steady, missed>>
  BY DEF Reconnect, serverVars, userVars
<1>2. kind \in {"first", "refetch"} /\ (kind = "first" <=> pages = <<>>) /\ err \in BOOLEAN
  BY DEF Inv, TypeInv
<1>3. Render(pages, Refetch(kind), err)
  BY DEF Reconnect
<1>4. Present' = Present
  BY <1>1 DEF Present, ViewDirs, Rows, RowOf
<1>5. /\ rank' \in [Files -> 0..MaxRank] /\ gone' \subseteq Files /\ deleting' \in Files \cup {0}
      /\ \A f \in gone' \cup {deleting'} : f # 0 => rank'[f] = 0
      /\ deleting' # 0 => pages # <<>>
  BY <1>1 DEF Inv, TypeInv, GoneInv
<1> HIDE DEF kind, err
<1> QED
  BY <1>1, <1>2, <1>3, <1>4, <1>5, ReadAgain

LEMMA PollPatchesInv == Inv /\ PollPatches => Inv'
<1> SUFFICES ASSUME Inv, PollPatches PROVE Inv'
  OBVIOUS
<1>1. /\ UNCHANGED <<view, dirs, rank, deleting, gone, steady>>
      /\ missed' = missed \cup {"poll"} /\ missed' \subseteq Missed
  BY DEF PollPatches, serverVars, userVars, Inv, TypeInv, Missed
<1>2. pages' = pages /\ fetch' = fetch /\ isError' = FALSE /\ attached' \in BOOLEAN
  BY RenderShape DEF PollPatches
<1>3. Present' = Present
  BY <1>1 DEF Present, ViewDirs, Rows, RowOf
<1>4. TypeInv' /\ WalkInv'
  BY <1>1, <1>2 DEF Inv, TypeInv, WalkInv
<1>5. SteadyInv' /\ GoneInv'
  BY <1>1, <1>2, <1>3 DEF Inv, SteadyInv, GoneInv
<1> QED
  BY <1>4, <1>5 DEF Inv

-----------------------------------------------------------------------------
(* The changes of the listing.                                              *)

LEMMA DeleteDoneInv == Inv /\ DeleteDone => Inv'
<1> SUFFICES ASSUME Inv, DeleteDone PROVE Inv'
  OBVIOUS
<1>1. /\ UNCHANGED <<view, dirs, rank, steady, missed>>
      /\ deleting # 0 /\ deleting' = 0 /\ gone' = gone \cup {deleting}
      /\ Render(pages, Invalidate, isError)
  BY DEF DeleteDone, serverVars
<1>2. pages # <<>> /\ isError \in BOOLEAN /\ deleting \in Files
  BY <1>1 DEF Inv, TypeInv, GoneInv
<1>3. Invalidate = Refetch("refetch")
  BY <1>2 DEF Invalidate
<1>4. Present' = Present
  BY <1>1 DEF Present, ViewDirs, Rows, RowOf
<1>5. /\ rank' \in [Files -> 0..MaxRank] /\ gone' \subseteq Files /\ deleting' \in Files \cup {0}
      /\ \A f \in gone' \cup {deleting'} : f # 0 => rank'[f] = 0
  BY <1>1, <1>2 DEF Inv, TypeInv, GoneInv
<1> QED
  BY <1>1, <1>2, <1>3, <1>4, <1>5, ReadAgain

LEMMA UploadDoneInv == Inv /\ UploadDone => Inv'
<1> SUFFICES ASSUME Inv, UploadDone PROVE Inv'
  OBVIOUS
<1> DEFINE kind == IF pages = <<>> THEN "first" ELSE "refetch"
           err == pages # <<>> /\ isError
<1>1. /\ UNCHANGED <<view, dirs, deleting, gone, steady, missed>>
      /\ Render(pages, Invalidate, err)
  BY DEF UploadDone, userVars
<1>2. PICK f \in Files, r \in 1..MaxRank :
          /\ rank[f] = 0 /\ f \notin gone /\ f # deleting
          /\ rank' = [rank EXCEPT ![f] = r]
  BY DEF UploadDone
<1>3. /\ rank' \in [Files -> 0..MaxRank] /\ Present \subseteq Present'
      /\ \A g \in Files : g # f => rank'[g] = rank[g]
  <2>1. r \in 0..MaxRank
    BY ConstantsAssumption
  <2> QED
    BY <1>1, <1>2, <2>1, OthersStay DEF Inv
<1>4. /\ gone' \subseteq Files /\ deleting' \in Files \cup {0}
      /\ \A g \in gone' \cup {deleting'} : g # 0 => rank'[g] = 0
      /\ deleting' # 0 => pages # <<>>
  BY <1>1, <1>2, <1>3 DEF Inv, TypeInv, GoneInv
<1>5. kind \in {"first", "refetch"} /\ (kind = "first" <=> pages = <<>>) /\ err \in BOOLEAN
  BY DEF Inv, TypeInv
<1>6. CASE pages = <<>> /\ fetch.kind = "first"
  <2>1. /\ pages' = pages /\ fetch' = fetch /\ isError' = err /\ attached' \in BOOLEAN
        /\ (attached' => ~err)
    <3>1. Invalidate = fetch
      BY <1>6 DEF Invalidate
    <3> HIDE DEF err
    <3> QED
      BY <1>1, <1>5, <3>1, RenderShape
  <2>2. TypeInv'
    BY <1>1, <1>3, <1>4, <1>5, <2>1 DEF Inv, TypeInv
  <2>3. WalkInv'
    BY <1>1, <2>1 DEF Inv, WalkInv
  <2>4. SteadyInv'
    BY <1>1, <1>3, <2>1 DEF Inv, SteadyInv
  <2>5. GoneInv'
    BY <1>1, <1>4, <1>6, <2>1 DEF Inv, GoneInv
  <2> QED
    BY <2>2, <2>3, <2>4, <2>5 DEF Inv
<1>7. CASE ~(pages = <<>> /\ fetch.kind = "first")
  <2>1. Invalidate = Refetch(kind)
    BY <1>7 DEF Invalidate
  <2> HIDE DEF kind, err
  <2> QED
    BY <1>1, <1>3, <1>4, <1>5, <2>1, ReadAgain
<1> QED
  BY <1>6, <1>7

\* Something leaves its place: the fetch and the pages are as they were, and
\* what leaves is no longer among what must not be skipped.
LEMMA Dropped ==
    ASSUME Inv, NEW item, fetch' = [fetch EXCEPT !.items = Drop(item, @)],
           steady' = Drop(item, steady), Present \ {item} \subseteq Present',
           UNCHANGED <<view, pages, isError, attached, gone, missed>>,
           dirs' \subseteq Dirs, rank' \in [Files -> 0..MaxRank], deleting' \in Files \cup {0},
           \A f \in gone \cup {deleting'} : f # 0 => rank'[f] = 0,
           deleting' # 0 => pages # <<>>
    PROVE  Inv'
<1>1. fetch \in FetchRecord /\ fetch' = [fetch EXCEPT !.items = fetch.items \ {item}]
  BY DEF Inv, TypeInv, Drop
<1>2. /\ fetch' \in FetchRecord /\ fetch'.kind = fetch.kind /\ fetch'.req = fetch.req
      /\ fetch'.got = fetch.got /\ fetch'.reply = fetch.reply
      /\ fetch'.items = fetch.items \ {item}
  BY <1>1 DEF FetchRecord
<1>3. steady' = steady \ {item}
  BY DEF Drop
<1>4. TypeInv'
  BY <1>2 DEF Inv, TypeInv
<1>5. WalkInv'
  <2>1. Walk(pages') /\ Complete(pages', steady')
    BY <1>3 DEF Inv, WalkInv, Complete
  <2>2. fetch.kind # "idle" => FetchInv(fetch', pages', steady')
    <3>1. fetch.items \ {item} \in SUBSET fetch.items /\ steady' \in SUBSET steady
      BY <1>3
    <3> QED
      BY <1>1, <3>1, Thinned DEF Inv, WalkInv
  <2> QED
    BY <1>2, <2>1, <2>2 DEF WalkInv
<1>6. SteadyInv'
  BY <1>2, <1>3 DEF Inv, SteadyInv
<1>7. GoneInv'
  BY <1>2 DEF Inv, GoneInv
<1> QED
  BY <1>4, <1>5, <1>6, <1>7 DEF Inv

LEMMA ConfirmDeleteInv == Inv /\ ConfirmDelete => Inv'
<1> SUFFICES ASSUME Inv, ConfirmDelete PROVE Inv'
  OBVIOUS
<1>1. UNCHANGED <<view, dirs, pages, isError, attached, gone, missed>>
  BY DEF ConfirmDelete
<1>2. PICK f \in ShownFiles(pages) :
          /\ deleting' = f /\ rank' = [rank EXCEPT ![f] = 0]
          /\ fetch' = [fetch EXCEPT !.items = Drop(FileItem(RowOf(f)), @)]
          /\ steady' = Drop(FileItem(RowOf(f)), steady)
  BY DEF ConfirmDelete
<1>3. f \in Files /\ pages # <<>> /\ dirs' \subseteq Dirs /\ 0 \in 0..MaxRank
  BY <1>1, FetchFields, ShownIds, ConstantsAssumption DEF Inv, TypeInv
<1>4. /\ rank' \in [Files -> 0..MaxRank] /\ rank'[f] = 0
      /\ \A g \in Files : g # f => rank'[g] = rank[g]
      /\ Present \ {FileItem(RowOf(f))} \subseteq Present'
  BY <1>1, <1>2, <1>3, OthersStay DEF Inv
<1>5. \A g \in gone \cup {deleting'} : g # 0 => rank'[g] = 0
  BY <1>2, <1>3, <1>4 DEF Inv, TypeInv, GoneInv
<1> DEFINE item == FileItem(RowOf(f))
<1> HIDE DEF item
<1>6. /\ fetch' = [fetch EXCEPT !.items = Drop(item, @)] /\ steady' = Drop(item, steady)
      /\ Present \ {item} \subseteq Present'
  BY <1>2, <1>4 DEF item
<1> QED
  BY <1>1, <1>2, <1>3, <1>4, <1>5, <1>6, Dropped

LEMMA FileChangesInv == Inv /\ FileChanges => Inv'
<1> SUFFICES ASSUME Inv, FileChanges PROVE Inv'
  OBVIOUS
<1>1. UNCHANGED <<view, dirs, pages, isError, attached, deleting, gone, missed>>
  BY DEF FileChanges, userVars
<1>2. PICK f \in Files, r \in 0..MaxRank :
          /\ f \notin gone /\ f # deleting /\ rank' = [rank EXCEPT ![f] = r]
          /\ fetch' = [fetch EXCEPT !.items = Drop(FileItem(RowOf(f)), @)]
          /\ steady' = Drop(FileItem(RowOf(f)), steady)
  BY DEF FileChanges
<1>3. /\ rank' \in [Files -> 0..MaxRank]
      /\ \A g \in Files : g # f => rank'[g] = rank[g]
      /\ Present \ {FileItem(RowOf(f))} \subseteq Present'
  BY <1>1, <1>2, OthersStay DEF Inv
<1>4. /\ dirs' \subseteq Dirs /\ deleting' \in Files \cup {0}
      /\ \A g \in gone \cup {deleting'} : g # 0 => rank'[g] = 0
      /\ deleting' # 0 => pages # <<>>
  BY <1>1, <1>2, <1>3 DEF Inv, TypeInv, GoneInv
<1> DEFINE item == FileItem(RowOf(f))
<1> HIDE DEF item
<1>5. /\ fetch' = [fetch EXCEPT !.items = Drop(item, @)] /\ steady' = Drop(item, steady)
      /\ Present \ {item} \subseteq Present'
  BY <1>2, <1>3 DEF item
<1> QED
  BY <1>1, <1>3, <1>4, <1>5, Dropped

LEMMA DirectoryChangesInv == Inv /\ DirectoryChanges => Inv'
<1> SUFFICES ASSUME Inv, DirectoryChanges PROVE Inv'
  OBVIOUS
<1>1. UNCHANGED <<view, rank, pages, isError, attached, deleting, gone, missed>>
  BY DEF DirectoryChanges, userVars
<1>2. PICK d \in Dirs :
          /\ dirs' = IF d \in dirs THEN dirs \ {d} ELSE dirs \cup {d}
          /\ fetch' = [fetch EXCEPT !.items = Drop(DirItem(d), @)]
          /\ steady' = Drop(DirItem(d), steady)
  BY DEF DirectoryChanges
<1>3. Present \ {DirItem(d)} \subseteq Present'
  <2>1. Rows' = Rows
    BY <1>1 DEF Rows, RowOf
  <2>2. \A e \in ViewDirs : e # d => e \in ViewDirs'
    BY <1>1, <1>2 DEF ViewDirs
  <2> QED
    BY <2>1, <2>2 DEF Present
<1>4. /\ dirs' \subseteq Dirs /\ deleting' \in Files \cup {0} /\ rank' \in [Files -> 0..MaxRank]
      /\ \A g \in gone \cup {deleting'} : g # 0 => rank'[g] = 0
      /\ deleting' # 0 => pages # <<>>
  BY <1>1, <1>2 DEF Inv, TypeInv, GoneInv
<1> DEFINE item == DirItem(d)
<1> HIDE DEF item
<1>5. /\ fetch' = [fetch EXCEPT !.items = Drop(item, @)] /\ steady' = Drop(item, steady)
      /\ Present \ {item} \subseteq Present'
  BY <1>2, <1>3 DEF item
<1> QED
  BY <1>1, <1>4, <1>5, Dropped

-----------------------------------------------------------------------------
(* The theorems.                                                            *)

LEMMA NextInv == Inv /\ [Next]_vars => Inv'
<1>1. Inv /\ UNCHANGED vars => Inv'
  <2> SUFFICES ASSUME Inv, UNCHANGED vars PROVE Inv'
    OBVIOUS
  <2>1. UNCHANGED <<view, dirs, rank, pages, fetch, isError, attached, deleting, gone, steady,
                    missed>>
    BY DEF vars, serverVars, clientVars, userVars, history
  <2>2. Present' = Present
    BY <2>1 DEF Present, ViewDirs, Rows, RowOf
  <2>3. TypeInv' /\ WalkInv' /\ SteadyInv' /\ GoneInv'
    BY <2>1, <2>2 DEF Inv, TypeInv, WalkInv, SteadyInv, GoneInv
  <2> QED
    BY <2>3 DEF Inv
<1> QED
  BY <1>1, ReadDirectoriesInv, ReadFilesInv, PageArrivesInv, FetchFailsInv, ScrollInv,
     ReconnectInv, PollPatchesInv, ConfirmDeleteInv, DeleteDoneInv, UploadDoneInv, FileChangesInv,
     DirectoryChangesInv DEF Next

LEMMA AlwaysInv == Spec => []Inv
  BY InitInv, NextInv, PTL DEF Spec

\* The fetch under way is one the query makes, and no page is longer than
\* asked for, whatever the listing and the page size.
THEOREM ListTypes == Spec => []TypeOK
<1>1. Inv => TypeOK
  <2> SUFFICES ASSUME Inv PROVE TypeOK
    OBVIOUS
  <2>1. \A i \in DOMAIN pages : Len(pages[i].dirs) + Len(pages[i].files) <= PAGE_SIZE
    BY DEF Inv, WalkInv, Walk, Short
  <2>2. steady \subseteq Items
    BY Listing DEF Inv, SteadyInv
  <2>3. fetch.kind \in {"idle", "first", "refetch", "next"}
        /\ fetch.req \in {"none", "asked", "files", "answered"}
    BY FetchFields
  <2> QED
    BY <2>1, <2>2, <2>3 DEF Inv, TypeInv, TypeOK
<1> QED
  BY <1>1, AlwaysInv, PTL

\* The pages a scrolling list shows are one walk of the listing, directories
\* before files and each in order: listFiles and listDirectory begin a page
\* behind the last row of the one before, and the query never appends a page
\* to others than those it was asked for.
THEOREM ListIsOneWalk == Spec => []RowsAreOneWalk
<1>1. Inv => RowsAreOneWalk
  BY DEF Inv, WalkInv, Walk, RowsAreOneWalk
<1> QED
  BY <1>1, AlwaysInv, PTL

\* What stays in its place while the pages are fetched and has been passed by
\* the token is shown, for any page size and any number of directories and
\* files, the page that directories fill exactly included.
THEOREM ListSkipsNothing == Spec => []NothingSteadyIsSkipped
<1>1. Inv => NothingSteadyIsSkipped
  BY DEF Inv, WalkInv, Complete, NothingSteadyIsSkipped
<1> QED
  BY <1>1, AlwaysInv, PTL

\* A file deleted from the view has left it once the invalidated query is idle
\* again without an error, unless, since the pages were read, a scroll cancelled
\* a refetch or the status poller took away the error of one that failed.
THEOREM DeletedLeaves == Spec => []DeletedRowLeaves
<1>1. Inv => DeletedRowLeaves
  BY DEF Inv, GoneInv, DeletedRowLeaves
<1> QED
  BY <1>1, AlwaysInv, PTL

-----------------------------------------------------------------------------
(* The order of the photo wall: the rank of a photo is effective_taken_at,   *)
(* which the triggers recompute, and its headings are days.                 *)

CONSTANTS File, Day, MaxWrites
VARIABLES result, effective, tx, raced, writes

Dates == INSTANCE EffectiveDate

\* The part of the types that the argument needs.
DateShape ==
    /\ result \in [Dates!Indexer -> [File -> Day \cup {Dates!Null}]]
    /\ effective \in [File -> Day \cup {Dates!Epoch}]
    /\ tx \in [Dates!Indexer -> [file : File \cup {0}, date : Day \cup {Dates!Null},
                           saw : Day \cup {Dates!Null}, holds : BOOLEAN]]
    /\ \A i \in Dates!Indexer : tx[i] = Dates!NoTx \/ tx[i].file \in File

\* A transaction on a file that has not been raced for is alone on it, and
\* what its UPDATE saw of the other indexer is still so.
AloneOnFile ==
    \A i \in Dates!Indexer :
        tx[i].file \in File \ raced =>
            /\ tx[Dates!Other(i)].file # tx[i].file
            /\ tx[i].saw = result[Dates!Other(i)][tx[i].file]

DateInv == DateShape /\ AloneOnFile /\ Dates!StaleOnlyAfterOverlap

LEMMA OtherIndexer ==
    \A i, j \in Dates!Indexer : /\ Dates!Other(i) \in Dates!Indexer /\ Dates!Other(i) # i
                                /\ Dates!Other(Dates!Other(i)) = i
                                /\ j = i \/ j = Dates!Other(i)
  BY DEF Dates!Indexer, Dates!Other

LEMMA Init_DateInv == ASSUME 0 \notin File, Dates!Init PROVE DateInv
  BY OtherIndexer DEF Dates!Init, DateInv, DateShape, AloneOnFile, Dates!StaleOnlyAfterOverlap,
     Dates!NoTx, Dates!Coalesce, Dates!Null, Dates!Epoch, Dates!Indexer

LEMMA Upsert_DateInv ==
    ASSUME 0 \notin File, DateInv, NEW i \in Dates!Indexer, NEW f \in File,
           NEW date \in Day \cup {Dates!Null}, Dates!Upsert(i, f, date)
    PROVE  DateInv'
<1>1. DateShape'
  BY OtherIndexer DEF Dates!Upsert, DateInv, DateShape
<1>2. raced \subseteq raced' /\ UNCHANGED <<result, effective>>
  BY DEF Dates!Upsert
<1>3. /\ tx'[i].file = f /\ tx'[i].saw = result[Dates!Other(i)][f]
      /\ tx'[Dates!Other(i)] = tx[Dates!Other(i)]
  BY OtherIndexer DEF Dates!Upsert, DateInv, DateShape
<1>4. f \notin raced' => tx[Dates!Other(i)].file # f
  BY DEF Dates!Upsert
<1>5. AloneOnFile'
  <2> SUFFICES ASSUME NEW j \in Dates!Indexer, tx'[j].file \in File \ raced'
               PROVE  /\ tx'[Dates!Other(j)].file # tx'[j].file
                      /\ tx'[j].saw = result'[Dates!Other(j)][tx'[j].file]
    BY DEF AloneOnFile
  <2>1. CASE j = i
    BY <1>2, <1>3, <1>4, <2>1
  <2>2. CASE j = Dates!Other(i)
    <3>1. Dates!Other(j) = i /\ tx'[j] = tx[j] /\ tx[j].file \in File \ raced
      BY <1>2, <1>3, <2>2, OtherIndexer
    <3>2. tx[j].saw = result[Dates!Other(j)][tx[j].file]
      BY <3>1 DEF DateInv, AloneOnFile
    <3>3. tx[j].file # f
      BY <1>4, <2>2, <3>1
    <3> QED
      BY <1>2, <1>3, <3>1, <3>2, <3>3
  <2> QED
    BY <2>1, <2>2, OtherIndexer
<1>6. Dates!StaleOnlyAfterOverlap'
  BY <1>2 DEF DateInv, Dates!StaleOnlyAfterOverlap
<1> QED
  BY <1>1, <1>5, <1>6 DEF DateInv

LEMMA Update_DateInv ==
    ASSUME 0 \notin File, DateInv, NEW i \in Dates!Indexer, Dates!update_file_effective_taken_at(i)
    PROVE  DateInv'
<1>1. UNCHANGED <<result, effective, raced>>
  BY DEF Dates!update_file_effective_taken_at
<1>2. \A j \in Dates!Indexer : tx'[j].file = tx[j].file /\ tx'[j].saw = tx[j].saw
  BY DEF Dates!update_file_effective_taken_at, DateInv, DateShape
<1>3. DateShape'
  <2>1. tx' \in [Dates!Indexer -> [file : File \cup {0}, date : Day \cup {Dates!Null},
                             saw : Day \cup {Dates!Null}, holds : BOOLEAN]]
    <3> DEFINE Tx == [file : File \cup {0}, date : Day \cup {Dates!Null},
                      saw : Day \cup {Dates!Null}, holds : BOOLEAN]
               held == [tx[i] EXCEPT !.holds = TRUE]
    <3>1. tx \in [Dates!Indexer -> Tx] /\ tx' = [tx EXCEPT ![i] = held]
      BY DEF Dates!update_file_effective_taken_at, DateInv, DateShape
    <3>2. held \in Tx
      BY <3>1
    <3> HIDE DEF Tx, held
    <3>3. tx' \in [Dates!Indexer -> Tx]
      BY <3>1, <3>2
    <3> QED
      BY <3>3 DEF Tx
  <2>2. tx[i].file \in File
    BY DEF Dates!update_file_effective_taken_at, DateInv, DateShape
  <2>3. \A j \in Dates!Indexer : tx'[j] = Dates!NoTx \/ tx'[j].file \in File
    BY <2>2 DEF Dates!update_file_effective_taken_at, DateInv, DateShape
  <2> QED
    BY <1>1, <2>1, <2>3 DEF DateInv, DateShape
<1>4. AloneOnFile' /\ Dates!StaleOnlyAfterOverlap'
  BY <1>1, <1>2, OtherIndexer DEF DateInv, AloneOnFile, Dates!StaleOnlyAfterOverlap
<1> QED
  BY <1>3, <1>4 DEF DateInv

LEMMA Commit_DateInv ==
    ASSUME 0 \notin File, DateInv, NEW i \in Dates!Indexer, Dates!Commit(i)
    PROVE  DateInv'
<1> DEFINE g == tx[i].file
<1>1. g \in File /\ UNCHANGED raced
  BY DEF Dates!Commit, DateInv, DateShape, Dates!NoTx
<1>2. /\ result'[i][g] = tx[i].date /\ result'[Dates!Other(i)] = result[Dates!Other(i)]
      /\ \A f \in File \ {g} : result'[i][f] = result[i][f] /\ effective'[f] = effective[f]
      /\ effective'[g] = Dates!Value(i, tx[i].date, tx[i].saw)
      /\ tx'[i] = Dates!NoTx /\ tx'[Dates!Other(i)] = tx[Dates!Other(i)]
  BY <1>1, OtherIndexer DEF Dates!Commit, DateInv, DateShape
<1>3. DateShape'
  <2>1. effective' \in [File -> Day \cup {Dates!Epoch}]
    BY <1>1 DEF Dates!Commit, DateInv, DateShape, Dates!Value, Dates!Coalesce, Dates!Epoch
  <2>2. result' \in [Dates!Indexer -> [File -> Day \cup {Dates!Null}]]
    BY <1>1 DEF Dates!Commit, DateInv, DateShape
  <2>3. tx' \in [Dates!Indexer -> [file : File \cup {0}, date : Day \cup {Dates!Null},
                             saw : Day \cup {Dates!Null}, holds : BOOLEAN]]
    BY DEF Dates!Commit, DateInv, DateShape, Dates!NoTx
  <2>4. \A j \in Dates!Indexer : tx'[j] = Dates!NoTx \/ tx'[j].file \in File
    BY <1>2, OtherIndexer DEF DateInv, DateShape, Dates!NoTx
  <2> QED
    BY <2>1, <2>2, <2>3, <2>4 DEF DateShape
<1>4. AloneOnFile'
  <2> SUFFICES ASSUME NEW j \in Dates!Indexer, tx'[j].file \in File \ raced'
               PROVE  /\ tx'[Dates!Other(j)].file # tx'[j].file
                      /\ tx'[j].saw = result'[Dates!Other(j)][tx'[j].file]
    BY DEF AloneOnFile
  <2>1. j = Dates!Other(i) /\ Dates!Other(j) = i
    BY <1>2, OtherIndexer DEF Dates!NoTx
  <2>2. tx[j].file \in File \ raced /\ tx'[j] = tx[j]
    BY <1>1, <1>2, <2>1
  <2>3. tx[i].file # tx[j].file /\ tx[j].saw = result[i][tx[j].file]
    BY <2>1, <2>2 DEF DateInv, AloneOnFile
  <2> QED
    BY <1>2, <2>1, <2>2, <2>3 DEF Dates!NoTx
<1>5. Dates!StaleOnlyAfterOverlap'
  <2> SUFFICES ASSUME NEW f \in File, f \notin raced
               PROVE  effective'[f] = Dates!Coalesce(result'["exif"][f], result'["stat"][f])
    BY <1>1 DEF Dates!StaleOnlyAfterOverlap
  <2>1. CASE f # g
    <3>1. result'[i][f] = result[i][f] /\ result'[Dates!Other(i)][f] = result[Dates!Other(i)][f]
      BY <1>2, <2>1
    <3>2. result'["exif"][f] = result["exif"][f] /\ result'["stat"][f] = result["stat"][f]
      BY <3>1 DEF Dates!Indexer, Dates!Other
    <3> QED
      BY <1>2, <2>1, <3>2 DEF DateInv, Dates!StaleOnlyAfterOverlap
  <2>2. CASE f = g
    <3>1. tx[i].saw = result[Dates!Other(i)][f]
      BY <1>1, <2>2 DEF DateInv, AloneOnFile
    <3>2. effective'[f] = Dates!Value(i, result'[i][f], result'[Dates!Other(i)][f])
      BY <1>2, <2>2, <3>1
    <3> QED
      BY <3>2 DEF Dates!Value, Dates!Indexer, Dates!Other
  <2> QED
    BY <2>1, <2>2
<1> QED
  BY <1>3, <1>4, <1>5 DEF DateInv

LEMMA DateAlways == ASSUME 0 \notin File PROVE Dates!Spec => []DateInv
<1>1. Dates!Init => DateInv
  BY Init_DateInv
<1>2. DateInv /\ [Dates!Next]_(Dates!vars) => DateInv'
  <2>1. DateInv /\ UNCHANGED Dates!vars => DateInv'
    BY DEF DateInv, DateShape, AloneOnFile, Dates!StaleOnlyAfterOverlap, Dates!vars
  <2> QED
    BY <2>1, Upsert_DateInv, Update_DateInv, Commit_DateInv DEF Dates!Next
<1> QED
  BY <1>1, <1>2, PTL DEF Dates!Spec

\* effective_taken_at agrees with the two committed results of every file
\* whose completions by the stat and the exif indexer never overlapped.
THEOREM TriggersKeepInSync ==
    ASSUME 0 \notin File
    PROVE  Dates!Spec => []Dates!StaleOnlyAfterOverlap
<1>1. DateInv => Dates!StaleOnlyAfterOverlap
  BY DEF DateInv
<1> QED
  BY <1>1, DateAlways, PTL

-----------------------------------------------------------------------------
(* The headings of the photo wall.  Its order is one of those of Numbering. *)

NewestFirst(S) == {q \in S \X S : Dates!Newer(q[1], q[2])}

LEMMA EffectiveNumbers ==
    ASSUME Day \subseteq Nat, DateShape PROVE \A f \in File : effective[f] \in Nat
<1> TAKE f \in File
<1>1. effective[f] \in Day \cup {Dates!Epoch}
  BY DEF DateShape
<1>2. Day \cup {Dates!Epoch} \subseteq Nat
  BY DEF Dates!Epoch
<1> QED
  BY <1>1, <1>2

LEMMA WallInOrder ==
    ASSUME File \subseteq Nat \ {0}, IsFiniteSet(File), Day \subseteq Nat, DateShape
    PROVE  LET w == Dates!Wall
           IN  /\ w \in [1..Cardinality(Dates!Photos) -> Dates!Photos]
               /\ \A i, j \in DOMAIN w : i < j => Dates!Newer(w[i], w[j])
               /\ Cardinality(Dates!Photos) \in Nat
<1> DEFINE S == Dates!Photos
           R == NewestFirst(S)
           N == Cardinality(S)
<1>1. IsFiniteSet(S) /\ S \subseteq File
  BY FS_Subset DEF Dates!Photos
<1>2. \A f \in S : f \in Nat /\ effective[f] \in Nat
  BY <1>1, EffectiveNumbers
<1> DEFINE Good(w) == \A i, j \in DOMAIN w : i < j => Dates!Newer(w[i], w[j])
<1>3. Dates!Wall = CHOOSE w \in [1..N -> S] : Good(w)
  <2>1. Dates!Cardinality(S) = Cardinality(S)
    BY DEF Cardinality, Dates!Cardinality
  <2> QED
    BY <2>1, Zenon DEF Dates!Wall
<1> HIDE DEF S, Good
<1>4. \A x, y \in S : Precedes(R, x, y) <=> Dates!Newer(x, y)
  BY DEF Precedes, NewestFirst
<1>5. StrictOrder(R, S)
  <2>1. /\ \A x \in S : ~Dates!Newer(x, x)
        /\ \A x, y, z \in S : Dates!Newer(x, y) /\ Dates!Newer(y, z) => Dates!Newer(x, z)
        /\ \A x, y \in S : x = y \/ Dates!Newer(x, y) \/ Dates!Newer(y, x)
    BY <1>2 DEF Dates!Newer
  <2> HIDE DEF R
  <2> QED
    BY <1>4, <2>1 DEF StrictOrder
<1> HIDE DEF R
<1>6. /\ N \in Nat /\ Number(R, S) \in [S -> 1..N]
      /\ \A x, y \in S : Precedes(R, x, y) <=> Number(R, S)[x] < Number(R, S)[y]
      /\ \A i \in 1..N : \E x \in S : Number(R, S)[x] = i
  BY <1>1, <1>5, Numbering
<1> DEFINE s == [i \in 1..N |-> CHOOSE x \in S : Number(R, S)[x] = i]
<1>7. \A i \in 1..N : s[i] \in S /\ Number(R, S)[s[i]] = i
  <2> TAKE i \in 1..N
  <2>1. PICK x \in S : Number(R, S)[x] = i
    BY <1>6
  <2>2. s[i] = CHOOSE z \in S : Number(R, S)[z] = i
    BY Zenon
  <2> QED
    BY <2>1, <2>2, Zenon
<1>8. s \in [1..N -> S] /\ DOMAIN s = 1..N
  BY <1>7, Zenon
<1> HIDE DEF s, N
<1>9. \A i, j \in DOMAIN s : i < j => Dates!Newer(s[i], s[j])
  BY <1>4, <1>6, <1>7, <1>8
<1>10. Good(s)
  BY <1>9 DEF Good
<1>11. Dates!Wall \in [1..N -> S] /\ Good(Dates!Wall)
  BY <1>8, <1>3, <1>10, Zenon
<1> QED
  BY <1>6, <1>11 DEF Good, N, S

\* groupByDay starts a heading wherever the day changes from one photo to the
\* next.  Sorted by effective_taken_at, no day begins twice, for any photos and
\* dates, as long as the triggers kept the sort value of every file in step.
THEOREM OneHeadingForADay ==
    ASSUME File \subseteq Nat \ {0}, IsFiniteSet(File), Day \subseteq Nat
    PROVE  Dates!Spec => []Dates!OneHeadingPerDay
<1>1. ASSUME DateInv PROVE Dates!OneHeadingPerDay
  <2> DEFINE w == Dates!Wall
             N == Cardinality(Dates!Photos)
  <2> SUFFICES ASSUME raced = {}, NEW i \in Dates!Headings, NEW j \in Dates!Headings,
                      Dates!dayOf(w[i]) = Dates!dayOf(w[j]), i # j
               PROVE  FALSE
    BY DEF Dates!OneHeadingPerDay
  <2>1. /\ w \in [1..N -> Dates!Photos] /\ N \in Nat
        /\ \A a, b \in DOMAIN w : a < b => Dates!Newer(w[a], w[b])
    BY <1>1, WallInOrder DEF DateInv
  <2>2. \A f \in Dates!Photos : f \in File /\ effective[f] \in Nat
                                /\ Dates!dayOf(f) = effective[f]
    BY <1>1, EffectiveNumbers DEF DateInv, Dates!StaleOnlyAfterOverlap, Dates!Photos, Dates!dayOf
  <2>3. /\ i \in 1..N /\ (i = 1 \/ Dates!dayOf(w[i - 1]) # Dates!dayOf(w[i]))
        /\ j \in 1..N /\ (j = 1 \/ Dates!dayOf(w[j - 1]) # Dates!dayOf(w[j]))
    BY <2>1 DEF Dates!Headings
  <2> HIDE DEF w, N
  <2>4. \A a, b \in 1..N : a <= b => effective[w[a]] >= effective[w[b]]
    <3> TAKE a \in 1..N, b \in 1..N
    <3>1. w[a] \in Dates!Photos /\ w[b] \in Dates!Photos /\ DOMAIN w = 1..N
      BY <2>1
    <3>2. effective[w[a]] \in Nat /\ effective[w[b]] \in Nat
      BY <2>2, <3>1
    <3>3. a < b => Dates!Newer(w[a], w[b])
      BY <2>1, <3>1
    <3> QED
      BY <2>1, <3>2, <3>3 DEF Dates!Newer
  <2>5. ASSUME NEW a \in 1..N, NEW b \in 1..N, a < b,
               Dates!dayOf(w[a]) = Dates!dayOf(w[b])
        PROVE  b # 1 /\ Dates!dayOf(w[b - 1]) = Dates!dayOf(w[b])
    <3>1. b # 1 /\ b - 1 \in 1..N /\ a <= b - 1 /\ b - 1 <= b
      BY <2>1, <2>5
    <3>2. /\ effective[w[a]] >= effective[w[b - 1]] /\ effective[w[b - 1]] >= effective[w[b]]
      BY <2>4, <3>1
    <3>3. w[a] \in Dates!Photos /\ w[b] \in Dates!Photos /\ w[b - 1] \in Dates!Photos
      BY <2>1, <3>1
    <3> QED
      BY <2>2, <2>5, <3>1, <3>2, <3>3
  <2>6. i < j \/ j < i
    BY <2>1, <2>3
  <2> QED
    BY <2>3, <2>5, <2>6
<1>2. Dates!Spec => []DateInv
  BY DateAlways
<1> QED
  BY <1>1, <1>2, PTL
=============================================================================
