------------------------ MODULE DirectoryIndexProofs ------------------------
(***************************************************************************)
(* Proofs about DirectoryIndex, for any keys, clients and number of        *)
(* requests and faults: a file lacks a directory only after an inserting   *)
(* and a pruning transaction overlapped, a directory is without files only *)
(* after two pruning ones did or a purge deleted rows that had moved since *)
(* it listed them, and an undisturbed crawl repairs both.                  *)
(*                                                                         *)
(* The invariant says of a transaction what makes its commit exact.  Its   *)
(* prune has found, and goes on finding, every directory it deletes empty  *)
(* (nobody can have inserted a file meanwhile: that overlap is the race),  *)
(* and every directory it keeps holds a file it sees; its insert has the   *)
(* ancestors of its keys in the table, in its own rows or still to do; and *)
(* the rows of files it has written are locked.  Of an undisturbed crawl   *)
(* it says that the files it has stamped have their directories and that   *)
(* its sweep deletes all others.                                           *)
(***************************************************************************)
EXTENDS DirectoryIndex, TLAPS

Labels == {"idle", "listed", "emptied", "files", "prune", "pruning", "insert", "commit"}
Stampers == {"upload", "upsert"}
Deleters == {"delete", "purge", "sweep"}
ClientOps == {"upload", "delete", "move", "purge"}
Written == {"prune", "pruning", "insert", "commit"}
Pruned == {"pruning", "insert", "commit"}

Rows(t) == DOMAIN pend[t]

\* Values.
TableTypes ==
    /\ fkey \in [File -> Key \cup {NoKey}] /\ fresh \subseteq File
    /\ obj \subseteq Key /\ dirs \subseteq Dir

TxTypes ==
    /\ op \in [Tx -> {"none", "list"} \cup Pruners \cup Inserters] /\ pc \in [Tx -> Labels]
    /\ ids \in [Tx -> SUBSET File] /\ old \in [Tx -> SUBSET Key] /\ new \in [Tx -> SUBSET Key]
    /\ todo \in [Tx -> SUBSET Dir] /\ ins \in [Tx -> SUBSET Dir] /\ del \in [Tx -> SUBSET Dir]
    /\ pend = [t \in Tx |-> pend[t]]
    /\ \A t \in Tx : Rows(t) \subseteq File /\ \A f \in Rows(t) : pend[t][f] \in Key \cup {NoKey}

OtherTypes ==
    /\ late \subseteq Tx /\ cpc \in {"idle", "upsert", "listed", "sweep"}
    /\ quiet \in BOOLEAN /\ race \subseteq {"pruners", "mixed", "stale"}
    /\ ops \in 0 .. MaxOps /\ faults \in 0 .. MaxFaults

Types == TableTypes /\ TxTypes /\ OtherTypes

\* What a transaction of each kind has at each label.
Shape(t) ==
    /\ pc[t] = "idle" <=> op[t] = "none"
    /\ pc[t] \in {"listed", "emptied"} <=> op[t] = "list"
    /\ pc[t] = "idle" => ids[t] = {} /\ old[t] = {} /\ new[t] = {}
    /\ pc[t] \notin Written => Rows(t) = {}
    /\ pc[t] \notin {"pruning", "insert"} => todo[t] = {}
    /\ pc[t] \notin {"insert", "commit"} => ins[t] = {}
    /\ pc[t] \notin Pruned => del[t] = {}
    /\ op[t] \notin Inserters => ins[t] = {}
    /\ op[t] \notin Pruners => del[t] = {}
    /\ pc[t] \in {"prune", "pruning"} => op[t] \in Pruners
    /\ pc[t] = "insert" => op[t] \in Inserters
    /\ t \in Client => op[t] \in ClientOps \cup {"none", "list"}
    /\ op[t] = "move" => \E f \in File, k \in Key : ids[t] = {f} /\ new[t] = {k}

CrawlInv ==
    /\ cpc = "upsert" <=> op[Crawler] = "upsert"
    /\ cpc = "sweep" <=> op[Crawler] = "sweep"
    /\ op[Crawler] \in {"none", "upsert", "sweep"}

\* The rows of files a transaction has written.
WriteInv(t) ==
    /\ op[t] \in Stampers => \A f \in Rows(t) : fkey[f] \in {NoKey, pend[t][f]}
    /\ op[t] \in Inserters => \A f \in Rows(t) : pend[t][f] \in new[t]
    /\ op[t] \in Inserters /\ pc[t] \in Written => \A k \in new[t] : \E f \in Rows(t) : pend[t][f] = k
    /\ op[t] \in Deleters => \A f \in Rows(t) : pend[t][f] = NoKey
    /\ op[t] = "delete" => \A f \in Rows(t) : fkey[f] \in old[t]
    /\ op[t] \in {"purge", "move"} => Rows(t) \subseteq ids[t]

LockInv == \A t, u \in Tx : t # u => Rows(t) \cap Rows(u) = {}

\* Overlaps are noted.
RaceInv ==
    \A t, u \in Tx : t # u /\ op[t] \in Pruners =>
        /\ op[u] \in Pruners => "pruners" \in race
        /\ op[u] \in Inserters => "mixed" \in race

\* No inserting and pruning transactions overlap, or two pruning ones, and no
\* purge deletes rows that have moved.
Unmixed == quiet \/ "mixed" \notin race
Alone == quiet \/ race \cap {"pruners", "stale"} = {}

\* The key a move read is still that of its file, and so are the listed keys
\* of the rows a purge has deleted.
KeysKnown(t) ==
    /\ "pruners" \notin race /\ op[t] = "move" => \A f \in ids[t] : fkey[f] \in old[t]
    /\ "stale" \notin race /\ op[t] = "purge" => \A f \in Rows(t) : fkey[f] \in old[t]

\* The ancestors of the keys a transaction writes.
InsertInv(t) ==
    /\ ins[t] \subseteq AllAncestors(new[t])
    /\ pc[t] = "insert" => todo[t] \subseteq AllAncestors(new[t])
    /\ Unmixed /\ op[t] \in Inserters /\ pc[t] \in {"insert", "commit"} =>
          AllAncestors(new[t]) \subseteq todo[t] \cup (dirs \ del[t]) \cup ins[t]

\* What a prune deletes, so far and still.
Prunes(t) == del[t] \cup (IF pc[t] = "pruning" THEN todo[t] ELSE {})

\* It is empty, and what it does not delete is not.
PruneInv(t) ==
    /\ Unmixed => \A d \in Prunes(t) : Empty(t, d)
    /\ Alone /\ op[t] \in Pruners /\ pc[t] \in Pruned =>
          \A d \in dirs : d \in Prunes(t) \/ ~Empty(t, d)

TxInv(t) == Shape(t) /\ WriteInv(t) /\ KeysKnown(t) /\ InsertInv(t) /\ PruneInv(t)

\* A crawl that overlapped no request.
QuietInv ==
    quiet =>
        /\ \A t \in Client : pc[t] = "idle"
        /\ late = {}
        /\ cpc = "upsert" => fresh = {}
        /\ cpc \in {"listed", "sweep"} => \A f \in fresh : Ancestors(fkey[f]) \subseteq dirs
        /\ cpc = "sweep" /\ pc[Crawler] \in Written =>
              \A f \in File : fkey[f] = NoKey \/ f \in fresh \cup Rows(Crawler)

Inv ==
    /\ Types /\ CrawlInv /\ LockInv /\ RaceInv /\ QuietInv
    /\ \A t \in Tx : TxInv(t)
    /\ MissingOnlyAfterRace /\ OrphanOnlyAfterRace

-----------------------------------------------------------------------------
(* Paths.                                                                   *)

LEMMA NoKeyFacts ==
    /\ NoKey \notin Key /\ Ancestors(NoKey) = {} /\ \A d : ~Inside(NoKey, d)
  BY DirectoryAssumption DEF NoKey, Ancestors, Inside

LEMMA AncestorsOf ==
    ASSUME NEW K \in SUBSET Key
    PROVE  /\ \A d : d \in AllAncestors(K) <=> \E k \in K : d \in Ancestors(k)
           /\ AllAncestors(K) \subseteq Dir
  BY DEF AllAncestors, Dir

LEMMA AncestorIsOutside ==
    ASSUME NEW k \in Key, NEW d \in Ancestors(k) PROVE Inside(k, d) /\ d # Root
  BY DirectoryAssumption DEF Ancestors, Inside, NoKey, Root

LEMMA OutsideIsAncestor ==
    ASSUME NEW k \in Key, NEW d \in Dir, Inside(k, d) PROVE d \in Ancestors(k)
<1>1. PICK j \in Key : d \in Ancestors(j)
  BY DEF Dir, AllAncestors
<1>2. PICK i \in 1..Len(j)-1 : d = SubSeq(j, 1, i)
  BY <1>1 DEF Ancestors
<1>3. k \in Seq(STRING) /\ j \in Seq(STRING) /\ Len(k) \in Nat /\ Len(j) \in Nat
  BY DirectoryAssumption
<1>4. Len(d) = i
  BY <1>2, <1>3
<1>5. k # NoKey /\ ~Marker(k) /\ Len(k) > i /\ SubSeq(k, 1, i) = d
  BY <1>4 DEF Inside
<1>6. i \in 1 .. Len(k) - 1
  BY <1>3, <1>5
<1> QED
  BY <1>5, <1>6 DEF Ancestors

LEMMA Kinds ==
    /\ Inserters = Stampers \cup {"move"} /\ Pruners = Deleters \cup {"move"}
    /\ "none" \notin Pruners \cup Inserters /\ "list" \notin Pruners \cup Inserters
    /\ Stampers \cap Pruners = {}
    /\ Deleters \cap Inserters = {} /\ ClientOps \subseteq Pruners \cup Inserters
    /\ "sweep" \in Deleters /\ "upsert" \in Stampers
    /\ "sweep" \notin ClientOps /\ "upsert" \notin ClientOps
  BY DEF Inserters, Pruners, Stampers, Deleters, ClientOps

LEMMA Transactions ==
    Crawler \in Tx /\ Client \subseteq Tx /\ Crawler \notin Client
    /\ \A t \in Tx : t # Crawler => t \in Client
  BY DirectoryAssumption DEF Tx, Crawler

-----------------------------------------------------------------------------
(* Transactions that a step leaves alone.                                   *)

SameTx(u) ==
    /\ op'[u] = op[u] /\ pc'[u] = pc[u] /\ ids'[u] = ids[u] /\ old'[u] = old[u]
    /\ new'[u] = new[u] /\ pend'[u] = pend[u] /\ todo'[u] = todo[u]
    /\ ins'[u] = ins[u] /\ del'[u] = del[u]

IdleTx(u) ==
    /\ op'[u] = "none" /\ pc'[u] = "idle" /\ ids'[u] = {} /\ old'[u] = {} /\ new'[u] = {}
    /\ DOMAIN pend'[u] = {} /\ todo'[u] = {} /\ ins'[u] = {} /\ del'[u] = {}

LEMMA IdleInv == ASSUME NEW u \in Tx, IdleTx(u) PROVE TxInv(u)'
<1>1. Shape(u)'
  BY Kinds DEF IdleTx, Shape, Rows, Pruned
<1>2. WriteInv(u)' /\ KeysKnown(u)'
  BY Kinds DEF IdleTx, WriteInv, KeysKnown, Rows
<1>3. InsertInv(u)'
  BY Kinds DEF IdleTx, InsertInv
<1>4. PruneInv(u)'
  BY Kinds DEF IdleTx, PruneInv, Prunes
<1> QED
  BY <1>1, <1>2, <1>3, <1>4 DEF TxInv

LEMMA IdleStays ==
    ASSUME Inv, NEW u \in Tx, pc[u] = "idle", SameTx(u) PROVE IdleTx(u)
  BY Kinds DEF Inv, TxInv, Shape, SameTx, IdleTx, Rows, Pruned, Written

LEMMA TxKept ==
    ASSUME Inv, NEW u \in Tx, SameTx(u), UNCHANGED <<fkey, dirs>>, race \subseteq race',
           quiet' => quiet \/ pc[u] = "idle"
    PROVE  TxInv(u)'
<1>1. CASE pc[u] = "idle"
  BY <1>1, IdleStays, IdleInv
<1>2. CASE pc[u] # "idle"
  <2>0. TxInv(u) /\ (quiet' => quiet)
    BY <1>2 DEF Inv
  <2>1. Shape(u)'
    BY <2>0 DEF TxInv, Shape, SameTx, Rows
  <2>2. WriteInv(u)'
    BY <2>0 DEF TxInv, WriteInv, SameTx, Rows
  <2>3. KeysKnown(u)'
    BY <2>0 DEF TxInv, KeysKnown, SameTx, Rows
  <2>4. InsertInv(u)'
    BY <2>0 DEF TxInv, InsertInv, SameTx, Unmixed
  <2>5. PruneInv(u)'
    <3>1. Prunes(u)' = Prunes(u)
      BY DEF Prunes, SameTx
    <3>2. \A d : Empty(u, d)' <=> Empty(u, d)
      BY DEF Empty, Sees, SameTx
    <3> QED
      BY <2>0, <3>1, <3>2 DEF TxInv, PruneInv, SameTx, Unmixed, Alone
  <2> QED
    BY <2>1, <2>2, <2>3, <2>4, <2>5 DEF TxInv
<1> QED
  BY <1>1, <1>2

\* The tables and the races stay.
LEMMA TablesKept ==
    ASSUME Inv, UNCHANGED <<fkey, dirs>>, race \subseteq race'
    PROVE  MissingOnlyAfterRace' /\ OrphanOnlyAfterRace'
  BY DEF Inv, MissingOnlyAfterRace, OrphanOnlyAfterRace

-----------------------------------------------------------------------------
(* The initial state.                                                       *)

LEMMA InitInv == Init => Inv
<1> SUFFICES ASSUME Init PROVE Inv
  OBVIOUS
<1>1. TableTypes
  <2>1. fkey \in [File -> Key \cup {NoKey}]
    BY DirectoryAssumption DEF Init
  <2>2. dirs \subseteq Dir
    BY DirectoryAssumption, AncestorsOf DEF Init
  <2> QED
    BY <2>1, <2>2, DirectoryAssumption DEF Init, TableTypes
<1>2. \A t \in Tx : /\ op[t] = "none" /\ pc[t] = "idle" /\ ids[t] = {} /\ old[t] = {} /\ new[t] = {}
                    /\ Rows(t) = {} /\ todo[t] = {} /\ ins[t] = {} /\ del[t] = {}
  BY DEF Init, Rows
<1>3. TxTypes
  BY <1>2 DEF Init, TxTypes, Labels
<1>4. OtherTypes
  <2>1. late = {} /\ cpc = "idle" /\ race = {} /\ quiet = FALSE
    BY DEF Init
  <2>2. ops \in 0 .. MaxOps /\ faults \in 0 .. MaxFaults
    BY DirectoryAssumption DEF Init
  <2> QED
    BY <2>1, <2>2 DEF OtherTypes
<1>5. CrawlInv /\ LockInv /\ RaceInv /\ QuietInv
  BY <1>2, Kinds, Transactions DEF Init, CrawlInv, LockInv, RaceInv, QuietInv
<1>6. ASSUME NEW t \in Tx PROVE TxInv(t)
  <2>1. Shape(t)
    BY <1>2, Kinds DEF Shape, Pruned
  <2>2. WriteInv(t) /\ KeysKnown(t)
    BY <1>2, Kinds DEF WriteInv, KeysKnown
  <2>3. InsertInv(t)
    BY <1>2, Kinds DEF InsertInv
  <2>4. PruneInv(t)
    BY <1>2, Kinds DEF PruneInv, Prunes
  <2> QED
    BY <2>1, <2>2, <2>3, <2>4 DEF TxInv
<1>7. InitKeys \in SUBSET Key /\ dirs = AllAncestors(InitKeys)
  BY DirectoryAssumption DEF Init
<1>8. MissingOnlyAfterRace
  <2> SUFFICES ASSUME NEW f \in File PROVE Ancestors(fkey[f]) \subseteq dirs
    BY DEF MissingOnlyAfterRace
  <2>1. fkey[f] \in InitKeys \cup {NoKey}
    BY DEF Init
  <2> QED
    BY <1>7, <2>1, AncestorsOf, NoKeyFacts
<1>9. OrphanOnlyAfterRace
  <2> SUFFICES ASSUME NEW d \in dirs PROVE \E f \in File : Inside(fkey[f], d)
    BY DEF OrphanOnlyAfterRace
  <2>1. PICK k \in InitKeys : d \in Ancestors(k)
    BY <1>7, AncestorsOf
  <2>2. PICK f \in File : fkey[f] = k
    BY DEF Init
  <2> QED
    BY <1>7, <2>1, <2>2, AncestorIsOutside
<1> QED
  BY <1>1, <1>3, <1>4, <1>5, <1>6, <1>8, <1>9 DEF Inv, Types

-----------------------------------------------------------------------------
(* Transactions begin.                                                      *)

LEMMA BeginFields ==
    ASSUME Inv, NEW t \in Tx, NEW o, NEW l, NEW F, NEW K, NEW N, Enter(t, o, l, F, K, N),
           pc[t] \in {"idle", "listed", "emptied"}
    PROVE  /\ \A u \in Tx : u # t => SameTx(u)
           /\ op'[t] = o /\ pc'[t] = l /\ ids'[t] = F /\ old'[t] = K /\ new'[t] = N
           /\ DOMAIN pend'[t] = {} /\ todo'[t] = {} /\ ins'[t] = {} /\ del'[t] = {}
           /\ UNCHANGED <<fkey, dirs, pend, todo, ins, del, faults>>
<1>1. TxTypes /\ TxInv(t)
  BY DEF Inv, Types
<1>2. UNCHANGED <<fkey, dirs, pend, todo, ins, del, faults>>
  BY DEF Enter
<1>3. DOMAIN pend[t] = {} /\ todo[t] = {} /\ ins[t] = {} /\ del[t] = {}
  BY <1>1, <1>2 DEF TxInv, Shape, Rows, Pruned, Written
<1>4. /\ op'[t] = o /\ pc'[t] = l /\ ids'[t] = F /\ old'[t] = K /\ new'[t] = N
      /\ \A u \in Tx : u # t => /\ op'[u] = op[u] /\ pc'[u] = pc[u] /\ ids'[u] = ids[u]
                                /\ old'[u] = old[u] /\ new'[u] = new[u]
  BY <1>1 DEF Enter, TxTypes
<1> QED
  BY <1>2, <1>3, <1>4 DEF SameTx

LEMMA BeginRaces ==
    ASSUME Inv, NEW t \in Tx, NEW o, NEW l, NEW F, NEW K, NEW N,
           Enter(t, o, l, F, K, N), pc[t] \in {"idle", "listed", "emptied"}
    PROVE  RaceInv' /\ race \subseteq race' /\ race' \subseteq {"pruners", "mixed", "stale"}
<1>1. Overlap(t, o)
  BY DEF Enter
<1>2. race \subseteq {"pruners", "mixed", "stale"} /\ RaceInv
  BY DEF Inv, Types, OtherTypes
<1>3. race \subseteq race' /\ race' \subseteq {"pruners", "mixed", "stale"}
  BY <1>1, <1>2 DEF Overlap
<1>4. \A u \in Tx : u # t => op'[u] = op[u]
  BY BeginFields DEF SameTx
<1>5. op'[t] = o
  BY BeginFields
<1>6. \A u \in Tx : op[u] \in Pruners \cup Inserters => u \in Busy
  BY Kinds DEF Inv, TxInv, Shape, Busy
<1>7. \A u \in Tx : u # t =>
         /\ o \in Pruners /\ op[u] \in Pruners => "pruners" \in race'
         /\ o \in Pruners /\ op[u] \in Inserters => "mixed" \in race'
         /\ o \in Inserters /\ op[u] \in Pruners => "mixed" \in race'
  BY <1>1, <1>6 DEF Overlap
<1>8. RaceInv'
  BY <1>2, <1>3, <1>4, <1>5, <1>7 DEF RaceInv
<1> QED
  BY <1>3, <1>8

LEMMA BeginInv ==
    ASSUME Inv, NEW t \in Tx, NEW o \in {"list"} \cup Pruners \cup Inserters,
           NEW l \in {"listed", "emptied", "files"}, l # "files" <=> o = "list",
           NEW F \in SUBSET File, NEW K \in SUBSET Key, NEW N \in SUBSET Key,
           Enter(t, o, l, F, K, N), pc[t] \in {"idle", "listed", "emptied"},
           t \in Client => o \in ClientOps \cup {"list"},
           o = "move" => \E f \in File, k \in Key : F = {f} /\ N = {k},
           o = "move" => \A f \in F : fkey[f] \in K,
           obj' \subseteq Key, fresh' \subseteq File, late' \subseteq Tx,
           cpc' \in {"idle", "upsert", "listed", "sweep"}, quiet' \in BOOLEAN, ops' \in 0 .. MaxOps,
           CrawlInv', QuietInv', quiet' => quiet \/ Busy = {}
    PROVE  Inv'
<1>1. /\ \A u \in Tx : u # t => SameTx(u)
      /\ op'[t] = o /\ pc'[t] = l /\ ids'[t] = F /\ old'[t] = K /\ new'[t] = N
      /\ DOMAIN pend'[t] = {} /\ todo'[t] = {} /\ ins'[t] = {} /\ del'[t] = {}
      /\ UNCHANGED <<fkey, dirs, pend, todo, ins, del, faults>>
  BY BeginFields
<1>2. RaceInv' /\ race \subseteq race' /\ race' \subseteq {"pruners", "mixed", "stale"}
  BY BeginRaces
<1>3. TableTypes'
  BY <1>1 DEF Inv, Types, TableTypes
<1>4. TxTypes'
  <2>1. TxTypes
    BY DEF Inv, Types
  <2>2. /\ op' = [op EXCEPT ![t] = o] /\ pc' = [pc EXCEPT ![t] = l]
        /\ ids' = [ids EXCEPT ![t] = F] /\ old' = [old EXCEPT ![t] = K]
        /\ new' = [new EXCEPT ![t] = N]
    BY DEF Enter
  <2> QED
    BY <1>1, <2>1, <2>2 DEF TxTypes, Labels, Rows
<1>5. OtherTypes'
  BY <1>1, <1>2 DEF Inv, Types, OtherTypes
<1>6. LockInv'
  BY <1>1 DEF Inv, LockInv, Rows
<1>7. TxInv(t)'
  <2>1. Shape(t)'
    BY <1>1, Kinds DEF Shape, Rows, Pruned, Written
  <2>2. WriteInv(t)' /\ KeysKnown(t)'
    BY <1>1, Kinds DEF WriteInv, KeysKnown, Rows, Written
  <2>3. InsertInv(t)'
    BY <1>1 DEF InsertInv
  <2>4. PruneInv(t)'
    BY <1>1 DEF PruneInv, Prunes, Pruned
  <2> QED
    BY <2>1, <2>2, <2>3, <2>4 DEF TxInv
<1>8. ASSUME NEW u \in Tx, u # t PROVE TxInv(u)'
  <2>1. quiet' => quiet \/ pc[u] = "idle"
    BY DEF Busy
  <2> QED
    BY <1>1, <1>2, <1>8, <2>1, TxKept
<1>9. MissingOnlyAfterRace' /\ OrphanOnlyAfterRace'
  BY <1>1, <1>2, TablesKept
<1> QED
  BY <1>2, <1>3, <1>4, <1>5, <1>6, <1>7, <1>8, <1>9 DEF Inv, Types

\* A client's request: the crawl is no longer undisturbed.
LEMMA RequestInv ==
    ASSUME Inv, NEW t \in Client, NEW q, NEW o \in ClientOps \cup {"list"},
           NEW l \in {"listed", "files"}, l # "files" <=> o = "list",
           NEW F \in SUBSET File, NEW K \in SUBSET Key, NEW N \in SUBSET Key,
           Request(t, q), Enter(t, o, l, F, K, N), obj' \subseteq Key,
           o = "move" => \E f \in File, k \in Key : F = {f} /\ N = {k},
           o = "move" => \A f \in F : fkey[f] \in K
    PROVE  Inv'
<1>1. pc[t] = "idle" /\ quiet' = FALSE /\ UNCHANGED <<fresh, late, cpc>> /\ ops < MaxOps /\ ops' = ops + 1
  BY DEF Request, crawl
<1>2. t \in Tx /\ t # Crawler /\ Crawler \in Tx
  BY Transactions
<1>3. fresh' \subseteq File /\ late' \subseteq Tx /\ cpc' \in {"idle", "upsert", "listed", "sweep"}
  BY <1>1 DEF Inv, Types, TableTypes, OtherTypes
<1>4. ops' \in 0 .. MaxOps
  BY <1>1, DirectoryAssumption DEF Inv, Types, OtherTypes
<1>5. CrawlInv'
  <2>1. op'[Crawler] = op[Crawler]
    BY <1>1, <1>2, BeginFields DEF SameTx
  <2> QED
    BY <1>1, <2>1 DEF Inv, CrawlInv
<1>6. QuietInv' /\ quiet' \in BOOLEAN /\ ~quiet'
  BY <1>1 DEF QuietInv
<1>7. o \in {"list"} \cup Pruners \cup Inserters
  BY Kinds
<1> QED
  BY <1>1, <1>2, <1>3, <1>4, <1>5, <1>6, <1>7, BeginInv

LEMMA FileKeys ==
    ASSUME Inv, NEW f \in File PROVE fkey[f] \in Key \cup {NoKey} /\ obj \subseteq Key
  BY DEF Inv, Types, TableTypes

LEMMA BeginUploadInv ==
    ASSUME Inv, NEW t \in Client, NEW k \in Key, BeginUpload(t, k) PROVE Inv'
<1>1. obj' \subseteq Key
  BY DEF BeginUpload, Inv, Types, TableTypes
<1>2. Request(t, "upload") /\ Enter(t, "upload", "files", {}, {}, {k})
  BY DEF BeginUpload, Begin
<1> QED
  BY <1>1, <1>2, Kinds, RequestInv DEF ClientOps

LEMMA BeginDeleteInv ==
    ASSUME Inv, NEW t \in Client, NEW f \in File, BeginDelete(t, f) PROVE Inv'
<1>1. obj' \subseteq Key
  BY DEF BeginDelete, Inv, Types, TableTypes
<1>2. Request(t, "delete") /\ Enter(t, "delete", "files", {f}, {}, {})
  BY DEF BeginDelete, Begin
<1> QED
  BY <1>1, <1>2, Kinds, RequestInv DEF ClientOps

LEMMA BeginMoveInv ==
    ASSUME Inv, NEW t \in Client, NEW f \in File, NEW k \in Key, BeginMove(t, f, k) PROVE Inv'
<1>1. obj' \subseteq Key /\ fkey[f] \in Key
  BY DEF BeginMove, Inv, Types, TableTypes
<1>2. Request(t, "move") /\ Enter(t, "move", "files", {f}, {fkey[f]}, {k})
  BY DEF BeginMove, Begin
<1> QED
  BY <1>1, <1>2, Kinds, RequestInv DEF ClientOps

LEMMA ListFilesForDeleteInv ==
    ASSUME Inv, NEW t \in Client, NEW d \in Dir, ListFilesForDelete(t, d) PROVE Inv'
<1> DEFINE F == {f \in File : fkey[f] # NoKey /\ Len(fkey[f]) > Len(d)
                               /\ SubSeq(fkey[f], 1, Len(d)) = d}
           K == {fkey[f] : f \in F}
<1>1. obj' \subseteq Key
  BY DEF ListFilesForDelete, Inv, Types, TableTypes
<1>2. Request(t, "purge") /\ Enter(t, "list", "listed", F, K, {})
  BY DEF ListFilesForDelete
<1>3. F \in SUBSET File /\ K \in SUBSET Key
  BY FileKeys
<1> HIDE DEF F, K
<1> QED
  BY <1>1, <1>2, <1>3, RequestInv

\* The steps between the listing and the transaction.
LEMMA PurgeStepsInv ==
    ASSUME Inv, NEW t \in Tx, DeleteMany(t) \/ BeginPurge(t) PROVE Inv'
<1>1. PICK o \in {"list", "purge"}, l \in {"emptied", "files"} :
         Enter(t, o, l, ids[t], old[t], {}) /\ (l # "files" <=> o = "list")
  <2>1. CASE DeleteMany(t)
    BY <2>1 DEF DeleteMany
  <2>2. CASE BeginPurge(t)
    BY <2>2 DEF BeginPurge, Begin
  <2> QED
    BY <2>1, <2>2
<1>2. /\ pc[t] \in {"listed", "emptied"} /\ UNCHANGED <<fresh, late, cpc, quiet, ops>>
      /\ obj' \subseteq Key
  BY DEF DeleteMany, BeginPurge, crawl, Inv, Types, TableTypes
<1>3. /\ op[t] = "list" /\ ids[t] \in SUBSET File /\ old[t] \in SUBSET Key
      /\ fresh' \subseteq File /\ late' \subseteq Tx
      /\ cpc' \in {"idle", "upsert", "listed", "sweep"} /\ quiet' \in BOOLEAN /\ ops' \in 0 .. MaxOps
  BY <1>2 DEF Inv, TxInv, Shape, Types, TableTypes, TxTypes, OtherTypes
<1>4. t # Crawler /\ t \in Client /\ ~quiet
  <2>1. t # Crawler
    BY <1>3 DEF Inv, CrawlInv
  <2> QED
    BY <1>2, <2>1, Transactions DEF Inv, QuietInv
<1>5. CrawlInv'
  <2>1. op'[Crawler] = op[Crawler]
    BY <1>1, <1>2, <1>4, Transactions, BeginFields DEF SameTx
  <2> QED
    BY <1>2, <2>1 DEF Inv, CrawlInv
<1>6. QuietInv' /\ ~quiet'
  BY <1>2, <1>4 DEF QuietInv
<1>7. o \in {"list"} \cup Pruners \cup Inserters /\ o \in ClientOps \cup {"list"} /\ o # "move"
  BY DEF Pruners, ClientOps
<1> QED
  BY <1>1, <1>2, <1>3, <1>5, <1>6, <1>7, BeginInv

\* The bucket is no part of the invariant.
LEMMA BucketInv ==
    ASSUME Inv, obj' \subseteq Key, ops' \in 0 .. MaxOps,
           UNCHANGED <<fkey, fresh, dirs, tx, crawl, hist, faults>>
    PROVE  Inv'
<1>1. /\ UNCHANGED <<op, pc, ids, old, new, pend, todo, ins, del>>
      /\ UNCHANGED <<late, cpc, quiet, race>>
  BY DEF tx, crawl, hist
<1>2. ASSUME NEW u \in Tx PROVE TxInv(u)'
  BY <1>1, TxKept DEF SameTx
<1>3. MissingOnlyAfterRace' /\ OrphanOnlyAfterRace'
  BY <1>1, TablesKept
<1>4. Types'
  <2>1. TableTypes'
    BY DEF Inv, Types, TableTypes
  <2>2. TxTypes'
    BY <1>1 DEF Inv, Types, TxTypes, Rows
  <2>3. OtherTypes'
    BY <1>1 DEF Inv, Types, OtherTypes
  <2> QED
    BY <2>1, <2>2, <2>3 DEF Types
<1>5. CrawlInv' /\ LockInv' /\ RaceInv' /\ QuietInv'
  BY <1>1 DEF Inv, CrawlInv, LockInv, RaceInv, QuietInv, Rows
<1> QED
  BY <1>2, <1>3, <1>4, <1>5 DEF Inv

LEMMA BucketChangesInv ==
    ASSUME Inv, NEW k \in Key, PutObject(k) \/ RemoveObject(k) PROVE Inv'
<1>1. obj' \subseteq Key /\ UNCHANGED <<fkey, fresh, dirs, tx, crawl, hist, faults>>
  BY DEF PutObject, RemoveObject, Inv, Types, TableTypes
<1>2. ops' = ops + 1 /\ ops < MaxOps
  BY DEF PutObject, RemoveObject
<1>3. ops' \in 0 .. MaxOps
  BY <1>2, DirectoryAssumption DEF Inv, Types, OtherTypes
<1> QED
  BY <1>1, <1>3, BucketInv

LEMMA CrawlStartInv == ASSUME Inv, CrawlStart PROVE Inv'
<1>1. /\ cpc = "idle" /\ pc[Crawler] = "idle" /\ fresh' = {} /\ late' = Busy /\ quiet' = (Busy = {}) /\ cpc' = "upsert"
      /\ Enter(Crawler, "upsert", "files", {}, {}, obj) /\ UNCHANGED <<obj, ops>>
  BY DEF CrawlStart, Begin
<1>2. Crawler \in Tx /\ Crawler \notin Client /\ obj \in SUBSET Key /\ Busy \subseteq Tx
  BY Transactions DEF Inv, Types, TableTypes, Busy
<1>3. /\ \A u \in Tx : u # Crawler => SameTx(u)
      /\ op'[Crawler] = "upsert"
  BY <1>1, <1>2, BeginFields
<1>4. CrawlInv'
  BY <1>1, <1>3 DEF CrawlInv
<1>5. QuietInv'
  <2>1. ASSUME quiet' PROVE (\A t \in Client : pc'[t] = "idle") /\ late' = {}
    BY <1>1, <1>2, <1>3, <2>1, Transactions DEF SameTx, Busy
  <2> QED
    BY <1>1, <2>1 DEF QuietInv
<1>6. ops' \in 0 .. MaxOps
  BY <1>1 DEF Inv, Types, OtherTypes
<1>7. quiet' \in BOOLEAN /\ (quiet' => Busy = {})
  BY <1>1
<1>8. obj' \subseteq Key /\ fresh' \subseteq File /\ late' \subseteq Tx
  BY <1>1, <1>2
<1> QED
  BY <1>1, <1>2, <1>4, <1>5, <1>6, <1>7, <1>8, Kinds, BeginInv

LEMMA CrawlSweepInv == ASSUME Inv, CrawlSweep PROVE Inv'
<1>1. /\ cpc = "listed" /\ pc[Crawler] = "idle" /\ cpc' = "sweep"
      /\ Enter(Crawler, "sweep", "files", {}, {}, {})
      /\ UNCHANGED <<obj, fresh, late, quiet, ops>>
  BY DEF CrawlSweep, Begin
<1>2. Crawler \in Tx /\ Crawler \notin Client
  BY Transactions
<1>3. /\ \A u \in Tx : u # Crawler => SameTx(u)
      /\ op'[Crawler] = "sweep" /\ pc'[Crawler] = "files" /\ UNCHANGED <<fkey, dirs>>
  BY <1>1, <1>2, BeginFields
<1>4. CrawlInv'
  BY <1>1, <1>3 DEF CrawlInv
<1>5. QuietInv'
  <2>1. ASSUME quiet' PROVE \A t \in Client : pc'[t] = "idle"
    BY <1>1, <1>2, <1>3, <2>1, Transactions DEF SameTx, Inv, QuietInv
  <2> QED
    BY <1>1, <1>3, <2>1 DEF Inv, QuietInv, Written
<1>6. /\ ops' \in 0 .. MaxOps /\ quiet' \in BOOLEAN /\ (quiet' => quiet)
      /\ obj' \subseteq Key /\ fresh' \subseteq File /\ late' \subseteq Tx
  BY <1>1 DEF Inv, Types, TableTypes, OtherTypes
<1> QED
  BY <1>1, <1>2, <1>4, <1>5, <1>6, Kinds, BeginInv

-----------------------------------------------------------------------------
(* Statements.                                                              *)

LEMMA StmtInv ==
    ASSUME Inv, NEW t \in Tx, pc[t] # "idle",
           UNCHANGED <<tables, op, ids, new, crawl, quiet, ops, faults>>,
           race \subseteq race', race' \subseteq race \cup {"stale"},
           \A u \in Tx : u # t => SameTx(u), TxTypes', TxInv(t)',
           \A u \in Tx : u # t => DOMAIN pend'[t] \cap Rows(u) = {},
           op[t] = "sweep" /\ pc'[t] \in Written /\ quiet =>
               \A f \in File : fkey[f] = NoKey \/ f \in fresh \cup DOMAIN pend'[t]
    PROVE  Inv'
<1>1. UNCHANGED <<obj, fkey, fresh, dirs, late, cpc, quiet>>
  BY DEF tables, crawl
<1>2. Types'
  <2>1. TableTypes'
    BY <1>1 DEF Inv, Types, TableTypes
  <2>2. OtherTypes'
    BY <1>1 DEF Inv, Types, OtherTypes
  <2> QED
    BY <2>1, <2>2 DEF Types
<1>3. CrawlInv' /\ RaceInv'
  BY <1>1 DEF Inv, CrawlInv, RaceInv
<1>4. LockInv'
  BY DEF Inv, LockInv, SameTx, Rows
<1>5. QuietInv'
  <2> SUFFICES ASSUME quiet PROVE QuietInv'
    BY <1>1 DEF QuietInv
  <2>1. /\ \A u \in Client : pc[u] = "idle"
        /\ late = {} /\ (cpc = "upsert" => fresh = {})
        /\ cpc \in {"listed", "sweep"} => \A f \in fresh : Ancestors(fkey[f]) \subseteq dirs
    BY DEF Inv, QuietInv
  <2>2. t = Crawler /\ \A u \in Client : u # t /\ u \in Tx
    BY <2>1, Transactions
  <2>3. \A u \in Client : pc'[u] = "idle"
    BY <2>1, <2>2 DEF SameTx
  <2>4. cpc = "sweep" /\ pc'[Crawler] \in Written =>
           \A f \in File : fkey[f] = NoKey \/ f \in fresh \cup DOMAIN pend'[Crawler]
    BY <2>2 DEF Inv, CrawlInv
  <2> QED
    BY <1>1, <2>1, <2>3, <2>4 DEF QuietInv, Rows
<1>6. ASSUME NEW u \in Tx PROVE TxInv(u)'
  BY <1>1, TxKept
<1>7. MissingOnlyAfterRace' /\ OrphanOnlyAfterRace'
  BY <1>1, TablesKept
<1> QED
  BY <1>2, <1>3, <1>4, <1>5, <1>6, <1>7 DEF Inv

LEMMA AtFiles ==
    ASSUME Inv, NEW t \in Tx, pc[t] = "files"
    PROVE  /\ TxTypes /\ Shape(t) /\ op[t] \in Pruners \cup Inserters
           /\ Rows(t) = {} /\ todo[t] = {} /\ ins[t] = {} /\ del[t] = {}
           /\ ids[t] \subseteq File /\ new[t] \in SUBSET Key /\ old[t] \subseteq Key
  BY Kinds DEF Inv, Types, TxTypes, TxInv, Shape, Pruned, Written

LEMMA TargetRows ==
    ASSUME Inv, NEW t \in Tx, pc[t] = "files", \A u \in Tx : ~FilesWaitFor(t, u)
    PROVE  /\ Targets(t) \subseteq File /\ \A f \in Targets(t) : fkey[f] \in Key
           /\ \A u \in Tx : u # t => Targets(t) \cap Rows(u) = {}
           /\ op[t] # "sweep" => Targets(t) \subseteq ids[t]
           /\ op[t] = "sweep" => Targets(t) = {f \in File : fkey[f] # NoKey /\ f \notin fresh}
<1>1. ids[t] \subseteq File
  BY AtFiles
<1>2. /\ op[t] # "sweep" => Targets(t) = {f \in ids[t] : fkey[f] # NoKey}
      /\ op[t] = "sweep" => Targets(t) = {f \in File : fkey[f] # NoKey /\ f \notin fresh}
  BY DEF Targets
<1>3. \A f \in Targets(t) : f \in File /\ fkey[f] # NoKey
  BY <1>1, <1>2
<1>4. \A u \in Tx : u # t => Targets(t) \cap Rows(u) = {}
  BY DEF FilesWaitFor, HoldsRow, Rows
<1> QED
  BY <1>2, <1>3, <1>4, FileKeys

\* The rows an upsert writes, with the ids g for the keys that have no row.
Missing(t) == new[t] \ Keys
Upserted(t, g) ==
    [f \in {h \in File : fkey[h] \in new[t]} \cup {g[k] : k \in Missing(t)} |->
        IF fkey[f] \in new[t] THEN fkey[f] ELSE CHOOSE k \in Missing(t) : g[k] = f]

LEMMA UpsertRows ==
    ASSUME Inv, NEW t \in Tx, pc[t] = "files", \A u \in Tx : ~FilesWaitFor(t, u),
           NEW g \in [Missing(t) -> FreeIds],
           \A j, k \in Missing(t) : j # k => g[j] # g[k],
           NEW P, P = Upserted(t, g)
    PROVE  /\ DOMAIN P \subseteq File
           /\ \A f \in DOMAIN P : P[f] \in new[t] /\ fkey[f] \in {NoKey, P[f]}
           /\ \A k \in new[t] : \E f \in DOMAIN P : P[f] = k
           /\ \A u \in Tx : u # t => DOMAIN P \cap Rows(u) = {}
<1>0. new[t] \in SUBSET Key
  BY AtFiles
<1>1. DOMAIN P = {h \in File : fkey[h] \in new[t]} \cup {g[k] : k \in Missing(t)}
  BY DEF Upserted
<1>2. ASSUME NEW k \in Missing(t)
      PROVE  /\ g[k] \in File /\ fkey[g[k]] = NoKey /\ P[g[k]] = k /\ g[k] \in DOMAIN P
             /\ \A u \in Tx : g[k] \notin Rows(u)
  <2>1. g[k] \in FreeIds
    OBVIOUS
  <2>2. g[k] \in File /\ fkey[g[k]] = NoKey /\ \A u \in Tx : g[k] \notin Rows(u)
    BY <2>1 DEF FreeIds, Rows
  <2>3. fkey[g[k]] \notin new[t]
    BY <1>0, <2>2, NoKeyFacts
  <2>4. g[k] \in DOMAIN P
    BY <1>1
  <2>5. P[g[k]] = CHOOSE j \in Missing(t) : g[j] = g[k]
    BY <2>3, <2>4, <1>1 DEF Upserted
  <2>6. (CHOOSE j \in Missing(t) : g[j] = g[k]) = k
    OBVIOUS
  <2> QED
    BY <2>2, <2>4, <2>5, <2>6
<1>3. ASSUME NEW f \in File, fkey[f] \in new[t]
      PROVE  f \in DOMAIN P /\ P[f] = fkey[f] /\ \A u \in Tx : u # t => f \notin Rows(u)
  <2>1. f \in DOMAIN P /\ P[f] = fkey[f]
    BY <1>1, <1>3 DEF Upserted
  <2>2. \A u \in Tx : u # t => f \notin Rows(u)
    BY <1>3 DEF FilesWaitFor, HoldsKey, Rows
  <2> QED
    BY <2>1, <2>2
<1>4. DOMAIN P \subseteq File
  BY <1>1, <1>2
<1>5. \A f \in DOMAIN P : P[f] \in new[t] /\ fkey[f] \in {NoKey, P[f]}
  BY <1>1, <1>2, <1>3 DEF Missing
<1>6. \A k \in new[t] : \E f \in DOMAIN P : P[f] = k
  <2> SUFFICES ASSUME NEW k \in new[t] PROVE \E f \in DOMAIN P : P[f] = k
    OBVIOUS
  <2>1. CASE k \in Missing(t)
    BY <1>2, <2>1
  <2>2. CASE k \notin Missing(t)
    <3>1. PICK f \in File : fkey[f] = k
      BY <2>2 DEF Keys, Missing
    <3> QED
      BY <1>3, <3>1
  <2> QED
    BY <2>1, <2>2
<1>7. \A u \in Tx : u # t => DOMAIN P \cap Rows(u) = {}
  BY <1>1, <1>2, <1>3
<1> QED
  BY <1>4, <1>5, <1>6, <1>7

LEMMA UpsertFilesInv ==
    ASSUME Inv, NEW t \in Tx, FilesStmt(t), UpsertFiles(t) PROVE Inv'
<1>1. /\ pc[t] = "files" /\ \A u \in Tx : ~FilesWaitFor(t, u)
      /\ UNCHANGED <<tables, op, ids, new, ins, del, crawl, quiet, ops, faults>>
      /\ race' = IF Stale(t) THEN race \cup {"stale"} ELSE race
  BY DEF FilesStmt
<1>2. /\ op[t] \in Stampers /\ todo' = [todo EXCEPT ![t] = AllAncestors(new[t])]
      /\ pc' = [pc EXCEPT ![t] = "insert"] /\ UNCHANGED old
  BY DEF UpsertFiles, Stampers
<1>3. PICK g \in [Missing(t) -> FreeIds] :
         /\ \A j, k \in Missing(t) : j # k => g[j] # g[k]
         /\ pend' = [pend EXCEPT ![t] = Upserted(t, g)]
  BY Zenon DEF UpsertFiles, Missing, Upserted
<1>5. PICK P : P = Upserted(t, g)
  OBVIOUS
<1>6. /\ DOMAIN P \subseteq File
      /\ \A f \in DOMAIN P : P[f] \in new[t] /\ fkey[f] \in {NoKey, P[f]}
      /\ \A k \in new[t] : \E f \in DOMAIN P : P[f] = k
      /\ \A u \in Tx : u # t => DOMAIN P \cap Rows(u) = {}
  BY <1>1, <1>3, <1>5, UpsertRows
<1>7. pend' = [pend EXCEPT ![t] = P]
  BY <1>3, <1>5
<1>8. /\ TxTypes /\ Shape(t) /\ ins[t] = {} /\ del[t] = {} /\ new[t] \in SUBSET Key
      /\ AllAncestors(new[t]) \subseteq Dir
  BY <1>1, AtFiles, AncestorsOf
<1>9. /\ \A u \in Tx : u # t => SameTx(u)
      /\ pend'[t] = P /\ pc'[t] = "insert" /\ todo'[t] = AllAncestors(new[t])
      /\ op'[t] = op[t] /\ ids'[t] = ids[t] /\ new'[t] = new[t] /\ old'[t] = old[t]
      /\ ins'[t] = {} /\ del'[t] = {}
  BY <1>1, <1>2, <1>7, <1>8 DEF TxTypes, SameTx
<1>10. TxTypes'
  <2>1. pend' = [u \in Tx |-> pend'[u]]
    BY <1>7, <1>8 DEF TxTypes
  <2>2. \A u \in Tx : /\ DOMAIN pend'[u] \subseteq File
                      /\ \A f \in DOMAIN pend'[u] : pend'[u][f] \in Key \cup {NoKey}
    BY <1>6, <1>8, <1>9 DEF TxTypes, SameTx, Rows
  <2>3. /\ pc' \in [Tx -> Labels] /\ todo' \in [Tx -> SUBSET Dir]
        /\ UNCHANGED <<op, ids, old, new, ins, del>>
    BY <1>1, <1>2, <1>8 DEF TxTypes, Labels
  <2> QED
    BY <1>8, <2>1, <2>2, <2>3 DEF TxTypes, Rows
<1>11. TxInv(t)'
  <2>0. op[t] \in Inserters /\ op[t] \notin Pruners /\ op[t] # "move" /\ op[t] # "none" /\ op[t] # "list"
        /\ op[t] \notin Deleters /\ op[t] \notin {"delete", "purge", "move"}
    BY <1>2, Kinds DEF Stampers, Deleters
  <2>1. Shape(t)'
    BY <1>8, <1>9, <2>0 DEF Shape, Rows, Pruned, Written
  <2>2. WriteInv(t)'
    BY <1>1, <1>6, <1>9, <2>0 DEF WriteInv, Rows, tables
  <2>3. KeysKnown(t)'
    BY <1>9, <2>0 DEF KeysKnown
  <2>4. InsertInv(t)'
    BY <1>9 DEF InsertInv
  <2>5. PruneInv(t)'
    BY <1>9, <2>0 DEF PruneInv, Prunes
  <2> QED
    BY <2>1, <2>2, <2>3, <2>4, <2>5 DEF TxInv
<1>12. op[t] # "sweep"
  BY <1>2 DEF Stampers
<1> QED
  BY <1>1, <1>6, <1>9, <1>10, <1>11, <1>12, StmtInv

\* The statements that lead to the prune.
LEMMA WriteRowsInv ==
    ASSUME Inv, NEW t \in Tx, FilesStmt(t), op[t] \in Pruners, NEW P, NEW K \in SUBSET Key,
           pend' = [pend EXCEPT ![t] = P], old' = [old EXCEPT ![t] = K],
           pc' = [pc EXCEPT ![t] = "prune"], UNCHANGED todo,
           DOMAIN P \subseteq File, \A f \in DOMAIN P : P[f] \in new[t] \cup {NoKey},
           \A u \in Tx : u # t => DOMAIN P \cap Rows(u) = {},
           op[t] \in Deleters => \A f \in DOMAIN P : P[f] = NoKey,
           op[t] = "move" => /\ \A f \in DOMAIN P : P[f] \in new[t]
                             /\ \A k \in new[t] : \E f \in DOMAIN P : P[f] = k,
           op[t] = "delete" => \A f \in DOMAIN P : fkey[f] \in K,
           op[t] = "purge" /\ ~Stale(t) => \A f \in DOMAIN P : fkey[f] \in K,
           op[t] \in {"purge", "move"} => DOMAIN P \subseteq ids[t] /\ K = old[t],
           op[t] = "sweep" => \A f \in File : fkey[f] = NoKey \/ f \in fresh \cup DOMAIN P
    PROVE  Inv'
<1>1. /\ pc[t] = "files"
      /\ UNCHANGED <<tables, op, ids, new, ins, del, crawl, quiet, ops, faults>>
      /\ race' = IF Stale(t) THEN race \cup {"stale"} ELSE race
  BY DEF FilesStmt
<1>2. /\ TxTypes /\ Shape(t) /\ todo[t] = {} /\ ins[t] = {} /\ del[t] = {}
      /\ new[t] \in SUBSET Key /\ KeysKnown(t)
  BY <1>1, AtFiles DEF Inv, TxInv
<1>3. /\ \A u \in Tx : u # t => SameTx(u)
      /\ pend'[t] = P /\ pc'[t] = "prune" /\ todo'[t] = {}
      /\ op'[t] = op[t] /\ ids'[t] = ids[t] /\ new'[t] = new[t] /\ old'[t] = K
      /\ ins'[t] = {} /\ del'[t] = {}
  BY <1>1, <1>2 DEF TxTypes, SameTx
<1>4. TxTypes'
  <2>1. pend' = [u \in Tx |-> pend'[u]]
    BY <1>2 DEF TxTypes
  <2>2. \A u \in Tx : /\ DOMAIN pend'[u] \subseteq File
                      /\ \A f \in DOMAIN pend'[u] : pend'[u][f] \in Key \cup {NoKey}
    BY <1>2, <1>3 DEF TxTypes, SameTx, Rows
  <2>3. /\ pc' \in [Tx -> Labels] /\ old' \in [Tx -> SUBSET Key]
        /\ UNCHANGED <<op, ids, todo, new, ins, del>>
    BY <1>1, <1>2 DEF TxTypes, Labels
  <2> QED
    BY <1>2, <2>1, <2>2, <2>3 DEF TxTypes, Rows
<1>5. TxInv(t)'
  <2>0. op[t] \notin Stampers /\ op[t] # "none" /\ op[t] # "list" /\ (op[t] \in Inserters => op[t] = "move")
    BY Kinds DEF Stampers, Deleters
  <2>1. Shape(t)'
    BY <1>2, <1>3, <2>0 DEF Shape, Rows, Pruned, Written
  <2>2. WriteInv(t)'
    <3>1. UNCHANGED fkey
      BY <1>1 DEF tables
    <3> QED
      BY <1>3, <2>0, <3>1 DEF WriteInv, Rows
  <2>3. KeysKnown(t)'
    BY <1>1, <1>2, <1>3 DEF KeysKnown, tables, Rows
  <2>4. InsertInv(t)'
    BY <1>3 DEF InsertInv
  <2>5. PruneInv(t)'
    BY <1>3 DEF PruneInv, Prunes, Pruned
  <2> QED
    BY <2>1, <2>2, <2>3, <2>4, <2>5 DEF TxInv
<1>6. pc[t] # "idle"
  BY <1>1
<1> QED
  BY <1>1, <1>3, <1>4, <1>5, <1>6, StmtInv

LEMMA DeleteRowsInv ==
    ASSUME Inv, NEW t \in Tx, FilesStmt(t), DeleteRows(t) PROVE Inv'
<1>1. pc[t] = "files" /\ \A u \in Tx : ~FilesWaitFor(t, u)
  BY DEF FilesStmt
<1>2. /\ op[t] \in Deleters /\ pend' = [pend EXCEPT ![t] = [f \in Targets(t) |-> NoKey]]
      /\ pc' = [pc EXCEPT ![t] = "prune"] /\ UNCHANGED todo
      /\ old' = IF op[t] = "delete"
                THEN [old EXCEPT ![t] = {fkey[f] : f \in Targets(t)}] ELSE old
  BY DEF DeleteRows, Deleters
<1>3. /\ Targets(t) \subseteq File /\ \A f \in Targets(t) : fkey[f] \in Key
      /\ \A u \in Tx : u # t => Targets(t) \cap Rows(u) = {}
      /\ op[t] # "sweep" => Targets(t) \subseteq ids[t]
      /\ op[t] = "sweep" => Targets(t) = {f \in File : fkey[f] # NoKey /\ f \notin fresh}
  BY <1>1, TargetRows
<1>4. PICK K : K = IF op[t] = "delete" THEN {fkey[f] : f \in Targets(t)} ELSE old[t]
  OBVIOUS
<1>5. K \in SUBSET Key /\ old' = [old EXCEPT ![t] = K]
  <2>1. old[t] \in SUBSET Key /\ old = [old EXCEPT ![t] = old[t]]
    BY <1>1, AtFiles DEF TxTypes
  <2>2. CASE op[t] = "delete"
    BY <1>2, <1>3, <1>4, <2>2
  <2>3. CASE op[t] # "delete"
    <3>1. K = old[t] /\ old' = old
      BY <1>2, <1>4, <2>3
    <3> QED
      BY <2>1, <3>1
  <2> QED
    BY <2>2, <2>3
<1>6. PICK P : P = [f \in Targets(t) |-> NoKey]
  OBVIOUS
<1>7. DOMAIN P = Targets(t) /\ \A f \in DOMAIN P : P[f] = NoKey
  BY <1>6
<1>8. pend' = [pend EXCEPT ![t] = P]
  BY <1>2, <1>6
<1>9. op[t] \in Pruners /\ op[t] # "move"
  BY <1>2, Kinds DEF Deleters
<1>10. op[t] = "delete" => \A f \in DOMAIN P : fkey[f] \in K
  BY <1>4, <1>7
<1>11. op[t] = "purge" => DOMAIN P \subseteq ids[t] /\ K = old[t]
  BY <1>3, <1>4, <1>7
<1>12. op[t] = "sweep" => \A f \in File : fkey[f] = NoKey \/ f \in fresh \cup DOMAIN P
  BY <1>3, <1>7
<1>14. op[t] = "purge" /\ ~Stale(t) => \A f \in DOMAIN P : fkey[f] \in K
  BY <1>4, <1>7 DEF Stale
<1>13. /\ DOMAIN P \subseteq File /\ \A f \in DOMAIN P : P[f] \in new[t] \cup {NoKey}
       /\ \A u \in Tx : u # t => DOMAIN P \cap Rows(u) = {}
  BY <1>3, <1>7
<1> QED
  BY <1>2, <1>5, <1>7, <1>8, <1>9, <1>10, <1>11, <1>12, <1>13, <1>14, WriteRowsInv

LEMMA UpdateFileKeyInv ==
    ASSUME Inv, NEW t \in Tx, FilesStmt(t), UpdateFileKey(t) PROVE Inv'
<1>1. pc[t] = "files" /\ (\A u \in Tx : ~FilesWaitFor(t, u)) /\ ~FilesStmtFails(t)
  BY DEF FilesStmt
<1>2. /\ op[t] = "move"
      /\ pend' = [pend EXCEPT ![t] = [f \in ids[t] |-> CHOOSE k \in new[t] : TRUE]]
      /\ pc' = [pc EXCEPT ![t] = "prune"] /\ UNCHANGED <<old, todo>>
  BY DEF UpdateFileKey
<1>3. PICK f \in File, k \in Key : ids[t] = {f} /\ new[t] = {k}
  BY <1>1, <1>2, AtFiles DEF Shape
<1>4. Targets(t) # {} /\ Targets(t) \subseteq ids[t]
      /\ \A u \in Tx : u # t => Targets(t) \cap Rows(u) = {}
  BY <1>1, <1>2, TargetRows DEF FilesStmtFails
<1>5. Targets(t) = {f}
  BY <1>3, <1>4
<1>6. (CHOOSE j \in new[t] : TRUE) = k
  BY <1>3
<1>7. PICK P : P = [g \in ids[t] |-> CHOOSE j \in new[t] : TRUE]
  OBVIOUS
<1>8. DOMAIN P = {f} /\ P[f] = k
  BY <1>3, <1>6, <1>7
<1>9. pend' = [pend EXCEPT ![t] = P] /\ old' = [old EXCEPT ![t] = old[t]] /\ old[t] \in SUBSET Key
  BY <1>1, <1>2, <1>7, AtFiles DEF TxTypes
<1>10. op[t] \in Pruners /\ op[t] \notin Deleters
  BY <1>2, Kinds DEF Deleters
<1>11. /\ DOMAIN P \subseteq File /\ \A g \in DOMAIN P : P[g] \in new[t]
       /\ \A u \in Tx : u # t => DOMAIN P \cap Rows(u) = {}
       /\ \A j \in new[t] : \E g \in DOMAIN P : P[g] = j
       /\ DOMAIN P \subseteq ids[t]
  BY <1>3, <1>4, <1>5, <1>8
<1> QED
  BY <1>2, <1>9, <1>10, <1>11, WriteRowsInv

LEMMA FilesStmtInv == ASSUME Inv, NEW t \in Tx, FilesStmt(t) PROVE Inv'
<1>1. UpsertFiles(t) \/ DeleteRows(t) \/ UpdateFileKey(t)
  BY DEF FilesStmt
<1> QED
  BY <1>1, UpsertFilesInv, DeleteRowsInv, UpdateFileKeyInv

\* The statements on directories.
LEMMA DirStmtInv ==
    ASSUME Inv, NEW t \in Tx, pc[t] \in Written, pc'[t] \in Written,
           UNCHANGED <<tables, op, ids, old, new, pend, crawl, hist, ops, faults>>,
           pc' \in [Tx -> Labels], todo' \in [Tx -> SUBSET Dir],
           ins' \in [Tx -> SUBSET Dir], del' \in [Tx -> SUBSET Dir],
           \A u \in Tx : u # t => SameTx(u),
           Shape(t)', InsertInv(t)', PruneInv(t)'
    PROVE  Inv'
<1>0. UNCHANGED <<fkey, fresh, quiet, cpc, race>>
  BY DEF tables, hist, crawl
<1>1. TxTypes'
  BY DEF Inv, Types, TxTypes, Rows
<1>2. WriteInv(t)'
  BY <1>0 DEF Inv, TxInv, WriteInv, Rows
<1>3. KeysKnown(t)'
  BY <1>0 DEF Inv, TxInv, KeysKnown, Rows
<1>4. TxInv(t)'
  BY <1>2, <1>3 DEF TxInv
<1>5. \A u \in Tx : u # t => DOMAIN pend'[t] \cap Rows(u) = {}
  BY DEF Inv, LockInv, Rows
<1>6. ASSUME op[t] = "sweep", quiet
      PROVE  \A f \in File : fkey[f] = NoKey \/ f \in fresh \cup DOMAIN pend'[t]
  <2>1. t = Crawler
    BY <1>6, Kinds, Transactions DEF Inv, TxInv, Shape
  <2>2. cpc = "sweep" /\ QuietInv
    BY <1>6, <2>1 DEF Inv, CrawlInv
  <2> QED
    BY <1>6, <2>1, <2>2 DEF QuietInv, Rows
<1>7. pc[t] # "idle"
  BY DEF Written
<1> QED
  BY <1>0, <1>1, <1>4, <1>5, <1>6, <1>7, StmtInv

\* What a prune leaves out of its scope holds a file.
LEMMA OutOfScope ==
    ASSUME Inv, NEW t \in Tx, pc[t] = "prune", Alone, NEW d \in dirs, Empty(t, d)
    PROVE  d \in Scope(t)
<1>1. /\ op[t] \in Pruners /\ d \in Dir /\ Shape(t) /\ WriteInv(t) /\ KeysKnown(t)
      /\ old[t] \in SUBSET Key
  BY DEF Inv, TxInv, Shape, Types, TableTypes, TxTypes
<1>2. CASE op[t] = "sweep"
  BY <1>1, <1>2 DEF Scope
<1>3. CASE op[t] # "sweep"
  <2>1. "pruners" \notin race /\ "stale" \notin race
    <3>1. CASE quiet
      <4>1. t = Crawler
        BY <3>1, Transactions DEF Inv, QuietInv
      <4> QED
        BY <1>1, <1>3, <4>1 DEF Inv, CrawlInv, Pruners
    <3> QED
      BY <3>1 DEF Alone
  <2>2. PICK f \in File : Inside(fkey[f], d)
    BY <2>1 DEF Inv, OrphanOnlyAfterRace
  <2>3. f \in Rows(t) /\ fkey[f] \in Key
    BY <2>2, NoKeyFacts, FileKeys DEF Empty, Sees, Rows
  <2>4. fkey[f] \in old[t]
    BY <1>1, <1>3, <2>1, <2>3 DEF WriteInv, KeysKnown, Pruners
  <2>5. d \in Ancestors(fkey[f])
    BY <1>1, <2>2, <2>3, OutsideIsAncestor
  <2>6. d \in AllAncestors(old[t])
    BY <1>1, <2>4, <2>5, AncestorsOf
  <2> QED
    BY <1>3, <2>6 DEF Scope
<1> QED
  BY <1>2, <1>3

LEMMA PruneStmtInv == ASSUME Inv, NEW t \in Tx, PruneStmt(t) PROVE Inv'
<1>1. /\ pc[t] = "prune" /\ pc' = [pc EXCEPT ![t] = "pruning"]
      /\ todo' = [todo EXCEPT ![t] = {d \in dirs \cap Scope(t) : Empty(t, d)}]
      /\ UNCHANGED <<tables, op, ids, old, new, pend, ins, del, crawl, hist, ops, faults>>
  BY DEF PruneStmt
<1>2. TxTypes /\ Shape(t) /\ dirs \subseteq Dir
  BY DEF Inv, Types, TableTypes, TxInv
<1>3. PICK D : D = {d \in dirs \cap Scope(t) : Empty(t, d)}
  OBVIOUS
<1>4. D \in SUBSET Dir /\ (\A d \in D : d \in dirs /\ Empty(t, d))
      /\ (\A d \in dirs : d \in Scope(t) /\ Empty(t, d) => d \in D)
  BY <1>2, <1>3
<1>5. /\ pc' \in [Tx -> Labels] /\ todo' \in [Tx -> SUBSET Dir]
      /\ ins' \in [Tx -> SUBSET Dir] /\ del' \in [Tx -> SUBSET Dir]
  BY <1>1, <1>2, <1>3, <1>4 DEF TxTypes, Labels
<1>6. /\ \A u \in Tx : u # t => SameTx(u)
      /\ pc'[t] = "pruning" /\ todo'[t] = D /\ ins'[t] = {} /\ del'[t] = {} /\ op'[t] = op[t]
      /\ op[t] \in Pruners /\ op[t] # "none"
  BY <1>1, <1>2, <1>3, Kinds DEF TxTypes, Shape, SameTx, Pruned
<1>7. UNCHANGED <<fkey, dirs, pend, quiet, race>>
  BY <1>1 DEF tables, hist
<1>8. Shape(t)'
  BY <1>1, <1>2, <1>6 DEF Shape, Rows, Pruned, Written
<1>9. InsertInv(t)'
  BY <1>6 DEF InsertInv
<1>10. PruneInv(t)'
  <2>1. Prunes(t)' = D
    BY <1>6 DEF Prunes
  <2>2. \A d : Empty(t, d)' <=> Empty(t, d)
    BY <1>7 DEF Empty, Sees
  <2>3. Alone => \A d \in dirs : d \in D \/ ~Empty(t, d)
    BY <1>1, <1>4, OutOfScope
  <2>4. Alone' <=> Alone
    BY <1>7 DEF Alone
  <2> QED
    BY <1>4, <1>7, <2>1, <2>2, <2>3, <2>4 DEF PruneInv
<1>11. pc[t] \in Written /\ pc'[t] \in Written
  BY <1>1, <1>6 DEF Written
<1> QED
  BY <1>1, <1>5, <1>6, <1>8, <1>9, <1>10, <1>11, DirStmtInv

LEMMA PruneDirInv == ASSUME Inv, NEW t \in Tx, NEW d \in Dir, PruneDir(t, d) PROVE Inv'
<1>1. /\ pc[t] = "pruning" /\ d \in todo[t]
      /\ todo' = [todo EXCEPT ![t] = @ \ {d}] /\ del' = [del EXCEPT ![t] = @ \cup {d}]
      /\ UNCHANGED <<tables, op, pc, ids, old, new, pend, ins, crawl, hist, ops, faults>>
  BY DEF PruneDir
<1>2. TxTypes /\ TxInv(t)
  BY DEF Inv, Types
<1>3. /\ pc' \in [Tx -> Labels] /\ todo' \in [Tx -> SUBSET Dir]
      /\ ins' \in [Tx -> SUBSET Dir] /\ del' \in [Tx -> SUBSET Dir]
  BY <1>1, <1>2 DEF TxTypes, Labels
<1>4. /\ \A u \in Tx : u # t => SameTx(u)
      /\ pc'[t] = "pruning" /\ todo'[t] = todo[t] \ {d} /\ ins'[t] = {} /\ del'[t] = del[t] \cup {d}
      /\ op'[t] = op[t] /\ op[t] \in Pruners
  BY <1>1, <1>2 DEF TxTypes, SameTx, TxInv, Shape
<1>5. UNCHANGED <<fkey, dirs, pend, quiet, race>>
  BY <1>1 DEF tables, hist
<1>6. Shape(t)'
  BY <1>1, <1>2, <1>4 DEF TxInv, Shape, Rows, Pruned, Written
<1>7. InsertInv(t)'
  BY <1>4 DEF InsertInv
<1>8. PruneInv(t)'
  <2>1. Prunes(t)' = Prunes(t)
    BY <1>1, <1>4 DEF Prunes
  <2>2. \A e : Empty(t, e)' <=> Empty(t, e)
    BY <1>5 DEF Empty, Sees
  <2> QED
    BY <1>1, <1>2, <1>5, <2>1, <2>2 DEF TxInv, PruneInv, Unmixed, Alone
<1>9. pc[t] \in Written /\ pc'[t] \in Written
  BY <1>1, <1>4 DEF Written
<1> QED
  BY <1>1, <1>3, <1>4, <1>6, <1>7, <1>8, <1>9, DirStmtInv

LEMMA InsertDirInv == ASSUME Inv, NEW t \in Tx, NEW d \in Dir, InsertDir(t, d) PROVE Inv'
<1>1. /\ pc[t] = "insert" /\ d \in todo[t] /\ todo' = [todo EXCEPT ![t] = @ \ {d}]
      /\ ins' = IF d \in (dirs \ del[t]) \cup ins[t] THEN ins ELSE [ins EXCEPT ![t] = @ \cup {d}]
      /\ UNCHANGED <<tables, op, pc, ids, old, new, pend, del, crawl, hist, ops, faults>>
  BY DEF InsertDir
<1>2. TxTypes /\ TxInv(t)
  BY DEF Inv, Types
<1>3. PICK I : I = ins'[t]
  OBVIOUS
<1>4. /\ ins[t] \subseteq I /\ I \subseteq ins[t] \cup {d} /\ d \in (dirs \ del[t]) \cup I
      /\ ins' \in [Tx -> SUBSET Dir] /\ \A u \in Tx : u # t => ins'[u] = ins[u]
  <2>1. CASE d \in (dirs \ del[t]) \cup ins[t]
    BY <1>1, <1>2, <1>3, <2>1 DEF TxTypes
  <2>2. CASE d \notin (dirs \ del[t]) \cup ins[t]
    BY <1>1, <1>2, <1>3, <2>2 DEF TxTypes
  <2> QED
    BY <2>1, <2>2
<1>5. /\ pc' \in [Tx -> Labels] /\ todo' \in [Tx -> SUBSET Dir] /\ del' \in [Tx -> SUBSET Dir]
  BY <1>1, <1>2 DEF TxTypes, Labels
<1>6. /\ \A u \in Tx : u # t => SameTx(u)
      /\ pc'[t] = "insert" /\ todo'[t] = todo[t] \ {d} /\ ins'[t] = I /\ del'[t] = del[t]
      /\ op'[t] = op[t] /\ op[t] \in Inserters /\ new'[t] = new[t]
  BY <1>1, <1>2, <1>3, <1>4 DEF TxTypes, SameTx, TxInv, Shape
<1>7. UNCHANGED <<fkey, dirs, pend, quiet, race>>
  BY <1>1 DEF tables, hist
<1>8. Shape(t)'
  BY <1>1, <1>2, <1>6 DEF TxInv, Shape, Rows, Pruned, Written
<1>9. InsertInv(t)'
  BY <1>1, <1>2, <1>4, <1>6, <1>7 DEF TxInv, InsertInv, Unmixed
<1>10. PruneInv(t)'
  <2>1. Prunes(t)' = Prunes(t)
    BY <1>1, <1>6 DEF Prunes
  <2>2. \A e : Empty(t, e)' <=> Empty(t, e)
    BY <1>7 DEF Empty, Sees
  <2> QED
    BY <1>1, <1>2, <1>7, <2>1, <2>2 DEF TxInv, PruneInv, Unmixed, Alone
<1>11. pc[t] \in Written /\ pc'[t] \in Written
  BY <1>1, <1>6 DEF Written
<1> QED
  BY <1>1, <1>4, <1>5, <1>6, <1>8, <1>9, <1>10, <1>11, DirStmtInv

LEMMA StmtDoneInv == ASSUME Inv, NEW t \in Tx, StmtDone(t) PROVE Inv'
<1>1. /\ pc[t] \in {"pruning", "insert"} /\ todo[t] = {}
      /\ UNCHANGED <<tables, op, ids, old, new, pend, ins, del, crawl, hist, ops, faults>>
  BY DEF StmtDone
<1>2. TxTypes /\ TxInv(t) /\ new[t] \in SUBSET Key /\ AllAncestors(new[t]) \in SUBSET Dir
  BY AncestorsOf DEF Inv, Types, TxTypes
<1>3. UNCHANGED <<fkey, dirs, pend, quiet, race>>
  BY <1>1 DEF tables, hist
<1>4. \/ /\ pc[t] = "pruning" /\ op[t] = "move" /\ pc' = [pc EXCEPT ![t] = "insert"]
         /\ todo' = [todo EXCEPT ![t] = AllAncestors(new[t])]
      \/ /\ ~(pc[t] = "pruning" /\ op[t] = "move")
         /\ pc' = [pc EXCEPT ![t] = "commit"] /\ todo' = todo
  BY DEF StmtDone
<1>5. /\ pc' \in [Tx -> Labels] /\ todo' \in [Tx -> SUBSET Dir]
      /\ ins' \in [Tx -> SUBSET Dir] /\ del' \in [Tx -> SUBSET Dir]
  BY <1>1, <1>2, <1>4 DEF TxTypes, Labels
<1>6. /\ \A u \in Tx : u # t => SameTx(u)
      /\ op'[t] = op[t] /\ new'[t] = new[t] /\ ins'[t] = ins[t] /\ del'[t] = del[t]
  BY <1>1, <1>2, <1>4 DEF TxTypes, SameTx
<1>7. \/ /\ pc[t] = "pruning" /\ op[t] = "move"
         /\ pc'[t] = "insert" /\ todo'[t] = AllAncestors(new[t])
      \/ ~(pc[t] = "pruning" /\ op[t] = "move") /\ pc'[t] = "commit" /\ todo'[t] = {}
  BY <1>1, <1>2, <1>4 DEF TxTypes
<1>8. op[t] # "none" /\ (pc[t] = "pruning" /\ op[t] # "move" => op[t] \notin Inserters)
  BY <1>1, <1>2, Kinds DEF TxInv, Shape
<1>9. Shape(t)'
  BY <1>1, <1>2, <1>6, <1>7, <1>8, Kinds DEF TxInv, Shape, Rows, Pruned, Written
<1>10. InsertInv(t)'
  <2>1. pc[t] = "pruning" => ins[t] = {}
    BY <1>2 DEF TxInv, Shape
  <2> QED
    BY <1>1, <1>2, <1>3, <1>6, <1>7, <1>8, <2>1 DEF TxInv, InsertInv, Unmixed
<1>11. PruneInv(t)'
  <2>1. Prunes(t)' = Prunes(t)
    BY <1>1, <1>6, <1>7 DEF Prunes
  <2>2. \A e : Empty(t, e)' <=> Empty(t, e)
    BY <1>3 DEF Empty, Sees
  <2> QED
    BY <1>1, <1>2, <1>3, <1>6, <2>1, <2>2 DEF TxInv, PruneInv, Unmixed, Alone, Pruned
<1>12. pc[t] \in Written /\ pc'[t] \in Written
  BY <1>1, <1>7 DEF Written
<1> QED
  BY <1>1, <1>5, <1>6, <1>9, <1>10, <1>11, <1>12, DirStmtInv

-----------------------------------------------------------------------------
(* Transactions end.                                                        *)

LEMMA EndFields ==
    ASSUME Inv, NEW t \in Tx, NEW D, EndTx(t, D)
    PROVE  /\ IdleTx(t) /\ TxTypes' /\ late' = late \ {t}
           /\ \A u \in Tx : u # t =>
                 /\ op'[u] = op[u] /\ pc'[u] = pc[u] /\ ids'[u] = ids[u] /\ old'[u] = old[u]
                 /\ new'[u] = new[u] /\ pend'[u] = pend[u]
                 /\ ins'[u] = ins[u] /\ del'[u] = del[u]
                 /\ todo'[u] = IF pc[u] = "pruning" THEN todo[u] \ D ELSE todo[u]
<1>1. TxTypes
  BY DEF Inv, Types
<1>2. /\ op' = [op EXCEPT ![t] = "none"] /\ pc' = [pc EXCEPT ![t] = "idle"]
      /\ ids' = [ids EXCEPT ![t] = {}] /\ old' = [old EXCEPT ![t] = {}]
      /\ new' = [new EXCEPT ![t] = {}] /\ pend' = [pend EXCEPT ![t] = <<>>]
      /\ ins' = [ins EXCEPT ![t] = {}] /\ del' = [del EXCEPT ![t] = {}] /\ late' = late \ {t}
      /\ todo' = [u \in Tx |-> IF u = t THEN {}
                               ELSE IF pc[u] = "pruning" THEN todo[u] \ D ELSE todo[u]]
  BY DEF EndTx
<1>3. IdleTx(t)
  BY <1>1, <1>2 DEF IdleTx, TxTypes
<1>4. \A u \in Tx : u # t =>
         /\ op'[u] = op[u] /\ pc'[u] = pc[u] /\ ids'[u] = ids[u] /\ old'[u] = old[u]
         /\ new'[u] = new[u] /\ pend'[u] = pend[u]
         /\ ins'[u] = ins[u] /\ del'[u] = del[u]
         /\ todo'[u] = IF pc[u] = "pruning" THEN todo[u] \ D ELSE todo[u]
  BY <1>1, <1>2 DEF TxTypes
<1>5. TxTypes'
  <2>1. /\ op' \in [Tx -> {"none", "list"} \cup Pruners \cup Inserters] /\ pc' \in [Tx -> Labels]
        /\ ids' \in [Tx -> SUBSET File] /\ old' \in [Tx -> SUBSET Key]
        /\ new' \in [Tx -> SUBSET Key]
    BY <1>1, <1>2 DEF TxTypes, Labels
  <2>2. /\ ins' \in [Tx -> SUBSET Dir] /\ del' \in [Tx -> SUBSET Dir]
    BY <1>1, <1>2 DEF TxTypes
  <2>3. todo' \in [Tx -> SUBSET Dir]
    BY <1>1, <1>2 DEF TxTypes
  <2>4. pend' = [u \in Tx |-> pend'[u]]
    BY <1>1, <1>2 DEF TxTypes
  <2>5. \A u \in Tx : /\ DOMAIN pend'[u] \subseteq File
                      /\ \A f \in DOMAIN pend'[u] : pend'[u][f] \in Key \cup {NoKey}
    BY <1>1, <1>3, <1>4 DEF TxTypes, IdleTx, Rows
  <2> QED
    BY <2>1, <2>2, <2>3, <2>4, <2>5 DEF TxTypes, Rows
<1> QED
  BY <1>2, <1>3, <1>4, <1>5

LEMMA EndLocks ==
    ASSUME Inv, NEW t \in Tx, IdleTx(t), \A u \in Tx : u # t => pend'[u] = pend[u]
    PROVE  LockInv'
  BY DEF Inv, LockInv, IdleTx, Rows

LEMMA RollbackInv ==
    ASSUME Inv, NEW t \in Tx, NEW undo \in BOOLEAN, Rollback(t, undo), faults' \in 0 .. MaxFaults
    PROVE  Inv'
<1>1. /\ cpc' = IF t = Crawler THEN "idle" ELSE cpc
      /\ EndTx(t, {}) /\ UNCHANGED <<fkey, fresh, dirs, quiet, race, ops>>
      /\ obj' = IF op[t] = "move" /\ undo THEN obj \ new[t] ELSE obj
  BY DEF Rollback, hist
<1>2. IdleTx(t) /\ TxTypes' /\ late' = late \ {t}
  BY <1>1, EndFields
<1>3. ASSUME NEW u \in Tx, u # t PROVE SameTx(u)
  <2>1. todo[u] \ {} = todo[u]
    BY DEF Inv, Types, TxTypes
  <2> QED
    BY <1>1, <1>3, <2>1, EndFields DEF SameTx
<1>4. TableTypes'
  BY <1>1 DEF Inv, Types, TableTypes
<1>5. OtherTypes'
  BY <1>1, <1>2 DEF Inv, Types, OtherTypes
<1>6. CrawlInv'
  BY <1>1, <1>2, <1>3, Transactions DEF Inv, CrawlInv, IdleTx, SameTx
<1>7. LockInv'
  BY <1>2, <1>3, EndLocks DEF SameTx
<1>8. RaceInv'
  BY <1>1, <1>2, <1>3, Kinds DEF Inv, RaceInv, IdleTx, SameTx
<1>9. QuietInv'
  <2> SUFFICES ASSUME quiet PROVE QuietInv'
    BY <1>1 DEF QuietInv
  <2>1. (\A u \in Client : pc'[u] = "idle") /\ late' = {}
    BY <1>2, <1>3, Transactions DEF Inv, QuietInv, IdleTx, SameTx
  <2>2. CASE t = Crawler
    BY <1>1, <2>1, <2>2 DEF QuietInv
  <2>3. CASE t # Crawler
    BY <1>1, <1>3, <2>1, <2>3, Transactions DEF Inv, QuietInv, SameTx, Rows
  <2> QED
    BY <2>2, <2>3
<1>10. ASSUME NEW u \in Tx PROVE TxInv(u)'
  BY <1>1, <1>2, <1>3, IdleInv, TxKept
<1>11. MissingOnlyAfterRace' /\ OrphanOnlyAfterRace'
  BY <1>1, TablesKept
<1> QED
  BY <1>2, <1>4, <1>5, <1>6, <1>7, <1>8, <1>9, <1>10, <1>11 DEF Inv, Types

LEMMA AbortsInv ==
    ASSUME Inv, NEW t \in Tx, TxError(t) \/ DeadlockAbort(t) \/ TxFault(t) PROVE Inv'
<1>1. faults \in 0 .. MaxFaults
  BY DEF Inv, Types, OtherTypes
<1>2. CASE TxError(t)
  <2>1. PICK undo \in BOOLEAN : undo = (Targets(t) = {})
    BY Zenon
  <2>2. Rollback(t, undo) /\ faults' = faults
    BY <1>2, <2>1 DEF TxError
  <2> QED
    BY <1>1, <2>2, RollbackInv
<1>3. CASE DeadlockAbort(t)
  <2>1. Rollback(t, TRUE) /\ faults' = faults
    BY <1>3 DEF DeadlockAbort
  <2> QED
    BY <1>1, <2>1, RollbackInv
<1>4. CASE TxFault(t)
  <2>1. faults' \in 0 .. MaxFaults
    BY <1>1, <1>4, DirectoryAssumption DEF TxFault
  <2>2. PICK undo \in BOOLEAN : Rollback(t, undo)
    BY <1>4 DEF TxFault
  <2> QED
    BY <2>1, <2>2, RollbackInv
<1> QED
  BY <1>2, <1>3, <1>4

\* A commit, as the invariant sees it.
Committed(t) ==
    /\ pc[t] = "commit" /\ op[t] \in Pruners \cup Inserters /\ todo[t] = {} /\ Prunes(t) = del[t]
    /\ \A f \in File : fkey'[f] = Sees(t, f)
    /\ \A f \in Rows(t) : fkey'[f] = pend[t][f]
    /\ \A f \in File : f \notin Rows(t) => fkey'[f] = fkey[f]
    /\ dirs' = (dirs \ del[t]) \cup ins[t]

LEMMA CommitFields == ASSUME Inv, NEW t \in Tx, Commit(t) PROVE Committed(t)
<1>1. /\ pc[t] = "commit" /\ fkey' = [f \in File |-> Sees(t, f)]
      /\ dirs' = (dirs \ del[t]) \cup ins[t]
  BY DEF Commit
<1>2. Shape(t) /\ Rows(t) \subseteq File /\ op[t] \in {"none", "list"} \cup Pruners \cup Inserters
  BY DEF Inv, Types, TxTypes, TxInv
<1>3. op[t] \in Pruners \cup Inserters /\ todo[t] = {} /\ Prunes(t) = del[t]
  BY <1>1, <1>2 DEF Shape, Prunes
<1>4. \A f \in File : fkey'[f] = Sees(t, f)
  BY <1>1
<1>5. /\ \A f \in Rows(t) : fkey'[f] = pend[t][f]
      /\ \A f \in File : f \notin Rows(t) => fkey'[f] = fkey[f]
  BY <1>2, <1>4 DEF Sees, Rows
<1> QED
  BY <1>1, <1>3, <1>4, <1>5 DEF Committed

\* An upload or a crawl batch changes no key that is there, a deletion only
\* removes keys.
LEMMA CommittedKeys ==
    ASSUME Inv, NEW t \in Tx, Committed(t), NEW f \in File
    PROVE  /\ op[t] \notin Pruners /\ fkey[f] # NoKey => fkey'[f] = fkey[f]
           /\ op[t] \notin Inserters => fkey'[f] \in {NoKey, fkey[f]}
<1>1. WriteInv(t) /\ op[t] \in Pruners \cup Inserters
  BY DEF Inv, TxInv, Committed
<1>2. CASE f \notin Rows(t)
  BY <1>2 DEF Committed
<1>3. CASE f \in Rows(t)
  <2>1. fkey'[f] = pend[t][f]
    BY <1>3 DEF Committed
  <2>2. op[t] \notin Pruners => op[t] \in Stampers
    BY <1>1, Kinds
  <2>3. op[t] \notin Inserters => op[t] \in Deleters
    BY <1>1, Kinds
  <2> QED
    BY <1>1, <1>3, <2>1, <2>2, <2>3 DEF WriteInv
<1> QED
  BY <1>2, <1>3

\* What it inserts has a file under it.
LEMMA CommittedInserts ==
    ASSUME Inv, NEW t \in Tx, Committed(t), NEW d \in ins[t]
    PROVE  \E f \in Rows(t) : f \in File /\ Inside(fkey'[f], d)
<1>1. /\ Shape(t) /\ WriteInv(t) /\ InsertInv(t) /\ new[t] \in SUBSET Key /\ Rows(t) \subseteq File
      /\ pc[t] = "commit"
  BY DEF Inv, Types, TxTypes, TxInv, Committed
<1>2. op[t] \in Inserters /\ d \in AllAncestors(new[t])
  BY <1>1 DEF Shape, InsertInv
<1>3. PICK k \in new[t] : d \in Ancestors(k)
  BY <1>1, <1>2, AncestorsOf
<1>4. PICK f \in Rows(t) : pend[t][f] = k
  BY <1>1, <1>2, <1>3 DEF WriteInv, Written
<1>5. fkey'[f] = k /\ Inside(k, d) /\ f \in File
  BY <1>1, <1>3, <1>4, AncestorIsOutside DEF Committed
<1> QED
  BY <1>5

\* The keys it writes have their directories.
LEMMA CommittedNew ==
    ASSUME Inv, NEW t \in Tx, Committed(t), Unmixed, NEW f \in Rows(t)
    PROVE  Ancestors(fkey'[f]) \subseteq dirs'
<1>1. /\ WriteInv(t) /\ InsertInv(t) /\ new[t] \in SUBSET Key
      /\ pc[t] = "commit" /\ todo[t] = {} /\ op[t] \in Pruners \cup Inserters
      /\ fkey'[f] = pend[t][f] /\ dirs' = (dirs \ del[t]) \cup ins[t]
  BY DEF Inv, Types, TxTypes, TxInv, Committed
<1>2. CASE op[t] \in Inserters
  <2>1. pend[t][f] \in new[t] /\ AllAncestors(new[t]) \subseteq dirs'
    BY <1>1, <1>2 DEF WriteInv, InsertInv
  <2> QED
    BY <1>1, <2>1, AncestorsOf
<1>3. CASE op[t] \notin Inserters
  <2>1. op[t] \in Deleters
    BY <1>1, <1>3, Kinds
  <2> QED
    BY <1>1, <2>1, NoKeyFacts DEF WriteInv
<1> QED
  BY <1>2, <1>3

\* The others keep theirs: nothing under a key is pruned.
LEMMA CommittedOld ==
    ASSUME Inv, NEW t \in Tx, Committed(t), Unmixed, NEW f \in File, f \notin Rows(t),
           Ancestors(fkey[f]) \subseteq dirs
    PROVE  Ancestors(fkey'[f]) \subseteq dirs'
<1>1. /\ PruneInv(t) /\ Prunes(t) = del[t] /\ fkey'[f] = fkey[f]
      /\ dirs' = (dirs \ del[t]) \cup ins[t]
  BY DEF Inv, TxInv, Committed
<1> SUFFICES ASSUME NEW d \in Ancestors(fkey[f]), d \in del[t] PROVE FALSE
  BY <1>1
<1>2. Inside(fkey[f], d)
  BY FileKeys, NoKeyFacts, AncestorIsOutside
<1>3. Empty(t, d)
  BY <1>1 DEF PruneInv
<1> QED
  BY <1>2, <1>3 DEF Empty, Sees, Rows

\* A directory it leaves has a file under it.
LEMMA CommittedKeeps ==
    ASSUME Inv, NEW t \in Tx, Committed(t), Alone, NEW d \in dirs, d \notin del[t],
           op[t] \notin Pruners => race \cap {"pruners", "stale"} = {}
    PROVE  \E f \in File : Inside(fkey'[f], d)
<1>1. CASE op[t] \in Pruners
  <2>1. ~Empty(t, d)
    BY <1>1 DEF Inv, TxInv, PruneInv, Committed, Pruned
  <2> QED
    BY <2>1 DEF Empty, Committed
<1>2. CASE op[t] \notin Pruners
  <2>1. PICK f \in File : Inside(fkey[f], d)
    BY <1>2 DEF Inv, OrphanOnlyAfterRace
  <2>2. fkey[f] # NoKey
    BY <2>1, NoKeyFacts
  <2> QED
    BY <1>2, <2>1, <2>2, CommittedKeys
<1> QED
  BY <1>1, <1>2

\* The transactions in flight while another one commits.
LEMMA CommitOthers ==
    ASSUME Inv, NEW t \in Tx, Committed(t), NEW u \in Tx, u # t, ~quiet, ~quiet', race' = race,
           op'[u] = op[u], pc'[u] = pc[u], ids'[u] = ids[u], old'[u] = old[u], new'[u] = new[u],
           pend'[u] = pend[u], ins'[u] = ins[u], del'[u] = del[u],
           todo'[u] = IF pc[u] = "pruning" THEN todo[u] \ del[t] ELSE todo[u]
    PROVE  TxInv(u)'
<1>1. TxInv(u) /\ TxInv(t) /\ TxTypes /\ RaceInv
  BY DEF Inv, Types
<1>2. /\ op[t] \in Pruners \cup Inserters /\ dirs' = (dirs \ del[t]) \cup ins[t]
      /\ \A f \in File : f \notin Rows(t) => fkey'[f] = fkey[f]
  BY DEF Committed
<1>3. todo'[u] \subseteq todo[u] /\ todo[u] \subseteq Dir
  BY <1>1 DEF TxTypes
<1>4. \A f \in Rows(u) : f \in File /\ f \notin Rows(t) /\ fkey'[f] = fkey[f]
  BY <1>1, <1>2 DEF Inv, LockInv, TxTypes
<1>5. op[u] \in Pruners /\ "pruners" \notin race => op[t] \notin Pruners /\ del[t] = {}
  BY <1>1 DEF RaceInv, TxInv, Shape
<1>6. op[u] \in Pruners /\ "mixed" \notin race => op[t] \notin Inserters
  BY <1>1 DEF RaceInv
<1>7. op[u] \in Inserters /\ "mixed" \notin race => op[t] \notin Pruners /\ del[t] = {}
  BY <1>1 DEF RaceInv, TxInv, Shape
<1>8. Shape(u)'
  BY <1>1, <1>3 DEF TxInv, Shape, Rows
<1>9. WriteInv(u)'
  BY <1>1, <1>4 DEF TxInv, WriteInv, Rows
<1>10. KeysKnown(u)'
  <2>0. "stale" \notin race /\ op[u] = "purge" => \A f \in Rows(u) : fkey'[f] \in old[u]
    BY <1>1, <1>4 DEF TxInv, KeysKnown
  <2> SUFFICES ASSUME "pruners" \notin race, op[u] = "move", NEW f \in ids[u]
               PROVE  fkey'[f] \in old[u]
    BY <2>0 DEF KeysKnown, Rows
  <2>1. fkey[f] \in old[u] /\ f \in File /\ old[u] \subseteq Key
    BY <1>1 DEF TxInv, KeysKnown, TxTypes
  <2>2. op[t] \notin Pruners
    BY <1>5 DEF Pruners
  <2> QED
    BY <2>1, <2>2, NoKeyFacts, CommittedKeys
<1>11. InsertInv(u)'
  <2>1. Unmixed' => Unmixed /\ "mixed" \notin race
    BY DEF Unmixed
  <2>2. ins'[u] \subseteq AllAncestors(new'[u])
        /\ (pc'[u] = "insert" => todo'[u] \subseteq AllAncestors(new'[u]))
    BY <1>1, <1>3 DEF TxInv, InsertInv
  <2>3. ASSUME Unmixed', op[u] \in Inserters, pc[u] \in {"insert", "commit"}
        PROVE  AllAncestors(new[u]) \subseteq todo'[u] \cup (dirs' \ del[u]) \cup ins[u]
    <3>1. AllAncestors(new[u]) \subseteq todo[u] \cup (dirs \ del[u]) \cup ins[u]
      BY <1>1, <2>1, <2>3 DEF TxInv, InsertInv
    <3>2. todo'[u] = todo[u] /\ dirs \subseteq dirs'
      BY <1>2, <1>7, <2>1, <2>3
    <3> QED
      BY <3>1, <3>2
  <2> QED
    BY <2>2, <2>3 DEF InsertInv
<1>12. PruneInv(u)'
  <2>1. Prunes(u)' \subseteq Prunes(u) /\ (del[t] = {} => Prunes(u)' = Prunes(u))
    BY <1>3 DEF Prunes
  <2>2. ASSUME Unmixed', NEW d \in Prunes(u)' PROVE Empty(u, d)'
    <3>1. "mixed" \notin race /\ Unmixed
      BY <2>2 DEF Unmixed
    <3>2. op[u] \in Pruners /\ Empty(u, d)
      BY <1>1, <2>1, <2>2, <3>1 DEF TxInv, Shape, PruneInv, Prunes
    <3>3. op[t] \notin Inserters
      BY <1>6, <3>1, <3>2
    <3> SUFFICES ASSUME NEW f \in File PROVE ~Inside(Sees(u, f)', d)
      BY DEF Empty
    <3>4. ~Inside(Sees(u, f), d)
      BY <3>2 DEF Empty
    <3>5. CASE f \in Rows(u)
      BY <3>4, <3>5 DEF Sees, Rows
    <3>6. CASE f \notin Rows(u)
      BY <3>3, <3>4, <3>6, CommittedKeys, NoKeyFacts DEF Sees, Rows
    <3> QED
      BY <3>5, <3>6
  <2>3. ASSUME Alone', op[u] \in Pruners, pc[u] \in Pruned, NEW d \in dirs', d \notin Prunes(u)'
        PROVE  ~Empty(u, d)'
    <3>1. "pruners" \notin race /\ Alone
      BY <2>3 DEF Alone
    <3>2. op[t] \notin Pruners /\ del[t] = {}
      BY <1>5, <2>3, <3>1
    <3> SUFFICES \E f \in File : Inside(Sees(u, f)', d)
      BY DEF Empty
    <3>3. CASE d \in dirs
      <4>1. PICK f \in File : Inside(Sees(u, f), d)
        BY <1>1, <2>1, <2>3, <3>1, <3>2, <3>3 DEF TxInv, PruneInv, Empty
      <4>2. CASE f \in Rows(u)
        BY <4>1, <4>2 DEF Sees, Rows
      <4>3. CASE f \notin Rows(u)
        <5>1. Inside(fkey[f], d) /\ fkey[f] # NoKey
          BY <4>1, <4>3, NoKeyFacts DEF Sees, Rows
        <5>2. fkey'[f] = fkey[f]
          BY <3>2, <5>1, CommittedKeys
        <5> QED
          BY <4>3, <5>1, <5>2 DEF Sees, Rows
      <4> QED
        BY <4>2, <4>3
    <3>4. CASE d \notin dirs
      <4>1. d \in ins[t]
        BY <1>2, <2>3, <3>4
      <4>2. PICK f \in Rows(t) : f \in File /\ Inside(fkey'[f], d)
        BY <4>1, CommittedInserts
      <4>3. f \notin Rows(u)
        BY <1>4
      <4> QED
        BY <4>2, <4>3 DEF Sees, Rows
    <3> QED
      BY <3>3, <3>4
  <2> QED
    BY <2>2, <2>3 DEF PruneInv
<1> QED
  BY <1>8, <1>9, <1>10, <1>11, <1>12 DEF TxInv

\* The sweep of an undisturbed crawl, and the files it leaves.
LEMMA QuietSweep ==
    ASSUME Inv, NEW t \in Tx, Committed(t), cpc = "sweep", quiet, t = Crawler
    PROVE  /\ op[t] = "sweep" /\ op[t] \in Pruners
           /\ \A f \in File : f \notin Rows(t) => Ancestors(fkey[f]) \subseteq dirs
<1>1. op[t] = "sweep" /\ QuietInv /\ pc[t] = "commit"
  BY DEF Inv, CrawlInv, Committed
<1> QED
  BY <1>1, NoKeyFacts DEF QuietInv, Written, Pruners

LEMMA CommitInv == ASSUME Inv, NEW t \in Tx, Commit(t) PROVE Inv'
<1>1. /\ fresh' = Stamp(t) /\ obj' = (IF op[t] = "move" THEN obj \ old[t] ELSE obj)
      /\ cpc' = (IF t # Crawler THEN cpc ELSE IF cpc = "upsert" THEN "listed" ELSE "idle")
      /\ race' = (IF t = Crawler /\ cpc = "sweep" /\ quiet THEN {} ELSE race)
      /\ EndTx(t, del[t]) /\ quiet' = quiet /\ ops' = ops /\ faults' = faults
  BY DEF Commit
<1>2. Committed(t)
  BY CommitFields
<1>3. IdleTx(t) /\ TxTypes' /\ late' = late \ {t}
  BY <1>1, EndFields
<1>4. \A u \in Tx : u # t =>
         /\ op'[u] = op[u] /\ pc'[u] = pc[u] /\ ids'[u] = ids[u] /\ old'[u] = old[u]
         /\ new'[u] = new[u] /\ pend'[u] = pend[u]
         /\ ins'[u] = ins[u] /\ del'[u] = del[u]
         /\ todo'[u] = IF pc[u] = "pruning" THEN todo[u] \ del[t] ELSE todo[u]
  BY <1>1, EndFields
<1>5. ASSUME quiet PROVE t = Crawler /\ \A u \in Tx : u # t => pc[u] = "idle" /\ SameTx(u)
  <2>1. t = Crawler
    BY <1>2, <1>5, Transactions DEF Inv, QuietInv, Committed
  <2>2. \A u \in Tx : u # t => pc[u] = "idle"
    BY <1>5, <2>1, Transactions DEF Inv, QuietInv
  <2> QED
    BY <1>4, <2>1, <2>2 DEF SameTx
<1>6. TableTypes'
  <2>1. TableTypes /\ TxTypes /\ TxInv(t)
    BY DEF Inv, Types
  <2>2. fkey' \in [File -> Key \cup {NoKey}]
    <3>1. fkey' = [f \in File |-> Sees(t, f)]
      BY DEF Commit
    <3>2. \A f \in File : Sees(t, f) \in Key \cup {NoKey}
      BY <2>1 DEF Sees, TableTypes, TxTypes, Rows
    <3> QED
      BY <3>1, <3>2
  <2>3. fresh' \subseteq File
    BY <1>1, <2>1 DEF Stamp, TableTypes, TxTypes, Rows
  <2>4. dirs' \subseteq Dir /\ obj' \subseteq Key
    BY <1>1, <1>2, <2>1 DEF Committed, TableTypes, TxTypes
  <2> QED
    BY <2>2, <2>3, <2>4 DEF TableTypes
<1>7. OtherTypes'
  BY <1>1, <1>3 DEF Inv, Types, OtherTypes
<1>8. CrawlInv'
  BY <1>1, <1>3, <1>4, Transactions DEF Inv, CrawlInv, IdleTx
<1>9. LockInv'
  BY <1>3, <1>4, EndLocks
<1>10. RaceInv'
  <2>1. CASE quiet
    <3>1. \A u \in Tx : op'[u] = "none"
      BY <1>3, <1>5, <2>1 DEF Inv, TxInv, Shape, SameTx, IdleTx
    <3> QED
      BY <3>1, Kinds DEF RaceInv
  <2>2. CASE ~quiet
    <3>1. race' = race
      BY <1>1, <2>2
    <3>2. op'[t] = "none" /\ \A u \in Tx : u # t => op'[u] = op[u]
      BY <1>3, <1>4 DEF IdleTx
    <3> QED
      BY <3>1, <3>2, Kinds DEF Inv, RaceInv
  <2> QED
    BY <2>1, <2>2
<1>11. QuietInv'
  <2> SUFFICES ASSUME quiet PROVE QuietInv'
    BY <1>1 DEF QuietInv
  <2>1. t = Crawler /\ (\A u \in Client : pc'[u] = "idle") /\ late = {} /\ late' = {}
    BY <1>3, <1>4, <1>5, Transactions DEF Inv, QuietInv, IdleTx
  <2>2. cpc' \in {"listed", "idle"} /\ (cpc' = "listed" => cpc = "upsert")
    BY <1>1, <2>1
  <2>3. ASSUME cpc = "upsert", NEW f \in fresh' PROVE Ancestors(fkey'[f]) \subseteq dirs'
    <3>1. op[t] = "upsert" /\ fresh = {}
      BY <2>1, <2>3 DEF Inv, CrawlInv, QuietInv
    <3>2. f \in Rows(t)
      BY <1>1, <2>1, <2>3, <3>1 DEF Stamp, Rows
    <3> QED
      BY <1>2, <3>2, CommittedNew DEF Unmixed
  <2> QED
    BY <2>1, <2>2, <2>3 DEF QuietInv
<1>12. ASSUME NEW u \in Tx PROVE TxInv(u)'
  <2>1. CASE u = t
    BY <1>3, <2>1, IdleInv
  <2>2. CASE u # t /\ quiet
    BY <1>5, <2>2, IdleStays, IdleInv
  <2>3. CASE u # t /\ ~quiet
    BY <1>1, <1>2, <1>4, <2>3, CommitOthers
  <2> QED
    BY <2>1, <2>2, <2>3
<1>13. MissingOnlyAfterRace'
  <2> SUFFICES ASSUME "mixed" \notin race', NEW f \in File
               PROVE  Ancestors(fkey'[f]) \subseteq dirs'
    BY DEF MissingOnlyAfterRace
  <2>1. Unmixed
    BY <1>1 DEF Unmixed
  <2>2. CASE f \in Rows(t)
    BY <1>2, <2>1, <2>2, CommittedNew
  <2>3. CASE f \notin Rows(t)
    <3>1. Ancestors(fkey[f]) \subseteq dirs
      <4>1. CASE t = Crawler /\ cpc = "sweep" /\ quiet
        BY <1>2, <2>3, <4>1, QuietSweep
      <4>2. CASE ~(t = Crawler /\ cpc = "sweep" /\ quiet)
        BY <1>1, <4>2 DEF Inv, MissingOnlyAfterRace
      <4> QED
        BY <4>1, <4>2
    <3> QED
      BY <1>2, <2>1, <2>3, <3>1, CommittedOld
  <2> QED
    BY <2>2, <2>3
<1>14. OrphanOnlyAfterRace'
  <2> SUFFICES ASSUME race' \cap {"pruners", "stale"} = {}, NEW d \in dirs'
               PROVE  \E f \in File : Inside(fkey'[f], d)
    BY DEF OrphanOnlyAfterRace
  <2>1. Alone
    BY <1>1 DEF Alone
  <2>2. op[t] \notin Pruners => race \cap {"pruners", "stale"} = {}
    BY <1>1, <1>2, QuietSweep
  <2>3. CASE d \in ins[t]
    BY <1>2, <2>3, CommittedInserts
  <2>4. CASE d \notin ins[t]
    <3>1. d \in dirs /\ d \notin del[t]
      BY <1>2, <2>4 DEF Committed
    <3> QED
      BY <1>2, <2>1, <2>2, <3>1, CommittedKeeps
  <2> QED
    BY <2>3, <2>4
<1> QED
  BY <1>3, <1>6, <1>7, <1>8, <1>9, <1>10, <1>11, <1>12, <1>13, <1>14 DEF Inv, Types

-----------------------------------------------------------------------------
(* The theorems.                                                            *)

LEMMA NextInv == Inv /\ [Next]_vars => Inv'
<1> SUFFICES ASSUME Inv, [Next]_vars PROVE Inv'
  OBVIOUS
<1>1. CASE Clients
  BY <1>1, BeginUploadInv, BeginDeleteInv, BeginMoveInv, ListFilesForDeleteInv,
     BucketChangesInv DEF Clients
<1>2. CASE CrawlStart \/ CrawlSweep
  BY <1>2, CrawlStartInv, CrawlSweepInv
<1>3. ASSUME NEW t \in Tx, TxStep(t) \/ TxFault(t) PROVE Inv'
  BY <1>3, PurgeStepsInv, FilesStmtInv, PruneStmtInv, PruneDirInv, InsertDirInv, StmtDoneInv, CommitInv, AbortsInv
     DEF TxStep
<1>4. CASE UNCHANGED vars
  <2>1. UNCHANGED <<obj, fkey, fresh, dirs, tx, crawl, hist, ops, faults>>
    BY <1>4 DEF vars, tables
  <2>2. obj' \subseteq Key /\ ops' \in 0 .. MaxOps
    BY <2>1 DEF Inv, Types, TableTypes, OtherTypes
  <2> QED
    BY <2>1, <2>2, BucketInv
<1> QED
  BY <1>1, <1>2, <1>3, <1>4 DEF Next

\* The invariant, for any keys, clients, and number of requests and faults.
THEOREM DirectoryInvariant == Spec => []Inv
  BY InitInv, NextInv, PTL DEF Spec

\* Every variable keeps its type; the root, which has no name, is never
\* stored as a directory.
THEOREM DirectoriesTypeCorrect == Spec => []TypeOK
<1>1. Inv => TypeOK
  <2> SUFFICES ASSUME Inv PROVE TypeOK
    OBVIOUS
  <2>1. TableTypes /\ TxTypes /\ OtherTypes
    BY DEF Inv, Types
  <2>2. dirs \subseteq Dir \ {Root}
    <3>1. \A k \in Key : Root \notin Ancestors(k)
      BY AncestorIsOutside
    <3> QED
      BY <2>1, <3>1 DEF TableTypes, Dir, AllAncestors
  <2>3. op \in [Tx -> {"none", "upload", "delete", "move", "list", "purge", "upsert", "sweep"}]
    BY <2>1 DEF TxTypes, Pruners, Inserters
  <2> QED
    BY <2>1, <2>2, <2>3 DEF TypeOK, TableTypes, TxTypes, OtherTypes, Labels, Rows
<1> QED
  BY <1>1, DirectoryInvariant, PTL

\* UpsertFiles inserts the ancestors of its keys and PruneDirectoriesForKeys
\* deletes the empty ones in their own transactions: a file lacks a directory
\* only if a transaction that inserts overlapped one that prunes since the
\* last undisturbed crawl.
THEOREM LackOnlyAfterRace == Spec => []MissingOnlyAfterRace
<1>1. Inv => MissingOnlyAfterRace
  BY DEF Inv
<1> QED
  BY <1>1, DirectoryInvariant, PTL

\* A directory without a file under it is left only by two pruning
\* transactions that overlapped, each keeping what the other's files still
\* hold in its snapshot, or by a DeleteDirectory that deleted rows which had
\* moved since it listed them and pruned above their old keys.
THEOREM OrphanOnlyAfterPrunes == Spec => []OrphanOnlyAfterRace
<1>1. Inv => OrphanOnlyAfterRace
  BY DEF Inv
<1> QED
  BY <1>1, DirectoryInvariant, PTL
=============================================================================
