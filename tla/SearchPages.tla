---------------------------- MODULE SearchPages ----------------------------
(***************************************************************************)
(* Keyset pagination of the search service: what one page of ListFiles,    *)
(* ListDirectory and SearchDirectories holds, given what the two           *)
(* statements behind it read.  Directory names are numbers in path order;  *)
(* a file row is [rank, id], rank standing for the value of the sort field *)
(* (key, size, modification or capture time) and id breaking ties.         *)
(***************************************************************************)
EXTENDS Integers, Sequences, FiniteSets

\* PageToken: the phase a page stopped in and the last row it returned.
\* lastId 0 is a token of the files phase that has returned no file yet.
NoToken == [phase |-> "none", lastDir |-> 0, lastRank |-> 0, lastId |-> 0]
newDirCursor(d) == [phase |-> "directories", lastDir |-> d, lastRank |-> 0, lastId |-> 0]
newDirFilesCursor(last) ==
    [phase |-> "files", lastDir |-> 0, lastRank |-> last.rank, lastId |-> last.id]
NoFile == [rank |-> 0, id |-> 0]

Before(a, b) == a.rank < b.rank \/ (a.rank = b.rank /\ a.id < b.id)

\* The first n members of a finite set in an order, as ORDER BY ... LIMIT does.
FirstN(S, n, Less(_, _)) ==
    LET position(x) == Cardinality({y \in S : Less(y, x)}) + 1
        size == IF Cardinality(S) < n THEN Cardinality(S) ELSE n
    IN [i \in 1..size |-> CHOOSE x \in S : position(x) = i]

\* One extra row tells whether there is another page.
ListChildDirectories(dirs, token, limit) ==
    FirstN({d \in dirs : token.phase = "none" \/ d > token.lastDir}, limit + 1,
           LAMBDA a, b : a < b)

listFiles_FromCursor(files, token, limit) ==
    FirstN({f \in files : token.lastId = 0 \/
                ~Before(f, [rank |-> token.lastRank, id |-> token.lastId])},
           limit, Before)

\* The files after the token's, by (sort value, id).
listFiles(files, token, limit) ==
    FirstN({f \in files : token.lastId = 0 \/
                Before([rank |-> token.lastRank, id |-> token.lastId], f)},
           limit, Before)

\* A page stays within the directories while more than `limit` of them are left.
DirectoriesFill(fetched, limit) == Len(fetched) > limit

\* ListDirectory, from the directories it fetched and, when they do not fill
\* the page, the files fetched for the room that is left.
DirectoriesPage(fetched, limit) ==
    [dirs |-> SubSeq(fetched, 1, limit), files |-> <<>>,
     next |-> newDirCursor(fetched[limit])]

FilesPage_NoSentinel(dirs, fetched, limit) ==
    LET remaining == limit - Len(dirs)
        more == remaining > 0 /\ Len(fetched) > remaining
    IN [dirs |-> dirs,
        files |-> IF Len(fetched) > remaining THEN SubSeq(fetched, 1, remaining) ELSE fetched,
        next |-> IF more THEN newDirFilesCursor(fetched[remaining]) ELSE NoToken]

FilesPage(dirs, fetched, limit) ==
    LET remaining == limit - Len(dirs)
        more == Len(fetched) > remaining
        files == IF more THEN SubSeq(fetched, 1, remaining) ELSE fetched
        last == IF remaining > 0 THEN fetched[remaining] ELSE NoFile
    IN [dirs |-> dirs, files |-> files,
        next |-> IF more THEN newDirFilesCursor(last) ELSE NoToken]

\* The cursor the files phase starts from: its own, or none when the page came
\* out of the directories phase.
FilesToken(token) == IF token.phase = "files" THEN token ELSE NoToken
=============================================================================
