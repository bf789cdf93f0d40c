--------------------------- MODULE MCWebRequests ---------------------------
(* A TLC instance of WebRequests. *)
EXTENDS WebRequests, TLC

MCText == {"", "a", "a ", "b"}
MCInput == {"", "a ", "b"}
MCTrim == [t \in MCInput |-> IF t = "a " THEN "a" ELSE t]

\* Segments, with what adding a new folder's name to one may give.
MCName == {"", "docs", "x", "y", "..", "a", " a", "new", "docsa", "docs a", "f", ".index",
           "docs..", "docs.index"}
MCTrimStart == [n \in MCName |-> IF n = " a" THEN "a" ELSE n]
MCTrimEnd == [n \in MCName |-> n]
MCNewNames == {" a", "..", ".index"}

MCFolders == {<<"docs", "">>, <<"docs", "x", "">>, <<"", "">>}
MCKeys == {<<"f">>, <<"docs", "x", "f">>, <<"", "f">>, <<"docs", "">>}

MCDigits == {"7", "007", "70"}
MCBigInt == [d \in MCDigits |-> IF d = "70" THEN 70 ELSE 7]
MCToString == (7 :> "7") @@ (70 :> "70")
MCIndexPrefix == <<".index", "">>

\* URLs with defaults left out, with legal, illegal and ill-typed parameters,
\* and the two orders of one listing.
MCLinks ==
    {[route |-> "/", search |-> [path |-> <<"docs">>]],
     [route |-> "/", search |-> [path |-> <<"docs">>, order |-> "desc", sort |-> "junk"]],
     [route |-> "/search", search |-> [query |-> NotAString, type |-> "image/",
                                       sort |-> NotAString, order |-> "desc"]],
     [route |-> "/recents", search |-> [sort |-> "junk"]],
     [route |-> "/file", search |-> [id |-> "007"]],
     [route |-> "/file", search |-> [id |-> "x"]],
     [route |-> "/photos", search |-> [sort |-> "size"]]}

\* Every field on its own, zero or not, in an image with nothing else, with a
\* camera, with coordinates, and with a title.
MCImages ==
    LET alone == UNION {[{f} -> TagValue(f)] : f \in Field}
        beside == {<<>>, [cameraMake |-> "text"], [xmpTitle |-> "text"],
                   [gpsLatitude |-> "number", gpsLongitude |-> "number"]}
    IN  {a @@ b : a \in alone, b \in beside}
=============================================================================
