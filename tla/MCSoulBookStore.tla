-------------------------- MODULE MCSoulBookStore --------------------------
(***************************************************************************)
(* Two books of one chapter each, with two pages and one; requests that    *)
(* meet in the same rows.                                                  *)
(***************************************************************************)
EXTENDS SoulBookStore, TLC

CONSTANTS bookA, bookB, chapA, chapB, pageA, pageB, pageC, ribbon1,
          newBooks, newChapters, newPages, newRibbons,    \* ids to spare
          dear, hello, again

MCBooks    == {bookA, bookB} \cup newBooks
MCChapters == {chapA, chapB} \cup newChapters
MCPages    == {pageA, pageB, pageC} \cup newPages
MCRibbons  == {ribbon1} \cup newRibbons

MCCountWords == [c \in {dear, hello, again} |-> IF c = again THEN 1 ELSE 2]

At(b, ch, p) == [book |-> b, chapter |-> ch, page |-> p]
AtA == At(bookA, chapA, pageA)
AtB == At(bookB, chapB, pageB)
AtC == At(bookA, chapA, pageC)
None == At(Nowhere, Nowhere, Nowhere)

\* A library nobody has opened since it was made.
Start ==
    bookA :> NewBook @@ bookB :> NewBook
    @@ chapA :> NewChapter(AtA, 1) @@ chapB :> NewChapter(AtB, 1)
    @@ pageA :> NewPage(AtA, 1, dear) @@ pageB :> NewPage(AtB, 1, dear)
    @@ pageC :> NewPage(AtC, 2, dear)

\* A library in use: everything was opened, and page A was the last one closed.
Warm ==
    Start @@ ribbon1 :> AtA
    @@ [k \in {Recent(x) : x \in {bookA, bookB, chapA, chapB}} |-> <<>>]

Req(op, kind, at, changes) == [op |-> op, kind |-> kind, at |-> at, changes |-> changes]

Text(x) == [content |-> x]
Deletes == {Req("edit", kind, AtA, [deleted |-> TRUE]) : kind \in Kinds}
Saves   == {Req("edit", "page", AtA, Text(x)) : x \in {dear, hello, again}}
Renumbers == {Req("edit", "page", AtA, [number |-> 2]), Req("edit", "chapter", AtA, [number |-> 2])}
ShelfEdits == {Req("edit", "book", AtA, [archived |-> TRUE]), Req("edit", "book", AtA, [favorite |-> TRUE])}
Nulls == {Req("edit", kind, AtA, [number |-> Null]) : kind \in {"chapter", "page"}}
         \cup {Req("edit", "book", AtA, [favorite |-> Null])}
Openings == {Req("open", kind, AtA, <<>>) : kind \in {"book", "chapter"}}
NewRows  == {Req("create", kind, AtA, <<>>) : kind \in Kinds} \cup {Req("create", "page", AtA, Text(hello))}
Closings == {Req("close", "page", AtA, Text(hello)), Req("close", "page", AtB, Text(again)),
             Req("close", "page", AtC, <<>>)}
Reopens  == {Req("reopen", "page", None, <<>>)}

AllRequests == Deletes \cup Saves \cup Renumbers \cup ShelfEdits \cup Nulls \cup Openings \cup NewRows
               \cup Closings \cup Reopens

\* The requests that write more than one row, and a deletion under them.
LongRequests == Closings \cup Openings \cup {Req("edit", "chapter", AtA, [deleted |-> TRUE])}
=============================================================================
