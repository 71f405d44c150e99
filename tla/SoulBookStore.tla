--------------------------- MODULE SoulBookStore ---------------------------
(***************************************************************************)
(* The library of one user (backend/app/services/soulbook_service.py and   *)
(* the routes of api/routes/soulbooks.py): books, chapters and pages with  *)
(* soft deletion and numbering, the ribbon bookmark and the recent rows,   *)
(* under requests that run at the same time.                               *)
(*                                                                         *)
(* A request is a database transaction, one step per SQL statement.  The   *)
(* database runs at READ COMMITTED: a statement sees what is committed and *)
(* what its own transaction wrote, and a row that was written stays locked *)
(* until its transaction ends.  The ORM keeps the first version of a row   *)
(* that it reads, and an UPDATE sets only the columns that differ from it. *)
(* Titles, covers, timestamps and the other columns that nobody reads back *)
(* are left out; a null title ends like the nulls that are modelled.       *)
(***************************************************************************)
EXTENDS Naturals, Sequences, FiniteSets

CONSTANTS Clients,      \* requests, each running once on a worker thread
          Requests,     \* the requests clients may send
          Books, Chapters, Pages, Ribbons,    \* ids of rows
          Nowhere,      \* no row
          Null,         \* NULL, which no column here may hold
          Contents,     \* texts of a page
          DearDiary,    \* the text a page starts with
          CountWords,   \* the words of a text
          Library,      \* the rows of the database at the start
          MaxRunning    \* requests the server runs at the same time

\* The function f, and g where f has no value.
Over(f, g) == [x \in DOMAIN f \cup DOMAIN g |-> IF x \in DOMAIN f THEN f[x] ELSE g[x]]

Ids == Books \cup Chapters \cup Pages
Kinds == {"book", "chapter", "page"}
Pool(kind) == CASE kind = "book" -> Books [] kind = "chapter" -> Chapters [] kind = "page" -> Pages

\* soul_recent_books and soul_recent_chapters: unique on the row they are about.
Recent(id) == <<"recent", id>>
Rows == Ids \cup Ribbons \cup {Recent(id) : id \in Books \cup Chapters}

\* Where a URL, or the ribbon, points.
Address == [book : Books \cup {Nowhere}, chapter : Chapters \cup {Nowhere}, page : Pages \cup {Nowhere}]

Columns == {"deleted", "archived", "favorite", "book", "chapter", "number", "content", "words", "page"}

NewBook == [deleted |-> FALSE, archived |-> FALSE, favorite |-> FALSE]
NewChapter(parent, number) == [deleted |-> FALSE, book |-> parent.book, number |-> number]
NewPage(parent, number, text) ==
    [deleted |-> FALSE, book |-> parent.book, chapter |-> parent.chapter, number |-> number,
     content |-> text, words |-> CountWords[text]]

\* The columns that a request may assign to a row of a kind.
Editable(kind) ==
    CASE kind = "book"    -> {"deleted", "archived", "favorite"}
      [] kind = "chapter" -> {"deleted", "number"}
      [] kind = "page"    -> {"deleted", "content", "number"}

\* Ids of different tables are not confused.  Nothing restores a row.  The schemas of
\* book, chapter and page let a null through for what is optional in them.
ASSUME StoreAssumption ==
    /\ Books \cap Chapters = {} /\ Books \cap Pages = {} /\ Chapters \cap Pages = {}
    /\ Nowhere \notin Rows /\ Ribbons \cap Ids = {}
    /\ \A id \in Ids \cup {Nowhere} : Recent(id) \notin Ids \cup Ribbons \cup {Nowhere}
    /\ DearDiary \in Contents /\ Null \notin Contents \cup Nat
    /\ CountWords \in [Contents -> Nat]
    /\ MaxRunning \in Nat \ {0}
    /\ \A r \in Requests :
          /\ r.op \in {"edit", "open", "create", "close", "reopen"} /\ r.kind \in Kinds
          /\ r.op = "open" => r.kind \in {"book", "chapter"}
          /\ r.op = "close" => r.kind = "page" /\ DOMAIN r.changes \subseteq {"content"}
          /\ r.at \in Address
          /\ DOMAIN r.changes \subseteq Editable(r.kind)
          /\ "deleted" \in DOMAIN r.changes => r.changes["deleted"] = TRUE
          /\ "number" \in DOMAIN r.changes => r.changes["number"] \in Nat \cup {Null}
          /\ "archived" \in DOMAIN r.changes => r.changes["archived"] # Null
          /\ "content" \in DOMAIN r.changes => r.changes["content"] \in Contents

-----------------------------------------------------------------------------
(* A library in order *)

\* Each row has the columns of its table.
Shaped(db) ==
    /\ DOMAIN db \subseteq Rows /\ IsFiniteSet(DOMAIN db)
    /\ \A k \in Books \cap DOMAIN db : DOMAIN db[k] = {"deleted", "archived", "favorite"}
    /\ \A k \in Chapters \cap DOMAIN db :
          DOMAIN db[k] = {"deleted", "book", "number"} /\ db[k].number \in Nat
    /\ \A k \in Pages \cap DOMAIN db :
          /\ DOMAIN db[k] = {"deleted", "book", "chapter", "number", "content", "words"}
          /\ db[k].number \in Nat
    /\ \A k \in Ribbons \cap DOMAIN db :
          DOMAIN db[k] = {"book", "chapter", "page"} /\ db[k].page \in Pages

Counted(db) == \A k \in Pages \cap DOMAIN db : db[k].words = CountWords[db[k].content]

\* The book and the chapter of a ribbon are those of its page.
Marked(db) ==
    \A k \in Ribbons \cap DOMAIN db :
        /\ db[k].page \in DOMAIN db
        /\ db[k].book = db[db[k].page].book /\ db[k].chapter = db[db[k].page].chapter

Siblings(db, j, k) ==
    \/ {j, k} \subseteq Chapters /\ db[j].book = db[k].book
    \/ {j, k} \subseteq Pages /\ db[j].chapter = db[k].chapter

Numbered(db) ==
    \A j, k \in (Chapters \cup Pages) \cap DOMAIN db :
        j # k /\ Siblings(db, j, k) /\ db[j].number = db[k].number => db[j].deleted \/ db[k].deleted

ASSUME LibraryAssumption ==
    Shaped(Library) /\ Counted(Library) /\ Marked(Library) /\ Numbered(Library)

VARIABLES
    rows,     \* the committed rows
    tx,       \* what each client's request is doing
    acked     \* history: the content of each page's last acknowledged save

vars == <<rows, tx, acked>>

-----------------------------------------------------------------------------
(* The statements of each request *)

Do(verb, kind) == [do |-> verb, kind |-> kind]

\* get_book and get_chapter with touch.
Opens(kind) == <<Do("find", kind), Do("recall", kind), Do("touch", kind), Do("upsert", kind)>>

Creates(kind) ==
    CASE kind = "book"    -> <<Do("insert", "book")>>
      [] kind = "chapter" -> <<Do("find", "book"), Do("number", "chapter"), Do("insert", "chapter")>>
      [] kind = "page"    -> <<Do("find", "chapter"), Do("number", "page"), Do("insert", "page")>>

\* "edit" is every request that loads one row and assigns columns: rename and
\* update, archive, restore, soft delete, save and autosave.
Program(r) ==
    CASE r.op = "edit"   -> <<Do("find", r.kind), Do("save", r.kind)>>
      [] r.op = "open"   -> Opens(r.kind)
      [] r.op = "create" -> Creates(r.kind)
      [] r.op = "close"  -> (IF DOMAIN r.changes = {} THEN <<>> ELSE <<Do("find", "page"), Do("save", "page")>>)
                            \o <<Do("find", "page"), Do("ribbon", "page"), Do("tie", "page")>>
                            \o Opens("book") \o Opens("chapter") \o <<Do("find", "page")>>
      [] r.op = "reopen" -> <<Do("aim", "page"), Do("try", "page"),
                              Do("find", "book"), Do("find", "chapter"), Do("find", "page")>>

-----------------------------------------------------------------------------
(* Transactions *)

Unsent == [status |-> "unsent", request |-> <<>>, todo |-> <<>>, at |-> <<>>,
           read |-> <<>>, dirty |-> <<>>, number |-> 0, ribbon |-> Nowhere, known |-> FALSE]

Running(c) == tx[c].status = "running"
Doing(c, verb) == Running(c) /\ tx[c].todo # <<>> /\ Head(tx[c].todo).do = verb
Kind(c) == Head(tx[c].todo).kind
Row(c)  == tx[c].at[Kind(c)]

\* What a statement of c sees: the committed rows under its own writes.
Known(c)   == DOMAIN rows \cup DOMAIN tx[c].dirty
Seen(c, k) == IF k \notin DOMAIN tx[c].dirty THEN rows[k]
              ELSE IF k \in DOMAIN rows THEN Over(tx[c].dirty[k], rows[k]) ELSE tx[c].dirty[k]

\* A row written by another transaction that has not ended.
LockedFor(c, k) == \E d \in Clients \ {c} : k \in DOMAIN tx[d].dirty

\* The columns an UPDATE sets: those that differ from the version c read first.
Changed(c, k, values) ==
    LET differing == {x \in DOMAIN values : values[x] # tx[c].read[k][x]}
    IN  [x \in differing |-> values[x]]

Goes(c, t) == tx' = [tx EXCEPT ![c] = [t EXCEPT !.todo = Tail(@)]]

\* The ORM's copy of a row stays as it was first read.
Load(t, k, row) == [t EXCEPT !.read = Over(@, [x \in {k} |-> row])]

Write(t, k, values) ==
    [t EXCEPT !.dirty = Over([x \in {k} |-> IF k \in DOMAIN @ THEN Over(values, @[k]) ELSE values], @)]

\* The session is never closed.
SlipEnds(c, status) ==
    /\ tx' = [tx EXCEPT ![c].status = status, ![c].todo = <<>>]
    /\ UNCHANGED <<rows, acked>>

\* get_db closes the session of a request that ends without a commit: the
\* transaction is rolled back and its locks are gone.
Ends(c, status) ==
    /\ tx' = [tx EXCEPT ![c] = [Unsent EXCEPT !.status = status, !.request = tx[c].request]]
    /\ UNCHANGED <<rows, acked>>

-----------------------------------------------------------------------------
(* The life of a request *)

Init ==
    /\ rows = Library
    /\ tx = [c \in Clients |-> Unsent]
    /\ acked = [k \in DOMAIN Library \cap Pages |-> Library[k].content]

Send(c) ==
    /\ tx[c].status = "unsent"
    /\ Cardinality({d \in Clients : Running(d)}) < MaxRunning
    /\ \E r \in Requests :
          tx' = [tx EXCEPT ![c] = [Unsent EXCEPT !.status = "running", !.request = r,
                                                 !.todo = Program(r), !.at = r.at]]
    /\ UNCHANGED <<rows, acked>>

-----------------------------------------------------------------------------
(* Reading *)

\* The row is there, is not deleted, and hangs where the URL says.
Found(c) ==
    /\ Row(c) \in Known(c)
    /\ LET row == Seen(c, Row(c)) IN
          /\ ~row.deleted
          /\ Kind(c) \in {"chapter", "page"} => row.book = tx[c].at.book
          /\ Kind(c) = "page" => row.chapter = tx[c].at.chapter

\* get_book, get_chapter and get_page: the row, or 404.
Find(c) ==
    /\ Doing(c, "find")
    /\ IF Found(c)
       THEN Goes(c, Load(tx[c], Row(c), Seen(c, Row(c)))) /\ UNCHANGED <<rows, acked>>
       ELSE Ends(c, "not_found")

\* get_bookmark asks whether the page still exists before it answers.
Try(c) ==
    /\ Doing(c, "try")
    /\ IF Found(c)
       THEN Goes(c, Load(tx[c], Row(c), Seen(c, Row(c)))) /\ UNCHANGED <<rows, acked>>
       ELSE Ends(c, "no_bookmark")

\* One of the user's bookmarks, in no particular order; there should be one.
FindRibbon(c) ==
    /\ Doing(c, "ribbon")
    /\ IF Ribbons \cap Known(c) = {}
       THEN Goes(c, [tx[c] EXCEPT !.ribbon = Nowhere])
       ELSE \E k \in Ribbons \cap Known(c) :
               Goes(c, Load([tx[c] EXCEPT !.ribbon = k], k, Seen(c, k)))
    /\ UNCHANGED <<rows, acked>>

\* The first statement of get_bookmark.
Aim(c) ==
    /\ Doing(c, "aim")
    /\ IF Ribbons \cap Known(c) = {}
       THEN Ends(c, "no_bookmark")
       ELSE /\ \E k \in Ribbons \cap Known(c) : Goes(c, [tx[c] EXCEPT !.at = Seen(c, k)])
            /\ UNCHANGED <<rows, acked>>

\* Adds a recent row without looking for one.
SlipRecall(c) ==
    Doing(c, "recall") /\ Goes(c, [tx[c] EXCEPT !.known = FALSE]) /\ UNCHANGED <<rows, acked>>

\* _upsert_recent_book and _upsert_recent_chapter look for the row first.
Recall(c) ==
    /\ Doing(c, "recall")
    /\ Goes(c, [tx[c] EXCEPT !.known = Recent(Row(c)) \in Known(c)])
    /\ UNCHANGED <<rows, acked>>

\* The children of the parent in the URL that are not deleted.
Children(c) ==
    {k \in Pool(Kind(c)) \cap Known(c) :
        /\ ~Seen(c, k).deleted
        /\ IF Kind(c) = "chapter" THEN Seen(c, k).book = tx[c].at.book
                                  ELSE Seen(c, k).chapter = tx[c].at.chapter}

\* Counts the children instead of asking for the greatest number.
SlipCountChildren(c) == 1 + Cardinality(Children(c))

NextNumber(c) ==
    LET numbers == {0} \cup {Seen(c, k).number : k \in Children(c)}
    IN  1 + (CHOOSE n \in numbers : \A m \in numbers : m <= n)

TakeNumber(c) ==
    /\ Doing(c, "number")
    /\ Goes(c, [tx[c] EXCEPT !.number = NextNumber(c)])
    /\ UNCHANGED <<rows, acked>>

-----------------------------------------------------------------------------
(* Writing *)

\* Forgets the counts.
SlipAssigned(r) == r.changes

\* What an edit assigns: the counts of a page follow the content it is given.
Assigned(r) ==
    IF "content" \in DOMAIN r.changes THEN Over(r.changes, [words |-> CountWords[r.changes.content]])
    ELSE r.changes

\* An UPDATE waits for the row's lock; without a changed column there is none.
Update(c, k, values) ==
    /\ DOMAIN values = {} \/ ~LockedFor(c, k)
    /\ Goes(c, IF DOMAIN values = {} THEN tx[c] ELSE Write(tx[c], k, values))
    /\ UNCHANGED <<rows, acked>>

\* A null is an IntegrityError, which nobody handles; the database sees it before it
\* waits for the row.
Stores(c, values) ==
    IF \E x \in DOMAIN values : values[x] = Null THEN Ends(c, "null_refused")
    ELSE Update(c, Row(c), values)

\* The whole row is written back, as it was read.
SlipSave(c) ==
    Doing(c, "save") /\ Stores(c, Over(Assigned(tx[c].request), tx[c].read[Row(c)]))

\* Takes a text with as many words for the text that is stored.
SlipSameWords(c) ==
    Doing(c, "save") /\
    LET values == Assigned(tx[c].request) IN
    Stores(c, IF "words" \in DOMAIN values /\ values.words = tx[c].read[Row(c)].words
              THEN <<>> ELSE Changed(c, Row(c), values))

Save(c) == Doing(c, "save") /\ Stores(c, Changed(c, Row(c), Assigned(tx[c].request)))

\* last_opened_at is a new time, so this UPDATE always happens.
Touch(c) ==
    /\ Doing(c, "touch")
    /\ ~LockedFor(c, Row(c))
    /\ Goes(c, Write(tx[c], Row(c), <<>>))
    /\ UNCHANGED <<rows, acked>>

\* An INSERT with a unique key waits for another uncommitted one, and is an
\* IntegrityError, which nobody handles, once the other is committed.
Upsert(c) ==
    LET k == Recent(Row(c)) IN
    /\ Doing(c, "upsert")
    /\ ~LockedFor(c, k)
    /\ IF ~tx[c].known /\ k \in DOMAIN rows
       THEN Ends(c, "key_taken")
       ELSE Goes(c, Write(tx[c], k, <<>>)) /\ UNCHANGED <<rows, acked>>

\* Keys that no row has.  A new row takes any of them; which one makes no
\* difference, and there are always some to spare.
Spare(ids) ==
    {k \in ids : k \notin DOMAIN rows /\ \A d \in Clients : k \notin DOMAIN tx[d].dirty}

Adds(c, ids, row) ==
    /\ Spare(ids) # {}
    /\ Goes(c, Write(tx[c], CHOOSE k \in Spare(ids) : TRUE, row))
    /\ UNCHANGED <<rows, acked>>

\* A ribbon more with each close.
SlipTie(c) ==
    /\ Doing(c, "tie")
    /\ Adds(c, Ribbons, tx[c].at)

\* The ribbon keeps its chapter.
SlipTieHalf(c) ==
    /\ Doing(c, "tie")
    /\ IF tx[c].ribbon = Nowhere
       THEN Adds(c, Ribbons, tx[c].at)
       ELSE Update(c, tx[c].ribbon, Changed(c, tx[c].ribbon, [book |-> tx[c].at.book, page |-> tx[c].at.page]))

\* set_bookmark moves the ribbon that was found, or ties the first one.
Tie(c) ==
    /\ Doing(c, "tie")
    /\ IF tx[c].ribbon = Nowhere
       THEN Adds(c, Ribbons, tx[c].at)
       ELSE Update(c, tx[c].ribbon, Changed(c, tx[c].ribbon, tx[c].at))

FirstText(r) == IF "content" \in DOMAIN r.changes THEN r.changes.content ELSE DearDiary

Insert(c) ==
    /\ Doing(c, "insert")
    /\ Adds(c, Pool(Kind(c)),
            CASE Kind(c) = "book"    -> NewBook
              [] Kind(c) = "chapter" -> NewChapter(tx[c].at, tx[c].number)
              [] Kind(c) = "page"    -> NewPage(tx[c].at, tx[c].number, FirstText(tx[c].request)))

\* The route's commit, and its answer.
Commit(c) ==
    /\ Running(c) /\ tx[c].todo = <<>>
    /\ rows' = [k \in Known(c) |-> Seen(c, k)]
    /\ acked' = [k \in Pages \cap Known(c) |->
          IF k = tx[c].request.at.page /\ tx[c].request.op \in {"edit", "close"}
                /\ "content" \in DOMAIN tx[c].request.changes
          THEN tx[c].request.changes.content
          ELSE IF k \in DOMAIN acked THEN acked[k] ELSE Seen(c, k).content]
    /\ tx' = [tx EXCEPT ![c] = [Unsent EXCEPT !.status = "ok", !.request = tx[c].request]]

Statement(c) ==
    \/ Find(c) \/ Try(c) \/ FindRibbon(c) \/ Aim(c) \/ Recall(c) \/ TakeNumber(c)
    \/ Save(c) \/ Touch(c) \/ Upsert(c) \/ Tie(c) \/ Insert(c) \/ Commit(c)

Next == \E c \in Clients : Send(c) \/ Statement(c)

Spec == Init /\ [][Next]_vars

\* A worker thread runs its request on; only a row lock makes it wait.
FairSpec == Spec /\ \A c \in Clients : WF_vars(Statement(c))

-----------------------------------------------------------------------------
(* Properties *)

Answered(c) == tx[c].status \notin {"unsent", "running"}
Edited == {c \in Clients : tx[c].status = "ok" /\ tx[c].request.op \in {"edit", "close"}}
Target(c) == tx[c].request.at[tx[c].request.kind]
Settled == \A c \in Clients : ~Running(c)
Ribboned == Ribbons \cap DOMAIN rows

\* Requests that change different columns of one row compose: what the only
\* request that changed a column gave it is what the row holds, whatever copies
\* of the row the others had read before they wrote.
NoEditUndone ==
    Settled =>
        \A c \in Edited, x \in Columns :
            \/ x \notin DOMAIN tx[c].request.changes
            \/ rows[Target(c)][x] = tx[c].request.changes[x]
            \/ \E d \in Edited \ {c} : Target(d) = Target(c) /\ x \in DOMAIN tx[d].request.changes

Deleted == {k \in Ids \cap DOMAIN rows : "deleted" \in DOMAIN rows[k] /\ rows[k].deleted}

\* Nothing brings a deleted book, chapter or page back, not even a request that
\* read the row before it was deleted and writes it afterwards.
DeletedStaysDeleted == [][Deleted \subseteq Deleted']_vars

\* Requests never wait for each other in a circle, nor for one that has ended.
EveryRequestEnds == \A c \in Clients : Running(c) ~> Answered(c)

\* One ribbon per user.
OneRibbon == Cardinality(Ribboned) <= 1

\* The ribbon marks one page: its book and its chapter are that page's.
RibbonMarksOnePage == Marked(rows)

\* The counts of a page are the counts of its content.
CountsMatchContent == Counted(rows)

\* A page holds what its last acknowledged save gave it.
LastSaveIsStored == \A k \in DOMAIN acked : rows[k].content = acked[k]

\* As long as nobody assigns numbers, the chapters of a book and the pages of a
\* chapter that are not deleted have each a number of their own.
NumbersAreUnique ==
    (\A c \in Clients : Running(c) \/ tx[c].status = "ok" => "number" \notin DOMAIN tx[c].request.changes)
    => Numbered(rows)

\* As long as requests do not overlap, none meets the unique key of the recent rows,
\* be it with the row of an earlier request or with one that it added itself.
RecentRowsNeverClash == \A c \in Clients : tx[c].status # "key_taken"
=============================================================================
