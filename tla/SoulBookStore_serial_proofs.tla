--------------------- MODULE SoulBookStore_serial_proofs ---------------------
(***************************************************************************)
(* What the library keeps when the server runs one request at a time, for  *)
(* every set of clients, requests and rows.                                *)
(*                                                                         *)
(* A request works on what it sees, the rows under its own writes (View).  *)
(* A library in order stays in order under each of the writes that a       *)
(* request does (lemmas KeptInOrder to TiedInOrder); that each write is    *)
(* such a one follows from what the statements before it read (Prepared):  *)
(* the row to save, the recent row, the page of the bookmark, the numbers  *)
(* of the siblings.  A commit makes what the request saw the rows.  With   *)
(* two requests at a time none of this holds, because what the one has     *)
(* read the other may change before it writes.                             *)
(***************************************************************************)
EXTENDS SoulBookStore_proofs, WellFoundedInduction

-----------------------------------------------------------------------------
(* Writing to a library in order *)

\* db with `values` written to row k.
Put(db, k, values) ==
    [j \in DOMAIN db \cup {k} |->
        IF j # k THEN db[j] ELSE IF k \in DOMAIN db THEN Over(values, db[k]) ELSE values]

InOrder(db) == Shaped(db) /\ Counted(db) /\ Marked(db)

\* What is in the rows after a row that is there was written;
LEMMA PutOld ==
    ASSUME NEW db, NEW k \in DOMAIN db, NEW values
    PROVE  /\ DOMAIN Put(db, k, values) = DOMAIN db
           /\ \A j \in DOMAIN db \ {k} : Put(db, k, values)[j] = db[j]
           /\ DOMAIN Put(db, k, values)[k] = DOMAIN db[k] \cup DOMAIN values
           /\ \A x \in DOMAIN values : Put(db, k, values)[k][x] = values[x]
           /\ \A x \in DOMAIN db[k] \ DOMAIN values : Put(db, k, values)[k][x] = db[k][x]
BY DEF Put, Over

\* and after a row was added.
LEMMA PutNew ==
    ASSUME NEW db, NEW k, k \notin DOMAIN db, NEW values
    PROVE  /\ DOMAIN Put(db, k, values) = DOMAIN db \cup {k}
           /\ \A j \in DOMAIN db : Put(db, k, values)[j] = db[j]
           /\ Put(db, k, values)[k] = values
BY DEF Put

\* A library stays in order when columns of a row are set that may be set.
LEMMA KeptInOrder ==
    ASSUME NEW db, InOrder(db), NEW k \in Ids \cap DOMAIN db, NEW values,
           \A kind \in Kinds : k \in Pool(kind) => DOMAIN values \subseteq Editable(kind) \cup {"words"},
           "words" \in DOMAIN values => k \in Pages,
           "number" \in DOMAIN values => values.number \in Nat,
           k \in Pages => Put(db, k, values)[k].words = CountWords[Put(db, k, values)[k].content]
    PROVE  InOrder(Put(db, k, values))
<1> DEFINE new == Put(db, k, values)
<1>1. /\ DOMAIN new = DOMAIN db
      /\ \A j \in DOMAIN db \ {k} : new[j] = db[j]
      /\ DOMAIN new[k] = DOMAIN db[k] \cup DOMAIN values
      /\ \A x \in DOMAIN values : new[k][x] = values[x]
      /\ \A x \in DOMAIN db[k] \ DOMAIN values : new[k][x] = db[k][x]
  BY PutOld
<1>2. k \in Pages => new[k].words = CountWords[new[k].content]
  OBVIOUS
<1> HIDE DEF new
<1>3. /\ k \in Books => DOMAIN values \subseteq {"deleted", "archived", "favorite"}
      /\ k \in Chapters => DOMAIN values \subseteq {"deleted", "number"}
      /\ k \in Pages => DOMAIN values \subseteq {"deleted", "content", "number", "words"}
  <2>1. k \in Books \/ k \in Chapters => "words" \notin DOMAIN values
    BY StoreAssumption
  <2> QED
    BY <2>1 DEF Kinds, Pool, Editable
<1>4. Shaped(new)
  <2>1. /\ k \in Chapters => new[k].number \in Nat
        /\ k \in Pages => new[k].number \in Nat
    BY <1>1 DEF InOrder, Shaped
  <2>2. /\ k \in Books => DOMAIN new[k] = {"deleted", "archived", "favorite"}
        /\ k \in Chapters => DOMAIN new[k] = {"deleted", "book", "number"}
        /\ k \in Pages => DOMAIN new[k] = {"deleted", "book", "chapter", "number", "content", "words"}
    BY <1>1, <1>3 DEF InOrder, Shaped
  <2>3. k \notin Ribbons
    BY StoreAssumption
  <2> QED
    BY <1>1, <2>1, <2>2, <2>3 DEF InOrder, Shaped
<1>5. Counted(new)
  BY <1>1, <1>2 DEF InOrder, Counted
<1>6. Marked(new)
  <2> SUFFICES ASSUME NEW r \in Ribbons \cap DOMAIN new
               PROVE  /\ new[r].page \in DOMAIN new
                      /\ new[r].book = new[new[r].page].book
                      /\ new[r].chapter = new[new[r].page].chapter
    BY DEF Marked
  <2>1. r # k /\ r \in DOMAIN db /\ new[r] = db[r]
    BY <1>1, StoreAssumption
  <2>2. /\ db[r].page \in DOMAIN db
        /\ db[r].book = db[db[r].page].book
        /\ db[r].chapter = db[db[r].page].chapter
    BY <2>1 DEF InOrder, Marked
  <2>3. CASE db[r].page = k
    <3>1. k \in Pages /\ {"book", "chapter"} \subseteq DOMAIN db[k] \ DOMAIN values
      BY <1>3, <2>1, <2>3 DEF InOrder, Shaped
    <3> QED
      BY <1>1, <2>1, <2>2, <2>3, <3>1
  <2>4. CASE db[r].page # k
    BY <1>1, <2>1, <2>2, <2>4
  <2> QED
    BY <2>3, <2>4
<1> QED
  BY <1>4, <1>5, <1>6 DEF InOrder, new

\* The numbers stay apart when a row is changed, but not its number.
LEMMA KeptNumbered ==
    ASSUME NEW db, InOrder(db), Numbered(db), NEW k \in Ids \cap DOMAIN db, NEW values,
           \A kind \in Kinds : k \in Pool(kind) => DOMAIN values \subseteq Editable(kind) \cup {"words"},
           "number" \notin DOMAIN values,
           "deleted" \in DOMAIN values => values.deleted = TRUE
    PROVE  Numbered(Put(db, k, values))
<1> DEFINE new == Put(db, k, values)
<1>1. /\ DOMAIN new = DOMAIN db
      /\ \A j \in DOMAIN db \ {k} : new[j] = db[j]
      /\ DOMAIN new[k] = DOMAIN db[k] \cup DOMAIN values
      /\ \A x \in DOMAIN values : new[k][x] = values[x]
      /\ \A x \in DOMAIN db[k] \ DOMAIN values : new[k][x] = db[k][x]
  BY PutOld
<1> HIDE DEF new
<1>2. "book" \notin DOMAIN values /\ "chapter" \notin DOMAIN values
  BY DEF Kinds, Pool, Editable, Ids
<1>3. ASSUME NEW j \in (Chapters \cup Pages) \cap DOMAIN db
      PROVE  /\ new[j].number = db[j].number /\ new[j].book = db[j].book
             /\ j \in Pages => new[j].chapter = db[j].chapter
             /\ db[j].deleted => new[j].deleted
  <2>1. CASE j # k
    BY <1>1, <2>1
  <2>2. CASE j = k
    <3>1. {"number", "book", "deleted"} \subseteq DOMAIN db[k] /\ (k \in Pages => "chapter" \in DOMAIN db[k])
      BY <2>2 DEF InOrder, Shaped
    <3>2. new[k].number = db[k].number /\ new[k].book = db[k].book /\ (k \in Pages => new[k].chapter = db[k].chapter)
      BY <1>1, <1>2, <3>1
    <3>3. db[k].deleted => new[k].deleted
      BY <1>1, <3>1
    <3> QED
      BY <2>2, <3>2, <3>3
  <2> QED
    BY <2>1, <2>2
<1>4. \A i, j \in (Chapters \cup Pages) \cap DOMAIN db : Siblings(new, i, j) => Siblings(db, i, j)
  BY <1>3 DEF Siblings
<1>5. Numbered(new)
  BY <1>1, <1>3, <1>4 DEF Numbered
<1> QED
  BY <1>5 DEF new

\* A row that may be added to a library.
Addable(db, k, row) ==
    /\ k \in Rows \ DOMAIN db
    /\ k \in Books => DOMAIN row = {"deleted", "archived", "favorite"}
    /\ k \in Chapters => DOMAIN row = {"deleted", "book", "number"} /\ row.number \in Nat
    /\ k \in Pages => /\ DOMAIN row = {"deleted", "book", "chapter", "number", "content", "words"}
                      /\ row.number \in Nat
                      /\ row.words = CountWords[row.content]
    /\ k \in Ribbons => /\ DOMAIN row = {"book", "chapter", "page"}
                        /\ row.page \in Pages \cap DOMAIN db
                        /\ row.book = db[row.page].book /\ row.chapter = db[row.page].chapter

\* A library stays in order when such a row is added.
LEMMA AddedInOrder ==
    ASSUME NEW db, InOrder(db), NEW k, NEW row, Addable(db, k, row)
    PROVE  InOrder(Put(db, k, row))
<1> DEFINE new == Put(db, k, row)
<1>1. /\ DOMAIN new = DOMAIN db \cup {k} /\ k \notin DOMAIN db
      /\ \A j \in DOMAIN db : new[j] = db[j]
      /\ new[k] = row
  BY DEF Put, Addable
<1> HIDE DEF new
<1>2. Shaped(new)
  <2>1. DOMAIN new \subseteq Rows /\ IsFiniteSet(DOMAIN new)
    BY <1>1, FS_AddElement DEF InOrder, Shaped, Addable
  <2>2. \A j \in DOMAIN new : j = k \/ (j \in DOMAIN db /\ new[j] = db[j])
    BY <1>1
  <2>3. /\ \A j \in Books \cap DOMAIN new : DOMAIN new[j] = {"deleted", "archived", "favorite"}
        /\ \A j \in Ribbons \cap DOMAIN new :
              DOMAIN new[j] = {"book", "chapter", "page"} /\ new[j].page \in Pages
    BY <1>1, <2>2 DEF InOrder, Shaped, Addable
  <2>4. \A j \in Chapters \cap DOMAIN new :
              DOMAIN new[j] = {"deleted", "book", "number"} /\ new[j].number \in Nat
    BY <1>1, <2>2 DEF InOrder, Shaped, Addable
  <2>5. \A j \in Pages \cap DOMAIN new :
              /\ DOMAIN new[j] = {"deleted", "book", "chapter", "number", "content", "words"}
              /\ new[j].number \in Nat
    BY <1>1, <2>2 DEF InOrder, Shaped, Addable
  <2> QED
    BY <2>1, <2>3, <2>4, <2>5 DEF Shaped
<1>3. Counted(new)
  BY <1>1 DEF InOrder, Counted, Addable
<1>4. Marked(new)
  BY <1>1 DEF InOrder, Marked, Addable
<1> QED
  BY <1>2, <1>3, <1>4 DEF InOrder, new

\* The numbers stay apart when a row is added whose number no sibling has.
LEMMA AddedNumbered ==
    ASSUME NEW db, Numbered(db), NEW k, k \notin DOMAIN db, NEW row,
           \A j \in Chapters \cap DOMAIN db :
              k \in Chapters /\ db[j].book = row.book => db[j].deleted \/ db[j].number # row.number,
           \A j \in Pages \cap DOMAIN db :
              k \in Pages /\ db[j].chapter = row.chapter => db[j].deleted \/ db[j].number # row.number
    PROVE  Numbered(Put(db, k, row))
<1> DEFINE new == Put(db, k, row)
<1>1. /\ DOMAIN new = DOMAIN db \cup {k}
      /\ \A j \in DOMAIN db : new[j] = db[j]
      /\ new[k] = row
  BY DEF Put
<1> HIDE DEF new
<1>2. \A i, j \in (Chapters \cup Pages) \cap DOMAIN db : Siblings(new, i, j) => Siblings(db, i, j)
  BY <1>1 DEF Siblings
<1>3. ASSUME NEW i \in (Chapters \cup Pages) \cap DOMAIN new, NEW j \in (Chapters \cup Pages) \cap DOMAIN new,
             i # j, Siblings(new, i, j), new[i].number = new[j].number
      PROVE  new[i].deleted \/ new[j].deleted
  <2>1. CASE i # k /\ j # k
    BY <1>1, <1>2, <1>3, <2>1 DEF Numbered
  <2>2. CASE i = k
    BY <1>1, <1>3, <2>2 DEF Siblings
  <2>3. CASE j = k
    BY <1>1, <1>3, <2>3 DEF Siblings
  <2> QED
    BY <2>1, <2>2, <2>3
<1>4. Numbered(new)
  BY <1>3 DEF Numbered
<1> QED
  BY <1>4 DEF new

\* A library stays in order, and numbered, when its ribbon is tied to a page.
LEMMA TiedInOrder ==
    ASSUME NEW db, InOrder(db), NEW k \in Ribbons \cap DOMAIN db, NEW values,
           DOMAIN values \subseteq {"book", "chapter", "page"},
           Put(db, k, values)[k].page \in Pages \cap DOMAIN db,
           Put(db, k, values)[k].book = db[Put(db, k, values)[k].page].book,
           Put(db, k, values)[k].chapter = db[Put(db, k, values)[k].page].chapter
    PROVE  InOrder(Put(db, k, values)) /\ (Numbered(db) => Numbered(Put(db, k, values)))
<1> DEFINE new == Put(db, k, values)
<1>1. /\ DOMAIN new = DOMAIN db
      /\ \A j \in DOMAIN db \ {k} : new[j] = db[j]
      /\ DOMAIN new[k] = DOMAIN db[k] \cup DOMAIN values
  BY PutOld
<1>2. /\ new[k].page \in Pages \cap DOMAIN db
      /\ new[k].book = db[new[k].page].book /\ new[k].chapter = db[new[k].page].chapter
  OBVIOUS
<1> HIDE DEF new
<1>3. k \notin Ids /\ \A j \in Ids \cap DOMAIN db : new[j] = db[j]
  BY <1>1, StoreAssumption
<1>4. Shaped(new)
  BY <1>1, <1>2, <1>3 DEF InOrder, Shaped, Ids
<1>5. Counted(new)
  BY <1>1, <1>3 DEF InOrder, Counted, Ids
<1>6. Marked(new)
  <2> SUFFICES ASSUME NEW r \in Ribbons \cap DOMAIN db
               PROVE  /\ new[r].page \in DOMAIN db
                      /\ new[r].book = new[new[r].page].book
                      /\ new[r].chapter = new[new[r].page].chapter
    BY <1>1 DEF Marked
  <2>1. new[r].page \in Ids \cap DOMAIN db /\ new[r].book = db[new[r].page].book
        /\ new[r].chapter = db[new[r].page].chapter
    BY <1>1, <1>2 DEF InOrder, Shaped, Marked, Ids
  <2> QED
    BY <1>3, <2>1
<1>7. ASSUME Numbered(db) PROVE Numbered(new)
  BY <1>1, <1>3, <1>7 DEF Numbered, Siblings, Ids
<1> QED
  BY <1>4, <1>5, <1>6, <1>7 DEF InOrder, new

-----------------------------------------------------------------------------
(* The next number *)

\* A set of naturals that is not empty has a least element.
LEMMA LeastNumber ==
    ASSUME NEW S, S \subseteq Nat, S # {}
    PROVE  \E i \in S : \A j \in S : i <= j
<1>1. PICK i \in S : \A j \in S : ~(<<j, i>> \in OpToRel(<, Nat))
  BY NatLessThanWellFounded, WFMin
<1>2. \A j \in S : ~(j < i)
  BY <1>1, Zenon DEF OpToRel
<1> QED
  BY <1>2

\* Numbers in a list are bounded: look at the shortest list that is not.
LEMMA ListBounded ==
    ASSUME NEW n \in Nat, NEW h \in [1..n -> Nat]
    PROVE  \E b \in Nat : \A i \in 1..n : h[i] <= b
<1> DEFINE Bounded(g, m) == \E b \in Nat : \A i \in 1..m : g[i] <= b
           unbounded == {m \in Nat : \E g \in [1..m -> Nat] : ~Bounded(g, m)}
<1>1. unbounded = {}
  <2> SUFFICES ASSUME unbounded # {} PROVE FALSE
    OBVIOUS
  <2>1. PICK m \in unbounded : \A j \in unbounded : m <= j
    BY LeastNumber
  <2>2. PICK g \in [1..m -> Nat] : ~Bounded(g, m)
    BY <2>1
  <2>3. CASE m = 0
    <3>1. \A i \in 1..m : g[i] <= 0
      BY <2>3
    <3> QED
      BY <2>2, <3>1
  <2>4. CASE m # 0
    <3> DEFINE f == [i \in 1..(m - 1) |-> g[i]]
    <3>0. m \in Nat /\ m # 0
      BY <2>1, <2>4
    <3>1. /\ m - 1 \in Nat /\ ~(m <= m - 1) /\ m \in 1..m
          /\ \A i \in 1..m : i = m \/ i \in 1..(m - 1)
          /\ \A i \in 1..(m - 1) : i \in 1..m
      <4>1. m - 1 \in Nat /\ ~(m <= m - 1) /\ m \in 1..m
        BY <3>0
      <4>2. ASSUME NEW i \in 1..m PROVE i = m \/ i \in 1..(m - 1)
        BY <3>0
      <4>3. ASSUME NEW i \in 1..(m - 1) PROVE i \in 1..m
        BY <3>0
      <4> QED
        BY <4>1, <4>2, <4>3
    <3>2. f \in [1..(m - 1) -> Nat] /\ m - 1 \notin unbounded
      BY <2>1, <2>2, <3>1
    <3>3. PICK b \in Nat : \A i \in 1..(m - 1) : f[i] <= b
      BY <3>1, <3>2
    <3>4. g[m] \in Nat /\ \A i \in 1..(m - 1) : g[i] \in Nat /\ g[i] <= b
      BY <2>2, <3>1, <3>3
    <3> DEFINE a == g[m]
    <3>5. a \in Nat /\ b \in Nat
      BY <3>3, <3>4
    <3>6. g[m] = a
      OBVIOUS
    <3> HIDE DEF a
    <3>7. a + b \in Nat /\ a <= a + b /\ \A i \in Nat : i <= b => i <= a + b
      BY <3>5
    <3>8. \A i \in 1..m : g[i] <= a + b
      <4> TAKE i \in 1..m
      <4>1. i = m \/ i \in 1..(m - 1)
        BY <3>1
      <4> QED
        BY <3>4, <3>6, <3>7, <4>1
    <3> QED
      BY <2>2, <3>7, <3>8
  <2> QED
    BY <2>3, <2>4
<1> QED
  BY <1>1

\* Of finitely many numbers, and zero, one is the greatest.
LEMMA GreatestNumber ==
    ASSUME NEW K, IsFiniteSet(K), NEW f \in [K -> Nat]
    PROVE  \E n \in {0} \cup {f[k] : k \in K} : \A m \in {0} \cup {f[k] : k \in K} : m <= n
<1>1. PICK n \in Nat : ExistsSurjection(1..n, K)
  BY FS_NatSurjection
<1>2. PICK g \in [1..n -> K] : \A k \in K : \E i \in 1..n : g[i] = k
  BY <1>1 DEF ExistsSurjection, Surjection
<1> DEFINE h == [i \in 1..n |-> f[g[i]]]
           bounds == {b \in Nat : \A k \in K : f[k] <= b}
<1>3. h \in [1..n -> Nat]
  BY <1>2
<1> HIDE DEF h
<1>4. PICK b \in Nat : \A i \in 1..n : h[i] <= b
  BY <1>3, ListBounded
<1>5. b \in bounds
  BY <1>2, <1>4 DEF h
<1>6. PICK a \in bounds : \A c \in bounds : a <= c
  BY <1>5, LeastNumber
<1>7. a = 0 \/ \E k \in K : f[k] = a
  <2> SUFFICES ASSUME a # 0, \A k \in K : f[k] # a PROVE FALSE
    OBVIOUS
  <2>1. a - 1 \in bounds
    BY <1>6
  <2> QED
    BY <1>6, <2>1
<1> QED
  BY <1>6, <1>7

\* What c sees of the rows.
View(c) == [k \in Known(c) |-> Seen(c, k)]

\* The number of a new chapter or page is above those of its siblings.
LEMMA NextNumberFacts ==
    ASSUME NEW c \in Clients, InOrder(View(c)), Kind(c) \in {"chapter", "page"}
    PROVE  NextNumber(c) \in Nat /\ \A k \in Children(c) : View(c)[k].number < NextNumber(c)
<1> DEFINE K == Children(c)
           f == [k \in K |-> Seen(c, k).number]
           numbers == {0} \cup {Seen(c, k).number : k \in K}
           most == CHOOSE n \in numbers : \A m \in numbers : m <= n
<1>1. K \subseteq Known(c) \cap Pool(Kind(c))
  BY DEF Children
<1>2. \A k \in Known(c) : View(c)[k] = Seen(c, k)
  BY DEF View
<1>3. IsFiniteSet(K)
  <2>1. IsFiniteSet(Known(c))
    BY DEF InOrder, Shaped, View
  <2> QED
    BY <1>1, <2>1, FS_Subset
<1>4. \A k \in K : Seen(c, k).number \in Nat
  <2> TAKE k \in K
  <2>1. k \in (Chapters \cup Pages) \cap DOMAIN View(c)
    BY <1>1 DEF Pool, View
  <2> QED
    BY <1>1, <1>2, <2>1 DEF InOrder, Shaped
<1> HIDE DEF K
<1>5. f \in [K -> Nat] /\ numbers = {0} \cup {f[k] : k \in K}
  BY <1>4
<1> HIDE DEF f, numbers
<1>6. \E n \in numbers : \A m \in numbers : m <= n
  BY <1>3, <1>5, GreatestNumber
<1>7. most \in numbers /\ \A m \in numbers : m <= most
  BY <1>6
<1>8. NextNumber(c) = 1 + most
  BY DEF NextNumber, numbers, K
<1> HIDE DEF most
<1>9. numbers \subseteq Nat /\ \A k \in K : Seen(c, k).number \in numbers
  BY <1>4 DEF numbers
<1>10. \A k \in Children(c) : View(c)[k].number = Seen(c, k).number /\ Seen(c, k).number \in numbers
  BY <1>1, <1>2, <1>9 DEF K
<1>11. most \in Nat /\ \A n \in numbers : n \in Nat /\ n <= most
  BY <1>7, <1>9
<1>12. 1 + most \in Nat /\ \A n \in numbers : n < 1 + most
  BY <1>11
<1> QED
  BY <1>8, <1>10, <1>12

-----------------------------------------------------------------------------
(* What a request sees *)

\* Writing over what was written is writing over the row.
LEMMA OverOver ==
    ASSUME NEW f, NEW g, NEW h
    PROVE  Over(Over(f, g), h) = Over(f, Over(g, h))
<1> DEFINE both == [x \in DOMAIN f \cup DOMAIN g \cup DOMAIN h |->
                      IF x \in DOMAIN f THEN f[x] ELSE IF x \in DOMAIN g THEN g[x] ELSE h[x]]
<1>1. Over(Over(f, g), h) = both
  BY DEF Over
<1>2. Over(f, Over(g, h)) = both
  BY DEF Over
<1> QED
  BY <1>1, <1>2

\* A write puts its values into what the request sees.
LEMMA ViewPut ==
    ASSUME Shape, NEW c \in Clients, NEW k, NEW values, rows' = rows,
           tx'[c].dirty = Write(tx[c], k, values).dirty
    PROVE  View(c)' = Put(View(c), k, values)
<1> DEFINE V == View(c)
           P == Put(V, k, values)
<1>1. /\ DOMAIN tx'[c].dirty = DOMAIN tx[c].dirty \cup {k}
      /\ \A j \in DOMAIN tx[c].dirty \ {k} : tx'[c].dirty[j] = tx[c].dirty[j]
      /\ tx'[c].dirty[k] = IF k \in DOMAIN tx[c].dirty THEN Over(values, tx[c].dirty[k]) ELSE values
  BY WriteDirty DEF Shape
<1>2. Known(c)' = Known(c) \cup {k}
  BY <1>1 DEF Known
<1>3. DOMAIN V = Known(c) /\ \A j \in Known(c) : V[j] = Seen(c, j)
  BY DEF View
<1>4. \A j \in Known(c)' : Seen(c, j)' = IF j # k THEN V[j] ELSE IF k \in Known(c) THEN Over(values, V[k]) ELSE values
  <2> TAKE j \in Known(c)'
  <2>1. CASE j # k
    BY <1>1, <1>2, <1>3, <2>1 DEF Seen
  <2>2. CASE j = k
    <3>1. CASE k \in DOMAIN tx[c].dirty /\ k \in DOMAIN rows
      <4>1. Seen(c, k)' = Over(Over(values, tx[c].dirty[k]), rows[k])
        BY <1>1, <3>1 DEF Seen
      <4>2. V[k] = Over(tx[c].dirty[k], rows[k]) /\ k \in Known(c)
        BY <1>3, <3>1 DEF Seen, Known
      <4> QED
        BY <2>2, <4>1, <4>2, OverOver
    <3>2. CASE k \in DOMAIN tx[c].dirty /\ k \notin DOMAIN rows
      BY <1>1, <1>3, <2>2, <3>2 DEF Seen, Known
    <3>3. CASE k \notin DOMAIN tx[c].dirty
      BY <1>1, <1>3, <2>2, <3>3 DEF Seen, Known
    <3> QED
      BY <3>1, <3>2, <3>3
  <2> QED
    BY <2>1, <2>2
<1>5. View(c)' = [j \in Known(c)' |-> Seen(c, j)']
  BY DEF View
<1> QED
  BY <1>2, <1>3, <1>4, <1>5 DEF Put

\* A request sees the same as long as nothing is written.
LEMMA ViewSame ==
    ASSUME NEW c \in Clients, rows' = rows, tx'[c].dirty = tx[c].dirty
    PROVE  View(c)' = View(c) /\ Known(c)' = Known(c) /\ \A k : Seen(c, k)' = Seen(c, k)
<1>1. Known(c)' = Known(c) /\ \A k : Seen(c, k)' = Seen(c, k)
  BY DEF Known, Seen
<1> QED
  BY <1>1 DEF View

\* What is said of a library is said of its rows.
LEMMA SameRows ==
    ASSUME NEW a, NEW b, DOMAIN a = DOMAIN b, \A k \in DOMAIN a : a[k] = b[k]
    PROVE  (InOrder(a) => InOrder(b)) /\ (Numbered(a) => Numbered(b))
<1>1. Shaped(a) => Shaped(b)
  BY DEF Shaped
<1>2. Counted(a) => Counted(b)
  BY DEF Counted
<1>3. InOrder(a) => Marked(b)
  BY DEF InOrder, Shaped, Marked
<1>4. Numbered(a) => Numbered(b)
  BY DEF Numbered, Siblings
<1> QED
  BY <1>1, <1>2, <1>3, <1>4 DEF InOrder

-----------------------------------------------------------------------------
(* One request at a time *)

OneAtATime == \A c, d \in Clients : Running(c) /\ Running(d) => c = d

\* The page at the end of the URL is where the URL says.
OnPage(c) ==
    /\ tx[c].at.page \in Known(c)
    /\ Seen(c, tx[c].at.page).book = tx[c].at.book
    /\ Seen(c, tx[c].at.page).chapter = tx[c].at.chapter

\* What the statements before it did for the next one: the row to save is as it
\* was read; whether there is a recent row is known; the page of the bookmark was
\* found, and the ribbon read; a new row's number is above those of its siblings.
Prepared(c) ==
    /\ Doing(c, "save") => /\ DOMAIN tx[c].dirty = {} /\ Target(c) \in DOMAIN rows
                           /\ tx[c].read[Target(c)] = rows[Target(c)]
    /\ Doing(c, "touch") \/ Doing(c, "upsert") =>
          Row(c) \in Known(c) /\ (tx[c].known <=> Recent(Row(c)) \in Known(c))
    /\ Doing(c, "ribbon") \/ Doing(c, "tie") => OnPage(c)
    /\ Doing(c, "tie") /\ tx[c].ribbon # Nowhere =>
          tx[c].ribbon \in Known(c) /\ tx[c].read[tx[c].ribbon] = Seen(c, tx[c].ribbon)
    /\ Doing(c, "insert") /\ Kind(c) # "book" =>
          tx[c].number \in Nat /\ \A k \in Children(c) : View(c)[k].number < tx[c].number

\* Nothing is read before the row to save, and no ribbon before the bookmark.
Fresh(c) ==
    /\ Len(tx[c].todo) >= 2 /\ tx[c].todo[2].do = "save" =>
          DOMAIN tx[c].read = {} /\ DOMAIN tx[c].dirty = {}
    /\ \A j \in 1..Len(tx[c].todo) : tx[c].todo[j].do = "ribbon" => Ribbons \cap DOMAIN tx[c].read = {}

\* The content that a request brings is yet to be saved, or it is in the page.
Saved(c) ==
    Editing(c) /\ "content" \in DOMAIN Changes(c) =>
        \/ Len(tx[c].todo) >= 2 /\ tx[c].todo[2].do = "save"
        \/ Doing(c, "save")
        \/ Target(c) \in Known(c) /\ View(c)[Target(c)].content = Changes(c).content

NobodyNumbers(S) == \A c \in Clients : tx[c].status \in S => "number" \notin DOMAIN tx[c].request.changes

Orderly(c) ==
    /\ InOrder(View(c)) /\ Prepared(c) /\ Fresh(c) /\ Saved(c)
    /\ NobodyNumbers({"ok", "running"}) => Numbered(View(c))

SInv ==
    /\ OneAtATime /\ Clean /\ RecentRowsNeverClash
    /\ InOrder(rows) /\ (NobodyNumbers({"ok"}) => Numbered(rows))
    /\ DOMAIN acked = Pages \cap DOMAIN rows /\ LastSaveIsStored
    /\ \A c \in Clients : Running(c) => Orderly(c)

\* What comes next in a request, and where it is in the list of statements.
LEMMA NextFacts ==
    ASSUME IInv, Scripted, NEW c \in Clients, Proceeds(c), NEW verb, Doing(c, verb)'
    PROVE  /\ Head(tx'[c].todo) = Do(verb, Kind(c)') /\ Len(tx[c].todo) >= 2
           /\ tx[c].todo[2] = Do(verb, Kind(c)') /\ tx[c].todo[1] = Head(tx[c].todo)
           /\ Len(tx[c].todo) \in Nat
           /\ Prepares(Head(tx[c].todo), Do(verb, Kind(c)'))
           /\ Suits(tx[c].request, Do(verb, Kind(c)'))
           /\ tx[c].request \in Requests
<1>1. tx'[c].todo # <<>> /\ Head(tx'[c].todo).do = verb
  BY DEF Doing
<1>2. /\ Len(tx[c].todo) >= 2 /\ Head(tx'[c].todo) = tx[c].todo[2]
      /\ Prepares(Head(tx[c].todo), Head(tx'[c].todo))
  BY <1>1, NextStatement DEF IInv
<1>3. /\ Script(tx[c].request, tx[c].todo) /\ tx[c].todo # <<>> /\ tx[c].request \in Requests
  BY DEF Proceeds, Running, Scripted, IInv, Shape
<1>4. Len(tx[c].todo) \in Nat /\ Head(tx[c].todo) = tx[c].todo[1]
  BY <1>3, ScriptGoesOn
<1>5. 2 \in 1..Len(tx[c].todo) /\ tx[c].todo \in Seq(Statements)
  BY <1>2, <1>3, <1>4 DEF Script
<1>6. tx[c].todo[2] \in Statements /\ Suits(tx[c].request, tx[c].todo[2])
  BY <1>3, <1>5, ElementOfSeq DEF Script
<1>7. Head(tx'[c].todo) = Do(verb, Kind(c)')
  BY <1>1, <1>2, <1>6 DEF Statements, Do, Kind
<1> QED
  BY <1>2, <1>3, <1>4, <1>6, <1>7

\* Each statement that reads or writes prepares the one that follows it.
LEMMA PreparedStep ==
    ASSUME IInv, Scripted, Filled, NEW c \in Clients, Reads(c) \/ Writing(c),
           InOrder(View(c)), Prepared(c), Fresh(c)
    PROVE  Prepared(c)'
<1>0. /\ Proceeds(c) /\ rows' = rows /\ Running(c) /\ tx[c].todo # <<>> /\ Shape
      /\ tx'[c].request = tx[c].request
  BY DEF Reads, Writing, Proceeds, IInv
<1>1. \A v, w : Doing(c, v) /\ Doing(c, w) => v = w
  BY DEF Doing
<1>2. \A v : Head(tx[c].todo).do = v => Doing(c, v)
  BY <1>0 DEF Doing
<1>3. Reads(c) => /\ View(c)' = View(c) /\ Known(c)' = Known(c)
                  /\ \A k : Seen(c, k)' = Seen(c, k)
  BY ViewSame DEF Reads, Proceeds
\* A save was just preceded by the find, with nothing read before.
<1>4. ASSUME Doing(c, "save")'
      PROVE  /\ DOMAIN tx'[c].dirty = {} /\ Target(c)' \in DOMAIN rows'
             /\ tx'[c].read[Target(c)'] = rows'[Target(c)']
  <2>1. /\ Head(tx[c].todo) = Do("find", Kind(c)') /\ Len(tx[c].todo) >= 2
        /\ tx[c].todo[2].do = "save" /\ Kind(c)' = tx[c].request.kind
        /\ tx[c].request.op \in {"edit", "close"}
    <3>1. /\ Prepares(Head(tx[c].todo), Do("save", Kind(c)')) /\ Suits(tx[c].request, Do("save", Kind(c)'))
          /\ tx[c].todo[2] = Do("save", Kind(c)') /\ Len(tx[c].todo) >= 2
      BY <1>0, <1>4, NextFacts
    <3> QED
      BY <3>1 DEF Prepares, Suits, Do
  <2>2. Doing(c, "find") /\ Kind(c) = tx[c].request.kind /\ Reads(c)
    BY <1>2, <2>1 DEF Do, Kind, Writing
  <2>3. tx[c].at = tx[c].request.at
    BY <1>0, <2>1 DEF Scripted
  <2>4. Row(c) = Target(c) /\ Target(c)' = Target(c)
    BY <1>0, <2>2, <2>3 DEF Row, Target
  <2>5. DOMAIN tx[c].read = {} /\ DOMAIN tx[c].dirty = {}
    BY <2>1 DEF Fresh
  <2>6. /\ Row(c) \in Known(c) /\ tx'[c].dirty = tx[c].dirty
        /\ tx'[c].read = Over(tx[c].read, [x \in {Row(c)} |-> Seen(c, Row(c))])
    BY <2>2 DEF Reads, Found
  <2>7. Row(c) \in DOMAIN rows /\ Seen(c, Row(c)) = rows[Row(c)]
    BY <2>5, <2>6 DEF Known, Seen
  <2>8. tx'[c].read[Row(c)] = rows[Row(c)]
    BY <2>5, <2>6, <2>7 DEF Over
  <2> QED
    BY <1>0, <2>4, <2>5, <2>6, <2>7, <2>8
\* A touch comes after the look for a recent row.
<1>5. ASSUME Doing(c, "touch")'
      PROVE  (Row(c) \in Known(c) /\ (tx[c].known <=> Recent(Row(c)) \in Known(c)))'
  <2>1. Head(tx[c].todo) = Do("recall", Kind(c)')
    BY <1>0, <1>5, NextFacts DEF Prepares, Do
  <2>2. Doing(c, "recall") /\ Kind(c)' = Kind(c)
    BY <1>2, <2>1 DEF Do, Kind
  <2>3. Reads(c)
    BY <1>1, <2>2 DEF Writing, Permitted
  <2>4. Row(c)' = Row(c) /\ Row(c) \in Known(c)
    BY <1>1, <2>2, <2>3 DEF Reads, Proceeds, Row, Filled
  <2>5. tx'[c].known <=> Recent(Row(c)) \in Known(c)
    BY <2>2, <2>3 DEF Reads
  <2> QED
    BY <1>3, <2>3, <2>4, <2>5
\* An upsert comes after the touch, which adds no row.
<1>6. ASSUME Doing(c, "upsert")'
      PROVE  (Row(c) \in Known(c) /\ (tx[c].known <=> Recent(Row(c)) \in Known(c)))'
  <2>1. Head(tx[c].todo) = Do("touch", Kind(c)')
    BY <1>0, <1>6, NextFacts DEF Prepares, Do
  <2>2. Doing(c, "touch") /\ Kind(c)' = Kind(c)
    BY <1>2, <2>1 DEF Do, Kind
  <2>3. Writing(c)
    BY <2>2 DEF Reads
  <2>4. Row(c)' = Row(c) /\ Row(c) \in Known(c) /\ (tx[c].known <=> Recent(Row(c)) \in Known(c))
    BY <1>0, <1>1, <2>2 DEF Proceeds, Row, Prepared
  <2>5. PICK k, values : Permitted(c, k, values) /\ tx'[c].dirty = Write(tx[c], k, values).dirty
    BY <2>3 DEF Writing
  <2>6. k = Row(c)
    BY <1>1, <2>2, <2>5 DEF Permitted
  <2>7. Known(c)' = Known(c)
    BY <1>0, <2>4, <2>5, <2>6, WriteDirty DEF Shape, Known
  <2>8. tx'[c].known = tx[c].known
    BY <2>3 DEF Writing
  <2> QED
    BY <2>4, <2>7, <2>8
\* The bookmark comes after the page was found, and goes where the ribbon was.
<1>7. ASSUME NEW verb \in {"ribbon", "tie"}, Doing(c, verb)' PROVE OnPage(c)' /\ Reads(c)
  <2>1. \/ verb = "ribbon" /\ Doing(c, "find") /\ Kind(c) = "page"
        \/ verb = "tie" /\ Doing(c, "ribbon")
    <3>1. Prepares(Head(tx[c].todo), Do(verb, Kind(c)'))
      BY <1>0, <1>7, NextFacts
    <3>2. verb = "ribbon" => Head(tx[c].todo) = Do("find", "page")
      BY <3>1 DEF Prepares, Do
    <3>3. verb = "tie" => Head(tx[c].todo) = Do("ribbon", "page")
      BY <3>1 DEF Prepares, Do
    <3> QED
      BY <1>2, <1>7, <3>2, <3>3 DEF Do, Kind
  <2>2. Reads(c) /\ tx'[c].at = tx[c].at
    BY <1>1, <2>1 DEF Writing, Reads, Proceeds
  <2>3. OnPage(c)
    <3>1. CASE Doing(c, "find") /\ Kind(c) = "page"
      BY <2>2, <3>1 DEF Reads, Found, OnPage, Row
    <3> QED
      BY <2>1, <3>1 DEF Prepared
  <2> QED
    BY <1>3, <2>2, <2>3 DEF OnPage
<1>8. ASSUME Doing(c, "tie")', tx'[c].ribbon # Nowhere
      PROVE  (tx[c].ribbon \in Known(c) /\ tx[c].read[tx[c].ribbon] = Seen(c, tx[c].ribbon))'
  <2>1. Head(tx[c].todo) = Do("ribbon", "page") /\ Reads(c)
    BY <1>0, <1>7, <1>8, NextFacts DEF Prepares, Do
  <2>2. Doing(c, "ribbon")
    BY <1>2, <2>1 DEF Do
  <2>3. Ribbons \cap DOMAIN tx[c].read = {}
    <3>1. 1 \in 1..Len(tx[c].todo) /\ tx[c].todo[1].do = "ribbon"
      BY <1>0, <1>8, <2>1, NextFacts DEF Do
    <3> QED
      BY <3>1 DEF Fresh
  <2>4. /\ tx'[c].ribbon \in Ribbons \cap Known(c)
        /\ tx'[c].read = Over(tx[c].read, [x \in {tx'[c].ribbon} |-> Seen(c, tx'[c].ribbon)])
    BY <1>8, <2>1, <2>2 DEF Reads
  <2>5. tx'[c].read[tx'[c].ribbon] = Seen(c, tx'[c].ribbon)
    BY <2>3, <2>4 DEF Over
  <2>6. Known(c)' = Known(c) /\ Seen(c, tx[c].ribbon)' = Seen(c, tx'[c].ribbon)
    BY <2>1 DEF Reads, Proceeds, Known, Seen
  <2> QED
    BY <2>4, <2>5, <2>6
\* A row is added with the number that was just asked for.
<1>9. ASSUME Doing(c, "insert")', Kind(c)' # "book"
      PROVE  (tx[c].number \in Nat /\ \A k \in Children(c) : View(c)[k].number < tx[c].number)'
  <2>1. Head(tx[c].todo) = Do("number", Kind(c)')
    BY <1>0, <1>9, NextFacts DEF Prepares, Do
  <2>2. Doing(c, "number") /\ Kind(c)' = Kind(c)
    BY <1>2, <2>1 DEF Do, Kind
  <2>3. Reads(c) /\ tx'[c].at = tx[c].at /\ tx'[c].number = NextNumber(c)
    BY <1>1, <2>2 DEF Writing, Permitted, Reads, Proceeds
  <2>4. Kind(c) \in {"chapter", "page"}
    BY <1>0, <1>9, <2>2, HeadFacts DEF Kinds
  <2>5. NextNumber(c) \in Nat /\ \A k \in Children(c) : View(c)[k].number < NextNumber(c)
    BY <2>4, NextNumberFacts
  <2>6. Children(c)' = Children(c)
    BY <1>3, <2>2, <2>3 DEF Children
  <2> QED
    BY <1>3, <2>3, <2>5, <2>6
<1> QED
  BY <1>4, <1>5, <1>6, <1>7, <1>8, <1>9 DEF Prepared

\* Nothing is read before its time.
LEMMA FreshStep ==
    ASSUME IInv, Scripted, NEW c \in Clients, Reads(c) \/ Writing(c), Fresh(c)
    PROVE  Fresh(c)'
<1>0. /\ Proceeds(c) /\ Running(c) /\ tx[c].todo # <<>> /\ Shape
      /\ tx'[c].todo = Tail(tx[c].todo)
      /\ Script(tx[c].request, tx[c].todo) /\ tx[c].request \in Requests
  BY DEF Reads, Writing, Proceeds, IInv, Scripted, Running, Shape
<1> DEFINE todo == tx[c].todo
           rest == tx'[c].todo
<1>1. /\ Len(todo) \in Nat /\ Len(rest) = Len(todo) - 1 /\ Head(todo) = todo[1]
      /\ Len(todo) >= 1
      /\ \A j \in 1..Len(rest) : rest[j] = todo[j + 1] /\ j + 1 \in 1..Len(todo) /\ j + 1 # 1
  BY <1>0, ScriptGoesOn
<1> HIDE DEF todo, rest
<1>2. ~(Len(rest) >= 2 /\ rest[2].do = "save")
  <2> SUFFICES ASSUME Len(rest) >= 2, rest[2].do = "save" PROVE FALSE
    OBVIOUS
  <2>1. 2 \in 1..Len(rest) /\ 3 \in 3..Len(todo) /\ rest[2] = todo[3]
    BY <1>1
  <2> QED
    BY <1>0, <2>1 DEF Script, todo
<1>3. ASSUME NEW j \in 1..Len(rest), rest[j].do = "ribbon"
      PROVE  Ribbons \cap DOMAIN tx'[c].read = {}
  <2>1. /\ j + 1 \in 1..Len(todo) /\ todo[j + 1].do = "ribbon" /\ 1 \in 1..Len(todo) /\ j + 1 # 1
    BY <1>1, <1>3
  <2>2. Ribbons \cap DOMAIN tx[c].read = {}
    BY <2>1 DEF Fresh, todo
  <2>3. /\ tx[c].request.op # "reopen"
        /\ todo[1].do \notin {"ribbon", "try"}
    <3>1. Suits(tx[c].request, todo[j + 1]) /\ Suits(tx[c].request, todo[1])
      BY <1>0, <2>1 DEF Script, todo
    <3>2. todo[1].do # "ribbon"
      BY <1>0, <2>1 DEF Script, todo
    <3> QED
      BY <2>1, <3>1, <3>2 DEF Suits
  <2>4. CASE tx'[c].read = tx[c].read
    BY <2>2, <2>4
  <2>5. CASE tx'[c].read # tx[c].read
    <3>1. Reads(c) /\ Doing(c, "find")
      BY <1>1, <2>3, <2>5 DEF Reads, Writing, Doing, todo
    <3>2. DOMAIN tx'[c].read = DOMAIN tx[c].read \cup {Row(c)}
      BY <3>1 DEF Reads, Over
    <3>3. Row(c) \in Ids \cup {Nowhere}
      <4>1. Kind(c) \in Kinds
        BY <3>1, HeadFacts DEF IInv
      <4>2. tx[c].at \in Address
        BY <1>0, <2>3, StoreAssumption DEF Scripted
      <4> QED
        BY <4>1, <4>2 DEF Row, Kinds, Address, Ids
    <3>4. Row(c) \notin Ribbons
      BY <3>3, StoreAssumption DEF Rows
    <3> QED
      BY <2>2, <3>2, <3>4
  <2> QED
    BY <2>4, <2>5
<1> QED
  BY <1>2, <1>3 DEF Fresh, rest

\* A page that is to get a content is a page, and the last of its URL.
LEMMA ContentTarget ==
    ASSUME NEW c \in Clients, tx[c].request \in Requests, "content" \in DOMAIN Changes(c)
    PROVE  /\ tx[c].request.kind = "page" /\ Target(c) = tx[c].request.at.page
           /\ Target(c) \in Pages \cup {Nowhere}
<1>1. tx[c].request.kind \in Kinds /\ "content" \in Editable(tx[c].request.kind) /\ tx[c].request.at \in Address
  BY StoreAssumption DEF Changes
<1>2. tx[c].request.kind = "page"
  BY <1>1 DEF Kinds, Editable
<1> QED
  BY <1>1, <1>2 DEF Target, Address

\* The content of a save gets into the page.
LEMMA SavedStep ==
    ASSUME IInv, Scripted, Filled, NEW c \in Clients, Reads(c) \/ Writing(c),
           InOrder(View(c)), Prepared(c), Saved(c)
    PROVE  Saved(c)'
<1>0. /\ Proceeds(c) /\ rows' = rows /\ Running(c) /\ Running(c)' /\ tx[c].todo # <<>> /\ Shape
      /\ tx'[c].request = tx[c].request /\ tx'[c].todo = Tail(tx[c].todo)
      /\ Script(tx[c].request, tx[c].todo) /\ tx[c].request \in Requests
  BY DEF Reads, Writing, Proceeds, IInv, Scripted, Running, Shape
<1>1. Target(c)' = Target(c) /\ Changes(c)' = Changes(c) /\ (Editing(c)' <=> Editing(c))
  BY <1>0 DEF Target, Changes, Editing
<1> SUFFICES ASSUME Editing(c), "content" \in DOMAIN Changes(c)
             PROVE  \/ Doing(c, "save")'
                    \/ (Target(c) \in Known(c) /\ View(c)[Target(c)].content = Changes(c).content)'
  BY <1>1 DEF Saved
<1> DEFINE V == View(c)
           k == Target(c)
           text == Changes(c).content
<1>2. DOMAIN V = Known(c) /\ \A j \in Known(c) : V[j] = Seen(c, j)
  BY DEF View
<1>3. CASE Len(tx[c].todo) >= 2 /\ tx[c].todo[2].do = "save"
  <2>1. Len(Tail(tx[c].todo)) = Len(tx[c].todo) - 1 /\ Len(tx[c].todo) \in Nat /\ Script(tx[c].request, Tail(tx[c].todo))
    BY <1>0, ScriptGoesOn
  <2> DEFINE t == Tail(tx[c].todo)
  <2> HIDE DEF t
  <2>2. tx'[c].todo # <<>>
    <3>1. Len(t) >= 1
      BY <1>3, <2>1 DEF t
    <3>2. t # <<>>
      BY <3>1, EmptySeq
    <3> QED
      BY <1>0, <3>2 DEF t
  <2>3. Head(tx'[c].todo) = tx[c].todo[2]
    BY <1>0, <2>2, NextStatement
  <2> QED
    BY <1>0, <1>3, <2>2, <2>3 DEF Doing
\* The page has its new content, or it is about to be written.
<1>4. ASSUME Doing(c, "save")
      PROVE  /\ k = Row(c) /\ k \in Known(c) /\ "content" \in DOMAIN V[k]
             /\ "content" \in DOMAIN Values(c) => Values(c).content = text
             /\ "content" \notin DOMAIN Values(c) => V[k].content = text
  <2>1. /\ k = Row(c) /\ DOMAIN tx[c].dirty = {} /\ k \in DOMAIN rows /\ tx[c].read[k] = rows[k]
    BY <1>0, <1>4, SaveFacts DEF Prepared
  <2>2. k \in Known(c) /\ V[k] = rows[k]
    BY <1>2, <2>1 DEF Known, Seen
  <2>3. k \in Pages
    BY <1>0, <2>1, ContentTarget DEF Filled
  <2>4. "content" \in DOMAIN V[k]
    BY <1>2, <2>2, <2>3 DEF InOrder, Shaped
  <2>5. /\ "content" \in DOMAIN Values(c) => Values(c).content = text
        /\ "content" \notin DOMAIN Values(c) => tx[c].read[k].content = text
    BY <1>4, SaveFacts
  <2> QED
    BY <2>1, <2>2, <2>4, <2>5
<1>5. CASE Reads(c)
  <2>1. View(c)' = V /\ Known(c)' = Known(c)
    BY <1>0, <1>5, ViewSame DEF Reads
  <2>2. CASE Doing(c, "save")
    BY <1>1, <1>4, <1>5, <2>1, <2>2 DEF Reads
  <2>3. CASE k \in Known(c) /\ V[k].content = text
    BY <1>1, <2>1, <2>3
  <2> QED
    BY <1>3, <2>2, <2>3 DEF Saved
<1>6. CASE Writing(c)
  <2>1. PICK j, values : Permitted(c, j, values) /\ tx'[c].dirty = Write(tx[c], j, values).dirty
    BY <1>6 DEF Writing
  <2>2. View(c)' = Put(V, j, values) /\ Known(c) \subseteq Known(c)'
    <3>1. View(c)' = Put(V, j, values)
      BY <1>0, <2>1, ViewPut
    <3>2. Known(c) \subseteq Known(c)'
      BY <1>0, <2>1, WriteDirty DEF Shape, Known
    <3> QED
      BY <3>1, <3>2
  <2> HIDE DEF V
  <2>3. CASE Doing(c, "save")
    <3>1. j = k /\ values = Values(c) /\ k \in DOMAIN V
      BY <1>0, <1>2, <1>4, <2>1, <2>3, PermittedKinds
    <3>2. Put(V, k, Values(c))[k].content = text
      BY <1>4, <2>3, <3>1, PutOld DEF V
    <3> QED
      BY <1>1, <1>2, <2>2, <3>1, <3>2
  <2>4. CASE ~Doing(c, "save") /\ k \in Known(c) /\ V[k].content = text
    <3>1. CASE j # k
      <4>1. Put(V, j, values)[k] = V[k]
        BY <1>2, <2>4, <3>1 DEF Put
      <4> QED
        BY <1>1, <2>2, <2>4, <4>1
    <3>2. CASE j = k
      <4>1. k \notin Ribbons
        BY <1>0, TargetFacts
      <4>2. values = <<>>
        BY <1>0, <2>1, <2>4, <3>2, <4>1, PermittedKinds
      <4>3. "content" \in DOMAIN V[k]
        <5>1. k \in Pages
          <6>1. k # Nowhere
            BY <2>4 DEF Known, Filled
          <6> QED
            BY <1>0, <6>1, ContentTarget
        <5> QED
          BY <1>2, <2>4, <5>1 DEF InOrder, Shaped, V
      <4>4. DOMAIN <<>> = {}
        OBVIOUS
      <4>5. Put(V, k, values)[k].content = V[k].content
        BY <1>2, <2>4, <4>2, <4>3, <4>4, PutOld
      <4> QED
        BY <1>1, <2>2, <2>4, <3>2, <4>5
    <3> QED
      BY <3>1, <3>2
  <2> QED
    BY <1>3, <2>3, <2>4 DEF Saved, V
<1> QED
  BY <1>5, <1>6

\* Setting the columns that differ sets them all.
LEMMA ChangedSets ==
    ASSUME NEW c \in Clients, NEW db, NEW k \in DOMAIN db, tx[c].read[k] = db[k], NEW row,
           NEW x \in DOMAIN row, x \in DOMAIN db[k]
    PROVE  Put(db, k, Changed(c, k, row))[k][x] = row[x]
<1> DEFINE values == Changed(c, k, row)
<1>1. values = [y \in {z \in DOMAIN row : row[z] # db[k][z]} |-> row[y]]
  BY DEF Changed
<1>2. CASE x \in DOMAIN values
  <2>1. values[x] = row[x]
    BY <1>1, <1>2
  <2> HIDE DEF values
  <2>2. Put(db, k, values)[k][x] = values[x]
    BY <1>2, PutOld
  <2> QED
    BY <2>1, <2>2 DEF values
<1>3. CASE x \notin DOMAIN values
  <2>1. db[k][x] = row[x]
    BY <1>1, <1>3
  <2> HIDE DEF values
  <2>2. Put(db, k, values)[k][x] = db[k][x]
    BY <1>3, PutOld
  <2> QED
    BY <2>1, <2>2 DEF values
<1> QED
  BY <1>2, <1>3

\* What a save does to the library.
LEMMA SaveOrder ==
    ASSUME IInv, Scripted, Filled, NEW c \in Clients, Doing(c, "save"), Storable(Values(c)),
           InOrder(View(c)), Prepared(c)
    PROVE  LET new == Put(View(c), Target(c), Values(c)) IN
           /\ InOrder(new)
           /\ Numbered(View(c)) /\ "number" \notin DOMAIN Changes(c) => Numbered(new)
<1> DEFINE V == View(c)
           k == Target(c)
           r == tx[c].request
           values == Values(c)
<1>1. /\ r \in Requests /\ r.op \in {"edit", "close"} /\ Row(c) = k
      /\ k \in DOMAIN rows /\ tx[c].read[k] = rows[k] /\ DOMAIN tx[c].dirty = {}
  BY SaveFacts DEF Editing, Running, IInv, Shape, Prepared
<1>2. k \in DOMAIN V /\ V[k] = tx[c].read[k]
  BY <1>1 DEF View, Known, Seen
<1>3. r.kind \in Kinds /\ DOMAIN r.changes \subseteq Editable(r.kind) /\ k \in Pool(r.kind) /\ k \in Ids
  <2>1. r.kind \in Kinds /\ DOMAIN r.changes \subseteq Editable(r.kind) /\ r.at \in Address
    BY <1>1, StoreAssumption
  <2>2. k \in Pool(r.kind) \cup {Nowhere} /\ k # Nowhere
    BY <1>1, <2>1 DEF Target, Kinds, Address, Pool, Filled
  <2> QED
    BY <2>1, <2>2, PoolIds
<1>4. \A kind \in Kinds : k \in Pool(kind) => kind = r.kind
  BY <1>3, StoreAssumption DEF Kinds, Pool
<1>5. /\ DOMAIN values \subseteq DOMAIN r.changes \cup {"words"}
      /\ "words" \in DOMAIN values => "content" \in DOMAIN r.changes
      /\ \A x \in DOMAIN values \cap DOMAIN r.changes : values[x] = r.changes[x]
      /\ "words" \notin DOMAIN r.changes
  <2>1. "content" \notin DOMAIN r.changes => Assigned(r) = r.changes
    BY DEF Assigned
  <2>2. DOMAIN values \subseteq DOMAIN Assigned(r)
    BY DEF Values, Changed
  <2>3. "words" \notin DOMAIN r.changes
    BY <1>1, ChangesFacts
  <2> QED
    BY <2>1, <2>2, <2>3, SaveFacts DEF Changes
<1>6. "content" \in DOMAIN r.changes => k \in Pages
  BY <1>3 DEF Kinds, Editable, Pool
<1>7. \A kind \in Kinds : k \in Pool(kind) => DOMAIN values \subseteq Editable(kind) \cup {"words"}
  BY <1>3, <1>4, <1>5
<1>8. /\ "number" \in DOMAIN values => values.number \in Nat
      /\ "deleted" \in DOMAIN values => values.deleted = TRUE
      /\ "words" \in DOMAIN values => k \in Pages
  <2>1. "number" \in DOMAIN values => values.number \in Nat
    <3>1. \A x \in DOMAIN values : values[x] # Null
      BY DEF Storable
    <3>2. "number" \in DOMAIN r.changes => r.changes["number"] \in Nat \cup {Null}
      BY <1>1, StoreAssumption
    <3> HIDE DEF values
    <3> QED
      BY <1>5, <3>1, <3>2
  <2>2. "deleted" \in DOMAIN values => values.deleted = TRUE
    BY <1>1, <1>5, StoreAssumption
  <2> QED
    BY <1>5, <1>6, <2>1, <2>2
<1> HIDE DEF V, k, values
<1>9. ASSUME k \in Pages PROVE Put(V, k, values)[k].words = CountWords[Put(V, k, values)[k].content]
  <2>1. {"content", "words"} \subseteq DOMAIN V[k] /\ V[k].words = CountWords[V[k].content]
    BY <1>2, <1>9 DEF InOrder, Shaped, Counted, V
  <2>2. CASE "content" \in DOMAIN r.changes
    <3> DEFINE counts == [words |-> CountWords[r.changes.content]]
    <3>1. Assigned(r) = [x \in DOMAIN r.changes \cup {"words"} |-> IF x \in DOMAIN r.changes THEN r.changes[x] ELSE counts[x]]
      BY <2>2 DEF Assigned, Over
    <3>2. /\ "content" \in DOMAIN Assigned(r) /\ "words" \in DOMAIN Assigned(r)
          /\ Assigned(r).words = CountWords[Assigned(r).content]
      BY <1>5, <2>2, <3>1
    <3>3. values = Changed(c, k, Assigned(r))
      BY <1>1 DEF values, Values
    <3> HIDE DEF counts
    <3>4. \A x \in {"content", "words"} : Put(V, k, values)[k][x] = Assigned(r)[x]
      BY <1>2, <2>1, <3>2, <3>3, ChangedSets
    <3> QED
      BY <3>2, <3>4
  <2>3. CASE "content" \notin DOMAIN r.changes
    <3>1. "content" \notin DOMAIN values /\ "words" \notin DOMAIN values
      BY <1>5, <2>3
    <3>2. \A x \in {"content", "words"} : Put(V, k, values)[k][x] = V[k][x]
      BY <1>2, <2>1, <3>1, PutOld
    <3> QED
      BY <2>1, <3>2
  <2> QED
    BY <2>2, <2>3
<1>10. InOrder(V)
  BY DEF V
<1>11. InOrder(Put(V, k, values))
  BY <1>2, <1>3, <1>7, <1>8, <1>9, <1>10, KeptInOrder
<1>12. ASSUME Numbered(V), "number" \notin DOMAIN r.changes PROVE Numbered(Put(V, k, values))
  <2>1. "number" \notin DOMAIN values
    BY <1>5, <1>12
  <2> QED
    BY <1>2, <1>3, <1>7, <1>8, <1>10, <1>12, <2>1, KeptNumbered
<1> QED
  BY <1>11, <1>12 DEF V, k, values, Changes

\* A library stays in order, and numbered, when a recent row is written.
LEMMA RecentInOrder ==
    ASSUME NEW db, InOrder(db), NEW k \in Rows \ (Ids \cup Ribbons)
    PROVE  InOrder(Put(db, k, <<>>)) /\ (Numbered(db) => Numbered(Put(db, k, <<>>)))
<1> DEFINE new == Put(db, k, <<>>)
<1>1. /\ DOMAIN new = DOMAIN db \cup {k}
      /\ \A j \in DOMAIN db : j # k => new[j] = db[j]
  BY DEF Put
<1> HIDE DEF new
<1>2. \A j \in (Ids \cup Ribbons) \cap DOMAIN new : j \in DOMAIN db /\ new[j] = db[j]
  BY <1>1
<1>3. Shaped(new)
  <2>1. DOMAIN new \subseteq Rows /\ IsFiniteSet(DOMAIN new)
    BY <1>1, FS_AddElement DEF InOrder, Shaped
  <2> QED
    BY <1>2, <2>1 DEF InOrder, Shaped, Ids
<1>4. Counted(new)
  BY <1>2 DEF InOrder, Counted, Ids
<1>5. Marked(new)
  <2> SUFFICES ASSUME NEW r \in Ribbons \cap DOMAIN new
               PROVE  /\ new[r].page \in DOMAIN new
                      /\ new[r].book = new[new[r].page].book
                      /\ new[r].chapter = new[new[r].page].chapter
    BY DEF Marked
  <2>1. r \in Ribbons \cap DOMAIN db /\ new[r] = db[r]
    BY <1>2
  <2>2. /\ db[r].page \in Pages \cap DOMAIN db
        /\ db[r].book = db[db[r].page].book /\ db[r].chapter = db[db[r].page].chapter
    BY <2>1 DEF InOrder, Shaped, Marked
  <2>3. db[r].page \in DOMAIN new /\ new[db[r].page] = db[db[r].page]
    BY <1>1, <1>2, <2>2 DEF Ids
  <2> QED
    BY <2>1, <2>2, <2>3
<1>6. ASSUME Numbered(db) PROVE Numbered(new)
  BY <1>2, <1>6 DEF Numbered, Siblings, Ids
<1> QED
  BY <1>3, <1>4, <1>5, <1>6 DEF InOrder, new

\* A library stays in order, and numbered, when a row is only touched.
LEMMA TouchedInOrder ==
    ASSUME NEW db, InOrder(db), NEW k \in Ids \cap DOMAIN db
    PROVE  InOrder(Put(db, k, <<>>)) /\ (Numbered(db) => Numbered(Put(db, k, <<>>)))
<1> DEFINE none == <<>>
<1>1. DOMAIN none = {}
  OBVIOUS
<1> HIDE DEF none
<1>2. ASSUME k \in Pages PROVE Put(db, k, none)[k].words = CountWords[Put(db, k, none)[k].content]
  <2>1. {"content", "words"} \subseteq DOMAIN db[k] /\ db[k].words = CountWords[db[k].content]
    BY <1>2 DEF InOrder, Shaped, Counted
  <2>2. \A x \in {"content", "words"} : Put(db, k, none)[k][x] = db[k][x]
    BY <1>1, <2>1, PutOld
  <2> QED
    BY <2>1, <2>2
<1>3. InOrder(Put(db, k, none))
  BY <1>1, <1>2, KeptInOrder
<1>4. Numbered(db) => Numbered(Put(db, k, none))
  BY <1>1, KeptNumbered
<1> QED
  BY <1>3, <1>4 DEF none

\* What an INSERT does to the library: the new row has the number after its siblings'.
LEMMA InsertOrder ==
    ASSUME IInv, Scripted, NEW c \in Clients, Doing(c, "insert"), NEW k \in Pool(Kind(c)) \ Known(c),
           InOrder(View(c)), Prepared(c)
    PROVE  /\ InOrder(Put(View(c), k, NewRow(c)))
           /\ Numbered(View(c)) => Numbered(Put(View(c), k, NewRow(c)))
<1> DEFINE V == View(c)
           row == NewRow(c)
<1>1. DOMAIN V = Known(c) /\ \A j \in Known(c) : V[j] = Seen(c, j)
  BY DEF View
<1>2. Kind(c) \in Kinds
  BY HeadFacts DEF IInv
<1>3. /\ k \in Rows \ DOMAIN V /\ k \notin Ribbons
      /\ k \in Books => Kind(c) = "book"
      /\ k \in Chapters => Kind(c) = "chapter"
      /\ k \in Pages => Kind(c) = "page"
  <2>1. k \in Ids
    BY <1>2, PoolIds
  <2>2. k \in Rows /\ k \notin Ribbons
    BY <2>1, StoreAssumption DEF Rows
  <2> QED
    BY <1>1, <1>2, <2>2, StoreAssumption DEF Kinds, Pool
<1>4. Kind(c) # "book" => tx[c].number \in Nat /\ \A j \in Children(c) : V[j].number < tx[c].number
  BY DEF Prepared
<1>5. /\ Kind(c) = "book" => row = NewBook
      /\ Kind(c) = "chapter" => row = NewChapter(tx[c].at, tx[c].number)
      /\ Kind(c) = "page" => row = NewPage(tx[c].at, tx[c].number, FirstText(tx[c].request))
  BY DEF NewRow
<1>6. /\ k \in Books => DOMAIN row = {"deleted", "archived", "favorite"}
      /\ k \in Chapters => /\ DOMAIN row = {"deleted", "book", "number"}
                           /\ row.number = tx[c].number /\ row.book = tx[c].at.book
      /\ k \in Pages => /\ DOMAIN row = {"deleted", "book", "chapter", "number", "content", "words"}
                        /\ row.number = tx[c].number /\ row.chapter = tx[c].at.chapter
                        /\ row.words = CountWords[row.content]
  BY <1>3, <1>5 DEF NewBook, NewChapter, NewPage
<1> HIDE DEF row
<1>7. Addable(V, k, row)
  BY <1>3, <1>4, <1>6 DEF Addable
<1>8. ASSUME NEW j \in (Chapters \cup Pages) \cap DOMAIN V, j \in Children(c), Kind(c) # "book"
      PROVE  V[j].number # tx[c].number
  <2>1. V[j].number \in Nat
    BY DEF InOrder, Shaped
  <2>2. tx[c].number \in Nat /\ V[j].number < tx[c].number
    BY <1>4, <1>8
  <2> DEFINE a == V[j].number
             b == tx[c].number
  <2>3. a \in Nat /\ b \in Nat /\ a < b
    BY <2>1, <2>2
  <2> HIDE DEF a, b
  <2>4. a # b
    BY <2>3
  <2> QED
    BY <2>4 DEF a, b
<1>9. ASSUME NEW j \in Chapters \cap DOMAIN V, k \in Chapters, V[j].book = row.book
      PROVE  V[j].deleted \/ V[j].number # row.number
  <2>1. ~V[j].deleted => j \in Children(c)
    BY <1>1, <1>3, <1>6, <1>9 DEF Children, Pool
  <2> QED
    BY <1>3, <1>6, <1>8, <1>9, <2>1
<1>10. ASSUME NEW j \in Pages \cap DOMAIN V, k \in Pages, V[j].chapter = row.chapter
       PROVE  V[j].deleted \/ V[j].number # row.number
  <2>1. ~V[j].deleted => j \in Children(c)
    BY <1>1, <1>3, <1>6, <1>10 DEF Children, Pool
  <2> QED
    BY <1>3, <1>6, <1>8, <1>10, <2>1
<1> HIDE DEF V
<1>11. InOrder(V)
  BY DEF V
<1>12. InOrder(Put(V, k, row))
  BY <1>7, <1>11, AddedInOrder
<1>13. Numbered(V) => Numbered(Put(V, k, row))
  BY <1>3, <1>9, <1>10, AddedNumbered
<1> QED
  BY <1>12, <1>13 DEF V, row

\* What tying the ribbon does to the library: it marks the page that was found.
LEMMA TieOrder ==
    ASSUME IInv, Scripted, Filled, NEW c \in Clients, Doing(c, "tie"), NEW k, NEW values,
           IF tx[c].ribbon = Nowhere THEN k \in Ribbons \ Known(c) /\ values = tx[c].at
                                     ELSE k = tx[c].ribbon /\ values = Changed(c, k, tx[c].at),
           InOrder(View(c)), Prepared(c)
    PROVE  /\ InOrder(Put(View(c), k, values))
           /\ Numbered(View(c)) => Numbered(Put(View(c), k, values))
<1> DEFINE V == View(c)
           at == tx[c].at
<1>1. DOMAIN V = Known(c) /\ \A j \in Known(c) : V[j] = Seen(c, j)
  BY DEF View
<1>2. at \in Address
  <2>1. tx[c].request \in Requests /\ tx[c].at = tx[c].request.at
    BY HeadFacts DEF IInv
  <2> QED
    BY <2>1, StoreAssumption
<1>3. /\ DOMAIN at = {"book", "chapter", "page"}
      /\ at.page \in Pages \cap DOMAIN V
      /\ at.book = V[at.page].book /\ at.chapter = V[at.page].chapter
  <2>1. OnPage(c)
    BY DEF Prepared
  <2>2. at.page # Nowhere
    BY <2>1 DEF OnPage, Filled, Known
  <2> QED
    BY <1>1, <1>2, <2>1, <2>2 DEF OnPage, Address
<1> HIDE DEF at
<1>4. CASE tx[c].ribbon = Nowhere
  <2>1. k \in Ribbons /\ k \notin DOMAIN V /\ values = at
    BY <1>1, <1>4 DEF at
  <2>2. k \notin Ids /\ k \in Rows
    BY <2>1, StoreAssumption DEF Rows
  <2>3. Addable(V, k, values)
    BY <1>3, <2>1, <2>2 DEF Addable, Ids
  <2> HIDE DEF V
  <2>4. InOrder(V)
    BY DEF V
  <2>5. InOrder(Put(V, k, values))
    BY <2>3, <2>4, AddedInOrder
  <2>6. Numbered(V) => Numbered(Put(V, k, values))
    BY <2>1, <2>2, AddedNumbered DEF Ids
  <2> QED
    BY <2>5, <2>6 DEF V
<1>5. CASE tx[c].ribbon # Nowhere
  <2>1. k \in Ribbons /\ k \in DOMAIN V /\ tx[c].read[k] = V[k] /\ values = Changed(c, k, at)
    BY <1>1, <1>5 DEF at, Prepared, IInv, Shape
  <2>2. DOMAIN V[k] = {"book", "chapter", "page"}
    BY <2>1 DEF InOrder, Shaped
  <2>3. DOMAIN values \subseteq {"book", "chapter", "page"}
    BY <1>3, <2>1 DEF Changed
  <2> HIDE DEF V
  <2>4. InOrder(V)
    BY DEF V
  <2>5. \A x \in {"book", "chapter", "page"} : Put(V, k, Changed(c, k, at))[k][x] = at[x]
    BY <1>3, <2>1, <2>2, ChangedSets
  <2>6. /\ Put(V, k, values)[k].page = at.page
        /\ Put(V, k, values)[k].book = at.book
        /\ Put(V, k, values)[k].chapter = at.chapter
    BY <2>1, <2>5
  <2>7. /\ Put(V, k, values)[k].page \in Pages \cap DOMAIN V
        /\ Put(V, k, values)[k].book = V[Put(V, k, values)[k].page].book
        /\ Put(V, k, values)[k].chapter = V[Put(V, k, values)[k].page].chapter
    BY <1>3, <2>6
  <2>8. k \in Ribbons \cap DOMAIN V
    BY <2>1
  <2> QED
    BY <2>3, <2>4, <2>7, <2>8, TiedInOrder DEF V
<1> QED
  BY <1>4, <1>5

\* Every statement that writes leaves what its request sees in order, and numbered
\* unless the request assigns a number.
LEMMA WriteOrder ==
    ASSUME IInv, Scripted, Filled, NEW c \in Clients, Writing(c), InOrder(View(c)), Prepared(c)
    PROVE  /\ InOrder(View(c))'
           /\ Numbered(View(c)) /\ "number" \notin DOMAIN Changes(c) => Numbered(View(c))'
<1> DEFINE V == View(c)
<1>0. rows' = rows /\ Shape /\ DOMAIN V = Known(c)
  BY DEF Writing, Proceeds, IInv, View
<1>1. PICK k, values : Permitted(c, k, values) /\ tx'[c].dirty = Write(tx[c], k, values).dirty
  BY DEF Writing
<1>2. View(c)' = Put(V, k, values)
  BY <1>0, <1>1, ViewPut
<1> SUFFICES /\ InOrder(Put(V, k, values))
             /\ Numbered(V) /\ "number" \notin DOMAIN Changes(c) => Numbered(Put(V, k, values))
  <2>1. (InOrder(View(c))' <=> InOrder(Put(V, k, values))) /\ (Numbered(View(c))' <=> Numbered(Put(V, k, values)))
    BY <1>2 DEF InOrder, Shaped, Counted, Marked, Numbered, Siblings
  <2> QED
    BY <2>1
<1>3. CASE Doing(c, "save")
  <2>1. k = Target(c) /\ values = Values(c) /\ Storable(Values(c))
    BY <1>0, <1>1, <1>3, PermittedKinds, SaveFacts
  <2> QED
    BY <1>3, <2>1, SaveOrder
<1>4. CASE Doing(c, "touch") \/ Doing(c, "upsert")
  <2>1. Row(c) \in Known(c)
    BY <1>4 DEF Prepared
  <2>2. CASE Doing(c, "touch")
    <3>1. k = Row(c) /\ values = <<>>
      BY <1>1, <2>2 DEF Permitted, Doing
    <3>2. k \in Ids
      <4>1. Kind(c) \in Kinds /\ Row(c) \in Pool(Kind(c)) \cup {Nowhere}
        BY <1>0, <2>2, HeadFacts
      <4> QED
        BY <2>1, <3>1, <4>1, PoolIds DEF Filled, Known
    <3> QED
      BY <1>0, <2>1, <3>1, <3>2, TouchedInOrder
  <2>3. CASE Doing(c, "upsert")
    <3>1. k = Recent(Row(c)) /\ values = <<>>
      BY <1>1, <2>3 DEF Permitted, Doing
    <3>2. k \in Rows \ (Ids \cup Ribbons)
      <4>1. /\ Kind(c) \in Kinds /\ Row(c) \in Pool(Kind(c)) \cup {Nowhere}
            /\ Suits(tx[c].request, Do("upsert", Kind(c)))
        BY <1>0, <2>3, HeadFacts
      <4>2. Row(c) \in Books \cup Chapters
        BY <2>1, <4>1 DEF Suits, Do, Kinds, Pool, Filled, Known
      <4>3. Recent(Row(c)) \in Rows
        BY <4>2 DEF Rows
      <4>4. Row(c) \in Ids
        BY <4>2 DEF Ids
      <4> QED
        BY <3>1, <4>3, <4>4, StoreAssumption
    <3> QED
      BY <3>1, <3>2, RecentInOrder
  <2> QED
    BY <1>4, <2>2, <2>3
<1>5. CASE Doing(c, "insert")
  <2>1. k \in Pool(Kind(c)) \ Known(c) /\ values = NewRow(c)
    BY <1>1, <1>5 DEF Permitted, Doing
  <2> QED
    BY <1>5, <2>1, InsertOrder
<1>6. CASE Doing(c, "tie")
  <2>1. IF tx[c].ribbon = Nowhere THEN k \in Ribbons \ Known(c) /\ values = tx[c].at
                                  ELSE k = tx[c].ribbon /\ values = Changed(c, k, tx[c].at)
    BY <1>1, <1>6 DEF Permitted, Doing
  <2> QED
    BY <1>6, <2>1, TieOrder
<1> QED
  BY <1>1, <1>3, <1>4, <1>5, <1>6 DEF Permitted

-----------------------------------------------------------------------------
(* The invariant of one request at a time *)

\* What is said of a library is said of the rows that are there next.
LEMMA PrimedRows ==
    ASSUME NEW c \in Clients, NEW a, NEW b, View(c)' = a, rows' = b
    PROVE  /\ (InOrder(View(c))' <=> InOrder(a)) /\ (Numbered(View(c))' <=> Numbered(a))
           /\ (InOrder(rows)' <=> InOrder(b)) /\ (Numbered(rows)' <=> Numbered(b))
BY DEF InOrder, Shaped, Counted, Marked, Numbered, Siblings

\* The library begins in order.
LEMMA InitSerial == Init => SInv
<1> SUFFICES ASSUME Init PROVE SInv
  OBVIOUS
<1>1. \A c \in Clients : tx[c].status = "unsent" /\ tx[c].dirty = <<>>
  BY DEF Init, Unsent
<1>2. DOMAIN <<>> = {}
  OBVIOUS
<1>3. \A c \in Clients : ~Running(c)
  BY <1>1 DEF Running
<1>4. OneAtATime /\ Clean /\ RecentRowsNeverClash
  BY <1>1, <1>2, <1>3 DEF OneAtATime, Clean, RecentRowsNeverClash
<1>5. InOrder(rows) /\ Numbered(rows)
  BY LibraryAssumption DEF Init, InOrder
<1>6. DOMAIN acked = Pages \cap DOMAIN rows /\ LastSaveIsStored
  BY DEF Init, LastSaveIsStored
<1> QED
  BY <1>3, <1>4, <1>5, <1>6 DEF SInv

\* A request is sent when none runs, and sees the rows as they are.
LEMMA SendSerial ==
    ASSUME MaxRunning = 1, IInv, SInv, NEW c \in Clients, Send(c)
    PROVE  SInv'
<1>1. \A d \in Clients : ~Running(d)
  <2> SUFFICES ASSUME NEW e \in Clients, Running(e) PROVE FALSE
    OBVIOUS
  <2>1. {d \in Clients : Running(d)} = {e}
    BY DEF SInv, OneAtATime
  <2>2. Cardinality({e}) = 1 /\ Cardinality({e}) < 1
    BY <2>1, FS_Singleton DEF Send
  <2> QED
    BY <2>2
<1>2. /\ tx[c].status = "unsent" /\ Alone(c) /\ rows' = rows /\ acked' = acked
      /\ tx'[c].status = "running" /\ Begins(tx'[c].request, tx'[c].todo)
      /\ DOMAIN tx'[c].read = {} /\ DOMAIN tx'[c].dirty = {}
  <2>1. DOMAIN <<>> = {}
    OBVIOUS
  <2>2. Shape /\ acked' = acked
    BY DEF IInv, Send
  <2> QED
    BY <2>1, <2>2, SendFacts
<1>3. \A d \in Clients : Running(d)' <=> d = c
  BY <1>1, <1>2 DEF Running, Alone
<1>4. OneAtATime' /\ Clean' /\ RecentRowsNeverClash'
  <2>1. \A d \in Clients \ {c} : tx'[d] = tx[d]
    BY <1>2 DEF Alone
  <2>2. RecentRowsNeverClash'
    BY <1>2, <2>1 DEF SInv, RecentRowsNeverClash
  <2>3. Clean'
    BY <1>1, <1>3, <2>1 DEF SInv, Clean
  <2> QED
    BY <1>3, <2>2, <2>3 DEF OneAtATime
<1>5. /\ NobodyNumbers({"ok", "running"})' => NobodyNumbers({"ok"})
      /\ NobodyNumbers({"ok"})' => NobodyNumbers({"ok"})
  BY <1>2 DEF NobodyNumbers, Alone
<1>6. InOrder(View(c))' /\ (NobodyNumbers({"ok", "running"})' => Numbered(View(c))')
  <2> DEFINE seen == [k \in DOMAIN rows |-> rows[k]]
  <2>1. View(c)' = seen
    BY <1>2 DEF View, Known, Seen
  <2>2. DOMAIN rows = DOMAIN seen /\ \A k \in DOMAIN rows : rows[k] = seen[k]
    OBVIOUS
  <2> HIDE DEF seen
  <2>3. InOrder(seen) /\ (Numbered(rows) => Numbered(seen))
    BY <2>2, SameRows DEF SInv
  <2>4. (InOrder(View(c))' <=> InOrder(seen)) /\ (Numbered(View(c))' <=> Numbered(seen))
    BY <2>1, PrimedRows
  <2> QED
    BY <1>5, <2>3, <2>4 DEF SInv
<1>7. /\ tx'[c].todo # <<>> => Head(tx'[c].todo) = tx'[c].todo[1]
  BY <1>2, ScriptGoesOn DEF Begins
<1>8. Prepared(c)'
  <2>1. \A v : Doing(c, v)' => /\ v \in {"find", "aim", "insert"}
                               /\ v = "insert" => Kind(c)' = "book"
    BY <1>2, <1>7 DEF Doing, Kind, Begins
  <2> QED
    BY <2>1 DEF Prepared
<1>9. Fresh(c)'
  BY <1>2 DEF Fresh
<1>10. Saved(c)'
  BY <1>2 DEF Saved, Begins, Editing, Changes, Do
<1>11. Orderly(c)'
  BY <1>6, <1>8, <1>9, <1>10 DEF Orderly
<1>12. /\ InOrder(rows)' /\ (NobodyNumbers({"ok"})' => Numbered(rows)')
       /\ DOMAIN acked' = Pages \cap DOMAIN rows' /\ LastSaveIsStored'
  <2>1. (InOrder(rows)' <=> InOrder(rows)) /\ (Numbered(rows)' <=> Numbered(rows))
    BY <1>2, PrimedRows
  <2>2. DOMAIN acked' = Pages \cap DOMAIN rows' /\ LastSaveIsStored'
    BY <1>2 DEF SInv, LastSaveIsStored
  <2> QED
    BY <1>5, <2>1, <2>2 DEF SInv
<1> QED
  BY <1>3, <1>4, <1>11, <1>12 DEF SInv

\* While one request runs, the others stand still.
LEMMA OthersStill ==
    ASSUME SInv, NEW c \in Clients, Running(c), Alone(c)
    PROVE  /\ \A d \in Clients \ {c} : tx'[d] = tx[d] /\ ~Running(d) /\ ~Running(d)' /\ DOMAIN tx'[d].dirty = {}
           /\ OneAtATime'
           /\ Clean' <=> (~Running(c)' => DOMAIN tx'[c].dirty = {})
           /\ tx'[c].status # "key_taken" => RecentRowsNeverClash'
<1>1. \A d \in Clients \ {c} : tx'[d] = tx[d] /\ ~Running(d) /\ ~Running(d)' /\ DOMAIN tx'[d].dirty = {}
  BY DEF SInv, OneAtATime, Clean, Alone, Running
<1>2. OneAtATime'
  BY <1>1 DEF OneAtATime
<1>3. Clean' <=> (~Running(c)' => DOMAIN tx'[c].dirty = {})
  BY <1>1 DEF Clean
<1>4. tx'[c].status # "key_taken" => RecentRowsNeverClash'
  BY <1>1 DEF RecentRowsNeverClash, SInv
<1> QED
  BY <1>1, <1>2, <1>3, <1>4

\* A statement that reads or writes leaves the rows as they are, and what its
\* request sees in order.
LEMMA ProceedSerial ==
    ASSUME IInv, Scripted, Filled, SInv, NEW c \in Clients, Reads(c) \/ Writing(c), acked' = acked
    PROVE  SInv'
<1>1. /\ Running(c) /\ Running(c)' /\ Alone(c) /\ rows' = rows
      /\ tx[c].status = "running" /\ tx'[c].status = "running" /\ tx'[c].request = tx[c].request
  BY DEF Reads, Writing, Proceeds, Running
<1>2. /\ InOrder(View(c)) /\ Prepared(c) /\ Fresh(c) /\ Saved(c)
      /\ NobodyNumbers({"ok", "running"}) => Numbered(View(c))
  BY <1>1 DEF SInv, Orderly
<1>3. \A S : NobodyNumbers(S)' <=> NobodyNumbers(S)
  BY <1>1 DEF NobodyNumbers, Alone
<1>4. Prepared(c)' /\ Fresh(c)' /\ Saved(c)'
  BY <1>2, PreparedStep, FreshStep, SavedStep
<1>5. InOrder(View(c))' /\ (NobodyNumbers({"ok", "running"}) => Numbered(View(c))')
  <2>1. CASE Reads(c)
    <3> DEFINE a == View(c)
    <3>1. View(c)' = a
      BY <1>1, <2>1, ViewSame DEF Reads
    <3> QED
      BY <1>2, <3>1, PrimedRows
  <2>2. CASE Writing(c)
    <3>1. NobodyNumbers({"ok", "running"}) => "number" \notin DOMAIN Changes(c)
      BY <1>1 DEF NobodyNumbers, Changes
    <3> QED
      BY <1>2, <2>2, <3>1, WriteOrder
  <2> QED
    BY <2>1, <2>2
<1>6. Orderly(c)'
  BY <1>3, <1>4, <1>5 DEF Orderly
<1>7. /\ InOrder(rows)' /\ (NobodyNumbers({"ok"})' => Numbered(rows)')
      /\ DOMAIN acked' = Pages \cap DOMAIN rows' /\ LastSaveIsStored'
  <2>1. (InOrder(rows)' <=> InOrder(rows)) /\ (Numbered(rows)' <=> Numbered(rows))
    BY <1>1, PrimedRows
  <2>2. DOMAIN acked' = Pages \cap DOMAIN rows' /\ LastSaveIsStored'
    BY <1>1 DEF SInv, LastSaveIsStored
  <2> QED
    BY <1>3, <2>1, <2>2 DEF SInv
<1>8. OneAtATime' /\ Clean' /\ RecentRowsNeverClash' /\ \A d \in Clients : Running(d)' => d = c
  BY <1>1, OthersStill
<1> QED
  BY <1>6, <1>7, <1>8 DEF SInv

\* A request that stops leaves the rows as they are, and its key was not taken: who
\* adds a recent row has just seen that there is none.
LEMMA StopSerial ==
    ASSUME IInv, SInv, NEW c \in Clients, Stops(c), acked' = acked
    PROVE  SInv'
<1>1. /\ Running(c) /\ ~Running(c)' /\ Alone(c) /\ rows' = rows /\ tx'[c].dirty = <<>>
      /\ tx[c].status = "running" /\ tx'[c].status \in {"not_found", "no_bookmark", "null_refused", "key_taken"}
  BY DEF Stops, Running
<1>2. tx'[c].status # "key_taken"
  <2>1. Prepared(c)
    BY <1>1 DEF SInv, Orderly
  <2> QED
    BY <2>1 DEF Stops, Prepared, Known
<1>3. DOMAIN tx'[c].dirty = {}
  BY <1>1
<1>4. NobodyNumbers({"ok"})' <=> NobodyNumbers({"ok"})
  BY <1>1 DEF NobodyNumbers, Alone
<1>5. /\ InOrder(rows)' /\ (NobodyNumbers({"ok"})' => Numbered(rows)')
      /\ DOMAIN acked' = Pages \cap DOMAIN rows' /\ LastSaveIsStored'
  <2>1. (InOrder(rows)' <=> InOrder(rows)) /\ (Numbered(rows)' <=> Numbered(rows))
    BY <1>1, PrimedRows
  <2>2. DOMAIN acked' = Pages \cap DOMAIN rows' /\ LastSaveIsStored'
    BY <1>1 DEF SInv, LastSaveIsStored
  <2> QED
    BY <1>4, <2>1, <2>2 DEF SInv
<1>6. OneAtATime' /\ Clean' /\ RecentRowsNeverClash' /\ \A d \in Clients : ~Running(d)'
  BY <1>1, <1>2, <1>3, OthersStill
<1> QED
  BY <1>5, <1>6 DEF SInv

\* A commit makes what the request sees the rows; a page that the request was to
\* give a content has it, and the others have the one they had.
LEMMA CommitSerial ==
    ASSUME IInv, OwnColumns, SInv, NEW c \in Clients, Commit(c)
    PROVE  SInv'
<1>1. /\ Running(c) /\ ~Running(c)' /\ tx[c].todo = <<>> /\ Alone(c) /\ rows' = View(c)
      /\ tx[c].status = "running" /\ tx'[c].status = "ok" /\ tx'[c].request = tx[c].request /\ tx'[c].dirty = <<>>
  BY CommitFacts DEF IInv, View, Running
<1>2. /\ InOrder(View(c)) /\ Saved(c)
      /\ NobodyNumbers({"ok", "running"}) => Numbered(View(c))
  BY <1>1 DEF SInv, Orderly
<1>3. DOMAIN tx'[c].dirty = {}
  BY <1>1
<1>4. OneAtATime' /\ Clean' /\ RecentRowsNeverClash' /\ \A d \in Clients : ~Running(d)'
  BY <1>1, <1>3, OthersStill
<1>5. NobodyNumbers({"ok"})' => NobodyNumbers({"ok", "running"})
  <2>1. \A d \in Clients \ {c} : tx'[d] = tx[d] /\ tx[d].status # "running"
    BY <1>1, OthersStill DEF Running
  <2> QED
    BY <1>1, <2>1 DEF NobodyNumbers
<1>6. InOrder(rows)' /\ (NobodyNumbers({"ok"})' => Numbered(rows)')
  <2> DEFINE b == View(c)
  <2>1. rows' = b
    BY <1>1
  <2>2. (InOrder(rows)' <=> InOrder(b)) /\ (Numbered(rows)' <=> Numbered(b))
    BY <2>1, PrimedRows
  <2> QED
    BY <1>2, <1>5, <2>2
<1>7. DOMAIN View(c) = Known(c) /\ \A k \in Known(c) : View(c)[k] = Seen(c, k)
  BY DEF View
<1> DEFINE Gives(k) == /\ k = tx[c].request.at.page /\ tx[c].request.op \in {"edit", "close"}
                       /\ "content" \in DOMAIN tx[c].request.changes
<1>8. acked' = [k \in Pages \cap Known(c) |->
                  IF Gives(k) THEN tx[c].request.changes.content
                  ELSE IF k \in DOMAIN acked THEN acked[k] ELSE Seen(c, k).content]
  BY DEF Commit
<1>9. DOMAIN acked' = Pages \cap DOMAIN rows'
  BY <1>1, <1>7, <1>8
<1>10. ASSUME NEW k \in Pages \cap Known(c), "content" \in DOMAIN Changes(c), Editing(c), k = tx[c].request.at.page
       PROVE  Seen(c, k).content = Changes(c).content
  <2>1. tx[c].request \in Requests
    BY <1>1 DEF IInv, Shape
  <2>2. Target(c) = k
    BY <1>10, <2>1, ContentTarget
  <2>3. Len(tx[c].todo) = 0
    BY <1>1
  <2> QED
    BY <1>1, <1>2, <1>7, <1>10, <2>2, <2>3 DEF Saved, Doing
<1>11. ASSUME NEW k \in Pages \cap DOMAIN rows, Seen(c, k).content # rows[k].content
       PROVE  "content" \in DOMAIN Changes(c) /\ Editing(c) /\ k = tx[c].request.at.page
  <2>1. "content" \in DOMAIN rows[k]
    BY DEF SInv, InOrder, Shaped
  <2>2. k \in DOMAIN tx[c].dirty /\ "content" \in DOMAIN tx[c].dirty[k]
    BY <1>11, <2>1 DEF Seen, Over
  <2>3. Editing(c) /\ k = Target(c) /\ "content" \in DOMAIN Changes(c)
    BY <2>2 DEF OwnColumns, Ids
  <2>4. tx[c].request \in Requests
    BY <1>1 DEF IInv, Shape
  <2> QED
    BY <2>3, <2>4, ContentTarget
<1>12. ASSUME NEW k \in Pages \cap Known(c) PROVE Seen(c, k).content = acked'[k]
  <2>1. CASE Gives(k)
    <3>1. Editing(c) /\ "content" \in DOMAIN Changes(c) /\ k = tx[c].request.at.page
      BY <1>1, <2>1 DEF Editing, Changes
    <3>2. acked'[k] = Changes(c).content
      BY <1>8, <2>1 DEF Changes
    <3> QED
      BY <1>10, <3>1, <3>2
  <2>2. CASE ~Gives(k) /\ k \in DOMAIN acked
    <3>1. k \in Pages \cap DOMAIN rows /\ rows[k].content = acked[k]
      BY <2>2 DEF SInv, LastSaveIsStored
    <3>2. Seen(c, k).content = rows[k].content
      BY <1>11, <2>2, <3>1 DEF Changes, Editing
    <3> QED
      BY <1>8, <2>2, <3>1, <3>2
  <2>3. CASE ~Gives(k) /\ k \notin DOMAIN acked
    BY <1>8, <2>3
  <2> QED
    BY <2>1, <2>2, <2>3
<1>13. LastSaveIsStored'
  <2>1. \A k \in DOMAIN acked' : rows'[k] = Seen(c, k) /\ k \in Pages \cap Known(c)
    BY <1>1, <1>7, <1>9
  <2> HIDE DEF Gives
  <2> QED
    BY <1>12, <2>1 DEF LastSaveIsStored
<1> QED
  BY <1>4, <1>6, <1>9, <1>13 DEF SInv

\* Nothing but a commit acknowledges a save.
LEMMA AckedKept ==
    ASSUME NEW c \in Clients, Statement(c), ~Commit(c)
    PROVE  acked' = acked
BY DEF Statement, Find, Try, FindRibbon, Aim, Recall, TakeNumber, Save, Touch, Upsert, Tie, Insert,
       Ends, Stores, Update, Adds

\* Every step keeps the library in order, if requests run one at a time.
LEMMA SerialStep ==
    ASSUME MaxRunning = 1, IInv, Scripted, Filled, OwnColumns, SInv, [Next]_vars
    PROVE  SInv'
<1>1. ASSUME NEW c \in Clients, Send(c) PROVE SInv'
  BY <1>1, SendSerial
<1>2. ASSUME NEW c \in Clients, Statement(c) PROVE SInv'
  <2>1. CASE Commit(c)
    BY <2>1, CommitSerial
  <2>2. CASE ~Commit(c)
    BY <1>2, <2>2, AckedKept, StatementKinds, ProceedSerial, StopSerial DEF IInv
  <2> QED
    BY <2>1, <2>2
<1>3. CASE UNCHANGED vars
  <2>1. rows' = rows /\ tx' = tx /\ acked' = acked
    BY <1>3 DEF vars
  <2>2. \A c \in Clients : View(c)' = View(c)
    BY <2>1 DEF View, Known, Seen
  <2>3. \A c \in Clients : Prepared(c)' <=> Prepared(c)
    BY <2>1, <2>2 DEF Prepared, Doing, Running, Target, Row, Kind, Known, OnPage, Seen, Children
  <2>4. \A c \in Clients : (Fresh(c)' <=> Fresh(c)) /\ (Saved(c)' <=> Saved(c))
    BY <2>1, <2>2 DEF Fresh, Saved, Editing, Running, Changes, Doing, Target, Known
  <2>5. \A S : NobodyNumbers(S)' <=> NobodyNumbers(S)
    BY <2>1 DEF NobodyNumbers
  <2>6. ASSUME NEW c \in Clients PROVE Orderly(c)' <=> Orderly(c)
    <3> DEFINE a == View(c)
    <3>1. View(c)' = a
      BY <2>2
    <3>2. (InOrder(View(c))' <=> InOrder(a)) /\ (Numbered(View(c))' <=> Numbered(a))
      BY <2>1, <3>1, PrimedRows
    <3> QED
      BY <2>3, <2>4, <2>5, <3>2 DEF Orderly
  <2>7. (InOrder(rows)' <=> InOrder(rows)) /\ (Numbered(rows)' <=> Numbered(rows))
    BY <2>1 DEF InOrder, Shaped, Counted, Marked, Numbered, Siblings
  <2>8. /\ OneAtATime' <=> OneAtATime
        /\ Clean' <=> Clean
        /\ RecentRowsNeverClash' <=> RecentRowsNeverClash
        /\ LastSaveIsStored' <=> LastSaveIsStored
        /\ \A c \in Clients : Running(c)' <=> Running(c)
    BY <2>1 DEF OneAtATime, Clean, RecentRowsNeverClash, LastSaveIsStored, Running
  <2> QED
    BY <2>1, <2>5, <2>6, <2>7, <2>8 DEF SInv
<1> QED
  BY <1>1, <1>2, <1>3 DEF Next

\* If the server runs one request at a time, the library is in order at any time,
\* and so is what the request that runs sees of it.
THEOREM OneByOne ==
    ASSUME MaxRunning = 1
    PROVE  Spec => []SInv
<1>1. Init => Filled /\ EInv /\ SInv
  BY InitFilled, InitEdits, InitSerial
<1>2. IInv /\ Scripted /\ Filled /\ EInv /\ SInv /\ [Next]_vars => Filled' /\ EInv' /\ SInv'
  BY FilledStep, EditsStep, SerialStep DEF EInv
<1> QED
  BY <1>1, <1>2, SpecScripted, PTL DEF Spec

\* Then the ribbon marks one page (set_bookmark),
THEOREM RibbonMarks ==
    ASSUME MaxRunning = 1
    PROVE  Spec => []RibbonMarksOnePage
<1>1. SInv => RibbonMarksOnePage
  BY DEF SInv, InOrder, RibbonMarksOnePage
<1> QED
  BY <1>1, OneByOne, PTL

\* the counts of a page are those of its content (save_page_content),
THEOREM CountsMatch ==
    ASSUME MaxRunning = 1
    PROVE  Spec => []CountsMatchContent
<1>1. SInv => CountsMatchContent
  BY DEF SInv, InOrder, CountsMatchContent
<1> QED
  BY <1>1, OneByOne, PTL

\* a page holds what its last acknowledged save gave it,
THEOREM LastSaveStays ==
    ASSUME MaxRunning = 1
    PROVE  Spec => []LastSaveIsStored
<1>1. SInv => LastSaveIsStored
  BY DEF SInv
<1> QED
  BY <1>1, OneByOne, PTL

\* the numbers that the server gives are unique (_next_chapter_number and
\* _next_page_number),
THEOREM NumbersStayApart ==
    ASSUME MaxRunning = 1
    PROVE  Spec => []NumbersAreUnique
<1>1. SInv => NumbersAreUnique
  BY DEF SInv, NobodyNumbers, NumbersAreUnique, Running
<1> QED
  BY <1>1, OneByOne, PTL

\* and no request meets the unique key of the recent rows (_upsert_recent_book and
\* _upsert_recent_chapter).
THEOREM RecentRowsStayApart ==
    ASSUME MaxRunning = 1
    PROVE  Spec => []RecentRowsNeverClash
<1>1. SInv => RecentRowsNeverClash
  BY DEF SInv
<1> QED
  BY <1>1, OneByOne, PTL
=============================================================================
