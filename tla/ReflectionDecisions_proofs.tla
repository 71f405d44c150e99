--------------------- MODULE ReflectionDecisions_proofs ---------------------
(***************************************************************************)
(* Proofs about the decisions of an Orchestra run, for every page, memory  *)
(* source, registry and draft: what the Guardian decides of a page, that   *)
(* no later decision goes beyond it, and that a memory found is neither    *)
(* crowded out by a lesser one nor dropped without a note.                 *)
(***************************************************************************)
EXTENDS ReflectionDecisions, FiniteSetTheorems, FunctionTheorems, SequenceTheorems,
        WellFoundedInduction, TLAPS

-----------------------------------------------------------------------------
(* The tables *)

\* A set of natural numbers that is not empty has a least one.
LEMMA LeastOf ==
    ASSUME NEW S, S \subseteq Nat, S # {}
    PROVE  \E i \in S : \A j \in S : i <= j
<1>1. PICK i \in S : \A j \in S : ~(<<j, i>> \in OpToRel(<, Nat))
  BY NatLessThanWellFounded, WFMin
<1>2. \A j \in S : ~(j < i)
  BY <1>1, Zenon DEF OpToRel
<1>3. \A j \in S : i <= j
  BY <1>2
<1>4. QED
  BY <1>3

\* A table answers with a row that its marks meet, and no row before it is met;
\* or, where no row is, with what it is told to.
LEMMA FirstMatchRow ==
    ASSUME NEW table, DOMAIN table \subseteq Nat, NEW marks, NEW otherwise
    PROVE  \/ /\ \A i \in DOMAIN table : table[i].on \cap marks = {}
              /\ FirstMatch(table, marks, otherwise) = otherwise
           \/ \E i \in DOMAIN table :
                 /\ table[i].on \cap marks # {}
                 /\ \A j \in DOMAIN table : table[j].on \cap marks # {} => i <= j
                 /\ FirstMatch(table, marks, otherwise) = table[i].is
<1> DEFINE hits == {i \in DOMAIN table : table[i].on \cap marks # {}}
           first == CHOOSE i \in hits : \A j \in hits : i <= j
<1>1. CASE hits = {}
  BY <1>1 DEF FirstMatch
<1>2. CASE hits # {}
  <2>1. \E i \in hits : \A j \in hits : i <= j
    BY <1>2, LeastOf
  <2>2. first \in hits /\ \A j \in hits : first <= j
    BY <2>1
  <2>3. FirstMatch(table, marks, otherwise) = table[first].is
    BY <1>2 DEF FirstMatch
  <2> HIDE DEF first
  <2>4. QED
    BY <2>2, <2>3
<1>3. QED
  BY <1>1, <1>2

\* The first three rows of the Guardian's categories are the crises, and only they.
LEMMA CategoryRows ==
    /\ DOMAIN CategoryTable = 1..12
    /\ \A i \in 1..12 : CategoryTable[i].is \in Crises <=> i <= 3
    /\ \A i \in 1..12 : CategoryTable[i].on \cap {"self_harm", "harm_others", "emergency"} # {}
                           <=> i <= 3
    /\ CategoryTable[1].on = {"self_harm"}
    /\ CategoryTable[2].on = {"harm_others"}
    /\ CategoryTable[3].on = {"emergency"}
BY DEF CategoryTable, Crises

\* The category is a crisis just when one of the three signals is there.
LEMMA CrisisBySignal ==
    ASSUME NEW signals
    PROVE  CategoryOf(signals) \in Crises
              <=> signals \cap {"self_harm", "harm_others", "emergency"} # {}
<1> DEFINE laden == "overwhelmed" \in signals /\ signals \cap {"sad", "anxious", "grief"} # {}
           marks == signals \cup (IF laden THEN {"strong_distress"} ELSE {})
<1>1. CategoryOf(signals) = FirstMatch(CategoryTable, marks, "safe")
  BY DEF CategoryOf
<1>2. \A s \in {"self_harm", "harm_others", "emergency"} : s \in marks <=> s \in signals
  OBVIOUS
<1> HIDE DEF marks
<1>3. CASE /\ \A i \in DOMAIN CategoryTable : CategoryTable[i].on \cap marks = {}
           /\ FirstMatch(CategoryTable, marks, "safe") = "safe"
  <2>1. "safe" \notin Crises
    BY DEF Crises
  <2>2. /\ CategoryTable[1].on \cap marks = {}
        /\ CategoryTable[2].on \cap marks = {}
        /\ CategoryTable[3].on \cap marks = {}
    BY <1>3, CategoryRows
  <2>3. signals \cap {"self_harm", "harm_others", "emergency"} = {}
    BY <1>2, <2>2, CategoryRows
  <2>4. QED
    BY <1>1, <1>3, <2>1, <2>3
<1>4. ASSUME NEW i \in DOMAIN CategoryTable,
             CategoryTable[i].on \cap marks # {},
             \A j \in DOMAIN CategoryTable : CategoryTable[j].on \cap marks # {} => i <= j,
             FirstMatch(CategoryTable, marks, "safe") = CategoryTable[i].is
      PROVE  CategoryOf(signals) \in Crises
                <=> signals \cap {"self_harm", "harm_others", "emergency"} # {}
  <2>1. i \in 1..12
    BY <1>4, CategoryRows
  <2>2. CASE i <= 3
    <3>1. i = 1 \/ i = 2 \/ i = 3
      BY <2>1, <2>2
    <3>2. \E s \in {"self_harm", "harm_others", "emergency"} : s \in marks
      BY <1>4, <3>1, CategoryRows
    <3>3. CategoryTable[i].is \in Crises
      BY <2>1, <2>2, CategoryRows
    <3>4. QED
      BY <1>1, <1>2, <1>4, <3>2, <3>3
  <2>3. CASE ~(i <= 3)
    <3>1. CategoryTable[i].is \notin Crises
      BY <2>1, <2>3, CategoryRows
    <3>2. /\ CategoryTable[1].on \cap marks = {}
          /\ CategoryTable[2].on \cap marks = {}
          /\ CategoryTable[3].on \cap marks = {}
      BY <1>4, <2>1, <2>3, CategoryRows
    <3>3. signals \cap {"self_harm", "harm_others", "emergency"} = {}
      BY <1>2, <3>2, CategoryRows
    <3>4. QED
      BY <1>1, <1>4, <3>1, <3>3
  <2>4. QED
    BY <2>2, <2>3
<1>5. DOMAIN CategoryTable \subseteq Nat
  BY CategoryRows
<1>6. QED
  BY <1>3, <1>4, <1>5, FirstMatchRow

-----------------------------------------------------------------------------
(* Folds *)

\* The library defines a fold by recursion over the subsets of its domain.  That
\* there is such a function is shown for a least domain without one; a property
\* of every prefix, for a least prefix without it.

\* Max is what it says of a set of positions that is not empty.
LEMMA MaxOf ==
    ASSUME NEW m \in Nat, NEW t \in SUBSET (1..m), t # {}
    PROVE  /\ Max(t) \in t
           /\ \A j \in t : j <= Max(t)
           /\ t \ {Max(t)} \subseteq 1..(Max(t) - 1)
<1> DEFINE bounds == {b \in 0..m : \A j \in t : j <= b}
<1>1. m \in bounds /\ bounds \subseteq Nat
  OBVIOUS
<1>2. PICK b \in bounds : \A c \in bounds : b <= c
  BY <1>1, LeastOf
<1>3. b \in t
  <2>1. CASE b = 0
    <3>1. PICK j : j \in t
      OBVIOUS
    <3>2. j \in 1..m /\ j <= 0
      BY <1>2, <2>1, <3>1
    <3>3. QED
      BY <3>2
  <2>2. CASE b # 0 /\ b \notin t
    <3>1. b - 1 \in bounds
      BY <1>2, <2>2
    <3>2. QED
      BY <1>2, <3>1
  <2>3. QED
    BY <2>1, <2>2
<1>4. \A j \in t : b >= j
  BY <1>2
<1>5. \E x \in t : \A y \in t : x >= y
  BY <1>3, <1>4
<1>6. Max(t) \in t /\ \A y \in t : Max(t) >= y
  BY <1>5 DEF Max
<1>7. \A j \in t : j \in Nat /\ j >= 1
  OBVIOUS
<1> DEFINE top == Max(t)
<1>8. top \in t /\ \A j \in t : j <= top
  BY <1>6, <1>7
<1> HIDE DEF bounds, top
<1>9. t \ {top} \subseteq 1..(top - 1)
  BY <1>7, <1>8
<1>10. QED
  BY <1>8, <1>9 DEF top

\* The greatest of the first k positions is the k-th.
LEMMA PrefixMax ==
    ASSUME NEW k \in Nat \ {0}
    PROVE  Max(1..k) = k /\ (1..k) \ {k} = 1..(k - 1) /\ 1..k # {}
<1>1. k \in 1..k
  OBVIOUS
<1>2. Max(1..k) \in 1..k /\ k <= Max(1..k)
  BY <1>1, MaxOf
<1>3. Max(1..k) = k
  BY <1>2
<1>4. QED
  BY <1>1, <1>3

\* The sums of the first memories of ids, up to that of all n.
AddsUp(sum, s, ids, n) ==
    /\ sum[0] = 0
    /\ \A k \in 1..n : sum[k] = sum[k - 1] + s[ids[k]].chars
    /\ CharsOf(s, ids) = sum[n]

\* The characters are summed in order.
LEMMA CharsFold ==
    ASSUME NEW s, NEW ids, NEW n \in Nat, DOMAIN ids = 1..n
    PROVE  \E sum : AddsUp(sum, s, ids, n)
<1> DEFINE Step(f, t) == IF t = {} THEN 0 ELSE f[t \ {Max(t)}] + s[ids[Max(t)]].chars
           Solves(f, m) == f = [t \in SUBSET (1..m) |-> Step(f, t)]
           unsolved == {m \in Nat : ~ \E f : Solves(f, m)}
<1> HIDE DEF Step, Solves
<1>1. unsolved = {}
  <2> SUFFICES ASSUME unsolved # {} PROVE FALSE
    OBVIOUS
  <2>1. PICK m \in unsolved : \A j \in unsolved : m <= j
    BY LeastOf
  <2>2. CASE m = 0
    <3>1. SUBSET (1..m) = {{}}
      BY <2>2
    <3> DEFINE f == [t \in SUBSET (1..m) |-> 0]
    <3>2. Solves(f, m)
      BY <3>1 DEF Solves, Step
    <3>3. QED
      BY <3>2
  <2>3. CASE m # 0
    <3>1. m - 1 \in Nat /\ m - 1 \notin unsolved
      BY <2>1, <2>3
    <3>2. PICK f : Solves(f, m - 1)
      BY <3>1
    <3> DEFINE g == [t \in SUBSET (1..m) |-> Step(f, t)]
    <3>3. \A t \in SUBSET (1..(m - 1)) : g[t] = f[t]
      <4>1. SUBSET (1..(m - 1)) \subseteq SUBSET (1..m)
        BY <2>1, <2>3
      <4>2. \A t \in SUBSET (1..(m - 1)) : f[t] = Step(f, t)
        BY <3>2 DEF Solves
      <4>3. QED
        BY <4>1, <4>2
    <3>4. \A t \in SUBSET (1..m) : t # {} => t \ {Max(t)} \in SUBSET (1..(m - 1))
      <4> TAKE t \in SUBSET (1..m)
      <4> HAVE t # {}
      <4>1. Max(t) \in 1..m /\ t \ {Max(t)} \subseteq 1..(Max(t) - 1)
        BY <2>1, MaxOf
      <4>2. QED
        BY <2>1, <4>1
    <3>5. \A t \in SUBSET (1..m) : Step(g, t) = Step(f, t)
      BY <3>3, <3>4 DEF Step
    <3>6. Solves(g, m)
      BY <3>5 DEF Solves
    <3>7. QED
      BY <2>1, <3>6
  <2>4. QED
    BY <2>2, <2>3
<1>2. \E f : Solves(f, n)
  BY <1>1
<1> DEFINE it == CHOOSE f : f = [t \in SUBSET DOMAIN ids |-> IF t = {} THEN 0
                                  ELSE f[t \ {Max(t)}] + s[ids[Max(t)]].chars]
<1>3. Solves(it, n)
  BY <1>2 DEF Solves, Step
<1>4. CharsOf(s, ids) = it[1..n]
  BY DEF CharsOf, FoldLeft, MapThenFoldSet
<1> HIDE DEF it
<1> DEFINE sum == [k \in 0..n |-> it[1..k]]
<1>5. sum[0] = 0
  <2>1. 1..0 = {} /\ {} \in SUBSET (1..n)
    OBVIOUS
  <2>2. QED
    BY <1>3, <2>1 DEF Solves, Step
<1>6. ASSUME NEW k \in 1..n
      PROVE  sum[k] = sum[k - 1] + s[ids[k]].chars
  <2>1. Max(1..k) = k /\ (1..k) \ {k} = 1..(k - 1) /\ 1..k # {}
    <3>1. k \in Nat \ {0}
      OBVIOUS
    <3>2. QED
      BY <3>1, PrefixMax
  <2>2. 1..k \in SUBSET (1..n)
    OBVIOUS
  <2>3. it[1..k] = it[1..(k - 1)] + s[ids[k]].chars
    BY <1>3, <2>1, <2>2 DEF Solves, Step
  <2>4. QED
    BY <2>3
<1>7. sum[n] = it[1..n]
  OBVIOUS
<1>8. AddsUp(sum, s, ids, n)
  BY <1>4, <1>5, <1>6, <1>7 DEF AddsUp
<1>9. QED
  BY <1>8

-----------------------------------------------------------------------------
(* The memories found *)

\* Ahead orders the positions of a shelf.
LEMMA AheadOrders ==
    ASSUME NEW s \in Seq(Memories)
    PROVE  /\ \A i \in DOMAIN s : ~Ahead(s, i, i)
           /\ \A i, j, k \in DOMAIN s : Ahead(s, i, j) /\ Ahead(s, j, k) => Ahead(s, i, k)
           /\ \A i, j \in DOMAIN s : i = j \/ Ahead(s, i, j) \/ Ahead(s, j, i)
           /\ \A i, j \in DOMAIN s : s[i].priority < s[j].priority => Ahead(s, i, j)
<1>1. \A i \in DOMAIN s : i \in Nat /\ s[i].priority \in Nat /\ Score(s[i]) \in Nat
  <2> TAKE i \in DOMAIN s
  <2>1. i \in Nat /\ s[i] \in Memories
    BY LenProperties, ElementOfSeq
  <2>2. s[i].priority \in Nat /\ s[i].matched \in Nat
    BY <2>1 DEF Memories
  <2>3. QED
    BY <2>1, <2>2 DEF Score, Least
<1>2. QED
  BY <1>1 DEF Ahead

\* The places of the relevant memories of a shelf.
Relevant(s)   == {i \in DOMAIN s : Score(s[i]) > 0}
Place(s, i)   == Cardinality({j \in Relevant(s) : Ahead(s, j, i)}) + 1

\* They are numbered without a gap, those ahead first.
LEMMA Places ==
    ASSUME NEW s \in Seq(Memories)
    PROVE  LET n == Cardinality(Relevant(s)) IN
           /\ n \in Nat
           /\ \A i \in Relevant(s) : Place(s, i) \in 1..n
           /\ \A i, j \in Relevant(s) : Ahead(s, i, j) <=> Place(s, i) < Place(s, j)
           /\ \A i, j \in Relevant(s) : Place(s, i) = Place(s, j) => i = j
           /\ \A k \in 1..n : \E i \in Relevant(s) : Place(s, i) = k
<1> DEFINE R == Relevant(s)
           n == Cardinality(R)
           Before(i) == {j \in R : Ahead(s, j, i)}
           place == [i \in R |-> Place(s, i)]
<1>1. R \subseteq DOMAIN s /\ IsFiniteSet(R) /\ n \in Nat
  <2>1. DOMAIN s = 1..Len(s) /\ Len(s) \in Nat
    BY LenProperties
  <2>2. R \in SUBSET (1..Len(s)) /\ IsFiniteSet(1..Len(s))
    BY <2>1, FS_Interval DEF Relevant
  <2>3. QED
    BY <2>1, <2>2, FS_Subset, FS_CardinalityType
<1> HIDE DEF R
<1>2. /\ \A i \in R : ~Ahead(s, i, i)
      /\ \A i, j, k \in R : Ahead(s, i, j) /\ Ahead(s, j, k) => Ahead(s, i, k)
      /\ \A i, j \in R : i = j \/ Ahead(s, i, j) \/ Ahead(s, j, i)
  BY <1>1, AheadOrders
<1>3. \A i \in R : Before(i) \in SUBSET R /\ i \notin Before(i)
  BY <1>2
<1>4. \A i \in R : /\ IsFiniteSet(Before(i)) /\ Cardinality(Before(i)) \in Nat
                   /\ Cardinality(Before(i)) < n
  <2> TAKE i \in R
  <2>1. Before(i) \in SUBSET R /\ Before(i) # R
    BY <1>3
  <2> HIDE DEF Before
  <2>2. /\ IsFiniteSet(Before(i)) /\ Cardinality(Before(i)) <= n
        /\ Cardinality(R) = Cardinality(Before(i)) => R = Before(i)
    BY <1>1, <2>1, FS_Subset
  <2>3. Cardinality(Before(i)) \in Nat
    BY <2>2, FS_CardinalityType
  <2>4. QED
    BY <1>1, <2>1, <2>2, <2>3
<1>5. \A i \in R : Place(s, i) = Cardinality(Before(i)) + 1
  BY DEF Place, R
<1>6. \A i \in R : Place(s, i) \in 1..n
  <2> TAKE i \in R
  <2>1. Cardinality(Before(i)) \in Nat /\ Cardinality(Before(i)) < n
    BY <1>4
  <2>2. Place(s, i) = Cardinality(Before(i)) + 1
    BY <1>5
  <2> HIDE DEF Before, n
  <2>3. QED
    BY <1>1, <2>1, <2>2
<1>7. ASSUME NEW i \in R, NEW j \in R, Ahead(s, i, j)
      PROVE  Place(s, i) < Place(s, j)
  <2>1. Before(i) \in SUBSET Before(j) /\ i \in Before(j) /\ i \notin Before(i)
    BY <1>2, <1>3, <1>7
  <2>2. IsFiniteSet(Before(j)) /\ Cardinality(Before(i)) \in Nat /\ Cardinality(Before(j)) \in Nat
    BY <1>4
  <2>3. Place(s, i) = Cardinality(Before(i)) + 1 /\ Place(s, j) = Cardinality(Before(j)) + 1
    BY <1>5
  <2> HIDE DEF Before
  <2>4. /\ Cardinality(Before(i)) <= Cardinality(Before(j))
        /\ Cardinality(Before(j)) = Cardinality(Before(i)) => Before(j) = Before(i)
    BY <2>1, <2>2, FS_Subset
  <2>5. QED
    BY <2>1, <2>2, <2>3, <2>4
<1>8. \A i, j \in R : Ahead(s, i, j) <=> Place(s, i) < Place(s, j)
  BY <1>1, <1>2, <1>6, <1>7
<1>9. \A i, j \in R : Place(s, i) = Place(s, j) => i = j
  BY <1>1, <1>2, <1>6, <1>7
<1>10. \A k \in 1..n : \E i \in R : Place(s, i) = k
  <2>1. place \in [R -> 1..n] /\ \A i, j \in R : place[i] = place[j] => i = j
    BY <1>6, <1>9
  <2> HIDE DEF place
  <2>2. place \in Injection(R, 1..n)
    BY <2>1, Fun_IsInj
  <2>3. IsFiniteSet(1..n) /\ Cardinality(1..n) = n
    <3> HIDE DEF n
    <3>1. QED
      BY <1>1, FS_Interval
  <2>4. place \in Surjection(R, 1..n)
    BY <1>1, <2>2, <2>3, FS_Injection
  <2>5. \A k \in 1..n : \E i \in R : place[i] = k
    BY <2>4, Fun_SurjectionProperties
  <2>6. QED
    BY <2>5 DEF place
<1>11. QED
  BY <1>1, <1>6, <1>8, <1>9, <1>10 DEF R

\* The Memory Retriever keeps relevant memories of the shelf, each once, in the
\* order of their importance; and one that is ahead of a memory it keeps, it keeps
\* (memory/retriever.py).
THEOREM SelectIsRanked ==
    ASSUME NEW s \in Seq(Memories)
    PROVE  /\ Select(s) \in Seq(Relevant(s))
           /\ Len(Select(s)) = Least(MaxRetrieved, Cardinality(Relevant(s)))
           /\ \A k, l \in 1..Len(Select(s)) : k < l => Ahead(s, Select(s)[k], Select(s)[l])
           /\ \A i \in Relevant(s) : \A j \in ToSet(Select(s)) :
                 Ahead(s, i, j) => i \in ToSet(Select(s))
<1> DEFINE R == Relevant(s)
           n == Cardinality(R)
           m == Least(MaxRetrieved, n)
           At(k) == CHOOSE i \in R : Place(s, i) = k
           sel == [k \in 1..m |-> At(k)]
<1>1. Select(s) = sel
  BY DEF Select, Relevant, Place
<1>2. /\ n \in Nat
      /\ \A i \in R : Place(s, i) \in 1..n
      /\ \A i, j \in R : Ahead(s, i, j) <=> Place(s, i) < Place(s, j)
      /\ \A i, j \in R : Place(s, i) = Place(s, j) => i = j
      /\ \A k \in 1..n : \E i \in R : Place(s, i) = k
  BY Places
<1> HIDE DEF n, R
<1>3. m \in 0..n /\ m \in Nat
  BY <1>2, ReflectionAssumption DEF Least
<1> HIDE DEF m
<1>4. \A k \in 1..m : At(k) \in R /\ Place(s, At(k)) = k
  BY <1>2, <1>3
<1> HIDE DEF At
<1>5. sel \in [1..m -> R] /\ \A k \in 1..m : sel[k] \in R /\ Place(s, sel[k]) = k
  BY <1>4
<1> HIDE DEF sel
<1>6. sel \in Seq(R) /\ Len(sel) = m /\ DOMAIN sel = 1..m
  <2>1. sel \in Seq(R)
    BY <1>3, <1>5, SeqDef
  <2>2. QED
    BY <1>3, <1>5, <2>1, LenProperties
<1>7. \A k, l \in 1..m : k < l => Ahead(s, sel[k], sel[l])
  BY <1>2, <1>5
<1>8. \A i \in R : \A j \in ToSet(sel) : Ahead(s, i, j) => i \in ToSet(sel)
  <2> TAKE i \in R
  <2> TAKE j \in ToSet(sel)
  <2> HAVE Ahead(s, i, j)
  <2>1. PICK l \in 1..m : j = sel[l]
    BY <1>6 DEF ToSet
  <2>2. Place(s, i) < l /\ Place(s, i) \in 1..n
    BY <1>2, <1>5, <2>1
  <2>3. Place(s, i) \in 1..m
    BY <1>2, <1>3, <2>1, <2>2
  <2>4. sel[Place(s, i)] = i
    BY <1>2, <1>5, <2>3
  <2>5. QED
    BY <1>6, <2>3, <2>4 DEF ToSet
<1>9. QED
  BY <1>1, <1>6, <1>7, <1>8 DEF R, m, n

-----------------------------------------------------------------------------
(* The memories shown *)

\* The memories are taken, or not, in the order of the plan.
LEMMA TakeFold ==
    ASSUME NEW g, g.retrieve, NEW s, NEW ids, ids # <<>>, NEW n \in Nat, DOMAIN ids = 1..n
    PROVE  \E acc : /\ acc[0] = [taken |-> <<>>, notes |-> {}]
                    /\ \A k \in 1..n : acc[k] = Take(s, acc[k - 1], ids[k])
                    /\ SelectMemories(g, s, ids) = acc[n]
<1> DEFINE none == [taken |-> <<>>, notes |-> {}]
           Step(f, t) == IF t = {} THEN none ELSE Take(s, f[t \ {Max(t)}], ids[Max(t)])
           Solves(f, m) == f = [t \in SUBSET (1..m) |-> Step(f, t)]
           unsolved == {m \in Nat : ~ \E f : Solves(f, m)}
<1> HIDE DEF Step, Solves
<1>1. unsolved = {}
  <2> SUFFICES ASSUME unsolved # {} PROVE FALSE
    OBVIOUS
  <2>1. PICK m \in unsolved : \A j \in unsolved : m <= j
    BY LeastOf
  <2>2. CASE m = 0
    <3>1. SUBSET (1..m) = {{}}
      BY <2>2
    <3> DEFINE f == [t \in SUBSET (1..m) |-> none]
    <3>2. Solves(f, m)
      BY <3>1 DEF Solves, Step
    <3>3. QED
      BY <3>2
  <2>3. CASE m # 0
    <3>1. m - 1 \in Nat /\ m - 1 \notin unsolved
      BY <2>1, <2>3
    <3>2. PICK f : Solves(f, m - 1)
      BY <3>1
    <3> DEFINE h == [t \in SUBSET (1..m) |-> Step(f, t)]
    <3>3. \A t \in SUBSET (1..(m - 1)) : h[t] = f[t]
      <4>1. SUBSET (1..(m - 1)) \subseteq SUBSET (1..m)
        BY <2>1, <2>3
      <4>2. \A t \in SUBSET (1..(m - 1)) : f[t] = Step(f, t)
        BY <3>2 DEF Solves
      <4>3. QED
        BY <4>1, <4>2
    <3>4. \A t \in SUBSET (1..m) : t # {} => t \ {Max(t)} \in SUBSET (1..(m - 1))
      <4> TAKE t \in SUBSET (1..m)
      <4> HAVE t # {}
      <4>1. Max(t) \in 1..m /\ t \ {Max(t)} \subseteq 1..(Max(t) - 1)
        BY <2>1, MaxOf
      <4>2. QED
        BY <2>1, <4>1
    <3>5. \A t \in SUBSET (1..m) : Step(h, t) = Step(f, t)
      BY <3>3, <3>4 DEF Step
    <3>6. Solves(h, m)
      BY <3>5 DEF Solves
    <3>7. QED
      BY <2>1, <3>6
  <2>4. QED
    BY <2>2, <2>3
<1>2. \E f : Solves(f, n)
  BY <1>1
<1> DEFINE it == CHOOSE f : f = [t \in SUBSET DOMAIN ids |->
                                    IF t = {} THEN [taken |-> <<>>, notes |-> {}]
                                    ELSE Take(s, f[t \ {Max(t)}], ids[Max(t)])]
<1>3. Solves(it, n)
  BY <1>2 DEF Solves, Step
<1>4. SelectMemories(g, s, ids) = it[1..n]
  BY DEF SelectMemories, FoldLeft, MapThenFoldSet
<1> HIDE DEF it
<1> DEFINE acc == [k \in 0..n |-> it[1..k]]
<1>5. acc[0] = none
  <2>1. 1..0 = {} /\ {} \in SUBSET (1..n)
    OBVIOUS
  <2>2. QED
    BY <1>3, <2>1 DEF Solves, Step
<1>6. ASSUME NEW k \in 1..n
      PROVE  acc[k] = Take(s, acc[k - 1], ids[k])
  <2>1. Max(1..k) = k /\ (1..k) \ {k} = 1..(k - 1) /\ 1..k # {}
    <3>1. k \in Nat \ {0}
      OBVIOUS
    <3>2. QED
      BY <3>1, PrefixMax
  <2>2. 1..k \in SUBSET (1..n)
    OBVIOUS
  <2>3. it[1..k] = Take(s, it[1..(k - 1)], ids[k])
    BY <1>3, <2>1, <2>2 DEF Solves, Step
  <2>4. acc[k] = it[1..k] /\ acc[k - 1] = it[1..(k - 1)]
    OBVIOUS
  <2>5. QED
    BY <2>3, <2>4
<1>7. acc[n] = it[1..n]
  OBVIOUS
<1>8. QED
  BY <1>4, <1>5, <1>6, <1>7

\* The sum of the characters of memories on a shelf is a number.
LEMMA CharsType ==
    ASSUME NEW s \in Seq(Memories), NEW ids \in Seq(DOMAIN s)
    PROVE  CharsOf(s, ids) \in Nat
<1> DEFINE n == Len(ids)
<1>1. n \in Nat /\ DOMAIN ids = 1..n
  BY LenProperties
<1>2. \A k \in 1..n : s[ids[k]].chars \in Nat
  <2> TAKE k \in 1..n
  <2>1. ids[k] \in DOMAIN s
    BY ElementOfSeq
  <2>2. s[ids[k]] \in Memories
    BY <2>1, LenProperties, ElementOfSeq
  <2>3. QED
    BY <2>2 DEF Memories
<1> HIDE DEF n
<1>3. PICK sum : AddsUp(sum, s, ids, n)
  BY <1>1, CharsFold
<1> DEFINE wrong == {k \in 0..n : sum[k] \notin Nat}
<1>4. wrong = {}
  <2> SUFFICES ASSUME wrong # {} PROVE FALSE
    OBVIOUS
  <2>1. wrong \subseteq Nat
    BY <1>1
  <2>2. PICK k \in wrong : \A j \in wrong : k <= j
    BY <2>1, LeastOf
  <2>3. k \in 1..n /\ k - 1 \in 0..n
    BY <1>1, <1>3, <2>2 DEF AddsUp
  <2>4. sum[k - 1] \in Nat
    BY <1>1, <2>2, <2>3
  <2>5. s[ids[k]].chars \in Nat /\ sum[k] = sum[k - 1] + s[ids[k]].chars
    BY <1>2, <1>3, <2>3 DEF AddsUp
  <2>6. QED
    BY <2>2, <2>4, <2>5
<1>5. n \in 0..n
  BY <1>1
<1>6. QED
  BY <1>3, <1>4, <1>5 DEF AddsUp

\* After memory i the taken memories are `after` and the notes `noted`, if they
\* were `taken` and `notes` before.
NoteOrTake(taken, notes, i, after, noted) ==
    /\ notes \subseteq noted
    /\ ToSet(taken) \subseteq ToSet(after)
    /\ ToSet(after) \subseteq ToSet(taken) \cup {i}
    /\ i \in ToSet(after) \/ \E note \in noted : note.item = i

\* One memory more: it is taken, or there is a note about it.
LEMMA TakeFacts ==
    ASSUME NEW s, NEW S, NEW taken \in Seq(S), NEW notes, NEW i \in S
    PROVE  \E after \in Seq(S) : \E noted :
              /\ Take(s, [taken |-> taken, notes |-> notes], i) = [taken |-> after, notes |-> noted]
              /\ NoteOrTake(taken, notes, i, after, noted)
<1> DEFINE reason == ReasonToSkip(s, taken, i)
           note == [item |-> i, reason |-> reason]
           noted == notes \cup {note}
           more == Append(taken, i)
<1> DEFINE acc == [taken |-> taken, notes |-> notes]
<1>0. acc.taken = taken /\ acc.notes = notes
  OBVIOUS
<1>1. Take(s, acc, i) = IF reason = "none" THEN [taken |-> more, notes |-> notes]
                        ELSE [taken |-> taken, notes |-> noted]
  <2>1. Take(s, acc, i) = IF reason = "none" THEN [acc EXCEPT !.taken = more]
                          ELSE [acc EXCEPT !.notes = noted]
    BY <1>0, Zenon DEF Take
  <2>2. [acc EXCEPT !.taken = more] = [taken |-> more, notes |-> notes]
    OBVIOUS
  <2> HIDE DEF noted
  <2>3. [acc EXCEPT !.notes = noted] = [taken |-> taken, notes |-> noted]
    OBVIOUS
  <2>4. QED
    BY <2>1, <2>2, <2>3, Zenon
<1>2. /\ more \in Seq(S)
      /\ DOMAIN more = 1..(Len(taken) + 1) /\ DOMAIN taken = 1..Len(taken) /\ Len(taken) \in Nat
      /\ \A k \in 1..Len(taken) : more[k] = taken[k]
      /\ more[Len(taken) + 1] = i
  BY AppendProperties, LenProperties
<1> HIDE DEF more
<1>3. ToSet(more) = ToSet(taken) \cup {i}
  BY <1>2 DEF ToSet
<1>4. note.item = i
  OBVIOUS
<1> HIDE DEF noted, note, reason, acc
<1>5. CASE reason = "none"
  <2>1. NoteOrTake(taken, notes, i, more, notes)
    BY <1>3 DEF NoteOrTake
  <2>2. more \in Seq(S) /\ Take(s, acc, i) = [taken |-> more, notes |-> notes]
    BY <1>1, <1>2, <1>5
  <2>3. QED
    BY <2>1, <2>2, Zenon DEF acc
<1>6. CASE reason # "none"
  <2>1. note \in noted /\ notes \subseteq noted
    BY DEF noted
  <2>2. NoteOrTake(taken, notes, i, taken, noted)
    BY <1>4, <2>1 DEF NoteOrTake
  <2>3. Take(s, acc, i) = [taken |-> taken, notes |-> noted]
    BY <1>1, <1>6
  <2>4. QED
    BY <2>2, <2>3, Zenon DEF acc
<1>7. QED
  BY <1>5, <1>6

\* Of the planned memories each is taken or noted.
LEMMA SelectionFacts ==
    ASSUME NEW g, NEW s, NEW S, NEW ids \in Seq(S), ~g.retrieve => ids = <<>>
    PROVE  /\ SelectMemories(g, s, ids).taken \in Seq(S)
           /\ ToSet(SelectMemories(g, s, ids).taken) \subseteq ToSet(ids)
           /\ \A i \in ToSet(ids) \ ToSet(SelectMemories(g, s, ids).taken) :
                 \E note \in SelectMemories(g, s, ids).notes : note.item = i
<1> DEFINE n == Len(ids)
<1>1. n \in Nat /\ DOMAIN ids = 1..n /\ \A k \in 1..n : ids[k] \in S
  BY LenProperties, ElementOfSeq
<1>2. CASE ids = <<>>
  <2>1. SelectMemories(g, s, ids).taken = <<>>
    BY <1>2 DEF SelectMemories
  <2>2. <<>> \in Seq(S) /\ ToSet(<<>>) = {}
    BY EmptySeq DEF ToSet
  <2>3. QED
    BY <1>2, <2>1, <2>2
<1>3. CASE ids # <<>>
  <2> HIDE DEF n
  <2>1. PICK acc : /\ acc[0] = [taken |-> <<>>, notes |-> {}]
                   /\ \A k \in 1..n : acc[k] = Take(s, acc[k - 1], ids[k])
                   /\ SelectMemories(g, s, ids) = acc[n]
    BY <1>1, <1>3, TakeFold
  <2> DEFINE Good(k) == \E taken, notes :
                /\ taken \in Seq(S)
                /\ acc[k] = [taken |-> taken, notes |-> notes]
                /\ \A i \in ToSet(taken) : \E j \in 1..k : i = ids[j]
                /\ \A j \in 1..k : ids[j] \in ToSet(taken) \/ \E note \in notes : note.item = ids[j]
             wrong == {k \in 0..n : ~Good(k)}
  <2>2. Good(0)
    <3>1. <<>> \in Seq(S) /\ ToSet(<<>>) = {} /\ 1..0 = {}
      BY EmptySeq DEF ToSet
    <3>2. QED
      BY <2>1, <3>1
  <2>3. ASSUME NEW k \in 1..n, Good(k - 1)
        PROVE  Good(k)
    <3>1. PICK taken, notes :
                /\ taken \in Seq(S)
                /\ acc[k - 1] = [taken |-> taken, notes |-> notes]
                /\ \A i \in ToSet(taken) : \E j \in 1..(k - 1) : i = ids[j]
                /\ \A j \in 1..(k - 1) : ids[j] \in ToSet(taken) \/ \E note \in notes : note.item = ids[j]
      BY <2>3
    <3>2. ids[k] \in S /\ acc[k] = Take(s, [taken |-> taken, notes |-> notes], ids[k])
      BY <1>1, <2>1, <3>1
    <3>3. PICK after, noted :
              /\ after \in Seq(S)
              /\ Take(s, [taken |-> taken, notes |-> notes], ids[k]) = [taken |-> after, notes |-> noted]
              /\ NoteOrTake(taken, notes, ids[k], after, noted)
      BY <3>1, <3>2, TakeFacts
    <3>4. \A j \in 1..k : j = k \/ j \in 1..(k - 1)
      BY <1>1
    <3>5. k \in 1..k /\ 1..(k - 1) \subseteq 1..k
      BY <1>1
    <3>6. \A i \in ToSet(after) : \E j \in 1..k : i = ids[j]
      BY <3>1, <3>3, <3>5 DEF NoteOrTake
    <3>7. \A j \in 1..k : ids[j] \in ToSet(after) \/ \E note \in noted : note.item = ids[j]
      BY <3>1, <3>3, <3>4 DEF NoteOrTake
    <3>8. QED
      BY <3>2, <3>3, <3>6, <3>7
  <2> HIDE DEF Good
  <2>4. wrong = {}
    <3> SUFFICES ASSUME wrong # {} PROVE FALSE
      OBVIOUS
    <3>1. wrong \subseteq Nat
      BY <1>1
    <3>2. PICK k \in wrong : \A j \in wrong : k <= j
      BY <3>1, LeastOf
    <3>3. k \in 1..n /\ k - 1 \in 0..n
      BY <1>1, <2>2, <3>2
    <3>4. Good(k - 1)
      BY <1>1, <3>2, <3>3
    <3>5. QED
      BY <2>3, <3>2, <3>3, <3>4
  <2>5. n \in 0..n
    BY <1>1
  <2>6. Good(n)
    BY <2>4, <2>5
  <2>7. PICK taken, notes :
                /\ taken \in Seq(S)
                /\ acc[n] = [taken |-> taken, notes |-> notes]
                /\ \A i \in ToSet(taken) : \E j \in 1..n : i = ids[j]
                /\ \A j \in 1..n : ids[j] \in ToSet(taken) \/ \E note \in notes : note.item = ids[j]
    BY <2>6 DEF Good
  <2>8. ToSet(ids) = {ids[j] : j \in 1..n}
    BY <1>1 DEF ToSet
  <2>9. QED
    BY <2>1, <2>7, <2>8
<1>4. QED
  BY <1>2, <1>3

-----------------------------------------------------------------------------
(* The Guardian *)

\* What a decision of the Guardian allows, given its category and its tone.
LEMMA GovernedFacts ==
    ASSUME NEW category, NEW tone, NEW override, NEW g,
           g = Governed(Policy(category), category, tone, override)
    PROVE  /\ g.depth \in Depths /\ g.questions \in 0..1
           /\ g.tone = tone
           /\ g.crisis <=> category \in Crises
           /\ category \in Crises => ~g.reflect /\ ~g.store /\ ~g.retrieve
           /\ category \notin Crises /\ tone = "grieving" => g.questions = 0
<1> DEFINE policy == Policy(category)
<1>1. policy.depth \in Depths
  BY DEF Policy, Depths, None, Light, Medium, Deep
<1>2. policy.questions \in 0..1
  BY DEF Policy
<1>3. policy.crisis = (category \in Crises)
  BY Zenon DEF Policy
<1>4. policy.reflect = (category \notin Crises)
  BY Zenon DEF Policy
<1>5. policy.retrieve = (category \notin Crises \cup {"image_analysis"})
  BY Zenon DEF Policy
<1>6. policy.store = (category \in {"safe", "low_concern", "emotional_support"})
  BY Zenon DEF Policy
<1>7. category \in Crises => ~policy.reflect /\ ~policy.store /\ ~policy.retrieve
  BY <1>4, <1>5, <1>6 DEF Crises
<1> DEFINE declines == ~policy.crisis /\ override
<1> HIDE DEF policy
<1>8. g = Governed(policy, category, tone, override)
  BY DEF policy
<1>9. g.depth \in Depths
  BY <1>1, <1>8 DEF Governed, Least, Depths, None, Light, Deep
<1>10. g.questions \in 0..1
  BY <1>2, <1>8 DEF Governed
<1>11. g.tone = tone
  BY <1>8 DEF Governed
<1> DEFINE governed == Governed(policy, category, tone, override)
<1>12. /\ governed.crisis = policy.crisis
       /\ governed.reflect = policy.reflect
       /\ governed.retrieve = policy.retrieve
  BY Zenon DEF Governed
<1>13. governed.store = (policy.store /\ ~declines)
  BY Zenon DEF Governed
<1>14. category \in Crises => ~g.reflect /\ ~g.store /\ ~g.retrieve
  BY <1>7, <1>8, <1>12, <1>13
<1>15. ~policy.crisis /\ tone = "grieving" => g.questions = 0
  BY <1>8 DEF Governed
<1>16. QED
  BY <1>3, <1>8, <1>9, <1>10, <1>11, <1>12, <1>14, <1>15

\* Of any page: what its decision allows, a disclosure is not discounted and
\* fiction is.
LEMMA EvaluateFacts ==
    ASSUME NEW p, NEW m, m = Analyze(p), NEW g, g = Evaluate(p, m)
    PROVE  /\ g.depth \in Depths /\ g.questions \in 0..1
           /\ g.crisis => ~g.reflect /\ ~g.store /\ ~g.retrieve
           /\ ~g.crisis /\ g.tone = "grieving" => g.questions = 0
           /\ "disclosure" \in p.says
                /\ p.signals \cap {"self_harm", "harm_others", "emergency"} # {} => g.crisis
           /\ m.realWorld = "false" => ~g.crisis
<1> DEFINE weighed == IF Discounted(p.signals, m) THEN p.signals \ CrisisSignals ELSE p.signals
           category == CategoryOf(weighed)
           tone == ToneOf(weighed, p.blank)
           override == p.signals \cap OverrideSignals # {}
<1>1. g = Governed(Policy(category), category, tone, override)
  BY DEF Evaluate
<1>2. /\ g.depth \in Depths /\ g.questions \in 0..1
      /\ g.tone = tone
      /\ g.crisis <=> category \in Crises
      /\ category \in Crises => ~g.reflect /\ ~g.store /\ ~g.retrieve
      /\ category \notin Crises /\ tone = "grieving" => g.questions = 0
  <2> HIDE DEF category, tone, override
  <2>1. QED
    BY <1>1, GovernedFacts
<1>3. "disclosure" \in p.says => m.realWorld # "false"
  BY DEF Analyze, RealWorldOf
<1>4. category \in Crises <=> weighed \cap {"self_harm", "harm_others", "emergency"} # {}
  BY CrisisBySignal
<1>5. "disclosure" \in p.says
        /\ p.signals \cap {"self_harm", "harm_others", "emergency"} # {} => category \in Crises
  BY <1>3, <1>4 DEF Discounted
<1>6. m.realWorld = "false" => category \notin Crises
  <2>1. CASE CategoryOf(p.signals) \in Crises
    BY <1>4, <2>1 DEF Discounted, CrisisSignals
  <2>2. CASE CategoryOf(p.signals) \notin Crises
    BY <2>2 DEF Discounted
  <2>3. QED
    BY <2>1, <2>2
<1> HIDE DEF category, tone, override, weighed
<1>7. QED
  BY <1>2, <1>5, <1>6

-----------------------------------------------------------------------------
(* The Planner and what follows it *)

\* A plan that asks and writes no more than the Guardian allows.
PlanFits(pl, g) ==
    /\ pl.depth \in Depths /\ pl.questions \in Nat
    /\ pl.depth <= g.depth
    /\ pl.questions <= g.questions
    /\ ~g.reflect => pl = NoReflection

LEMMA PlansFit ==
    ASSUME NEW p, NEW g, g.depth \in Depths, g.questions \in 0..1, NEW kinds, NEW found
    PROVE  PlanFits(PlanFor(p, g, kinds, found), g)
<1> DEFINE unsure == g.confidence < 40
           type == IF unsure THEN "simple_acknowledgement" ELSE DecideType(p, g, kinds)
           depth == Least(IF type \in Lengthy THEN Medium ELSE Light, g.depth)
           questions == IF unsure \/ type \in Silent THEN 0 ELSE Least(1, g.questions)
<1>1. CASE ~g.reflect
  <2>1. PlanFor(p, g, kinds, found) = NoReflection
    BY <1>1 DEF PlanFor
  <2>2. NoReflection.depth = 0 /\ NoReflection.questions = 0
    BY DEF NoReflection, None
  <2>3. QED
    BY <2>1, <2>2 DEF PlanFits, Depths, None, Deep
<1>2. CASE g.reflect
  <2>1. depth \in Depths /\ depth <= g.depth
    BY DEF Least, Depths, None, Light, Medium, Deep
  <2>2. questions \in Nat /\ questions <= g.questions
    BY DEF Least
  <2>3. PlanFor(p, g, kinds, found).depth = depth
    BY <1>2 DEF PlanFor
  <2>4. PlanFor(p, g, kinds, found).questions = questions
    BY <1>2 DEF PlanFor
  <2> HIDE DEF depth, questions
  <2>5. QED
    BY <1>2, <2>1, <2>2, <2>3, <2>4 DEF PlanFits
<1>3. QED
  BY <1>1, <1>2

\* A shallower reflection gets no more tokens, nor more characters.
LEMMA DepthsGrow ==
    \A d, e \in Depths : d <= e =>
        /\ MaxTokens[d] <= MaxTokens[e]
        /\ MaxChars[d] \in Nat /\ MaxChars[e] \in Nat /\ MaxChars[d] <= MaxChars[e]
<1>1. \A d \in Depths : /\ MaxTokens[d] = <<120, 250, 450, 650>>[d + 1]
                        /\ MaxChars[d] = <<400, 800, 1600, 3000>>[d + 1]
  BY DEF MaxTokens, MaxChars
<1>2. /\ MaxTokens[0] = 120 /\ MaxTokens[1] = 250 /\ MaxTokens[2] = 450 /\ MaxTokens[3] = 650
      /\ MaxChars[0] = 400 /\ MaxChars[1] = 800 /\ MaxChars[2] = 1600 /\ MaxChars[3] = 3000
  BY <1>1 DEF Depths, None, Deep
<1>3. \A d \in Depths : d = 0 \/ d = 1 \/ d = 2 \/ d = 3
  BY DEF Depths, None, Deep
<1>4. QED
  BY <1>2, <1>3

\* Where the Guardian lets nothing be retrieved the context shows no memory.
LEMMA NothingShown ==
    ASSUME NEW p, NEW g, ~g.retrieve, NEW s, NEW planned
    PROVE  Assemble(p, g, s, planned).shown = <<>>
<1>1. SelectMemories(g, s, planned).taken = <<>>
  BY DEF SelectMemories
<1>2. QED
  BY <1>1 DEF Assemble

\* The template passes the review of a crisis.
LEMMA TemplateApproved ==
    ASSUME NEW g, g.crisis, NEW m, NEW pl, NEW found
    PROVE  Verdict(Template, g, m, pl, found) = "approved"
<1>1. ~Blocking(Template, g, found)
  BY DEF Blocking, Template, Fatal
<1>2. ~Fixable(Template, g, m, pl)
  BY DEF Fixable, Template, Mended, MinChars
<1>3. QED
  BY <1>1, <1>2 DEF Verdict

\* The context is over its budget by less than the marker of a cut, for every
\* length and width of a page, and every size of its memories (context/builder.py).
THEOREM FitNearlyHolds ==
    ASSUME NEW p \in Pages, NEW memoryChars \in Nat, BaseChars < Budget.chars
    PROVE  Fit(p, memoryChars).total < Budget.chars + Marker
<1> DEFINE whole == BaseChars + p.width * p.chars
           drops == whole + memoryChars > Budget.chars /\ memoryChars > 0
           left  == IF drops THEN whole ELSE whole + memoryChars
           cuts  == left > Budget.chars
           kept  == IF cuts THEN KeptChars(p.chars, left) ELSE p.chars
<1>1. /\ p.chars \in Nat /\ p.width \in Nat /\ p.width >= 1
      /\ BaseChars \in Nat /\ Budget.chars \in Nat
  BY ReflectionAssumption
<1>2. p.width * p.chars \in Nat
  BY <1>1
<1>3. Fit(p, memoryChars).total = IF cuts THEN BaseChars + p.width * kept + Marker ELSE left
  BY DEF Fit
<1>4. CASE ~cuts
  <2>1. left \in Nat /\ left <= Budget.chars
    BY <1>1, <1>2, <1>4
  <2> HIDE DEF left, cuts
  <2>2. QED
    BY <1>1, <1>3, <1>4, <2>1 DEF Marker
<1>5. CASE cuts
  <2> DEFINE over == whole - Budget.chars
  <2>1. left = whole /\ over \in Nat /\ over > 0
    BY <1>1, <1>2, <1>5
  <2>2. kept = Most(0, p.chars - over - 1)
    BY <1>5, <2>1 DEF KeptChars
  <2>3. CASE kept = 0
    <3>1. p.width * kept = 0
      BY <1>1, <2>3
    <3> HIDE DEF kept, cuts
    <3>2. QED
      BY <1>1, <1>3, <1>5, <3>1 DEF Marker
  <2>4. CASE kept # 0
    <3>1. kept = p.chars - (over + 1)
      BY <1>1, <2>1, <2>2, <2>4 DEF Most
    <3> DEFINE less == over + 1
    <3>2. less \in Nat
      BY <2>1
    <3> HIDE DEF kept, cuts, less, over, whole
    <3>3. kept = p.chars - less
      BY <3>1 DEF less
    <3>4. p.width * kept = p.width * p.chars - p.width * less
      BY <1>1, <3>2, <3>3
    <3>5. p.width * less >= less
      BY <1>1, <3>2
    <3>6. p.width * less \in Nat
      BY <1>1, <3>2
    <3>7. p.width * kept <= p.width * p.chars - less
      BY <1>2, <3>2, <3>4, <3>5, <3>6
    <3>8. BaseChars + p.width * p.chars - less = Budget.chars - 1
      BY <1>1, <1>2 DEF less, over, whole
    <3>9. p.width * kept \in Int
      BY <1>2, <3>4, <3>6
    <3>10. QED
      BY <1>1, <1>2, <1>3, <1>5, <3>2, <3>7, <3>8, <3>9 DEF Marker
  <2>5. QED
    BY <2>3, <2>4
<1>6. QED
  BY <1>4, <1>5

\* What the Quality Checker has made sure of in a text that it approved.
LEMMA ApprovedFacts ==
    ASSUME NEW text, text.questions \in Nat, text.chars \in Nat,
           NEW g, ~g.crisis, NEW m, NEW pl, pl.questions \in Nat, pl.depth \in Depths, NEW found,
           Verdict(text, g, m, pl, found) = "approved"
    PROVE  /\ text.questions <= pl.questions
           /\ text.chars <= MaxChars[pl.depth]
           /\ "remembers" \in text.says => found # <<>>
           /\ m.realWorld = "false" => "escalation" \notin text.says
<1>1. ~Blocking(text, g, found) /\ ~Fixable(text, g, m, pl)
  BY DEF Verdict
<1>2. "remembers" \in text.says => found # <<>>
  BY <1>1 DEF Blocking
<1>3. m.realWorld = "false" => "escalation" \notin text.says
  BY <1>1 DEF Fixable
<1>4. ~(text.questions > IF pl.type = "listening" THEN 0 ELSE pl.questions)
  BY <1>1 DEF Fixable
<1>5. ~(text.chars > MaxChars[pl.depth])
  BY <1>1 DEF Fixable
<1>6. MaxChars[pl.depth] \in Nat
  <2>1. pl.depth <= pl.depth
    BY DEF Depths, None, Deep
  <2>2. QED
    BY <2>1, DepthsGrow
<1>7. QED
  BY <1>2, <1>3, <1>4, <1>5, <1>6

-----------------------------------------------------------------------------
(* The inductive invariant *)

Undecided  == {"input_receiver", "meaning_intent", "guardian"}
Unplanned  == Undecided \cup {"memory_retriever", "reflection_planner"}
Writing    == {"context_builder", "prompt_builder", "specialist_router", "mini_engine"}
Reviewing  == {"quality_checker", "done"}

\* The decision and the analysis are those of the page.
Decisions ==
    /\ pc \in Undecided => guardian = Nil /\ retrieved = <<>>
    /\ pc = "guardian" => meaning = Analyze(page)
    /\ Read \/ pc \in (Unplanned \ Undecided) \cup Writing \cup Reviewing =>
          meaning = Analyze(page) /\ guardian = Evaluate(page, meaning)
    /\ Read /\ ~guardian.retrieve => retrieved = <<>>

\* What is not there yet, and that the plan fits.
Stages ==
    /\ pc \in Unplanned => plan = Nil /\ context = Nil /\ prompt = Nil /\ routing = Nil
    /\ Planned \/ pc \in Writing \cup Reviewing => PlanFits(plan, guardian)
    /\ verdict # "none" => pc = "done"
    /\ pc = "done" => verdict = Verdict(draft, guardian, meaning, plan, retrieved)
    /\ pc \in Reviewing => draft.questions \in Nat /\ draft.chars \in Nat

\* What the prompt will show is within the Guardian's limits.
Prompted ==
    /\ pc = "prompt_builder" /\ ~guardian.retrieve => context.shown = <<>>
    /\ prompt # Nil => /\ prompt.questions <= guardian.questions
                       /\ prompt.maxTokens <= MaxTokens[guardian.depth]
                       /\ ~guardian.retrieve => prompt.memories = <<>>

\* A crisis goes from the plan straight to the review of the template.
CrisisPath ==
    Read /\ guardian.crisis =>
        /\ context = Nil /\ routing = Nil
        /\ pc \notin Writing
        /\ Planned \/ pc \in Reviewing => plan = NoReflection /\ draft = Template

DInv == Decisions /\ Stages /\ Prompted /\ CrisisPath

LEMMA InitDecisions == Init => DInv
BY DEF Init, DInv, Decisions, Stages, Prompted, CrisisPath, Read, Planned, Undecided, Unplanned,
       Writing, Reviewing

LEMMA DecisionsStep ==
    ASSUME DInv, [Next]_vars
    PROVE  DInv'
<1> USE DEF Read, Planned, Undecided, Unplanned, Writing, Reviewing
<1>1. CASE ReceiveInput
  BY <1>1 DEF ReceiveInput, DInv, Decisions, Stages, Prompted, CrisisPath
<1>2. CASE AnalyzeMeaning
  BY <1>2 DEF AnalyzeMeaning, DInv, Decisions, Stages, Prompted, CrisisPath
<1>3. CASE EvaluateGuardian
  BY <1>3 DEF EvaluateGuardian, DInv, Decisions, Stages, Prompted, CrisisPath
<1>4. CASE Retrieve
  BY <1>4 DEF Retrieve, DInv, Decisions, Stages, Prompted, CrisisPath
<1>5. CASE RetrieveNothing
  BY <1>5 DEF RetrieveNothing, DInv, Decisions, Stages, Prompted, CrisisPath
<1>6. CASE PlanReflection
  <2> DEFINE kinds == {shelf[i].kind : i \in ToSet(retrieved)}
  <2>1. /\ plan' = PlanFor(page, guardian, kinds, retrieved)
        /\ guardian = Evaluate(page, meaning) /\ meaning = Analyze(page)
        /\ UNCHANGED <<page, refusal, meaning, guardian, shelf, retrieved, context, prompt,
                       routing, verdict>>
    BY <1>6 DEF PlanReflection, DInv, Decisions
  <2>2. pc' = (IF guardian.crisis THEN "quality_checker" ELSE "context_builder")
    BY <1>6 DEF PlanReflection
  <2>3. draft' = (IF guardian.crisis THEN Template ELSE draft)
    BY <1>6 DEF PlanReflection
  <2>4. /\ guardian.depth \in Depths /\ guardian.questions \in 0..1
        /\ guardian.crisis => ~guardian.reflect
    BY <2>1, EvaluateFacts
  <2> HIDE DEF kinds
  <2>5. PlanFits(plan', guardian)
    BY <2>1, <2>4, PlansFit
  <2>6. guardian.crisis => plan' = NoReflection
    BY <2>4, <2>5 DEF PlanFits
  <2>7. Template.questions = 0 /\ Template.chars = 300
    BY DEF Template
  <2>8. pc = "reflection_planner"
    BY <1>6 DEF PlanReflection
  <2>9. Decisions'
    BY <2>1, <2>2, <2>8 DEF DInv, Decisions
  <2>10. PlanFits(plan, guardian)'
    BY <2>1, <2>5 DEF PlanFits
  <2>11. Stages'
    BY <2>1, <2>2, <2>3, <2>7, <2>8, <2>10 DEF DInv, Stages
  <2>12. Prompted'
    BY <2>1, <2>2, <2>8 DEF DInv, Stages, Prompted
  <2>13. CrisisPath'
    BY <2>1, <2>2, <2>3, <2>6, <2>8 DEF DInv, Stages, CrisisPath
  <2>14. QED
    BY <2>9, <2>11, <2>12, <2>13 DEF DInv
<1>7. CASE BuildContext
  <2>1. ~guardian.retrieve => context'.shown = <<>>
    BY <1>7, NothingShown DEF BuildContext
  <2>2. PlanFits(plan, guardian)' = PlanFits(plan, guardian)
    BY <1>7 DEF BuildContext, PlanFits
  <2>3. QED
    BY <1>7, <2>1, <2>2 DEF BuildContext, DInv, Decisions, Stages, Prompted, CrisisPath
<1>8. CASE BuildPrompt
  <2>1. /\ prompt'.questions = plan.questions
        /\ prompt'.maxTokens = MaxTokens[plan.depth]
        /\ prompt'.memories = context.shown
    BY <1>8 DEF BuildPrompt
  <2>2. PlanFits(plan, guardian) /\ guardian.depth \in Depths
    BY <1>8, EvaluateFacts DEF BuildPrompt, DInv, Decisions, Stages
  <2>3. MaxTokens[plan.depth] <= MaxTokens[guardian.depth] /\ plan.questions <= guardian.questions
    BY <2>2, DepthsGrow DEF PlanFits
  <2>4. ~guardian.retrieve => context.shown = <<>>
    BY <1>8 DEF BuildPrompt, DInv, Prompted
  <2>5. UNCHANGED <<page, meaning, guardian, retrieved, plan, context, routing, draft, verdict>>
        /\ pc = "prompt_builder" /\ pc' = "specialist_router"
    BY <1>8 DEF BuildPrompt
  <2>6. Prompted'
    BY <2>1, <2>3, <2>4, <2>5 DEF Prompted
  <2>7. Decisions' /\ Stages' /\ CrisisPath'
    BY <2>5 DEF DInv, Decisions, Stages, CrisisPath, PlanFits
  <2>8. QED
    BY <2>6, <2>7 DEF DInv
<1>9. CASE RouteRequest
  <2>1. UNCHANGED <<page, meaning, guardian, retrieved, plan, context, prompt, draft, verdict>>
        /\ pc = "specialist_router" /\ pc' = "mini_engine"
    BY <1>9 DEF RouteRequest
  <2>2. QED
    BY <2>1 DEF DInv, Decisions, Stages, Prompted, CrisisPath, PlanFits
<1>10. CASE RouteFails
  <2>1. UNCHANGED <<page, meaning, guardian, retrieved, plan, context, prompt, routing, draft,
                    verdict>>
        /\ pc = "specialist_router" /\ pc' = "failed"
    BY <1>10 DEF RouteFails
  <2>2. QED
    BY <2>1 DEF DInv, Decisions, Stages, Prompted, CrisisPath, PlanFits
<1>11. CASE Generate
  <2>1. UNCHANGED <<page, meaning, guardian, retrieved, plan, context, prompt, routing, verdict>>
        /\ pc = "mini_engine" /\ pc' = "quality_checker" /\ draft' \in Drafts
    BY <1>11 DEF Generate
  <2>2. draft'.questions \in Nat /\ draft'.chars \in Nat
    BY <2>1, ReflectionAssumption
  <2>3. Decisions' /\ Prompted' /\ CrisisPath'
    BY <2>1 DEF DInv, Decisions, Prompted, CrisisPath
  <2>4. Stages'
    BY <2>1, <2>2 DEF DInv, Stages, PlanFits
  <2>5. QED
    BY <2>3, <2>4 DEF DInv
<1>12. CASE Review
  <2>1. /\ UNCHANGED <<page, meaning, guardian, retrieved, plan, context, prompt, routing, draft>>
        /\ pc = "quality_checker" /\ pc' = "done"
        /\ verdict' = Verdict(draft, guardian, meaning, plan, retrieved)
    BY <1>12 DEF Review
  <2>2. Decisions' /\ Prompted' /\ CrisisPath'
    BY <2>1 DEF DInv, Decisions, Prompted, CrisisPath
  <2>3. Verdict(draft, guardian, meaning, plan, retrieved)'
           = Verdict(draft, guardian, meaning, plan, retrieved)
    BY <2>1
  <2>4. Stages'
    BY <2>1, <2>3 DEF DInv, Stages, PlanFits
  <2>5. QED
    BY <2>2, <2>4 DEF DInv
<1>13. CASE UNCHANGED vars
  BY <1>13 DEF vars, DInv, Decisions, Stages, Prompted, CrisisPath, PlanFits
<1>14. QED
  BY <1>1, <1>2, <1>3, <1>4, <1>5, <1>6, <1>7, <1>8, <1>9, <1>10, <1>11, <1>12, <1>13 DEF Next

LEMMA SpecDecisions == Spec => []DInv
<1>1. DInv /\ [Next]_vars => DInv'
  BY DecisionsStep
<1>2. QED
  BY InitDecisions, <1>1, PTL DEF Spec

-----------------------------------------------------------------------------
(* What follows from it *)

\* No plan, prompt or memory goes beyond what the Guardian allowed (planner.py,
\* context/builder.py, prompt/builder.py).
THEOREM GuardianIsCeiling == Spec => []GuardianIsTheCeiling
<1>1. DInv => GuardianIsTheCeiling
  BY DEF DInv, Decisions, Stages, Prompted, PlanFits, GuardianIsTheCeiling
<1>2. QED
  BY <1>1, SpecDecisions, PTL

\* Nor does an approved text (quality/checker.py).
THEOREM ApprovedWithin == Spec => []ApprovedStaysWithin
<1>1. ASSUME DInv, Approved, ~guardian.crisis
      PROVE  /\ draft.questions <= guardian.questions
             /\ guardian.tone = "grieving" => draft.questions = 0
             /\ draft.chars <= MaxChars[guardian.depth]
             /\ "remembers" \in draft.says => retrieved # <<>>
  <2>1. pc = "done"
    BY <1>1 DEF DInv, Stages, Approved
  <2>2. /\ Verdict(draft, guardian, meaning, plan, retrieved) = "approved"
        /\ draft.questions \in Nat /\ draft.chars \in Nat
        /\ PlanFits(plan, guardian)
    BY <1>1, <2>1 DEF DInv, Stages, Approved, Reviewing
  <2>3. /\ draft.questions <= plan.questions
        /\ draft.chars <= MaxChars[plan.depth]
        /\ "remembers" \in draft.says => retrieved # <<>>
    BY <1>1, <2>2, ApprovedFacts DEF PlanFits
  <2>4. /\ guardian.depth \in Depths /\ guardian.questions \in 0..1
        /\ guardian.tone = "grieving" => guardian.questions = 0
    BY <1>1, <2>1, EvaluateFacts DEF DInv, Decisions, Reviewing
  <2>5. /\ MaxChars[plan.depth] \in Nat /\ MaxChars[guardian.depth] \in Nat
        /\ MaxChars[plan.depth] <= MaxChars[guardian.depth]
    BY <2>2, <2>4, DepthsGrow DEF PlanFits
  <2>6. QED
    BY <2>2, <2>3, <2>4, <2>5 DEF PlanFits
<1>2. DInv => ApprovedStaysWithin
  BY <1>1 DEF ApprovedStaysWithin
<1>3. QED
  BY <1>2, SpecDecisions, PTL

\* A first-person disclosure with a crisis signal is a crisis, and a crisis takes
\* over down to the text (meaning/engine.py, guardian/engine.py, pipeline.py).
THEOREM DisclosureProtected == Spec => []DisclosureIsProtected
<1>1. ASSUME DInv, Read
      PROVE  /\ "disclosure" \in page.says
                  /\ page.signals \cap {"self_harm", "harm_others", "emergency"} # {}
                     => guardian.crisis
             /\ guardian.crisis =>
                  /\ ~guardian.store /\ retrieved = <<>> /\ context = Nil /\ routing = Nil
                  /\ Planned => plan = NoReflection /\ draft = Template
                  /\ pc = "done" => Approved
  <2>1. /\ guardian.crisis => ~guardian.store /\ ~guardian.retrieve
        /\ "disclosure" \in page.says
             /\ page.signals \cap {"self_harm", "harm_others", "emergency"} # {}
                => guardian.crisis
    BY <1>1, EvaluateFacts DEF DInv, Decisions
  <2>2. guardian.crisis => /\ context = Nil /\ routing = Nil
                           /\ Planned \/ pc \in Reviewing => plan = NoReflection /\ draft = Template
    BY <1>1 DEF DInv, CrisisPath
  <2>3. guardian.crisis /\ pc = "done" => Approved
    BY <1>1, <2>2, TemplateApproved DEF DInv, Stages, Reviewing, Approved
  <2>4. guardian.crisis => retrieved = <<>>
    BY <1>1, <2>1 DEF DInv, Decisions
  <2>5. QED
    BY <2>1, <2>2, <2>3, <2>4
<1>2. DInv => DisclosureIsProtected
  BY <1>1 DEF DisclosureIsProtected
<1>3. QED
  BY <1>2, SpecDecisions, PTL

\* Fiction, quotes and jokes are not escalated, neither by the Guardian nor in the
\* text (guardian/engine.py, quality/checker.py).
THEOREM FictionNotEscalated == Spec => []FictionIsNotEscalated
<1>1. ASSUME DInv, Read, meaning.realWorld = "false"
      PROVE  ~guardian.crisis /\ (Approved => "escalation" \notin draft.says)
  <2>1. ~guardian.crisis
    BY <1>1, EvaluateFacts DEF DInv, Decisions
  <2>2. ASSUME Approved
        PROVE  "escalation" \notin draft.says
    <3>1. pc = "done"
      BY <1>1, <2>2 DEF DInv, Stages, Approved
    <3>2. /\ Verdict(draft, guardian, meaning, plan, retrieved) = "approved"
          /\ draft.questions \in Nat /\ draft.chars \in Nat
          /\ PlanFits(plan, guardian)
      BY <1>1, <2>2, <3>1 DEF DInv, Stages, Approved, Reviewing
    <3>3. QED
      BY <1>1, <2>1, <3>2, ApprovedFacts DEF PlanFits
  <2>3. QED
    BY <2>1, <2>2
<1>2. DInv => FictionIsNotEscalated
  BY <1>1 DEF FictionIsNotEscalated
<1>3. QED
  BY <1>2, SpecDecisions, PTL

-----------------------------------------------------------------------------
(* What becomes of a memory *)

\* The memories of a plan are found ones; none, where the Guardian lets nothing
\* be retrieved.
MemoriesFit ==
    /\ plan.memories \in Seq(DOMAIN shelf)
    /\ ~guardian.retrieve => plan.memories = <<>>

\* The memories found are the best of the shelf, and the context is made of those
\* that were planned.
MInv ==
    /\ page \in Pages
    /\ shelf \in Seq(Memories)
    /\ retrieved = Select(shelf)
    /\ Planned \/ pc \in Writing \/ context # Nil => MemoriesFit
    /\ context # Nil => context = Assemble(page, guardian, shelf, plan.memories)

LEMMA InitMemories == Init => MInv
<1> SUFFICES ASSUME Init PROVE MInv
  OBVIOUS
<1>1. /\ page \in Pages /\ shelf = <<>> /\ retrieved = <<>> /\ plan = Nil /\ context = Nil
      /\ pc = "input_receiver"
  BY DEF Init
<1>2. <<>> \in Seq(Memories)
  BY EmptySeq
<1>3. Select(<<>>) = <<>>
  <2>1. Select(<<>>) \in Seq(Relevant(<<>>))
    BY <1>2, SelectIsRanked
  <2>2. Len(Select(<<>>)) = Least(MaxRetrieved, Cardinality(Relevant(<<>>)))
    BY <1>2, SelectIsRanked
  <2>3. Relevant(<<>>) = {}
    BY DEF Relevant
  <2>4. Cardinality(Relevant(<<>>)) = 0
    BY <2>3, FS_EmptySet
  <2>5. Len(Select(<<>>)) = 0
    BY <2>2, <2>4, ReflectionAssumption DEF Least
  <2>6. QED
    BY <2>1, <2>5, EmptySeq
<1>4. QED
  BY <1>1, <1>2, <1>3 DEF MInv, Planned, Writing

\* The Planner plans with what was found.
LEMMA PlannedMemories ==
    ASSUME NEW p, NEW g, NEW kinds, NEW S, NEW found \in Seq(S)
    PROVE  /\ PlanFor(p, g, kinds, found).memories \in Seq(S)
           /\ found = <<>> => PlanFor(p, g, kinds, found).memories = <<>>
<1> DEFINE planned == PlanFor(p, g, kinds, found).memories
           first == SubSeq(found, 1, Least(MaxReferenced, Len(found)))
<1>1. planned = <<>> \/ planned = first
  <2>1. CASE ~g.reflect
    BY <2>1 DEF PlanFor, NoReflection
  <2>2. CASE g.reflect
    BY <2>2, Zenon DEF PlanFor
  <2>3. QED
    BY <2>1, <2>2
<1>2. <<>> \in Seq(S)
  BY EmptySeq
<1>3. Len(found) \in Nat /\ DOMAIN found = 1..Len(found)
  BY LenProperties
<1>4. Least(MaxReferenced, Len(found)) \in 0..Len(found)
  BY <1>3, ReflectionAssumption DEF Least
<1>5. first \in Seq(S)
  <2>1. \A k \in 1..Least(MaxReferenced, Len(found)) : found[k] \in S
    BY <1>3, <1>4, ElementOfSeq
  <2>2. QED
    BY <1>3, <1>4, <2>1, SubSeqProperties
<1>6. found = <<>> => first = <<>>
  <2> SUFFICES ASSUME found = <<>> PROVE first = <<>>
    OBVIOUS
  <2>1. Len(found) = 0
    OBVIOUS
  <2>2. Least(MaxReferenced, Len(found)) = 0
    BY <1>4, <2>1
  <2>3. Len(first) = 0
    BY <1>3, <2>2, SubSeqProperties
  <2>4. QED
    BY <1>5, <2>3, EmptySeq
<1> HIDE DEF planned, first
<1>7. planned \in Seq(S) /\ (found = <<>> => planned = <<>>)
  BY <1>1, <1>2, <1>5, <1>6
<1>8. QED
  BY <1>7 DEF planned

\* A decision is not the absence of one.
LEMMA Decided ==
    ASSUME NEW p, NEW m
    PROVE  Evaluate(p, m) # Nil
<1>1. \A policy, category, tone, override :
         DOMAIN Governed(policy, category, tone, override) # DOMAIN Nil
  BY DEF Governed, Nil
<1>2. QED
  BY <1>1 DEF Evaluate

LEMMA MemoriesStep ==
    ASSUME DInv, MInv, [Next]_vars
    PROVE  MInv'
<1> USE DEF Planned, Writing
<1>1. ASSUME UNCHANGED <<page, guardian, shelf, retrieved, plan, context>>,
             pc' \in Writing => pc \in Writing
      PROVE  MInv'
  BY <1>1 DEF MInv, MemoriesFit
<1>2. CASE ReceiveInput
  BY <1>1, <1>2 DEF ReceiveInput
<1>3. CASE AnalyzeMeaning
  BY <1>1, <1>3 DEF AnalyzeMeaning
<1>4. ASSUME pc \in Unplanned, pc' \notin Writing, UNCHANGED <<page, plan, context>>,
             shelf' \in Seq(Memories), retrieved' = Select(shelf')
      PROVE  MInv'
  BY <1>4 DEF DInv, Stages, MInv
<1>5. CASE EvaluateGuardian
  BY <1>4, <1>5 DEF EvaluateGuardian, MInv, Unplanned, Undecided
<1>6. CASE Retrieve
  <2>1. shelf' \in Seq(Memories)
    BY <1>6, ReflectionAssumption DEF Retrieve
  <2>2. QED
    BY <1>4, <1>6, <2>1 DEF Retrieve, Unplanned
<1>7. CASE RetrieveNothing
  BY <1>4, <1>7 DEF RetrieveNothing, MInv, Unplanned
<1>8. CASE PlanReflection
  <2> DEFINE kinds == {shelf[i].kind : i \in ToSet(retrieved)}
  <2>1. /\ plan' = PlanFor(page, guardian, kinds, retrieved)
        /\ UNCHANGED <<page, guardian, shelf, retrieved, context>>
    BY <1>8 DEF PlanReflection
  <2> HIDE DEF kinds
  <2>2. retrieved \in Seq(DOMAIN shelf)
    <3>1. retrieved \in Seq(Relevant(shelf))
      BY SelectIsRanked DEF MInv
    <3>2. Relevant(shelf) \subseteq DOMAIN shelf
      BY DEF Relevant
    <3>3. QED
      BY <3>1, <3>2
  <2>3. ~guardian.retrieve => retrieved = <<>>
    <3>1. guardian = Evaluate(page, meaning)
      BY <1>8 DEF PlanReflection, DInv, Decisions, Unplanned, Undecided
    <3>2. guardian # Nil
      BY <3>1, Decided
    <3>3. QED
      BY <3>2 DEF DInv, Decisions, Read
  <2>4. MemoriesFit'
    BY <2>1, <2>2, <2>3, PlannedMemories DEF MemoriesFit
  <2>5. context = Nil
    BY <1>8 DEF PlanReflection, DInv, Stages, Unplanned
  <2>6. QED
    BY <2>1, <2>4, <2>5 DEF MInv
<1>9. CASE BuildContext
  <2>1. /\ context' = Assemble(page, guardian, shelf, plan.memories)
        /\ pc \in Writing
        /\ UNCHANGED <<page, guardian, shelf, retrieved, plan>>
    BY <1>9 DEF BuildContext
  <2>2. QED
    BY <2>1 DEF MInv, MemoriesFit
<1>10. CASE BuildPrompt
  BY <1>1, <1>10 DEF BuildPrompt
<1>11. CASE RouteRequest
  BY <1>1, <1>11 DEF RouteRequest
<1>12. CASE RouteFails
  BY <1>1, <1>12 DEF RouteFails
<1>13. CASE Generate
  BY <1>1, <1>13 DEF Generate
<1>14. CASE Review
  BY <1>1, <1>14 DEF Review
<1>15. CASE UNCHANGED vars
  BY <1>1, <1>15 DEF vars
<1>16. QED
  BY <1>2, <1>3, <1>5, <1>6, <1>7, <1>8, <1>9, <1>10, <1>11, <1>12, <1>13, <1>14, <1>15 DEF Next

LEMMA SpecMemories == Spec => []MInv
<1>1. MInv /\ DInv /\ [Next]_vars => MInv'
  BY MemoriesStep
<1>2. QED
  BY InitMemories, <1>1, SpecDecisions, PTL DEF Spec

\* Of the memories planned for a context each is shown or noted, and a cut is noted.
AllNoted(c, p, planned) ==
    /\ ToSet(c.shown) \subseteq ToSet(planned)
    /\ \A i \in ToSet(planned) \ ToSet(c.shown) :
          \E note \in c.notes : note.item = i \/ note = Whole("budget_char_limit")
    /\ c.kept # p.chars => Whole("budget_char_limit_truncated") \in c.notes

\* That is so of any context; and its length is that of some memories with the page.
LEMMA AssembleFacts ==
    ASSUME NEW p, NEW g, NEW s \in Seq(Memories), NEW ids \in Seq(DOMAIN s),
           ~g.retrieve => ids = <<>>
    PROVE  /\ AllNoted(Assemble(p, g, s, ids), p, ids)
           /\ \E n \in Nat : Assemble(p, g, s, ids).total = Fit(p, n).total
<1> DEFINE selected == SelectMemories(g, s, ids)
           fit == Fit(p, CharsOf(s, selected.taken))
           c == Assemble(p, g, s, ids)
<1>1. /\ selected.taken \in Seq(DOMAIN s)
      /\ ToSet(selected.taken) \subseteq ToSet(ids)
      /\ \A i \in ToSet(ids) \ ToSet(selected.taken) : \E note \in selected.notes : note.item = i
  BY SelectionFacts
<1>2. fit.kept # p.chars => fit.cuts
  BY DEF Fit
<1>3. CharsOf(s, selected.taken) \in Nat
  BY <1>1, CharsType
<1>4. ToSet(<<>>) = {}
  BY DEF ToSet
<1> HIDE DEF selected
<1>5. \E n \in Nat : fit.total = Fit(p, n).total
  BY <1>3
<1> HIDE DEF fit
<1>6. c = [shown  |-> IF fit.drops THEN <<>> ELSE selected.taken,
           notes  |-> selected.notes
                        \cup (IF fit.drops THEN {Whole("budget_char_limit")} ELSE {})
                        \cup (IF fit.cuts THEN {Whole("budget_char_limit_truncated")} ELSE {}),
           kept   |-> fit.kept,
           total  |-> fit.total]
  BY DEF Assemble, selected, fit
<1>7. /\ c.shown = IF fit.drops THEN <<>> ELSE selected.taken
      /\ selected.notes \subseteq c.notes
      /\ fit.drops => Whole("budget_char_limit") \in c.notes
      /\ fit.cuts => Whole("budget_char_limit_truncated") \in c.notes
      /\ c.kept = fit.kept /\ c.total = fit.total
  BY <1>6
<1> HIDE DEF c
<1>8. AllNoted(c, p, ids)
  BY <1>1, <1>2, <1>4, <1>7 DEF AllNoted
<1>9. QED
  BY <1>5, <1>7, <1>8 DEF c

\* A planned memory that the prompt does not show is noted, or all of them are; and
\* so is a page that is cut (context/builder.py).
THEOREM NothingDropped == Spec => []NothingDroppedSilently
<1>1. MInv => NothingDroppedSilently
  <2> SUFFICES ASSUME MInv, context # Nil
               PROVE  /\ ToSet(context.shown) \subseteq ToSet(plan.memories)
                      /\ \A i \in ToSet(plan.memories) \ ToSet(context.shown) :
                            \E note \in context.notes :
                               note.item = i \/ note = Whole("budget_char_limit")
                      /\ context.kept < page.chars =>
                            Whole("budget_char_limit_truncated") \in context.notes
    BY DEF NothingDroppedSilently
  <2>1. /\ shelf \in Seq(Memories) /\ plan.memories \in Seq(DOMAIN shelf)
        /\ ~guardian.retrieve => plan.memories = <<>>
        /\ context = Assemble(page, guardian, shelf, plan.memories)
        /\ page.chars \in Nat
    BY ReflectionAssumption DEF MInv, MemoriesFit
  <2>2. AllNoted(context, page, plan.memories)
    BY <2>1, AssembleFacts
  <2>3. context.kept < page.chars => context.kept # page.chars
    BY <2>1
  <2>4. QED
    BY <2>2, <2>3 DEF AllNoted
<1>2. QED
  BY <1>1, SpecMemories, PTL

\* No context is over its budget by as much as the marker of a cut, whatever the
\* page and the memories are (context/builder.py).
THEOREM BudgetHolds == Spec => []BudgetNearlyHolds
<1>1. MInv => BudgetNearlyHolds
  <2> SUFFICES ASSUME MInv, context # Nil, BaseChars < Budget.chars
               PROVE  context.total < Budget.chars + Marker
    BY DEF BudgetNearlyHolds
  <2>1. /\ shelf \in Seq(Memories) /\ plan.memories \in Seq(DOMAIN shelf)
        /\ ~guardian.retrieve => plan.memories = <<>>
        /\ context = Assemble(page, guardian, shelf, plan.memories)
    BY DEF MInv, MemoriesFit
  <2>2. PICK n \in Nat : context.total = Fit(page, n).total
    BY <2>1, AssembleFacts
  <2>3. QED
    BY <2>2, FitNearlyHolds DEF MInv
<1>2. QED
  BY <1>1, SpecMemories, PTL

\* No relevant memory gives way to one of less importance (memory/retriever.py).
THEOREM ImportantOnesFirst == Spec => []ImportantFirst
<1>1. MInv => ImportantFirst
  <2> SUFFICES ASSUME MInv, NEW i \in DOMAIN shelf, NEW j \in ToSet(retrieved),
                      Score(shelf[i]) > 0, i \notin ToSet(retrieved),
                      shelf[i].priority < shelf[j].priority
               PROVE  FALSE
    BY DEF ImportantFirst
  <2>1. /\ shelf \in Seq(Memories) /\ retrieved = Select(shelf)
        /\ retrieved \in Seq(Relevant(shelf))
    BY SelectIsRanked DEF MInv
  <2>2. i \in Relevant(shelf)
    BY DEF Relevant
  <2>3. j \in DOMAIN shelf
    <3>1. ToSet(retrieved) \subseteq Relevant(shelf)
      BY <2>1, LenProperties, ElementOfSeq DEF ToSet
    <3>2. QED
      BY <3>1 DEF Relevant
  <2>4. Ahead(shelf, i, j)
    BY <2>1, <2>3, AheadOrders
  <2>5. QED
    BY <2>1, <2>2, <2>4, SelectIsRanked
<1>2. QED
  BY <1>1, SpecMemories, PTL
=============================================================================
