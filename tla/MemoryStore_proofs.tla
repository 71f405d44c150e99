-------------------------- MODULE MemoryStore_proofs --------------------------
(***************************************************************************)
(* Proofs about MemoryStore, for every number of clients, memories and     *)
(* facts, every table of types, keywords and tiers, and every bound.       *)
(***************************************************************************)
EXTENDS MemoryStore, FiniteSetTheorems, SequenceTheorems, TLAPS

-----------------------------------------------------------------------------
(* Types *)

Columns == {"fact", "key", "confidence", "status", "verifiedOn", "updatedOn", "version",
            "explained"}

Transactions ==
    [at : {"idle", "found", "written", "stamped"}, op : {"none", "create", "update"},
     target : MemoryIds \cup {"none"}, read : {NoRow} \cup Rows, mine : {NoRow} \cup Rows,
     set : SUBSET Columns, log : Seq(Versions)]

TypeInv ==
    /\ rows \in [MemoryIds -> {NoRow} \cup Rows]
    /\ history \in [MemoryIds -> Seq(Versions)]
    /\ tx \in [Clients -> Transactions]
    /\ today \in Days
    /\ alone \in BOOLEAN /\ sound \in BOOLEAN
    /\ ever \in [MemoryIds -> SUBSET [fact : FactNames, by : {"user", "diary"}]]

\* A transaction works on a row of its own or on one that is committed.
Working ==
    \A c \in Clients : tx[c].at # "idle" =>
        /\ tx[c].target \in MemoryIds
        /\ tx[c].mine \in Rows
        /\ tx[c].op \in {"create", "update"}
        /\ tx[c].op = "update" => tx[c].read \in Rows /\ rows[tx[c].target] \in Rows
        /\ tx[c].at = "found" => tx[c].op = "update"

TInv == TypeInv /\ Working

LEMMA RowShape ==
    /\ \A r \in Rows : DOMAIN r = Columns
    /\ NoRow \notin Rows
    /\ Idle \in Transactions
    /\ Idle.at = "idle" /\ Idle.op = "none" /\ Idle.target = "none" /\ Idle.log = <<>>
<1>1. \A r \in Rows : DOMAIN r = Columns
  BY DEF Rows, Columns
<1>2. DOMAIN NoRow = {"fact"} /\ "key" \in Columns
  BY DEF NoRow, Columns
<1>3. NoRow \notin Rows
  BY <1>1, <1>2
<1>4. <<>> \in Seq(Versions)
  OBVIOUS
<1>5. Idle \in Transactions
  BY <1>4 DEF Idle, Transactions
<1>6. Idle.at = "idle" /\ Idle.op = "none" /\ Idle.target = "none" /\ Idle.log = <<>>
  BY DEF Idle
<1>7. QED
  BY <1>1, <1>3, <1>5, <1>6

\* A page with a fact on it has a first one.
LEMMA CandidateOf ==
    ASSUME NEW page \in (SUBSET FactNames) \ {{}}
    PROVE  Candidate(page) \in FactNames
<1> DEFINE places == {Precedence[f] : f \in page}
<1>1. places \subseteq Nat /\ places # {}
  BY MemoryAssumption
<1>2. PICK n \in places : \A k \in places : ~(<<k, n>> \in OpToRel(<, Nat))
  BY <1>1, NatLessThanWellFounded, WFMin
<1>3. \A k \in places : ~(k < n)
  BY <1>1, <1>2, Zenon DEF OpToRel
<1>4. PICK f \in page : n = Precedence[f]
  BY <1>2
<1>5. \A g \in page : Precedence[f] <= Precedence[g]
  BY <1>1, <1>3, <1>4
<1>6. Candidate(page) \in page
  BY <1>4, <1>5 DEF Candidate
<1>7. QED
  BY <1>6

\* A stamped row is a row, with the confidence of its wording.
LEMMA StampedRow ==
    ASSUME TypeInv, NEW row \in Rows
    PROVE  /\ Stamped(row) \in Rows
           /\ Stamped(row).fact = row.fact /\ Stamped(row).version = row.version
           /\ Stamped(row).explained = TRUE /\ Stamped(row).verifiedOn = Never
           /\ Minimum <= Tier[row.fact] => Stamped(row).confidence = Tier[row.fact]
<1> DEFINE confidence == IF Tier[row.fact] >= Minimum THEN Tier[row.fact] ELSE Minimum
           status == StatusOf(confidence)
<1>1. Stamped(row) = [row EXCEPT !.confidence = confidence, !.status = status,
                                 !.verifiedOn = Never, !.updatedOn = today, !.explained = TRUE]
  BY DEF Stamped
<1>2. row.fact \in FactNames /\ Tier[row.fact] \in 1..99
  BY MemoryAssumption DEF Rows
<1>3. confidence \in 0..99 /\ (Minimum <= Tier[row.fact] => confidence = Tier[row.fact])
  BY <1>2, MemoryAssumption
<1>4. status \in {"unverified", "needs_verification", "verified"}
  BY DEF StatusOf
<1> HIDE DEF confidence, status
<1>5. QED
  BY <1>1, <1>3, <1>4 DEF Rows, TypeInv, Never

\* So is what a version row says of a row.
LEMMA VersionOf ==
    ASSUME NEW row \in Rows, NEW reason \in {"create", "update", "user_correction"},
           NEW outdated \in BOOLEAN
    PROVE  /\ VersionRow(row, reason, outdated) \in Versions
           /\ VersionRow(row, reason, outdated).fact = row.fact
           /\ VersionRow(row, reason, outdated).version = row.version
           /\ VersionRow(row, reason, outdated).outdated = outdated
BY DEF VersionRow, Versions, Rows

\* What a commit leaves in a row: the columns that were written, over the others
\* as they are by then.
LEMMA CommittedRow ==
    ASSUME TInv, NEW c \in Clients, tx[c].at = "stamped"
    PROVE  /\ Committed(tx[c]) \in Rows
           /\ tx[c].op = "create" => Committed(tx[c]) = tx[c].mine
           /\ tx[c].op = "update" => \A column \in Columns :
                 Committed(tx[c])[column] = IF column \in tx[c].set THEN tx[c].mine[column]
                                            ELSE rows[tx[c].target][column]
<1>1. tx[c].mine \in Rows /\ tx[c].op \in {"create", "update"}
  BY DEF TInv, Working
<1>2. CASE tx[c].op = "create"
  BY <1>1, <1>2 DEF Committed
<1>3. CASE tx[c].op = "update"
  <2> DEFINE mine == tx[c].mine
             base == rows[tx[c].target]
             row == Committed(tx[c])
  <2>1. mine \in Rows /\ base \in Rows
    BY <1>3 DEF TInv, Working
  <2>2. DOMAIN mine = Columns
    BY <2>1, RowShape
  <2>3. row = [column \in Columns |-> IF column \in tx[c].set THEN mine[column] ELSE base[column]]
    BY <1>3, <2>2 DEF Committed
  <2>4. \A column \in Columns :
           row[column] = IF column \in tx[c].set THEN mine[column] ELSE base[column]
    BY <2>3
  <2> HIDE DEF mine, base
  <2>5. row \in Rows
    BY <2>1, <2>3 DEF Rows, Columns
  <2>6. QED
    BY <1>3, <2>4, <2>5 DEF mine, base
<1>4. QED
  BY <1>1, <1>2, <1>3

-----------------------------------------------------------------------------
(* What the steps of a transaction do *)

\* The transaction of a new memory has a row of its own.
LEMMA CreateEffect ==
    ASSUME TInv, NEW c \in Clients, NEW page \in (SUBSET FactNames) \ {{}},
           CreateMemory(c, page)
    PROVE  \E t \in Transactions :
              /\ Proceeds(c, t)
              /\ t.at = "written" /\ t.op = "create" /\ t.log = <<>>
              /\ t.target \in MemoryIds /\ rows[t.target] = NoRow
              /\ \A d \in Clients : tx[d].target # t.target
              /\ t.mine \in Rows /\ t.mine.version = 1
<1> DEFINE f == Candidate(page)
           row == NewRow(f)
<1>1. row \in Rows /\ row.version = 1
  BY CandidateOf, MemoryAssumption DEF NewRow, Rows, TInv, TypeInv, Days, Never
<1>2. DOMAIN row = Columns
  BY <1>1, RowShape
<1> HIDE DEF row
<1>3. PICK m \in Spare :
         Proceeds(c, [Idle EXCEPT !.at = "written", !.op = "create", !.target = m,
                                  !.mine = row, !.set = DOMAIN row])
  BY DEF CreateMemory, row
<1> DEFINE t == [Idle EXCEPT !.at = "written", !.op = "create", !.target = m,
                             !.mine = row, !.set = DOMAIN row]
<1>4. m \in MemoryIds /\ rows[m] = NoRow /\ \A d \in Clients : tx[d].target # m
  BY DEF Spare
<1>5. t \in Transactions
  BY <1>1, <1>2, <1>4, RowShape DEF Transactions
<1>6. t.at = "written" /\ t.op = "create" /\ t.log = <<>> /\ t.target = m /\ t.mine = row
  BY RowShape DEF Transactions
<1> HIDE DEF t
<1>7. Proceeds(c, t)
  BY <1>3 DEF t
<1>8. QED
  BY <1>1, <1>4, <1>5, <1>6, <1>7

\* The transaction of an update has read the row, and given it a new text.
LEMMA FindEffect ==
    ASSUME TInv, NEW c \in Clients, NEW page \in (SUBSET FactNames) \ {{}},
           FindMemory(c, page)
    PROVE  \E t \in Transactions :
              /\ Proceeds(c, t)
              /\ t.at = "found" /\ t.op = "update" /\ t.log = <<>>
              /\ t.target \in MemoryIds /\ t.read = rows[t.target] /\ t.read \in Rows
              /\ t.mine \in Rows
              /\ \A column \in Columns \ {"fact", "key"} : t.mine[column] = t.read[column]
<1> DEFINE f == Candidate(page)
<1>1. f \in FactNames
  BY CandidateOf
<1> HIDE DEF f
<1>2. PICK m \in Matches(f) :
         Proceeds(c, [Idle EXCEPT !.at = "found", !.op = "update", !.target = m,
                                  !.read = rows[m], !.mine = [rows[m] EXCEPT !.fact = f, !.key = f]])
  BY DEF FindMemory, f
<1>3. m \in MemoryIds /\ rows[m] \in Rows
  BY DEF Matches, Present, TInv, TypeInv
<1> DEFINE row == [rows[m] EXCEPT !.fact = f, !.key = f]
<1>4. row \in Rows /\ \A column \in Columns \ {"fact", "key"} : row[column] = rows[m][column]
  BY <1>1, <1>3 DEF Rows, Columns
<1> DEFINE t == [Idle EXCEPT !.at = "found", !.op = "update", !.target = m,
                             !.read = rows[m], !.mine = row]
<1> HIDE DEF row
<1>5. t \in Transactions
  BY <1>3, <1>4, RowShape DEF Transactions
<1>6. /\ t.at = "found" /\ t.op = "update" /\ t.log = <<>> /\ t.target = m
      /\ t.read = rows[m] /\ t.mine = row
  BY RowShape DEF Transactions
<1> HIDE DEF t
<1>7. Proceeds(c, t)
  BY <1>2 DEF t, row
<1>8. QED
  BY <1>3, <1>4, <1>5, <1>6, <1>7

\* The flush writes the columns that differ from the row that was read.
LEMMA UpdateEffect ==
    ASSUME TInv, NEW c \in Clients, UpdateMemory(c)
    PROVE  \E t \in Transactions :
              /\ Proceeds(c, t)
              /\ t.at = "written" /\ t.op = "update" /\ t.log = tx[c].log
              /\ t.target = tx[c].target /\ t.read = tx[c].read
              /\ t.mine \in Rows
              /\ \A column \in Columns \ {"updatedOn"} : t.mine[column] = tx[c].mine[column]
              /\ \A column \in Columns \ t.set : t.mine[column] = t.read[column]
<1> DEFINE row == [tx[c].mine EXCEPT !.updatedOn = today]
           set == Changed(tx[c].read, row) \cup {"updatedOn"}
           t == [tx[c] EXCEPT !.at = "written", !.mine = row, !.set = set]
<1>1. /\ tx[c] \in Transactions /\ tx[c].op = "update"
      /\ tx[c].mine \in Rows /\ tx[c].read \in Rows
  BY DEF UpdateMemory, TInv, TypeInv, Working
<1>2. row \in Rows /\ \A column \in Columns \ {"updatedOn"} : row[column] = tx[c].mine[column]
  BY <1>1 DEF Rows, Columns, TInv, TypeInv
<1>3. DOMAIN row = Columns
  BY <1>2, RowShape
<1>4. set \subseteq Columns /\ \A column \in Columns \ set : row[column] = tx[c].read[column]
  BY <1>3 DEF Changed, Columns
<1>5. Proceeds(c, t)
  BY DEF UpdateMemory
<1> HIDE DEF row, set
<1>6. t \in Transactions
  BY <1>1, <1>2, <1>4 DEF Transactions
<1>7. /\ t.at = "written" /\ t.op = "update" /\ t.log = tx[c].log
      /\ t.target = tx[c].target /\ t.read = tx[c].read /\ t.mine = row /\ t.set = set
  BY <1>1 DEF Transactions
<1> HIDE DEF t
<1>8. QED
  BY <1>2, <1>4, <1>5, <1>6, <1>7

\* The stamp writes the columns it changes, and the version row says what it left.
LEMMA AssessEffect ==
    ASSUME TInv, NEW c \in Clients, Assess(c)
    PROVE  \E t \in Transactions :
              /\ Proceeds(c, t)
              /\ t.at = "stamped" /\ t.op = tx[c].op
              /\ t.target = tx[c].target /\ t.read = tx[c].read
              /\ t.mine = Stamped(tx[c].mine)
              /\ t.log = <<VersionRow(t.mine, t.op, FALSE)>>
              /\ \A column \in Columns \ t.set :
                    column \notin tx[c].set /\ t.mine[column] = tx[c].mine[column]
<1> DEFINE row == Stamped(tx[c].mine)
           set == tx[c].set \cup Changed(tx[c].mine, row)
           log == <<VersionRow(row, tx[c].op, FALSE)>>
           t == [tx[c] EXCEPT !.at = "stamped", !.mine = row, !.set = set, !.log = log]
<1>1. /\ tx[c] \in Transactions /\ tx[c].op \in {"create", "update"}
      /\ tx[c].mine \in Rows
  BY DEF Assess, TInv, TypeInv, Working
<1>2. row \in Rows
  BY <1>1, StampedRow DEF TInv
<1>3. DOMAIN row = Columns
  BY <1>2, RowShape
<1>4. /\ set \subseteq Columns
      /\ \A column \in Columns \ set : column \notin tx[c].set /\ row[column] = tx[c].mine[column]
  BY <1>1, <1>3 DEF Changed, Transactions
<1>5. log \in Seq(Versions)
  <2> DEFINE version == VersionRow(row, tx[c].op, FALSE)
  <2> HIDE DEF row
  <2>1. version \in Versions
    BY <1>1, <1>2, VersionOf
  <2> HIDE DEF version
  <2>2. <<version>> \in Seq(Versions)
    BY <2>1
  <2>3. QED
    BY <2>2 DEF version
<1>6. Proceeds(c, t)
  BY DEF Assess
<1> HIDE DEF row, set, log
<1>7. t \in Transactions
  BY <1>1, <1>2, <1>4, <1>5 DEF Transactions
<1>8. /\ t.at = "stamped" /\ t.op = tx[c].op
      /\ t.target = tx[c].target /\ t.read = tx[c].read /\ t.mine = row /\ t.set = set
      /\ t.log = log
  BY <1>1 DEF Transactions
<1> HIDE DEF t
<1>9. QED
  BY <1>4, <1>6, <1>7, <1>8 DEF row, log

\* An assess that raises changes nothing but the place.
LEMMA RaisesEffect ==
    ASSUME TInv, NEW c \in Clients, AssessRaises(c)
    PROVE  \E t \in Transactions :
              /\ Proceeds(c, t) /\ ~sound
              /\ t.at = "stamped" /\ t.op = tx[c].op /\ t.log = tx[c].log /\ t.set = tx[c].set
              /\ t.target = tx[c].target /\ t.read = tx[c].read /\ t.mine = tx[c].mine
<1> DEFINE t == [tx[c] EXCEPT !.at = "stamped"]
<1>1. tx[c] \in Transactions
  BY DEF TInv, TypeInv
<1>2. t \in Transactions
  BY <1>1 DEF Transactions
<1>3. /\ t.at = "stamped" /\ t.op = tx[c].op /\ t.log = tx[c].log /\ t.set = tx[c].set
      /\ t.target = tx[c].target /\ t.read = tx[c].read /\ t.mine = tx[c].mine
  BY <1>1 DEF Transactions
<1>4. Proceeds(c, t) /\ ~sound
  BY DEF AssessRaises
<1> HIDE DEF t
<1>5. QED
  BY <1>2, <1>3, <1>4

\* A correction and decay leave a row a row.
LEMMA CorrectEffect ==
    ASSUME TInv, NEW m \in MemoryIds, NEW f \in FactNames, Correct(m, f)
    PROVE  \E row \in Rows, version \in Versions :
              /\ Quiet /\ rows[m] \in Rows
              /\ row.explained = rows[m].explained /\ row.version = rows[m].version + 1
              /\ row.verifiedOn # Never
              /\ version.outdated /\ version.version = rows[m].version
              /\ rows' = [rows EXCEPT ![m] = row]
              /\ history' = [history EXCEPT ![m] = Append(@, version)]
              /\ ever' = [ever EXCEPT ![m] = @ \cup {[fact |-> f, by |-> "user"]}]
              /\ UNCHANGED <<tx, today, alone, sound>>
<1> DEFINE row == Corrected(m, f).row
           version == Corrected(m, f).archived
<1>1. rows[m] \in Rows /\ rows[m].version < MaxVersion
  BY DEF Correct, Present, TInv, TypeInv
<1>2. row = [rows[m] EXCEPT !.fact = f, !.confidence = 99, !.status = "verified",
                            !.verifiedOn = today, !.updatedOn = today,
                            !.version = rows[m].version + 1]
  BY DEF Corrected
<1>3. version = VersionRow(rows[m], "user_correction", TRUE)
  BY DEF Corrected
<1> HIDE DEF row, version
<1>4. rows[m].version \in 1..MaxVersion /\ MaxVersion \in Nat
  BY <1>1, MemoryAssumption DEF Rows
<1>5. rows[m].version + 1 \in 1..MaxVersion
  BY <1>1, <1>4
<1>6. today \in Days /\ today # Never
  BY MemoryAssumption DEF TInv, TypeInv, Days, Never
<1>7. /\ row \in Rows
      /\ row.explained = rows[m].explained /\ row.version = rows[m].version + 1
      /\ row.verifiedOn = today
  <2> DEFINE old == rows[m]
             next == rows[m].version + 1
  <2> HIDE DEF old, next
  <2>1. old \in Rows /\ next \in 1..MaxVersion
    BY <1>1, <1>5 DEF old, next
  <2>2. row = [old EXCEPT !.fact = f, !.confidence = 99, !.status = "verified",
                          !.verifiedOn = today, !.updatedOn = today, !.version = next]
    BY <1>2 DEF old, next
  <2> DEFINE certain == 99
             known == "verified"
  <2>3. certain \in 0..99 /\ known \in {"unverified", "needs_verification", "verified"}
    OBVIOUS
  <2>4. row = [old EXCEPT !.fact = f, !.confidence = certain, !.status = known,
                          !.verifiedOn = today, !.updatedOn = today, !.version = next]
    BY <2>2
  <2> HIDE DEF certain, known
  <2>5. row \in Rows
    BY <1>6, <2>1, <2>3, <2>4 DEF Rows
  <2>6. row.version = next /\ row.verifiedOn = today
    BY <2>1, <2>4 DEF Rows
  <2>7. row.explained = old.explained
    BY <2>1, <2>4 DEF Rows
  <2>8. QED
    BY <2>5, <2>6, <2>7 DEF old, next
<1>8. version \in Versions /\ version.outdated = TRUE /\ version.version = rows[m].version
  BY <1>1, <1>3, VersionOf
<1>9. /\ rows' = [rows EXCEPT ![m] = row]
      /\ history' = [history EXCEPT ![m] = Append(@, version)]
  BY DEF Correct, row, version
<1>10. QED
  BY <1>1, <1>6, <1>7, <1>8, <1>9 DEF Correct

LEMMA DecayEffect ==
    ASSUME TInv, NEW m \in MemoryIds, Decay(m)
    PROVE  \E row \in Rows :
              /\ Quiet /\ rows[m] \in Rows
              /\ row.fact = rows[m].fact /\ row.explained = rows[m].explained
              /\ row.version = rows[m].version /\ row.verifiedOn = rows[m].verifiedOn
              /\ row.confidence <= rows[m].confidence
              /\ rows' = [rows EXCEPT ![m] = row]
              /\ UNCHANGED <<history, tx, today, alone, sound, ever>>
<1> DEFINE old == rows[m]
           anchor == IF old.verifiedOn # Never THEN old.verifiedOn ELSE old.updatedOn
           worn == old.confidence - DecayPerDay * (today - anchor)
           confidence == IF worn < Minimum THEN Minimum ELSE worn
           less == IF confidence < old.confidence THEN confidence ELSE old.confidence
           status == IF confidence < Needs THEN "needs_verification" ELSE old.status
           row == [[old EXCEPT !.confidence = less, !.status = status] EXCEPT !.updatedOn = today]
<1>1. old \in Rows
  BY DEF Decay, Present, TInv, TypeInv
<1>2. rows' = [rows EXCEPT ![m] = row]
  BY DEF Decay, Decayed
<1>3. Minimum \in 0..99 /\ DecayPerDay \in Int
  BY MemoryAssumption
<1>4. anchor \in Int
  BY <1>1, MemoryAssumption DEF Rows, Days, Never
<1>5. worn \in Int
  <2>1. today \in Int
    BY MemoryAssumption DEF TInv, TypeInv, Days
  <2> HIDE DEF anchor, old
  <2>2. old.confidence \in Int
    BY <1>1 DEF Rows
  <2>3. QED
    BY <1>3, <1>4, <2>1, <2>2
<1> HIDE DEF worn, anchor
<1>6. confidence \in Int /\ confidence >= 0
  BY <1>3, <1>5
<1>7. less \in 0..99 /\ less <= old.confidence
  BY <1>1, <1>6 DEF Rows
<1>8. status \in {"unverified", "needs_verification", "verified"}
  BY <1>1 DEF Rows
<1>9. today \in Days
  BY DEF TInv, TypeInv
<1> HIDE DEF less, status, confidence, old
<1>10. /\ row \in Rows
       /\ row.fact = old.fact /\ row.explained = old.explained
       /\ row.version = old.version /\ row.verifiedOn = old.verifiedOn
       /\ row.confidence = less
  BY <1>1, <1>7, <1>8, <1>9 DEF Rows
<1> HIDE DEF row
<1>11. Quiet /\ UNCHANGED <<history, tx, today, alone, sound, ever>>
  BY DEF Decay
<1>12. QED
  BY <1>1, <1>2, <1>7, <1>10, <1>11 DEF old

\* A commit writes the row, its version rows, and the text it has.
LEMMA CommitEffect ==
    ASSUME TInv, NEW c \in Clients, Commit(c)
    PROVE  \E m \in MemoryIds, row \in Rows :
              /\ m = tx[c].target /\ row = Committed(tx[c])
              /\ tx[c].at = "stamped" /\ tx[c].op \in {"create", "update"}
              /\ tx[c].mine \in Rows
              /\ tx[c].op = "update" => rows[m] \in Rows
              /\ tx[c].log \in Seq(Versions)
              /\ rows' = [rows EXCEPT ![m] = row]
              /\ history' = [history EXCEPT ![m] = @ \o tx[c].log]
              /\ ever' = [ever EXCEPT ![m] = @ \cup {[fact |-> tx[c].mine.fact, by |-> "diary"]}]
              /\ tx' = [tx EXCEPT ![c] = Idle]
              /\ UNCHANGED <<today, alone, sound>>
<1>1. /\ tx[c].at = "stamped" /\ tx[c].op \in {"create", "update"}
      /\ tx[c].mine \in Rows /\ tx[c].target \in MemoryIds
      /\ tx[c].op = "update" => rows[tx[c].target] \in Rows
  BY DEF Commit, TInv, Working
<1>2. tx[c].log \in Seq(Versions)
  BY DEF TInv, TypeInv, Transactions
<1>3. Committed(tx[c]) \in Rows
  BY <1>1, CommittedRow
<1>4. QED
  BY <1>1, <1>2, <1>3 DEF Commit

\* The steps of the requests are those that put a transaction where another was.
LEMMA RequestSteps ==
    ASSUME TInv, NEW c \in Clients, Close(c) \/ RequestStep(c) \/ Abandon(c), ~Commit(c)
    PROVE  \E t \in Transactions :
              /\ Proceeds(c, t)
              /\ t.at # "idle" =>
                    /\ t.target \in MemoryIds /\ t.mine \in Rows /\ t.op \in {"create", "update"}
                    /\ t.op = "update" => t.read \in Rows /\ rows[t.target] \in Rows
                    /\ t.at = "found" => t.op = "update"
<1>1. ASSUME NEW page \in (SUBSET FactNames) \ {{}}, CreateMemory(c, page)
      PROVE  \E t \in Transactions :
                /\ Proceeds(c, t)
                /\ t.at = "written" /\ t.op = "create" /\ t.target \in MemoryIds /\ t.mine \in Rows
  BY <1>1, CreateEffect
<1>2. ASSUME NEW page \in (SUBSET FactNames) \ {{}}, FindMemory(c, page)
      PROVE  \E t \in Transactions :
                /\ Proceeds(c, t)
                /\ t.op = "update" /\ t.target \in MemoryIds /\ t.mine \in Rows
                /\ t.read \in Rows /\ rows[t.target] \in Rows
  BY <1>2, FindEffect
<1>3. ASSUME UpdateMemory(c)
      PROVE  \E t \in Transactions :
                /\ Proceeds(c, t)
                /\ t.op = "update" /\ t.target \in MemoryIds /\ t.mine \in Rows
                /\ t.read \in Rows /\ rows[t.target] \in Rows
  <2>1. /\ tx[c].target \in MemoryIds /\ tx[c].read \in Rows /\ rows[tx[c].target] \in Rows
    BY <1>3 DEF UpdateMemory, TInv, Working
  <2>2. QED
    BY <1>3, <2>1, UpdateEffect
<1>4. ASSUME Assess(c) \/ AssessRaises(c)
      PROVE  \E t \in Transactions :
                /\ Proceeds(c, t)
                /\ t.at = "stamped" /\ t.op \in {"create", "update"}
                /\ t.target \in MemoryIds /\ t.mine \in Rows
                /\ t.op = "update" => t.read \in Rows /\ rows[t.target] \in Rows
  <2>1. /\ tx[c].target \in MemoryIds /\ tx[c].mine \in Rows /\ tx[c].op \in {"create", "update"}
        /\ tx[c].op = "update" => tx[c].read \in Rows /\ rows[tx[c].target] \in Rows
    BY <1>4 DEF Assess, AssessRaises, TInv, Working
  <2>2. Stamped(tx[c].mine) \in Rows
    BY <2>1, StampedRow DEF TInv
  <2>3. CASE Assess(c)
    BY <2>1, <2>2, <2>3, AssessEffect
  <2>4. CASE AssessRaises(c)
    BY <2>1, <2>4, RaisesEffect
  <2>5. QED
    BY <1>4, <2>3, <2>4
<1>5. ASSUME Abandon(c)
      PROVE  Proceeds(c, Idle) /\ Idle \in Transactions /\ Idle.at = "idle"
  BY <1>5, RowShape DEF Abandon
<1>6. QED
  BY <1>1, <1>2, <1>3, <1>4, <1>5 DEF Close, RequestStep

LEMMA TypesStep ==
    ASSUME TInv, [Next]_vars
    PROVE  TInv'
<1>1. ASSUME NEW c \in Clients, Close(c) \/ RequestStep(c) \/ Abandon(c), ~Commit(c)
      PROVE  TInv'
  <2>1. PICK t \in Transactions :
           /\ Proceeds(c, t)
           /\ t.at # "idle" =>
                 /\ t.target \in MemoryIds /\ t.mine \in Rows /\ t.op \in {"create", "update"}
                 /\ t.op = "update" => t.read \in Rows /\ rows[t.target] \in Rows
                 /\ t.at = "found" => t.op = "update"
    BY <1>1, RequestSteps
  <2>2. /\ tx' = [tx EXCEPT ![c] = t]
        /\ UNCHANGED <<rows, history, today, alone, sound, ever>>
    BY <2>1 DEF Proceeds
  <2>3. tx'[c] = t /\ \A d \in Clients \ {c} : tx'[d] = tx[d]
    BY <2>2 DEF TInv, TypeInv
  <2>4. TypeInv'
    BY <2>2 DEF TInv, TypeInv
  <2>5. Working'
    BY <2>1, <2>2, <2>3 DEF TInv, Working
  <2>6. QED
    BY <2>4, <2>5 DEF TInv
<1>2. ASSUME NEW c \in Clients, Commit(c)
      PROVE  TInv'
  <2>1. PICK m \in MemoryIds, row \in Rows :
           /\ m = tx[c].target /\ row = Committed(tx[c])
           /\ tx[c].at = "stamped" /\ tx[c].op \in {"create", "update"}
           /\ tx[c].mine \in Rows
           /\ tx[c].op = "update" => rows[m] \in Rows
           /\ tx[c].log \in Seq(Versions)
           /\ rows' = [rows EXCEPT ![m] = row]
           /\ history' = [history EXCEPT ![m] = @ \o tx[c].log]
           /\ ever' = [ever EXCEPT ![m] = @ \cup {[fact |-> tx[c].mine.fact, by |-> "diary"]}]
           /\ tx' = [tx EXCEPT ![c] = Idle]
           /\ UNCHANGED <<today, alone, sound>>
    BY <1>2, CommitEffect
  <2>2. history[m] \o tx[c].log \in Seq(Versions)
    BY <2>1, ConcatProperties DEF TInv, TypeInv
  <2>3. history' \in [MemoryIds -> Seq(Versions)]
    BY <2>1, <2>2 DEF TInv, TypeInv
  <2>4. ever' \in [MemoryIds -> SUBSET [fact : FactNames, by : {"user", "diary"}]]
    <3>1. [fact |-> tx[c].mine.fact, by |-> "diary"] \in [fact : FactNames, by : {"user", "diary"}]
      BY <2>1 DEF Rows
    <3>2. QED
      BY <2>1, <3>1 DEF TInv, TypeInv
  <2>5. TypeInv'
    BY <2>1, <2>3, <2>4, RowShape DEF TInv, TypeInv
  <2>6. Working'
    BY <2>1, RowShape DEF TInv, TypeInv, Working
  <2>7. QED
    BY <2>5, <2>6 DEF TInv
<1>3. ASSUME NEW m \in MemoryIds, NEW f \in FactNames, Correct(m, f)
      PROVE  TInv'
  <2>1. PICK row \in Rows, version \in Versions :
           /\ Quiet
           /\ rows' = [rows EXCEPT ![m] = row]
           /\ history' = [history EXCEPT ![m] = Append(@, version)]
           /\ ever' = [ever EXCEPT ![m] = @ \cup {[fact |-> f, by |-> "user"]}]
           /\ UNCHANGED <<tx, today, alone, sound>>
    BY <1>3, CorrectEffect
  <2>2. Append(history[m], version) \in Seq(Versions)
    BY AppendProperties DEF TInv, TypeInv
  <2>3. history' \in [MemoryIds -> Seq(Versions)]
    BY <2>1, <2>2 DEF TInv, TypeInv
  <2>4. ever' \in [MemoryIds -> SUBSET [fact : FactNames, by : {"user", "diary"}]]
    <3>1. [fact |-> f, by |-> "user"] \in [fact : FactNames, by : {"user", "diary"}]
      OBVIOUS
    <3>2. QED
      BY <2>1, <3>1 DEF TInv, TypeInv
  <2>5. QED
    BY <2>1, <2>3, <2>4 DEF TInv, TypeInv, Working, Quiet
<1>4. ASSUME NEW m \in MemoryIds, Decay(m)
      PROVE  TInv'
  <2>1. PICK row \in Rows :
           /\ Quiet
           /\ rows' = [rows EXCEPT ![m] = row]
           /\ UNCHANGED <<history, tx, today, alone, sound, ever>>
    BY <1>4, DecayEffect
  <2>2. QED
    BY <2>1 DEF TInv, TypeInv, Working, Quiet
<1>5. CASE DayPasses
  BY <1>5, MemoryAssumption DEF DayPasses, TInv, TypeInv, Working, Days
<1>6. CASE UNCHANGED vars
  BY <1>6 DEF vars, TInv, TypeInv, Working
<1>7. QED
  BY <1>1, <1>2, <1>3, <1>4, <1>5, <1>6 DEF Next

LEMMA SpecTypes == Spec => []TInv
<1>1. Init => TInv
  BY RowShape, MemoryAssumption DEF Init, TInv, TypeInv, Working, Days
<1>2. TInv /\ [Next]_vars => TInv'
  BY TypesStep
<1>3. QED
  BY <1>1, <1>2, PTL DEF Spec

-----------------------------------------------------------------------------
(* The history *)

DiaryFacts(m) == {e.fact : e \in {d \in ever[m] : d.by = "diary"}}

\* What is committed is explained and archived, and so is what a transaction that
\* has been stamped is about to commit.
Explained ==
    sound =>
        /\ \A m \in MemoryIds : DiaryFacts(m) \subseteq Archived(m)
        /\ \A m \in Present : rows[m].explained /\ history[m] # <<>>
        /\ \A c \in Clients : tx[c].at = "stamped" =>
              tx[c].mine.explained /\ \E i \in DOMAIN tx[c].log : tx[c].log[i].fact = tx[c].mine.fact

LEMMA ExplainedStep ==
    ASSUME TInv, Explained, [Next]_vars
    PROVE  Explained'
<1>1. ASSUME NEW c \in Clients, NEW t \in Transactions, Proceeds(c, t),
             sound /\ t.at = "stamped" =>
                t.mine.explained /\ \E i \in DOMAIN t.log : t.log[i].fact = t.mine.fact
      PROVE  Explained'
  <2>1. /\ tx' = [tx EXCEPT ![c] = t]
        /\ UNCHANGED <<rows, history, today, alone, sound, ever>>
    BY <1>1 DEF Proceeds
  <2>2. tx'[c] = t /\ \A d \in Clients \ {c} : tx'[d] = tx[d]
    BY <2>1 DEF TInv, TypeInv
  <2>3. sound => \A n \in MemoryIds : DiaryFacts(n)' \subseteq Archived(n)'
    BY <2>1 DEF Explained, DiaryFacts, Archived
  <2>4. sound => \A n \in Present' : rows'[n].explained /\ history'[n] # <<>>
    BY <2>1 DEF Explained, Present
  <2>5. sound => \A d \in Clients : tx'[d].at = "stamped" =>
           tx'[d].mine.explained /\ \E i \in DOMAIN tx'[d].log : tx'[d].log[i].fact = tx'[d].mine.fact
    BY <1>1, <2>2 DEF Explained
  <2>6. QED
    BY <2>1, <2>3, <2>4, <2>5 DEF Explained
<1>2. ASSUME NEW c \in Clients, Close(c) \/ UpdateMemory(c) \/ Abandon(c)
      PROVE  Explained'
  <2>1. \E t \in Transactions : Proceeds(c, t) /\ t.at # "stamped"
    BY <1>2, CreateEffect, FindEffect, UpdateEffect, RowShape DEF Close, Abandon
  <2>2. QED
    BY <1>1, <2>1
<1>3. ASSUME NEW c \in Clients, Assess(c)
      PROVE  Explained'
  <2>1. PICK t \in Transactions :
           /\ Proceeds(c, t)
           /\ t.op = tx[c].op /\ t.mine = Stamped(tx[c].mine)
           /\ t.log = <<VersionRow(t.mine, t.op, FALSE)>>
    BY <1>3, AssessEffect
  <2>2. tx[c].mine \in Rows /\ tx[c].op \in {"create", "update"}
    BY <1>3 DEF Assess, TInv, Working
  <2>3. t.mine \in Rows /\ t.mine.explained = TRUE
    BY <2>1, <2>2, StampedRow DEF TInv
  <2> DEFINE version == VersionRow(t.mine, t.op, FALSE)
  <2>4. version.fact = t.mine.fact
    BY DEF VersionRow
  <2>5. 1 \in DOMAIN t.log /\ t.log[1].fact = t.mine.fact
    <3>1. t.log = <<version>>
      BY <2>1
    <3> HIDE DEF version
    <3>2. QED
      BY <2>4, <3>1
  <2>6. QED
    BY <1>1, <2>1, <2>3, <2>5
<1>4. ASSUME NEW c \in Clients, AssessRaises(c)
      PROVE  Explained'
  BY <1>1, <1>4, RaisesEffect
<1>5. ASSUME NEW c \in Clients, Commit(c)
      PROVE  Explained'
  <2>1. PICK m \in MemoryIds, row \in Rows :
           /\ m = tx[c].target /\ row = Committed(tx[c])
           /\ tx[c].at = "stamped" /\ tx[c].op \in {"create", "update"}
           /\ tx[c].mine \in Rows
           /\ tx[c].op = "update" => rows[m] \in Rows
           /\ tx[c].log \in Seq(Versions)
           /\ rows' = [rows EXCEPT ![m] = row]
           /\ history' = [history EXCEPT ![m] = @ \o tx[c].log]
           /\ ever' = [ever EXCEPT ![m] = @ \cup {[fact |-> tx[c].mine.fact, by |-> "diary"]}]
           /\ tx' = [tx EXCEPT ![c] = Idle]
           /\ UNCHANGED <<today, alone, sound>>
    BY <1>5, CommitEffect
  <2>2. SUFFICES ASSUME sound
                 PROVE  /\ \A n \in MemoryIds : DiaryFacts(n)' \subseteq Archived(n)'
                        /\ \A n \in MemoryIds : rows'[n] # NoRow =>
                              rows'[n].explained /\ history'[n] # <<>>
                        /\ \A d \in Clients : tx'[d].at = "stamped" =>
                              /\ tx'[d].mine.explained
                              /\ \E i \in DOMAIN tx'[d].log : tx'[d].log[i].fact = tx'[d].mine.fact
    BY <2>1 DEF Explained, Present
  <2>3. PICK i \in DOMAIN tx[c].log : tx[c].log[i].fact = tx[c].mine.fact
    BY <2>1, <2>2 DEF Explained
  <2> DEFINE old == history[m]
             log == tx[c].log
  <2>4. old \in Seq(Versions) /\ log \in Seq(Versions)
    BY <2>1 DEF TInv, TypeInv
  <2>5. history'[m] = old \o log /\ \A n \in MemoryIds \ {m} : history'[n] = history[n]
    BY <2>1 DEF TInv, TypeInv
  <2>6. i \in 1..Len(log) /\ Len(old) \in Nat /\ Len(log) \in Nat
    BY <2>3, <2>4
  <2> HIDE DEF old, log
  <2>7. /\ Len(old \o log) = Len(old) + Len(log)
        /\ \A k \in 1..Len(old) : (old \o log)[k] = old[k]
        /\ (old \o log)[Len(old) + i] = log[i]
        /\ DOMAIN (old \o log) = 1..(Len(old) + Len(log))
        /\ old \o log \in Seq(Versions)
    BY <2>4, <2>6, ConcatProperties
  <2>8. Len(old) + i \in DOMAIN (old \o log)
    BY <2>6, <2>7
  <2>9. old \o log # <<>>
    BY <2>8
  <2>10. {old[k].fact : k \in DOMAIN old} \subseteq {(old \o log)[k].fact : k \in DOMAIN (old \o log)}
    <3>1. DOMAIN old = 1..Len(old)
      BY <2>4
    <3>2. DOMAIN old \subseteq DOMAIN (old \o log)
      BY <2>6, <2>7, <3>1
    <3>3. QED
      BY <2>7, <3>1, <3>2
  <2> DEFINE new == old \o log
  <2>11. Archived(m) \subseteq Archived(m)' /\ tx[c].mine.fact \in Archived(m)'
    <3>1. history'[m] = new /\ Archived(m) = {old[k].fact : k \in DOMAIN old}
      BY <2>5 DEF Archived, old, log
    <3>2. new[Len(old) + i].fact = tx[c].mine.fact /\ Len(old) + i \in DOMAIN new
      BY <2>3, <2>7, <2>8 DEF log
    <3>3. {old[k].fact : k \in DOMAIN old} \subseteq {new[k].fact : k \in DOMAIN new}
      BY <2>10
    <3> HIDE DEF new
    <3>4. Archived(m)' = {new[k].fact : k \in DOMAIN new}
      BY <3>1 DEF Archived
    <3>5. QED
      BY <3>1, <3>2, <3>3, <3>4
  <2>12. \A n \in MemoryIds \ {m} : Archived(n)' = Archived(n)
    BY <2>5 DEF Archived
  <2>13. /\ ever'[m] = ever[m] \cup {[fact |-> tx[c].mine.fact, by |-> "diary"]}
         /\ \A n \in MemoryIds \ {m} : ever'[n] = ever[n]
    BY <2>1 DEF TInv, TypeInv
  <2>14. DiaryFacts(m)' \subseteq DiaryFacts(m) \cup {tx[c].mine.fact}
    BY <2>13 DEF DiaryFacts
  <2>15. \A n \in MemoryIds \ {m} : DiaryFacts(n)' = DiaryFacts(n)
    BY <2>13 DEF DiaryFacts
  <2>16. \A n \in MemoryIds : DiaryFacts(n)' \subseteq Archived(n)'
    BY <2>2, <2>11, <2>12, <2>14, <2>15 DEF Explained
  <2>17. row.explained
    <3>1. tx[c].mine.explained
      BY <2>1, <2>2 DEF Explained
    <3>2. CASE tx[c].op = "create"
      BY <2>1, <3>1, <3>2, CommittedRow
    <3>3. CASE tx[c].op = "update"
      <4>1. rows[m].explained
        BY <2>1, <2>2, <3>3, RowShape DEF Explained, Present
      <4>2. row["explained"] = IF "explained" \in tx[c].set THEN tx[c].mine["explained"]
                               ELSE rows[m]["explained"]
        BY <2>1, <3>3, CommittedRow DEF Columns
      <4>3. QED
        BY <3>1, <4>1, <4>2
    <3>4. QED
      BY <2>1, <3>2, <3>3
  <2>18. \A n \in MemoryIds : rows'[n] # NoRow => rows'[n].explained /\ history'[n] # <<>>
    <3>1. rows'[m] = row /\ \A n \in MemoryIds \ {m} : rows'[n] = rows[n]
      BY <2>1 DEF TInv, TypeInv
    <3>2. QED
      BY <2>2, <2>5, <2>9, <2>17, <3>1 DEF Explained, Present
  <2>19. \A d \in Clients : tx'[d].at = "stamped" => tx'[d] = tx[d]
    BY <2>1, RowShape DEF TInv, TypeInv
  <2>20. QED
    BY <2>2, <2>16, <2>18, <2>19 DEF Explained
<1>6. ASSUME NEW m \in MemoryIds, NEW f \in FactNames, Correct(m, f)
      PROVE  Explained'
  <2>1. PICK row \in Rows, version \in Versions :
           /\ Quiet /\ rows[m] \in Rows
           /\ row.explained = rows[m].explained
           /\ rows' = [rows EXCEPT ![m] = row]
           /\ history' = [history EXCEPT ![m] = Append(@, version)]
           /\ ever' = [ever EXCEPT ![m] = @ \cup {[fact |-> f, by |-> "user"]}]
           /\ UNCHANGED <<tx, today, alone, sound>>
    BY <1>6, CorrectEffect
  <2> DEFINE old == history[m]
             new == Append(old, version)
  <2>2. old \in Seq(Versions)
    BY DEF TInv, TypeInv
  <2>3. history'[m] = new /\ \A n \in MemoryIds \ {m} : history'[n] = history[n]
    BY <2>1 DEF TInv, TypeInv
  <2> HIDE DEF old
  <2>4. /\ new # <<>> /\ DOMAIN old \subseteq DOMAIN new
        /\ \A k \in DOMAIN old : new[k] = old[k]
    BY <2>2
  <2> HIDE DEF new
  <2>5. Archived(m) \subseteq Archived(m)'
    BY <2>3, <2>4 DEF Archived, old
  <2>6. \A n \in MemoryIds \ {m} : Archived(n)' = Archived(n)
    BY <2>3 DEF Archived
  <2>7. \A n \in MemoryIds : DiaryFacts(n)' = DiaryFacts(n)
    <3>1. /\ ever'[m] = ever[m] \cup {[fact |-> f, by |-> "user"]}
          /\ \A n \in MemoryIds \ {m} : ever'[n] = ever[n]
      BY <2>1 DEF TInv, TypeInv
    <3>2. DiaryFacts(m)' = DiaryFacts(m)
      BY <3>1 DEF DiaryFacts
    <3>3. QED
      BY <3>1, <3>2 DEF DiaryFacts
  <2>8. rows'[m] = row /\ \A n \in MemoryIds \ {m} : rows'[n] = rows[n]
    BY <2>1 DEF TInv, TypeInv
  <2>9. rows[m] # NoRow
    BY <2>1, RowShape
  <2>10. sound => \A n \in MemoryIds : rows'[n] # NoRow => rows'[n].explained /\ history'[n] # <<>>
    BY <2>1, <2>3, <2>4, <2>8, <2>9 DEF Explained, Present
  <2>11. sound => \A n \in MemoryIds : DiaryFacts(n)' \subseteq Archived(n)'
    BY <2>5, <2>6, <2>7 DEF Explained
  <2>12. QED
    BY <2>1, <2>10, <2>11 DEF Explained, Present, Quiet
<1>7. ASSUME NEW m \in MemoryIds, Decay(m)
      PROVE  Explained'
  <2>1. PICK row \in Rows :
           /\ rows[m] \in Rows /\ row.explained = rows[m].explained
           /\ rows' = [rows EXCEPT ![m] = row]
           /\ UNCHANGED <<history, tx, today, alone, sound, ever>>
    BY <1>7, DecayEffect
  <2>2. rows'[m] = row /\ \A n \in MemoryIds \ {m} : rows'[n] = rows[n]
    BY <2>1 DEF TInv, TypeInv
  <2>3. rows[m] # NoRow
    BY <2>1, RowShape
  <2>4. QED
    BY <2>1, <2>2, <2>3 DEF Explained, DiaryFacts, Archived, Present
<1>8. CASE DayPasses \/ UNCHANGED vars
  <2>1. UNCHANGED <<rows, history, tx, alone, sound, ever>>
    BY <1>8 DEF DayPasses, vars
  <2>2. sound => \A n \in MemoryIds : DiaryFacts(n)' \subseteq Archived(n)'
    BY <2>1 DEF Explained, DiaryFacts, Archived
  <2>3. QED
    BY <2>1, <2>2 DEF Explained, Present
<1>9. QED
  BY <1>2, <1>3, <1>4, <1>5, <1>6, <1>7, <1>8 DEF Next, RequestStep

LEMMA SpecExplained == Spec => []Explained
<1>1. Init => Explained
  BY DEF Init, Explained, DiaryFacts, Archived, Present, Idle
<1>2. TInv /\ Explained /\ [Next]_vars => Explained'
  BY ExplainedStep
<1>3. QED
  BY <1>1, <1>2, SpecTypes, PTL DEF Spec

\* Whatever is committed has its evidence and a version row, as long as no assess
\* raises (writer/writer.py, intelligence/engine.py).
THEOREM MemoriesExplained == Spec => []EveryMemoryIsExplained
<1>1. Explained => EveryMemoryIsExplained
  BY DEF Explained, EveryMemoryIsExplained
<1>2. QED
  BY <1>1, SpecExplained, PTL

\* Every text that a diary page has put into a memory is in a version row of it,
\* however closings overlap (intelligence/store.py, record_version).
THEOREM DiaryKept == Spec => []HistoryKeepsTheDiary
<1>1. Explained => HistoryKeepsTheDiary
  BY DEF Explained, DiaryFacts, Present, HistoryKeepsTheDiary
<1>2. QED
  BY <1>1, SpecExplained, PTL

-----------------------------------------------------------------------------
(* The version number *)

OutdatedAt(h) == {i \in DOMAIN h : h[i].outdated}

\* Version rows that are not outdated do not count, and one that is counts for one.
LEMMA OutdatedConcat ==
    ASSUME NEW h \in Seq(Versions), NEW log \in Seq(Versions),
           \A i \in DOMAIN log : ~log[i].outdated
    PROVE  OutdatedAt(h \o log) = OutdatedAt(h)
<1>1. /\ h \o log \in Seq(Versions)
      /\ Len(h) \in Nat /\ Len(log) \in Nat
      /\ DOMAIN h = 1..Len(h) /\ DOMAIN log = 1..Len(log)
      /\ DOMAIN (h \o log) = 1..(Len(h) + Len(log))
      /\ \A i \in 1..(Len(h) + Len(log)) :
            (h \o log)[i] = IF i <= Len(h) THEN h[i] ELSE log[i - Len(h)]
  BY ConcatProperties
<1> DEFINE all == h \o log
<1> HIDE DEF all
<1>2. ASSUME NEW i \in DOMAIN all, all[i].outdated
      PROVE  i \in DOMAIN h /\ h[i].outdated
  <2>1. i \in 1..(Len(h) + Len(log))
    BY <1>1, <1>2 DEF all
  <2>2. CASE i <= Len(h)
    BY <1>1, <1>2, <2>1, <2>2 DEF all
  <2>3. CASE ~(i <= Len(h))
    <3>1. i - Len(h) \in DOMAIN log /\ all[i] = log[i - Len(h)]
      BY <1>1, <2>1, <2>3 DEF all
    <3>2. QED
      BY <1>2, <3>1
  <2>4. QED
    BY <2>2, <2>3
<1>3. \A i \in DOMAIN h : i \in DOMAIN all /\ all[i] = h[i]
  BY <1>1 DEF all
<1>4. QED
  BY <1>2, <1>3 DEF OutdatedAt, all

LEMMA OutdatedAppend ==
    ASSUME NEW h \in Seq(Versions), NEW v \in Versions, v.outdated
    PROVE  /\ Cardinality(OutdatedAt(h)) \in Nat
           /\ Cardinality(OutdatedAt(Append(h, v))) = Cardinality(OutdatedAt(h)) + 1
<1> DEFINE all == Append(h, v)
<1>1. /\ Len(h) \in Nat /\ DOMAIN h = 1..Len(h)
      /\ DOMAIN all = 1..(Len(h) + 1)
      /\ \A i \in 1..Len(h) : all[i] = h[i]
      /\ all[Len(h) + 1] = v
  BY AppendProperties
<1>2. IsFiniteSet(1..Len(h))
  BY <1>1, FS_Interval
<1>3. IsFiniteSet(OutdatedAt(h))
  BY <1>1, <1>2, FS_Subset DEF OutdatedAt
<1> HIDE DEF all
<1>4. OutdatedAt(all) = OutdatedAt(h) \cup {Len(h) + 1}
  BY <1>1 DEF OutdatedAt
<1>5. Len(h) + 1 \notin OutdatedAt(h)
  BY <1>1 DEF OutdatedAt
<1>6. QED
  BY <1>3, <1>4, <1>5, FS_AddElement, FS_CardinalityType DEF all

\* A memory that is not there has no history; the version of one that is counts its
\* outdated rows; no other transaction works on a row that is being created.
Numbered ==
    /\ \A m \in MemoryIds :
          /\ rows[m] = NoRow => history[m] = <<>>
          /\ rows[m] # NoRow =>
                /\ rows[m].version = 1 + Cardinality(OutdatedAt(history[m]))
                /\ \A i \in DOMAIN history[m] : history[m][i].version <= rows[m].version
    /\ \A c \in Clients : tx[c].at # "idle" =>
          /\ tx[c].op = "create" =>
                /\ rows[tx[c].target] = NoRow /\ tx[c].mine.version = 1
                /\ \A d \in Clients \ {c} : tx[d].at # "idle" => tx[d].target # tx[c].target
          /\ tx[c].op = "update" => tx[c].mine.version = rows[tx[c].target].version
          /\ \A i \in DOMAIN tx[c].log :
                ~tx[c].log[i].outdated /\ tx[c].log[i].version = tx[c].mine.version

LEMMA NumberedStep ==
    ASSUME TInv, Numbered, [Next]_vars
    PROVE  Numbered'
<1>1. ASSUME NEW c \in Clients, NEW t \in Transactions, Proceeds(c, t),
             t.at # "idle" =>
                /\ t.op = "create" =>
                      /\ rows[t.target] = NoRow /\ t.mine.version = 1
                      /\ \A d \in Clients \ {c} : tx[d].at # "idle" => tx[d].target # t.target
                /\ t.op = "update" => t.mine.version = rows[t.target].version
                /\ \A i \in DOMAIN t.log : ~t.log[i].outdated /\ t.log[i].version = t.mine.version
                /\ \A d \in Clients \ {c} :
                      tx[d].at # "idle" /\ tx[d].op = "create" => tx[d].target # t.target
      PROVE  Numbered'
  <2>1. /\ tx' = [tx EXCEPT ![c] = t]
        /\ UNCHANGED <<rows, history>>
    BY <1>1 DEF Proceeds
  <2>2. tx'[c] = t /\ \A d \in Clients \ {c} : tx'[d] = tx[d]
    BY <2>1 DEF TInv, TypeInv
  <2>3. QED
    BY <1>1, <2>1, <2>2 DEF Numbered
<1>2. ASSUME NEW c \in Clients, NEW page \in (SUBSET FactNames) \ {{}}, CreateMemory(c, page)
      PROVE  Numbered'
  <2>1. PICK t \in Transactions :
           /\ Proceeds(c, t)
           /\ t.at = "written" /\ t.op = "create" /\ t.log = <<>>
           /\ t.target \in MemoryIds /\ rows[t.target] = NoRow
           /\ \A d \in Clients : tx[d].target # t.target
           /\ t.mine \in Rows /\ t.mine.version = 1
    BY <1>2, CreateEffect
  <2>2. QED
    BY <1>1, <2>1
<1>3. ASSUME NEW c \in Clients, NEW page \in (SUBSET FactNames) \ {{}}, FindMemory(c, page)
      PROVE  Numbered'
  <2>1. PICK t \in Transactions :
           /\ Proceeds(c, t)
           /\ t.at = "found" /\ t.op = "update" /\ t.log = <<>>
           /\ t.target \in MemoryIds /\ t.read = rows[t.target] /\ t.read \in Rows
           /\ t.mine \in Rows
           /\ \A column \in Columns \ {"fact", "key"} : t.mine[column] = t.read[column]
    BY <1>3, FindEffect
  <2>2. t.mine["version"] = t.read["version"] /\ rows[t.target] # NoRow
    BY <2>1, RowShape DEF Columns
  <2>3. \A d \in Clients \ {c} :
           tx[d].at # "idle" /\ tx[d].op = "create" => tx[d].target # t.target
    BY <2>2 DEF Numbered
  <2>4. QED
    BY <1>1, <2>1, <2>2, <2>3
<1>4. ASSUME NEW c \in Clients, UpdateMemory(c)
      PROVE  Numbered'
  <2>1. PICK t \in Transactions :
           /\ Proceeds(c, t)
           /\ t.at = "written" /\ t.op = "update" /\ t.log = tx[c].log
           /\ t.target = tx[c].target /\ t.read = tx[c].read
           /\ t.mine \in Rows
           /\ \A column \in Columns \ {"updatedOn"} : t.mine[column] = tx[c].mine[column]
           /\ \A column \in Columns \ t.set : t.mine[column] = t.read[column]
    BY <1>4, UpdateEffect
  <2>2. t.mine["version"] = tx[c].mine["version"]
    BY <2>1 DEF Columns
  <2>3. tx[c].at # "idle" /\ tx[c].op = "update"
    BY <1>4 DEF UpdateMemory, TInv, Working
  <2>4. QED
    BY <1>1, <2>1, <2>2, <2>3 DEF Numbered
<1>5. ASSUME NEW c \in Clients, Assess(c)
      PROVE  Numbered'
  <2>1. PICK t \in Transactions :
           /\ Proceeds(c, t)
           /\ t.op = tx[c].op /\ t.target = tx[c].target
           /\ t.mine = Stamped(tx[c].mine)
           /\ t.log = <<VersionRow(t.mine, t.op, FALSE)>>
    BY <1>5, AssessEffect
  <2>2. tx[c].at # "idle" /\ tx[c].mine \in Rows
    BY <1>5 DEF Assess, TInv, Working
  <2>3. t.mine.version = tx[c].mine.version
    BY <2>1, <2>2, StampedRow DEF TInv
  <2> DEFINE version == VersionRow(t.mine, t.op, FALSE)
  <2>4. version.outdated = FALSE /\ version.version = t.mine.version
    BY DEF VersionRow
  <2>5. \A i \in DOMAIN t.log : ~t.log[i].outdated /\ t.log[i].version = t.mine.version
    <3>1. t.log = <<version>>
      BY <2>1
    <3> HIDE DEF version
    <3>2. QED
      BY <2>4, <3>1
  <2>6. t.op = "create" =>
           /\ rows[t.target] = NoRow /\ t.mine.version = 1
           /\ \A d \in Clients \ {c} : tx[d].at # "idle" => tx[d].target # t.target
    BY <2>1, <2>2, <2>3 DEF Numbered
  <2>7. t.op = "update" => t.mine.version = rows[t.target].version
    BY <2>1, <2>2, <2>3 DEF Numbered
  <2>8. \A d \in Clients \ {c} : tx[d].at # "idle" /\ tx[d].op = "create" => tx[d].target # t.target
    BY <2>1, <2>2 DEF Numbered
  <2> HIDE DEF version
  <2>9. Proceeds(c, t)
    BY <2>1
  <2>10. QED
    BY <1>1, <2>5, <2>6, <2>7, <2>8, <2>9
<1>6. ASSUME NEW c \in Clients, AssessRaises(c)
      PROVE  Numbered'
  <2>1. PICK t \in Transactions :
           /\ Proceeds(c, t) /\ ~sound
           /\ t.at = "stamped" /\ t.op = tx[c].op /\ t.log = tx[c].log /\ t.set = tx[c].set
           /\ t.target = tx[c].target /\ t.read = tx[c].read /\ t.mine = tx[c].mine
    BY <1>6, RaisesEffect
  <2>2. tx[c].at # "idle"
    BY <1>6 DEF AssessRaises
  <2>3. QED
    BY <1>1, <2>1, <2>2 DEF Numbered
<1>7. ASSUME NEW c \in Clients, Abandon(c)
      PROVE  Numbered'
  BY <1>1, <1>7, RowShape DEF Abandon
<1>8. ASSUME NEW c \in Clients, Commit(c)
      PROVE  Numbered'
  <2>1. PICK m \in MemoryIds, row \in Rows :
           /\ m = tx[c].target /\ row = Committed(tx[c])
           /\ tx[c].at = "stamped" /\ tx[c].op \in {"create", "update"}
           /\ tx[c].mine \in Rows
           /\ tx[c].op = "update" => rows[m] \in Rows
           /\ tx[c].log \in Seq(Versions)
           /\ rows' = [rows EXCEPT ![m] = row]
           /\ history' = [history EXCEPT ![m] = @ \o tx[c].log]
           /\ ever' = [ever EXCEPT ![m] = @ \cup {[fact |-> tx[c].mine.fact, by |-> "diary"]}]
           /\ tx' = [tx EXCEPT ![c] = Idle]
           /\ UNCHANGED <<today, alone, sound>>
    BY <1>8, CommitEffect
  <2> DEFINE old == history[m]
             log == tx[c].log
  <2>2. old \in Seq(Versions) /\ log \in Seq(Versions)
    BY <2>1 DEF TInv, TypeInv
  <2>3. /\ history'[m] = old \o log /\ \A n \in MemoryIds \ {m} : history'[n] = history[n]
        /\ rows'[m] = row /\ \A n \in MemoryIds \ {m} : rows'[n] = rows[n]
    BY <2>1 DEF TInv, TypeInv
  <2>4. \A i \in DOMAIN log : ~log[i].outdated /\ log[i].version = tx[c].mine.version
    BY <2>1 DEF Numbered
  <2>5. row.version = tx[c].mine.version
    <3>1. CASE tx[c].op = "create"
      BY <2>1, <3>1, CommittedRow
    <3>2. CASE tx[c].op = "update"
      <4>1. row["version"] = IF "version" \in tx[c].set THEN tx[c].mine["version"]
                             ELSE rows[m]["version"]
        BY <2>1, <3>2, CommittedRow DEF Columns
      <4>2. tx[c].mine.version = rows[m].version
        BY <2>1, <3>2 DEF Numbered
      <4>3. QED
        BY <4>1, <4>2
    <3>3. QED
      BY <2>1, <3>1, <3>2
  <2>6. /\ row.version = 1 + Cardinality(OutdatedAt(old))
        /\ \A i \in DOMAIN old : old[i].version <= row.version
    <3>1. CASE tx[c].op = "create"
      <4>1. row.version = 1 /\ old = <<>>
        BY <2>1, <2>5, <3>1 DEF Numbered
      <4>2. OutdatedAt(old) = {}
        BY <4>1 DEF OutdatedAt
      <4>3. Cardinality(OutdatedAt(old)) = 0
        BY <4>2, FS_EmptySet
      <4> HIDE DEF old
      <4>4. QED
        BY <4>1, <4>3
    <3>2. CASE tx[c].op = "update"
      BY <2>1, <2>5, <3>2, RowShape DEF Numbered
    <3>3. QED
      BY <2>1, <3>1, <3>2
  <2> HIDE DEF old, log
  <2>7. OutdatedAt(old \o log) = OutdatedAt(old)
    BY <2>2, <2>4, OutdatedConcat
  <2>8. \A i \in DOMAIN (old \o log) : (old \o log)[i].version <= row.version
    <3>1. /\ Len(old) \in Nat /\ Len(log) \in Nat
          /\ DOMAIN old = 1..Len(old) /\ DOMAIN log = 1..Len(log)
          /\ DOMAIN (old \o log) = 1..(Len(old) + Len(log))
          /\ \A i \in 1..(Len(old) + Len(log)) :
                (old \o log)[i] = IF i <= Len(old) THEN old[i] ELSE log[i - Len(old)]
      BY <2>2, ConcatProperties
    <3>2. row.version \in Int
      BY <2>1 DEF Rows
    <3> DEFINE all == old \o log
    <3>3. ASSUME NEW i \in DOMAIN all
          PROVE  all[i].version <= row.version
      <4>1. CASE i <= Len(old)
        BY <2>6, <3>1, <3>3, <4>1
      <4>2. CASE ~(i <= Len(old))
        <5>1. i - Len(old) \in DOMAIN log /\ all[i] = log[i - Len(old)]
          BY <3>1, <3>3, <4>2
        <5> HIDE DEF all
        <5>2. QED
          BY <2>4, <2>5, <3>2, <5>1
      <4>3. QED
        BY <4>1, <4>2
    <3>4. QED
      BY <3>3
  <2>9. \A n \in MemoryIds :
           /\ rows'[n] = NoRow => history'[n] = <<>>
           /\ rows'[n] # NoRow =>
                 /\ rows'[n].version = 1 + Cardinality(OutdatedAt(history'[n]))
                 /\ \A i \in DOMAIN history'[n] : history'[n][i].version <= rows'[n].version
    <3>1. row # NoRow
      BY <2>1, RowShape
    <3>2. QED
      BY <2>3, <2>6, <2>7, <2>8, <3>1 DEF Numbered
  <2>10. tx'[c].at = "idle" /\ \A d \in Clients \ {c} : tx'[d] = tx[d]
    BY <2>1, RowShape DEF TInv, TypeInv
  <2>11. ASSUME NEW d \in Clients, d # c, tx[d].at # "idle"
         PROVE  /\ tx[d].op = "create" => tx[d].target # m
                /\ tx[d].op = "update" => rows'[tx[d].target].version = rows[tx[d].target].version
    <3>1. tx[d].op = "create" => tx[d].target # m
      BY <2>1, <2>11 DEF Numbered
    <3>2. CASE tx[d].op = "update" /\ tx[d].target = m
      <4>1. rows[m] \in Rows /\ rows[m] # NoRow
        BY <2>11, <3>2, RowShape DEF TInv, Working
      <4>2. tx[c].op = "update"
        BY <2>1, <4>1 DEF Numbered
      <4>3. tx[c].mine.version = rows[m].version
        BY <2>1, <4>2 DEF Numbered
      <4>4. QED
        BY <2>3, <2>5, <3>1, <3>2, <4>3
    <3>3. CASE tx[d].op = "update" /\ tx[d].target # m
      BY <2>3, <2>11, <3>1, <3>3 DEF TInv, Working
    <3>4. QED
      BY <3>1, <3>2, <3>3
  <2>12. \A d \in Clients : tx'[d].at # "idle" =>
            /\ tx'[d].op = "create" =>
                  /\ rows'[tx'[d].target] = NoRow /\ tx'[d].mine.version = 1
                  /\ \A e \in Clients \ {d} : tx'[e].at # "idle" => tx'[e].target # tx'[d].target
            /\ tx'[d].op = "update" => tx'[d].mine.version = rows'[tx'[d].target].version
            /\ \A i \in DOMAIN tx'[d].log :
                  ~tx'[d].log[i].outdated /\ tx'[d].log[i].version = tx'[d].mine.version
    BY <2>3, <2>10, <2>11 DEF Numbered, TInv, Working
  <2>13. QED
    BY <2>9, <2>12 DEF Numbered
<1>9. ASSUME NEW m \in MemoryIds, NEW f \in FactNames, Correct(m, f)
      PROVE  Numbered'
  <2>1. PICK row \in Rows, version \in Versions :
           /\ Quiet /\ rows[m] \in Rows
           /\ row.explained = rows[m].explained /\ row.version = rows[m].version + 1
           /\ row.verifiedOn # Never
           /\ version.outdated /\ version.version = rows[m].version
           /\ rows' = [rows EXCEPT ![m] = row]
           /\ history' = [history EXCEPT ![m] = Append(@, version)]
           /\ ever' = [ever EXCEPT ![m] = @ \cup {[fact |-> f, by |-> "user"]}]
           /\ UNCHANGED <<tx, today, alone, sound>>
    BY <1>9, CorrectEffect
  <2> DEFINE old == history[m]
             all == Append(old, version)
  <2>2. old \in Seq(Versions) /\ rows[m] # NoRow /\ row # NoRow /\ rows[m].version \in Int
    BY <2>1, RowShape DEF TInv, TypeInv, Rows
  <2>3. /\ rows[m].version = 1 + Cardinality(OutdatedAt(old))
        /\ \A i \in DOMAIN old : old[i].version <= rows[m].version
    BY <2>2 DEF Numbered
  <2>4. /\ history'[m] = all /\ \A n \in MemoryIds \ {m} : history'[n] = history[n]
        /\ rows'[m] = row /\ \A n \in MemoryIds \ {m} : rows'[n] = rows[n]
    BY <2>1 DEF TInv, TypeInv
  <2> HIDE DEF old
  <2>5. /\ Cardinality(OutdatedAt(old)) \in Nat
        /\ Cardinality(OutdatedAt(all)) = Cardinality(OutdatedAt(old)) + 1
    BY <2>1, <2>2, OutdatedAppend
  <2>6. /\ Len(old) \in Nat /\ DOMAIN old = 1..Len(old)
        /\ DOMAIN all = 1..(Len(old) + 1)
        /\ \A i \in 1..Len(old) : all[i] = old[i]
        /\ all[Len(old) + 1] = version
    BY <2>2, AppendProperties
  <2> HIDE DEF all
  <2>7. \A i \in DOMAIN all : all[i].version <= row.version
    <3>1. \A i \in DOMAIN old : old[i] \in Versions
      BY <2>2, <2>6, ElementOfSeq
    <3>2. \A v \in Versions : v.version \in Int
      BY MemoryAssumption DEF Versions
    <3>3. \A i \in DOMAIN old : old[i].version \in Int
      BY <3>1, <3>2
    <3>4. QED
      BY <2>1, <2>2, <2>3, <2>6, <3>3
  <2>8. row.version = 1 + Cardinality(OutdatedAt(all))
    BY <2>1, <2>3, <2>5
  <2>9. \A n \in MemoryIds :
           /\ rows'[n] = NoRow => history'[n] = <<>>
           /\ rows'[n] # NoRow =>
                 /\ rows'[n].version = 1 + Cardinality(OutdatedAt(history'[n]))
                 /\ \A i \in DOMAIN history'[n] : history'[n][i].version <= rows'[n].version
    BY <2>2, <2>4, <2>7, <2>8 DEF Numbered
  <2>10. \A c \in Clients : tx'[c].at = "idle"
    BY <2>1 DEF Quiet
  <2>11. QED
    BY <2>9, <2>10 DEF Numbered
<1>10. ASSUME NEW m \in MemoryIds, Decay(m)
       PROVE  Numbered'
  <2>1. PICK row \in Rows :
           /\ Quiet /\ rows[m] \in Rows
           /\ row.fact = rows[m].fact /\ row.explained = rows[m].explained
           /\ row.version = rows[m].version /\ row.verifiedOn = rows[m].verifiedOn
           /\ row.confidence <= rows[m].confidence
           /\ rows' = [rows EXCEPT ![m] = row]
           /\ UNCHANGED <<history, tx, today, alone, sound, ever>>
    BY <1>10, DecayEffect
  <2>2. rows'[m] = row /\ \A n \in MemoryIds \ {m} : rows'[n] = rows[n]
    BY <2>1 DEF TInv, TypeInv
  <2>3. rows[m] # NoRow /\ row # NoRow
    BY <2>1, RowShape
  <2>4. QED
    BY <2>1, <2>2, <2>3 DEF Numbered, Quiet
<1>11. CASE DayPasses \/ UNCHANGED vars
  BY <1>11 DEF DayPasses, vars, Numbered
<1>12. QED
  BY <1>2, <1>3, <1>4, <1>5, <1>6, <1>7, <1>8, <1>9, <1>10, <1>11 DEF Next, Close, RequestStep

\* The version of a memory counts the corrections of its user, and no version row
\* is ahead of it, however closings overlap (intelligence/engine.py,
\* apply_correction; intelligence/store.py, record_version).
THEOREM VersionsCount == Spec => []VersionCountsCorrections
<1>1. Init => Numbered
  BY DEF Init, Numbered, Idle
<1>2. TInv /\ Numbered /\ [Next]_vars => Numbered'
  BY NumberedStep
<1>3. Numbered => VersionCountsCorrections
  BY DEF Numbered, VersionCountsCorrections, OutdatedAt, Present
<1>4. QED
  BY <1>1, <1>2, <1>3, SpecTypes, PTL DEF Spec

-----------------------------------------------------------------------------
(* The confidence of a statement *)

\* Where requests run one after the other, the row a transaction works on is the
\* one it has read, so that a commit leaves the whole row as the session has it.
Fitting ==
    /\ sound => \A m \in MemoryIds :
          rows[m] # NoRow /\ rows[m].verifiedOn = Never => rows[m].confidence <= Tier[rows[m].fact]
    /\ \A c \in Clients : tx[c].at # "idle" =>
          /\ \A d \in Clients \ {c} : tx[d].at = "idle"
          /\ tx[c].op = "update" => rows[tx[c].target] = tx[c].read
          /\ tx[c].op = "update" /\ tx[c].at # "found" =>
                \A column \in Columns \ tx[c].set : tx[c].mine[column] = tx[c].read[column]
          /\ sound /\ tx[c].at = "stamped" =>
                tx[c].mine.verifiedOn = Never /\ tx[c].mine.confidence = Tier[tx[c].mine.fact]

FittingAlone == alone => Fitting

LEMMA FittingStep ==
    ASSUME TInv, FittingAlone, [Next]_vars, \A f \in FactNames : Minimum <= Tier[f]
    PROVE  FittingAlone'
<1>1. alone' = alone
  BY DEF Next, vars, Close, RequestStep, CreateMemory, FindMemory, UpdateMemory, Assess,
         AssessRaises, Commit, Abandon, Proceeds, Correct, Decay, DayPasses
<1>2. SUFFICES ASSUME alone PROVE Fitting'
  BY <1>1 DEF FittingAlone
<1>3. Fitting
  BY <1>2 DEF FittingAlone
<1>4. ASSUME NEW c \in Clients, NEW t \in Transactions, Proceeds(c, t),
             \A d \in Clients \ {c} : tx[d].at = "idle",
             t.at # "idle" /\ t.op = "update" => rows[t.target] = t.read,
             t.at \notin {"idle", "found"} /\ t.op = "update" =>
                \A column \in Columns \ t.set : t.mine[column] = t.read[column],
             sound /\ t.at = "stamped" =>
                t.mine.verifiedOn = Never /\ t.mine.confidence = Tier[t.mine.fact]
      PROVE  Fitting'
  <2>1. /\ tx' = [tx EXCEPT ![c] = t]
        /\ UNCHANGED <<rows, sound>>
    BY <1>4 DEF Proceeds
  <2>2. tx'[c] = t /\ \A d \in Clients \ {c} : tx'[d] = tx[d]
    BY <2>1 DEF TInv, TypeInv
  <2>3. \A m \in MemoryIds : sound' /\ rows'[m] # NoRow /\ rows'[m].verifiedOn = Never =>
           rows'[m].confidence <= Tier[rows'[m].fact]
    BY <1>3, <2>1 DEF Fitting
  <2>4. QED
    BY <1>4, <2>1, <2>2, <2>3 DEF Fitting
<1>5. ASSUME NEW c \in Clients, tx[c].at # "idle"
      PROVE  \A d \in Clients \ {c} : tx[d].at = "idle"
  BY <1>3, <1>5 DEF Fitting
<1>6. ASSUME NEW c \in Clients, NEW page \in (SUBSET FactNames) \ {{}}, CreateMemory(c, page)
      PROVE  Fitting'
  <2>1. \A d \in Clients \ {c} : tx[d].at = "idle"
    BY <1>2, <1>6 DEF CreateMemory, May
  <2>2. PICK t \in Transactions :
           /\ Proceeds(c, t)
           /\ t.at = "written" /\ t.op = "create" /\ t.log = <<>>
           /\ t.target \in MemoryIds /\ rows[t.target] = NoRow
           /\ \A d \in Clients : tx[d].target # t.target
           /\ t.mine \in Rows /\ t.mine.version = 1
    BY <1>6, CreateEffect
  <2>3. QED
    BY <1>4, <2>1, <2>2
<1>7. ASSUME NEW c \in Clients, NEW page \in (SUBSET FactNames) \ {{}}, FindMemory(c, page)
      PROVE  Fitting'
  <2>1. \A d \in Clients \ {c} : tx[d].at = "idle"
    BY <1>2, <1>7 DEF FindMemory, May
  <2>2. PICK t \in Transactions :
           /\ Proceeds(c, t)
           /\ t.at = "found" /\ t.op = "update" /\ t.log = <<>>
           /\ t.target \in MemoryIds /\ t.read = rows[t.target] /\ t.read \in Rows
           /\ t.mine \in Rows
           /\ \A column \in Columns \ {"fact", "key"} : t.mine[column] = t.read[column]
    BY <1>7, FindEffect
  <2>3. QED
    BY <1>4, <2>1, <2>2
<1>8. ASSUME NEW c \in Clients, UpdateMemory(c)
      PROVE  Fitting'
  <2>1. tx[c].at = "found" /\ tx[c].op = "update"
    BY <1>8 DEF UpdateMemory, TInv, Working
  <2>2. PICK t \in Transactions :
           /\ Proceeds(c, t)
           /\ t.at = "written" /\ t.op = "update" /\ t.log = tx[c].log
           /\ t.target = tx[c].target /\ t.read = tx[c].read
           /\ t.mine \in Rows
           /\ \A column \in Columns \ {"updatedOn"} : t.mine[column] = tx[c].mine[column]
           /\ \A column \in Columns \ t.set : t.mine[column] = t.read[column]
    BY <1>8, UpdateEffect
  <2>3. rows[t.target] = t.read
    BY <1>3, <2>1, <2>2 DEF Fitting
  <2>4. QED
    BY <1>4, <1>5, <2>1, <2>2, <2>3
<1>9. ASSUME NEW c \in Clients, Assess(c)
      PROVE  Fitting'
  <2>1. tx[c].at = "written" /\ tx[c].mine \in Rows
    BY <1>9 DEF Assess, TInv, Working
  <2>2. PICK t \in Transactions :
           /\ Proceeds(c, t)
           /\ t.at = "stamped" /\ t.op = tx[c].op
           /\ t.target = tx[c].target /\ t.read = tx[c].read
           /\ t.mine = Stamped(tx[c].mine)
           /\ t.log = <<VersionRow(t.mine, t.op, FALSE)>>
           /\ \A column \in Columns \ t.set :
                 column \notin tx[c].set /\ t.mine[column] = tx[c].mine[column]
    BY <1>9, AssessEffect
  <2>3. t.op = "update" => rows[t.target] = t.read
    BY <1>3, <2>1, <2>2 DEF Fitting
  <2>4. t.op = "update" => \A column \in Columns \ t.set : t.mine[column] = t.read[column]
    <3>1. /\ t.op = tx[c].op /\ t.read = tx[c].read
          /\ \A column \in Columns \ t.set :
                column \notin tx[c].set /\ t.mine[column] = tx[c].mine[column]
      BY <2>2
    <3>2. tx[c].op = "update" =>
             \A column \in Columns \ tx[c].set : tx[c].mine[column] = tx[c].read[column]
      BY <1>3, <2>1 DEF Fitting
    <3>3. QED
      BY <3>1, <3>2
  <2>5. tx[c].mine.fact \in FactNames
    BY <2>1 DEF Rows
  <2>6. t.mine.verifiedOn = Never /\ t.mine.confidence = Tier[t.mine.fact]
    <3> DEFINE old == tx[c].mine
               row == Stamped(old)
    <3>1. Minimum <= Tier[old.fact]
      BY <2>5
    <3>2. row.fact = old.fact /\ row.verifiedOn = Never /\ row.confidence = Tier[old.fact]
      BY <2>1, <3>1, StampedRow DEF TInv
    <3> HIDE DEF row, old
    <3>3. t.mine = row
      BY <2>2 DEF row, old
    <3>4. QED
      BY <3>2, <3>3
  <2>7. Proceeds(c, t) /\ t.at = "stamped"
    BY <2>2
  <2>8. QED
    BY <1>4, <1>5, <2>1, <2>3, <2>4, <2>6, <2>7
<1>10. ASSUME NEW c \in Clients, AssessRaises(c)
       PROVE  Fitting'
  <2>1. tx[c].at = "written"
    BY <1>10 DEF AssessRaises
  <2>2. PICK t \in Transactions :
           /\ Proceeds(c, t) /\ ~sound
           /\ t.at = "stamped" /\ t.op = tx[c].op /\ t.log = tx[c].log /\ t.set = tx[c].set
           /\ t.target = tx[c].target /\ t.read = tx[c].read /\ t.mine = tx[c].mine
    BY <1>10, RaisesEffect
  <2>3. t.op = "update" => rows[t.target] = t.read
    BY <1>3, <2>1, <2>2 DEF Fitting
  <2>4. t.op = "update" => \A column \in Columns \ t.set : t.mine[column] = t.read[column]
    BY <1>3, <2>1, <2>2 DEF Fitting
  <2>5. QED
    BY <1>4, <1>5, <2>1, <2>2, <2>3, <2>4
<1>11. ASSUME NEW c \in Clients, Abandon(c)
       PROVE  Fitting'
  <2>1. Proceeds(c, Idle) /\ tx[c].at # "idle"
    BY <1>11 DEF Abandon
  <2>2. QED
    BY <1>4, <1>5, <2>1, RowShape
<1>12. ASSUME NEW c \in Clients, Commit(c)
       PROVE  Fitting'
  <2>1. PICK m \in MemoryIds, row \in Rows :
           /\ m = tx[c].target /\ row = Committed(tx[c])
           /\ tx[c].at = "stamped" /\ tx[c].op \in {"create", "update"}
           /\ tx[c].mine \in Rows
           /\ tx[c].op = "update" => rows[m] \in Rows
           /\ tx[c].log \in Seq(Versions)
           /\ rows' = [rows EXCEPT ![m] = row]
           /\ history' = [history EXCEPT ![m] = @ \o tx[c].log]
           /\ ever' = [ever EXCEPT ![m] = @ \cup {[fact |-> tx[c].mine.fact, by |-> "diary"]}]
           /\ tx' = [tx EXCEPT ![c] = Idle]
           /\ UNCHANGED <<today, alone, sound>>
    BY <1>12, CommitEffect
  <2>2. rows'[m] = row /\ \A n \in MemoryIds \ {m} : rows'[n] = rows[n]
    BY <2>1 DEF TInv, TypeInv
  <2>3. \A d \in Clients : tx'[d].at = "idle"
    BY <1>5, <2>1, RowShape DEF TInv, TypeInv
  <2>4. \A column \in Columns : row[column] = tx[c].mine[column]
    <3>1. CASE tx[c].op = "create"
      BY <2>1, <3>1, CommittedRow
    <3>2. CASE tx[c].op = "update"
      <4>1. rows[m] = tx[c].read
            /\ \A column \in Columns \ tx[c].set : tx[c].mine[column] = tx[c].read[column]
        BY <1>3, <2>1, <3>2 DEF Fitting
      <4>2. \A column \in Columns :
               row[column] = IF column \in tx[c].set THEN tx[c].mine[column]
                             ELSE rows[m][column]
        BY <2>1, <3>2, CommittedRow
      <4>3. QED
        BY <4>1, <4>2
    <3>3. QED
      BY <2>1, <3>1, <3>2
  <2>5. /\ row["fact"] = tx[c].mine["fact"] /\ row["verifiedOn"] = tx[c].mine["verifiedOn"]
        /\ row["confidence"] = tx[c].mine["confidence"]
    BY <2>4 DEF Columns
  <2>6. sound => row.confidence = Tier[row.fact]
    BY <1>3, <2>1, <2>5 DEF Fitting
  <2>7. row.fact \in FactNames /\ Tier[row.fact] \in Int
    BY MemoryAssumption DEF Rows
  <2>8. sound => row.confidence <= Tier[row.fact]
    BY <2>6, <2>7
  <2>9. QED
    BY <1>3, <2>1, <2>2, <2>3, <2>8 DEF Fitting
<1>13. ASSUME NEW m \in MemoryIds, NEW f \in FactNames, Correct(m, f)
       PROVE  Fitting'
  <2>1. PICK row \in Rows, version \in Versions :
           /\ Quiet /\ rows[m] \in Rows
           /\ row.explained = rows[m].explained /\ row.version = rows[m].version + 1
           /\ row.verifiedOn # Never
           /\ version.outdated /\ version.version = rows[m].version
           /\ rows' = [rows EXCEPT ![m] = row]
           /\ history' = [history EXCEPT ![m] = Append(@, version)]
           /\ ever' = [ever EXCEPT ![m] = @ \cup {[fact |-> f, by |-> "user"]}]
           /\ UNCHANGED <<tx, today, alone, sound>>
    BY <1>13, CorrectEffect
  <2>2. rows'[m] = row /\ \A n \in MemoryIds \ {m} : rows'[n] = rows[n]
    BY <2>1 DEF TInv, TypeInv
  <2>3. \A c \in Clients : tx'[c].at = "idle"
    BY <2>1 DEF Quiet
  <2>4. row.verifiedOn # Never /\ sound' = sound
    BY <2>1
  <2>5. QED
    BY <1>3, <2>2, <2>3, <2>4 DEF Fitting
<1>14. ASSUME NEW m \in MemoryIds, Decay(m)
       PROVE  Fitting'
  <2>1. PICK row \in Rows :
           /\ Quiet /\ rows[m] \in Rows
           /\ row.fact = rows[m].fact /\ row.explained = rows[m].explained
           /\ row.version = rows[m].version /\ row.verifiedOn = rows[m].verifiedOn
           /\ row.confidence <= rows[m].confidence
           /\ rows' = [rows EXCEPT ![m] = row]
           /\ UNCHANGED <<history, tx, today, alone, sound, ever>>
    BY <1>14, DecayEffect
  <2>2. rows'[m] = row /\ \A n \in MemoryIds \ {m} : rows'[n] = rows[n]
    BY <2>1 DEF TInv, TypeInv
  <2>3. \A c \in Clients : tx'[c].at = "idle"
    BY <2>1 DEF Quiet
  <2>4. sound /\ row.verifiedOn = Never => rows[m].confidence <= Tier[row.fact]
    BY <1>3, <2>1, RowShape DEF Fitting
  <2>5. /\ row.fact \in FactNames /\ Tier[row.fact] \in Int
        /\ row.confidence \in Int /\ rows[m].confidence \in Int
        /\ row.confidence <= rows[m].confidence
    BY <2>1, MemoryAssumption DEF Rows
  <2>6. sound /\ row.verifiedOn = Never => row.confidence <= Tier[row.fact]
    BY <2>4, <2>5
  <2>7. sound' = sound
    BY <2>1
  <2>8. QED
    BY <1>3, <2>2, <2>3, <2>6, <2>7 DEF Fitting
<1>15. CASE DayPasses \/ UNCHANGED vars
  BY <1>3, <1>15 DEF DayPasses, vars, Fitting
<1>16. QED
  BY <1>6, <1>7, <1>8, <1>9, <1>10, <1>11, <1>12, <1>13, <1>14, <1>15
     DEF Next, Close, RequestStep

\* Where no wording is worth less than minimum_confidence and requests do not
\* overlap, a memory that nobody has verified is trusted no more than its wording
\* deserves (intelligence/engine.py, assess and apply_decay).
THEOREM ConfidenceFits ==
    ASSUME \A f \in FactNames : Minimum <= Tier[f]
    PROVE  Spec => []ConfidenceFitsStatement
<1>1. Init => FittingAlone
  BY DEF Init, FittingAlone, Fitting, Idle
<1>2. TInv /\ FittingAlone /\ [Next]_vars => FittingAlone'
  BY FittingStep
<1>3. FittingAlone => ConfidenceFitsStatement
  BY DEF FittingAlone, Fitting, ConfidenceFitsStatement, Present
<1>4. QED
  BY <1>1, <1>2, <1>3, SpecTypes, PTL DEF Spec
=============================================================================
