------------------------ MODULE SoulBookStore_proofs ------------------------
(***************************************************************************)
(* Proofs about the library, for every set of clients, requests and rows,  *)
(* and every number of requests running at the same time.                  *)
(*                                                                         *)
(* Every step of a request does one of four things to the rows that it and *)
(* the other requests have written (lemma StepKinds); that a row has one   *)
(* writer and that a deletion is final follows from these four.            *)
(*                                                                         *)
(* For the rest, what a request does next matters.  What it has still to   *)
(* do is always a script, a list of statements each of which was prepared  *)
(* by the one before it (Scripted), and each statement reads, writes,      *)
(* stops the request or commits it (lemma StatementKinds).  The ribbon and *)
(* the edits of the user are followed along these scripts, and so are the  *)
(* locks, which every request asks for in the same order.                  *)
(***************************************************************************)
EXTENDS SoulBookStore, SequenceTheorems, FiniteSetTheorems, TLAPS

Fields == {"status", "request", "todo", "at", "read", "dirty", "number", "ribbon", "known"}

\* What each client's request is, as far as the proofs need it.
Shape ==
    /\ DOMAIN tx = Clients
    /\ \A c \in Clients :
          /\ DOMAIN tx[c] = Fields
          /\ tx[c].status = "running" => tx[c].request \in Requests
          /\ tx[c].ribbon \in Ribbons \cup {Nowhere}

\* A row is written by at most one transaction that has not ended.
OneWriter ==
    \A c, d \in Clients : c # d => DOMAIN tx[c].dirty \cap DOMAIN tx[d].dirty = {}

\* What a transaction writes into the flag of a row that exists deletes it.
NeverRestored ==
    \A c \in Clients : \A k \in DOMAIN tx[c].dirty :
        k \in DOMAIN rows /\ k \in Ids /\ "deleted" \in DOMAIN tx[c].dirty[k]
            => tx[c].dirty[k].deleted = TRUE

IInv == Shape /\ OneWriter /\ NeverRestored

-----------------------------------------------------------------------------
(* The four things a step does to what was written *)

Alone(c) == \A d \in Clients \ {c} : tx'[d] = tx[d]

Quiet(c)  == Alone(c) /\ rows' = rows /\ tx'[c].dirty = tx[c].dirty
Clears(c) == Alone(c) /\ rows' = rows /\ tx'[c].dirty = <<>>

\* A write gets the row's lock, and undeletes no row that exists.
Writes(c) ==
    /\ Alone(c) /\ rows' = rows
    /\ \E k, values :
          /\ ~LockedFor(c, k)
          /\ k \in DOMAIN rows /\ k \in Ids /\ "deleted" \in DOMAIN values => values.deleted = TRUE
          /\ tx'[c].dirty = Write(tx[c], k, values).dirty

Merges(c) ==
    /\ Alone(c) /\ rows' = [k \in Known(c) |-> Seen(c, k)]
    /\ tx'[c].dirty = <<>>

\* Writing k adds it to the rows written and leaves the others as they were.
LEMMA WriteDirty ==
    ASSUME NEW t, DOMAIN t = Fields, NEW k, NEW values
    PROVE  /\ DOMAIN Write(t, k, values) = Fields
           /\ \A f \in Fields \ {"dirty"} : Write(t, k, values)[f] = t[f]
           /\ DOMAIN Write(t, k, values).dirty = DOMAIN t.dirty \cup {k}
           /\ \A j \in DOMAIN t.dirty \ {k} : Write(t, k, values).dirty[j] = t.dirty[j]
           /\ Write(t, k, values).dirty[k] = IF k \in DOMAIN t.dirty THEN Over(values, t.dirty[k]) ELSE values
<1> DEFINE new == IF k \in DOMAIN t.dirty THEN Over(values, t.dirty[k]) ELSE values
           w   == [x \in {k} \cup DOMAIN t.dirty |-> IF x \in {k} THEN new ELSE t.dirty[x]]
<1>1. Over([x \in {k} |-> new], t.dirty) = w
  BY DEF Over
<1>2. Write(t, k, values) = [t EXCEPT !.dirty = w]
  BY <1>1 DEF Write
<1>3. Write(t, k, values).dirty = w
  BY <1>2 DEF Fields
<1> QED
  BY <1>2, <1>3 DEF Fields

\* Going on leaves everything but the list of statements as the step made it.
LEMMA GoesOn ==
    ASSUME Shape, NEW c \in Clients, NEW t, DOMAIN t = Fields, Goes(c, t)
    PROVE  /\ DOMAIN tx' = Clients /\ Alone(c)
           /\ DOMAIN tx'[c] = Fields
           /\ \A f \in Fields \ {"todo"} : tx'[c][f] = t[f]
BY DEF Shape, Goes, Alone, Fields

\* A step of c keeps the shape if it keeps the request and the ribbon's kind.
LEMMA ShapeKept ==
    ASSUME Shape, NEW c \in Clients, DOMAIN tx' = Clients, Alone(c), DOMAIN tx'[c] = Fields,
           tx'[c].status = "running" => tx'[c].request \in Requests,
           tx'[c].ribbon \in Ribbons \cup {Nowhere}
    PROVE  Shape'
BY DEF Shape, Alone

\* A request that ends leaves nothing written.
LEMMA EndsClears ==
    ASSUME Shape, NEW c \in Clients, NEW status, status # "running", Ends(c, status)
    PROVE  Shape' /\ Clears(c)
<1>1. /\ DOMAIN tx' = Clients /\ Alone(c) /\ rows' = rows
      /\ DOMAIN tx'[c] = Fields /\ tx'[c].status = status
      /\ tx'[c].ribbon = Nowhere /\ tx'[c].dirty = <<>>
  BY DEF Shape, Ends, Alone, Unsent, Fields
<1> QED
  BY <1>1, ShapeKept DEF Clears

\* An UPDATE writes under the row's lock, or nothing at all.
LEMMA UpdateWrites ==
    ASSUME Shape, NEW c \in Clients, Running(c), NEW k, NEW values, Update(c, k, values),
           k \in DOMAIN rows /\ k \in Ids /\ "deleted" \in DOMAIN values => values.deleted = TRUE
    PROVE  Shape' /\ (Quiet(c) \/ Writes(c))
<1>0. DOMAIN tx[c] = Fields /\ tx[c].request \in Requests /\ tx[c].ribbon \in Ribbons \cup {Nowhere}
  BY DEF Shape, Running
<1>1. CASE DOMAIN values = {}
  <2>1. Goes(c, tx[c]) /\ rows' = rows
    BY <1>1 DEF Update
  <2> QED
    BY <1>0, <2>1, GoesOn, ShapeKept DEF Quiet, Fields
<1>2. CASE DOMAIN values # {}
  <2>1. ~LockedFor(c, k) /\ Goes(c, Write(tx[c], k, values)) /\ rows' = rows
    BY <1>2 DEF Update
  <2>2. /\ DOMAIN Write(tx[c], k, values) = Fields
        /\ \A f \in Fields \ {"dirty"} : Write(tx[c], k, values)[f] = tx[c][f]
    BY <1>0, WriteDirty
  <2>3. /\ DOMAIN tx' = Clients /\ Alone(c) /\ DOMAIN tx'[c] = Fields
        /\ \A f \in Fields \ {"todo"} : tx'[c][f] = Write(tx[c], k, values)[f]
    BY <2>1, <2>2, GoesOn
  <2>4. Writes(c)
    BY <2>1, <2>3 DEF Writes, Fields
  <2> QED
    BY <1>0, <2>2, <2>3, <2>4, ShapeKept DEF Fields
<1> QED
  BY <1>1, <1>2

\* An INSERT writes a row nobody else knows.
LEMMA AddsWrites ==
    ASSUME Shape, NEW c \in Clients, Running(c), NEW ids, NEW row, Adds(c, ids, row)
    PROVE  Shape' /\ Writes(c)
<1>0. DOMAIN tx[c] = Fields /\ tx[c].request \in Requests /\ tx[c].ribbon \in Ribbons \cup {Nowhere}
  BY DEF Shape, Running
<1> DEFINE k == CHOOSE j \in Spare(ids) : TRUE
<1>1. k \in Spare(ids)
  BY DEF Adds
<1>2. k \notin DOMAIN rows /\ ~LockedFor(c, k)
  BY <1>1 DEF Spare, LockedFor
<1>3. Goes(c, Write(tx[c], k, row)) /\ rows' = rows
  BY DEF Adds
<1> HIDE DEF k
<1>4. /\ DOMAIN Write(tx[c], k, row) = Fields
      /\ \A f \in Fields \ {"dirty"} : Write(tx[c], k, row)[f] = tx[c][f]
  BY <1>0, WriteDirty
<1>5. /\ DOMAIN tx' = Clients /\ Alone(c) /\ DOMAIN tx'[c] = Fields
      /\ \A f \in Fields \ {"todo"} : tx'[c][f] = Write(tx[c], k, row)[f]
  BY <1>3, <1>4, GoesOn
<1>6. Writes(c)
  BY <1>2, <1>3, <1>5 DEF Writes, Fields
<1> QED
  BY <1>0, <1>4, <1>5, <1>6, ShapeKept DEF Fields

\* The values a save assigns to the deletion flag delete.
LEMMA AssignedDeletes ==
    ASSUME NEW r \in Requests, "deleted" \in DOMAIN Assigned(r)
    PROVE  Assigned(r).deleted = TRUE
<1>1. CASE "content" \in DOMAIN r.changes
  <2> DEFINE counts == [words |-> CountWords[r.changes.content]]
  <2>1. Assigned(r) = [x \in DOMAIN r.changes \cup {"words"} |-> IF x \in DOMAIN r.changes THEN r.changes[x] ELSE counts[x]]
    BY <1>1 DEF Assigned, Over
  <2>2. "deleted" \in DOMAIN r.changes
    BY <2>1
  <2> QED
    BY <2>1, <2>2, StoreAssumption
<1>2. CASE "content" \notin DOMAIN r.changes
  BY <1>2, StoreAssumption DEF Assigned
<1> QED
  BY <1>1, <1>2

\* Every step does one of the four things.
LEMMA StepKinds ==
    ASSUME Shape, NEW c \in Clients, Send(c) \/ Statement(c)
    PROVE  Shape' /\ (Quiet(c) \/ Clears(c) \/ Writes(c) \/ Merges(c))
<1> DEFINE Done == Shape' /\ (Quiet(c) \/ Clears(c) \/ Writes(c) \/ Merges(c))
<1>0. /\ DOMAIN tx[c] = Fields /\ tx[c].ribbon \in Ribbons \cup {Nowhere}
      /\ Running(c) => tx[c].request \in Requests
  BY DEF Shape, Running
\* A statement that reads and goes on.
<1>1. ASSUME Running(c), NEW t, DOMAIN t = Fields, Goes(c, t), rows' = rows,
             t.dirty = tx[c].dirty, t.request = tx[c].request, t.ribbon \in Ribbons \cup {Nowhere}
      PROVE  Done
  <2>1. /\ DOMAIN tx' = Clients /\ Alone(c) /\ DOMAIN tx'[c] = Fields
        /\ \A f \in Fields \ {"todo"} : tx'[c][f] = t[f]
    BY <1>1, GoesOn
  <2> QED
    BY <1>0, <1>1, <2>1, ShapeKept DEF Quiet, Fields
<1>2. ASSUME Send(c) PROVE Done
  <2>1. PICK r \in Requests :
          tx' = [tx EXCEPT ![c] = [Unsent EXCEPT !.status = "running", !.request = r,
                                                 !.todo = Program(r), !.at = r.at]]
    BY <1>2 DEF Send
  <2>2. /\ DOMAIN tx' = Clients /\ Alone(c) /\ rows' = rows /\ DOMAIN tx'[c] = Fields
        /\ tx'[c].request \in Requests /\ tx'[c].ribbon = Nowhere /\ tx'[c].dirty = <<>>
    BY <1>2, <2>1 DEF Send, Shape, Alone, Unsent, Fields
  <2> QED
    BY <2>2, ShapeKept DEF Clears
<1>3. ASSUME Find(c) PROVE Done
  <2>1. CASE Found(c)
    BY <1>0, <1>1, <1>3, <2>1 DEF Find, Doing, Load, Fields
  <2>2. CASE ~Found(c)
    BY <1>3, <2>2, EndsClears DEF Find
  <2> QED
    BY <2>1, <2>2
<1>4. ASSUME Try(c) PROVE Done
  <2>1. CASE Found(c)
    BY <1>0, <1>1, <1>4, <2>1 DEF Try, Doing, Load, Fields
  <2>2. CASE ~Found(c)
    BY <1>4, <2>2, EndsClears DEF Try
  <2> QED
    BY <2>1, <2>2
<1>5. ASSUME FindRibbon(c) PROVE Done
  <2>1. CASE Ribbons \cap Known(c) = {}
    BY <1>0, <1>1, <1>5, <2>1 DEF FindRibbon, Doing, Fields
  <2>2. CASE Ribbons \cap Known(c) # {}
    <3>1. PICK k \in Ribbons : Goes(c, Load([tx[c] EXCEPT !.ribbon = k], k, Seen(c, k)))
      BY <1>5, <2>2 DEF FindRibbon
    <3> QED
      BY <1>0, <1>1, <1>5, <3>1 DEF FindRibbon, Doing, Load, Fields
  <2> QED
    BY <2>1, <2>2
<1>6. ASSUME Aim(c) PROVE Done
  <2>1. CASE Ribbons \cap Known(c) = {}
    BY <1>6, <2>1, EndsClears DEF Aim
  <2>2. CASE Ribbons \cap Known(c) # {}
    <3>1. PICK k \in Ribbons : Goes(c, [tx[c] EXCEPT !.at = Seen(c, k)])
      BY <1>6, <2>2 DEF Aim
    <3> QED
      BY <1>0, <1>1, <1>6, <2>2, <3>1 DEF Aim, Doing, Fields
  <2> QED
    BY <2>1, <2>2
<1>7. ASSUME Recall(c) PROVE Done
  BY <1>0, <1>1, <1>7 DEF Recall, Doing, Fields
<1>8. ASSUME TakeNumber(c) PROVE Done
  BY <1>0, <1>1, <1>8 DEF TakeNumber, Doing, Fields
<1>9. ASSUME Save(c) PROVE Done
  <2> DEFINE values == Changed(c, Row(c), Assigned(tx[c].request))
  <2>1. Running(c) /\ (Ends(c, "null_refused") \/ Update(c, Row(c), values))
    BY <1>9 DEF Save, Stores, Doing
  <2>2. "deleted" \in DOMAIN values => values.deleted = TRUE
    BY <1>0, <2>1, AssignedDeletes DEF Changed
  <2> HIDE DEF values
  <2>3. CASE Ends(c, "null_refused")
    BY <1>0, <2>1, <2>3, EndsClears
  <2>4. CASE Update(c, Row(c), values)
    BY <2>1, <2>2, <2>4, UpdateWrites
  <2> QED
    BY <2>1, <2>3, <2>4
<1>10. ASSUME Touch(c) PROVE Done
  <2>1. DOMAIN Write(tx[c], Row(c), <<>>) = Fields
        /\ \A f \in Fields \ {"dirty"} : Write(tx[c], Row(c), <<>>)[f] = tx[c][f]
    BY <1>0, WriteDirty
  <2>2. /\ DOMAIN tx' = Clients /\ Alone(c) /\ DOMAIN tx'[c] = Fields
        /\ \A f \in Fields \ {"todo"} : tx'[c][f] = Write(tx[c], Row(c), <<>>)[f]
    BY <1>10, <2>1, GoesOn DEF Touch
  <2>3. Shape'
    BY <1>0, <1>10, <2>1, <2>2, ShapeKept DEF Touch, Doing, Fields
  <2>4. ~LockedFor(c, Row(c)) /\ rows' = rows /\ tx'[c].dirty = Write(tx[c], Row(c), <<>>).dirty
    BY <1>10, <2>2 DEF Touch, Fields
  <2>5. "deleted" \notin DOMAIN <<>>
    OBVIOUS
  <2>6. Writes(c)
    BY <2>2, <2>4, <2>5 DEF Writes
  <2> QED
    BY <2>3, <2>6
<1>11. ASSUME Upsert(c) PROVE Done
  <2> DEFINE k == Recent(Row(c))
  <2>1. CASE ~tx[c].known /\ k \in DOMAIN rows
    BY <1>11, <2>1, EndsClears DEF Upsert
  <2>2. CASE ~(~tx[c].known /\ k \in DOMAIN rows)
    <3>1. Running(c) /\ ~LockedFor(c, k) /\ Goes(c, Write(tx[c], k, <<>>)) /\ rows' = rows
      BY <1>11, <2>2 DEF Upsert, Doing
    <3> HIDE DEF k
    <3>2. DOMAIN Write(tx[c], k, <<>>) = Fields
          /\ \A f \in Fields \ {"dirty"} : Write(tx[c], k, <<>>)[f] = tx[c][f]
      BY <1>0, WriteDirty
    <3>3. /\ DOMAIN tx' = Clients /\ Alone(c) /\ DOMAIN tx'[c] = Fields
          /\ \A f \in Fields \ {"todo"} : tx'[c][f] = Write(tx[c], k, <<>>)[f]
      BY <3>1, <3>2, GoesOn
    <3>4. Shape'
      BY <1>0, <3>1, <3>2, <3>3, ShapeKept DEF Fields
    <3>5. "deleted" \notin DOMAIN <<>>
      OBVIOUS
    <3>6. Writes(c)
      BY <3>1, <3>3, <3>5 DEF Writes, Fields
    <3> QED
      BY <3>4, <3>6
  <2> QED
    BY <2>1, <2>2
<1>12. ASSUME Tie(c) PROVE Done
  <2>1. CASE tx[c].ribbon = Nowhere
    BY <1>12, <2>1, AddsWrites DEF Tie, Doing
  <2>2. CASE tx[c].ribbon # Nowhere
    <3> DEFINE values == Changed(c, tx[c].ribbon, tx[c].at)
    <3>1. Running(c) /\ Update(c, tx[c].ribbon, values)
      BY <1>12, <2>2 DEF Tie, Doing
    <3>2. tx[c].ribbon \notin Ids
      BY <1>0, <2>2, StoreAssumption
    <3> HIDE DEF values
    <3> QED
      BY <3>1, <3>2, UpdateWrites
  <2> QED
    BY <2>1, <2>2
<1>13. ASSUME Insert(c) PROVE Done
  BY <1>13, AddsWrites DEF Insert, Doing
<1>14. ASSUME Commit(c) PROVE Done
  <2>1. /\ DOMAIN tx' = Clients /\ Alone(c) /\ DOMAIN tx'[c] = Fields /\ tx'[c].status = "ok"
        /\ tx'[c].ribbon = Nowhere /\ tx'[c].dirty = <<>>
    BY <1>14 DEF Commit, Shape, Alone, Unsent, Fields
  <2>2. rows' = [k \in Known(c) |-> Seen(c, k)]
    BY <1>14 DEF Commit
  <2> QED
    BY <2>1, <2>2, ShapeKept DEF Merges
<1> QED
  BY <1>2, <1>3, <1>4, <1>5, <1>6, <1>7, <1>8, <1>9, <1>10, <1>11, <1>12, <1>13, <1>14 DEF Statement

-----------------------------------------------------------------------------
(* The invariant *)

\* Nothing is written at the start.
LEMMA InitIInv == Init => IInv
BY DEF Init, IInv, Shape, OneWriter, NeverRestored, Unsent, Fields

\* The four kinds of step keep one writer per row: a write needs the lock.
LEMMA OneWriterKept ==
    ASSUME IInv, NEW c \in Clients, Quiet(c) \/ Clears(c) \/ Writes(c) \/ Merges(c)
    PROVE  OneWriter'
<1>0. DOMAIN tx[c] = Fields
  BY DEF IInv, Shape
<1>1. CASE Quiet(c)
  BY <1>1 DEF IInv, OneWriter, Quiet, Alone
<1>2. CASE Clears(c) \/ Merges(c)
  <2>1. tx'[c].dirty = <<>> /\ Alone(c)
    BY <1>2 DEF Clears, Merges
  <2>2. DOMAIN tx'[c].dirty = {}
    BY <2>1
  <2> QED
    BY <2>1, <2>2 DEF IInv, OneWriter, Alone
<1>3. CASE Writes(c)
  <2>1. PICK k, values : ~LockedFor(c, k) /\ tx'[c].dirty = Write(tx[c], k, values).dirty
    BY <1>3 DEF Writes
  <2>2. DOMAIN tx'[c].dirty = DOMAIN tx[c].dirty \cup {k}
    BY <1>0, <2>1, WriteDirty
  <2> QED
    BY <1>3, <2>1, <2>2 DEF IInv, OneWriter, LockedFor, Writes, Alone
<1> QED
  BY <1>1, <1>2, <1>3

\* A commit makes rows exist that nobody else has written; a write deletes.
LEMMA NeverRestoredKept ==
    ASSUME IInv, NEW c \in Clients, Quiet(c) \/ Clears(c) \/ Writes(c) \/ Merges(c)
    PROVE  NeverRestored'
<1>0. DOMAIN tx[c] = Fields
  BY DEF IInv, Shape
<1>1. CASE Quiet(c)
  BY <1>1 DEF IInv, NeverRestored, Quiet, Alone
<1>2. CASE Clears(c)
  <2>1. DOMAIN tx'[c].dirty = {}
    BY <1>2 DEF Clears
  <2> QED
    BY <1>2, <2>1 DEF IInv, NeverRestored, Clears, Alone
<1>3. CASE Merges(c)
  <2>1. DOMAIN tx'[c].dirty = {} /\ DOMAIN rows' = DOMAIN rows \cup DOMAIN tx[c].dirty
    BY <1>3 DEF Merges, Known
  <2>2. \A d \in Clients \ {c} : tx'[d] = tx[d] /\ DOMAIN tx[d].dirty \cap DOMAIN tx[c].dirty = {}
    BY <1>3 DEF Merges, Alone, IInv, OneWriter
  <2> QED
    BY <2>1, <2>2 DEF IInv, NeverRestored
<1>4. CASE Writes(c)
  <2>1. PICK k, values :
          /\ k \in DOMAIN rows /\ k \in Ids /\ "deleted" \in DOMAIN values => values.deleted = TRUE
          /\ tx'[c].dirty = Write(tx[c], k, values).dirty
    BY <1>4 DEF Writes
  <2>2. /\ DOMAIN tx'[c].dirty = DOMAIN tx[c].dirty \cup {k}
        /\ \A j \in DOMAIN tx[c].dirty \ {k} : tx'[c].dirty[j] = tx[c].dirty[j]
        /\ tx'[c].dirty[k] = IF k \in DOMAIN tx[c].dirty THEN Over(values, tx[c].dirty[k]) ELSE values
    BY <1>0, <2>1, WriteDirty
  <2>3. k \in DOMAIN rows /\ k \in Ids /\ "deleted" \in DOMAIN tx'[c].dirty[k] => tx'[c].dirty[k].deleted = TRUE
    BY <2>1, <2>2 DEF Over, IInv, NeverRestored
  <2>4. rows' = rows /\ Alone(c)
    BY <1>4 DEF Writes
  <2> QED
    BY <2>2, <2>3, <2>4 DEF IInv, NeverRestored, Alone
<1> QED
  BY <1>1, <1>2, <1>3, <1>4

\* Every step keeps the shape, the one writer of each row, and deletions.
LEMMA NextIInv == IInv /\ [Next]_vars => IInv'
<1> SUFFICES ASSUME IInv, [Next]_vars PROVE IInv'
  OBVIOUS
<1>1. ASSUME NEW c \in Clients, Send(c) \/ Statement(c) PROVE IInv'
  BY <1>1, StepKinds, OneWriterKept, NeverRestoredKept DEF IInv
<1>2. CASE UNCHANGED vars
  BY <1>2 DEF vars, IInv, Shape, OneWriter, NeverRestored
<1> QED
  BY <1>1, <1>2 DEF Next

\* At any time, a row is written by at most one request that has not ended, and
\* what it is about to write over a row that exists does not undelete it.
THEOREM StoreInvariant == Spec => []IInv
BY InitIInv, NextIInv, PTL DEF Spec

-----------------------------------------------------------------------------
(* Soft deletion is final *)

\* A commit is the only step that changes the rows.
LEMMA DeletedKept == IInv /\ [Next]_vars => Deleted \subseteq Deleted'
<1> SUFFICES ASSUME IInv, [Next]_vars PROVE Deleted \subseteq Deleted'
  OBVIOUS
<1>1. CASE rows' = rows
  BY <1>1 DEF Deleted
<1>2. ASSUME NEW c \in Clients, Merges(c) PROVE Deleted \subseteq Deleted'
  <2> SUFFICES ASSUME NEW k \in Deleted PROVE k \in Deleted'
    OBVIOUS
  <2>1. k \in Ids /\ k \in DOMAIN rows /\ "deleted" \in DOMAIN rows[k] /\ rows[k].deleted
    BY DEF Deleted
  <2>2. k \in DOMAIN rows' /\ rows'[k] = Seen(c, k)
    BY <1>2, <2>1 DEF Merges, Known
  <2>3. "deleted" \in DOMAIN rows'[k] /\ rows'[k].deleted
    <3>1. CASE k \notin DOMAIN tx[c].dirty
      BY <2>1, <2>2, <3>1 DEF Seen
    <3>2. CASE k \in DOMAIN tx[c].dirty
      <4>1. rows'[k] = Over(tx[c].dirty[k], rows[k])
        BY <2>1, <2>2, <3>2 DEF Seen
      <4>2. "deleted" \in DOMAIN tx[c].dirty[k] => tx[c].dirty[k].deleted = TRUE
        BY <2>1, <3>2 DEF IInv, NeverRestored
      <4> QED
        BY <2>1, <4>1, <4>2 DEF Over
    <3> QED
      BY <3>1, <3>2
  <2> QED
    BY <2>1, <2>2, <2>3 DEF Deleted
<1>3. ASSUME NEW c \in Clients, Send(c) \/ Statement(c) PROVE rows' = rows \/ Merges(c)
  BY <1>3, StepKinds DEF IInv, Quiet, Clears, Writes
<1>4. CASE UNCHANGED vars
  BY <1>1, <1>4 DEF vars
<1> QED
  BY <1>1, <1>2, <1>3, <1>4 DEF Next

\* No interleaving of requests brings a deleted book, chapter or page back, even
\* if one of them read the row before it was deleted and writes it afterwards.
THEOREM DeletionIsFinal == Spec => DeletedStaysDeleted
<1>1. IInv /\ [Next]_vars => [Deleted \subseteq Deleted']_vars
  BY DeletedKept
<1> QED
  BY <1>1, StoreInvariant, PTL DEF Spec, DeletedStaysDeleted

-----------------------------------------------------------------------------
(* The list of statements of a request *)

Statements ==
    [do : {"find", "save", "recall", "touch", "upsert", "number", "insert", "ribbon", "tie",
           "aim", "try"},
     kind : Kinds]

\* Statement s may come right after `before`.
Prepares(before, s) ==
    /\ s.do \in {"save", "recall"} => before = Do("find", s.kind)
    /\ s.do = "touch" => before = Do("recall", s.kind)
    /\ s.do = "upsert" => before = Do("touch", s.kind)
    /\ s.do = "ribbon" => before = Do("find", "page") /\ s.kind = "page"
    /\ s.do = "tie" => before = Do("ribbon", "page") /\ s.kind = "page"
    /\ s.do = "insert" /\ s.kind # "book" => before = Do("number", s.kind)

\* Statement s may be one of request r.
Suits(r, s) ==
    /\ IF r.op = "reopen" THEN s.do \in {"aim", "try", "find"} ELSE s.do \notin {"aim", "try"}
    /\ s.do = "save" => r.op \in {"edit", "close"} /\ s.kind = r.kind
    /\ s.do \in {"recall", "touch", "upsert"} => s.kind # "page"

\* A list of statements that the rest of request r may be.
Script(r, todo) ==
    /\ todo \in Seq(Statements)
    /\ \A j \in 1..Len(todo) : Suits(r, todo[j])
    /\ \A j \in 2..Len(todo) : Prepares(todo[j - 1], todo[j])
    /\ \A j \in 3..Len(todo) : todo[j].do # "save"
    /\ \A i, j \in 1..Len(todo) : todo[i].do = "ribbon" /\ todo[j].do = "ribbon" => i = j

\* A script goes on with another one, if that begins anew, saves nothing and does
\* not look for the ribbon a second time.
LEMMA Joined ==
    ASSUME NEW r, NEW s, Script(r, s), NEW t, Script(r, t), Len(t) >= 1, t[1].do = "find",
           \A j \in 1..Len(t) : t[j].do # "save",
           \A i \in 1..Len(s), j \in 1..Len(t) : ~(s[i].do = "ribbon" /\ t[j].do = "ribbon")
    PROVE  Script(r, s \o t)
<1> DEFINE u == s \o t
           m == Len(s)
           n == Len(t)
<1>1. s \in Seq(Statements) /\ t \in Seq(Statements) /\ m \in Nat /\ n \in Nat
  BY LenProperties DEF Script
<1>2. /\ u \in Seq(Statements) /\ Len(u) = m + n
      /\ \A j \in 1..Len(u) : u[j] = IF j <= m THEN s[j] ELSE t[j - m]
  BY <1>1, ConcatProperties
<1> HIDE DEF u
<1>3. \A j \in 1..Len(u) : \/ j \in 1..m /\ u[j] = s[j]
                           \/ j - m \in 1..n /\ u[j] = t[j - m] /\ ~(j \in 1..m)
  BY <1>1, <1>2
<1> HIDE DEF m, n
<1>4. \A j \in 1..Len(u) : Suits(r, u[j])
  BY <1>3 DEF Script, m, n
<1>5. \A j \in 3..Len(u) : u[j].do # "save"
  <2> TAKE j \in 3..Len(u)
  <2>1. j \in 1..Len(u)
    BY <1>1, <1>2
  <2>2. CASE j \in 1..m /\ u[j] = s[j]
    BY <1>1, <2>1, <2>2 DEF Script, m
  <2>3. CASE j - m \in 1..n /\ u[j] = t[j - m]
    BY <2>3 DEF n
  <2> QED
    BY <1>3, <2>1, <2>2, <2>3
<1>6. \A j \in 2..Len(u) : Prepares(u[j - 1], u[j])
  <2> TAKE j \in 2..Len(u)
  <2>1. j \in 1..Len(u) /\ j - 1 \in 1..Len(u)
    BY <1>1, <1>2
  <2>2. CASE j \in 1..m
    <3>1. j \in 2..m /\ u[j] = s[j] /\ u[j - 1] = s[j - 1]
      BY <1>1, <1>2, <2>1, <2>2
    <3> QED
      BY <3>1 DEF Script, m
  <2>3. CASE j = m + 1
    <3>1. u[j] = t[1]
      BY <1>1, <1>2, <2>1, <2>3
    <3> QED
      BY <3>1 DEF Prepares
  <2>4. CASE j > m + 1
    <3>1. j - m \in 2..n /\ u[j] = t[j - m] /\ u[j - 1] = t[(j - m) - 1]
      BY <1>1, <1>2, <2>1, <2>4
    <3> QED
      BY <3>1 DEF Script, n
  <2> QED
    BY <1>1, <2>2, <2>3, <2>4
<1>7. ASSUME NEW i \in 1..Len(u), NEW j \in 1..Len(u), u[i].do = "ribbon", u[j].do = "ribbon"
      PROVE  i = j
  <2>1. CASE i \in 1..m /\ u[i] = s[i]
    <3>1. j \in 1..m /\ u[j] = s[j]
      BY <1>3, <1>7, <2>1 DEF m, n
    <3> QED
      BY <1>7, <2>1, <3>1 DEF Script, m
  <2>2. CASE i - m \in 1..n /\ u[i] = t[i - m]
    <3>1. j - m \in 1..n /\ u[j] = t[j - m]
      BY <1>3, <1>7, <2>2 DEF m, n
    <3>2. i - m = j - m
      BY <1>7, <2>2, <3>1 DEF Script, n
    <3> QED
      BY <1>1, <3>2
  <2> QED
    BY <1>3, <2>1, <2>2
<1> QED
  BY <1>2, <1>4, <1>5, <1>6, <1>7 DEF Script, u

\* Opening a row is a script of the requests that open one.
LEMMA OpensScript ==
    ASSUME NEW r, r.op \in {"open", "close"}, NEW kind \in {"book", "chapter"}
    PROVE  /\ Script(r, Opens(kind)) /\ Len(Opens(kind)) = 4 /\ Opens(kind)[1].do = "find"
           /\ \A j \in 1..Len(Opens(kind)) : Opens(kind)[j].do \notin {"save", "ribbon"}
BY DEF Opens, Script, Suits, Prepares, Statements, Do, Kinds

\* What a request begins with.
Begins(r, todo) ==
    /\ Script(r, todo) /\ Len(todo) >= 1
    /\ todo[1].do \in {"find", "aim", "insert"}
    /\ todo[1].do = "insert" => todo[1].kind = "book"
    /\ r.op \in {"edit", "close"} /\ DOMAIN r.changes # {} =>
          Len(todo) >= 2 /\ todo[1] = Do("find", r.kind) /\ todo[2] = Do("save", r.kind)

\* Closing a page is a script: the save, the bookmark, the two openings.
LEMMA CloseBegins ==
    ASSUME NEW r \in Requests, r.op = "close"
    PROVE  Begins(r, Program(r))
<1> DEFINE saves == IF DOMAIN r.changes = {} THEN <<>> ELSE <<Do("find", "page"), Do("save", "page")>>
           ties  == <<Do("find", "page"), Do("ribbon", "page"), Do("tie", "page")>>
           ends  == <<Do("find", "page")>>
<1>1. r.kind = "page"
  BY StoreAssumption
<1>2. Program(r) = saves \o ties \o Opens("book") \o Opens("chapter") \o ends
  BY DEF Program
<1>3. /\ Script(r, saves)
      /\ \A j \in 1..Len(saves) : saves[j].do # "ribbon"
      /\ \/ DOMAIN r.changes = {} /\ saves = <<>> /\ Len(saves) = 0
         \/ Len(saves) = 2 /\ saves[1] = Do("find", "page") /\ saves[2] = Do("save", "page")
  <2>1. CASE DOMAIN r.changes = {}
    BY <1>1, <2>1 DEF Script
  <2>2. CASE DOMAIN r.changes # {}
    <3> DEFINE two == <<Do("find", "page"), Do("save", "page")>>
    <3>1. Script(r, two) /\ Len(two) = 2 /\ two[1] = Do("find", "page") /\ two[2] = Do("save", "page")
      BY <1>1 DEF Script, Suits, Prepares, Statements, Do, Kinds
    <3>2. \A j \in 1..Len(two) : two[j].do # "ribbon"
      BY DEF Do
    <3>3. saves = two
      BY <2>2
    <3> HIDE DEF two, saves
    <3> QED
      BY <3>1, <3>2, <3>3
  <2> QED
    BY <2>1, <2>2
<1>4. /\ Script(r, ties) /\ Len(ties) = 3 /\ ties[1] = Do("find", "page")
      /\ \A j \in 1..Len(ties) : ties[j].do # "save"
  BY DEF Script, Suits, Prepares, Statements, Do, Kinds
<1>5. /\ Script(r, ends) /\ Len(ends) = 1 /\ ends[1].do = "find"
      /\ \A j \in 1..Len(ends) : ends[j].do \notin {"save", "ribbon"}
  BY DEF Script, Suits, Prepares, Statements, Do, Kinds
<1>6. Do("find", "page").do = "find"
  BY DEF Do
<1> HIDE DEF saves, ties, ends
<1> DEFINE first == saves \o ties
<1>7. Script(r, first)
  BY <1>3, <1>4, <1>6, Joined
<1>8. /\ Len(first) >= 1 /\ first[1] = Do("find", "page")
      /\ DOMAIN r.changes # {} => Len(first) >= 2 /\ first[2] = Do("save", "page")
  BY <1>3, <1>4, ConcatProperties DEF Script
<1> HIDE DEF first
<1>9. \A s, t : /\ Script(r, s) /\ Len(s) >= 1 /\ s[1] = Do("find", "page")
                /\ DOMAIN r.changes # {} => Len(s) >= 2 /\ s[2] = Do("save", "page")
                /\ Script(r, t) /\ Len(t) >= 1 /\ t[1].do = "find"
                /\ \A j \in 1..Len(t) : t[j].do \notin {"save", "ribbon"}
                => /\ Script(r, s \o t) /\ Len(s \o t) >= 1 /\ (s \o t)[1] = Do("find", "page")
                   /\ DOMAIN r.changes # {} => Len(s \o t) >= 2 /\ (s \o t)[2] = Do("save", "page")
  <2> TAKE s, t
  <2> HAVE /\ Script(r, s) /\ Len(s) >= 1 /\ s[1] = Do("find", "page")
           /\ DOMAIN r.changes # {} => Len(s) >= 2 /\ s[2] = Do("save", "page")
           /\ Script(r, t) /\ Len(t) >= 1 /\ t[1].do = "find"
           /\ \A j \in 1..Len(t) : t[j].do \notin {"save", "ribbon"}
  <2>1. Script(r, s \o t)
    BY Joined
  <2>2. s \in Seq(Statements) /\ t \in Seq(Statements) /\ Len(s) \in Nat /\ Len(t) \in Nat
    BY LenProperties DEF Script
  <2>3. Len(s \o t) >= 1 /\ (s \o t)[1] = Do("find", "page")
    BY <2>2, ConcatProperties
  <2>4. DOMAIN r.changes # {} => Len(s \o t) >= 2 /\ (s \o t)[2] = Do("save", "page")
    BY <2>2, ConcatProperties
  <2> QED
    BY <2>1, <2>3, <2>4
<1> DEFINE whole == first \o Opens("book") \o Opens("chapter") \o ends
<1>10. /\ Script(r, whole) /\ Len(whole) >= 1 /\ whole[1] = Do("find", "page")
       /\ DOMAIN r.changes # {} => Len(whole) >= 2 /\ whole[2] = Do("save", "page")
  <2>1. "book" \in {"book", "chapter"} /\ "chapter" \in {"book", "chapter"}
    OBVIOUS
  <2> DEFINE second == first \o Opens("book")
             third == second \o Opens("chapter")
  <2>2. /\ Script(r, second) /\ Len(second) >= 1 /\ second[1] = Do("find", "page")
        /\ DOMAIN r.changes # {} => Len(second) >= 2 /\ second[2] = Do("save", "page")
    BY <1>7, <1>8, <1>9, <2>1, OpensScript
  <2> HIDE DEF second
  <2>3. /\ Script(r, third) /\ Len(third) >= 1 /\ third[1] = Do("find", "page")
        /\ DOMAIN r.changes # {} => Len(third) >= 2 /\ third[2] = Do("save", "page")
    BY <1>9, <2>1, <2>2, OpensScript
  <2> HIDE DEF third
  <2>4. whole = third \o ends
    BY DEF third, second
  <2>5. /\ Script(r, third \o ends) /\ Len(third \o ends) >= 1 /\ (third \o ends)[1] = Do("find", "page")
        /\ DOMAIN r.changes # {} => Len(third \o ends) >= 2 /\ (third \o ends)[2] = Do("save", "page")
    BY <1>5, <1>9, <2>3
  <2> HIDE DEF whole
  <2> QED
    BY <2>4, <2>5
<1>11. Program(r) = whole
  BY <1>2 DEF first
<1> HIDE DEF whole
<1> QED
  BY <1>1, <1>6, <1>10, <1>11 DEF Begins

\* Every request starts with a script.
LEMMA ProgramBegins ==
    ASSUME NEW r \in Requests
    PROVE  Begins(r, Program(r))
<1>1. r.kind \in Kinds /\ r.op \in {"edit", "open", "create", "close", "reopen"}
  BY StoreAssumption
<1>2. CASE r.op = "edit"
  BY <1>1, <1>2 DEF Program, Begins, Script, Suits, Prepares, Statements, Do
<1>3. CASE r.op = "open"
  <2>1. Program(r) = Opens(r.kind) /\ r.kind \in {"book", "chapter"}
    BY <1>3, StoreAssumption DEF Program
  <2> QED
    BY <1>3, <2>1, OpensScript DEF Begins
<1>4. CASE r.op = "create"
  <2>1. Program(r) = Creates(r.kind)
    BY <1>4 DEF Program
  <2>2. CASE r.kind = "book"
    <3>1. Program(r) = <<Do("insert", "book")>>
      BY <2>1, <2>2 DEF Creates
    <3> QED
      BY <1>4, <3>1 DEF Begins, Script, Suits, Prepares, Statements, Do, Kinds
  <2>3. CASE r.kind = "chapter"
    <3>1. Program(r) = <<Do("find", "book"), Do("number", "chapter"), Do("insert", "chapter")>>
      BY <2>1, <2>3 DEF Creates
    <3> QED
      BY <1>4, <3>1 DEF Begins, Script, Suits, Prepares, Statements, Do, Kinds
  <2>4. CASE r.kind = "page"
    <3>1. Program(r) = <<Do("find", "chapter"), Do("number", "page"), Do("insert", "page")>>
      BY <2>1, <2>4 DEF Creates
    <3> QED
      BY <1>4, <3>1 DEF Begins, Script, Suits, Prepares, Statements, Do, Kinds
  <2> QED
    BY <1>1, <2>2, <2>3, <2>4 DEF Kinds
<1>5. CASE r.op = "reopen"
  <2>1. Program(r) = <<Do("aim", "page"), Do("try", "page"),
                       Do("find", "book"), Do("find", "chapter"), Do("find", "page")>>
    BY <1>5 DEF Program
  <2> QED
    BY <1>5, <2>1 DEF Begins, Script, Suits, Prepares, Statements, Do, Kinds
<1> QED
  BY <1>1, <1>2, <1>3, <1>4, <1>5, CloseBegins

\* The rest of a script is one.
LEMMA ScriptGoesOn ==
    ASSUME NEW r, NEW todo, Script(r, todo), todo # <<>>
    PROVE  /\ Script(r, Tail(todo)) /\ Len(todo) >= 1 /\ Head(todo) = todo[1]
           /\ Len(Tail(todo)) = Len(todo) - 1 /\ Len(todo) \in Nat
           /\ \A j \in 1..Len(Tail(todo)) : Tail(todo)[j] = todo[j + 1]
<1>1. todo \in Seq(Statements)
  BY DEF Script
<1>2. /\ Tail(todo) \in Seq(Statements) /\ Len(todo) \in Nat /\ Len(todo) >= 1
      /\ Len(Tail(todo)) = Len(todo) - 1 /\ Head(todo) = todo[1]
      /\ \A j \in 1..Len(Tail(todo)) : Tail(todo)[j] = todo[j + 1]
  BY <1>1, HeadTailProperties, EmptySeq, LenProperties
<1> DEFINE t == Tail(todo)
<1> HIDE DEF t
<1>3. Script(r, t)
  <2>1. t \in Seq(Statements) /\ Len(t) = Len(todo) - 1 /\ \A j \in 1..Len(t) : t[j] = todo[j + 1]
    BY <1>2 DEF t
  <2>2. \A j \in 1..Len(t) : Suits(r, t[j])
    BY <1>2, <2>1 DEF Script
  <2>3. \A j \in 2..Len(t) : Prepares(t[j - 1], t[j])
    <3> TAKE j \in 2..Len(t)
    <3>1. j + 1 \in 2..Len(todo) /\ j \in 1..Len(t) /\ j - 1 \in 1..Len(t)
      BY <1>2, <2>1
    <3>2. t[j] = todo[j + 1] /\ t[j - 1] = todo[(j + 1) - 1]
      BY <2>1, <3>1
    <3> QED
      BY <3>1, <3>2 DEF Script
  <2>4. \A j \in 3..Len(t) : t[j].do # "save"
    <3> TAKE j \in 3..Len(t)
    <3>1. j + 1 \in 3..Len(todo) /\ j \in 1..Len(t)
      BY <1>2, <2>1
    <3> QED
      BY <2>1, <3>1 DEF Script
  <2>5. ASSUME NEW i \in 1..Len(t), NEW j \in 1..Len(t), t[i].do = "ribbon", t[j].do = "ribbon"
        PROVE  i = j
    <3>1. i + 1 \in 1..Len(todo) /\ j + 1 \in 1..Len(todo)
      BY <1>2, <2>1
    <3>2. i + 1 = j + 1
      BY <2>1, <2>5, <3>1 DEF Script
    <3> QED
      BY <3>2
  <2> QED
    BY <2>1, <2>2, <2>3, <2>4, <2>5 DEF Script
<1> QED
  BY <1>2, <1>3 DEF t

-----------------------------------------------------------------------------
(* The steps of a request, statement by statement *)

\* Every request that runs follows its script, at the address it was sent to.
Scripted ==
    \A c \in Clients : Running(c) =>
        /\ Script(tx[c].request, tx[c].todo)
        /\ tx[c].request.op # "reopen" => tx[c].at = tx[c].request.at

\* The values that a save assigns.
Values(c) == Changed(c, Row(c), Assigned(tx[c].request))

\* A row has every column that a request may assign.
Complete(k, row) == \A kind \in Kinds : k \in Pool(kind) => Editable(kind) \subseteq DOMAIN row

\* The row that an INSERT adds.
NewRow(c) ==
    CASE Kind(c) = "book"    -> NewBook
      [] Kind(c) = "chapter" -> NewChapter(tx[c].at, tx[c].number)
      [] Kind(c) = "page"    -> NewPage(tx[c].at, tx[c].number, FirstText(tx[c].request))

\* No column is to be NULL.
Storable(values) == \A x \in DOMAIN values : values[x] # Null

\* What the next statement of a request may write, and where.
Permitted(c, k, values) ==
    \/ Doing(c, "save") /\ k = Row(c) /\ values = Values(c) /\ Storable(values)
    \/ Doing(c, "touch") /\ k = Row(c) /\ values = <<>>
    \/ Doing(c, "upsert") /\ k = Recent(Row(c)) /\ values = <<>>
    \/ Doing(c, "insert") /\ k \in Pool(Kind(c)) \ Known(c) /\ values = NewRow(c)
    \/ /\ Doing(c, "tie")
       /\ IF tx[c].ribbon = Nowhere THEN k \in Ribbons \ Known(c) /\ values = tx[c].at
                                    ELSE k = tx[c].ribbon /\ values = Changed(c, k, tx[c].at)

\* c has done a statement and runs on.
Proceeds(c) ==
    /\ Running(c) /\ tx[c].todo # <<>> /\ Alone(c) /\ rows' = rows
    /\ tx'[c].status = "running" /\ tx'[c].request = tx[c].request
    /\ tx'[c].todo = Tail(tx[c].todo)
    /\ tx'[c].at = tx[c].at \/ Doing(c, "aim")

\* A statement that writes.
Writing(c) ==
    /\ Proceeds(c) /\ ~Doing(c, "find") /\ ~Doing(c, "ribbon")
    /\ tx'[c].read = tx[c].read /\ tx'[c].ribbon = tx[c].ribbon /\ tx'[c].known = tx[c].known
    /\ \E k, values : Permitted(c, k, values) /\ tx'[c].dirty = Write(tx[c], k, values).dirty

\* A statement that only reads.
Reads(c) ==
    /\ Proceeds(c) /\ tx'[c].dirty = tx[c].dirty
    /\ Doing(c, "find") => /\ Found(c)
                           /\ tx'[c].read = Over(tx[c].read, [x \in {Row(c)} |-> Seen(c, Row(c))])
    /\ tx'[c].ribbon = tx[c].ribbon \/ Doing(c, "ribbon")
    /\ Doing(c, "ribbon") =>
          IF Ribbons \cap Known(c) = {} THEN tx'[c].ribbon = Nowhere
          ELSE /\ tx'[c].ribbon \in Ribbons \cap Known(c)
               /\ tx'[c].read = Over(tx[c].read, [x \in {tx'[c].ribbon} |-> Seen(c, tx'[c].ribbon)])
    /\ tx'[c].read = tx[c].read \/ Doing(c, "find") \/ Doing(c, "try") \/ Doing(c, "ribbon")
    /\ Doing(c, "recall") => (tx'[c].known <=> Recent(Row(c)) \in Known(c))
    /\ Doing(c, "number") => tx'[c].number = NextNumber(c)
    /\ ~Doing(c, "touch") /\ ~Doing(c, "upsert") /\ ~Doing(c, "insert")
    /\ Doing(c, "save") => DOMAIN Values(c) = {}
    /\ Doing(c, "tie") => tx[c].ribbon \in Ribbons /\ DOMAIN Changed(c, tx[c].ribbon, tx[c].at) = {}

\* A request that stops answers without a commit.
Stops(c) ==
    /\ Running(c) /\ Alone(c) /\ rows' = rows /\ tx'[c].dirty = <<>>
    /\ tx'[c].status \in {"not_found", "no_bookmark", "null_refused", "key_taken"}
    /\ tx'[c].status = "key_taken" => Doing(c, "upsert") /\ ~tx[c].known /\ Recent(Row(c)) \in DOMAIN rows

\* A request goes on as t.
LEMMA Proceeding ==
    ASSUME Shape, NEW c \in Clients, NEW verb, Doing(c, verb), NEW t, DOMAIN t = Fields,
           Goes(c, t), rows' = rows, t.status = tx[c].status, t.request = tx[c].request,
           t.todo = tx[c].todo, t.at = tx[c].at \/ verb = "aim"
    PROVE  /\ Proceeds(c)
           /\ \A f \in Fields \ {"todo"} : tx'[c][f] = t[f]
<1>1. /\ Alone(c) /\ \A f \in Fields \ {"todo"} : tx'[c][f] = t[f]
  BY GoesOn
<1>2. tx'[c].todo = Tail(t.todo)
  BY DEF Shape, Goes, Fields
<1>3. Running(c) /\ tx[c].todo # <<>>
  BY DEF Doing
<1> QED
  BY <1>1, <1>2, <1>3 DEF Proceeds, Running, Fields

\* A statement that writes.
LEMMA WritingStep ==
    ASSUME Shape, NEW c \in Clients, NEW verb, Doing(c, verb), verb \notin {"find", "ribbon"},
           NEW k, NEW values, Goes(c, Write(tx[c], k, values)), rows' = rows, Permitted(c, k, values)
    PROVE  /\ Writing(c)
           /\ \A f \in Fields \ {"todo", "dirty"} : tx'[c][f] = tx[c][f]
           /\ tx'[c].dirty = Write(tx[c], k, values).dirty
<1>1. DOMAIN tx[c] = Fields
  BY DEF Shape
<1>2. /\ DOMAIN Write(tx[c], k, values) = Fields
      /\ \A f \in Fields \ {"dirty"} : Write(tx[c], k, values)[f] = tx[c][f]
  BY <1>1, WriteDirty
<1>3. /\ Proceeds(c)
      /\ \A f \in Fields \ {"todo"} : tx'[c][f] = Write(tx[c], k, values)[f]
  BY <1>2, Proceeding DEF Fields
<1> QED
  BY <1>2, <1>3 DEF Writing, Fields, Doing

\* A request that ends without a commit has stopped.
LEMMA StopsStep ==
    ASSUME Shape, NEW c \in Clients, Running(c),
           NEW status \in {"not_found", "no_bookmark", "null_refused", "key_taken"},
           status = "key_taken" => Doing(c, "upsert") /\ ~tx[c].known /\ Recent(Row(c)) \in DOMAIN rows,
           Ends(c, status)
    PROVE  Stops(c)
BY DEF Shape, Ends, Alone, Unsent, Fields, Stops

\* The statement at the head of what a request has to do.
LEMMA HeadFacts ==
    ASSUME Shape, Scripted, NEW c \in Clients, NEW verb, Doing(c, verb)
    PROVE  /\ tx[c].request \in Requests /\ Head(tx[c].todo) = tx[c].todo[1]
           /\ Len(tx[c].todo) \in Nat /\ Len(tx[c].todo) >= 1
           /\ Head(tx[c].todo) = Do(verb, Kind(c)) /\ Kind(c) \in Kinds
           /\ Suits(tx[c].request, Do(verb, Kind(c)))
           /\ verb \notin {"aim", "try", "find"} =>
                 tx[c].at = tx[c].request.at /\ Row(c) \in Pool(Kind(c)) \cup {Nowhere}
<1>1. /\ Script(tx[c].request, tx[c].todo) /\ tx[c].todo # <<>>
      /\ tx[c].request \in Requests /\ Head(tx[c].todo).do = verb
  BY DEF Doing, Running, Scripted, Shape
<1>2. Len(tx[c].todo) \in Nat /\ Len(tx[c].todo) >= 1 /\ Head(tx[c].todo) = tx[c].todo[1]
  BY <1>1, ScriptGoesOn
<1>3. Head(tx[c].todo) \in Statements /\ Suits(tx[c].request, Head(tx[c].todo))
  <2>1. tx[c].todo \in Seq(Statements) /\ 1 \in 1..Len(tx[c].todo)
    BY <1>1, <1>2 DEF Script
  <2>2. tx[c].todo[1] \in Statements
    BY <2>1, ElementOfSeq
  <2> QED
    BY <1>1, <1>2, <2>1, <2>2 DEF Script
<1>4. Head(tx[c].todo) = Do(verb, Kind(c)) /\ Kind(c) \in Kinds
  BY <1>1, <1>3 DEF Statements, Kind, Do
<1>5. ASSUME verb \notin {"aim", "try", "find"}
      PROVE  tx[c].at = tx[c].request.at /\ Row(c) \in Pool(Kind(c)) \cup {Nowhere}
  <2>1. tx[c].request.op # "reopen"
    BY <1>1, <1>3, <1>5 DEF Suits
  <2>2. tx[c].at = tx[c].request.at /\ tx[c].at \in Address
    BY <1>1, <2>1, StoreAssumption DEF Scripted, Doing
  <2>3. Row(c) \in Pool(Kind(c)) \cup {Nowhere}
    BY <1>4, <2>2 DEF Row, Kinds, Address, Pool
  <2> QED
    BY <2>2, <2>3
<1> QED
  BY <1>1, <1>2, <1>3, <1>4, <1>5

\* The ids of a kind are ids.
LEMMA PoolIds ==
    ASSUME NEW kind \in Kinds
    PROVE  Pool(kind) \subseteq Ids
BY DEF Kinds, Pool, Ids

\* A row that is added is complete.
LEMMA NewRowComplete ==
    ASSUME Shape, Scripted, NEW c \in Clients, Doing(c, "insert"), NEW k \in Pool(Kind(c))
    PROVE  Complete(k, NewRow(c))
<1>1. Kind(c) \in Kinds
  BY HeadFacts
<1>2. \A kind \in Kinds : k \in Pool(kind) => kind = Kind(c)
  BY <1>1, StoreAssumption DEF Kinds, Pool
<1>3. Editable(Kind(c)) \subseteq DOMAIN NewRow(c)
  BY <1>1 DEF Kinds, Editable, NewRow, NewBook, NewChapter, NewPage
<1> QED
  BY <1>2, <1>3 DEF Complete

\* Without a save, a request writes nothing but a time, a new row or the ribbon.
LEMMA PermittedKinds ==
    ASSUME Shape, Scripted, NEW c \in Clients, NEW k, NEW values, Permitted(c, k, values)
    PROVE  IF Doing(c, "save") THEN k = Row(c) /\ values = Values(c) /\ Storable(values)
           ELSE \/ /\ values = <<>> /\ k \notin Ribbons
                   /\ k \in Ids \cup {Nowhere} => Doing(c, "touch") /\ k = Row(c)
                \/ k \notin Known(c) /\ k \in Ids /\ Complete(k, values)
                \/ Doing(c, "tie") /\ k \in Ribbons /\ (tx[c].ribbon = Nowhere \/ k = tx[c].ribbon)
<1>1. CASE Doing(c, "save")
  BY <1>1 DEF Permitted, Doing
<1>2. CASE Doing(c, "touch")
  <2>1. Row(c) \in Ids \cup {Nowhere}
    BY <1>2, HeadFacts, PoolIds
  <2>2. Row(c) \notin Ribbons
    BY <2>1, StoreAssumption DEF Rows
  <2> QED
    BY <1>2, <2>2 DEF Permitted, Doing
<1>3. CASE Doing(c, "upsert")
  <2>1. Row(c) \in Ids \cup {Nowhere}
    BY <1>3, HeadFacts, PoolIds
  <2> QED
    BY <1>3, <2>1, StoreAssumption DEF Permitted, Doing
<1>4. CASE Doing(c, "insert")
  <2>1. k \in Pool(Kind(c)) /\ k \notin Known(c) /\ values = NewRow(c)
    BY <1>4 DEF Permitted, Doing
  <2>2. k \in Ids /\ Complete(k, values)
    BY <1>4, <2>1, HeadFacts, PoolIds, NewRowComplete
  <2> QED
    BY <1>4, <2>1, <2>2 DEF Doing
<1>5. CASE Doing(c, "tie")
  <2>1. k \in Ribbons /\ (tx[c].ribbon = Nowhere \/ k = tx[c].ribbon)
    BY <1>5 DEF Permitted, Doing, Shape
  <2> QED
    BY <1>5, <2>1 DEF Doing
<1> QED
  BY <1>1, <1>2, <1>3, <1>4, <1>5 DEF Permitted

\* Each statement reads, writes, stops the request or commits it.
LEMMA StatementKinds ==
    ASSUME Shape, Scripted, NEW c \in Clients, Statement(c)
    PROVE  \/ Reads(c)
           \/ Writing(c)
           \/ Stops(c)
           \/ Commit(c)
<1> DEFINE Done == Reads(c) \/ Writing(c) \/ Stops(c) \/ Commit(c)
<1>0. DOMAIN tx[c] = Fields
  BY DEF Shape
\* A request does one statement at a time.
<1>0a. \A v, w : Doing(c, v) /\ Doing(c, w) => v = w
  BY DEF Doing
<1>1. ASSUME Find(c) PROVE Done
  <2>1. CASE Found(c)
    <3>1. Goes(c, Load(tx[c], Row(c), Seen(c, Row(c)))) /\ rows' = rows /\ Doing(c, "find")
      BY <1>1, <2>1 DEF Find
    <3> DEFINE t == Load(tx[c], Row(c), Seen(c, Row(c)))
    <3>2. /\ DOMAIN t = Fields /\ t.read = Over(tx[c].read, [x \in {Row(c)} |-> Seen(c, Row(c))])
          /\ \A f \in Fields \ {"read"} : t[f] = tx[c][f]
      BY <1>0 DEF Load, Fields
    <3> HIDE DEF t
    <3>3. Proceeds(c) /\ \A f \in Fields \ {"todo"} : tx'[c][f] = t[f]
      BY <3>1, <3>2, Proceeding DEF Fields, t
    <3>4. /\ tx'[c].dirty = tx[c].dirty /\ tx'[c].ribbon = tx[c].ribbon
          /\ tx'[c].read = Over(tx[c].read, [x \in {Row(c)} |-> Seen(c, Row(c))])
      BY <3>2, <3>3 DEF Fields
    <3> QED
      BY <1>0a, <2>1, <3>1, <3>3, <3>4 DEF Reads
  <2>2. CASE ~Found(c)
    BY <1>1, <2>2, StopsStep DEF Find, Doing
  <2> QED
    BY <2>1, <2>2
<1>2. ASSUME Try(c) PROVE Done
  <2>1. CASE Found(c)
    <3>1. Goes(c, Load(tx[c], Row(c), Seen(c, Row(c)))) /\ rows' = rows /\ Doing(c, "try")
      BY <1>2, <2>1 DEF Try
    <3> DEFINE t == Load(tx[c], Row(c), Seen(c, Row(c)))
    <3>2. DOMAIN t = Fields /\ \A f \in Fields \ {"read"} : t[f] = tx[c][f]
      BY <1>0 DEF Load, Fields
    <3> HIDE DEF t
    <3>3. Proceeds(c) /\ \A f \in Fields \ {"todo"} : tx'[c][f] = t[f]
      BY <3>1, <3>2, Proceeding DEF Fields, t
    <3>4. tx'[c].dirty = tx[c].dirty /\ tx'[c].ribbon = tx[c].ribbon
      BY <3>2, <3>3 DEF Fields
    <3> QED
      BY <1>0a, <3>1, <3>3, <3>4 DEF Reads
  <2>2. CASE ~Found(c)
    BY <1>2, <2>2, StopsStep DEF Try, Doing
  <2> QED
    BY <2>1, <2>2
<1>3. ASSUME FindRibbon(c) PROVE Done
  <2>1. CASE Ribbons \cap Known(c) = {}
    <3> DEFINE t == [tx[c] EXCEPT !.ribbon = Nowhere]
    <3>1. Goes(c, t) /\ rows' = rows /\ Doing(c, "ribbon")
      BY <1>3, <2>1 DEF FindRibbon
    <3>2. DOMAIN t = Fields /\ t.ribbon = Nowhere /\ \A f \in Fields \ {"ribbon"} : t[f] = tx[c][f]
      BY <1>0 DEF Fields
    <3> HIDE DEF t
    <3>3. Proceeds(c) /\ \A f \in Fields \ {"todo"} : tx'[c][f] = t[f]
      BY <3>1, <3>2, Proceeding DEF Fields
    <3>4. tx'[c].dirty = tx[c].dirty /\ tx'[c].ribbon = Nowhere
      BY <3>2, <3>3 DEF Fields
    <3> QED
      BY <1>0a, <2>1, <3>1, <3>3, <3>4 DEF Reads
  <2>2. CASE Ribbons \cap Known(c) # {}
    <3>1. PICK k \in Ribbons \cap Known(c) : Goes(c, Load([tx[c] EXCEPT !.ribbon = k], k, Seen(c, k)))
      BY <1>3, <2>2 DEF FindRibbon
    <3> DEFINE t == Load([tx[c] EXCEPT !.ribbon = k], k, Seen(c, k))
    <3>2. /\ DOMAIN t = Fields /\ t.ribbon = k
          /\ t.read = Over(tx[c].read, [x \in {k} |-> Seen(c, k)])
          /\ \A f \in Fields \ {"read", "ribbon"} : t[f] = tx[c][f]
      BY <1>0 DEF Load, Fields
    <3>3. rows' = rows /\ Doing(c, "ribbon")
      BY <1>3 DEF FindRibbon
    <3> HIDE DEF t
    <3>4. Proceeds(c) /\ \A f \in Fields \ {"todo"} : tx'[c][f] = t[f]
      BY <3>1, <3>2, <3>3, Proceeding DEF Fields, t
    <3>5. /\ tx'[c].dirty = tx[c].dirty /\ tx'[c].ribbon = k
          /\ tx'[c].read = Over(tx[c].read, [x \in {k} |-> Seen(c, k)])
      BY <3>2, <3>4 DEF Fields
    <3> QED
      BY <1>0a, <2>2, <3>3, <3>4, <3>5 DEF Reads
  <2> QED
    BY <2>1, <2>2
<1>4. ASSUME Aim(c) PROVE Done
  <2>1. CASE Ribbons \cap Known(c) = {}
    BY <1>4, <2>1, StopsStep DEF Aim, Doing
  <2>2. CASE Ribbons \cap Known(c) # {}
    <3>1. PICK k \in Ribbons \cap Known(c) : Goes(c, [tx[c] EXCEPT !.at = Seen(c, k)])
      BY <1>4, <2>2 DEF Aim
    <3> DEFINE t == [tx[c] EXCEPT !.at = Seen(c, k)]
    <3>2. DOMAIN t = Fields /\ \A f \in Fields \ {"at"} : t[f] = tx[c][f]
      BY <1>0 DEF Fields
    <3>3. rows' = rows /\ Doing(c, "aim")
      BY <1>4, <2>2 DEF Aim
    <3> HIDE DEF t
    <3>4. Proceeds(c) /\ \A f \in Fields \ {"todo"} : tx'[c][f] = t[f]
      BY <3>1, <3>2, <3>3, Proceeding DEF Fields, t
    <3>5. /\ tx'[c].dirty = tx[c].dirty /\ tx'[c].ribbon = tx[c].ribbon /\ tx'[c].read = tx[c].read
      BY <3>2, <3>4 DEF Fields
    <3> QED
      BY <1>0a, <3>3, <3>4, <3>5 DEF Reads
  <2> QED
    BY <2>1, <2>2
<1>5. ASSUME Recall(c) PROVE Done
  <2> DEFINE t == [tx[c] EXCEPT !.known = Recent(Row(c)) \in Known(c)]
  <2>1. Goes(c, t) /\ rows' = rows /\ Doing(c, "recall")
    BY <1>5 DEF Recall
  <2>2. /\ DOMAIN t = Fields /\ t.known = (Recent(Row(c)) \in Known(c))
        /\ \A f \in Fields \ {"known"} : t[f] = tx[c][f]
    BY <1>0 DEF Fields
  <2> HIDE DEF t
  <2>3. Proceeds(c) /\ \A f \in Fields \ {"todo"} : tx'[c][f] = t[f]
    BY <2>1, <2>2, Proceeding DEF Fields
  <2>4. /\ tx'[c].dirty = tx[c].dirty /\ tx'[c].ribbon = tx[c].ribbon /\ tx'[c].read = tx[c].read
        /\ tx'[c].known = t.known
    BY <2>2, <2>3 DEF Fields
  <2>5. tx'[c].known <=> Recent(Row(c)) \in Known(c)
    BY <2>2, <2>4
  <2> QED
    BY <1>0a, <2>1, <2>3, <2>4, <2>5 DEF Reads
<1>6. ASSUME TakeNumber(c) PROVE Done
  <2> DEFINE t == [tx[c] EXCEPT !.number = NextNumber(c)]
  <2>1. Goes(c, t) /\ rows' = rows /\ Doing(c, "number")
    BY <1>6 DEF TakeNumber
  <2>2. /\ DOMAIN t = Fields /\ t.number = NextNumber(c)
        /\ \A f \in Fields \ {"number"} : t[f] = tx[c][f]
    BY <1>0 DEF Fields
  <2> HIDE DEF t
  <2>3. Proceeds(c) /\ \A f \in Fields \ {"todo"} : tx'[c][f] = t[f]
    BY <2>1, <2>2, Proceeding DEF Fields
  <2>4. /\ tx'[c].dirty = tx[c].dirty /\ tx'[c].ribbon = tx[c].ribbon /\ tx'[c].read = tx[c].read
        /\ tx'[c].number = NextNumber(c)
    BY <2>2, <2>3 DEF Fields
  <2> QED
    BY <1>0a, <2>1, <2>3, <2>4 DEF Reads
\* An UPDATE writes nothing, or it writes.
<1>7. ASSUME NEW verb \in {"save", "tie"}, Doing(c, verb),
             NEW k, NEW values, Update(c, k, values), Permitted(c, k, values),
             verb = "save" => values = Values(c),
             verb = "tie" => tx[c].ribbon \in Ribbons /\ values = Changed(c, tx[c].ribbon, tx[c].at)
      PROVE  Done
  <2>1. rows' = rows
    BY <1>7 DEF Update
  <2>2. CASE DOMAIN values = {}
    <3>1. Goes(c, tx[c])
      BY <1>7, <2>2 DEF Update
    <3>2. Proceeds(c) /\ \A f \in Fields \ {"todo"} : tx'[c][f] = tx[c][f]
      BY <1>0, <1>7, <2>1, <3>1, Proceeding
    <3> QED
      BY <1>7, <2>2, <3>2 DEF Reads, Fields, Doing
  <2>3. CASE DOMAIN values # {}
    <3>1. Goes(c, Write(tx[c], k, values))
      BY <1>7, <2>3 DEF Update
    <3> QED
      BY <1>7, <2>1, <3>1, WritingStep
  <2> QED
    BY <2>2, <2>3
<1>8. ASSUME Save(c) PROVE Done
  <2>1. Doing(c, "save") /\ Stores(c, Values(c))
    BY <1>8 DEF Save, Values
  <2>2. CASE Storable(Values(c))
    <3>1. Update(c, Row(c), Values(c)) /\ Permitted(c, Row(c), Values(c))
      BY <2>1, <2>2 DEF Stores, Storable, Permitted
    <3> QED
      BY <1>7, <2>1, <3>1
  <2>3. CASE ~Storable(Values(c))
    <3>1. Ends(c, "null_refused")
      BY <2>1, <2>3 DEF Stores, Storable
    <3> QED
      BY <2>1, <3>1, StopsStep DEF Doing
  <2> QED
    BY <2>2, <2>3
<1>9. ASSUME Touch(c) PROVE Done
  <2>1. Doing(c, "touch") /\ Goes(c, Write(tx[c], Row(c), <<>>)) /\ rows' = rows
    BY <1>9 DEF Touch
  <2>2. Permitted(c, Row(c), <<>>)
    BY <2>1 DEF Permitted
  <2> QED
    BY <2>1, <2>2, WritingStep
<1>10. ASSUME Upsert(c) PROVE Done
  <2> DEFINE k == Recent(Row(c))
  <2>1. CASE ~tx[c].known /\ k \in DOMAIN rows
    BY <1>10, <2>1, StopsStep DEF Upsert, Doing
  <2>2. CASE ~(~tx[c].known /\ k \in DOMAIN rows)
    <3>1. Goes(c, Write(tx[c], k, <<>>)) /\ rows' = rows /\ Doing(c, "upsert")
      BY <1>10, <2>2 DEF Upsert
    <3>2. Permitted(c, k, <<>>)
      BY <3>1 DEF Permitted
    <3> QED
      BY <3>1, <3>2, WritingStep
  <2> QED
    BY <2>1, <2>2
<1>11. ASSUME Tie(c) PROVE Done
  <2>1. Doing(c, "tie")
    BY <1>11 DEF Tie
  <2>2. CASE tx[c].ribbon = Nowhere
    <3> DEFINE k == CHOOSE j \in Spare(Ribbons) : TRUE
    <3>1. k \in Spare(Ribbons) /\ Goes(c, Write(tx[c], k, tx[c].at)) /\ rows' = rows
      BY <1>11, <2>2 DEF Tie, Adds
    <3>2. Permitted(c, k, tx[c].at)
      BY <2>1, <2>2, <3>1 DEF Permitted, Spare, Known
    <3> HIDE DEF k
    <3> QED
      BY <2>1, <3>1, <3>2, WritingStep
  <2>3. CASE tx[c].ribbon # Nowhere
    <3> DEFINE values == Changed(c, tx[c].ribbon, tx[c].at)
    <3>1. Update(c, tx[c].ribbon, values) /\ tx[c].ribbon \in Ribbons
      BY <1>11, <2>3 DEF Tie, Shape
    <3>2. Permitted(c, tx[c].ribbon, values)
      BY <2>1, <2>3 DEF Permitted
    <3> QED
      BY <1>7, <2>1, <3>1, <3>2
  <2> QED
    BY <2>2, <2>3
<1>12. ASSUME Insert(c) PROVE Done
  <2> DEFINE k == CHOOSE j \in Spare(Pool(Kind(c))) : TRUE
  <2>1. Adds(c, Pool(Kind(c)), NewRow(c)) /\ Doing(c, "insert")
    BY <1>12 DEF Insert, NewRow
  <2>2. k \in Spare(Pool(Kind(c))) /\ Goes(c, Write(tx[c], k, NewRow(c))) /\ rows' = rows
    BY <2>1 DEF Adds
  <2>3. Permitted(c, k, NewRow(c))
    BY <2>1, <2>2 DEF Permitted, Spare, Known
  <2> HIDE DEF k
  <2> QED
    BY <2>1, <2>2, <2>3, WritingStep
<1> QED
  BY <1>1, <1>2, <1>3, <1>4, <1>5, <1>6, <1>8, <1>9, <1>10, <1>11, <1>12 DEF Statement

\* A request that is sent.
LEMMA SendFacts ==
    ASSUME Shape, NEW c \in Clients, Send(c)
    PROVE  /\ tx[c].status = "unsent" /\ Alone(c) /\ rows' = rows
           /\ tx'[c].status = "running" /\ tx'[c].request \in Requests
           /\ Begins(tx'[c].request, tx'[c].todo) /\ tx'[c].at = tx'[c].request.at
           /\ DOMAIN tx'[c].read = {} /\ tx'[c].dirty = <<>>
<1>1. PICK r \in Requests :
          tx' = [tx EXCEPT ![c] = [Unsent EXCEPT !.status = "running", !.request = r,
                                                 !.todo = Program(r), !.at = r.at]]
  BY DEF Send
<1>2. Begins(r, Program(r))
  BY ProgramBegins
<1>3. /\ tx'[c].status = "running" /\ tx'[c].request = r /\ tx'[c].todo = Program(r)
      /\ tx'[c].at = r.at /\ tx'[c].read = <<>> /\ tx'[c].dirty = <<>>
  BY <1>1 DEF Shape, Unsent
<1>4. DOMAIN <<>> = {}
  OBVIOUS
<1> QED
  BY <1>1, <1>2, <1>3, <1>4 DEF Send, Shape, Alone

\* A commit.
LEMMA CommitFacts ==
    ASSUME Shape, NEW c \in Clients, Commit(c)
    PROVE  /\ Running(c) /\ tx[c].todo = <<>> /\ Alone(c)
           /\ rows' = [k \in Known(c) |-> Seen(c, k)]
           /\ tx'[c].status = "ok" /\ tx'[c].request = tx[c].request /\ tx'[c].dirty = <<>>
BY DEF Commit, Shape, Alone, Unsent

\* Requests stick to their scripts.
LEMMA ScriptedStep ==
    ASSUME Shape, Scripted, [Next]_vars
    PROVE  Scripted'
<1>1. ASSUME NEW c \in Clients, Alone(c),
             tx'[c].status = "running" =>
                /\ Script(tx'[c].request, tx'[c].todo)
                /\ tx'[c].request.op # "reopen" => tx'[c].at = tx'[c].request.at
      PROVE  Scripted'
  BY <1>1 DEF Scripted, Alone, Running
<1>2. ASSUME NEW c \in Clients, Send(c) PROVE Scripted'
  BY <1>1, <1>2, SendFacts DEF Begins
<1>3. ASSUME NEW c \in Clients, Statement(c) PROVE Scripted'
  <2>1. CASE Proceeds(c)
    <3>1. Script(tx[c].request, Tail(tx[c].todo))
      BY <2>1, ScriptGoesOn DEF Proceeds, Scripted
    <3>2. Doing(c, "aim") => tx[c].request.op = "reopen"
      <4>1. Do("aim", Kind(c)).do = "aim"
        BY DEF Do
      <4> QED
        BY <4>1, HeadFacts DEF Suits
    <3> QED
      BY <1>1, <2>1, <3>1, <3>2 DEF Proceeds, Scripted
  <2>2. CASE Stops(c)
    BY <1>1, <2>2 DEF Stops
  <2>3. CASE Commit(c)
    BY <1>1, <2>3, CommitFacts
  <2> QED
    BY <1>3, <2>1, <2>2, <2>3, StatementKinds DEF Reads, Writing
<1>4. CASE UNCHANGED vars
  BY <1>4 DEF vars, Scripted, Running
<1> QED
  BY <1>2, <1>3, <1>4 DEF Next

\* What comes next was prepared by what was done.
LEMMA NextStatement ==
    ASSUME Shape, Scripted, NEW c \in Clients, Proceeds(c), tx'[c].todo # <<>>
    PROVE  /\ Len(tx[c].todo) >= 2
           /\ Head(tx'[c].todo) = tx[c].todo[2]
           /\ Prepares(Head(tx[c].todo), Head(tx'[c].todo))
<1>1. /\ Script(tx[c].request, tx[c].todo) /\ tx[c].todo # <<>> /\ tx'[c].todo = Tail(tx[c].todo)
      /\ Head(tx[c].todo) = tx[c].todo[1]
  BY ScriptGoesOn DEF Proceeds, Scripted
<1>2. Script(tx[c].request, tx'[c].todo)
  BY <1>1, ScriptGoesOn
<1>3. /\ Len(tx'[c].todo) >= 1 /\ Head(tx'[c].todo) = tx'[c].todo[1] /\ Len(tx'[c].todo) \in Nat
  BY <1>2, ScriptGoesOn
<1>4. Len(tx'[c].todo) = Len(tx[c].todo) - 1 /\ tx'[c].todo[1] = tx[c].todo[1 + 1]
      /\ Len(tx[c].todo) \in Nat
  BY <1>1, <1>3, ScriptGoesOn
<1>5. 2 \in 2..Len(tx[c].todo)
  BY <1>3, <1>4
<1>6. Prepares(tx[c].todo[2 - 1], tx[c].todo[2])
  BY <1>1, <1>5 DEF Script
<1> QED
  BY <1>1, <1>3, <1>4, <1>6

\* At any time, every request that runs follows a script.
LEMMA SpecScripted == Spec => [](IInv /\ Scripted)
<1>1. Init => Scripted
  BY DEF Init, Scripted, Running, Unsent
<1>2. IInv /\ Scripted /\ [Next]_vars => Scripted'
  BY ScriptedStep DEF IInv
<1> QED
  BY <1>1, <1>2, StoreInvariant, PTL DEF Spec

-----------------------------------------------------------------------------
(* The one ribbon *)

\* The ribbons are those the library began with; nobody is tying another one.
RibbonKept ==
    /\ Ribboned = Ribbons \cap DOMAIN Library
    /\ \A c \in Clients :
          /\ Ribbons \cap DOMAIN tx[c].dirty \subseteq Ribboned
          /\ Doing(c, "tie") => tx[c].ribbon \in Ribboned

\* Every step keeps the ribbons: the statement that ties one has just been told
\* of the one there is (FindRibbon).
LEMMA RibbonStep ==
    ASSUME Shape, Scripted, RibbonKept, Ribbons \cap DOMAIN Library # {}, [Next]_vars
    PROVE  RibbonKept'
<1>0. Nowhere \notin Ribbons
  BY StoreAssumption DEF Rows
\* Only what c wrote and holds can be different.
<1>1. ASSUME NEW c \in Clients, Alone(c), rows' = rows,
             Ribbons \cap DOMAIN tx'[c].dirty \subseteq Ribboned,
             Doing(c, "tie")' => tx'[c].ribbon \in Ribboned
      PROVE  RibbonKept'
  BY <1>1 DEF RibbonKept, Ribboned, Alone, Doing, Running
<1>2. ASSUME NEW c \in Clients, Send(c) PROVE RibbonKept'
  <2>1. ~Doing(c, "tie")'
    <3>1. /\ Begins(tx'[c].request, tx'[c].todo)
      BY <1>2, SendFacts
    <3>2. tx'[c].todo # <<>> => Head(tx'[c].todo).do # "tie"
      BY <3>1, ScriptGoesOn DEF Begins
    <3> QED
      BY <3>2 DEF Doing
  <2>2. DOMAIN <<>> = {}
    OBVIOUS
  <2> QED
    BY <1>1, <1>2, <2>1, <2>2, SendFacts
<1>3. ASSUME NEW c \in Clients, Statement(c) PROVE RibbonKept'
  <2>1. CASE Proceeds(c)
    <3>1. Doing(c, "tie")' => Doing(c, "ribbon")
      <4> SUFFICES ASSUME Doing(c, "tie")' PROVE Doing(c, "ribbon")
        OBVIOUS
      <4>1. tx'[c].todo # <<>> /\ Head(tx'[c].todo).do = "tie"
        BY DEF Doing
      <4>2. Head(tx[c].todo) = Do("ribbon", "page")
        BY <2>1, <4>1, NextStatement DEF Prepares
      <4> QED
        BY <2>1, <4>2 DEF Doing, Proceeds, Do
    <3>2. CASE Reads(c)
      <4>1. Ribbons \cap Known(c) = Ribboned
        BY DEF RibbonKept, Known, Ribboned
      <4>2. Ribboned # {}
        BY DEF RibbonKept
      <4> QED
        BY <1>1, <2>1, <3>1, <3>2, <4>1, <4>2 DEF Reads, Proceeds, RibbonKept
    <3>3. CASE Writing(c)
      <4>1. PICK k, values : Permitted(c, k, values) /\ tx'[c].dirty = Write(tx[c], k, values).dirty
        BY <3>3 DEF Writing
      <4>2. DOMAIN tx'[c].dirty = DOMAIN tx[c].dirty \cup {k}
        BY <4>1, WriteDirty DEF Shape
      <4>3. k \in Ribbons => k \in Ribboned
        <5>1. Doing(c, "save") => k \notin Ribbons \/ k # Row(c)
          BY HeadFacts, PoolIds, StoreAssumption DEF Rows
        <5>2. k \in Ids => k \notin Ribbons
          BY StoreAssumption
        <5> QED
          BY <1>0, <4>1, <5>1, <5>2, PermittedKinds DEF RibbonKept, Ribboned
      <4> QED
        BY <1>1, <2>1, <3>1, <3>3, <4>2, <4>3 DEF Writing, Proceeds, RibbonKept
    <3> QED
      BY <1>3, <2>1, <3>2, <3>3, StatementKinds, CommitFacts DEF Proceeds, Stops
  <2>2. CASE Stops(c)
    <3>1. DOMAIN <<>> = {}
      OBVIOUS
    <3> QED
      BY <1>1, <2>2, <3>1 DEF Stops, Doing, Running
  <2>3. CASE Commit(c)
    <3>1. /\ Alone(c) /\ rows' = [k \in Known(c) |-> Seen(c, k)] /\ tx'[c].status = "ok"
          /\ DOMAIN tx'[c].dirty = {}
      BY <2>3, CommitFacts
    <3>2. Ribboned' = Ribboned
      BY <3>1 DEF RibbonKept, Known, Ribboned
    <3> QED
      BY <3>1, <3>2 DEF RibbonKept, Alone, Doing, Running
  <2> QED
    BY <1>3, <2>1, <2>2, <2>3, StatementKinds DEF Reads, Writing
<1>4. CASE UNCHANGED vars
  BY <1>4 DEF vars, RibbonKept, Ribboned, Doing, Running
<1> QED
  BY <1>2, <1>3, <1>4 DEF Next

\* In a library that has its ribbon, however many requests run at the same time,
\* closing never ties a second one (set_bookmark).
THEOREM RibbonStaysOne ==
    ASSUME Cardinality(Ribbons \cap DOMAIN Library) = 1
    PROVE  Spec => []OneRibbon
<1>1. Ribbons \cap DOMAIN Library # {}
  BY FS_EmptySet
<1>2. Init => RibbonKept
  BY DEF Init, RibbonKept, Ribboned, Doing, Running, Unsent
<1>3. IInv /\ Scripted /\ RibbonKept /\ [Next]_vars => RibbonKept'
  BY <1>1, RibbonStep DEF IInv
<1>4. RibbonKept => OneRibbon
  BY DEF RibbonKept, OneRibbon
<1> QED
  BY <1>2, <1>3, <1>4, SpecScripted, PTL DEF Spec

-----------------------------------------------------------------------------
(* Rows keep their columns *)

\* Every row has the columns that a request may assign, and so has every row that
\* is about to be added; a statement that writes about a row has found it.
Filled ==
    /\ Nowhere \notin DOMAIN rows
    /\ \A k \in DOMAIN rows : Complete(k, rows[k])
    /\ \A c \in Clients :
          /\ Nowhere \notin DOMAIN tx[c].dirty
          /\ \A k \in DOMAIN tx[c].dirty \ DOMAIN rows : Complete(k, tx[c].dirty[k])
          /\ Doing(c, "recall") \/ Doing(c, "touch") \/ Doing(c, "upsert") \/ Doing(c, "save")
                => Row(c) \in Known(c)

\* The library is filled at the start.
LEMMA InitFilled == Init => Filled
<1>1. \A k \in DOMAIN Library : Complete(k, Library[k])
  BY LibraryAssumption, StoreAssumption DEF Shaped, Complete, Kinds, Pool, Editable
<1>2. DOMAIN <<>> = {} /\ Nowhere \notin DOMAIN Library
  BY LibraryAssumption, StoreAssumption DEF Shaped
<1> QED
  BY <1>1, <1>2 DEF Init, Filled, Doing, Running, Unsent

\* A write leaves a row that is about to be added its columns.
LEMMA WriteFilled ==
    ASSUME IInv, Scripted, Filled, NEW c \in Clients, Writing(c)
    PROVE  /\ Nowhere \notin DOMAIN tx'[c].dirty
           /\ \A k \in DOMAIN tx'[c].dirty \ DOMAIN rows : Complete(k, tx'[c].dirty[k])
<1>1. PICK k, values : Permitted(c, k, values) /\ tx'[c].dirty = Write(tx[c], k, values).dirty
  BY DEF Writing
<1>2. /\ DOMAIN tx'[c].dirty = DOMAIN tx[c].dirty \cup {k}
      /\ \A j \in DOMAIN tx[c].dirty \ {k} : tx'[c].dirty[j] = tx[c].dirty[j]
      /\ tx'[c].dirty[k] = IF k \in DOMAIN tx[c].dirty THEN Over(values, tx[c].dirty[k]) ELSE values
  BY <1>1, WriteDirty DEF IInv, Shape
<1>3. ASSUME k \notin DOMAIN rows PROVE Complete(k, tx'[c].dirty[k])
  <2>1. CASE k \in DOMAIN tx[c].dirty
    <3>1. Complete(k, tx[c].dirty[k])
      BY <1>3, <2>1 DEF Filled
    <3>2. DOMAIN tx[c].dirty[k] \subseteq DOMAIN tx'[c].dirty[k]
      BY <1>2, <2>1 DEF Over
    <3> QED
      BY <3>1, <3>2 DEF Complete
  <2>2. CASE k \notin DOMAIN tx[c].dirty
    <3>1. k \notin Known(c) /\ tx'[c].dirty[k] = values
      BY <1>2, <1>3, <2>2 DEF Known
    <3>2. Complete(k, values) \/ k \notin Ids
      BY <1>1, <3>1, PermittedKinds, StoreAssumption DEF Filled, IInv
    <3> QED
      BY <3>1, <3>2, PoolIds DEF Complete
  <2> QED
    BY <2>1, <2>2
<1>4. k # Nowhere
  <2>1. Nowhere \notin Ids \cup Ribbons \cup Known(c)
    BY StoreAssumption DEF Rows, Filled, Known
  <2> QED
    BY <1>1, <2>1, PermittedKinds DEF Filled, IInv
<1> QED
  BY <1>2, <1>3, <1>4 DEF Filled

\* Every step leaves the rows, and what was written, their columns.
LEMMA FilledStep ==
    ASSUME IInv, Scripted, Filled, [Next]_vars
    PROVE  Filled'
<1>0. DOMAIN <<>> = {}
  OBVIOUS
\* Only what c wrote and does next can be different.
<1>1. ASSUME NEW c \in Clients, Alone(c), rows' = rows,
             Nowhere \notin DOMAIN tx'[c].dirty,
             \A k \in DOMAIN tx'[c].dirty \ DOMAIN rows : Complete(k, tx'[c].dirty[k]),
             (Doing(c, "recall") \/ Doing(c, "touch") \/ Doing(c, "upsert") \/ Doing(c, "save")
                => Row(c) \in Known(c))'
      PROVE  Filled'
  BY <1>1 DEF Filled, Alone, Doing, Running, Row, Kind, Known
<1>2. ASSUME NEW c \in Clients, Send(c) PROVE Filled'
  <2>1. Begins(tx'[c].request, tx'[c].todo)
    BY <1>2, SendFacts DEF IInv
  <2>2. tx'[c].todo # <<>> => Head(tx'[c].todo).do \notin {"recall", "touch", "upsert", "save"}
    BY <2>1, ScriptGoesOn DEF Begins
  <2> QED
    BY <1>0, <1>1, <1>2, <2>2, SendFacts DEF Doing, IInv
<1>3. ASSUME NEW c \in Clients, Statement(c) PROVE Filled'
  <2>1. CASE Reads(c) \/ Writing(c)
    <3>1. Proceeds(c)
      BY <2>1 DEF Reads, Writing
    <3>2. /\ Nowhere \notin DOMAIN tx'[c].dirty
          /\ \A k \in DOMAIN tx'[c].dirty \ DOMAIN rows : Complete(k, tx'[c].dirty[k])
      <4>1. CASE Reads(c)
        BY <4>1 DEF Reads, Filled
      <4> QED
        BY <2>1, <4>1, WriteFilled
    <3>3. DOMAIN tx[c].dirty \subseteq DOMAIN tx'[c].dirty
      <4>1. CASE Reads(c)
        BY <4>1 DEF Reads
      <4>2. CASE Writing(c)
        <5>1. PICK k, values : tx'[c].dirty = Write(tx[c], k, values).dirty
          BY <4>2 DEF Writing
        <5> QED
          BY <5>1, WriteDirty DEF IInv, Shape
      <4> QED
        BY <2>1, <4>1, <4>2
    <3>4. ASSUME NEW verb \in {"recall", "touch", "upsert", "save"}, Doing(c, verb)'
          PROVE  (Row(c) \in Known(c))'
      <4>1. tx'[c].todo # <<>> /\ Head(tx'[c].todo).do = verb /\ Running(c)'
        BY <3>4 DEF Doing
      <4>2. Prepares(Head(tx[c].todo), Head(tx'[c].todo))
        BY <3>1, <4>1, NextStatement DEF IInv
      <4>3. \/ Doing(c, "find") \/ Doing(c, "recall") \/ Doing(c, "touch")
        BY <3>1, <3>4, <4>1, <4>2 DEF Prepares, Doing, Proceeds, Do
      <4>4. Head(tx[c].todo).kind = Head(tx'[c].todo).kind
        BY <3>4, <4>1, <4>2 DEF Prepares, Do
      <4>5. tx'[c].at = tx[c].at
        BY <3>1, <4>3 DEF Proceeds, Doing
      <4>6. Row(c) \in Known(c)
        BY <2>1, <4>3 DEF Reads, Writing, Filled, Found
      <4> QED
        BY <3>1, <3>3, <4>4, <4>5, <4>6 DEF Row, Kind, Known, Proceeds
    <3> QED
      BY <1>1, <3>1, <3>2, <3>4 DEF Proceeds
  <2>2. CASE Stops(c)
    BY <1>0, <1>1, <2>2 DEF Stops, Doing, Running
  <2>3. CASE Commit(c)
    <3>1. /\ Alone(c) /\ rows' = [k \in Known(c) |-> Seen(c, k)] /\ tx'[c].status = "ok"
          /\ DOMAIN tx'[c].dirty = {}
      BY <1>0, <2>3, CommitFacts DEF IInv
    <3>2. ASSUME NEW k \in DOMAIN rows' PROVE Complete(k, rows'[k])
      <4>1. CASE k \in DOMAIN rows
        <5>1. DOMAIN rows[k] \subseteq DOMAIN rows'[k] /\ Complete(k, rows[k])
          BY <3>1, <4>1 DEF Known, Seen, Over, Filled
        <5> QED
          BY <5>1 DEF Complete
      <4>2. CASE k \notin DOMAIN rows
        <5>1. k \in DOMAIN tx[c].dirty /\ rows'[k] = tx[c].dirty[k]
          BY <3>1, <4>2 DEF Known, Seen
        <5> QED
          BY <4>2, <5>1 DEF Filled
      <4> QED
        BY <4>1, <4>2
    <3>3. DOMAIN rows \subseteq DOMAIN rows' /\ Nowhere \notin DOMAIN rows'
      BY <3>1 DEF Known, Filled
    <3> QED
      BY <3>1, <3>2, <3>3 DEF Filled, Alone, Doing, Running, Row, Kind, Known
  <2> QED
    BY <1>3, <2>1, <2>2, <2>3, StatementKinds DEF IInv
<1>4. CASE UNCHANGED vars
  BY <1>4 DEF vars, Filled, Doing, Running, Row, Kind, Known
<1> QED
  BY <1>2, <1>3, <1>4 DEF Next

-----------------------------------------------------------------------------
(* No edit is undone *)

Changes(c) == tx[c].request.changes
Editing(c) == Running(c) /\ tx[c].request.op \in {"edit", "close"}

\* Another edit changed column x of the row that c is to change.
Overruled(c, x) ==
    \E d \in Edited \ {c} : Target(d) = Target(c) /\ x \in DOMAIN Changes(d)

\* c has yet to read the row that it is to change;
ToRead(c) ==
    /\ Len(tx[c].todo) >= 2
    /\ tx[c].todo[1] = Do("find", tx[c].request.kind)
    /\ tx[c].todo[2] = Do("save", tx[c].request.kind)
    /\ DOMAIN tx[c].read = {} /\ DOMAIN tx[c].dirty = {}

\* or c has read it, and the row is still like that;
ToSave(c, x) ==
    /\ Doing(c, "save") /\ DOMAIN tx[c].dirty = {}
    /\ Target(c) \in DOMAIN rows
    /\ tx[c].read[Target(c)][x] = rows[Target(c)][x] \/ Overruled(c, x)

Stored(c, x) ==
    /\ Target(c) \in DOMAIN rows
    /\ rows[Target(c)][x] = Changes(c)[x] \/ Overruled(c, x)

\* or c has written the new value, if it had to.
HasWritten(c, x) == Target(c) \in DOMAIN tx[c].dirty /\ x \in DOMAIN tx[c].dirty[Target(c)]

Pending(c, x) ==
    /\ Target(c) \in DOMAIN rows
    /\ IF HasWritten(c, x) THEN tx[c].dirty[Target(c)][x] = Changes(c)[x] ELSE Stored(c, x)

EditKept(c) ==
    /\ Editing(c) => \A x \in DOMAIN Changes(c) : ToRead(c) \/ ToSave(c, x) \/ Pending(c, x)
    /\ c \in Edited => /\ tx[c].request \in Requests
                       /\ \A x \in DOMAIN Changes(c) : Stored(c, x)

\* A request writes no column of a row that it is not to change.
OwnColumns ==
    \A c \in Clients : \A k \in DOMAIN tx[c].dirty :
        k \in DOMAIN rows /\ k \in Ids =>
            \A x \in DOMAIN tx[c].dirty[k] :
                x = "words" \/ (Editing(c) /\ k = Target(c) /\ x \in DOMAIN Changes(c))

EInv == OwnColumns /\ \A c \in Clients : EditKept(c)

\* What a request changes is a column of its row, and no count.
LEMMA ChangesFacts ==
    ASSUME NEW r \in Requests, r.op \in {"edit", "close"}
    PROVE  /\ r.at[r.kind] \in Ids \cup {Nowhere}
           /\ "words" \notin DOMAIN r.changes
           /\ DOMAIN r.changes \subseteq DOMAIN Assigned(r)
           /\ DOMAIN Assigned(r) \subseteq DOMAIN r.changes \cup {"words"}
           /\ \A x \in DOMAIN r.changes : Assigned(r)[x] = r.changes[x]
<1>1. r.kind \in Kinds /\ r.at \in Address /\ DOMAIN r.changes \subseteq Editable(r.kind)
  BY StoreAssumption
<1>2. r.at[r.kind] \in Ids \cup {Nowhere}
  BY <1>1 DEF Kinds, Address, Ids
<1>3. "words" \notin DOMAIN r.changes
  BY <1>1 DEF Kinds, Editable
<1>4. CASE "content" \in DOMAIN r.changes
  <2> DEFINE counts == [words |-> CountWords[r.changes.content]]
  <2>1. Assigned(r) = [x \in DOMAIN r.changes \cup {"words"} |-> IF x \in DOMAIN r.changes THEN r.changes[x] ELSE counts[x]]
    BY <1>4 DEF Assigned, Over
  <2> QED
    BY <1>2, <1>3, <2>1
<1>5. CASE "content" \notin DOMAIN r.changes
  BY <1>2, <1>3, <1>5 DEF Assigned
<1> QED
  BY <1>4, <1>5

\* Who is neither an edit that was committed nor becomes one changes nothing of
\* what the others rely on, unless it changes the rows.
LEMMA OthersKept ==
    ASSUME \A d \in Clients : EditKept(d), NEW c \in Clients, Alone(c), rows' = rows,
           tx[c].status # "ok", tx'[c].status # "ok"
    PROVE  /\ \A d \in Clients \ {c} : EditKept(d)'
           /\ Edited' = Edited
           /\ \A d \in Clients : \A x : tx'[d].request = tx[d].request => (Overruled(d, x)' <=> Overruled(d, x))
<1>1. Edited' = Edited /\ c \notin Edited
  BY DEF Edited, Alone
<1>2. \A d \in Edited : d # c /\ tx'[d] = tx[d]
  BY <1>1 DEF Edited, Alone
<1>3. \A d \in Clients : \A x : tx'[d].request = tx[d].request => (Overruled(d, x)' <=> Overruled(d, x))
  BY <1>1, <1>2 DEF Overruled, Target, Changes
<1>4. ASSUME NEW d \in Clients \ {c} PROVE EditKept(d)'
  <2>1. tx'[d] = tx[d] /\ \A x : Overruled(d, x)' <=> Overruled(d, x)
    BY <1>3 DEF Alone
  <2>2. EditKept(d)
    OBVIOUS
  <2> QED
    BY <1>1, <2>1, <2>2 DEF EditKept, Editing, Changes, ToRead, ToSave, Pending, HasWritten, Stored, Target, Doing, Running
<1> QED
  BY <1>1, <1>3, <1>4

\* What the save that a request is about to do assigns, and to which row.
LEMMA SaveFacts ==
    ASSUME IInv, Scripted, NEW c \in Clients, Doing(c, "save")
    PROVE  /\ Editing(c) /\ Row(c) = Target(c)
           /\ DOMAIN Values(c) \subseteq DOMAIN Changes(c) \cup {"words"}
           /\ \A x \in DOMAIN Values(c) \cap DOMAIN Changes(c) : Values(c)[x] = Changes(c)[x]
           /\ \A x \in DOMAIN Changes(c) \ DOMAIN Values(c) : Changes(c)[x] = tx[c].read[Target(c)][x]
<1>1. /\ tx[c].request \in Requests /\ Suits(tx[c].request, Do("save", Kind(c)))
      /\ tx[c].at = tx[c].request.at
  BY HeadFacts DEF IInv
<1>2. tx[c].request.op \in {"edit", "close"} /\ Kind(c) = tx[c].request.kind
  BY <1>1 DEF Suits, Do
<1>3. Editing(c) /\ Row(c) = Target(c)
  BY <1>1, <1>2 DEF Editing, Doing, Row, Target
<1> QED
  BY <1>1, <1>2, <1>3, ChangesFacts DEF Values, Changed, Changes

\* Every step of a request keeps to its own columns.
LEMMA OwnColumnsStep ==
    ASSUME IInv, Scripted, OwnColumns, [Next]_vars
    PROVE  OwnColumns'
<1>0. DOMAIN <<>> = {}
  OBVIOUS
<1> DEFINE Own(c, k) == \A x \in DOMAIN tx[c].dirty[k] :
                           x = "words" \/ (Editing(c) /\ k = Target(c) /\ x \in DOMAIN Changes(c))
\* Only what c wrote can be different.
<1>1. ASSUME NEW c \in Clients, Alone(c), rows' = rows,
             \A k \in DOMAIN tx'[c].dirty : k \in DOMAIN rows /\ k \in Ids => Own(c, k)'
      PROVE  OwnColumns'
  BY <1>1 DEF OwnColumns, Alone, Editing, Running, Target, Changes
<1>2. ASSUME NEW c \in Clients, Send(c) PROVE OwnColumns'
  BY <1>0, <1>1, <1>2, SendFacts DEF IInv
<1>3. ASSUME NEW c \in Clients, Statement(c) PROVE OwnColumns'
  <2>1. CASE Reads(c)
    BY <1>1, <2>1 DEF Reads, Proceeds, OwnColumns, Editing, Running, Target, Changes
  <2>2. CASE Writing(c)
    <3>1. PICK k, values : Permitted(c, k, values) /\ tx'[c].dirty = Write(tx[c], k, values).dirty
      BY <2>2 DEF Writing
    <3>2. /\ DOMAIN tx'[c].dirty = DOMAIN tx[c].dirty \cup {k}
          /\ \A j \in DOMAIN tx[c].dirty \ {k} : tx'[c].dirty[j] = tx[c].dirty[j]
          /\ tx'[c].dirty[k] = IF k \in DOMAIN tx[c].dirty THEN Over(values, tx[c].dirty[k]) ELSE values
      BY <3>1, WriteDirty DEF IInv, Shape
    <3>3. /\ Alone(c) /\ rows' = rows /\ Running(c)' /\ Running(c)
          /\ tx'[c].request = tx[c].request
      BY <2>2 DEF Writing, Proceeds, Running
    <3>4. \A j \in DOMAIN tx[c].dirty \ {k} : j \in DOMAIN rows /\ j \in Ids => Own(c, j)'
      BY <3>2, <3>3 DEF OwnColumns, Editing, Target, Changes
    <3>5. ASSUME k \in DOMAIN rows, k \in Ids PROVE Own(c, k)'
      <4>1. \A x \in DOMAIN values :
               x = "words" \/ (Editing(c) /\ k = Target(c) /\ x \in DOMAIN Changes(c))
        <5>1. CASE Doing(c, "save")
          BY <3>1, <5>1, PermittedKinds, SaveFacts DEF IInv
        <5>2. CASE ~Doing(c, "save")
          BY <1>0, <3>1, <3>5, <5>2, PermittedKinds, StoreAssumption DEF Known, IInv
        <5> QED
          BY <5>1, <5>2
      <4>2. k \in DOMAIN tx[c].dirty => Own(c, k)
        BY <3>5 DEF OwnColumns
      <4>3. \A x \in DOMAIN tx'[c].dirty[k] :
               x \in DOMAIN values \/ (k \in DOMAIN tx[c].dirty /\ x \in DOMAIN tx[c].dirty[k])
        BY <3>2 DEF Over
      <4>4. Editing(c)' = Editing(c) /\ Target(c)' = Target(c) /\ Changes(c)' = Changes(c)
        BY <3>3 DEF Editing, Target, Changes
      <4> QED
        BY <4>1, <4>2, <4>3, <4>4
    <3> QED
      BY <1>1, <3>2, <3>3, <3>4, <3>5
  <2>3. CASE Stops(c)
    BY <1>0, <1>1, <2>3 DEF Stops
  <2>4. CASE Commit(c)
    <3>1. /\ Alone(c) /\ DOMAIN rows' = DOMAIN rows \cup DOMAIN tx[c].dirty
          /\ DOMAIN tx'[c].dirty = {}
      BY <1>0, <2>4, CommitFacts DEF IInv, Known
    <3>2. \A d \in Clients \ {c} : tx'[d] = tx[d] /\ DOMAIN tx[d].dirty \cap DOMAIN tx[c].dirty = {}
      BY <3>1 DEF Alone, IInv, OneWriter
    <3> QED
      BY <3>1, <3>2 DEF OwnColumns, Editing, Running, Target, Changes
  <2> QED
    BY <1>3, <2>1, <2>2, <2>3, <2>4, StatementKinds DEF IInv
<1>4. CASE UNCHANGED vars
  BY <1>4 DEF vars, OwnColumns, Editing, Running, Target, Changes
<1> QED
  BY <1>2, <1>3, <1>4 DEF Next

\* The row an edit is to change is no ribbon.
LEMMA TargetFacts ==
    ASSUME Shape, NEW c \in Clients, Editing(c)
    PROVE  tx[c].request \in Requests /\ Target(c) \in Ids \cup {Nowhere} /\ Target(c) \notin Ribbons
<1>1. tx[c].request \in Requests /\ tx[c].request.op \in {"edit", "close"}
  BY DEF Shape, Editing, Running
<1>2. Target(c) \in Ids \cup {Nowhere}
  BY <1>1, ChangesFacts DEF Target
<1> QED
  BY <1>1, <1>2, StoreAssumption DEF Rows

\* An edit stays on its way when it reads: it finds its row, or its save finds
\* nothing to change.
LEMMA ReadingEdit ==
    ASSUME IInv, Scripted, NEW c \in Clients, EditKept(c), Reads(c), Editing(c),
           NEW x \in DOMAIN Changes(c), Overruled(c, x)' <=> Overruled(c, x)
    PROVE  (ToRead(c) \/ ToSave(c, x) \/ Pending(c, x))'
<1>0. /\ Proceeds(c) /\ tx'[c].dirty = tx[c].dirty /\ rows' = rows /\ tx'[c].request = tx[c].request
      /\ Running(c) /\ Running(c)' /\ tx[c].todo # <<>> /\ Shape
      /\ Script(tx[c].request, tx[c].todo) /\ tx[c].at = tx[c].request.at
      /\ Target(c)' = Target(c) /\ Changes(c)' = Changes(c)
  BY DEF Reads, Proceeds, Running, IInv, Target, Changes, Scripted, Editing
<1>1. CASE ToRead(c)
  <2>1. Head(tx[c].todo) = Do("find", tx[c].request.kind)
    BY <1>0, <1>1, ScriptGoesOn DEF ToRead
  <2>2. Doing(c, "find") /\ Row(c) = Target(c)
    BY <1>0, <2>1 DEF Doing, Row, Kind, Target, Do
  <2>3. Target(c) \in DOMAIN rows /\ tx'[c].read[Target(c)] = rows[Target(c)]
    BY <1>1, <2>2 DEF Reads, ToRead, Found, Known, Seen, Over
  <2>4. tx'[c].todo # <<>> /\ Head(tx'[c].todo) = tx[c].todo[2]
    <3> DEFINE t == Tail(tx[c].todo)
    <3>1. /\ Len(t) = Len(tx[c].todo) - 1 /\ Len(tx[c].todo) \in Nat /\ Len(tx[c].todo) >= 2
          /\ Script(tx[c].request, t)
      BY <1>0, <1>1, ScriptGoesOn DEF ToRead
    <3> HIDE DEF t
    <3>2. t # <<>>
      BY <3>1, EmptySeq
    <3>3. tx'[c].todo = t
      BY <1>0 DEF Proceeds, t
    <3> QED
      BY <1>0, <3>2, <3>3, NextStatement
  <2>5. Doing(c, "save")'
    BY <1>0, <1>1, <2>4 DEF Doing, ToRead, Do
  <2> QED
    BY <1>0, <1>1, <2>3, <2>5 DEF ToRead, ToSave
<1>2. CASE ToSave(c, x)
  <2>1. Changes(c)[x] = tx[c].read[Target(c)][x]
    BY <1>2, SaveFacts DEF ToSave, Reads
  <2> QED
    BY <1>0, <1>2, <2>1 DEF ToSave, Pending, HasWritten, Stored
<1>3. CASE Pending(c, x)
  BY <1>0, <1>3 DEF Pending, HasWritten, Stored
<1> QED
  BY <1>1, <1>2, <1>3 DEF EditKept

\* An edit stays on its way when it writes: its save writes what differs from the
\* row that was read, and later statements leave that alone.
LEMMA WritingEdit ==
    ASSUME IInv, Scripted, NEW c \in Clients, EditKept(c), Writing(c), Editing(c),
           NEW x \in DOMAIN Changes(c), Overruled(c, x)' <=> Overruled(c, x)
    PROVE  Pending(c, x)'
<1>0. /\ Proceeds(c) /\ rows' = rows /\ tx'[c].request = tx[c].request
      /\ Running(c) /\ tx[c].todo # <<>> /\ Shape
      /\ Script(tx[c].request, tx[c].todo)
      /\ Target(c)' = Target(c) /\ Changes(c)' = Changes(c)
  BY DEF Writing, Proceeds, Running, IInv, Target, Changes, Scripted
<1>1. PICK k, values : Permitted(c, k, values) /\ tx'[c].dirty = Write(tx[c], k, values).dirty
  BY DEF Writing
<1>2. /\ DOMAIN tx'[c].dirty = DOMAIN tx[c].dirty \cup {k}
      /\ \A j \in DOMAIN tx[c].dirty \ {k} : tx'[c].dirty[j] = tx[c].dirty[j]
      /\ tx'[c].dirty[k] = IF k \in DOMAIN tx[c].dirty THEN Over(values, tx[c].dirty[k]) ELSE values
  BY <1>1, WriteDirty DEF IInv, Shape
<1>3. ~ToRead(c)
  <2>1. SUFFICES ASSUME ToRead(c) PROVE Doing(c, "find")
    BY DEF Writing
  <2> QED
    BY <1>0, <2>1, ScriptGoesOn DEF ToRead, Doing, Do
<1>4. CASE ToSave(c, x)
  <2>1. k = Target(c) /\ values = Values(c)
    BY <1>0, <1>1, <1>4, PermittedKinds, SaveFacts DEF ToSave
  <2>2. tx'[c].dirty[Target(c)] = Values(c) /\ Target(c) \in DOMAIN tx'[c].dirty
    BY <1>2, <1>4, <2>1 DEF ToSave
  <2>3. CASE x \in DOMAIN Values(c)
    BY <1>0, <1>4, <2>2, <2>3, SaveFacts DEF ToSave, Pending, HasWritten
  <2>4. CASE x \notin DOMAIN Values(c)
    <3>1. Changes(c)[x] = tx[c].read[Target(c)][x]
      BY <1>4, <2>4, SaveFacts DEF ToSave
    <3> QED
      BY <1>0, <1>4, <2>2, <2>4, <3>1 DEF ToSave, Pending, HasWritten, Stored
  <2> QED
    BY <2>3, <2>4
<1>5. CASE Pending(c, x)
  <2>1. CASE k # Target(c)
    BY <1>0, <1>2, <1>5, <2>1 DEF Pending, HasWritten, Stored
  <2>2. CASE k = Target(c)
    <3>1. x \in DOMAIN values => values[x] = Changes(c)[x]
      <4>1. CASE Doing(c, "save")
        BY <1>0, <1>1, <4>1, PermittedKinds, SaveFacts
      <4>2. CASE ~Doing(c, "save")
        <5>1. DOMAIN <<>> = {}
          OBVIOUS
        <5>2. values = <<>>
          BY <1>0, <1>1, <1>5, <2>2, <4>2, PermittedKinds, TargetFacts DEF Pending, Known
        <5> QED
          BY <5>1, <5>2
      <4> QED
        BY <4>1, <4>2
    <3>2. CASE x \in DOMAIN values
      <4>1. x \in DOMAIN tx'[c].dirty[k] /\ tx'[c].dirty[k][x] = values[x]
        BY <1>2, <3>2 DEF Over
      <4> QED
        BY <1>0, <1>2, <1>5, <2>2, <3>1, <3>2, <4>1 DEF Pending, HasWritten
    <3>3. CASE x \notin DOMAIN values
      <4>1. HasWritten(c, x)' <=> HasWritten(c, x)
        BY <1>0, <1>2, <2>2, <3>3 DEF HasWritten, Over
      <4>2. HasWritten(c, x) => tx'[c].dirty[k][x] = tx[c].dirty[k][x]
        BY <1>2, <2>2, <3>3 DEF HasWritten, Over
      <4> QED
        BY <1>0, <1>5, <2>2, <4>1, <4>2 DEF Pending, Stored
    <3> QED
      BY <3>2, <3>3
  <2> QED
    BY <2>1, <2>2
<1> QED
  BY <1>3, <1>4, <1>5 DEF EditKept

\* A row that is there has the columns that an edit of it changes.
LEMMA ColumnThere ==
    ASSUME Filled, NEW c \in Clients, tx[c].request \in Requests, Target(c) \in DOMAIN rows
    PROVE  DOMAIN Changes(c) \subseteq DOMAIN rows[Target(c)]
<1>1. /\ tx[c].request.kind \in Kinds /\ tx[c].request.at \in Address
      /\ DOMAIN Changes(c) \subseteq Editable(tx[c].request.kind)
  BY StoreAssumption DEF Changes
<1>2. Target(c) \in Pool(tx[c].request.kind) \cup {Nowhere}
  BY <1>1 DEF Target, Kinds, Address, Pool
<1>3. Target(c) # Nowhere
  BY DEF Filled
<1> QED
  BY <1>1, <1>2, <1>3 DEF Filled, Complete

\* A commit stores what the request was to change.
LEMMA CommittedEdit ==
    ASSUME IInv, Filled, NEW c \in Clients, EditKept(c), Commit(c), Editing(c),
           NEW x \in DOMAIN Changes(c), Overruled(c, x)' <=> Overruled(c, x)
    PROVE  Stored(c, x)'
<1>1. /\ Running(c) /\ tx[c].todo = <<>> /\ rows' = [k \in Known(c) |-> Seen(c, k)]
      /\ tx'[c].request = tx[c].request /\ Shape
  BY CommitFacts DEF IInv
<1>2. Target(c)' = Target(c) /\ Changes(c)' = Changes(c)
  BY <1>1 DEF Target, Changes
<1>3. Pending(c, x)
  <2>1. ~ToRead(c) /\ ~ToSave(c, x)
    BY <1>1 DEF ToRead, ToSave, Doing
  <2> QED
    BY <2>1 DEF EditKept
<1>4. x \in DOMAIN rows[Target(c)]
  BY <1>3, ColumnThere, TargetFacts DEF Pending, IInv
<1>5. Target(c) \in DOMAIN rows' /\ rows'[Target(c)] = Seen(c, Target(c))
  BY <1>1, <1>3 DEF Pending, Known
<1>6. Seen(c, Target(c))[x] = IF HasWritten(c, x) THEN tx[c].dirty[Target(c)][x] ELSE rows[Target(c)][x]
  BY <1>3, <1>4 DEF Seen, Over, HasWritten, Pending
<1> QED
  BY <1>2, <1>3, <1>5, <1>6 DEF Pending, Stored

\* Whoever commits changes nothing of what another edit has stored, has read or
\* has not written, unless it overrules it.
LEMMA OthersOverruled ==
    ASSUME IInv, Filled, OwnColumns, NEW c \in Clients, Commit(c),
           NEW d \in Clients \ {c}, EditKept(d)
    PROVE  EditKept(d)'
<1>1. /\ Running(c) /\ tx[c].todo = <<>> /\ rows' = [k \in Known(c) |-> Seen(c, k)]
      /\ tx'[c].request = tx[c].request /\ tx'[c].status = "ok" /\ Alone(c)
  BY CommitFacts DEF IInv
<1>2. /\ Editing(d)' <=> Editing(d)
      /\ Target(d)' = Target(d) /\ Changes(d)' = Changes(d)
      /\ tx'[d] = tx[d]
  BY <1>1 DEF Alone, Editing, Running, Target, Changes
<1>3. /\ Edited \subseteq Edited' /\ (d \in Edited' => d \in Edited)
      /\ Editing(c) => c \in Edited'
      /\ \A e \in Edited : e # c /\ tx'[e] = tx[e]
  BY <1>1 DEF Edited, Alone, Running, Editing
<1>4. ASSUME NEW x, Overruled(d, x) PROVE Overruled(d, x)'
  <2>1. PICK e \in Edited \ {d} : Target(e) = Target(d) /\ x \in DOMAIN Changes(e)
    BY <1>4 DEF Overruled
  <2>2. e \in Edited' /\ tx'[e] = tx[e]
    BY <1>3
  <2>3. Target(e)' = Target(e) /\ Changes(e)' = Changes(e)
    BY <2>2 DEF Target, Changes
  <2> QED
    BY <1>2, <2>1, <2>2, <2>3 DEF Overruled
<1>5. ASSUME NEW x \in DOMAIN Changes(d), Target(d) \in DOMAIN rows, tx[d].request \in Requests,
             Target(d) \in Ids, "words" \notin DOMAIN Changes(d)
      PROVE  /\ Target(d) \in DOMAIN rows'
             /\ rows'[Target(d)][x] = rows[Target(d)][x] \/ Overruled(d, x)'
  <2>1. Target(d) \in DOMAIN rows' /\ rows'[Target(d)] = Seen(c, Target(d))
    BY <1>1, <1>5 DEF Known
  <2>2. x \in DOMAIN rows[Target(d)]
    BY <1>5, ColumnThere
  <2>4. CASE Target(d) \in DOMAIN tx[c].dirty /\ x \in DOMAIN tx[c].dirty[Target(d)]
    <3>1. Editing(c) /\ Target(d) = Target(c) /\ x \in DOMAIN Changes(c)
      BY <1>5, <2>4 DEF OwnColumns
    <3>2. Target(c)' = Target(c) /\ Changes(c)' = Changes(c)
      BY <1>1 DEF Target, Changes
    <3> QED
      BY <1>2, <1>3, <2>1, <3>1, <3>2 DEF Overruled
  <2>5. CASE ~(Target(d) \in DOMAIN tx[c].dirty /\ x \in DOMAIN tx[c].dirty[Target(d)])
    BY <1>5, <2>1, <2>2, <2>5 DEF Seen, Over
  <2> QED
    BY <2>4, <2>5
<1>6. ASSUME tx[d].request \in Requests, tx[d].request.op \in {"edit", "close"}, Target(d) \in DOMAIN rows
      PROVE  Target(d) \in Ids /\ "words" \notin DOMAIN Changes(d)
  BY <1>6, ChangesFacts DEF Filled, Target, Changes
<1>7. ASSUME Editing(d)', NEW x \in DOMAIN Changes(d) PROVE (ToRead(d) \/ ToSave(d, x) \/ Pending(d, x))'
  <2>1. tx[d].request \in Requests /\ tx[d].request.op \in {"edit", "close"} /\ Editing(d)
    BY <1>2, <1>7 DEF Editing, Running, IInv, Shape
  <2>2. CASE ToRead(d)
    BY <1>2, <2>2 DEF ToRead
  <2>3. CASE ToSave(d, x)
    BY <1>2, <1>4, <1>5, <1>6, <2>1, <2>3 DEF ToSave, Doing, Running
  <2>4. CASE Pending(d, x)
    BY <1>2, <1>4, <1>5, <1>6, <2>1, <2>4 DEF Pending, HasWritten, Stored
  <2> QED
    BY <1>7, <2>1, <2>2, <2>3, <2>4 DEF EditKept
<1>8. ASSUME d \in Edited', NEW x \in DOMAIN Changes(d) PROVE Stored(d, x)'
  <2>1. tx[d].request \in Requests /\ tx[d].request.op \in {"edit", "close"} /\ Stored(d, x)
    BY <1>3, <1>8 DEF EditKept, Edited
  <2> QED
    BY <1>2, <1>4, <1>5, <1>6, <2>1 DEF Stored
<1>9. d \in Edited' => tx'[d].request \in Requests
  BY <1>2, <1>3 DEF EditKept
<1> QED
  BY <1>2, <1>7, <1>8, <1>9 DEF EditKept

\* Nobody has edited anything at the start.
LEMMA InitEdits == Init => EInv
<1>1. DOMAIN <<>> = {}
  OBVIOUS
<1> QED
  BY <1>1 DEF Init, EInv, OwnColumns, EditKept, Editing, Edited, Running, Unsent

\* Every step leaves every edit on its way or stored, unless another one has
\* overruled it.
LEMMA EditsStep ==
    ASSUME IInv, Scripted, Filled, EInv, [Next]_vars
    PROVE  EInv'
<1>1. OwnColumns'
  BY OwnColumnsStep DEF EInv
<1>2. ASSUME NEW c \in Clients, Alone(c), rows' = rows, tx[c].status # "ok", tx'[c].status # "ok",
             Editing(c)' => \A x \in DOMAIN Changes(c)' : (ToRead(c) \/ ToSave(c, x) \/ Pending(c, x))'
      PROVE  \A d \in Clients : EditKept(d)'
  <2>1. \A d \in Clients \ {c} : EditKept(d)'
    BY <1>2, OthersKept DEF EInv
  <2>2. c \notin Edited'
    BY <1>2 DEF Edited
  <2>3. EditKept(c)'
    BY <1>2, <2>2 DEF EditKept
  <2> QED
    BY <2>1, <2>3
<1>3. ASSUME NEW c \in Clients, Send(c) PROVE \A d \in Clients : EditKept(d)'
  <2>1. /\ tx[c].status = "unsent" /\ Alone(c) /\ rows' = rows /\ tx'[c].status = "running"
        /\ Begins(tx'[c].request, tx'[c].todo) /\ DOMAIN tx'[c].read = {} /\ tx'[c].dirty = <<>>
    BY <1>3, SendFacts DEF IInv
  <2>2. DOMAIN <<>> = {}
    OBVIOUS
  <2>3. ASSUME Editing(c)', NEW x \in DOMAIN Changes(c)' PROVE ToRead(c)'
    BY <2>1, <2>2, <2>3 DEF Editing, Changes, Begins, ToRead
  <2> QED
    BY <1>2, <2>1, <2>3
<1>4. ASSUME NEW c \in Clients, Statement(c) PROVE \A d \in Clients : EditKept(d)'
  <2>1. CASE Reads(c) \/ Writing(c)
    <3>1. /\ Proceeds(c) /\ Alone(c) /\ rows' = rows /\ tx[c].status = "running"
          /\ tx'[c].status = "running" /\ tx'[c].request = tx[c].request
      BY <2>1 DEF Reads, Writing, Proceeds, Running
    <3>2. \A x : Overruled(c, x)' <=> Overruled(c, x)
      BY <3>1, OthersKept DEF EInv
    <3>3. Editing(c)' => Editing(c) /\ Changes(c)' = Changes(c)
      BY <3>1 DEF Editing, Running, Changes
    <3>4. ASSUME Editing(c)', NEW x \in DOMAIN Changes(c)'
          PROVE  (ToRead(c) \/ ToSave(c, x) \/ Pending(c, x))'
      BY <2>1, <3>2, <3>3, <3>4, ReadingEdit, WritingEdit DEF EInv
    <3> QED
      BY <1>2, <3>1, <3>4
  <2>2. CASE Stops(c)
    BY <1>2, <2>2 DEF Stops, Editing, Running
  <2>3. CASE Commit(c)
    <3>1. \A d \in Clients \ {c} : EditKept(d)'
      BY <2>3, OthersOverruled DEF EInv
    <3>2. /\ Running(c) /\ tx[c].todo = <<>> /\ Alone(c)
          /\ tx'[c].request = tx[c].request /\ tx'[c].status = "ok"
      BY <2>3, CommitFacts DEF IInv
    <3>3. Edited' \ {c} = Edited \ {c} /\ \A d \in Edited \ {c} : tx'[d] = tx[d]
      BY <3>2 DEF Edited, Alone
    <3>4. \A x : Overruled(c, x)' <=> Overruled(c, x)
      BY <3>2, <3>3 DEF Overruled, Target, Changes
    <3>5. c \in Edited' => Editing(c) /\ Changes(c)' = Changes(c)
      BY <3>2 DEF Edited, Editing, Changes
    <3>6. c \in Edited' => \A x \in DOMAIN Changes(c)' : Stored(c, x)'
      BY <2>3, <3>4, <3>5, CommittedEdit DEF EInv
    <3>7. tx'[c].request \in Requests
      BY <3>2 DEF IInv, Shape, Running
    <3>8. ~Editing(c)'
      BY <3>2 DEF Editing, Running
    <3>9. EditKept(c)'
      BY <3>6, <3>7, <3>8 DEF EditKept
    <3> QED
      BY <3>1, <3>9
  <2> QED
    BY <1>4, <2>1, <2>2, <2>3, StatementKinds DEF IInv
<1>5. CASE UNCHANGED vars
  <2>1. rows' = rows /\ tx' = tx /\ Edited' = Edited
    BY <1>5 DEF vars, Edited
  <2>2. ASSUME NEW d \in Clients PROVE EditKept(d)'
    <3>1. EditKept(d) /\ \A x : Overruled(d, x)' <=> Overruled(d, x)
      BY <2>1 DEF EInv, Overruled, Target, Changes
    <3> QED
      BY <2>1, <3>1 DEF EditKept, Editing, Changes, ToRead, ToSave, Pending, HasWritten, Stored,
                        Target, Doing, Running
  <2> QED
    BY <1>1, <2>2 DEF EInv
<1> QED
  BY <1>1, <1>3, <1>4, <1>5 DEF Next, EInv

\* However many requests run at the same time, an edit that was answered is in the
\* row it was of, but for the columns that another answered edit changed too.
THEOREM EditsCompose == Spec => []NoEditUndone
<1>1. Init => Filled /\ EInv
  BY InitFilled, InitEdits
<1>2. IInv /\ Scripted /\ Filled /\ EInv /\ [Next]_vars => Filled' /\ EInv'
  BY FilledStep, EditsStep
<1>3. EInv => NoEditUndone
  BY DEF EInv, EditKept, Stored, Overruled, Changes, NoEditUndone, Edited
<1> QED
  BY <1>1, <1>2, <1>3, SpecScripted, PTL DEF Spec

-----------------------------------------------------------------------------
(* Nobody waits in a circle *)

\* The row whose lock the next statement of c asks for: an UPDATE that sets a
\* column and none to NULL, and the upsert of a recent row (Stores, Update, Touch and
\* Upsert).
Claims(c, k) ==
    \/ Doing(c, "save") /\ k = Row(c) /\ DOMAIN Values(c) # {} /\ Storable(Values(c))
    \/ Doing(c, "touch") /\ k = Row(c)
    \/ Doing(c, "upsert") /\ k = Recent(Row(c))
    \/ /\ Doing(c, "tie") /\ tx[c].ribbon # Nowhere
       /\ k = tx[c].ribbon /\ DOMAIN Changed(c, k, tx[c].at) # {}

\* c has to wait until d ends: d has written the row that c asks for.
WaitsFor(c, d) == c # d /\ \E k \in DOMAIN tx[d].dirty : Claims(c, k)

\* However many requests wait, one of any of them waits for none of them.
NoCircle == \A S \in SUBSET Clients : S # {} => \E c \in S : \A d \in S : ~WaitsFor(c, d)

\* Nobody waits for a request that has ended: only one that runs has written rows.
Clean == \A c \in Clients : ~Running(c) => DOMAIN tx[c].dirty = {}

\* The statements that lock rows, and the order in which every request gets to
\* them: the page, the ribbon, the book, its recent row, the chapter, its recent row.
Locking == {"save", "touch", "upsert", "insert", "tie"}

Rank(s) ==
    CASE s.do = "tie"    -> 2
      [] s.do = "upsert" -> IF s.kind = "book" THEN 4 ELSE 6
      [] OTHER           -> IF s.kind = "page" THEN 1 ELSE IF s.kind = "book" THEN 3 ELSE 5

RowRank(k) ==
    CASE k \in Pages   -> 1
      [] k \in Ribbons -> 2
      [] k \in Books   -> 3
      [] k \in {Recent(id) : id \in Books} -> 4
      [] k \in Chapters -> 5
      [] OTHER         -> 6

\* A list of statements that locks rows in the order of their ranks, above lo and
\* up to hi.
Climbs(todo, lo, hi) ==
    /\ todo \in Seq(Statements)
    /\ \A j \in 1..Len(todo) : todo[j].do \in Locking => lo < Rank(todo[j]) /\ Rank(todo[j]) <= hi
    /\ \A i, j \in 1..Len(todo) :
          i < j /\ todo[i].do \in Locking /\ todo[j].do \in Locking => Rank(todo[i]) < Rank(todo[j])

\* What a request has still to lock ranks higher than all it has locked.
Climbing ==
    \A c \in Clients : Running(c) =>
        \E n \in 0..6 : /\ Climbs(tx[c].todo, n, 6)
                        /\ \A k \in DOMAIN tx[c].dirty : RowRank(k) <= n

\* Ranks are one to six.
LEMMA RankRange ==
    ASSUME NEW s
    PROVE  Rank(s) \in 1..6
BY DEF Rank

\* Two lists climb one after the other.
LEMMA ClimbsJoined ==
    ASSUME NEW lo \in Nat, NEW mid \in Nat, NEW hi \in Nat, lo <= mid, mid <= hi,
           NEW s, Climbs(s, lo, mid), NEW t, Climbs(t, mid, hi)
    PROVE  Climbs(s \o t, lo, hi)
<1> DEFINE u == s \o t
           m == Len(s)
           n == Len(t)
<1>1. s \in Seq(Statements) /\ t \in Seq(Statements) /\ m \in Nat /\ n \in Nat
  BY LenProperties DEF Climbs
<1>2. /\ u \in Seq(Statements) /\ Len(u) = m + n
      /\ \A j \in 1..Len(u) : u[j] = IF j <= m THEN s[j] ELSE t[j - m]
  BY <1>1, ConcatProperties
<1> HIDE DEF u
<1>3. \A j \in 1..Len(u) : \/ j \in 1..m /\ u[j] = s[j]
                           \/ j - m \in 1..n /\ u[j] = t[j - m] /\ ~(j \in 1..m)
  BY <1>1, <1>2
<1> HIDE DEF m, n
<1>4. ASSUME NEW j \in 1..Len(u), u[j].do \in Locking
      PROVE  lo < Rank(u[j]) /\ Rank(u[j]) <= hi
  <2>1. CASE j \in 1..m /\ u[j] = s[j]
    <3>1. lo < Rank(u[j]) /\ Rank(u[j]) <= mid
      BY <1>4, <2>1 DEF Climbs, m
    <3> QED
      BY <3>1, RankRange
  <2>2. CASE j - m \in 1..n /\ u[j] = t[j - m]
    <3>1. mid < Rank(u[j]) /\ Rank(u[j]) <= hi
      BY <1>4, <2>2 DEF Climbs, n
    <3> QED
      BY <3>1, RankRange
  <2> QED
    BY <1>3, <2>1, <2>2
<1>5. ASSUME NEW i \in 1..Len(u), NEW j \in 1..Len(u), i < j, u[i].do \in Locking, u[j].do \in Locking
      PROVE  Rank(u[i]) < Rank(u[j])
  <2>1. CASE j \in 1..m /\ u[j] = s[j]
    <3>1. i \in 1..m /\ u[i] = s[i]
      BY <1>1, <1>3, <1>5, <2>1
    <3> QED
      BY <1>5, <2>1, <3>1 DEF Climbs, m
  <2>2. CASE j - m \in 1..n /\ u[j] = t[j - m] /\ i \in 1..m /\ u[i] = s[i]
    <3>1. Rank(u[i]) <= mid /\ mid < Rank(u[j])
      BY <1>5, <2>2 DEF Climbs, m, n
    <3> QED
      BY <3>1, RankRange
  <2>3. CASE j - m \in 1..n /\ u[j] = t[j - m] /\ i - m \in 1..n /\ u[i] = t[i - m]
    <3>1. i - m < j - m
      BY <1>1, <1>5, <2>3
    <3> QED
      BY <1>5, <2>3, <3>1 DEF Climbs, n
  <2> QED
    BY <1>3, <2>1, <2>2, <2>3
<1> QED
  BY <1>2, <1>4, <1>5 DEF Climbs, u

\* The lists that the requests are made of climb.
LEMMA PiecesClimb ==
    /\ Climbs(<<>>, 0, 1)
    /\ Climbs(<<Do("find", "page"), Do("save", "page")>>, 0, 1)
    /\ Climbs(<<Do("find", "page"), Do("ribbon", "page"), Do("tie", "page")>>, 1, 2)
    /\ Climbs(Opens("book"), 2, 4) /\ Climbs(Opens("book"), 0, 6)
    /\ Climbs(Opens("chapter"), 4, 6) /\ Climbs(Opens("chapter"), 0, 6)
    /\ Climbs(<<Do("find", "page")>>, 6, 6)
BY DEF Climbs, Opens, Rank, Locking, Statements, Do, Kinds

\* Every request locks rows in one and the same order.
LEMMA ProgramClimbs ==
    ASSUME NEW r \in Requests
    PROVE  Climbs(Program(r), 0, 6)
<1>1. r.kind \in Kinds /\ r.op \in {"edit", "open", "create", "close", "reopen"}
  BY StoreAssumption
<1>2. CASE r.op = "edit"
  <2>1. Program(r) = <<Do("find", r.kind), Do("save", r.kind)>>
    BY <1>2 DEF Program
  <2>2. Rank(Do("save", r.kind)) \in 1..6
    BY RankRange
  <2> QED
    BY <1>1, <2>1, <2>2 DEF Climbs, Locking, Statements, Do
<1>3. CASE r.op = "open"
  <2>1. Program(r) = Opens(r.kind) /\ r.kind \in {"book", "chapter"}
    BY <1>3, StoreAssumption DEF Program
  <2> QED
    BY <2>1, PiecesClimb
<1>4. CASE r.op = "create"
  <2>1. Program(r) = Creates(r.kind)
    BY <1>4 DEF Program
  <2>2. CASE r.kind = "book"
    BY <2>1, <2>2 DEF Creates, Climbs, Rank, Locking, Statements, Do, Kinds
  <2>3. CASE r.kind = "chapter"
    BY <2>1, <2>3 DEF Creates, Climbs, Rank, Locking, Statements, Do, Kinds
  <2>4. CASE r.kind = "page"
    BY <2>1, <2>4 DEF Creates, Climbs, Rank, Locking, Statements, Do, Kinds
  <2> QED
    BY <1>1, <2>2, <2>3, <2>4 DEF Kinds
<1>5. CASE r.op = "close"
  <2> DEFINE saves == IF DOMAIN r.changes = {} THEN <<>> ELSE <<Do("find", "page"), Do("save", "page")>>
             ties  == <<Do("find", "page"), Do("ribbon", "page"), Do("tie", "page")>>
             first == saves \o ties
             second == first \o Opens("book")
             third == second \o Opens("chapter")
             ends  == <<Do("find", "page")>>
  <2>1. Program(r) = third \o ends
    BY <1>5 DEF Program
  <2>2. Climbs(saves, 0, 1) /\ Climbs(ties, 1, 2) /\ Climbs(ends, 6, 6)
    BY PiecesClimb
  <2> HIDE DEF saves, ties, ends
  <2>3. Climbs(first, 0, 2)
    BY <2>2, ClimbsJoined
  <2> HIDE DEF first
  <2>4. Climbs(second, 0, 4)
    BY <2>3, PiecesClimb, ClimbsJoined
  <2> HIDE DEF second
  <2>5. Climbs(third, 0, 6)
    BY <2>4, PiecesClimb, ClimbsJoined
  <2> HIDE DEF third
  <2>6. Climbs(third \o ends, 0, 6)
    BY <2>2, <2>5, ClimbsJoined
  <2> QED
    BY <2>1, <2>6
<1>6. CASE r.op = "reopen"
  BY <1>6 DEF Program, Climbs, Locking, Statements, Do, Kinds
<1> QED
  BY <1>1, <1>2, <1>3, <1>4, <1>5, <1>6

\* The rest of a list that climbs goes on from its first statement.
LEMMA ClimbsOn ==
    ASSUME NEW n \in Nat, NEW todo, todo # <<>>, Climbs(todo, n, 6)
    PROVE  /\ Climbs(Tail(todo), n, 6)
           /\ Head(todo).do \in Locking => n < Rank(Head(todo)) /\ Climbs(Tail(todo), Rank(Head(todo)), 6)
<1> DEFINE t == Tail(todo)
<1>1. /\ t \in Seq(Statements) /\ Len(todo) \in Nat /\ Len(todo) >= 1
      /\ Len(t) = Len(todo) - 1 /\ Head(todo) = todo[1]
      /\ \A j \in 1..Len(t) : t[j] = todo[j + 1]
  BY HeadTailProperties, EmptySeq, LenProperties DEF Climbs
<1> HIDE DEF t
<1>2. \A j \in 1..Len(t) : j + 1 \in 1..Len(todo) /\ t[j] = todo[j + 1] /\ 1 < j + 1
  BY <1>1
<1>3. \A i, j \in 1..Len(t) : i < j => i + 1 < j + 1
  BY <1>1
<1>4. 1 \in 1..Len(todo)
  BY <1>1
<1>5. Climbs(t, n, 6)
  BY <1>1, <1>2, <1>3 DEF Climbs
<1>6. Head(todo).do \in Locking => n < Rank(Head(todo)) /\ Climbs(t, Rank(Head(todo)), 6)
  BY <1>1, <1>2, <1>4, <1>5 DEF Climbs
<1> QED
  BY <1>5, <1>6 DEF t

\* A statement writes rows of its own rank.
LEMMA PermittedRank ==
    ASSUME IInv, Scripted, Filled, NEW c \in Clients, NEW k, NEW values, Permitted(c, k, values)
    PROVE  Head(tx[c].todo).do \in Locking /\ RowRank(k) = Rank(Head(tx[c].todo))
<1>0. /\ Books \cap Chapters = {} /\ Books \cap Pages = {} /\ Chapters \cap Pages = {}
      /\ Ribbons \cap Ids = {} /\ \A id \in Ids : Recent(id) \notin Ids \cup Ribbons
  BY StoreAssumption
<1>1. \A b, d : Recent(b) = Recent(d) => b = d
  BY DEF Recent
<1>2. ASSUME NEW verb \in {"save", "touch", "upsert"}, Doing(c, verb)
      PROVE  /\ Head(tx[c].todo) = Do(verb, Kind(c)) /\ Kind(c) \in Kinds
             /\ verb # "save" => Kind(c) # "page"
             /\ Row(c) \in Pool(Kind(c))
  <2>1. /\ Head(tx[c].todo) = Do(verb, Kind(c)) /\ Kind(c) \in Kinds
        /\ Suits(tx[c].request, Do(verb, Kind(c))) /\ Row(c) \in Pool(Kind(c)) \cup {Nowhere}
    BY <1>2, HeadFacts DEF IInv
  <2>2. Row(c) # Nowhere
    BY <1>2 DEF Filled, Known
  <2> QED
    BY <2>1, <2>2 DEF Suits, Do
<1>3. CASE Doing(c, "save") \/ Doing(c, "touch")
  <2>1. PICK verb \in {"save", "touch"} : Doing(c, verb)
    BY <1>3
  <2>2. k = Row(c)
    BY <2>1 DEF Permitted, Doing
  <2> QED
    BY <1>0, <1>2, <2>1, <2>2 DEF Rank, RowRank, Locking, Do, Pool, Kinds, Ids
<1>4. CASE Doing(c, "upsert")
  <2>1. k = Recent(Row(c))
    BY <1>4 DEF Permitted, Doing
  <2>2. /\ Head(tx[c].todo) = Do("upsert", Kind(c)) /\ Kind(c) \in {"book", "chapter"}
        /\ Row(c) \in Pool(Kind(c))
    BY <1>2, <1>4 DEF Kinds
  <2>3. CASE Kind(c) = "book"
    BY <1>0, <2>1, <2>2, <2>3 DEF Rank, RowRank, Locking, Do, Pool, Ids
  <2>4. CASE Kind(c) = "chapter"
    BY <1>0, <1>1, <2>1, <2>2, <2>4 DEF Rank, RowRank, Locking, Do, Pool, Ids
  <2> QED
    BY <2>2, <2>3, <2>4
<1>5. CASE Doing(c, "insert")
  <2>1. k \in Pool(Kind(c))
    BY <1>5 DEF Permitted, Doing
  <2>2. Head(tx[c].todo) = Do("insert", Kind(c)) /\ Kind(c) \in Kinds
    BY <1>5, HeadFacts DEF IInv
  <2> QED
    BY <1>0, <2>1, <2>2 DEF Rank, RowRank, Locking, Do, Pool, Kinds, Ids
<1>6. CASE Doing(c, "tie")
  <2>1. k \in Ribbons
    BY <1>6 DEF Permitted, Doing, IInv, Shape
  <2>2. Head(tx[c].todo) = Do("tie", Kind(c))
    BY <1>6, HeadFacts DEF IInv
  <2> QED
    BY <1>0, <2>1, <2>2 DEF Rank, RowRank, Locking, Do, Ids
<1> QED
  BY <1>3, <1>4, <1>5, <1>6 DEF Permitted

\* Every step keeps requests climbing.
LEMMA ClimbingStep ==
    ASSUME IInv, Scripted, Filled, Climbing, [Next]_vars
    PROVE  Climbing'
<1>1. ASSUME NEW c \in Clients, Alone(c),
             tx'[c].status = "running" =>
                 \E n \in 0..6 : /\ Climbs(tx'[c].todo, n, 6)
                                 /\ \A k \in DOMAIN tx'[c].dirty : RowRank(k) <= n
      PROVE  Climbing'
  BY <1>1 DEF Climbing, Alone, Running
<1>2. ASSUME NEW c \in Clients, Send(c) PROVE Climbing'
  <2>1. PICK r \in Requests :
          tx' = [tx EXCEPT ![c] = [Unsent EXCEPT !.status = "running", !.request = r,
                                                 !.todo = Program(r), !.at = r.at]]
    BY <1>2 DEF Send
  <2>2. tx'[c].todo = Program(r) /\ tx'[c].dirty = <<>>
    BY <2>1 DEF IInv, Shape, Unsent
  <2>3. DOMAIN tx'[c].dirty = {}
    BY <2>2
  <2>4. Alone(c)
    BY <1>2, SendFacts DEF IInv
  <2>5. Climbs(tx'[c].todo, 0, 6)
    BY <2>2, ProgramClimbs
  <2> QED
    BY <1>1, <2>3, <2>4, <2>5
<1>3. ASSUME NEW c \in Clients, Statement(c) PROVE Climbing'
  <2>1. CASE Reads(c) \/ Writing(c)
    <3>1. /\ Running(c) /\ tx[c].todo # <<>> /\ Alone(c) /\ tx'[c].todo = Tail(tx[c].todo)
      BY <2>1 DEF Reads, Writing, Proceeds
    <3>2. PICK n \in 0..6 : Climbs(tx[c].todo, n, 6) /\ \A k \in DOMAIN tx[c].dirty : RowRank(k) <= n
      BY <3>1 DEF Climbing
    <3>3. CASE Reads(c)
      <4>1. tx'[c].dirty = tx[c].dirty
        BY <3>3 DEF Reads
      <4>2. Climbs(tx'[c].todo, n, 6)
        BY <3>1, <3>2, ClimbsOn
      <4> QED
        BY <1>1, <3>1, <3>2, <4>1, <4>2
    <3>4. CASE Writing(c)
      <4>1. PICK k, values : Permitted(c, k, values) /\ tx'[c].dirty = Write(tx[c], k, values).dirty
        BY <3>4 DEF Writing
      <4> DEFINE m == Rank(Head(tx[c].todo))
      <4>2. Head(tx[c].todo).do \in Locking /\ RowRank(k) = m
        BY <4>1, PermittedRank
      <4>3. m \in 1..6
        BY RankRange
      <4>4. n < m /\ Climbs(tx'[c].todo, m, 6)
        BY <3>1, <3>2, <4>2, ClimbsOn
      <4>5. DOMAIN tx'[c].dirty = DOMAIN tx[c].dirty \cup {k}
        BY <4>1, WriteDirty DEF IInv, Shape
      <4> HIDE DEF m
      <4>6. \A j : RowRank(j) \in 1..6
        BY DEF RowRank
      <4>7. \A j \in DOMAIN tx'[c].dirty : RowRank(j) <= m
        BY <3>2, <4>2, <4>3, <4>4, <4>5, <4>6
      <4>8. m \in 0..6
        BY <4>3
      <4> QED
        BY <1>1, <3>1, <4>4, <4>7, <4>8
    <3> QED
      BY <2>1, <3>3, <3>4
  <2>2. CASE Stops(c)
    BY <1>1, <2>2 DEF Stops
  <2>3. CASE Commit(c)
    BY <1>1, <2>3, CommitFacts DEF IInv
  <2> QED
    BY <1>3, <2>1, <2>2, <2>3, StatementKinds DEF IInv
<1>4. CASE UNCHANGED vars
  BY <1>4 DEF vars, Climbing, Running
<1> QED
  BY <1>2, <1>3, <1>4 DEF Next

\* A request that ends lets go of its locks.
LEMMA CleanStep ==
    ASSUME IInv, Scripted, Clean, [Next]_vars
    PROVE  Clean'
<1>0. DOMAIN <<>> = {}
  OBVIOUS
<1>1. ASSUME NEW c \in Clients, Alone(c), tx'[c].status = "running" \/ tx'[c].dirty = <<>>
      PROVE  Clean'
  BY <1>0, <1>1 DEF Clean, Alone, Running
<1>2. ASSUME NEW c \in Clients, Send(c) PROVE Clean'
  BY <1>1, <1>2, SendFacts DEF IInv
<1>3. ASSUME NEW c \in Clients, Statement(c) PROVE Clean'
  <2>1. CASE Reads(c) \/ Writing(c)
    BY <1>1, <2>1 DEF Reads, Writing, Proceeds
  <2>2. CASE Stops(c)
    BY <1>1, <2>2 DEF Stops
  <2>3. CASE Commit(c)
    BY <1>1, <2>3, CommitFacts DEF IInv
  <2> QED
    BY <1>3, <2>1, <2>2, <2>3, StatementKinds DEF IInv
<1>4. CASE UNCHANGED vars
  BY <1>4 DEF vars, Clean, Running
<1> QED
  BY <1>2, <1>3, <1>4 DEF Next

\* A request asks for a row of the rank of its next statement.
LEMMA ClaimRank ==
    ASSUME IInv, Scripted, Filled, NEW c \in Clients, NEW k, Claims(c, k)
    PROVE  /\ Running(c) /\ tx[c].todo # <<>>
           /\ Head(tx[c].todo).do \in Locking /\ RowRank(k) = Rank(Head(tx[c].todo))
<1>1. \E values : Permitted(c, k, values)
  BY DEF Claims, Permitted
<1>2. Running(c) /\ tx[c].todo # <<>>
  BY DEF Claims, Doing
<1> QED
  BY <1>1, <1>2, PermittedRank

\* To wait for another request is to do nothing: its locks are in the guards.
LEMMA WaitersStay ==
    ASSUME Shape, NEW c \in Clients, Statement(c), NEW d \in Clients
    PROVE  ~WaitsFor(c, d)
<1>1. SUFFICES ASSUME NEW k, Claims(c, k), LockedFor(c, k) PROVE FALSE
  BY DEF WaitsFor, LockedFor
<1>2. \A v, w : Doing(c, v) /\ Doing(c, w) => v = w
  BY DEF Doing
<1>3. CASE Doing(c, "save")
  <2>1. Save(c) /\ k = Row(c) /\ DOMAIN Values(c) # {} /\ Storable(Values(c))
    BY <1>1, <1>2, <1>3 DEF Claims, Statement, Find, Try, FindRibbon, Aim, Recall, TakeNumber, Touch,
                           Upsert, Tie, Insert, Commit, Doing
  <2> QED
    BY <1>1, <2>1 DEF Save, Stores, Storable, Update, Values
<1>4. CASE Doing(c, "touch")
  <2>1. Touch(c) /\ k = Row(c)
    BY <1>1, <1>2, <1>4 DEF Claims, Statement, Find, Try, FindRibbon, Aim, Recall, TakeNumber, Save,
                           Upsert, Tie, Insert, Commit, Doing
  <2> QED
    BY <1>1, <2>1 DEF Touch
<1>5. CASE Doing(c, "upsert")
  <2>1. Upsert(c) /\ k = Recent(Row(c))
    BY <1>1, <1>2, <1>5 DEF Claims, Statement, Find, Try, FindRibbon, Aim, Recall, TakeNumber, Save,
                           Touch, Tie, Insert, Commit, Doing
  <2> QED
    BY <1>1, <2>1 DEF Upsert
<1>6. CASE Doing(c, "tie")
  <2>1. /\ Tie(c) /\ tx[c].ribbon # Nowhere
        /\ k = tx[c].ribbon /\ DOMAIN Changed(c, k, tx[c].at) # {}
    BY <1>1, <1>2, <1>6 DEF Claims, Statement, Find, Try, FindRibbon, Aim, Recall, TakeNumber, Save,
                           Touch, Upsert, Insert, Commit, Doing
  <2> QED
    BY <1>1, <2>1 DEF Tie, Update
<1> QED
  BY <1>1, <1>3, <1>4, <1>5, <1>6 DEF Claims

\* Whoever waits for a request that waits itself is to lock a row of a lower rank.
LEMMA WaitsUpward ==
    ASSUME IInv, Scripted, Filled, Climbing,
           NEW c \in Clients, NEW d \in Clients, NEW e \in Clients, WaitsFor(c, d), WaitsFor(d, e)
    PROVE  Rank(Head(tx[c].todo)) < Rank(Head(tx[d].todo))
<1>1. PICK k \in DOMAIN tx[d].dirty : Claims(c, k)
  BY DEF WaitsFor
<1>2. PICK j : Claims(d, j)
  BY DEF WaitsFor
<1>3. RowRank(k) = Rank(Head(tx[c].todo))
  BY <1>1, ClaimRank
<1>4. Running(d) /\ tx[d].todo # <<>> /\ Head(tx[d].todo).do \in Locking
  BY <1>2, ClaimRank
<1>5. PICK n \in 0..6 : Climbs(tx[d].todo, n, 6) /\ RowRank(k) <= n
  BY <1>1, <1>4 DEF Climbing
<1>6. n < Rank(Head(tx[d].todo))
  BY <1>4, <1>5, ClimbsOn
<1>7. Rank(Head(tx[c].todo)) \in 1..6 /\ Rank(Head(tx[d].todo)) \in 1..6
  BY RankRange
<1> QED
  BY <1>3, <1>5, <1>6, <1>7

\* A set of ranks has a greatest one.
LEMMA GreatestRank ==
    ASSUME NEW T \in SUBSET (1..6), T # {}
    PROVE  \E n \in T : \A m \in T : m <= n
<1>0. 1 \in T \/ 2 \in T \/ 3 \in T \/ 4 \in T \/ 5 \in T \/ 6 \in T
  BY \A m \in 1..6 : m = 1 \/ m = 2 \/ m = 3 \/ m = 4 \/ m = 5 \/ m = 6
<1>1. CASE 6 \in T
  BY <1>1
<1>2. CASE 5 \in T /\ 6 \notin T
  BY <1>2
<1>3. CASE 4 \in T /\ 5 \notin T /\ 6 \notin T
  BY <1>3
<1>4. CASE 3 \in T /\ 4 \notin T /\ 5 \notin T /\ 6 \notin T
  BY <1>4
<1>5. CASE 2 \in T /\ 3 \notin T /\ 4 \notin T /\ 5 \notin T /\ 6 \notin T
  BY <1>5
<1>6. CASE 1 \in T /\ 2 \notin T /\ 3 \notin T /\ 4 \notin T /\ 5 \notin T /\ 6 \notin T
  BY <1>6
<1> QED
  BY <1>0, <1>1, <1>2, <1>3, <1>4, <1>5, <1>6

\* Requests whose ranks grow along every wait do not wait in a circle.
LEMMA ClimbingNoCircle ==
    ASSUME IInv, Scripted, Filled, Climbing
    PROVE  NoCircle
<1>1. SUFFICES ASSUME NEW S \in SUBSET Clients, S # {}, \A c \in S : \E d \in S : WaitsFor(c, d)
               PROVE  FALSE
  BY DEF NoCircle
<1> DEFINE R(c) == Rank(Head(tx[c].todo))
           T == {R(c) : c \in S}
<1>2. T \in SUBSET (1..6) /\ T # {}
  BY <1>1, RankRange
<1>3. PICK n \in T : \A m \in T : m <= n
  <2> HIDE DEF T
  <2> QED
    BY <1>2, GreatestRank
<1>4. PICK c \in S : R(c) = n
  OBVIOUS
<1>5. PICK d \in S : WaitsFor(c, d)
  BY <1>1
<1>6. PICK e \in S : WaitsFor(d, e)
  BY <1>1
<1>7. R(c) < R(d)
  BY <1>5, <1>6, WaitsUpward
<1>8. R(d) <= n /\ R(c) \in 1..6 /\ R(d) \in 1..6
  BY <1>3, RankRange
<1> QED
  BY <1>4, <1>7, <1>8

\* However many requests run at the same time, they never wait for each other's
\* locks in a circle, and never for the locks of one that has been answered: every
\* request gets to the tables of soulbook_service.py in one order.
THEOREM NoCircularWait == Spec => [](NoCircle /\ Clean)
<1>1. Init => Filled /\ Climbing /\ Clean
  <2>1. DOMAIN <<>> = {}
    OBVIOUS
  <2> QED
    BY <2>1, InitFilled DEF Init, Climbing, Clean, Running, Unsent
<1>2. IInv /\ Scripted /\ Filled /\ Climbing /\ Clean /\ [Next]_vars
        => Filled' /\ Climbing' /\ Clean'
  BY FilledStep, ClimbingStep, CleanStep
<1>3. IInv /\ Scripted /\ Filled /\ Climbing => NoCircle
  BY ClimbingNoCircle
<1> QED
  BY <1>1, <1>2, <1>3, SpecScripted, PTL DEF Spec
=============================================================================
