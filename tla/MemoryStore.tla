---------------------------- MODULE MemoryStore ----------------------------
(***************************************************************************)
(* The memories of one user: the Memory Writer that adds and updates them  *)
(* when a page is closed (backend/app/orchestra/writer/), the Memory       *)
(* Intelligence that stamps them with confidence and evidence and keeps    *)
(* their history (backend/app/orchestra/intelligence/), and the commit of  *)
(* the route.  Two requests of the user may run at the same time, each in  *)
(* a transaction of its own at READ COMMITTED.                             *)
(*                                                                         *)
(* Corrections and decay change the same rows.  No route calls them yet:   *)
(* they are modelled as the code has them, one after the other and never   *)
(* beside a closing.  A fact is a sentence of the diary; its type, the     *)
(* keywords it shares with others and the strength of its wording are      *)
(* constants.  Confidences are in hundredths, time is in days.             *)
(***************************************************************************)
EXTENDS Integers, Sequences, FiniteSets

CONSTANTS
    Clients,        \* requests that may run at the same time
    MemoryIds,      \* ids of rows
    FactNames,      \* sentences worth remembering
    TypeOf,         \* fact -> memory type
    Words,          \* fact -> its significant keywords
    Tier,           \* fact -> confidence of its wording: 40, 60, 80 or 99
    Precedence,     \* fact -> place of its pattern in _PATTERNS; smaller wins
    Evolving,       \* types updated in place
    Relationship,   \* the type whose memories are linked, never updated
    Needs,          \* needs_verification_threshold
    Minimum,        \* minimum_confidence
    DecayPerDay,    \* what a day takes
    MaxDay,         \* bound: days that pass
    MaxVersion,     \* bound: version of a corrected memory
    MaxHistory      \* bound: a memory with as many version rows changes no more

ASSUME MemoryAssumption ==
    /\ Tier \in [FactNames -> 1..99]
    /\ Precedence \in [FactNames -> Nat]
    /\ \A f, g \in FactNames : Precedence[f] = Precedence[g] => f = g
    /\ DOMAIN TypeOf = FactNames /\ DOMAIN Words = FactNames
    /\ Relationship \notin Evolving
    /\ {Needs, Minimum, DecayPerDay, MaxDay, MaxVersion, MaxHistory} \subseteq Nat
    /\ Minimum <= 99 /\ MaxVersion > 0

VARIABLES
    rows,      \* committed soul_memories: id -> row or NoRow
    history,   \* committed soul_memory_versions: id -> the version rows, oldest first
    tx,        \* client -> its transaction
    today,
    alone,     \* do requests run one after the other?
    sound,     \* does assess find its configuration every time?
    ever       \* history variable: id -> the texts the committed row has held, and whose

vars == <<rows, history, tx, today, alone, sound, ever>>

-----------------------------------------------------------------------------
(* Values *)

Never == 0 - 1
Days  == 0..MaxDay

NoRow == [fact |-> "none"]

\* key is the fact whose keywords the row carries: a correction leaves them.
Rows == [fact : FactNames, key : FactNames, confidence : 0..99,
         status : {"unverified", "needs_verification", "verified"},
         verifiedOn : Days \cup {Never}, updatedOn : Days, version : 1..MaxVersion,
         explained : BOOLEAN]

Versions == [version : 1..MaxVersion, fact : FactNames, confidence : 0..99,
             reason : {"create", "update", "user_correction"}, outdated : BOOLEAN]

\* A transaction: where it is, the row it works on as it was read and as its
\* session has it, the columns it has flushed, and the version rows inserted.
Idle == [at |-> "idle", op |-> "none", target |-> "none", read |-> NoRow, mine |-> NoRow,
         set |-> {}, log |-> <<>>]

Present == {m \in MemoryIds : rows[m] # NoRow}

\* Ids are fresh: no row and no other transaction has the one a row gets.
Spare == {m \in MemoryIds : rows[m] = NoRow /\ \A c \in Clients : tx[c].target # m}

\* The columns in which two copies differ.
Changed(old, new) == {column \in DOMAIN new : old[column] # new[column]}

\* An UPDATE waits for the transaction that has written the row.
LockedFor(c, m) == \E d \in Clients \ {c} : tx[d].target = m /\ tx[d].set # {}

May(c) == tx[c].at = "idle" /\ (alone => \A d \in Clients : tx[d].at = "idle")

Init ==
    /\ rows = [m \in MemoryIds |-> NoRow]
    /\ history = [m \in MemoryIds |-> <<>>]
    /\ tx = [c \in Clients |-> Idle]
    /\ today = 0
    /\ alone \in BOOLEAN
    /\ sound \in BOOLEAN
    /\ ever = [m \in MemoryIds |-> {}]

-----------------------------------------------------------------------------
(* The Memory Writer *)

\* extract: one fact of a page, by the order of the patterns.
Candidate(page) == CHOOSE f \in page : \A g \in page : Precedence[f] <= Precedence[g]

\* existing, then _find_match: rows of the type that share a keyword.  The query
\* has no order, so any of them may come first.
Matches(f) ==
    {m \in Present : TypeOf[rows[m].key] = TypeOf[f] /\ Words[rows[m].key] \cap Words[f] # {}}

NewRow(f) ==
    [fact |-> f, key |-> f, confidence |-> 60, status |-> "unverified", verifiedOn |-> Never,
     updatedOn |-> today, version |-> 1, explained |-> FALSE]

Proceeds(c, next) ==
    /\ tx' = [tx EXCEPT ![c] = next]
    /\ UNCHANGED <<rows, history, today, alone, sound, ever>>

\* Nothing like it is known, or a relationship, which gets a row of its own
\* linked to the one found.  INSERT and flush.
CreateMemory(c, page) ==
    /\ May(c)
    /\ LET f == Candidate(page) IN
       /\ IF Matches(f) = {} THEN TRUE
          ELSE TypeOf[f] = Relationship /\ \E m \in Matches(f) : rows[m].fact # f
       /\ \E m \in Spare :
             Proceeds(c, [Idle EXCEPT !.at = "written", !.op = "create", !.target = m,
                                      !.mine = NewRow(f), !.set = DOMAIN NewRow(f)])

\* An evolving memory with another text: it is read here and updated in Update.
\* Where the first match says the same, or does not evolve, nothing is written.
FindMemory(c, page) ==
    /\ May(c)
    /\ LET f == Candidate(page) IN
       /\ TypeOf[f] \in Evolving
       /\ \E m \in Matches(f) :
             /\ rows[m].fact # f
             /\ Len(history[m]) < MaxHistory
             /\ Proceeds(c, [Idle EXCEPT !.at = "found", !.op = "update", !.target = m,
                                         !.read = rows[m],
                                         !.mine = [rows[m] EXCEPT !.fact = f, !.key = f]])

\* store.update's flush: the columns that differ from the copy that was read.
UpdateMemory(c) ==
    /\ tx[c].at = "found"
    /\ ~LockedFor(c, tx[c].target)
    /\ LET row == [tx[c].mine EXCEPT !.updatedOn = today] IN
       Proceeds(c, [tx[c] EXCEPT !.at = "written", !.mine = row,
                                 !.set = Changed(tx[c].read, row) \cup {"updatedOn"}])

-----------------------------------------------------------------------------
(* Memory Intelligence *)

\* _status_and_action for what the diary says; the user's own word is VERIFIED.
StatusOf(confidence) == IF confidence < Needs THEN "needs_verification" ELSE "unverified"

\* The stamp keeps the confidence the row already had.
SlipStamped(row) ==
    [row EXCEPT !.status = StatusOf(row.confidence), !.verifiedOn = Never, !.updatedOn = today,
                !.explained = TRUE]

\* What assess makes of a row: it loses a verification, and gains evidence.
Stamped(row) ==
    LET confidence == IF Tier[row.fact] >= Minimum THEN Tier[row.fact] ELSE Minimum IN
    [row EXCEPT !.confidence = confidence, !.status = StatusOf(confidence),
                !.verifiedOn = Never, !.updatedOn = today, !.explained = TRUE]

VersionRow(row, reason, outdated) ==
    [version |-> row.version, fact |-> row.fact, confidence |-> row.confidence,
     reason |-> reason, outdated |-> outdated]

\* Only a new memory opens its history.
SlipAssess(c) ==
    /\ tx[c].at = "written"
    /\ LET t == tx[c]
           row == Stamped(t.mine) IN
       Proceeds(c, [t EXCEPT !.at = "stamped", !.mine = row,
                             !.set = @ \cup Changed(t.mine, row),
                             !.log = IF t.op = "create" THEN <<VersionRow(row, t.op, FALSE)>>
                                     ELSE <<>>])

\* assess: stamp and flush, record_version and flush.
Assess(c) ==
    /\ tx[c].at = "written"
    /\ LET t == tx[c]
           row == Stamped(t.mine) IN
       Proceeds(c, [t EXCEPT !.at = "stamped", !.mine = row,
                             !.set = @ \cup Changed(t.mine, row),
                             !.log = <<VersionRow(row, t.op, FALSE)>>])

\* assess raises before it stamps, and the pipeline goes on.
AssessRaises(c) ==
    /\ ~sound
    /\ tx[c].at = "written"
    /\ Proceeds(c, [tx[c] EXCEPT !.at = "stamped"])

\* The route's commit: the flushed columns over the row as it now is.
Committed(t) ==
    IF t.op = "create" THEN t.mine
    ELSE [column \in DOMAIN t.mine |->
             IF column \in t.set THEN t.mine[column] ELSE rows[t.target][column]]

\* The row is committed before its version row is inserted.
SlipCommit(c) ==
    /\ tx[c].at \in {"written", "stamped"}
    /\ rows' = [rows EXCEPT ![tx[c].target] = Committed(tx[c])]
    /\ history' = [history EXCEPT ![tx[c].target] = @ \o tx[c].log]
    /\ ever' = [ever EXCEPT ![tx[c].target] = @ \cup {[fact |-> tx[c].mine.fact, by |-> "diary"]}]
    /\ tx' = [tx EXCEPT ![c] = Idle]
    /\ UNCHANGED <<today, alone, sound>>

Commit(c) ==
    /\ tx[c].at = "stamped"
    /\ rows' = [rows EXCEPT ![tx[c].target] = Committed(tx[c])]
    /\ history' = [history EXCEPT ![tx[c].target] = @ \o tx[c].log]
    /\ ever' = [ever EXCEPT ![tx[c].target] = @ \cup {[fact |-> tx[c].mine.fact, by |-> "diary"]}]
    /\ tx' = [tx EXCEPT ![c] = Idle]
    /\ UNCHANGED <<today, alone, sound>>

\* The request fails after its first flush: its session is rolled back.
Abandon(c) ==
    /\ tx[c].at # "idle"
    /\ Proceeds(c, Idle)

-----------------------------------------------------------------------------
(* Corrections, and decay *)

Quiet == alone /\ \A c \in Clients : tx[c].at = "idle"

\* The correction leaves the version as it is.
SlipCorrected(m, f) ==
    [row |-> [rows[m] EXCEPT !.fact = f, !.confidence = 99, !.status = "verified",
                             !.verifiedOn = today, !.updatedOn = today],
     archived |-> VersionRow(rows[m], "user_correction", TRUE)]

\* apply_correction: the old value becomes an outdated version, the new one is
\* the user's word.
Corrected(m, f) ==
    [row |-> [rows[m] EXCEPT !.fact = f, !.confidence = 99, !.status = "verified",
                             !.verifiedOn = today, !.updatedOn = today, !.version = @ + 1],
     archived |-> VersionRow(rows[m], "user_correction", TRUE)]

Correct(m, f) ==
    /\ Quiet /\ m \in Present
    /\ rows[m].version < MaxVersion /\ Len(history[m]) < MaxHistory
    /\ rows' = [rows EXCEPT ![m] = Corrected(m, f).row]
    /\ history' = [history EXCEPT ![m] = Append(@, Corrected(m, f).archived)]
    /\ ever' = [ever EXCEPT ![m] = @ \cup {[fact |-> f, by |-> "user"]}]
    /\ UNCHANGED <<tx, today, alone, sound>>

\* apply_decay: what the days since the last verification, or else the last
\* change, have taken; the status follows only downwards.
Decayed(row) ==
    LET anchor == IF row.verifiedOn # Never THEN row.verifiedOn ELSE row.updatedOn
        worn == row.confidence - DecayPerDay * (today - anchor)
        confidence == IF worn < Minimum THEN Minimum ELSE worn
    IN [row EXCEPT !.confidence = IF confidence < @ THEN confidence ELSE @,
                   !.status = IF confidence < Needs THEN "needs_verification" ELSE @]

Decay(m) ==
    /\ Quiet /\ m \in Present
    /\ Decayed(rows[m]) # rows[m]
    /\ rows' = [rows EXCEPT ![m] = [Decayed(@) EXCEPT !.updatedOn = today]]
    /\ UNCHANGED <<history, tx, today, alone, sound, ever>>

\* Only decay looks at the days, so they pass between requests.
DayPasses ==
    /\ Quiet /\ today < MaxDay
    /\ today' = today + 1
    /\ UNCHANGED <<rows, history, tx, alone, sound, ever>>

\* A page that was approved and may be stored.  Others write nothing: the
\* writer returns before it reads a memory.
Close(c) ==
    \E page \in (SUBSET FactNames) \ {{}} : CreateMemory(c, page) \/ FindMemory(c, page)

RequestStep(c) == UpdateMemory(c) \/ Assess(c) \/ AssessRaises(c) \/ Commit(c)

Next ==
    \/ \E c \in Clients : Close(c) \/ RequestStep(c) \/ Abandon(c)
    \/ \E m \in MemoryIds : (\E f \in FactNames : Correct(m, f)) \/ Decay(m)
    \/ DayPasses

Spec == Init /\ [][Next]_vars

-----------------------------------------------------------------------------
(* Properties *)

Archived(m) == {history[m][i].fact : i \in DOMAIN history[m]}

\* Every text the diary has put into a memory stands in its history, however
\* closings overlap and corrections and decay come between.  Only an assess that
\* fails lets a text through without a version row.
HistoryKeepsTheDiary ==
    sound => \A m \in Present : {e.fact : e \in {d \in ever[m] : d.by = "diary"}} \subseteq Archived(m)

\* Rule 19: what is committed can be explained: it has evidence and a version.
EveryMemoryIsExplained ==
    sound => \A m \in Present : rows[m].explained /\ history[m] # <<>>

\* A memory nobody has verified is never trusted more than its wording deserves,
\* whatever it was before it evolved.  Overlapping closings break this, see the
\* README.
ConfidenceFitsStatement ==
    alone /\ sound => \A m \in Present :
        rows[m].verifiedOn = Never => rows[m].confidence <= Tier[rows[m].fact]

\* The version number counts the user's corrections, and no version row is ahead
\* of its memory.
VersionCountsCorrections ==
    \A m \in Present :
        /\ rows[m].version = 1 + Cardinality({i \in DOMAIN history[m] : history[m][i].outdated})
        /\ \A i \in DOMAIN history[m] : history[m][i].version <= rows[m].version

-----------------------------------------------------------------------------
(* A claim that the code does not meet *)

\* "History must never be lost: every change writes an immutable version row": a
\* text that a memory has had and has no more stands in its history.
HistoryIsNeverLost ==
    sound => \A m \in Present : {e.fact : e \in ever[m]} \ {rows[m].fact} \subseteq Archived(m)
=============================================================================
