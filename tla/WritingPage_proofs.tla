------------------------- MODULE WritingPage_proofs -------------------------
(***************************************************************************)
(* Proofs about the writing page, for every set of tabs and every bound.   *)
(*                                                                         *)
(* The promises about what is stored hold on the mild network only; they   *)
(* need what the requests under way say: their titles and contents grow    *)
(* with their numbers (Sorted), they are done in that order (InOrder), and *)
(* the last one stays until all others have settled (LastStays).           *)
(***************************************************************************)
EXTENDS WritingPage, TLAPS

Blank == {"unopened", "loading", "error"}

\* What the tabs hold, and which texts the requests carry.
Holds ==
    /\ \A t \in Tabs :
          /\ tab[t].timer # NoText => tab[t].phase = "open" /\ tab[t].timer = tab[t].text
          /\ tab[t].phase \in Blank => tab[t].text = NoText
          /\ tab[t].phase = "unopened" => tab[t].sends = 0
          /\ tab[t].reflection => tab[t].phase \in {"closing", "reflected", "shelving", "gone"}
    /\ \A m \in net : m.kind # "get" \/ m.stage = "done" => m.text \in Texts
    /\ \A m \in net : m.kind # "get" => tab[m.tab].text \in Texts
    /\ \A m \in net : m.kind = "get" => tab[m.tab].phase \in {"loading", "gone"}
    /\ \A m \in net : m.kind = "close" => tab[m.tab].phase # "open" /\ m.text = tab[m.tab].text

\* A tab numbers its requests.
Numbered ==
    /\ \A m \in net : m.no \in 1..tab[m.tab].sends /\ (m.kind = "get" => m.no = 1)
    /\ \A m, n \in net : m.tab = n.tab /\ m.no = n.no => m = n

Upto(text, n) == text.content <= n /\ text.title <= n

\* No text is newer than the last edit.
NoNewer ==
    /\ Upto(stored, typed)
    /\ \A t \in Tabs : tab[t].text \in Texts => Upto(tab[t].text, typed)
    /\ \A m \in net : m.text \in Texts => Upto(m.text, typed)

\* a was on the screen before b, or they are the same text.
Precedes(a, b) == NotNewer(a, b) /\ (a.title = b.title => a.form = b.form)

\* A later request of a tab carries a text that is not older, nor older than
\* the one on its screen.
Sorted ==
    /\ \A m, n \in net : m.tab = n.tab /\ m.no < n.no /\ m.kind # "get" /\ n.kind # "get"
                             => Precedes(m.text, n.text)
    /\ \A m \in net : m.kind # "get" => Precedes(m.text, tab[m.tab].text)

\* The last request carries the text that the tab sent last.
LastIsLast ==
    \A m \in net : m.kind # "get" /\ m.no = tab[m.tab].sends => m.text = tab[m.tab].lastSent

\* On the mild network the requests of a tab are done in their order.
InOrder ==
    ordered => \A m, n \in net : m.stage = "done" /\ n.tab = m.tab /\ n.no < m.no => n.stage # "sent"

\* On the mild network the last request settles last.
LastStays ==
    ordered => \A m \in net : \E n \in net : n.tab = m.tab /\ n.no = tab[m.tab].sends

\* What is stored, with a tab t alone on the mild network: not newer than what it
\* shows or has under way, what it sent last once that is done, and what it shows
\* once a close is done.
Stands(t) ==
    /\ \A m \in net : m.kind # "get" /\ m.stage = "sent" => NotNewer(stored, m.text)
    /\ \A m \in net : m.kind = "get" /\ m.stage = "done" /\ tab[t].phase = "loading"
                          => NotNewer(stored, m.text)
    /\ tab[t].text \in Texts => NotNewer(stored, tab[t].text)
    /\ \A m \in net : m.kind # "get" /\ m.stage = "done" /\ m.no = tab[t].sends => Kept(m.text)
    /\ tab[t].phase = "open" /\ tab[t].status = "saved" /\ net = {} => Kept(tab[t].lastSent)

Closed(t) ==
    /\ \A m \in net : m.kind = "close" /\ m.stage = "done" => Kept(tab[t].text)
    /\ tab[t].reflection => Kept(tab[t].text) /\ \A m \in net : m.kind # "get" => m.text = tab[t].text

Solo == ordered => \A t \in Tabs : Alone(t) => Stands(t) /\ Closed(t)

IInv ==
    /\ TypeOK /\ Holds /\ EditsAreScheduled
    /\ Numbered /\ NoNewer /\ Sorted /\ LastIsLast /\ InOrder /\ LastStays /\ Solo

-----------------------------------------------------------------------------
(* What a step does to the requests under way *)

\* t sends a request with its next number and the text on its screen.
Posts(t, kind, text) ==
    /\ net' = net \cup {Request(t, kind, text)}
    /\ \A u \in Tabs \ {t} : tab'[u] = tab[u]
    /\ tab'[t].sends = tab[t].sends + 1 /\ tab'[t].text = tab[t].text
    /\ tab'[t].reflection = tab[t].reflection
    /\ UNCHANGED <<stored, typed, ordered>>
    /\ \/ kind = "get" /\ tab[t].phase = "unopened" /\ tab'[t].phase = "loading" /\ text = NoText
       \/ /\ kind # "get" /\ tab[t].phase \notin Blank
          /\ text = tab[t].text /\ text \in Texts /\ tab'[t].lastSent = text
          /\ tab'[t].phase \notin Blank /\ (tab'[t].phase = "open" => tab'[t].status = "saving")

\* The request m is done, and becomes h, or fails.
Marks(m, h) ==
    /\ h.tab = m.tab /\ h.no = m.no /\ h.kind = m.kind /\ (m.kind # "get" => h.text = m.text)
    /\ net' = (net \ {m}) \cup {h} /\ UNCHANGED <<tab, typed, ordered>>
    /\ \/ h.stage = "failed" /\ h.text = m.text /\ stored' = stored
       \/ /\ h.stage = "done" /\ m.stage = "sent"
          /\ ordered => \A n \in Earlier(m) : n.stage # "sent"
          /\ \/ m.kind = "get" /\ h.text = stored /\ stored' = stored
             \/ /\ m.kind # "get" /\ stored' \in Texts /\ Kept(m.text)'
                /\ stored'.content = m.text.content /\ stored'.title \in {m.text.title, stored.title}

\* The answer m reaches its tab.
Reaches(m) ==
    /\ m.stage # "sent" /\ (ordered => Earlier(m) = {})
    /\ net' = net \ {m}
    /\ \A u \in Tabs \ {m.tab} : tab'[u] = tab[u]
    /\ UNCHANGED <<stored, typed, ordered>>
    /\ LET s == tab[m.tab]
           n == tab'[m.tab]
       IN  /\ n.sends = s.sends /\ n.lastSent = s.lastSent
           /\ s.phase # "unopened" => n.phase # "unopened"
           /\ n.phase = "loading" => s.phase = "loading"
           /\ \/ n.text = s.text
              \/ /\ m.kind = "get" /\ m.stage = "done" /\ s.phase = "loading"
                 /\ n.text = m.text /\ n.status = "unsaved"
           /\ n.phase = "open" /\ n.status = "saved" => m.kind # "get" /\ m.stage = "done"
           /\ n.reflection => s.reflection \/ (m.kind = "close" /\ m.stage = "done")

\* t types, fades, goes back to the shelf or leaves: nothing is sent.
Stays(t) ==
    /\ net' = net /\ UNCHANGED <<stored, ordered>>
    /\ \A u \in Tabs \ {t} : tab'[u] = tab[u]
    /\ LET s == tab[t]
           n == tab'[t]
       IN  /\ n.sends = s.sends /\ n.lastSent = s.lastSent /\ n.reflection = s.reflection
           /\ s.phase # "unopened" /\ n.phase # "unopened" /\ (n.phase = "loading" => s.phase = "loading")
           /\ \/ typed' = typed /\ n.text = s.text /\ n.status = s.status
                 /\ (n.phase = "open" => s.phase = "open")
              \/ typed' = typed + 1 /\ n.text \in Edits(s.text) /\ n.status = "unsaved" /\ s.phase = "open"

-----------------------------------------------------------------------------
(* Texts *)

\* A text has its parts, and is not the missing one.
LEMMA TextParts == \A x \in Texts : x.content \in Nat /\ x.title \in Nat /\ x.form \in Forms /\ x # NoText
<1> SUFFICES ASSUME NEW x \in Texts
             PROVE  x.content \in Nat /\ x.title \in Nat /\ x.form \in Forms /\ x # NoText
    OBVIOUS
<1>1. x \in [content : Nat, title : Nat, form : Forms]
    BY WritingAssumption DEF Texts
<1> QED BY <1>1, WritingAssumption

\* The next edit of a text makes it newer, and keeps what it does not change.
LEMMA EditFacts ==
    ASSUME NEW x \in Texts, Upto(x, typed), typed \in 0..MaxTyped, typed < MaxTyped, NEW y \in Edits(x)
    PROVE  y \in Texts /\ Upto(y, typed + 1) /\ Precedes(x, y) /\ y # x
<1> USE WritingAssumption
<1>1. typed + 1 \in 0..MaxTyped
    OBVIOUS
<1>2. CASE y = [x EXCEPT !.content = typed + 1]
    BY <1>1, <1>2 DEF Texts, Upto, Precedes, NotNewer
<1>3. CASE \E f \in NewTitles : y = [x EXCEPT !.title = typed + 1, !.form = f]
  <2>1. PICK f \in Forms : y = [x EXCEPT !.title = typed + 1, !.form = f]
      BY <1>3
  <2>2. y \in Texts /\ y.content = x.content /\ y.title = typed + 1
      BY <1>1, <2>1 DEF Texts
  <2>3. x.content \in Nat /\ x.title \in Nat /\ x.content <= typed /\ x.title <= typed
      BY TextParts DEF Upto
  <2> QED BY <2>2, <2>3 DEF Upto, Precedes, NotNewer
<1> QED BY <1>2, <1>3 DEF Edits

\* What comes before what is not newer is not newer.
LEMMA PrecedesThrough ==
    ASSUME NEW a \in Texts, NEW b \in Texts, NEW c \in Texts
    PROVE  /\ Precedes(a, a)
           /\ Precedes(a, b) /\ Precedes(b, c) => Precedes(a, c)
           /\ NotNewer(a, b) /\ Precedes(b, c) => NotNewer(a, c)
           /\ Precedes(a, b) /\ Precedes(b, a) => a = b
<1>1. /\ a.content \in Nat /\ b.content \in Nat /\ c.content \in Nat
      /\ a.title \in Nat /\ b.title \in Nat /\ c.title \in Nat
    BY TextParts
<1>2. Precedes(a, a)
    BY <1>1 DEF Precedes, NotNewer
<1>3. Precedes(a, b) /\ Precedes(b, c) => Precedes(a, c)
    BY <1>1 DEF Precedes, NotNewer
<1>4. NotNewer(a, b) /\ Precedes(b, c) => NotNewer(a, c)
    BY <1>1 DEF Precedes, NotNewer
<1>5. Precedes(a, b) /\ Precedes(b, a) => a.content = b.content /\ a.title = b.title /\ a.form = b.form
    BY <1>1 DEF Precedes, NotNewer
<1>6. a.content = b.content /\ a.title = b.title /\ a.form = b.form => a = b
    BY DEF Texts
<1> QED BY <1>2, <1>3, <1>4, <1>5, <1>6

\* A write that is not refused leaves the row with what it was given, but for a
\* blank title.
LEMMA WrittenFacts ==
    ASSUME stored \in Texts, NEW m, m.text \in Texts, m.kind # "get", ~Refused(m), stored' = Written(m)
    PROVE  /\ stored' \in Texts /\ Kept(m.text)'
           /\ stored'.content = m.text.content /\ stored'.title \in {m.text.title, stored.title}
<1> DEFINE s == stored'
           x == m.text
<1>1. CASE m.kind # "save" /\ IsBlank(x)
  <2>1. s = [stored EXCEPT !.content = x.content]
      BY <1>1 DEF Written
  <2> QED BY <1>1, <2>1 DEF Texts, Kept, IsBlank
<1>2. CASE ~(m.kind # "save" /\ IsBlank(x))
  <2>1. s = Stripped(x)
      BY <1>2 DEF Written
  <2>2. Stripped(x) \in Texts /\ Stripped(x).content = x.content /\ Stripped(x).title = x.title
      BY DEF Stripped, Texts, Forms
  <2> QED BY <2>1, <2>2 DEF Kept
<1> QED BY <1>1, <1>2

-----------------------------------------------------------------------------
(* The first state, and the kinds of steps *)

\* The initial state satisfies the invariant.
LEMMA InitIInv == Init => IInv
<1> SUFFICES ASSUME Init PROVE IInv
    OBVIOUS
<1> USE WritingAssumption
<1>1. TypeOK
    BY DEF Init, TypeOK, TabStates, Requests, Fresh, Texts, Forms, Phases, Statuses
<1>2. Holds /\ EditsAreScheduled
    BY DEF Init, Holds, EditsAreScheduled, Fresh, Blank
<1>3. Numbered /\ NoNewer /\ Sorted /\ LastIsLast /\ InOrder /\ LastStays
    BY TextParts DEF Init, Numbered, NoNewer, Upto, Sorted, LastIsLast, InOrder, LastStays, Fresh
<1>4. Solo
    BY TextParts DEF Init, Solo, Stands, Closed, Fresh
<1> QED BY <1>1, <1>2, <1>3, <1>4 DEF IInv

\* A step sends a request, does or fails one, settles one, or none of these.
LEMMA StepKinds ==
    ASSUME TypeOK, Holds, Next
    PROVE  \/ \E t \in Tabs, kind \in Kinds, text \in Texts \cup {NoText} : Posts(t, kind, text)
           \/ \E m \in net, h \in Requests : Marks(m, h)
           \/ \E m \in net : Reaches(m)
           \/ \E t \in Tabs : Stays(t)
<1> USE WritingAssumption
<1>1. ASSUME NEW t \in Tabs, Open(t) PROVE Posts(t, "get", NoText)
    BY <1>1 DEF TypeOK, TabStates, Requests, Open, Sends, Posts, Request
<1>2. ASSUME NEW t \in Tabs, Edit(t) PROVE Stays(t)
    BY <1>2 DEF TypeOK, TabStates, Requests, Edit, Stays
<1>3. ASSUME NEW t \in Tabs, Autosave(t) PROVE Posts(t, "autosave", tab[t].text)
  <2>1. tab[t].phase = "open" /\ tab[t].timer = tab[t].text /\ tab[t].text \in Texts
      BY <1>3 DEF TypeOK, TabStates, Requests, Holds, Autosave
  <2> QED BY <1>3, <2>1 DEF TypeOK, TabStates, Requests, Autosave, Sends, Posts, Request, Blank
<1>4. ASSUME NEW t \in Tabs, Save(t) PROVE Posts(t, "save", tab[t].text)
  <2>1. tab[t].text \in Texts
      BY <1>4 DEF TypeOK, TabStates, Requests, Save, Pressable
  <2> QED BY <1>4, <2>1 DEF TypeOK, TabStates, Requests, Save, Pressable, Sends, Posts, Request, Blank
<1>5. ASSUME NEW t \in Tabs, Close(t) PROVE Posts(t, "close", tab[t].text)
  <2>1. tab[t].text \in Texts
      BY <1>5 DEF TypeOK, TabStates, Requests, Close, Pressable
  <2> QED BY <1>5, <2>1 DEF TypeOK, TabStates, Requests, Close, Pressable, Sends, Posts, Request, Blank
<1>6. ASSUME NEW t \in Tabs, ButtonsFade(t) \/ ReturnToShelf(t) \/ Leave(t) PROVE Stays(t)
    BY <1>6 DEF TypeOK, TabStates, Requests, ButtonsFade, ReturnToShelf, Leave, Stays
<1>7. ASSUME NEW m \in net, PageLoads(m) PROVE Reaches(m)
    BY <1>7 DEF TypeOK, TabStates, Requests, PageLoads, Arrives, Reaches, Holds
<1>8. ASSUME NEW m \in net, SaveSettles(m) PROVE Reaches(m)
    BY <1>8 DEF TypeOK, TabStates, Requests, SaveSettles, Arrives, Reaches, Holds
<1>9. ASSUME NEW m \in net, CloseSettles(m) PROVE Reaches(m)
    BY <1>9 DEF TypeOK, TabStates, Requests, CloseSettles, Arrives, Reaches, Holds
<1>10. ASSUME NEW m \in net, Handle(m) PROVE \E h \in Requests : Marks(m, h)
  <2> DEFINE h == [m EXCEPT !.stage = IF Refused(m) THEN "failed" ELSE "done",
                            !.text = IF m.kind = "get" THEN stored ELSE @]
  <2>1. h \in Requests
      BY DEF TypeOK, Requests
  <2>2. /\ h.tab = m.tab /\ h.no = m.no /\ h.kind = m.kind
        /\ h.stage = IF Refused(m) THEN "failed" ELSE "done"
        /\ m.kind = "get" => h.text = stored
        /\ m.kind # "get" => h.text = m.text
      BY DEF TypeOK, Requests
  <2>3. net' = (net \ {m}) \cup {h} /\ stored' = Written(m)
      BY <1>10 DEF Handle
  <2> HIDE DEF h
  <2>4. CASE m.kind = "get" \/ Refused(m)
    <3>1. stored' = stored
        BY <2>3, <2>4 DEF Written
    <3> QED BY <1>10, <2>2, <2>3, <2>4, <3>1, <2>1 DEF Handle, Marks, Refused
  <2>5. CASE m.kind # "get" /\ ~Refused(m)
    <3>1. m.text \in Texts /\ stored \in Texts
        BY <2>5 DEF Holds, TypeOK
    <3>2. /\ stored' \in Texts /\ Kept(m.text)'
          /\ stored'.content = m.text.content /\ stored'.title \in {m.text.title, stored.title}
        BY <2>3, <2>5, <3>1, WrittenFacts
    <3> QED BY <1>10, <2>1, <2>2, <2>3, <2>5, <3>2 DEF Handle, Marks
  <2> QED BY <2>4, <2>5
<1>11. ASSUME NEW m \in net, Fail(m) PROVE \E h \in Requests : Marks(m, h)
  <2> DEFINE h == [m EXCEPT !.stage = "failed"]
  <2>1. h \in Requests
      BY DEF TypeOK, Requests
  <2>2. h.tab = m.tab /\ h.no = m.no /\ h.kind = m.kind /\ h.text = m.text /\ h.stage = "failed"
      BY DEF TypeOK, Requests
  <2>3. net' = (net \ {m}) \cup {h}
      BY <1>11 DEF Fail
  <2> HIDE DEF h
  <2>4. Marks(m, h)
      BY <1>11, <2>2, <2>3 DEF Fail, Marks
  <2> QED BY <2>1, <2>4
<1> QED
  <2>1. \A t \in Tabs : tab[t].text \in Texts \cup {NoText}
      BY DEF TypeOK, TabStates
  <2>2. CASE \E t \in Tabs : Open(t) \/ Autosave(t) \/ Save(t) \/ Close(t)
      BY <1>1, <1>3, <1>4, <1>5, <2>1, <2>2 DEF Kinds
  <2>3. CASE \E t \in Tabs : Edit(t) \/ ButtonsFade(t) \/ ReturnToShelf(t) \/ Leave(t)
      BY <1>2, <1>6, <2>3
  <2>4. CASE Settles
      BY <1>7, <1>8, <1>9, <2>4 DEF Settles
  <2>5. CASE Serves
      BY <1>10, <1>11, <2>5 DEF Serves
  <2> QED BY <2>2, <2>3, <2>4, <2>5 DEF Next

-----------------------------------------------------------------------------
(* The invariant is kept *)

\* What a tab becomes when it sends is a state of a tab.
LEMMA SendsTypes ==
    ASSUME TypeOK, NEW t \in Tabs, NEW kind \in Kinds, NEW text \in Texts \cup {NoText},
           NEW state \in TabStates, Sends(t, kind, text, state)
    PROVE  /\ tab' \in [Tabs -> TabStates]
           /\ net' \subseteq Requests
           /\ \A u \in Tabs \ {t} : tab'[u] = tab[u]
           /\ tab'[t].phase = state.phase /\ tab'[t].text = state.text
<1> DEFINE last  == IF kind = "get" THEN state.lastSent ELSE text
           next  == state.sends + 1
           after == [state EXCEPT !.sends = next, !.lastSent = last]
<1>1. last \in Texts \cup {NoText} /\ next \in Nat
    BY DEF TabStates
<1>2. tab' = [tab EXCEPT ![t] = after]
    BY DEF Sends
<1> HIDE DEF last, next
<1>4. after \in TabStates /\ after.phase = state.phase /\ after.text = state.text
    BY <1>1 DEF TabStates
<1>3. Request(t, kind, text) \in Requests
    BY DEF Request, Requests, TypeOK, TabStates
<1> HIDE DEF after
<1> QED BY <1>2, <1>3, <1>4 DEF TypeOK, Sends

\* A new state of a tab keeps the types of all.
LEMMA TabTypes ==
    ASSUME TypeOK, NEW t \in Tabs, NEW state \in TabStates, tab' = [tab EXCEPT ![t] = state],
           state.phase \in {"open", "closing", "reflected", "shelving"} => state.text # NoText,
           net' \subseteq Requests, stored' = stored, typed' \in 0..MaxTyped, ordered' = ordered
    PROVE  TypeOK'
BY DEF TypeOK

\* A step keeps the types.
LEMMA TypesKept == TypeOK /\ Holds /\ NoNewer /\ Next => TypeOK'
<1> SUFFICES ASSUME TypeOK, Holds, NoNewer, Next PROVE TypeOK'
    OBVIOUS
<1> USE WritingAssumption
<1>1. ASSUME NEW t \in Tabs, Open(t) PROVE TypeOK'
  <2> DEFINE state == [tab[t] EXCEPT !.phase = "loading"]
  <2>1. state \in TabStates /\ state.phase = "loading"
      BY DEF TypeOK, TabStates, Phases
  <2>2. Sends(t, "get", NoText, state) /\ UNCHANGED <<stored, typed, ordered>>
      BY <1>1 DEF Open
  <2> HIDE DEF state
  <2>3. /\ tab' \in [Tabs -> TabStates] /\ net' \subseteq Requests
        /\ \A u \in Tabs \ {t} : tab'[u] = tab[u]
        /\ tab'[t].phase = "loading"
      BY <2>1, <2>2, SendsTypes DEF Kinds
  <2> QED BY <2>2, <2>3 DEF TypeOK
<1>2. ASSUME NEW t \in Tabs, Edit(t) PROVE TypeOK'
  <2>1. PICK text \in Edits(tab[t].text) :
            tab' = [tab EXCEPT ![t] = [@ EXCEPT !.text = text, !.status = "unsaved", !.timer = text]]
      BY <1>2 DEF Edit
  <2> DEFINE state == [tab[t] EXCEPT !.text = text, !.status = "unsaved", !.timer = text]
  <2>2. tab[t] \in TabStates /\ tab[t].text \in Texts
      BY <1>2 DEF Edit, TypeOK, TabStates
  <2>3. text \in Texts /\ text # NoText
    <3>1. Upto(tab[t].text, typed)
        BY <2>2 DEF NoNewer
    <3> QED BY <1>2, <2>2, <3>1, EditFacts, TextParts DEF Edit, TypeOK
  <2>4. state \in TabStates /\ state.text # NoText
      BY <2>2, <2>3 DEF TabStates, Statuses
  <2>5. tab' = [tab EXCEPT ![t] = state]
      BY <2>1
  <2>6. typed' \in 0..MaxTyped /\ UNCHANGED <<net, stored, ordered>>
      BY <1>2 DEF Edit, TypeOK
  <2> HIDE DEF state
  <2> QED BY <2>4, <2>5, <2>6, TabTypes DEF TypeOK
<1>3. ASSUME NEW t \in Tabs, Autosave(t) PROVE TypeOK'
  <2> DEFINE state == [tab[t] EXCEPT !.status = "saving", !.timer = NoText]
  <2>1. state \in TabStates /\ state.phase = tab[t].phase /\ state.text = tab[t].text
      BY DEF TypeOK, TabStates, Statuses
  <2>2. Sends(t, "autosave", tab[t].timer, state) /\ UNCHANGED <<stored, typed, ordered>>
      BY <1>3 DEF Autosave
  <2>3. tab[t].timer \in Texts \cup {NoText}
      BY DEF TypeOK, TabStates
  <2> HIDE DEF state
  <2> QED BY <2>1, <2>2, <2>3, SendsTypes DEF TypeOK, Kinds
<1>4. ASSUME NEW t \in Tabs, Save(t) PROVE TypeOK'
  <2> DEFINE state == [tab[t] EXCEPT !.status = "saving"]
  <2>1. state \in TabStates /\ state.phase = tab[t].phase /\ state.text = tab[t].text
      BY DEF TypeOK, TabStates, Statuses
  <2>2. Sends(t, "save", tab[t].text, state) /\ UNCHANGED <<stored, typed, ordered>>
      BY <1>4 DEF Save
  <2>3. tab[t].text \in Texts \cup {NoText}
      BY DEF TypeOK, TabStates
  <2> HIDE DEF state
  <2> QED BY <2>1, <2>2, <2>3, SendsTypes DEF TypeOK, Kinds
<1>5. ASSUME NEW t \in Tabs, Close(t) PROVE TypeOK'
  <2> DEFINE state == [tab[t] EXCEPT !.phase = "closing", !.timer = NoText]
  <2>1. state \in TabStates /\ state.phase = "closing" /\ state.text = tab[t].text
      BY DEF TypeOK, TabStates, Phases
  <2>2. Sends(t, "close", tab[t].text, state) /\ UNCHANGED <<stored, typed, ordered>> /\ Pressable(t)
      BY <1>5 DEF Close
  <2>3. tab[t].text \in Texts \cup {NoText} /\ tab[t].text # NoText
      BY <2>2 DEF TypeOK, TabStates, Pressable
  <2> HIDE DEF state
  <2> QED BY <2>1, <2>2, <2>3, SendsTypes DEF TypeOK, Kinds
<1>6. ASSUME NEW t \in Tabs, ButtonsFade(t) \/ ReturnToShelf(t) \/ Leave(t) PROVE TypeOK'
  <2>1. PICK state \in TabStates :
            /\ tab' = [tab EXCEPT ![t] = state] /\ UNCHANGED <<net, stored, typed, ordered>>
            /\ state.phase \in {"open", "closing", "reflected", "shelving"} => state.text # NoText
    <3>1. CASE ButtonsFade(t)
      <4> DEFINE s == [tab[t] EXCEPT !.buttons = FALSE]
      <4>1. s \in TabStates /\ s.phase = tab[t].phase /\ s.text = tab[t].text
          BY DEF TypeOK, TabStates
      <4>2. tab' = [tab EXCEPT ![t] = s] /\ UNCHANGED <<net, stored, typed, ordered>>
          BY <3>1 DEF ButtonsFade
      <4> QED BY <4>1, <4>2 DEF TypeOK
    <3>2. CASE ReturnToShelf(t)
      <4> DEFINE s == [tab[t] EXCEPT !.phase = "shelving"]
      <4>1. s \in TabStates /\ s.text = tab[t].text /\ tab[t].phase = "reflected"
          BY <3>2 DEF TypeOK, TabStates, ReturnToShelf, Phases
      <4>2. tab' = [tab EXCEPT ![t] = s] /\ UNCHANGED <<net, stored, typed, ordered>>
          BY <3>2 DEF ReturnToShelf
      <4> QED BY <4>1, <4>2 DEF TypeOK
    <3>3. CASE Leave(t)
      <4> DEFINE s == [tab[t] EXCEPT !.phase = "gone", !.timer = NoText, !.buttons = FALSE]
      <4>1. s \in TabStates /\ s.phase = "gone"
          BY <3>3 DEF TypeOK, TabStates, Phases
      <4>2. tab' = [tab EXCEPT ![t] = s] /\ UNCHANGED <<net, stored, typed, ordered>>
          BY <3>3 DEF Leave, TypeOK
      <4> QED BY <4>1, <4>2
    <3> QED BY <1>6, <3>1, <3>2, <3>3
  <2> QED BY <2>1, TabTypes DEF TypeOK
<1>7. ASSUME NEW m \in net, Handle(m) PROVE TypeOK'
  <2>1. [m EXCEPT !.stage = IF Refused(m) THEN "failed" ELSE "done",
                  !.text = IF m.kind = "get" THEN stored ELSE @] \in Requests
      BY DEF TypeOK, Requests
  <2>2. stored' \in Texts
    <3>1. CASE m.kind = "get" \/ Refused(m)
        BY <1>7, <3>1 DEF Handle, Written, TypeOK
    <3>2. CASE m.kind # "get" /\ ~Refused(m)
        BY <1>7, <3>2, WrittenFacts DEF Handle, Holds, TypeOK
    <3> QED BY <3>1, <3>2
  <2> QED BY <1>7, <2>1, <2>2 DEF Handle, TypeOK
<1>8. ASSUME NEW m \in net, Fail(m) PROVE TypeOK'
  <2>1. [m EXCEPT !.stage = "failed"] \in Requests
      BY DEF TypeOK, Requests
  <2> QED BY <1>8, <2>1 DEF Fail, TypeOK
<1>9. ASSUME NEW m \in net, PageLoads(m) PROVE TypeOK'
  <2> DEFINE s == tab[m.tab]
             state == IF s.phase # "loading" THEN s
                      ELSE IF m.stage = "failed" THEN [s EXCEPT !.phase = "error"]
                      ELSE [s EXCEPT !.phase = "open", !.text = m.text, !.status = "unsaved",
                                     !.timer = m.text]
  <2>1. m.tab \in Tabs /\ s \in TabStates /\ m.text \in Texts \cup {NoText}
      BY DEF TypeOK, Requests
  <2>2. m.stage # "failed" => m.text \in Texts
      BY <1>9 DEF PageLoads, Arrives, Holds, TypeOK, Requests
  <2>3. state \in TabStates
      BY <2>1 DEF TabStates, Phases, Statuses
  <2>4. state.phase \in {"open", "closing", "reflected", "shelving"} => state.text # NoText
      BY <2>1, <2>2, TextParts DEF TabStates, TypeOK
  <2>5. tab' = [tab EXCEPT ![m.tab] = state] /\ net' \subseteq Requests
        /\ UNCHANGED <<stored, typed, ordered>>
      BY <1>9 DEF PageLoads, Arrives, TypeOK
  <2> HIDE DEF state
  <2> QED BY <2>1, <2>3, <2>4, <2>5, TabTypes DEF TypeOK
<1>10. ASSUME NEW m \in net, SaveSettles(m) PROVE TypeOK'
  <2> DEFINE s == tab[m.tab]
             state == IF s.phase = "gone" THEN s
                      ELSE [s EXCEPT !.status = IF m.stage = "done" THEN "saved" ELSE "failed"]
  <2>1. m.tab \in Tabs /\ s \in TabStates
      BY DEF TypeOK, Requests
  <2>2. state \in TabStates /\ state.phase = s.phase /\ state.text = s.text
      BY <2>1 DEF TabStates, Statuses
  <2>3. tab' = [tab EXCEPT ![m.tab] = state] /\ net' \subseteq Requests
        /\ UNCHANGED <<stored, typed, ordered>>
      BY <1>10 DEF SaveSettles, Arrives, TypeOK
  <2> HIDE DEF state
  <2> QED BY <2>1, <2>2, <2>3, TabTypes DEF TypeOK
<1>11. ASSUME NEW m \in net, CloseSettles(m) PROVE TypeOK'
  <2> DEFINE s == tab[m.tab]
             status == IF m.stage = "done" THEN "saved" ELSE s.status
             state == IF s.phase = "gone" THEN s
                      ELSE [s EXCEPT !.phase = "reflected", !.reflection = m.stage = "done",
                                     !.status = status]
  <2>1. m.tab \in Tabs /\ s \in TabStates /\ status \in Statuses
      BY DEF TypeOK, Requests, TabStates, Statuses
  <2>2. s.text # NoText
      BY <1>11, TextParts DEF CloseSettles, Arrives, Holds
  <2>3. net' \subseteq Requests /\ UNCHANGED <<stored, typed, ordered>>
      BY <1>11 DEF CloseSettles, Arrives, TypeOK
  <2>5. tab' = [tab EXCEPT ![m.tab] = state]
      BY <1>11 DEF CloseSettles
  <2> HIDE DEF status
  <2>4. state \in TabStates /\ state.text = s.text
      BY <2>1 DEF TabStates, Phases
  <2> HIDE DEF state
  <2> QED BY <2>1, <2>2, <2>3, <2>4, <2>5, TabTypes DEF TypeOK
<1> QED
    BY <1>1, <1>2, <1>3, <1>4, <1>5, <1>6, <1>7, <1>8, <1>9, <1>10, <1>11 DEF Next, Serves, Settles

\* A step keeps what the tabs hold, and the texts of the requests.
LEMMA HoldsKept == TypeOK /\ Holds /\ EditsAreScheduled /\ Numbered /\ NoNewer /\ Next => Holds' /\ EditsAreScheduled'
<1> SUFFICES ASSUME TypeOK, Holds, EditsAreScheduled, Numbered, NoNewer, Next PROVE Holds' /\ EditsAreScheduled'
    OBVIOUS
<1> USE TextParts DEF TypeOK, TabStates, Requests, Holds, EditsAreScheduled, Blank
<1>1. ASSUME NEW t \in Tabs, Open(t) PROVE Holds' /\ EditsAreScheduled'
    BY <1>1 DEF Open, Sends, Request
<1>2. ASSUME NEW t \in Tabs, Edit(t) PROVE Holds' /\ EditsAreScheduled'
  <2>1. PICK text \in Edits(tab[t].text) :
            tab' = [tab EXCEPT ![t] = [@ EXCEPT !.text = text, !.status = "unsaved", !.timer = text]]
      BY <1>2 DEF Edit
  <2>2. text \in Texts
    <3>1. tab[t].text \in Texts
        BY <1>2 DEF Edit
    <3>2. Upto(tab[t].text, typed)
        BY <3>1 DEF NoNewer
    <3> QED BY <1>2, <3>1, <3>2, EditFacts DEF Edit
  <2>3. /\ tab'[t].text = text /\ tab'[t].timer = text /\ tab'[t].phase = tab[t].phase
        /\ tab'[t].reflection = tab[t].reflection /\ tab'[t].lastSent = tab[t].lastSent
        /\ \A u \in Tabs \ {t} : tab'[u] = tab[u]
      BY <2>1
  <2>4. tab[t].phase = "open" /\ tab[t].text \in Texts /\ net' = net /\ tab[t].phase = tab'[t].phase
      BY <1>2, <2>3 DEF Edit
  <2> QED BY <2>2, <2>3, <2>4
<1>3. ASSUME NEW t \in Tabs, Autosave(t) PROVE Holds' /\ EditsAreScheduled'
    BY <1>3 DEF Autosave, Sends, Request
<1>4. ASSUME NEW t \in Tabs, Save(t) PROVE Holds' /\ EditsAreScheduled'
    BY <1>4 DEF Save, Pressable, Sends, Request
<1>5. ASSUME NEW t \in Tabs, Close(t) PROVE Holds' /\ EditsAreScheduled'
    BY <1>5 DEF Close, Pressable, Sends, Request
<1>6. ASSUME NEW t \in Tabs, ButtonsFade(t) \/ ReturnToShelf(t) \/ Leave(t)
      PROVE Holds' /\ EditsAreScheduled'
  <2>1. CASE ButtonsFade(t)
      BY <2>1 DEF ButtonsFade
  <2>2. CASE ReturnToShelf(t)
      BY <2>2 DEF ReturnToShelf
  <2>3. CASE Leave(t)
      BY <2>3 DEF Leave
  <2> QED BY <1>6, <2>1, <2>2, <2>3
<1>7. ASSUME NEW m \in net, Handle(m) PROVE Holds' /\ EditsAreScheduled'
  <2> DEFINE h == [m EXCEPT !.stage = IF Refused(m) THEN "failed" ELSE "done",
                            !.text = IF m.kind = "get" THEN stored ELSE @]
  <2>1. h.tab = m.tab /\ h.kind = m.kind /\ h.text \in Texts /\ (m.kind # "get" => h.text = m.text)
      OBVIOUS
  <2>2. net' = (net \ {m}) \cup {h} /\ tab' = tab
      BY <1>7 DEF Handle
  <2> HIDE DEF h
  <2> QED BY <2>1, <2>2
<1>8. ASSUME NEW m \in net, Fail(m) PROVE Holds' /\ EditsAreScheduled'
    BY <1>8 DEF Fail
<1>9. ASSUME NEW m \in net, PageLoads(m) PROVE Holds' /\ EditsAreScheduled'
    BY <1>9 DEF PageLoads, Arrives, Numbered
<1>10. ASSUME NEW m \in net, SaveSettles(m) PROVE Holds' /\ EditsAreScheduled'
    BY <1>10 DEF SaveSettles, Arrives
<1>11. ASSUME NEW m \in net, CloseSettles(m) PROVE Holds' /\ EditsAreScheduled'
    BY <1>11 DEF CloseSettles, Arrives
<1> HIDE DEF TypeOK, TabStates, Requests, Holds, EditsAreScheduled, Blank
<1> QED
    BY <1>1, <1>2, <1>3, <1>4, <1>5, <1>6, <1>7, <1>8, <1>9, <1>10, <1>11 DEF Next, Serves, Settles

\* A step keeps the numbers of the requests.
LEMMA NumbersKept == TypeOK /\ Holds /\ Numbered /\ Next => Numbered'
<1> SUFFICES ASSUME TypeOK, Holds, Numbered, Next PROVE Numbered'
    OBVIOUS
<1> USE WritingAssumption DEF TypeOK, TabStates, Requests, Numbered
<1>1. ASSUME NEW t \in Tabs, NEW kind \in Kinds, NEW text \in Texts \cup {NoText}, Posts(t, kind, text)
      PROVE  Numbered'
    BY <1>1 DEF Posts, Request, Holds
<1>2. ASSUME NEW m \in net, NEW h \in Requests, Marks(m, h) PROVE Numbered'
    BY <1>2 DEF Marks
<1>3. ASSUME NEW m \in net, Reaches(m) PROVE Numbered'
    BY <1>3 DEF Reaches
<1>4. ASSUME NEW t \in Tabs, Stays(t) PROVE Numbered'
    BY <1>4 DEF Stays
<1> HIDE DEF TypeOK, TabStates, Requests, Numbered
<1> QED BY <1>1, <1>2, <1>3, <1>4, StepKinds

\* A step keeps the last text typed the newest.
LEMMA NoNewerKept == TypeOK /\ Holds /\ NoNewer /\ Next => NoNewer'
<1> SUFFICES ASSUME TypeOK, Holds, NoNewer, Next PROVE NoNewer'
    OBVIOUS
<1> USE WritingAssumption DEF TypeOK, TabStates, Requests, NoNewer
<1>1. ASSUME NEW t \in Tabs, NEW kind \in Kinds, NEW text \in Texts \cup {NoText}, Posts(t, kind, text)
      PROVE  NoNewer'
    BY <1>1, TextParts DEF Posts, Request
<1>2. ASSUME NEW m \in net, NEW h \in Requests, Marks(m, h) PROVE NoNewer'
  <2>1. Upto(stored', typed)
      BY <1>2 DEF Marks, Holds, Upto
  <2> QED BY <1>2, <2>1 DEF Marks
<1>3. ASSUME NEW m \in net, Reaches(m) PROVE NoNewer'
    BY <1>3 DEF Reaches
<1>4. ASSUME NEW t \in Tabs, Stays(t) PROVE NoNewer'
  <2>1. CASE typed' = typed
      BY <1>4, <2>1 DEF Stays
  <2>2. CASE typed' # typed
    <3>1. /\ typed' = typed + 1 /\ tab[t].phase = "open" /\ tab'[t].text \in Edits(tab[t].text)
          /\ stored' = stored /\ net' = net /\ \A u \in Tabs \ {t} : tab'[u] = tab[u]
        BY <1>4, <2>2 DEF Stays
    <3>2. \A x \in Texts : Upto(x, typed) => Upto(x, typed')
        BY <3>1, TextParts DEF Upto
    <3>3. tab[t].text \in Texts /\ typed < MaxTyped
        BY <2>2, <3>1, TypesKept
    <3>4. Upto(tab'[t].text, typed')
        BY <3>1, <3>3, EditFacts
    <3> QED BY <3>1, <3>2, <3>4
  <2> QED BY <2>1, <2>2
<1> HIDE DEF TypeOK, TabStates, Requests, NoNewer
<1> QED BY <1>1, <1>2, <1>3, <1>4, StepKinds

\* A step keeps the texts of the requests sorted.
LEMMA SortedKept == TypeOK /\ Holds /\ Numbered /\ NoNewer /\ Sorted /\ Next => Sorted'
<1> SUFFICES ASSUME TypeOK, Holds, Numbered, NoNewer, Sorted, Next PROVE Sorted'
    OBVIOUS
<1> USE WritingAssumption DEF TypeOK, TabStates, Requests, Holds, Numbered, Sorted, Blank
<1>1. ASSUME NEW t \in Tabs, NEW kind \in Kinds, NEW text \in Texts \cup {NoText}, Posts(t, kind, text)
      PROVE  Sorted'
    BY <1>1, PrecedesThrough DEF Posts, Request
<1>2. ASSUME NEW m \in net, NEW h \in Requests, Marks(m, h) PROVE Sorted'
    BY <1>2 DEF Marks
<1>3. ASSUME NEW m \in net, Reaches(m) PROVE Sorted'
    BY <1>3, TextParts DEF Reaches
<1>4. ASSUME NEW t \in Tabs, Stays(t) PROVE Sorted'
  <2>1. CASE tab'[t].text = tab[t].text
      BY <1>4, <2>1 DEF Stays
  <2>2. CASE tab'[t].text # tab[t].text
    <3>1. /\ typed' = typed + 1 /\ tab[t].phase = "open" /\ tab'[t].text \in Edits(tab[t].text)
          /\ net' = net /\ \A u \in Tabs \ {t} : tab'[u] = tab[u]
        BY <1>4, <2>2 DEF Stays
    <3>2. tab[t].text \in Texts /\ typed < MaxTyped
        BY <3>1, TypesKept
    <3>3. tab'[t].text \in Texts /\ Precedes(tab[t].text, tab'[t].text)
        BY <3>1, <3>2, EditFacts DEF NoNewer
    <3>4. \A m \in net : m.kind # "get" /\ m.tab = t => Precedes(m.text, tab'[t].text)
        BY <3>2, <3>3, PrecedesThrough
    <3> QED BY <3>1, <3>4
  <2> QED BY <2>1, <2>2
<1> HIDE DEF TypeOK, TabStates, Requests, Holds, Numbered, Sorted, Blank
<1> QED BY <1>1, <1>2, <1>3, <1>4, StepKinds

\* A step keeps the text of the last request.
LEMMA LastIsLastKept == TypeOK /\ Holds /\ Numbered /\ LastIsLast /\ Next => LastIsLast'
<1> SUFFICES ASSUME TypeOK, Holds, Numbered, LastIsLast, Next PROVE LastIsLast'
    OBVIOUS
<1> USE WritingAssumption DEF TypeOK, TabStates, Requests, Numbered, LastIsLast
<1>1. ASSUME NEW t \in Tabs, NEW kind \in Kinds, NEW text \in Texts \cup {NoText}, Posts(t, kind, text)
      PROVE  LastIsLast'
    BY <1>1 DEF Posts, Request
<1>2. ASSUME NEW m \in net, NEW h \in Requests, Marks(m, h) PROVE LastIsLast'
    BY <1>2 DEF Marks
<1>3. ASSUME NEW m \in net, Reaches(m) PROVE LastIsLast'
    BY <1>3 DEF Reaches
<1>4. ASSUME NEW t \in Tabs, Stays(t) PROVE LastIsLast'
    BY <1>4 DEF Stays
<1> HIDE DEF TypeOK, TabStates, Requests, Numbered, LastIsLast
<1> QED BY <1>1, <1>2, <1>3, <1>4, StepKinds

\* A step keeps the order of what is done.
LEMMA InOrderKept == TypeOK /\ Holds /\ Numbered /\ InOrder /\ Next => InOrder'
<1> SUFFICES ASSUME TypeOK, Holds, Numbered, InOrder, Next PROVE InOrder'
    OBVIOUS
<1> USE WritingAssumption DEF TypeOK, TabStates, Requests, Numbered, InOrder, Earlier
<1>1. ASSUME NEW t \in Tabs, NEW kind \in Kinds, NEW text \in Texts \cup {NoText}, Posts(t, kind, text)
      PROVE  InOrder'
    BY <1>1 DEF Posts, Request
<1>2. ASSUME NEW m \in net, NEW h \in Requests, Marks(m, h) PROVE InOrder'
    BY <1>2 DEF Marks
<1>3. ASSUME NEW m \in net, Reaches(m) PROVE InOrder'
    BY <1>3 DEF Reaches
<1>4. ASSUME NEW t \in Tabs, Stays(t) PROVE InOrder'
    BY <1>4 DEF Stays
<1> HIDE DEF TypeOK, TabStates, Requests, Numbered, InOrder, Earlier
<1> QED BY <1>1, <1>2, <1>3, <1>4, StepKinds

\* A step keeps the last request to the last.
LEMMA LastStaysKept == TypeOK /\ Holds /\ Numbered /\ LastStays /\ Next => LastStays'
<1> SUFFICES ASSUME TypeOK, Holds, Numbered, LastStays, Next PROVE LastStays'
    OBVIOUS
<1> USE WritingAssumption DEF TypeOK, TabStates, Requests, Numbered, LastStays, Earlier
<1>1. ASSUME NEW t \in Tabs, NEW kind \in Kinds, NEW text \in Texts \cup {NoText}, Posts(t, kind, text)
      PROVE  LastStays'
  <2> DEFINE r == Request(t, kind, text)
  <2>1. r.tab = t /\ r.no = tab'[t].sends /\ net' = net \cup {r} /\ ordered' = ordered
      BY <1>1 DEF Posts, Request
  <2>2. \A u \in Tabs \ {t} : tab'[u] = tab[u]
      BY <1>1 DEF Posts
  <2> HIDE DEF r
  <2> QED BY <2>1, <2>2
<1>2. ASSUME NEW m \in net, NEW h \in Requests, Marks(m, h) PROVE LastStays'
    BY <1>2 DEF Marks
<1>3. ASSUME NEW m \in net, Reaches(m) PROVE LastStays'
    BY <1>3 DEF Reaches
<1>4. ASSUME NEW t \in Tabs, Stays(t) PROVE LastStays'
    BY <1>4 DEF Stays
<1> HIDE DEF TypeOK, TabStates, Requests, Numbered, LastStays, Earlier
<1> QED BY <1>1, <1>2, <1>3, <1>4, StepKinds

\* The network stays as it is, and a tab that is not open yet was not open before.
LEMMA AloneBefore ==
    ASSUME TypeOK, Holds, Next, NEW u \in Tabs
    PROVE  ordered' = ordered /\ (Alone(u)' => Alone(u))
<1> USE DEF TypeOK, TabStates, Requests, Alone
<1>1. ASSUME NEW t \in Tabs, NEW kind \in Kinds, NEW text \in Texts \cup {NoText}, Posts(t, kind, text)
      PROVE  ordered' = ordered /\ (Alone(u)' => Alone(u))
    BY <1>1 DEF Posts, Blank
<1>2. ASSUME NEW m \in net, NEW h \in Requests, Marks(m, h)
      PROVE  ordered' = ordered /\ (Alone(u)' => Alone(u))
    BY <1>2 DEF Marks
<1>3. ASSUME NEW m \in net, Reaches(m) PROVE ordered' = ordered /\ (Alone(u)' => Alone(u))
    BY <1>3 DEF Reaches
<1>4. ASSUME NEW t \in Tabs, Stays(t) PROVE ordered' = ordered /\ (Alone(u)' => Alone(u))
    BY <1>4 DEF Stays
<1> HIDE DEF TypeOK, TabStates, Requests, Alone
<1> QED BY <1>1, <1>2, <1>3, <1>4, StepKinds

\* The requests of a tab alone are all there are.
LEMMA OnlyTab ==
    ASSUME TypeOK, Holds, Numbered, NEW u \in Tabs, Alone(u), NEW m \in net PROVE m.tab = u
BY DEF Alone, Holds, Numbered, TypeOK, TabStates, Requests

\* A write of a tab alone is the first that is not done, and comes before what
\* the others under way carry.
LEMMA WriteIsNext ==
    ASSUME TypeOK, Holds, Numbered, Sorted, InOrder, ordered, NEW u \in Tabs, Alone(u),
           NEW m \in net, NEW h \in Requests, Marks(m, h), stored' # stored
    PROVE  /\ m.kind # "get" /\ m.stage = "sent" /\ m.text \in Texts /\ Precedes(m.text, tab[u].text)
           /\ \A n \in net : n.kind # "get" /\ n.stage = "sent" => Precedes(m.text, n.text)
           /\ \A n \in net : n.stage = "done" => n.no < m.no
<1>1. \A n \in net : n.tab = u /\ n.no \in Nat
    BY OnlyTab DEF Numbered
<1>2. m.kind # "get" /\ m.stage = "sent" /\ \A n \in Earlier(m) : n.stage # "sent"
    BY DEF Marks
<1>3. m.text \in Texts /\ Precedes(m.text, tab[u].text)
    BY <1>1, <1>2 DEF Holds, Sorted
<1>4. \A n \in net : n.no = m.no => n = m
    BY <1>1 DEF Numbered
<1>5. \A n \in net : n.kind # "get" /\ n.stage = "sent" => Precedes(m.text, n.text)
  <2> TAKE n \in net
  <2> HAVE n.kind # "get" /\ n.stage = "sent"
  <2>1. ~(n.no < m.no)
      BY <1>1, <1>2 DEF Earlier
  <2>2. n = m \/ m.no < n.no
      BY <1>1, <1>4, <2>1
  <2> QED BY <1>1, <1>2, <1>3, <2>2, PrecedesThrough DEF Sorted
<1>6. \A n \in net : n.stage = "done" => n.no < m.no
  <2> TAKE n \in net
  <2> HAVE n.stage = "done"
  <2>1. ~(m.no < n.no)
      BY <1>1, <1>2 DEF InOrder
  <2>2. n.no # m.no
      BY <1>2, <1>4
  <2> QED BY <1>1, <2>1, <2>2
<1> QED BY <1>2, <1>3, <1>5, <1>6

\* A step keeps what a tab alone finds stored.
LEMMA StandsKept ==
    ASSUME TypeOK, Holds, Numbered, NoNewer, Sorted, LastIsLast, InOrder, LastStays, Next,
           ordered, NEW u \in Tabs, Alone(u), Alone(u)', Stands(u)
    PROVE  Stands(u)'
<1>1. \A m \in net : m.tab = u
    BY OnlyTab
<1>2. \A v \in Tabs \ {u} : tab'[v].phase = "unopened"
    BY DEF Alone
<1> USE DEF Stands, TypeOK, TabStates, Requests
<1>3. ASSUME NEW t \in Tabs, NEW kind \in Kinds, NEW text \in Texts \cup {NoText}, Posts(t, kind, text)
      PROVE  Stands(u)'
  <2>1. t = u
      BY <1>2, <1>3 DEF Posts, Blank
  <2> DEFINE r == Request(t, kind, text)
  <2>2. r.stage = "sent" /\ r.kind = kind /\ r.text = text /\ net' = net \cup {r}
      BY <1>3 DEF Posts, Request
  <2> HIDE DEF r
  <2>3. \A m \in net : m.no # tab'[u].sends
      BY <1>1, <1>3, <2>1 DEF Posts, Numbered
  <2>4. stored' = stored /\ tab'[u].text = tab[u].text /\ (kind # "get" => text = tab[u].text /\ text \in Texts)
      BY <1>3, <2>1 DEF Posts
  <2>5. tab'[u].phase = "loading" => net = {}
      BY <1>1, <1>3, <2>1 DEF Posts, Holds, Numbered, Blank
  <2> QED BY <2>2, <2>3, <2>4, <2>5 DEF NotNewer, Kept
<1>4. ASSUME NEW m \in net, NEW h \in Requests, Marks(m, h) PROVE Stands(u)'
  <2>0. tab' = tab /\ net' = (net \ {m}) \cup {h} /\ h.kind = m.kind /\ h.no = m.no
      BY <1>4 DEF Marks
  <2>1. CASE stored' = stored
    <3>1. /\ h.stage # "sent"
          /\ h.kind = "get" /\ h.stage = "done" => h.text = stored
          /\ h.kind # "get" /\ h.stage = "done" => Kept(h.text)
        BY <1>4, <2>1 DEF Marks, Kept
    <3>2. h.kind = "get" /\ h.stage = "done" => NotNewer(stored, h.text)
        BY <3>1, TextParts DEF NotNewer
    <3> QED BY <2>0, <2>1, <3>1, <3>2 DEF NotNewer, Kept
  <2>2. CASE stored' # stored
    <3>1. /\ m.kind # "get" /\ m.text \in Texts /\ Precedes(m.text, tab[u].text)
          /\ \A n \in net : n.kind # "get" /\ n.stage = "sent" => Precedes(m.text, n.text)
          /\ \A n \in net : n.stage = "done" => n.no < m.no
          /\ m.stage = "sent"
        BY <1>4, <2>2, WriteIsNext
    <3>2. /\ h.text = m.text /\ h.stage = "done" /\ Kept(h.text)' /\ stored' \in Texts
          /\ stored'.content = m.text.content /\ stored'.title \in {m.text.title, stored.title}
        BY <1>4, <2>2, <3>1 DEF Marks
    <3>3. NotNewer(stored', m.text)
        BY <3>1, <3>2, TextParts DEF NotNewer
    <3>4. \A n \in net : n.kind # "get" /\ n.stage = "sent" => NotNewer(stored', n.text)
        BY <3>1, <3>2, <3>3, PrecedesThrough DEF Holds
    <3>5. tab[u].phase # "loading" /\ tab[u].text \in Texts
        BY <1>1, <3>1, TextParts DEF Holds, Blank
    <3>6. NotNewer(stored', tab[u].text)
        BY <3>1, <3>2, <3>3, <3>5, PrecedesThrough
    <3>7. \A n \in net : n.stage = "done" => n.no # tab[u].sends
        BY <1>1, <3>1 DEF Numbered
    <3> QED BY <2>0, <3>2, <3>4, <3>5, <3>6, <3>7 DEF NotNewer
  <2> QED BY <2>1, <2>2
<1>5. ASSUME NEW m \in net, Reaches(m) PROVE Stands(u)'
  <2>1. /\ net' = net \ {m} /\ stored' = stored /\ m.tab = u
        /\ tab'[u].sends = tab[u].sends /\ tab'[u].lastSent = tab[u].lastSent
        /\ tab'[u].phase = "loading" => tab[u].phase = "loading"
        /\ \/ tab'[u].text = tab[u].text
           \/ m.kind = "get" /\ m.stage = "done" /\ tab[u].phase = "loading" /\ tab'[u].text = m.text
        /\ tab'[u].phase = "open" /\ tab'[u].status = "saved" => m.kind # "get" /\ m.stage = "done"
      BY <1>1, <1>5 DEF Reaches
  <2>2. net' = {} => m.no = tab[u].sends
      BY <1>1, <2>1 DEF LastStays
  <2>3. m.kind # "get" /\ m.no = tab[u].sends => m.text = tab[u].lastSent
      BY <2>1 DEF LastIsLast
  <2> QED BY <2>1, <2>2, <2>3 DEF NotNewer, Kept
<1>6. ASSUME NEW t \in Tabs, Stays(t) PROVE Stands(u)'
  <2>1. t = u
      BY <1>2, <1>6 DEF Stays
  <2>2. net' = net /\ stored' = stored /\ tab'[u].sends = tab[u].sends /\ tab'[u].lastSent = tab[u].lastSent
        /\ (tab'[u].phase = "loading" => tab[u].phase = "loading")
      BY <1>6, <2>1 DEF Stays
  <2>3. CASE tab'[u].text = tab[u].text /\ tab'[u].status = tab[u].status
             /\ (tab'[u].phase = "open" => tab[u].phase = "open")
      BY <2>2, <2>3 DEF NotNewer, Kept
  <2>4. CASE typed' = typed + 1 /\ tab'[u].text \in Edits(tab[u].text) /\ tab'[u].status = "unsaved"
             /\ tab[u].phase = "open"
    <3>1. tab[u].text \in Texts /\ typed < MaxTyped
      <4>1. typed' \in 0..MaxTyped
          BY TypesKept
      <4> QED BY <2>4, <4>1, WritingAssumption
    <3>2. tab'[u].text \in Texts /\ Precedes(tab[u].text, tab'[u].text)
        BY <2>4, <3>1, EditFacts DEF NoNewer
    <3>3. NotNewer(stored, tab'[u].text)
        BY <3>1, <3>2, PrecedesThrough
    <3> QED BY <2>2, <2>4, <3>3 DEF NotNewer, Kept
  <2> QED BY <1>6, <2>1, <2>3, <2>4 DEF Stays
<1> HIDE DEF Stands, TypeOK, TabStates, Requests
<1> QED BY <1>3, <1>4, <1>5, <1>6, StepKinds

\* A step keeps what a close has stored.
LEMMA ClosedKept ==
    ASSUME TypeOK, Holds, Numbered, Sorted, InOrder, Next,
           ordered, NEW u \in Tabs, Alone(u), Alone(u)', Closed(u)
    PROVE  Closed(u)'
<1>1. \A m \in net : m.tab = u /\ m.no \in Nat
    BY OnlyTab DEF Numbered
<1>2. \A v \in Tabs \ {u} : tab'[v].phase = "unopened"
    BY DEF Alone
\* What is sent after a close is what the close carries.
<1>3. \A m, n \in net : m.kind = "close" /\ n.kind # "get" /\ m.no < n.no => n.text = tab[u].text
  <2> TAKE m, n \in net
  <2> HAVE m.kind = "close" /\ n.kind # "get" /\ m.no < n.no
  <2>1. m.text = tab[u].text /\ m.text \in Texts /\ n.text \in Texts
      BY <1>1 DEF Holds
  <2>2. Precedes(m.text, n.text) /\ Precedes(n.text, tab[u].text)
      BY <1>1 DEF Sorted
  <2> QED BY <2>1, <2>2, PrecedesThrough
<1> USE DEF Closed, TypeOK, TabStates, Requests
<1>4. ASSUME NEW t \in Tabs, NEW kind \in Kinds, NEW text \in Texts \cup {NoText}, Posts(t, kind, text)
      PROVE  Closed(u)'
  <2>1. t = u
      BY <1>2, <1>4 DEF Posts, Blank
  <2> DEFINE r == Request(t, kind, text)
  <2>2. r.stage = "sent" /\ r.kind = kind /\ r.text = text /\ net' = net \cup {r}
      BY <1>4 DEF Posts, Request
  <2> HIDE DEF r
  <2>3. /\ stored' = stored /\ tab'[u].text = tab[u].text /\ tab'[u].reflection = tab[u].reflection
        /\ kind # "get" => text = tab[u].text
      BY <1>4, <2>1 DEF Posts
  <2> QED BY <2>2, <2>3 DEF Kept
<1>5. ASSUME NEW m \in net, NEW h \in Requests, Marks(m, h) PROVE Closed(u)'
  <2>1. /\ tab' = tab /\ net' = (net \ {m}) \cup {h} /\ h.kind = m.kind
        /\ m.kind # "get" => h.text = m.text
      BY <1>5 DEF Marks
  <2>2. h.kind = "close" => h.text = tab[u].text
      BY <1>1, <2>1 DEF Holds
  <2>3. CASE stored' = stored
    <3>1. h.kind = "close" /\ h.stage = "done" => Kept(h.text)
        BY <1>5, <2>1, <2>3 DEF Marks, Kept
    <3> QED BY <2>1, <2>2, <2>3, <3>1 DEF Kept
  <2>4. CASE stored' # stored
    <3>1. m.kind # "get" /\ \A n \in net : n.stage = "done" => n.no < m.no
        BY <1>5, <2>4, WriteIsNext
    <3>2. Kept(m.text)' /\ h.stage = "done"
        BY <1>5, <2>4, <3>1 DEF Marks
    <3>3. (\E n \in net : n.kind = "close" /\ n.stage = "done") \/ tab[u].reflection \/ m.kind = "close"
          => m.text = tab[u].text
        BY <1>1, <1>3, <3>1 DEF Holds
    <3>4. m.text = tab[u].text => Kept(tab[u].text)'
        BY <2>1, <3>2
    <3> QED BY <2>1, <3>1, <3>3, <3>4
  <2> QED BY <2>3, <2>4
<1>6. ASSUME NEW m \in net, Reaches(m) PROVE Closed(u)'
  <2>1. /\ net' = net \ {m} /\ stored' = stored /\ m.tab = u /\ Earlier(m) = {}
        /\ \/ tab'[u].text = tab[u].text
           \/ m.kind = "get" /\ tab[u].phase = "loading"
        /\ tab'[u].reflection => tab[u].reflection \/ (m.kind = "close" /\ m.stage = "done")
      BY <1>1, <1>6 DEF Reaches
  <2>2. CASE tab'[u].text = tab[u].text
    <3>1. \A n \in net \ {m} : m.no < n.no
        BY <1>1, <2>1 DEF Earlier, Numbered
    <3>2. m.kind = "close" => \A n \in net' : n.kind # "get" => n.text = tab[u].text
        BY <1>3, <2>1, <3>1
    <3> QED BY <2>1, <2>2, <3>2 DEF Kept
  <2>3. CASE m.kind = "get" /\ tab[u].phase = "loading"
    <3>1. ~tab[u].reflection /\ \A n \in net : n.kind = "get"
        BY <1>1, <2>3, TextParts DEF Holds, Blank
    <3> QED BY <2>1, <2>3, <3>1
  <2> QED BY <2>1, <2>2, <2>3
<1>7. ASSUME NEW t \in Tabs, Stays(t) PROVE Closed(u)'
  <2>1. t = u
      BY <1>2, <1>7 DEF Stays
  <2>2. net' = net /\ stored' = stored /\ tab'[u].reflection = tab[u].reflection
        /\ (tab'[u].text = tab[u].text \/ tab[u].phase = "open")
      BY <1>7, <2>1 DEF Stays
  <2>3. tab[u].phase = "open" => ~tab[u].reflection /\ \A m \in net : m.kind # "close"
      BY <1>1 DEF Holds
  <2> QED BY <2>2, <2>3 DEF Kept
<1> HIDE DEF Closed, TypeOK, TabStates, Requests
<1> QED BY <1>4, <1>5, <1>6, <1>7, StepKinds

\* A step keeps both.
LEMMA SoloKept ==
    /\ TypeOK /\ Holds /\ Numbered /\ NoNewer /\ Sorted /\ LastIsLast /\ InOrder /\ LastStays /\ Solo /\ Next
    => Solo'
<1> SUFFICES ASSUME TypeOK, Holds, Numbered, NoNewer, Sorted, LastIsLast, InOrder, LastStays, Solo, Next,
                    ordered', NEW u \in Tabs, Alone(u)'
             PROVE  Stands(u)' /\ Closed(u)'
    BY DEF Solo
<1>1. ordered /\ Alone(u)
    BY AloneBefore
<1>2. Stands(u) /\ Closed(u)
    BY <1>1 DEF Solo
<1> QED BY <1>1, <1>2, StandsKept, ClosedKept

-----------------------------------------------------------------------------
(* The theorems *)

\* Every step keeps the invariant.
LEMMA StepIInv == IInv /\ [Next]_vars => IInv'
<1> SUFFICES ASSUME IInv, [Next]_vars PROVE IInv'
    OBVIOUS
<1>1. CASE Next
    BY <1>1, TypesKept, HoldsKept, NumbersKept, NoNewerKept, SortedKept, LastIsLastKept, InOrderKept,
       LastStaysKept, SoloKept DEF IInv
<1>2. CASE UNCHANGED vars
  <2>1. TypeOK' /\ Holds' /\ EditsAreScheduled' /\ Numbered' /\ NoNewer'
      BY <1>2 DEF vars, IInv, TypeOK, Holds, EditsAreScheduled, Numbered, NoNewer
  <2>2. Sorted' /\ LastIsLast' /\ InOrder' /\ LastStays'
      BY <1>2 DEF vars, IInv, Sorted, LastIsLast, InOrder, LastStays
  <2>3. Solo'
      BY <1>2 DEF vars, IInv, Solo, Alone, Stands, Closed, NotNewer, Kept
  <2> QED BY <2>1, <2>2, <2>3 DEF IInv
<1> QED BY <1>1, <1>2

\* The invariant holds in every reachable state.
THEOREM PageInvariant == Spec => []IInv
<1>1. Init => IInv
    BY InitIInv
<1>2. IInv /\ [Next]_vars => IInv'
    BY StepIInv
<1> QED BY <1>1, <1>2, PTL DEF Spec

\* The types of the page, the network and the row are what TypeOK says.
THEOREM TypeCorrect == Spec => []TypeOK
<1>1. IInv => TypeOK
    BY DEF IInv
<1> QED BY <1>1, PageInvariant, PTL

\* However the answers come in, an edit of an open page that was not sent is
\* waiting for the timer.
THEOREM NoEditForgotten == Spec => []EditsAreScheduled
<1>1. IInv => EditsAreScheduled
    BY DEF IInv
<1> QED BY <1>1, PageInvariant, PTL

\* What the page says is true of a tab alone on a mild network: "Saved", once
\* nothing is under way or scheduled, as the last request was done last and carried
\* the text; and the reflection of a close, as all that is done after it carries
\* the same text.  True is: the content is stored, and the title, if it has words.
THEOREM SavedIsTrue == Spec => []SavedIsStored
<1>1. IInv => SavedIsStored
  <2> SUFFICES ASSUME IInv, NEW t \in Tabs, ordered, Alone(t),
                      \/ /\ tab[t].phase = "open" /\ tab[t].status = "saved"
                         /\ tab[t].timer = NoText /\ net = {}
                      \/ tab[t].reflection
               PROVE  Kept(tab[t].text)
      BY DEF SavedIsStored
  <2>1. Stands(t) /\ Closed(t)
      BY DEF IInv, Solo
  <2>2. CASE tab[t].phase = "open" /\ tab[t].status = "saved" /\ tab[t].timer = NoText /\ net = {}
    <3>1. Kept(tab[t].lastSent)
        BY <2>1, <2>2 DEF Stands
    <3>2. tab[t].text # NoText
        BY <2>2 DEF IInv, TypeOK
    <3>3. tab[t].lastSent = tab[t].text
        BY <2>2, <3>2 DEF IInv, EditsAreScheduled
    <3> QED BY <3>1, <3>3
  <2>3. CASE tab[t].reflection
      BY <2>1, <2>3 DEF Closed
  <2> QED BY <2>2, <2>3
<1> QED BY <1>1, PageInvariant, PTL

\* A tab alone on a mild network never puts an older title or content back.
THEOREM NothingOlder == Spec => NeverOlder
<1>1. IInv /\ [Next]_vars => [ordered /\ (\E t \in Tabs : Alone(t)) => NotNewer(stored, stored')]_vars
  <2> SUFFICES ASSUME IInv, Next, ordered, NEW t \in Tabs, Alone(t) PROVE NotNewer(stored, stored')
      BY DEF vars
  <2>1. stored.content \in Nat /\ stored.title \in Nat
      BY TextParts DEF IInv, TypeOK
  <2>2. CASE stored' = stored
      BY <2>1, <2>2 DEF NotNewer
  <2>3. ASSUME NEW m \in net, NEW h \in Requests, Marks(m, h), stored' # stored
        PROVE  NotNewer(stored, stored')
    <3>1. /\ m.kind # "get" /\ m.stage = "sent"
          /\ stored'.content = m.text.content /\ stored'.title \in {m.text.title, stored.title}
        BY <2>3 DEF Marks
    <3>2. NotNewer(stored, m.text)
        BY <3>1 DEF IInv, Solo, Stands
    <3> QED BY <2>1, <3>1, <3>2 DEF NotNewer
  <2>4. ASSUME NEW u \in Tabs, NEW kind \in Kinds, NEW text \in Texts \cup {NoText}, Posts(u, kind, text)
        PROVE  stored' = stored
      BY <2>4 DEF Posts
  <2>5. ASSUME NEW m \in net, Reaches(m) PROVE stored' = stored
      BY <2>5 DEF Reaches
  <2>6. ASSUME NEW u \in Tabs, Stays(u) PROVE stored' = stored
      BY <2>6 DEF Stays
  <2>7. TypeOK /\ Holds
      BY DEF IInv
  <2> QED BY <2>2, <2>3, <2>4, <2>5, <2>6, <2>7, StepKinds
<1> QED BY <1>1, PageInvariant, PTL DEF Spec, NeverOlder

\* A page that was left, or closed with its buttons gone, sends nothing more.
THEOREM QuietAfterClose == Spec => ClosedTabIsQuiet
<1> DEFINE Quiet(t) == tab[t].phase \in {"closing", "reflected", "shelving", "gone"} /\ ~tab[t].buttons
<1>1. IInv /\ [Next]_vars => [\A t \in Tabs : Quiet(t) => tab'[t].sends = tab[t].sends]_vars
  <2> SUFFICES ASSUME IInv, Next, NEW t \in Tabs, Quiet(t) PROVE tab'[t].sends = tab[t].sends
      BY DEF vars
  <2>1. TypeOK /\ Holds
      BY DEF IInv
  <2>2. ~Open(t) /\ ~Save(t) /\ ~Close(t)
      BY DEF Open, Save, Close, Pressable
  <2>3. ~Autosave(t)
      BY <2>1 DEF Autosave, Holds
  <2>4. CASE \E u \in Tabs \ {t} : Open(u) \/ Autosave(u) \/ Save(u) \/ Close(u)
      BY <2>1, <2>4 DEF TypeOK, Open, Autosave, Save, Close, Sends
  <2>5. CASE \E u \in Tabs : ButtonsFade(u) \/ ReturnToShelf(u) \/ Leave(u)
      BY <2>1, <2>5 DEF TypeOK, TabStates, ButtonsFade, ReturnToShelf, Leave
  <2>8. ASSUME NEW u \in Tabs, Edit(u) PROVE tab'[t].sends = tab[t].sends
    <3>1. PICK text \in Edits(tab[u].text) :
              tab' = [tab EXCEPT ![u] = [@ EXCEPT !.text = text, !.status = "unsaved", !.timer = text]]
        BY <2>8 DEF Edit
    <3> QED BY <2>1, <3>1 DEF TypeOK, TabStates
  <2>6. CASE Serves
      BY <2>1, <2>6 DEF Serves, Handle, Fail
  <2>7. CASE Settles
    <3> USE DEF TypeOK, TabStates, Requests
    <3>1. ASSUME NEW m \in net, PageLoads(m) PROVE tab'[t].sends = tab[t].sends
        BY <2>1, <3>1 DEF PageLoads
    <3>2. ASSUME NEW m \in net, SaveSettles(m) PROVE tab'[t].sends = tab[t].sends
        BY <2>1, <3>2 DEF SaveSettles
    <3>3. ASSUME NEW m \in net, CloseSettles(m) PROVE tab'[t].sends = tab[t].sends
        BY <2>1, <3>3 DEF CloseSettles
    <3> QED BY <2>7, <3>1, <3>2, <3>3 DEF Settles
  <2> QED BY <2>2, <2>3, <2>4, <2>5, <2>6, <2>7, <2>8 DEF Next
<1> QED BY <1>1, PageInvariant, PTL DEF Spec, ClosedTabIsQuiet

=============================================================================
