---------------------------- MODULE WritingPage ----------------------------
(***************************************************************************)
(* The page a diary is written on                                          *)
(* (frontend/src/features/soulbook/WritingPage.tsx) in one or more browser *)
(* tabs, against the page the server stores: the debounced autosave, Save, *)
(* Save & Close, and every way to leave.                                   *)
(*                                                                         *)
(* A text is a title and a content, each with the number of the edit that  *)
(* typed it.  The client gives its requests no number, sends one without   *)
(* waiting for another and never retries: they may overtake each other,    *)
(* and fail before or after the server has acted.  "ordered" is the mild   *)
(* network, where the requests of a tab are handled, and answered, in the  *)
(* order in which they were sent.                                          *)
(*                                                                         *)
(* A request is handled in one step; SoulBookStore models its statements,  *)
(* OrchestraPipeline the run that a close starts after its commit.         *)
(***************************************************************************)
EXTENDS Naturals, FiniteSets

CONSTANTS Tabs,
          MaxTyped,     \* bound: edits, in all tabs
          FirstTitle,   \* the form of the title in the database at the start
          NewTitles,    \* bound: the forms of the titles typed
          MaxSends,     \* bound: requests of a tab after which Save is not pressed, and
                        \* Save & Close not again
          NoText

\* How a title is written: with words, bare or between spaces, as spaces, or not.
Forms == {"bare", "padded", "spaces", "empty"}

ASSUME WritingAssumption ==
    /\ MaxTyped \in Nat /\ MaxSends \in Nat /\ NewTitles \subseteq Forms
    /\ FirstTitle \in {"bare", "empty"}
    /\ NoText \notin [content : Nat, title : Nat, form : Forms]

VARIABLES
    tab,        \* the state of the component, and what it showed and sent
    net,        \* requests on their way, and answers on their way back
    stored,     \* the text of the page in the database
    typed,      \* how many edits were made
    ordered     \* is the network mild?

vars == <<tab, net, stored, typed, ordered>>

Texts == [content : 0..MaxTyped, title : 0..MaxTyped, form : Forms]

\* str.strip, and what it makes of a title.
Stripped(text) ==
    [text EXCEPT !.form = IF @ = "padded" THEN "bare" ELSE IF @ = "spaces" THEN "empty" ELSE @]
IsBlank(text) == Stripped(text).form = "empty"

Phases == {"unopened", "loading", "error",           \* page is not there yet
           "open", "closing", "reflected", "shelving",    \* closeState
           "gone"}                                    \* unmounted

\* timer: the text its closure saves.  buttons: Save and Save & Close can be
\* pressed.  reflection: that of the last close that was answered, if it came.
\* lastSent: history.
Fresh == [phase |-> "unopened", text |-> NoText, status |-> "saved", timer |-> NoText, sends |-> 0,
          buttons |-> TRUE, reflection |-> FALSE, lastSent |-> NoText]

\* stage: sent, done by the server, or failed, which the server may have done too.
Request(t, kind, text) ==
    [tab |-> t, no |-> tab[t].sends + 1, kind |-> kind, text |-> text, stage |-> "sent"]

Earlier(m) == {n \in net : n.tab = m.tab /\ n.no < m.no}

Sends(t, kind, text, state) ==
    /\ net' = net \cup {Request(t, kind, text)}
    /\ tab' = [tab EXCEPT ![t] =
          [state EXCEPT !.sends = @ + 1, !.lastSent = IF kind = "get" THEN @ ELSE text]]

Init ==
    /\ tab = [t \in Tabs |-> Fresh]
    /\ net = {}
    /\ stored = [content |-> 0, title |-> 0, form |-> FirstTitle]
    /\ typed = 0
    /\ ordered \in BOOLEAN

-----------------------------------------------------------------------------
(* The server and the network *)

\* SoulPageUpdate asks for a title of at least one character; the schemas of
\* autosave and close do not.
Refused(m) == m.kind = "save" /\ m.text.form = "empty"

\* What the row holds afterwards.  update_page stores what it is given; autosave_page,
\* which the close calls too, passes over a blank title.  Both strip the others.
Written(m) ==
    IF m.kind = "get" \/ Refused(m) THEN stored
    ELSE IF m.kind # "save" /\ IsBlank(m.text) THEN [stored EXCEPT !.content = m.text.content]
    ELSE Stripped(m.text)

\* The row is read or written and the transaction committed; a refused request is
\* answered with 422.
Handle(m) ==
    /\ m.stage = "sent"
    /\ ordered => \A n \in Earlier(m) : n.stage # "sent"
    /\ stored' = Written(m)
    /\ net' = (net \ {m}) \cup
          {[m EXCEPT !.stage = IF Refused(m) THEN "failed" ELSE "done",
                     !.text = IF m.kind = "get" THEN stored ELSE @]}
    /\ UNCHANGED <<tab, typed, ordered>>

\* The request or its answer is lost, or the answer is an error; a close may
\* fail after its commit.
Fail(m) ==
    /\ m.stage # "failed"
    /\ net' = (net \ {m}) \cup {[m EXCEPT !.stage = "failed"]}
    /\ UNCHANGED <<tab, stored, typed, ordered>>

\* The promise of the request settles.
Arrives(m, kinds) ==
    /\ m.kind \in kinds
    /\ m.stage # "sent"
    /\ ordered => Earlier(m) = {}
    /\ net' = net \ {m}
    /\ UNCHANGED <<stored, typed, ordered>>

-----------------------------------------------------------------------------
(* Opening and writing *)

Open(t) ==
    /\ tab[t].phase = "unopened"
    /\ Sends(t, "get", NoText, [tab[t] EXCEPT !.phase = "loading"])
    /\ UNCHANGED <<stored, typed, ordered>>

\* The loaded text is a change of the content, and loadedRef is set by the time
\* the effect runs: it arms the timer.
PageLoads(m) ==
    /\ Arrives(m, {"get"})
    /\ tab' = [tab EXCEPT ![m.tab] =
          IF @.phase # "loading" THEN @
          ELSE IF m.stage = "failed" THEN [@ EXCEPT !.phase = "error"]
          ELSE [@ EXCEPT !.phase = "open", !.text = m.text, !.status = "unsaved", !.timer = m.text]]

\* What the next edit makes of a text: a new content, or a new title.
Edits(text) ==
    {[text EXCEPT !.content = typed + 1]} \cup {[text EXCEPT !.title = typed + 1, !.form = f] : f \in NewTitles}

\* The effect leaves a timer that is armed alone.
SlipEdit(t) ==
    /\ tab[t].phase = "open"
    /\ typed < MaxTyped
    /\ typed' = typed + 1
    /\ \E text \in Edits(tab[t].text) :
          tab' = [tab EXCEPT ![t] =
              [@ EXCEPT !.text = text, !.status = "unsaved", !.timer = IF @ = NoText THEN text ELSE @]]
    /\ UNCHANGED <<net, stored, ordered>>

\* The effect clears the timer and arms a new one, for the new text.
Edit(t) ==
    /\ tab[t].phase = "open"
    /\ typed < MaxTyped
    /\ typed' = typed + 1
    /\ \E text \in Edits(tab[t].text) :
          tab' = [tab EXCEPT ![t] = [@ EXCEPT !.text = text, !.status = "unsaved", !.timer = text]]
    /\ UNCHANGED <<net, stored, ordered>>

\* Autosaves only what the status calls unsaved.
SlipAutosave(t) ==
    /\ tab[t].timer # NoText /\ tab[t].status = "unsaved"
    /\ Sends(t, "autosave", tab[t].timer, [tab[t] EXCEPT !.status = "saving", !.timer = NoText])
    /\ UNCHANGED <<stored, typed, ordered>>

\* save(true), when AUTOSAVE_DELAY has passed.
Autosave(t) ==
    /\ tab[t].timer # NoText
    /\ Sends(t, "autosave", tab[t].timer, [tab[t] EXCEPT !.status = "saving", !.timer = NoText])
    /\ UNCHANGED <<stored, typed, ordered>>

\* The buttons of a page that is closing fade out for half a second, and their
\* old handlers, which take the page for open, answer until they are gone.
Pressable(t) ==
    /\ tab[t].phase \in {"open", "closing", "reflected", "shelving"}
    /\ tab[t].buttons

\* Save clears the timer, as Save & Close does, but sends what was sent last.
SlipSave(t) ==
    /\ Pressable(t) /\ tab[t].sends < MaxSends /\ tab[t].lastSent # NoText
    /\ Sends(t, "save", tab[t].lastSent, [tab[t] EXCEPT !.status = "saving", !.timer = NoText])
    /\ UNCHANGED <<stored, typed, ordered>>

\* save(false): the timer runs on.
Save(t) ==
    /\ Pressable(t) /\ tab[t].sends < MaxSends
    /\ Sends(t, "save", tab[t].text, [tab[t] EXCEPT !.status = "saving"])
    /\ UNCHANGED <<stored, typed, ordered>>

\* Does not look at the outcome.
SlipSettles(m) ==
    /\ Arrives(m, {"save", "autosave"})
    /\ tab' = [tab EXCEPT ![m.tab] = IF @.phase = "gone" THEN @ ELSE [@ EXCEPT !.status = "saved"]]

\* Whatever was typed or sent since, the answer sets the status.
SaveSettles(m) ==
    /\ Arrives(m, {"save", "autosave"})
    /\ tab' = [tab EXCEPT ![m.tab] =
          IF @.phase = "gone" THEN @
          ELSE [@ EXCEPT !.status = IF m.stage = "done" THEN "saved" ELSE "failed"]]

-----------------------------------------------------------------------------
(* Closing and leaving *)

\* closeSoulDiary up to its await.  From now on the text is read-only.
Close(t) ==
    /\ Pressable(t) /\ (tab[t].phase = "open" \/ tab[t].sends < MaxSends)
    /\ Sends(t, "close", tab[t].text, [tab[t] EXCEPT !.phase = "closing", !.timer = NoText])
    /\ UNCHANGED <<stored, typed, ordered>>

\* A failed close changes no status, and is told like a close without reflection;
\* that of an earlier answer is taken away.
CloseSettles(m) ==
    /\ Arrives(m, {"close"})
    /\ tab' = [tab EXCEPT ![m.tab] =
          IF @.phase = "gone" THEN @
          ELSE [@ EXCEPT !.phase = "reflected", !.reflection = m.stage = "done",
                         !.status = IF m.stage = "done" THEN "saved" ELSE tab[m.tab].status]]

ButtonsFade(t) ==
    /\ tab[t].phase \in {"closing", "reflected", "shelving"} /\ tab[t].buttons
    /\ tab' = [tab EXCEPT ![t].buttons = FALSE]
    /\ UNCHANGED <<net, stored, typed, ordered>>

ReturnToShelf(t) ==
    /\ tab[t].phase = "reflected"
    /\ tab' = [tab EXCEPT ![t].phase = "shelving"]
    /\ UNCHANGED <<net, stored, typed, ordered>>

\* The component unmounts: by the way back to the chapter, by the shelf, or with
\* the window.  Its cleanup clears the timer; requests under way go on.
Leave(t) ==
    /\ tab[t].phase \notin {"unopened", "gone"}
    /\ tab' = [tab EXCEPT ![t].phase = "gone", ![t].timer = NoText, ![t].buttons = FALSE]
    /\ UNCHANGED <<net, stored, typed, ordered>>

Settles == \E m \in net : PageLoads(m) \/ SaveSettles(m) \/ CloseSettles(m)
Serves  == \E m \in net : Handle(m) \/ Fail(m)

Next ==
    \/ \E t \in Tabs : \/ Open(t) \/ Edit(t) \/ Autosave(t) \/ Save(t)
                       \/ Close(t) \/ ButtonsFade(t) \/ ReturnToShelf(t) \/ Leave(t)
    \/ Serves
    \/ Settles

Spec == Init /\ [][Next]_vars

\* Timers fire, the server handles every request or the connection breaks, and
\* the promise of a request settles.
FairSpec ==
    Spec /\ WF_vars(Serves) /\ WF_vars(Settles) /\ \A t \in Tabs : WF_vars(Autosave(t))

-----------------------------------------------------------------------------
(* Properties *)

Kinds    == {"get", "autosave", "save", "close"}
Statuses == {"saved", "saving", "unsaved", "failed"}

TabStates ==
    [phase : Phases, text : Texts \cup {NoText}, status : Statuses, timer : Texts \cup {NoText},
     sends : Nat, buttons : BOOLEAN, reflection : BOOLEAN, lastSent : Texts \cup {NoText}]

Requests ==
    [tab : Tabs, no : Nat, kind : Kinds, text : Texts \cup {NoText}, stage : {"sent", "done", "failed"}]

\* Every variable holds a value of its kind, and a page that is there has a text.
TypeOK ==
    /\ tab \in [Tabs -> TabStates]
    /\ \A t \in Tabs : tab[t].phase \in {"open", "closing", "reflected", "shelving"} => tab[t].text # NoText
    /\ net \subseteq Requests
    /\ stored \in Texts /\ typed \in 0..MaxTyped /\ ordered \in BOOLEAN

\* As long as the page is open, a text that was not sent is waiting for the
\* timer, whatever answers have come in and whatever the status says.
EditsAreScheduled ==
    \A t \in Tabs : tab[t].phase = "open" /\ tab[t].lastSent # tab[t].text => tab[t].timer = tab[t].text

\* t is the only tab of this page.
Alone(t) == \A u \in Tabs \ {t} : tab[u].phase = "unopened"

\* No part of a was typed after that part of b.
NotNewer(a, b) == a.content <= b.content /\ a.title <= b.title

\* On a mild network, a tab alone never puts an older title or content in place of
\* a newer one.
NeverOlder == [][ordered /\ (\E t \in Tabs : Alone(t)) => NotNewer(stored, stored')]_vars

\* The row holds the content of the text, and its title without the spaces around
\* it; a blank title need not be there.
Kept(text) == stored.content = text.content /\ (IsBlank(text) \/ stored = Stripped(text))

\* On a mild network, in a tab alone, what the page says of the text on the screen
\* is true: "Saved", once everything has settled in an open page, and, from the
\* moment a close has brought its reflection, that the diary is kept, whatever a
\* second press of the fading buttons still sends.
SavedIsStored ==
    \A t \in Tabs :
        /\ ordered /\ Alone(t)
        /\ \/ /\ tab[t].phase = "open" /\ tab[t].status = "saved"
              /\ tab[t].timer = NoText /\ net = {}
           \/ tab[t].reflection
        => Kept(tab[t].text)

\* Once it is left, or closed with its buttons gone, the page sends nothing more.
ClosedTabIsQuiet ==
    [][\A t \in Tabs : tab[t].phase \in {"closing", "reflected", "shelving", "gone"} /\ ~tab[t].buttons
          => tab'[t].sends = tab[t].sends]_vars

\* What was typed is sent in the end, unless the page is left.
EditsAreSent ==
    \A t \in Tabs : tab[t].phase = "open" /\ tab[t].lastSent # tab[t].text
                    ~> tab[t].phase # "open" \/ tab[t].lastSent = tab[t].text

-----------------------------------------------------------------------------
(* Claims of the code's own comments that the code does not meet *)

\* "The page auto-saves continuously; the diary entry is never lost": when the
\* reader is told that the words are safely kept, they are.
ToldWordsAreKept ==
    \A t \in Tabs :
        ordered /\ Alone(t) /\ net = {} /\ tab[t].phase = "reflected" => Kept(tab[t].text)
=============================================================================
