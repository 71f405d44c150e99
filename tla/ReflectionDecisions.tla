------------------------ MODULE ReflectionDecisions ------------------------
(***************************************************************************)
(* What the nodes of one Orchestra run decide, from the page to the        *)
(* verdict on the text written for it: Input Receiver, Meaning & Intent,   *)
(* Guardian, Memory Retriever, Reflection Planner, Context Builder, Prompt *)
(* Builder, Specialist Router, the generated text, and one review by the   *)
(* Quality Checker (backend/app/orchestra/).  Each node reads what the     *)
(* nodes before it decided and none may go beyond the Guardian.  That the  *)
(* nodes fail, retry, store and deliver is the matter of OrchestraPipeline,*)
(* where each of these decisions is a choice.                              *)
(***************************************************************************)
EXTENDS PageReading, FiniteSets, SequencesExt

CONSTANTS
    Pages,          \* the pages: what PageReading reads, their length and their width
    Shelves,        \* what the memory source may answer: sequences of memories
    Specialists,    \* the names in specialists.json
    Core,           \* "mini_core", the fallback
    SkillOf,        \* specialist -> the capabilities it advertises
    Rank,           \* specialist -> a number; more is preferred, no two alike
    Registries,     \* which specialists may participate
    Drafts,         \* what the model may write
    MaxRetrieved,   \* the Retriever's MAX_MEMORIES
    MaxReferenced,  \* the Planner's _MAX_REFERENCED
    Budget,         \* ContextBudget: memories, goals, projects, chars
    BaseChars       \* what the blocks take besides the page's text and the memories

Memories == [kind : {"goal", "milestone", "project", "other"}, priority : 0..3,
             matched : Nat, chars : Nat \ {0}]

ASSUME ReflectionAssumption ==
    /\ \A p \in Pages : /\ p.says \subseteq Says /\ p.signals \subseteq Signals
                        /\ p.blank \in BOOLEAN
                        /\ p.chars \in Nat /\ p.width \in Nat \ {0}
    /\ Shelves \subseteq Seq(Memories)
    /\ Core \in Specialists
    /\ Rank \in [Specialists -> Int]
    /\ \A a, b \in Specialists : Rank[a] = Rank[b] => a = b
    /\ Registries \subseteq SUBSET Specialists
    /\ MaxRetrieved \in Nat /\ MaxReferenced \in Nat /\ BaseChars \in Nat
    /\ Budget \in [memories : Nat, goals : Nat, projects : Nat, chars : Nat]
    /\ \A d \in Drafts : d.questions \in Nat /\ d.shouts \in Nat /\ d.chars \in Nat

VARIABLES
    pc,         \* the node to run next, "done" or "failed"
    page,       \* the page the request is about
    refusal,    \* the errors of the Input Receiver or of the Router
    meaning, guardian, shelf, retrieved, plan, context, prompt, routing,
    draft,      \* the text under review
    verdict     \* the Quality Checker's status

vars == <<pc, page, refusal, meaning, guardian, shelf, retrieved, plan, context, prompt,
          routing, draft, verdict>>

Nil == [none |-> TRUE]

Init ==
    /\ pc = "input_receiver"
    /\ page \in Pages
    /\ refusal = {}
    /\ meaning = Nil /\ guardian = Nil /\ plan = Nil /\ context = Nil /\ prompt = Nil
    /\ routing = Nil /\ draft = Nil
    /\ shelf = <<>> /\ retrieved = <<>>
    /\ verdict = "none"

-----------------------------------------------------------------------------
(* Input Receiver, Meaning & Intent, Guardian *)

Facts == {"user", "book", "chapter", "page", "language", "timezone"}

\* The lookups stop at the first that finds nothing; the rest is collected.
\* Rows found by their parent's id cannot contradict it.
Errors(missing) ==
    LET lookup == FirstMatch(<<[on |-> {"user"}, is |-> "user"], [on |-> {"book"}, is |-> "book"],
                               [on |-> {"chapter"}, is |-> "chapter"],
                               [on |-> {"page"}, is |-> "page"]>>, missing, "none")
    IN IF lookup # "none" THEN {lookup} ELSE missing

ReceiveInput ==
    /\ pc = "input_receiver"
    /\ \E missing \in SUBSET Facts :
          /\ refusal' = Errors(missing)
          /\ pc' = IF refusal' = {} THEN "meaning_intent" ELSE "failed"
    /\ UNCHANGED <<page, meaning, guardian, shelf, retrieved, plan, context, prompt, routing,
                   draft, verdict>>

AnalyzeMeaning ==
    /\ pc = "meaning_intent"
    /\ meaning' = Analyze(page)
    /\ pc' = "guardian"
    /\ UNCHANGED <<page, refusal, guardian, shelf, retrieved, plan, context, prompt, routing,
                   draft, verdict>>

EvaluateGuardian ==
    /\ pc = "guardian"
    /\ guardian' = Evaluate(page, meaning)
    /\ pc' = "memory_retriever"
    /\ UNCHANGED <<page, refusal, meaning, shelf, retrieved, plan, context, prompt, routing,
                   draft, verdict>>

-----------------------------------------------------------------------------
(* Memory Retriever *)

\* Three shared words are as good as any number.
Score(memory) == Least(memory.matched, 3)

\* Before j in a shelf: more important, then more relevant, then found first.
Ahead(s, i, j) ==
    \/ s[i].priority < s[j].priority
    \/ s[i].priority = s[j].priority /\ Score(s[i]) > Score(s[j])
    \/ s[i].priority = s[j].priority /\ Score(s[i]) = Score(s[j]) /\ i < j

\* The list is cut where it was found, then sorted.
SlipSelect(s) ==
    LET relevant == {i \in DOMAIN s : i <= MaxRetrieved /\ Score(s[i]) > 0}
        place(i) == Cardinality({j \in relevant : Ahead(s, j, i)}) + 1
    IN [k \in 1..Cardinality(relevant) |-> CHOOSE i \in relevant : place(i) = k]

\* The relevant memories in order, cut to the limit: positions in the shelf.
Select(s) ==
    LET relevant == {i \in DOMAIN s : Score(s[i]) > 0}
        place(i) == Cardinality({j \in relevant : Ahead(s, j, i)}) + 1
    IN [k \in 1..Least(MaxRetrieved, Cardinality(relevant)) |->
           CHOOSE i \in relevant : place(i) = k]

Retrieve ==
    /\ pc = "memory_retriever"
    /\ guardian.retrieve
    /\ shelf' \in Shelves
    /\ retrieved' = Select(shelf')
    /\ pc' = "reflection_planner"
    /\ UNCHANGED <<page, refusal, meaning, guardian, plan, context, prompt, routing, draft,
                   verdict>>

\* Blocked by the Guardian: the source is not asked.
RetrieveNothing ==
    /\ pc = "memory_retriever"
    /\ ~guardian.retrieve
    /\ pc' = "reflection_planner"
    /\ UNCHANGED <<page, refusal, meaning, guardian, shelf, retrieved, plan, context, prompt,
                   routing, draft, verdict>>

-----------------------------------------------------------------------------
(* Reflection Planner *)

TypeTable == <<
    [on |-> {"decline_override"} \cup Advice, is |-> "simple_acknowledgement"],
    [on |-> {"academic_help"},                is |-> "education"],
    [on |-> {"research"},                     is |-> "research_summary"],
    [on |-> {"project_assistance"},           is |-> "project_support"],
    [on |-> {"image_analysis"},               is |-> "simple_acknowledgement"],
    [on |-> {"grieving", "listen_only"},      is |-> "listening"],
    [on |-> {"celebrate"} \cup GladTones,     is |-> "celebration"],
    [on |-> {"high_emotional_distress"},      is |-> "validation"] >>

DecideType(p, g, kinds) ==
    LET otherwise ==
          IF g.category = "emotional_support"
          THEN IF g.tone \in {"anxious", "overwhelmed", "frustrated"} THEN "encouragement"
               ELSE "validation"
          ELSE IF "creative" \in p.says THEN "creative_inspiration"
          ELSE IF kinds \cap {"goal", "milestone"} # {} THEN "goal_support"
          ELSE IF kinds # {} THEN "memory_recall" ELSE "reflection"
    IN FirstMatch(TypeTable, {g.action, g.category, g.tone}, otherwise)

\* _TYPE_PLAN: what a type of reflection proposes.
Silent  == {"listening", "research_summary", "simple_acknowledgement"}
Lengthy == {"validation", "encouragement", "reflection", "goal_support", "memory_recall"}
MemoryFriendly == {"reflection", "memory_recall", "validation", "encouragement",
                   "goal_support", "celebration", "listening"}
Encouraging == {"encouragement", "goal_support", "project_support", "celebration"}

NoReflection == [type |-> "no_reflection", depth |-> None, questions |-> 0,
                 memories |-> <<>>, encourage |-> FALSE]

\* The plan takes the depth its type proposes, whatever the Guardian allows.
SlipPlanFor(p, g, kinds, found) ==
    LET type == DecideType(p, g, kinds)
    IN [NoReflection EXCEPT !.type = type, !.depth = IF type \in Lengthy THEN Medium ELSE Light]

\* kinds are the kinds of the memories found, in any order.
PlanFor(p, g, kinds, found) ==
    LET unsure == g.confidence < 40
        type == IF unsure THEN "simple_acknowledgement" ELSE DecideType(p, g, kinds)
    IN IF ~g.reflect THEN NoReflection
       ELSE [type      |-> type,
             depth     |-> Least(IF type \in Lengthy THEN Medium ELSE Light, g.depth),
             questions |-> IF unsure \/ type \in Silent THEN 0 ELSE Least(1, g.questions),
             memories  |-> IF type \in MemoryFriendly
                           THEN SubSeq(found, 1, Least(MaxReferenced, Len(found)))
                           ELSE <<>>,
             encourage |-> type \in Encouraging \/ g.category \in Advice]

\* The safety template: it points to help, asks nothing and is short.
Template == [says |-> {"referral", "escalation"}, questions |-> 0, shouts |-> 0, chars |-> 300]

\* In a crisis the nodes up to the review are skipped.
PlanReflection ==
    /\ pc = "reflection_planner"
    /\ plan' = PlanFor(page, guardian, {shelf[i].kind : i \in ToSet(retrieved)}, retrieved)
    /\ IF guardian.crisis
       THEN pc' = "quality_checker" /\ draft' = Template
       ELSE pc' = "context_builder" /\ draft' = draft
    /\ UNCHANGED <<page, refusal, meaning, guardian, shelf, retrieved, context, prompt, routing,
                   verdict>>

-----------------------------------------------------------------------------
(* Context Builder *)

OfKind(s, ids, kind) == Len(SelectSeq(ids, LAMBDA i : s[i].kind = kind))

\* Why the next planned memory is left out, given those already taken.
ReasonToSkip(s, taken, i) ==
    CASE Len(taken) >= Budget.memories -> "max_memories"
      [] Len(taken) < Budget.memories /\ s[i].kind = "goal"
            /\ OfKind(s, taken, "goal") >= Budget.goals -> "max_goals"
      [] Len(taken) < Budget.memories /\ s[i].kind = "project"
            /\ OfKind(s, taken, "project") >= Budget.projects -> "max_projects"
      [] OTHER -> "none"

\* A memory over a cap is left out without a note.
SlipTake(s, acc, i) ==
    IF ReasonToSkip(s, acc.taken, i) = "none"
    THEN [acc EXCEPT !.taken = Append(@, i)] ELSE acc

Take(s, acc, i) ==
    LET reason == ReasonToSkip(s, acc.taken, i) IN
    IF reason = "none" THEN [acc EXCEPT !.taken = Append(@, i)]
    ELSE [acc EXCEPT !.notes = @ \cup {[item |-> i, reason |-> reason]}]

\* Notes about a whole block stand under item 0.
Whole(reason) == [item |-> 0, reason |-> reason]

SelectMemories(g, s, planned) ==
    LET none(reason) == [taken |-> <<>>, notes |-> {Whole(reason)}] IN
    IF ~g.retrieve THEN none("blocked_by_guardian")
    ELSE IF planned = <<>> THEN none("planner_excluded")
    ELSE FoldLeft(LAMBDA acc, i : Take(s, acc, i), [taken |-> <<>>, notes |-> {}], planned)

\* What replaces the end of a page: the escaped ellipsis, and the flag.
Marker == 6 + 19

\* The cut is made in characters of the page for an overflow in characters of
\* the JSON text, where one character of the page takes `width`.
KeptChars(chars, total) == Most(0, chars - (total - Budget.chars) - 1)

\* The first cut is believed: the page is never looked at after the memories.
SlipFit(p, memoryChars) ==
    LET whole == BaseChars + p.width * p.chars IN
    [drops |-> whole + memoryChars > Budget.chars, cuts |-> FALSE, kept |-> p.chars,
     total |-> IF whole + memoryChars > Budget.chars THEN whole ELSE whole + memoryChars]

\* Over the budget the memories go first; then the end of the page.
Fit(p, memoryChars) ==
    LET whole == BaseChars + p.width * p.chars
        drops == whole + memoryChars > Budget.chars /\ memoryChars > 0
        left  == IF drops THEN whole ELSE whole + memoryChars
        cuts  == left > Budget.chars
        kept  == IF cuts THEN KeptChars(p.chars, left) ELSE p.chars
    IN [drops |-> drops, cuts |-> cuts, kept |-> kept,
        total |-> IF cuts THEN BaseChars + p.width * kept + Marker ELSE left]

CharsOf(s, ids) == FoldLeft(LAMBDA sum, i : sum + s[i].chars, 0, ids)

Assemble(p, g, s, planned) ==
    LET selected == SelectMemories(g, s, planned)
        fit == Fit(p, CharsOf(s, selected.taken))
    IN [shown  |-> IF fit.drops THEN <<>> ELSE selected.taken,
        notes  |-> selected.notes
                     \cup (IF fit.drops THEN {Whole("budget_char_limit")} ELSE {})
                     \cup (IF fit.cuts THEN {Whole("budget_char_limit_truncated")} ELSE {}),
        kept   |-> fit.kept,
        total  |-> fit.total]

BuildContext ==
    /\ pc = "context_builder"
    /\ context' = Assemble(page, guardian, shelf, plan.memories)
    /\ pc' = "prompt_builder"
    /\ UNCHANGED <<page, refusal, meaning, guardian, shelf, retrieved, plan, prompt, routing,
                   draft, verdict>>

-----------------------------------------------------------------------------
(* Prompt Builder and Specialist Router *)

MaxTokens == [d \in Depths |-> <<120, 250, 450, 650>>[d + 1]]

\* What the prompt tells the model.  The four required blocks are always there,
\* and the one template has one version.
BuildPrompt ==
    /\ pc = "prompt_builder"
    /\ prompt' = [memories |-> context.shown, page |-> context.kept,
                  questions |-> plan.questions, listen |-> plan.type = "listening",
                  celebrate |-> plan.type = "celebration", encourage |-> plan.encourage,
                  referral |-> guardian.referral, maxTokens |-> MaxTokens[plan.depth]]
    /\ pc' = "specialist_router"
    /\ UNCHANGED <<page, refusal, meaning, guardian, shelf, retrieved, plan, context, routing,
                   draft, verdict>>

\* The capability that a category, a context or an intent asks for.
Capabilities == <<
    [on |-> {"image_analysis"},            is |-> "image_understanding"],
    [on |-> {"academic_help", "homework", "learning"}, is |-> "tutoring"],
    [on |-> {"project_assistance"},        is |-> "programming"],
    [on |-> {"research", "medical_information", "medical_question", "information_request",
             "health_awareness"},          is |-> "internet_research"] >>

Desired(m, g) ==
    UNION {{row.is} : row \in {Capabilities[i] : i \in
        {k \in DOMAIN Capabilities : Capabilities[k].on \cap {g.category, m.context, m.intent} # {}}}}

\* find_by_capability, most preferred first.
Ranked(matched) ==
    [k \in 1..Cardinality(matched) |->
        CHOOSE s \in matched : Cardinality({t \in matched : Rank[t] > Rank[s]}) = k - 1]

Matched(desired) == {s \in Specialists : SkillOf[s] \cap desired # {}}

\* Who works on the request: the matches that participate, or else the Core,
\* or nobody.
SelectedBy(desired, registry) ==
    LET available == Matched(desired) \cap registry IN
    IF available # {} THEN Ranked(available)
    ELSE IF Core \in registry THEN <<Core>> ELSE <<>>

RouteRequest ==
    /\ pc = "specialist_router"
    /\ \E registry \in Registries :
          LET desired == Desired(meaning, guardian) IN
          /\ SelectedBy(desired, registry) # <<>>
          /\ routing' = [order |-> SelectedBy(desired, registry),
                         fallback |-> Core \in registry,
                         unavailable |-> Matched(desired) \ registry]
    /\ pc' = "mini_engine"
    /\ UNCHANGED <<page, refusal, meaning, guardian, shelf, retrieved, plan, context, prompt,
                   draft, verdict>>

RouteFails ==
    /\ pc = "specialist_router"
    /\ \E registry \in Registries : SelectedBy(Desired(meaning, guardian), registry) = <<>>
    /\ refusal' = {"no_available_specialist"}
    /\ pc' = "failed"
    /\ UNCHANGED <<page, meaning, guardian, shelf, retrieved, plan, context, prompt, routing,
                   draft, verdict>>

-----------------------------------------------------------------------------
(* The text, and the Quality Checker *)

\* The primary specialist's service writes what it will.
Generate ==
    /\ pc = "mini_engine"
    /\ draft' \in Drafts
    /\ pc' = "quality_checker"
    /\ UNCHANGED <<page, refusal, meaning, guardian, shelf, retrieved, plan, context, prompt,
                   routing, verdict>>

MaxChars == [d \in Depths |-> <<400, 800, 1600, 3000>>[d + 1]]
MinChars == 15

\* Phrases no text may have; a model's name and a generic phrase can be mended
\* by writing again, the others not.
Fatal   == {"identity_claim", "hidden_prompt", "unsafe_medical", "encourages_harm",
            "manipulation"}
Mended  == {"model_name", "generic"}

\* Violations that reject a text, and those that ask for another.
Blocking(text, g, found) ==
    \/ text.says \cap Fatal # {}
    \/ found = <<>> /\ "remembers" \in text.says
    \/ g.crisis /\ "referral" \notin text.says

\* The questions are compared with the plan in listening mode alone.
SlipFixable(text, g, m, pl) ==
    \/ text.says \cap Mended # {}
    \/ text.chars < MinChars
    \/ ~g.crisis /\
          \/ m.realWorld = "false" /\ "escalation" \in text.says
          \/ pl.type = "listening" /\ text.questions > 0
          \/ pl.type # "celebration" /\ text.shouts >= 3
          \/ text.chars > MaxChars[pl.depth]

Fixable(text, g, m, pl) ==
    \/ text.says \cap Mended # {}
    \/ text.chars < MinChars
    \/ ~g.crisis /\
          \/ m.realWorld = "false" /\ "escalation" \in text.says
          \/ text.questions > IF pl.type = "listening" THEN 0 ELSE pl.questions
          \/ pl.type # "celebration" /\ text.shouts >= 3
          \/ text.chars > MaxChars[pl.depth]

Verdict(text, g, m, pl, found) ==
    IF Blocking(text, g, found) THEN "rejected"
    ELSE IF Fixable(text, g, m, pl) THEN "needs_retry" ELSE "approved"

Review ==
    /\ pc = "quality_checker"
    /\ verdict' = Verdict(draft, guardian, meaning, plan, retrieved)
    /\ pc' = "done"
    /\ UNCHANGED <<page, refusal, meaning, guardian, shelf, retrieved, plan, context, prompt,
                   routing, draft>>

Next ==
    \/ ReceiveInput \/ AnalyzeMeaning \/ EvaluateGuardian
    \/ Retrieve \/ RetrieveNothing \/ PlanReflection
    \/ BuildContext \/ BuildPrompt \/ RouteRequest \/ RouteFails
    \/ Generate \/ Review

Spec == Init /\ [][Next]_vars

-----------------------------------------------------------------------------
(* Properties *)

Read     == guardian # Nil
Planned  == plan # Nil
Approved == verdict = "approved"

\* Meaning & Intent may discount a crisis, and two searches with different
\* phrase lists decide whether it does: whatever titles, quotes or jokes stand
\* around it, a first-person disclosure with a crisis signal is a crisis.  And
\* a crisis takes over all the way: nothing is planned, read, routed or kept,
\* and the template, which is the only text, passes the review.
DisclosureIsProtected ==
    Read =>
        /\ "disclosure" \in page.says
             /\ page.signals \cap {"self_harm", "harm_others", "emergency"} # {}
                => guardian.crisis
        /\ guardian.crisis =>
             /\ ~guardian.store /\ retrieved = <<>> /\ context = Nil /\ routing = Nil
             /\ Planned => plan = NoReflection /\ draft = Template
             /\ pc = "done" => Approved

\* Rule 11: fiction, quotes and jokes are not escalated, neither by the category
\* nor by the text that is approved.
FictionIsNotEscalated ==
    Read /\ meaning.realWorld = "false" =>
        /\ ~guardian.crisis
        /\ Approved => "escalation" \notin draft.says

\* No later node goes beyond what the Guardian allowed: not the plan, nor the
\* prompt made from it, nor the memories read for it.
GuardianIsTheCeiling ==
    /\ Planned => /\ plan.depth <= guardian.depth
                  /\ plan.questions <= guardian.questions
                  /\ ~guardian.reflect => plan = NoReflection
    /\ Read /\ ~guardian.retrieve => retrieved = <<>>
    /\ prompt # Nil => /\ prompt.questions <= guardian.questions
                       /\ prompt.maxTokens <= MaxTokens[guardian.depth]
                       /\ ~guardian.retrieve => prompt.memories = <<>>

\* The same ceiling seen from the reader: what an approved text does is within
\* the Guardian's limits, and it claims to remember only if something was found.
ApprovedStaysWithin ==
    Approved /\ ~guardian.crisis =>
        /\ draft.questions <= guardian.questions
        /\ guardian.tone = "grieving" => draft.questions = 0
        /\ draft.chars <= MaxChars[guardian.depth]
        /\ "remembers" \in draft.says => retrieved # <<>>

\* "Never silently discarded": a planned memory is in the prompt, or there is a
\* note about it or about the whole block.
NothingDroppedSilently ==
    context # Nil =>
        /\ ToSet(context.shown) \subseteq ToSet(plan.memories)
        /\ \A i \in ToSet(plan.memories) \ ToSet(context.shown) :
              \E note \in context.notes : note.item = i \/ note = Whole("budget_char_limit")
        /\ context.kept < page.chars => Whole("budget_char_limit_truncated") \in context.notes

\* A memory that was found is never crowded out by a less important one.
ImportantFirst ==
    \A i \in DOMAIN shelf : \A j \in ToSet(retrieved) :
        Score(shelf[i]) > 0 /\ i \notin ToSet(retrieved)
            => ~(shelf[i].priority < shelf[j].priority)

\* The context is over its budget by less than the marker of a cut, however
\* wide the characters of the page are.
BudgetNearlyHolds ==
    context # Nil /\ BaseChars < Budget.chars => context.total < Budget.chars + Marker
=============================================================================
