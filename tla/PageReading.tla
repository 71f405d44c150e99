---------------------------- MODULE PageReading ----------------------------
(***************************************************************************)
(* How the Orchestra reads a page before anything is generated: Meaning &  *)
(* Intent (backend/app/orchestra/meaning/engine.py), then the Guardian     *)
(* (backend/app/orchestra/guardian/engine.py).  Both are rule tables with  *)
(* a fixed order, so both are operators here.                              *)
(*                                                                         *)
(* A page is what the tables can tell apart: the phrase banks its titles   *)
(* and its text meet (says), the Guardian's lexicon entries its text meets *)
(* (signals), and whether the text is blank.  The two are found by         *)
(* different searches over the same text and are therefore independent:    *)
(* "i want to hurt" discloses without any signal, "suicidal" signals       *)
(* without disclosing.                                                     *)
(***************************************************************************)
EXTENDS Integers, Sequences

\* The row of a table that decides: the first whose `on` meets the marks.
FirstMatch(table, marks, otherwise) ==
    LET hits == {i \in DOMAIN table : table[i].on \cap marks # {}} IN
    IF hits = {} THEN otherwise
    ELSE table[CHOOSE i \in hits : \A j \in hits : i <= j].is

Least(a, b) == IF a <= b THEN a ELSE b
Most(a, b)  == IF a <= b THEN b ELSE a

-----------------------------------------------------------------------------
(* Meaning & Intent *)

\* Named after the phrases.  "novel" to "story", "title" and "project" are
\* looked for in the titles alone, and a title with "history" in it has
\* "story" in it; "creative" is a word of the book's title.
Says == {"roleplay", "screenplay", "script", "novel", "story", "poem", "song", "title",
         "homework", "research", "awareness", "medical", "history", "news", "lesson",
         "project", "brainstorm", "creative", "disclosure", "quote", "idiom", "humor",
         "satire", "hyperbole", "metaphor", "mourning"}

ContextTable == <<
    [on |-> {"roleplay"},   is |-> "roleplay"],
    [on |-> {"screenplay"}, is |-> "screenplay"],
    [on |-> {"script"},     is |-> "script"],
    [on |-> {"novel"},      is |-> "novel"],
    [on |-> {"story"},      is |-> "short_story"],
    [on |-> {"poem"},       is |-> "poem"],
    [on |-> {"song"},       is |-> "song"],
    [on |-> {"homework"},   is |-> "homework"],
    [on |-> {"research"},   is |-> "research"],
    [on |-> {"awareness"},  is |-> "health_awareness"],
    [on |-> {"medical"},    is |-> "medical_question"],
    [on |-> {"history"},    is |-> "historical_discussion"],
    [on |-> {"news"},       is |-> "news_discussion"],
    [on |-> {"lesson"},     is |-> "educational_discussion"],
    [on |-> {"project"},    is |-> "project_planning"],
    [on |-> {"brainstorm"}, is |-> "creative_brainstorm"] >>

ContextOf(says) ==
    LET kind == FirstMatch(ContextTable, says, "personal_journal") IN
    IF kind # "song" THEN kind
    ELSE IF "title" \in says THEN "song_title" ELSE "song_lyrics"

\* Phrases that settle the meaning whatever the context is.
PhraseTable == <<
    [on |-> {"quote"},     is |-> "quotation"],
    [on |-> {"idiom"},     is |-> "idiom"],
    [on |-> {"humor"},     is |-> "humor"],
    [on |-> {"hyperbole"}, is |-> "hyperbole"] >>

\* The meaning a context has by itself.
ContextMeaning == <<
    [on |-> {"novel", "short_story", "script", "screenplay", "roleplay"}, is |-> "fictional"],
    [on |-> {"song_lyrics", "song_title"},                    is |-> "metaphorical"],
    [on |-> {"poem"},                                         is |-> "symbolic"],
    [on |-> {"historical_discussion", "news_discussion"},     is |-> "historical"],
    [on |-> {"health_awareness"},                             is |-> "awareness"],
    [on |-> {"research", "homework", "medical_question", "educational_discussion"},
                                                              is |-> "educational"],
    [on |-> {"creative_brainstorm"},                          is |-> "creative"],
    [on |-> {"personal_journal"},                             is |-> "literal"] >>

\* A disclosure is literal in a poem and in a journal; so is mourning in a poem.
MeaningOf(context, says) ==
    LET phrase == FirstMatch(PhraseTable, says, "none") IN
    IF phrase # "none"
    THEN IF phrase = "humor" /\ "satire" \in says THEN "satire" ELSE phrase
    ELSE IF context = "poem" /\ says \cap {"disclosure", "mourning"} # {} THEN "literal"
    ELSE IF context = "personal_journal" /\ "metaphor" \in says /\ "disclosure" \notin says
         THEN "metaphorical"
    ELSE FirstMatch(ContextMeaning, {context}, "unknown")

IntentTable == <<
    [on |-> {"song_lyrics", "song_title"},                     is |-> "songwriting"],
    [on |-> {"poem"},                                          is |-> "poetry"],
    [on |-> {"novel", "short_story", "script", "screenplay"},  is |-> "storytelling"],
    [on |-> {"roleplay"},                                      is |-> "entertainment"],
    [on |-> {"homework", "educational_discussion", "historical_discussion",
             "news_discussion"},                               is |-> "learning"],
    [on |-> {"research"},                                      is |-> "research"],
    [on |-> {"medical_question"},                              is |-> "information_request"],
    [on |-> {"health_awareness"},                              is |-> "health_awareness"],
    [on |-> {"project_planning"},                              is |-> "project_development"],
    [on |-> {"creative_brainstorm"},                           is |-> "creative_expression"] >>

IntentOf(context, disclosed) ==
    IF context # "personal_journal" THEN FirstMatch(IntentTable, {context}, "unknown")
    ELSE IF disclosed THEN "literal_self_disclosure" ELSE "personal_reflection"

\* The context is looked at first: a disclosure in a story is fiction.
SlipRealWorldOf(context, meaning, disclosed) ==
    IF context # "personal_journal" \/ meaning \notin {"literal", "unknown"} THEN "false"
    ELSE "true"

\* Is somebody really going to do this?  A disclosure is at least "unclear".
\* Every context but the journal, and every meaning but the literal and the
\* unknown, counts as not of the real world.
RealWorldOf(context, meaning, disclosed) ==
    IF disclosed
    THEN IF context = "personal_journal" /\ meaning = "literal" THEN "true" ELSE "unclear"
    ELSE IF context # "personal_journal" \/ meaning \notin {"literal", "unknown"}
         THEN "false" ELSE "true"

Analyze(page) ==
    LET context == ContextOf(page.says)
        meaning == MeaningOf(context, page.says)
        disclosed == "disclosure" \in page.says
    IN [context |-> context, meaning |-> meaning,
        intent |-> IntentOf(context, disclosed),
        realWorld |-> RealWorldOf(context, meaning, disclosed)]

-----------------------------------------------------------------------------
(* The Guardian *)

CrisisSignals   == {"self_harm", "harm_others", "emergency", "strong_distress"}
OverrideSignals == {"identity_override", "roleplay_override", "safety_override"}
Signals == CrisisSignals \cup OverrideSignals \cup
           {"grief", "sad", "angry", "anxious", "overwhelmed", "frustrated", "joyful",
            "positive", "hopeful", "reflective", "medical", "legal", "academic", "project",
            "research", "image"}

CategoryTable == <<
    [on |-> {"self_harm"},       is |-> "self_harm_risk"],
    [on |-> {"harm_others"},     is |-> "harm_to_others"],
    [on |-> {"emergency"},       is |-> "emergency"],
    [on |-> {"strong_distress"}, is |-> "high_emotional_distress"],
    [on |-> {"medical"},         is |-> "medical_information"],
    [on |-> {"legal"},           is |-> "legal_information"],
    [on |-> {"academic"},        is |-> "academic_help"],
    [on |-> {"project"},         is |-> "project_assistance"],
    [on |-> {"image"},           is |-> "image_analysis"],
    [on |-> {"research"},        is |-> "research"],
    [on |-> {"grief", "sad", "angry", "anxious", "overwhelmed"}, is |-> "emotional_support"],
    [on |-> {"frustrated"},      is |-> "low_concern"] >>

\* Overwhelmed and sad, anxious or grieving at once weighs like strong distress.
CategoryOf(signals) ==
    LET laden == "overwhelmed" \in signals /\ signals \cap {"sad", "anxious", "grief"} # {}
    IN FirstMatch(CategoryTable,
                  signals \cup (IF laden THEN {"strong_distress"} ELSE {}), "safe")

ToneTable == <<
    [on |-> {"grief"},                          is |-> "grieving"],
    [on |-> {"overwhelmed", "strong_distress"}, is |-> "overwhelmed"],
    [on |-> {"angry"},      is |-> "angry"],
    [on |-> {"anxious"},    is |-> "anxious"],
    [on |-> {"sad"},        is |-> "sad"],
    [on |-> {"frustrated"}, is |-> "frustrated"],
    [on |-> {"joyful"},     is |-> "joyful"],
    [on |-> {"hopeful"},    is |-> "hopeful"],
    [on |-> {"positive"},   is |-> "positive"],
    [on |-> {"reflective"}, is |-> "reflective"] >>

ToneOf(signals, blank) ==
    LET low  == {"grief", "sad", "angry", "anxious", "overwhelmed", "frustrated",
                 "strong_distress"}
        high == {"joyful", "positive", "hopeful"}
    IN IF blank THEN "uncertain"
       ELSE IF signals \cap low # {} /\ signals \cap high # {} THEN "mixed"
       ELSE FirstMatch(ToneTable, signals, "neutral")

GladTones == {"joyful", "positive", "hopeful"}

Crises == {"self_harm_risk", "harm_to_others", "emergency"}
Advice == {"medical_information", "legal_information"}

\* Depths of a reflection, and what the Quality Checker and the Prompt Builder
\* read off them.
None   == 0
Light  == 1
Medium == 2
Deep   == 3
Depths == None..Deep

ConfidenceTable == <<
    [on |-> Crises,                      is |-> 90],
    [on |-> {"high_emotional_distress"}, is |-> 75],
    [on |-> {"emotional_support"},       is |-> 72],
    [on |-> {"safe"},                    is |-> 70],
    [on |-> {"low_concern"} \cup Advice, is |-> 60],
    [on |-> {"academic_help", "project_assistance", "research"}, is |-> 50] >>

ActionTable == <<
    [on |-> Crises, is |-> "crisis_response"],
    [on |-> Advice, is |-> "encourage_support"],
    [on |-> {"emotional_support", "high_emotional_distress", "image_analysis"},
                    is |-> "gentle_reflection"] >>

\* The rows of _POLICY; questions is max_questions, and allow_questions holds
\* where it is not zero.  No category is ever UNKNOWN.
Policy(category) ==
    [reflect    |-> category \notin Crises,
     store      |-> category \in {"safe", "low_concern", "emotional_support"},
     retrieve   |-> category \notin Crises \cup {"image_analysis"},
     questions  |-> IF category \in Crises \cup {"image_analysis"} THEN 0 ELSE 1,
     depth      |-> IF category \in Crises THEN None
                    ELSE IF category \in {"emotional_support", "high_emotional_distress",
                                          "image_analysis"} THEN Medium ELSE Light,
     referral   |-> category \in Crises \cup Advice \cup {"high_emotional_distress"},
     crisis     |-> category \in Crises,
     action     |-> FirstMatch(ActionTable, {category}, "continue_reflection"),
     confidence |-> FirstMatch(ConfidenceTable, {category}, 35)]

\* A policy and the overrides after it, in the code's order: celebrate, make
\* space for grief, decline an override, be careful when unsure.
Governed(policy, category, tone, override) ==
    LET calm == ~policy.crisis
        grieving == calm /\ tone = "grieving"
        declines == calm /\ override
        confidence == IF declines THEN Most(policy.confidence, 70) ELSE policy.confidence
        unsure == calm /\ confidence < 40
    IN [category   |-> category,
        tone       |-> tone,
        reflect    |-> policy.reflect,
        store      |-> policy.store /\ ~declines,
        retrieve   |-> policy.retrieve,
        questions  |-> IF grieving \/ unsure THEN 0 ELSE policy.questions,
        depth      |-> IF unsure THEN Least(policy.depth, Light) ELSE policy.depth,
        referral   |-> policy.referral,
        crisis     |-> policy.crisis,
        action     |-> IF declines THEN "decline_override"
                       ELSE IF grieving THEN "listen_only"
                       ELSE IF category \in {"safe", "low_concern"} /\ tone \in GladTones
                       THEN "celebrate" ELSE policy.action,
        confidence |-> confidence]

\* Stories are discounted; lyrics, quotes and jokes are not.
SlipOnlyFiction(signals, meaning) ==
    CategoryOf(signals) \in Crises /\ meaning.realWorld = "false" /\ meaning.meaning = "fictional"

\* A crisis raised by words without real-world intent is read again without
\* the words that raised it.
Discounted(signals, meaning) ==
    CategoryOf(signals) \in Crises /\ meaning.realWorld = "false"

Evaluate(page, meaning) ==
    LET weighed == IF Discounted(page.signals, meaning)
                   THEN page.signals \ CrisisSignals ELSE page.signals
        category == CategoryOf(weighed)
        tone == ToneOf(weighed, page.blank)
        override == page.signals \cap OverrideSignals # {}
    IN Governed(Policy(category), category, tone, override)
=============================================================================
