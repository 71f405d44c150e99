----------------------- MODULE MCReflectionDecisions -----------------------
(***************************************************************************)
(* Three families of pages: many phrases over few signals (the tables of   *)
(* Meaning & Intent), many signals over few phrases (the Guardian's), and  *)
(* every length up to well past a small budget, in narrow and wide         *)
(* characters.                                                             *)
(***************************************************************************)
EXTENDS ReflectionDecisions

UpToTwo(S)   == {{}} \cup {{a, b} : a, b \in S}
UpToThree(S) == {{}} \cup {{a, b, c} : a, b, c \in S}

Short(says, signals) ==
    [says |-> says, signals |-> signals, blank |-> FALSE, chars |-> 4, width |-> 1]

MCPages ==
    {Short(says, signals) : says \in UpToTwo(Says),
        signals \in {{}, {"self_harm", "sad"}, {"strong_distress"}}}
    \cup {Short(says, signals) : says \in {{}, {"disclosure"}, {"story"}},
                                 signals \in UpToThree(Signals)}
    \cup {[says |-> {}, signals |-> signals, blank |-> chars = 0, chars |-> chars,
           width |-> width] :
             signals \in {{}, {"sad", "joyful"}}, chars \in 0..12, width \in {1, 2, 6}}

Memory(kind, priority, matched, chars) ==
    [kind |-> kind, priority |-> priority, matched |-> matched, chars |-> chars]

\* Nothing; more goals than a context takes, found after what matters less;
\* more projects, and one memory that no word recalls; one that is too long.
MCShelves == {
    <<>>,
    <<Memory("other", 3, 1, 1), Memory("other", 2, 4, 1), Memory("goal", 1, 1, 1),
      Memory("goal", 0, 1, 1), Memory("goal", 1, 2, 1), Memory("milestone", 2, 3, 1)>>,
    <<Memory("project", 2, 2, 1), Memory("project", 2, 0, 1), Memory("project", 2, 3, 1),
      Memory("project", 2, 5, 1), Memory("other", 3, 1, 1)>>,
    <<Memory("other", 1, 1, 9)>> }

\* Two tutors, so that there is an order to keep.
MCSpecialists == {"mini_core", "mini_tutor", "mini_research", "second_tutor"}
MCSkillOf ==
    [s \in MCSpecialists |->
        CASE s \in {"mini_tutor", "second_tutor"} -> {"tutoring"}
          [] s = "mini_research" -> {"internet_research"}
          [] OTHER -> {"reflection"}]
MCRank ==
    [s \in MCSpecialists |->
        CASE s = "mini_core" -> 50 [] s = "mini_tutor" -> 75
          [] s = "mini_research" -> 70 [] OTHER -> 60]

\* As shipped, with every tutor, and with nobody.
MCRegistries == {{"mini_core"}, {"mini_core", "mini_tutor", "second_tutor"}, {}}

Text(says, questions, shouts, chars) ==
    [says |-> says, questions |-> questions, shouts |-> shouts, chars |-> chars]

MCDrafts == {
    Text({}, 0, 0, 100),
    Text({"remembers"}, 1, 0, 800),
    Text({"escalation"}, 0, 0, 801),
    Text({"escalation", "referral"}, 1, 0, 300),
    Text({}, 2, 3, 1600),
    Text({"generic"}, 0, 0, 14),
    Text({"manipulation"}, 0, 0, 100) }

MCBudget == [memories |-> 3, goals |-> 2, projects |-> 2, chars |-> 20]
=============================================================================
