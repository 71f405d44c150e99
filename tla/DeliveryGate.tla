---------------------------- MODULE DeliveryGate ----------------------------
(***************************************************************************)
(* What the Soul Orchestra promises the reader of a diary page, with no    *)
(* node, retry, database or runtime in sight (Rules 10, 17, 20 and 21 of   *)
(* the Constitution): the Guardian decides once, texts are reviewed one    *)
(* after the other, the request is answered once, and the text shown with  *)
(* the answer is the text whose review, the last one made, approved it.    *)
(* On a crisis page only the fixed safety template is ever reviewed.       *)
(***************************************************************************)

CONSTANTS Texts,      \* every text that may be put before the Quality Checker
          Template,   \* the deterministic safety template, one of Texts
          NoText      \* what an answer without a reflection shows

VARIABLES mode,       \* what the Guardian has decided
          reviewed,   \* the last review: a text and its verdict
          shown,      \* the text the answer carries
          answered    \* has the request been answered?

gateVars == <<mode, reviewed, shown, answered>>

Modes    == {"undecided", "open", "crisis"}
Verdicts == {"none", "approved", "needs_retry", "rejected"}

NotReviewed == [text |-> NoText, verdict |-> "none"]

\* The texts that may be reviewed in a mode: none before the decision, the
\* template alone in a crisis.
Allowed(m) ==
    CASE m = "undecided" -> {}
      [] m = "open"      -> Texts \ {Template}
      [] OTHER           -> {Template}

GateInit ==
    /\ mode = "undecided"
    /\ reviewed = NotReviewed
    /\ shown = NoText
    /\ answered = FALSE

Decide(m) ==
    /\ mode = "undecided"
    /\ ~answered
    /\ mode' = m
    /\ UNCHANGED <<reviewed, shown, answered>>

\* A text that was approved or rejected is final: nothing is reviewed after it.
Review ==
    /\ ~answered
    /\ reviewed.verdict \in {"none", "needs_retry"}
    /\ reviewed' \in [text : Allowed(mode), verdict : Verdicts \ {"none"}]
    /\ UNCHANGED <<mode, shown, answered>>

Deliver ==
    /\ ~answered
    /\ reviewed.verdict = "approved"
    /\ shown' = reviewed.text
    /\ answered' = TRUE
    /\ UNCHANGED <<mode, reviewed>>

Withhold ==
    /\ ~answered
    /\ answered' = TRUE
    /\ UNCHANGED <<mode, reviewed, shown>>

GateNext ==
    \/ \E m \in Modes \ {"undecided"} : Decide(m)
    \/ Review
    \/ Deliver
    \/ Withhold

GateSpec == GateInit /\ [][GateNext]_gateVars
=============================================================================
