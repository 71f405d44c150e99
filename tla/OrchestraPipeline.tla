------------------------- MODULE OrchestraPipeline -------------------------
(***************************************************************************)
(* One request through the Soul Orchestra: the route (reflect or close),   *)
(* run_orchestra's nodes in order, the database session they share, and    *)
(* the commit that ends the route (backend/app/orchestra/pipeline.py and   *)
(* backend/app/api/routes/soulbooks.py).                                   *)
(*                                                                         *)
(* Texts are abstracted to where they come from: the deterministic crisis  *)
(* template, or the n-th call of the model runtime.  The Guardian is       *)
(* abstracted to the two decisions the pipeline tells apart.  A database   *)
(* session is its committed and its flushed content and whether it can     *)
(* still be used: a flush that fails leaves an SQLAlchemy session refusing *)
(* every statement, commit included, until somebody rolls it back, and     *)
(* nothing in the pipeline or the routes does.                             *)
(***************************************************************************)
EXTENDS Naturals, Sequences

CONSTANTS QualityRetryLimit,   \* orchestra.json: quality_retry_limit
          MiniRetries,         \* settings.MINI_RETRIES
          SaveNodeMetrics      \* orchestra.json: save_node_metrics

ASSUME PipelineAssumption ==
    /\ QualityRetryLimit \in Nat
    /\ MiniRetries \in Nat
    /\ SaveNodeMetrics \in BOOLEAN

VARIABLES
    route,       \* "reflect" or "close": the endpoint called
    pc,          \* the node to run next, or the route's own step
    guardian,    \* the Guardian's decision
    candidate,   \* the text under review
    review,      \* the last Quality Checker verdict and the text it judged
    calls,       \* runtime calls made so far
    attempt,     \* failed attempts of the running Mini Engine call
    retries,     \* quality retries used
    decision,    \* what the memory stage reports: "none", "create", "update"
    session,     \* "active", or "inactive" after a failed flush
    staged,      \* what this session sees: the database and its own flushes
    committed,   \* what the database keeps
    metrics,     \* node metrics, in the order they were recorded
    package,     \* the ConversationPackage, once there is one
    response     \* the HTTP answer, once there is one

textVars == <<candidate, review, calls, attempt, retries>>
dbVars   == <<session, staged, committed>>
vars == <<route, pc, guardian, textVars, decision, dbVars, metrics, package, response>>

-----------------------------------------------------------------------------
(* Values *)

Routes == {"reflect", "close"}

GenerationNodes == {"context_builder", "prompt_builder", "specialist_router", "mini_engine"}
MemoryNodes     == {"memory_writer", "memory_intelligence"}
Nodes == {"input_receiver", "meaning_intent", "guardian", "memory_retriever",
          "reflection_planner", "quality_checker", "conversation_composer"}
            \cup GenerationNodes \cup MemoryNodes
Steps == Nodes \cup {"save_page", "save_commit", "commit", "answered"}

Verdicts  == {"none", "approved", "needs_retry", "rejected"}
MemoryOps == {"none", "create", "update"}

Undecided == [decided |-> FALSE, crisis |-> FALSE, store |-> FALSE]

\* The combinations that the rows of _POLICY and the overrides after them
\* produce: a crisis row blocks storage, the others allow or block it.
GuardianResults ==
    [decided : {TRUE}, crisis : {FALSE}, store : BOOLEAN]
        \cup [decided : {TRUE}, crisis : {TRUE}, store : {FALSE}]

NoText       == [source |-> "none", call |-> 0]
Template     == [source |-> "template", call |-> 0]
Generated(n) == [source |-> "model", call |-> n]
Texts        == [source : {"template", "model"}, call : Nat]

NotReviewed == [text |-> NoText, verdict |-> "none"]

\* The rows this request may write: the page it saves, and the memory with the
\* provenance stamped on it and the version row that opens its history.
Contents  == [page : BOOLEAN, memory : MemoryOps, provenance : BOOLEAN, version : BOOLEAN]
Unwritten == [page |-> FALSE, memory |-> "none", provenance |-> FALSE, version |-> FALSE]

NoPackage  == [status |-> "none", text |-> NoText, memory |-> "none", failedNode |-> "none"]
Packages   == [status : {"none", "delivered", "not_delivered"}, text : Texts \cup {NoText},
               memory : MemoryOps, failedNode : Nodes \cup {"none", "pipeline"}]
NoResponse == [code |-> 0, text |-> NoText, memory |-> "none"]
Responses  == [code : {0, 200, 404, 500}, text : Texts \cup {NoText}, memory : MemoryOps]

-----------------------------------------------------------------------------
(* _Run: metrics, and the two ways a node ends.  Definitions whose name      *)
(* starts with Slip are plausible mistakes in the definition that follows    *)
(* them; no specification uses them, they show that a property can fail.     *)

Metrics == [node : Nodes, status : {"completed", "failed", "skipped"}]

Record(recorded, node, status) ==
    IF SaveNodeMetrics THEN Append(recorded, [node |-> node, status |-> status]) ELSE recorded

SkipGeneration(recorded) ==
    Record(Record(Record(Record(recorded, "context_builder", "skipped"),
                         "prompt_builder", "skipped"),
                  "specialist_router", "skipped"),
           "mini_engine", "skipped")

Completes(node, next) ==
    /\ pc = node
    /\ pc' = next
    /\ metrics' = Record(metrics, node, "completed")

\* The failure package names the node of the last metric, if that one failed.
FailurePackage(recorded) ==
    [NoPackage EXCEPT
        !.status = "not_delivered",
        !.failedNode = IF recorded # <<>> /\ recorded[Len(recorded)].status = "failed"
                       THEN recorded[Len(recorded)].node
                       ELSE "pipeline"]

FailsWith(node, recorded) ==
    /\ pc = node
    /\ metrics' = recorded
    /\ package' = FailurePackage(recorded)
    /\ pc' = "commit"
    /\ UNCHANGED <<route, guardian, decision, dbVars, response>>

SlipUnrecordedFailure(node) == FailsWith(node, metrics)

\* An exception that reaches run_orchestra's outer handler ends the run there.
Fails(node) == FailsWith(node, Record(metrics, node, "failed"))

-----------------------------------------------------------------------------
(* The database session *)

\* A flush that fails rolls the transaction back and leaves the session inactive.
FlushFails ==
    /\ session' = "inactive"
    /\ staged' = committed
    /\ UNCHANGED committed

Answer(code) == [NoResponse EXCEPT !.code = code]

\* The route raises: get_db closes the session, which rolls it back.
RouteRaises(code) ==
    /\ pc' = "answered"
    /\ response' = Answer(code)
    /\ staged' = committed
    /\ UNCHANGED <<route, guardian, textVars, decision, session, committed, metrics, package>>

-----------------------------------------------------------------------------
(* close_book saves the page first; reflect_on_page starts with the run *)

Init ==
    /\ route \in Routes
    /\ pc = IF route = "close" THEN "save_page" ELSE "input_receiver"
    /\ guardian = Undecided
    /\ candidate = NoText
    /\ review = NotReviewed
    /\ calls = 0
    /\ attempt = 0
    /\ retries = 0
    /\ decision = "none"
    /\ session = "active"
    /\ staged = Unwritten
    /\ committed = Unwritten
    /\ metrics = <<>>
    /\ package = NoPackage
    /\ response = NoResponse

\* autosave_page, set_bookmark, get_book and get_chapter with touch, get_page.
SavePage ==
    /\ pc = "save_page"
    /\ staged' = [staged EXCEPT !.page = TRUE]
    /\ pc' = "save_commit"
    /\ UNCHANGED <<route, guardian, textVars, decision, session, committed, metrics,
                   package, response>>

\* One of the five finds nothing (404) or the database fails (500).
SavePageRaises ==
    /\ pc = "save_page"
    /\ \E code \in {404, 500} : RouteRaises(code)

\* The save is flushed and left for the commit that ends the route.
SlipSaveUncommitted ==
    /\ pc = "save_commit"
    /\ pc' = "input_receiver"
    /\ UNCHANGED <<route, guardian, textVars, decision, dbVars, metrics, package, response>>

CommitPage ==
    /\ pc = "save_commit"
    /\ committed' = staged
    /\ pc' = "input_receiver"
    /\ UNCHANGED <<route, guardian, textVars, decision, session, staged, metrics,
                   package, response>>

CommitPageFails == pc = "save_commit" /\ RouteRaises(500)

-----------------------------------------------------------------------------
(* run_orchestra, nodes 1 to 7 *)

runVars == <<route, decision, dbVars, package, response>>

InputReceiver ==
    /\ Completes("input_receiver", "meaning_intent")
    /\ UNCHANGED <<runVars, guardian, textVars>>

MeaningIntent ==
    /\ Completes("meaning_intent", "guardian")
    /\ UNCHANGED <<runVars, guardian, textVars>>

Guardian ==
    /\ Completes("guardian", "memory_retriever")
    /\ guardian' \in GuardianResults
    /\ UNCHANGED <<runVars, textVars>>

MemoryRetriever ==
    /\ Completes("memory_retriever", "reflection_planner")
    /\ UNCHANGED <<runVars, guardian, textVars>>

\* The short circuit is forgotten: a crisis page is generated like any other.
SlipNoShortCircuit ==
    /\ Completes("reflection_planner", "context_builder")
    /\ UNCHANGED <<runVars, guardian, textVars>>

\* The planner's plan; a crisis then goes straight to review with its template.
ReflectionPlanner ==
    /\ pc = "reflection_planner"
    /\ LET planned == Record(metrics, "reflection_planner", "completed") IN
       IF guardian.crisis
       THEN /\ candidate' = Template
            /\ metrics' = SkipGeneration(planned)
            /\ pc' = "quality_checker"
       ELSE /\ metrics' = planned
            /\ pc' = "context_builder"
            /\ UNCHANGED candidate
    /\ UNCHANGED <<runVars, guardian, review, calls, attempt, retries>>

ContextBuilder ==
    /\ Completes("context_builder", "prompt_builder")
    /\ UNCHANGED <<runVars, guardian, textVars>>

PromptBuilder ==
    /\ Completes("prompt_builder", "specialist_router")
    /\ UNCHANGED <<runVars, guardian, textVars>>

SpecialistRouter ==
    /\ Completes("specialist_router", "mini_engine")
    /\ UNCHANGED <<runVars, guardian, textVars>>

\* The runtime answers with a text that is not blank.
MiniEngine ==
    /\ Completes("mini_engine", "quality_checker")
    /\ calls' = calls + 1
    /\ attempt' = 0
    /\ candidate' = Generated(calls + 1)
    /\ UNCHANGED <<runVars, guardian, review, retries>>

FailedAttempt ==
    /\ pc = "mini_engine"
    /\ attempt' = attempt + 1
    /\ calls' = calls + 1
    /\ UNCHANGED <<runVars, guardian, candidate, review, retries, pc, metrics>>

\* Timeout, runtime unavailable, malformed or blank answer: try again.
MiniEngineRetries == attempt < MiniRetries /\ FailedAttempt

\* The last attempt failed, or the runtime raised what the loop does not catch.
MiniEngineGivesUp ==
    /\ Fails("mini_engine")
    /\ calls' = calls + 1
    /\ attempt' = 0
    /\ UNCHANGED <<candidate, review, retries>>

\* Any other node of nodes 1 to 8, or the Composer, raises.
NodeRaises ==
    /\ \E node \in Nodes \ MemoryNodes : Fails(node)
    /\ UNCHANGED textVars

-----------------------------------------------------------------------------
(* Node 8 and the regeneration of fixable candidates *)

\* What check() can say of a candidate.  The templates break none of its rules,
\* so their review always approves; a generated text may break any.
VerdictsOn(text) ==
    IF text = Template THEN {"approved"} ELSE Verdicts \ {"none"}

\* One review; a fixable text is regenerated while mayRegenerate holds.
Reviews(mayRegenerate) ==
    /\ pc = "quality_checker"
    /\ metrics' = Record(metrics, "quality_checker", "completed")
    /\ \E verdict \in VerdictsOn(candidate) :
          /\ review' = [text |-> candidate, verdict |-> verdict]
          /\ IF verdict = "needs_retry" /\ mayRegenerate
             THEN pc' = "mini_engine" /\ retries' = retries + 1
             ELSE pc' = "memory_writer" /\ retries' = retries
    /\ UNCHANGED <<runVars, guardian, candidate, calls, attempt>>

QualityChecker == Reviews(retries < QualityRetryLimit)

-----------------------------------------------------------------------------
(* Node 9: the memory stage, whose exceptions stop at an inner handler *)

MemoryStageEnds(node, kept) ==
    /\ pc = node
    /\ metrics' = Record(metrics, node, "failed")
    /\ decision' = kept
    /\ pc' = "conversation_composer"
    /\ UNCHANGED <<route, guardian, textVars, package, response>>

SlipDecisionKept(node) == MemoryStageEnds(node, decision)

\* After an exception of either node: the decision is forgotten, the run goes on.
MemoryStageFails(node) == MemoryStageEnds(node, "none")

SkipMemory ==
    /\ pc = "memory_writer"
    /\ review.verdict # "approved"
    /\ metrics' = Record(Record(metrics, "memory_writer", "skipped"),
                         "memory_intelligence", "skipped")
    /\ pc' = "conversation_composer"
    /\ UNCHANGED <<runVars, guardian, textVars>>

\* Nothing to store: blocked by the Guardian, no candidate fact, or a duplicate.
WriteNothing ==
    /\ pc = "memory_writer"
    /\ review.verdict = "approved"
    /\ metrics' = Record(Record(metrics, "memory_writer", "completed"),
                         "memory_intelligence", "skipped")
    /\ pc' = "conversation_composer"
    /\ UNCHANGED <<runVars, guardian, textVars>>

Writes ==
    /\ review.verdict = "approved"
    /\ Completes("memory_writer", "memory_intelligence")
    /\ \E op \in MemoryOps \ {"none"} :
          /\ staged' = [staged EXCEPT !.memory = op]
          /\ decision' = op
    /\ UNCHANGED <<route, guardian, textVars, session, committed, package, response>>

\* A new row, or an evolving memory updated in place; flushed, not committed.
WriteMemory == guardian.store /\ Writes

\* assess: stamps the provenance on the row, then records its version.
AssessMemory ==
    /\ Completes("memory_intelligence", "conversation_composer")
    /\ staged' = [staged EXCEPT !.provenance = TRUE, !.version = TRUE]
    /\ UNCHANGED <<route, guardian, textVars, decision, session, committed, package, response>>

\* An exception that is not a flush: a failed read in the writer, or assess
\* without its configuration file.  Rows flushed before it stay staged.
MemoryNodeRaises ==
    /\ review.verdict = "approved"
    /\ \E node \in MemoryNodes : MemoryStageFails(node)
    /\ UNCHANGED dbVars

\* A flush the database refuses: keywords longer than their column, an outage.
MemoryFlushFails ==
    /\ review.verdict = "approved"
    /\ guardian.store
    /\ \E node \in MemoryNodes : MemoryStageFails(node)
    /\ FlushFails

-----------------------------------------------------------------------------
(* Node 10 and the end of the route *)

Composes(deliverable) ==
    /\ Completes("conversation_composer", "commit")
    /\ package' = IF deliverable
                  THEN [status |-> "delivered", text |-> candidate, memory |-> decision,
                        failedNode |-> "none"]
                  ELSE [NoPackage EXCEPT !.status = "not_delivered"]
    /\ UNCHANGED <<route, guardian, textVars, decision, dbVars, response>>

SlipDeliversUnrejected == Composes(review.verdict # "rejected")

ConversationComposer == Composes(review.verdict = "approved")

CommitsAndShows(text) ==
    /\ pc = "commit"
    /\ session = "active"
    /\ committed' = staged
    /\ response' = [code |-> 200, text |-> text, memory |-> package.memory]
    /\ pc' = "answered"
    /\ UNCHANGED <<route, guardian, textVars, decision, session, staged, metrics, package>>

SlipAnswersCandidate == CommitsAndShows(candidate)

CommitRun == CommitsAndShows(package.text)

SlipInactiveSessionHangs == pc = "commit" /\ session = "active" /\ RouteRaises(500)

\* The database refuses the commit, or the session does (inactive).
CommitRunFails == pc = "commit" /\ RouteRaises(500)

RouteStep == SavePage \/ SavePageRaises \/ CommitPage \/ CommitPageFails
                \/ CommitRun \/ CommitRunFails
NodeStep == InputReceiver \/ MeaningIntent \/ Guardian \/ MemoryRetriever
               \/ ReflectionPlanner \/ ContextBuilder \/ PromptBuilder \/ SpecialistRouter
               \/ MiniEngine \/ MiniEngineRetries \/ MiniEngineGivesUp \/ NodeRaises
               \/ QualityChecker \/ ConversationComposer
MemoryStep == SkipMemory \/ WriteNothing \/ WriteMemory \/ AssessMemory
                 \/ MemoryNodeRaises \/ MemoryFlushFails

Next == RouteStep \/ NodeStep \/ MemoryStep

Spec == Init /\ [][Next]_vars

\* The route runs to its end on its worker thread: every runtime call has a
\* timeout and nothing else in the run waits.
FairSpec == Spec /\ WF_vars(Next)

-----------------------------------------------------------------------------
(* Properties *)

\* Every variable holds a value of its kind.
TypeOK ==
    /\ route \in Routes
    /\ pc \in Steps
    /\ guardian \in GuardianResults \cup {Undecided}
    /\ candidate \in Texts \cup {NoText}
    /\ review \in [text : Texts \cup {NoText}, verdict : Verdicts]
    /\ calls \in Nat
    /\ attempt \in 0..MiniRetries
    /\ retries \in 0..QualityRetryLimit
    /\ decision \in MemoryOps
    /\ session \in {"active", "inactive"}
    /\ staged \in Contents
    /\ committed \in Contents
    /\ metrics \in Seq(Metrics)
    /\ package \in Packages
    /\ response \in Responses

\* Rules 17 and 20: whatever was regenerated, and whichever node failed in
\* between, a text the client receives is the one the last review approved.
OnlyApprovedIsShown ==
    response.text # NoText => review = [text |-> response.text, verdict |-> "approved"]

\* The crisis short circuit: on a crisis page the runtime is never called, the
\* template is the only text that can be shown and nothing is remembered.
CrisisStaysDeterministic ==
    guardian.crisis =>
        /\ calls = 0
        /\ response.text \in {NoText, Template}
        /\ staged.memory = "none" /\ committed.memory = "none"

\* Retries multiply: one request calls the runtime at most this often, however
\* timeouts and quality retries alternate.
RuntimeCallsBounded == calls <= (QualityRetryLimit + 1) * (MiniRetries + 1)

\* Rules 18 and 19: a memory survives the request only if the exchange it comes
\* from was approved and the Guardian let it be stored.
MemoryIsEarned ==
    committed.memory # "none" => review.verdict = "approved" /\ guardian.store

\* What the answer tells the client was remembered is in the database, with
\* its provenance and its version row, although writer and intelligence flush
\* separately and each may fail.
ReportedMemoryIsKept ==
    response.memory # "none" =>
        /\ committed.memory = response.memory
        /\ committed.provenance /\ committed.version

\* Saving has priority: once close_book has begun the Orchestra the page is in
\* the database, and no failure of the run takes it back.
SavedPageIsKept ==
    route = "close" /\ (pc \in Nodes \/ package # NoPackage) => committed.page

\* An exception is attributed to the node that raised it, even when a memory
\* node had failed before and the run had gone on.
FailureNamesNode ==
    [][package = NoPackage /\ package'.failedNode # "none"
         => package'.failedNode = (IF SaveNodeMetrics THEN pc ELSE "pipeline")]_vars

\* The route answers, whatever the runtime, the database or a node does.
EveryRequestIsAnswered == <>(pc = "answered")

\* The pipeline implements the delivery gate: what its client sees is the
\* response alone.
Gate == INSTANCE DeliveryGate WITH
    mode     <- IF ~guardian.decided THEN "undecided"
                ELSE IF guardian.crisis THEN "crisis" ELSE "open",
    reviewed <- review,
    shown    <- response.text,
    answered <- pc = "answered"

ImplementsGate == Gate!GateSpec

-----------------------------------------------------------------------------
(* Claims of the code's own comments that the code does not meet *)

\* "Memory problems must never block or corrupt the conversation": an approved
\* reflection composed after a memory failure reaches the client.
MemoryNeverBlocksDelivery ==
    pc = "answered" /\ package.status = "delivered" /\ session = "inactive"
        => response.code = 200
=============================================================================
