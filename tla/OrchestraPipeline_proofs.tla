---------------------- MODULE OrchestraPipeline_proofs ----------------------
(***************************************************************************)
(* Proofs about OrchestraPipeline, for every retry limit of the quality    *)
(* loop and of the Mini Engine and with or without node metrics.           *)
(***************************************************************************)
EXTENDS OrchestraPipeline, TLAPS

-----------------------------------------------------------------------------
(* The inductive invariant, by subject *)

EarlySteps == {"save_page", "save_commit", "input_receiver", "meaning_intent", "guardian"}
DraftSteps == GenerationNodes \cup {"quality_checker"}
LateNodes  == MemoryNodes \cup {"conversation_composer"}

\* The Guardian's node decides, and every later node runs on its decision.
DecisionInv ==
    /\ pc \in EarlySteps => guardian = Undecided
    /\ pc \in DraftSteps \cup LateNodes \cup {"memory_retriever", "reflection_planner"}
          => guardian \in GuardianResults
    /\ pc \in GenerationNodes => ~guardian.crisis

\* The text under review is the template in a crisis, a generated one otherwise.
CandidateInv ==
    /\ guardian.crisis => calls = 0
    /\ pc \in EarlySteps => calls = 0
    /\ pc \in EarlySteps \cup {"memory_retriever", "reflection_planner"}
          => calls = 0 /\ review = NotReviewed
    /\ pc \in DraftSteps => review.verdict \in {"none", "needs_retry"}
    /\ pc = "quality_checker" =>
          IF guardian.crisis THEN candidate = Template ELSE candidate.source = "model"

\* From the last review on, the candidate is the text it judged.
ReviewInv ==
    /\ pc \in LateNodes => review.text = candidate
    /\ guardian.crisis /\ review.verdict = "approved" => review.text = Template

\* A package carries the text of an approving review, or no text.
PackageInv ==
    /\ pc \notin {"commit", "answered"} => package = NoPackage
    /\ package.text # NoText =>
          review = [text |-> package.text, verdict |-> "approved"]
    /\ pc # "answered" => response = NoResponse
    /\ response.text # NoText => response.text = package.text

\* Nothing is written before an approving review that the Guardian lets store.
MemoryInv ==
    /\ staged.memory # "none" => review.verdict = "approved" /\ guardian.store
    /\ committed.memory # "none" => review.verdict = "approved" /\ guardian.store
    /\ pc \notin LateNodes \cup {"commit", "answered"}
          => staged.memory = "none" /\ committed.memory = "none"

\* close_book commits the page before the first node runs.
PageInv ==
    route = "close" =>
        /\ pc = "save_commit" => staged.page
        /\ pc \in Nodes \cup {"commit"} => staged.page /\ committed.page
        /\ package # NoPackage => committed.page

\* The content holds the memory that is reported, complete with its evidence.
Evident(content, op) == content.memory = op /\ content.provenance /\ content.version

\* The decision that is reported belongs to the memory that is staged, which
\* has its provenance and its version from the end of the memory stage on.
EvidenceInv ==
    /\ pc \notin LateNodes \cup {"commit", "answered"} => decision = "none"
    /\ pc = "memory_writer" => decision = "none"
    /\ pc = "memory_intelligence" => decision = staged.memory
    /\ pc = "conversation_composer" /\ decision # "none" => Evident(staged, decision)
    /\ pc = "commit" /\ package.memory # "none" => Evident(staged, package.memory)
    /\ response.memory # "none" => Evident(committed, response.memory)

\* Runtime calls are counted against the retries used: each of the retries used
\* before the running one had at most MiniRetries + 1 attempts.
CallsInv ==
    /\ pc = "mini_engine" => calls <= retries * (MiniRetries + 1) + attempt
    /\ pc # "mini_engine" => calls <= (retries + 1) * (MiniRetries + 1)
    /\ pc \in GenerationNodes \ {"mini_engine"} => calls = 0

IInv ==
    /\ TypeOK
    /\ DecisionInv
    /\ CandidateInv
    /\ ReviewInv
    /\ PackageInv
    /\ MemoryInv
    /\ PageInv
    /\ EvidenceInv
    /\ CallsInv

-----------------------------------------------------------------------------
(* Types *)

\* _Run.record_node keeps the metrics a sequence of metrics.
LEMMA RecordType ==
    ASSUME NEW recorded \in Seq(Metrics), NEW node \in Nodes,
           NEW status \in {"completed", "failed", "skipped"}
    PROVE  Record(recorded, node, status) \in Seq(Metrics)
<1>1. [node |-> node, status |-> status] \in Metrics
  BY DEF Metrics
<1>2. QED
  BY <1>1, SMT DEF Record

\* The four metrics of a crisis page are metrics.
LEMMA SkipGenerationType ==
    ASSUME NEW recorded \in Seq(Metrics)
    PROVE  SkipGeneration(recorded) \in Seq(Metrics)
<1>1. {"context_builder", "prompt_builder", "specialist_router", "mini_engine"} \subseteq Nodes
  BY DEF Nodes, GenerationNodes
<1>2. QED
  BY <1>1, RecordType DEF SkipGeneration

\* A failure package is a package, whichever metric is the last.
LEMMA FailurePackageType ==
    ASSUME NEW recorded \in Seq(Metrics)
    PROVE  /\ FailurePackage(recorded) \in Packages
           /\ FailurePackage(recorded).text = NoText
           /\ FailurePackage(recorded).memory = "none"
<1>1. recorded # <<>> => recorded[Len(recorded)] \in Metrics
  OBVIOUS
<1>2. QED
  BY <1>1 DEF FailurePackage, Packages, NoPackage, Metrics, MemoryOps

\* Where a run that raises ends: the failure package, and nothing else moves.
LEMMA FailsType ==
    ASSUME TypeOK, NEW node \in Nodes, Fails(node)
    PROVE  /\ metrics' \in Seq(Metrics)
           /\ package' \in Packages
           /\ package'.text = NoText
           /\ package'.memory = "none"
<1>1. Record(metrics, node, "failed") \in Seq(Metrics)
  BY RecordType DEF TypeOK
<1>2. QED
  BY <1>1, FailurePackageType DEF Fails, FailsWith

\* The Composer delivers an approved candidate, and only such a one.
LEMMA ComposedPackage ==
    ASSUME ConversationComposer
    PROVE  \/ /\ review.verdict = "approved"
              /\ package' = [status |-> "delivered", text |-> candidate,
                             memory |-> decision, failedNode |-> "none"]
           \/ /\ review.verdict # "approved"
              /\ package' = [status |-> "not_delivered", text |-> NoText,
                             memory |-> "none", failedNode |-> "none"]
BY DEF ConversationComposer, Composes, NoPackage

\* Every step keeps the types.
LEMMA TypeStep ==
    ASSUME TypeOK, [Next]_vars
    PROVE  TypeOK'
<1> USE PipelineAssumption
<1> USE DEF Texts, Verdicts, MemoryOps, Contents, Packages, Responses, NoText, NoPackage,
            NoResponse, Steps, Nodes, GenerationNodes, MemoryNodes, Routes, Answer
<1>1. CASE SavePage
  <2>1. staged' \in Contents
    BY <1>1 DEF SavePage, TypeOK
  <2>2. QED
    BY <1>1, <2>1 DEF SavePage, TypeOK, textVars
<1>2. CASE SavePageRaises
  BY <1>2 DEF SavePageRaises, RouteRaises, TypeOK, textVars
<1>3. CASE CommitPage
  BY <1>3 DEF CommitPage, TypeOK, textVars
<1>4. CASE CommitPageFails
  BY <1>4 DEF CommitPageFails, RouteRaises, TypeOK, textVars
<1>5. CASE CommitRun
  BY <1>5 DEF CommitRun, CommitsAndShows, TypeOK, textVars
<1>6. CASE CommitRunFails
  BY <1>6 DEF CommitRunFails, RouteRaises, TypeOK, textVars
<1>7. CASE InputReceiver
  BY <1>7, RecordType DEF InputReceiver, Completes, TypeOK, textVars, runVars, dbVars
<1>8. CASE MeaningIntent
  BY <1>8, RecordType DEF MeaningIntent, Completes, TypeOK, textVars, runVars, dbVars
<1>9. CASE Guardian
  BY <1>9, RecordType DEF Guardian, Completes, TypeOK, textVars, runVars, dbVars
<1>10. CASE MemoryRetriever
  BY <1>10, RecordType DEF MemoryRetriever, Completes, TypeOK, textVars, runVars, dbVars
<1>11. CASE ReflectionPlanner
  <2>1. Record(metrics, "reflection_planner", "completed") \in Seq(Metrics)
    BY RecordType DEF TypeOK
  <2>2. metrics' \in Seq(Metrics)
    BY <1>11, <2>1, SkipGenerationType DEF ReflectionPlanner
  <2>3. candidate' \in Texts \cup {NoText} /\ pc' \in Steps
    BY <1>11 DEF ReflectionPlanner, TypeOK, Template
  <2>4. QED
    BY <1>11, <2>2, <2>3 DEF ReflectionPlanner, TypeOK, runVars, dbVars
<1>12. CASE ContextBuilder
  BY <1>12, RecordType DEF ContextBuilder, Completes, TypeOK, textVars, runVars, dbVars
<1>13. CASE PromptBuilder
  BY <1>13, RecordType DEF PromptBuilder, Completes, TypeOK, textVars, runVars, dbVars
<1>14. CASE SpecialistRouter
  BY <1>14, RecordType DEF SpecialistRouter, Completes, TypeOK, textVars, runVars, dbVars
<1>15. CASE MiniEngine
  BY <1>15, RecordType DEF MiniEngine, Completes, TypeOK, Generated, runVars, dbVars
<1>16. CASE MiniEngineRetries
  BY <1>16 DEF MiniEngineRetries, FailedAttempt, TypeOK, runVars, dbVars
<1>17. CASE MiniEngineGivesUp
  <2>1. metrics' \in Seq(Metrics) /\ package' \in Packages
    BY <1>17, FailsType DEF MiniEngineGivesUp
  <2>2. QED
    BY <1>17, <2>1 DEF MiniEngineGivesUp, Fails, FailsWith, TypeOK, dbVars
<1>18. CASE NodeRaises
  <2>1. PICK node \in Nodes \ MemoryNodes : Fails(node) /\ UNCHANGED textVars
    BY <1>18 DEF NodeRaises
  <2>2. metrics' \in Seq(Metrics) /\ package' \in Packages
    BY <2>1, FailsType
  <2>3. QED
    BY <2>1, <2>2 DEF Fails, FailsWith, TypeOK, dbVars, textVars
<1>19. CASE QualityChecker
  <2>1. PICK verdict \in VerdictsOn(candidate) :
          /\ review' = [text |-> candidate, verdict |-> verdict]
          /\ IF verdict = "needs_retry" /\ retries < QualityRetryLimit
             THEN pc' = "mini_engine" /\ retries' = retries + 1
             ELSE pc' = "memory_writer" /\ retries' = retries
    BY <1>19 DEF QualityChecker, Reviews
  <2>2. verdict \in Verdicts
    BY DEF VerdictsOn
  <2>3. metrics' \in Seq(Metrics)
    BY <1>19, RecordType DEF QualityChecker, Reviews, TypeOK
  <2>4. QED
    BY <1>19, <2>1, <2>2, <2>3 DEF QualityChecker, Reviews, TypeOK, runVars, dbVars
<1>20. CASE ConversationComposer
  <2>1. metrics' \in Seq(Metrics)
    BY <1>20, RecordType DEF ConversationComposer, Composes, Completes, TypeOK
  <2>2. \/ package' = [status |-> "delivered", text |-> candidate, memory |-> decision,
                       failedNode |-> "none"]
        \/ package' = [status |-> "not_delivered", text |-> NoText, memory |-> "none",
                       failedNode |-> "none"]
    BY <1>20, ComposedPackage
  <2>3. package' \in Packages
    BY <2>2 DEF TypeOK
  <2>4. QED
    BY <1>20, <2>1, <2>3
       DEF ConversationComposer, Composes, Completes, TypeOK, textVars, dbVars
<1>21. CASE SkipMemory
  BY <1>21, RecordType DEF SkipMemory, TypeOK, textVars, runVars, dbVars
<1>22. CASE WriteNothing
  BY <1>22, RecordType DEF WriteNothing, TypeOK, textVars, runVars, dbVars
<1>23. CASE WriteMemory
  <2>1. metrics' \in Seq(Metrics)
    BY <1>23, RecordType DEF WriteMemory, Writes, Completes, TypeOK
  <2>2. PICK op \in MemoryOps \ {"none"} :
           staged' = [staged EXCEPT !.memory = op] /\ decision' = op
    BY <1>23, Zenon DEF WriteMemory, Writes
  <2>3. staged' \in Contents /\ decision' \in MemoryOps
    BY <2>2 DEF TypeOK
  <2>4. QED
    BY <1>23, <2>1, <2>3 DEF WriteMemory, Writes, Completes, TypeOK, textVars
<1>24. CASE AssessMemory
  <2>1. metrics' \in Seq(Metrics)
    BY <1>24, RecordType DEF AssessMemory, Completes, TypeOK
  <2>2. staged' \in Contents
    BY <1>24 DEF AssessMemory, TypeOK
  <2>3. QED
    BY <1>24, <2>1, <2>2 DEF AssessMemory, Completes, TypeOK, textVars
<1>25. CASE MemoryNodeRaises
  BY <1>25, RecordType
     DEF MemoryNodeRaises, MemoryStageFails, MemoryStageEnds, TypeOK, textVars, dbVars
<1>26. CASE MemoryFlushFails
  BY <1>26, RecordType
     DEF MemoryFlushFails, MemoryStageFails, MemoryStageEnds, FlushFails, TypeOK, textVars
<1>27. CASE UNCHANGED vars
  BY <1>27 DEF TypeOK, vars, textVars, dbVars
<1>28. QED
  BY <1>1, <1>2, <1>3, <1>4, <1>5, <1>6, <1>7, <1>8, <1>9, <1>10, <1>11, <1>12, <1>13,
     <1>14, <1>15, <1>16, <1>17, <1>18, <1>19, <1>20, <1>21, <1>22, <1>23, <1>24, <1>25,
     <1>26, <1>27
     DEF Next, RouteStep, NodeStep, MemoryStep

\* Every variable always holds a value of its kind, in every run of the pipeline.
THEOREM TypeCorrect == Spec => []TypeOK
<1>1. Init => TypeOK
  BY PipelineAssumption
     DEF Init, TypeOK, Routes, Steps, Nodes, Undecided, NotReviewed, Unwritten, NoPackage,
         NoResponse, NoText, Texts, Verdicts, MemoryOps, Contents, Packages, Responses
<1>2. TypeOK /\ [Next]_vars => TypeOK'
  BY TypeStep
<1>3. QED
  BY <1>1, <1>2, PTL DEF Spec

\* The invariant is inductive: no step of the route, of a node or of the memory
\* stage leaves it.
LEMMA InvStep ==
    ASSUME IInv, [Next]_vars
    PROVE  IInv'
<1> USE PipelineAssumption
<1> USE DEF vars, textVars, dbVars, runVars, Nodes, GenerationNodes, MemoryNodes,
            EarlySteps, DraftSteps, LateNodes, IInv, DecisionInv, CandidateInv, ReviewInv,
            PackageInv, MemoryInv, PageInv, EvidenceInv, CallsInv, Evident
<1> TypeOK'
  BY TypeStep
<1>1. CASE SavePage
  BY <1>1 DEF SavePage, TypeOK, Unwritten, NoResponse, NoPackage
<1>2. CASE SavePageRaises
  BY <1>2
     DEF SavePageRaises, RouteRaises, Answer, TypeOK, Unwritten, NoResponse, NoPackage
<1>3. CASE CommitPage
  BY <1>3 DEF CommitPage, TypeOK, Unwritten, NoResponse, NoPackage
<1>4. CASE CommitPageFails
  BY <1>4
     DEF CommitPageFails, RouteRaises, Answer, TypeOK, Unwritten, NoResponse, NoPackage
<1>5. CASE CommitRun
  BY <1>5 DEF CommitRun, CommitsAndShows, TypeOK, Unwritten, NoResponse, NoPackage
<1>6. CASE CommitRunFails
  BY <1>6
     DEF CommitRunFails, RouteRaises, Answer, TypeOK, Unwritten, NoResponse, NoPackage
<1>7. CASE InputReceiver
  BY <1>7 DEF InputReceiver, Completes, TypeOK, Unwritten, NoResponse, NoPackage
<1>8. CASE MeaningIntent
  BY <1>8 DEF MeaningIntent, Completes, TypeOK, Unwritten, NoResponse, NoPackage
<1>9. CASE Guardian
  BY <1>9 DEF Guardian, Completes, TypeOK, NotReviewed, Unwritten, NoResponse, NoPackage
<1>10. CASE MemoryRetriever
  BY <1>10 DEF MemoryRetriever, Completes, TypeOK, Unwritten, NoResponse, NoPackage
<1>11. CASE ReflectionPlanner
  BY <1>11
     DEF ReflectionPlanner, TypeOK, NotReviewed, Template, Unwritten, NoResponse,
         NoPackage
<1>12. CASE ContextBuilder
  BY <1>12 DEF ContextBuilder, Completes, TypeOK, Unwritten, NoResponse, NoPackage
<1>13. CASE PromptBuilder
  BY <1>13 DEF PromptBuilder, Completes, TypeOK, Unwritten, NoResponse, NoPackage
<1>14. CASE SpecialistRouter
  BY <1>14 DEF SpecialistRouter, Completes, TypeOK, Unwritten, NoResponse, NoPackage
<1>15. CASE MiniEngine
  BY <1>15
     DEF MiniEngine, Completes, Generated, NoText, TypeOK, Unwritten, NoResponse,
         NoPackage
<1>16. CASE MiniEngineRetries
  BY <1>16
     DEF MiniEngineRetries, FailedAttempt, TypeOK, Unwritten, NoResponse, NoPackage
<1>17. CASE MiniEngineGivesUp
  <2>1. package'.text = NoText /\ package'.memory = "none"
    BY <1>17, FailsType DEF MiniEngineGivesUp
  <2>2. QED
    BY <1>17, <2>1
       DEF MiniEngineGivesUp, Fails, FailsWith, TypeOK, Unwritten, NoResponse, NoPackage
<1>18. CASE NodeRaises
  <2>1. PICK node \in Nodes \ MemoryNodes : Fails(node) /\ UNCHANGED textVars
    BY <1>18 DEF NodeRaises
  <2>2. package'.text = NoText /\ package'.memory = "none"
    BY <2>1, FailsType
  <2>3. QED
    BY <2>1, <2>2 DEF Fails, FailsWith, TypeOK, Unwritten, NoResponse, NoPackage
<1>19. CASE QualityChecker
  <2>1. PICK verdict \in VerdictsOn(candidate) :
          /\ review' = [text |-> candidate, verdict |-> verdict]
          /\ IF verdict = "needs_retry" /\ retries < QualityRetryLimit
             THEN pc' = "mini_engine" /\ retries' = retries + 1
             ELSE pc' = "memory_writer" /\ retries' = retries
    BY <1>19 DEF QualityChecker, Reviews
  <2>2. pc = "quality_checker" /\ UNCHANGED <<runVars, guardian, candidate, calls, attempt>>
    BY <1>19 DEF QualityChecker, Reviews
  <2>3. CallsInv'
    <3>1. /\ calls \in Nat /\ attempt \in Nat
          /\ calls <= (retries + 1) * (MiniRetries + 1)
          /\ (retries + 1) * (MiniRetries + 1) \in Nat
      BY <2>2 DEF TypeOK
    <3>2. CASE retries' = retries + 1 /\ pc' = "mini_engine"
      BY <2>2, <3>1, <3>2
    <3>3. CASE retries' = retries /\ pc' = "memory_writer"
      BY <2>2, <3>1, <3>3
    <3>4. QED
      BY <2>1, <3>2, <3>3
  <2>4. CandidateInv'
    BY <2>1, <2>2 DEF VerdictsOn, TypeOK
  <2>5. ReviewInv'
    BY <2>1, <2>2 DEF TypeOK
  <2>6. pc' \in {"mini_engine", "memory_writer"}
    BY <2>1
  <2>7. DecisionInv'
    BY <2>1, <2>2 DEF VerdictsOn
  <2>8. PageInv'
    BY <1>19, <2>2, <2>6
  <2>9. EvidenceInv'
    BY <2>2, <2>6 DEF TypeOK, NoResponse, NoPackage
  <2>10. PackageInv' /\ MemoryInv'
    BY <2>2, <2>6, <2>1 DEF TypeOK, NoResponse, NoPackage
  <2>11. QED
    BY <2>3, <2>4, <2>5, <2>7, <2>8, <2>9, <2>10
<1>20. CASE ConversationComposer
  BY <1>20
     DEF ConversationComposer, Composes, Completes, TypeOK, Unwritten, NoResponse,
         NoPackage
<1>21. CASE SkipMemory
  BY <1>21 DEF SkipMemory, TypeOK, Unwritten, NoResponse, NoPackage
<1>22. CASE WriteNothing
  BY <1>22 DEF WriteNothing, TypeOK, Unwritten, NoResponse, NoPackage
<1>23. CASE WriteMemory
  BY <1>23 DEF WriteMemory, Writes, Completes, TypeOK, Unwritten, NoResponse, NoPackage
<1>24. CASE AssessMemory
  BY <1>24 DEF AssessMemory, Completes, TypeOK, Unwritten, NoResponse, NoPackage
<1>25. CASE MemoryNodeRaises
  BY <1>25
     DEF MemoryNodeRaises, MemoryStageFails, MemoryStageEnds, TypeOK, Unwritten,
         NoResponse, NoPackage
<1>26. CASE MemoryFlushFails
  BY <1>26
     DEF MemoryFlushFails, MemoryStageFails, MemoryStageEnds, FlushFails, TypeOK,
         Unwritten, NoResponse, NoPackage
<1>27. CASE UNCHANGED vars
  BY <1>27 DEF TypeOK, Unwritten, NoResponse, NoPackage
<1> QED
  BY <1>1, <1>2, <1>3, <1>4, <1>5, <1>6, <1>7, <1>8, <1>9, <1>10, <1>11, <1>12,
     <1>13, <1>14, <1>15, <1>16, <1>17, <1>18, <1>19, <1>20, <1>21, <1>22, <1>23,
     <1>24, <1>25, <1>26, <1>27
     DEF Next, RouteStep, NodeStep, MemoryStep

\* The invariant holds in every state of every run.
LEMMA InvCorrect == Spec => []IInv
<1>1. Init => IInv
  <2>1. Init => TypeOK
    BY PipelineAssumption
       DEF Init, TypeOK, Routes, Steps, Nodes, Undecided, NotReviewed, Unwritten, NoPackage,
           NoResponse, NoText, Texts, Verdicts, MemoryOps, Contents, Packages, Responses
  <2>2. Init => DecisionInv /\ CandidateInv /\ ReviewInv /\ PackageInv /\ CallsInv
    BY PipelineAssumption
       DEF Init, DecisionInv, CandidateInv, ReviewInv, PackageInv, CallsInv, EarlySteps,
           DraftSteps, LateNodes, GenerationNodes, MemoryNodes, Undecided, NotReviewed,
           NoPackage, NoResponse
  <2>3. Init => MemoryInv /\ PageInv /\ EvidenceInv
    BY DEF Init, MemoryInv, PageInv, EvidenceInv, LateNodes, Nodes, GenerationNodes,
           MemoryNodes, Unwritten, NoPackage, NoResponse
  <2>4. QED
    BY <2>1, <2>2, <2>3 DEF IInv
<1>2. IInv /\ [Next]_vars => IInv'
  BY InvStep
<1>3. QED
  BY <1>1, <1>2, PTL DEF Spec

-----------------------------------------------------------------------------
(* What the invariant gives *)

\* Rules 17 and 20: the client receives only a text that the last review approved.
THEOREM ApprovedOnly == Spec => []OnlyApprovedIsShown
<1>1. IInv => OnlyApprovedIsShown
  BY DEF IInv, PackageInv, OnlyApprovedIsShown
<1>2. QED
  BY InvCorrect, <1>1, PTL

\* On a crisis page the runtime is never called, only the template is shown and
\* nothing is remembered, whatever fails on the way.
THEOREM CrisisDeterminism == Spec => []CrisisStaysDeterministic
<1>1. IInv => CrisisStaysDeterministic
  <2> SUFFICES ASSUME IInv, guardian.crisis
               PROVE  /\ calls = 0
                      /\ response.text \in {NoText, Template}
                      /\ staged.memory = "none" /\ committed.memory = "none"
    BY DEF CrisisStaysDeterministic
  <2>1. ~guardian.store
    <3>1. CASE guardian \in [decided : {TRUE}, crisis : {FALSE}, store : BOOLEAN]
      <4>1. guardian.crisis = FALSE
        BY <3>1
      <4>2. QED
        BY <4>1
    <3>2. CASE guardian \in [decided : {TRUE}, crisis : {TRUE}, store : {FALSE}]
      <4>1. guardian.store = FALSE
        BY <3>2
      <4>2. QED
        BY <4>1
    <3>3. CASE guardian = Undecided
      <4>1. guardian.store = FALSE
        BY <3>3 DEF Undecided
      <4>2. QED
        BY <4>1
    <3>4. QED
      BY <3>1, <3>2, <3>3 DEF IInv, TypeOK, GuardianResults
  <2>2. staged.memory = "none" /\ committed.memory = "none"
    BY <2>1 DEF IInv, MemoryInv
  <2>3. response.text # NoText => response.text = Template
    BY DEF IInv, PackageInv, ReviewInv
  <2>4. QED
    BY <2>2, <2>3 DEF IInv, CandidateInv
<1>2. QED
  BY InvCorrect, <1>1, PTL

\* The two nested retry loops never call the runtime more often than the
\* product of their limits.
THEOREM CallsBounded == Spec => []RuntimeCallsBounded
<1>1. IInv => RuntimeCallsBounded
  <2> SUFFICES ASSUME IInv
               PROVE  calls <= (QualityRetryLimit + 1) * (MiniRetries + 1)
    BY DEF RuntimeCallsBounded
  <2>1. /\ retries \in Nat /\ retries <= QualityRetryLimit /\ QualityRetryLimit \in Nat
        /\ MiniRetries \in Nat /\ attempt \in Nat /\ attempt <= MiniRetries /\ calls \in Nat
    BY PipelineAssumption DEF IInv, TypeOK
  <2>2. calls <= (retries + 1) * (MiniRetries + 1)
    BY <2>1 DEF IInv, CallsInv
  <2>3. (retries + 1) * (MiniRetries + 1) <= (QualityRetryLimit + 1) * (MiniRetries + 1)
    BY <2>1
  <2>4. QED
    BY <2>1, <2>2, <2>3
<1>2. QED
  BY InvCorrect, <1>1, PTL

\* Rules 18 and 19: only an approved exchange that the Guardian lets store
\* leaves a memory behind.
THEOREM EarnedMemory == Spec => []MemoryIsEarned
<1>1. IInv => MemoryIsEarned
  BY DEF IInv, MemoryInv, MemoryIsEarned
<1>2. QED
  BY InvCorrect, <1>1, PTL

\* A memory the answer reports is in the database, with its evidence.
THEOREM KeptMemory == Spec => []ReportedMemoryIsKept
<1>1. IInv => ReportedMemoryIsKept
  BY DEF IInv, EvidenceInv, Evident, ReportedMemoryIsKept
<1>2. QED
  BY InvCorrect, <1>1, PTL

\* close_book: the page is in the database before the Orchestra runs, for good.
THEOREM SavedPage == Spec => []SavedPageIsKept
<1>1. IInv => SavedPageIsKept
  BY DEF IInv, PageInv, SavedPageIsKept
<1>2. QED
  BY InvCorrect, <1>1, PTL

-----------------------------------------------------------------------------
(* The trace names the node that raised *)

\* Without node metrics nothing is recorded.
UntracedInv == ~SaveNodeMetrics => metrics = <<>>

\* No step records a metric when node metrics are off.
LEMMA UntracedStep ==
    ASSUME UntracedInv, [Next]_vars
    PROVE  UntracedInv'
<1> SUFFICES ASSUME ~SaveNodeMetrics
             PROVE  metrics' = metrics
  BY DEF UntracedInv
<1>1. \A recorded, node, status : Record(recorded, node, status) = recorded
  BY DEF Record
<1>2. SkipGeneration(metrics) = metrics
  BY <1>1 DEF SkipGeneration
<1>3. CASE RouteStep
  BY <1>3 DEF RouteStep, SavePage, SavePageRaises, CommitPage, CommitPageFails, CommitRun,
              CommitsAndShows, CommitRunFails, RouteRaises
<1>4. CASE NodeStep
  BY <1>1, <1>2, <1>4
     DEF NodeStep, InputReceiver, MeaningIntent, Guardian, MemoryRetriever, ReflectionPlanner,
         ContextBuilder, PromptBuilder, SpecialistRouter, MiniEngine, MiniEngineRetries,
         FailedAttempt, MiniEngineGivesUp, NodeRaises, Fails, FailsWith, QualityChecker, Reviews,
         ConversationComposer, Composes, Completes
<1>5. CASE MemoryStep
  BY <1>1, <1>5
     DEF MemoryStep, SkipMemory, WriteNothing, WriteMemory, Writes, AssessMemory,
         MemoryNodeRaises, MemoryFlushFails, MemoryStageFails, MemoryStageEnds, Completes
<1>6. CASE UNCHANGED vars
  BY <1>6 DEF vars
<1>7. QED
  BY <1>3, <1>4, <1>5, <1>6 DEF Next

\* The failure package of a run that raised names the raising node, also when
\* a memory node had failed earlier in the same run.
THEOREM FailureAttribution == Spec => FailureNamesNode
<1> DEFINE NamesNode ==
      package = NoPackage /\ package'.failedNode # "none"
        => package'.failedNode = (IF SaveNodeMetrics THEN pc ELSE "pipeline")
<1>1. Spec => []UntracedInv
  <2>1. Init => UntracedInv
    BY DEF Init, UntracedInv
  <2>2. UntracedInv /\ [Next]_vars => UntracedInv'
    BY UntracedStep
  <2>3. QED
    BY <2>1, <2>2, PTL DEF Spec
<1>2. TypeOK /\ UntracedInv /\ [Next]_vars => [NamesNode]_vars
  <2> SUFFICES ASSUME TypeOK, UntracedInv, Next
               PROVE  NamesNode
    OBVIOUS
  <2>1. ASSUME NEW node \in Nodes, Fails(node)
        PROVE  NamesNode
    <3>1. pc = node /\ package' = FailurePackage(Record(metrics, node, "failed"))
      BY <2>1 DEF Fails, FailsWith
    <3>2. CASE SaveNodeMetrics
      <4> DEFINE metric == [node |-> node, status |-> "failed"]
      <4>1. Record(metrics, node, "failed") = Append(metrics, metric)
        BY <3>2 DEF Record
      <4>2. metrics \in Seq(Metrics) /\ metric \in Metrics
        BY DEF TypeOK, Metrics
      <4> HIDE DEF metric
      <4>3. /\ Append(metrics, metric) # <<>>
            /\ Append(metrics, metric)[Len(Append(metrics, metric))] = metric
        BY <4>2
      <4>4. metric.node = node /\ metric.status = "failed"
        BY DEF metric
      <4>5. QED
        BY <3>1, <3>2, <4>1, <4>3, <4>4 DEF FailurePackage, NoPackage
    <3>3. CASE ~SaveNodeMetrics
      <4>1. Record(metrics, node, "failed") = <<>>
        BY <3>3 DEF Record, UntracedInv
      <4>2. QED
        BY <3>1, <3>3, <4>1 DEF FailurePackage, NoPackage
    <3>4. QED
      BY <3>2, <3>3
  <2>2. CASE ConversationComposer
    BY <2>2, ComposedPackage
  <2>3. CASE MiniEngineGivesUp
    BY <2>1, <2>3 DEF MiniEngineGivesUp, Nodes, GenerationNodes
  <2>4. CASE NodeRaises
    BY <2>1, <2>4 DEF NodeRaises
  <2>5. CASE UNCHANGED package
    BY <2>5 DEF NoPackage
  <2>6. RouteStep => UNCHANGED package
    BY DEF RouteStep, SavePage, SavePageRaises, CommitPage, CommitPageFails, CommitRun,
           CommitsAndShows, CommitRunFails, RouteRaises
  <2>7. MemoryStep => UNCHANGED package
    BY DEF MemoryStep, SkipMemory, WriteNothing, WriteMemory, Writes, AssessMemory,
           MemoryNodeRaises, MemoryFlushFails, MemoryStageFails, MemoryStageEnds, runVars
  <2>8. NodeStep => \/ ConversationComposer \/ MiniEngineGivesUp \/ NodeRaises
                    \/ UNCHANGED package
    BY DEF NodeStep, InputReceiver, MeaningIntent, Guardian, MemoryRetriever,
           ReflectionPlanner, ContextBuilder, PromptBuilder, SpecialistRouter, MiniEngine,
           MiniEngineRetries, FailedAttempt, QualityChecker, Reviews, runVars
  <2>9. QED
    BY <2>2, <2>3, <2>4, <2>5, <2>6, <2>7, <2>8 DEF Next
<1>3. QED
  BY TypeCorrect, <1>1, <1>2, PTL DEF Spec, FailureNamesNode

-----------------------------------------------------------------------------
(* The pipeline implements the delivery gate *)

\* Before the answer nothing is shown, so answering without a text shows nothing.
LEMMA ErrorWithholds ==
    ASSUME IInv, pc # "answered", NEW code, RouteRaises(code)
    PROVE  Gate!Withhold
BY DEF RouteRaises, Answer, NoResponse, Gate!Withhold, IInv, PackageInv, textVars

\* Each step of the pipeline is a step of the gate, or invisible to the client.
LEMMA GateStep ==
    ASSUME IInv, [Next]_vars
    PROVE  [Gate!GateNext]_Gate!gateVars
<1> USE DEF Gate!gateVars, Gate!GateNext, textVars, dbVars, runVars
<1>1. CASE CommitRun
  <2>1. pc # "answered" /\ (pc' = "answered") /\ UNCHANGED <<guardian, review>>
        /\ response'.text = package.text /\ response.text = NoText
    BY <1>1 DEF CommitRun, CommitsAndShows, IInv, PackageInv, NoResponse
  <2>2. CASE package.text = NoText
    BY <2>1, <2>2 DEF Gate!Withhold
  <2>3. CASE package.text # NoText
    <3>1. review.text = package.text /\ review.verdict = "approved"
      BY <2>3 DEF IInv, PackageInv
    <3>2. Gate!Deliver
      BY <2>1, <3>1 DEF Gate!Deliver
    <3>3. QED
      BY <3>2
  <2>4. QED
    BY <2>2, <2>3
<1>2. CASE SavePageRaises \/ CommitPageFails \/ CommitRunFails
  <2>1. pc # "answered"
    BY <1>2 DEF SavePageRaises, CommitPageFails, CommitRunFails
  <2>2. QED
    BY <1>2, <2>1, ErrorWithholds DEF SavePageRaises, CommitPageFails, CommitRunFails
<1>3. CASE Guardian
  <2>1. /\ pc = "guardian" /\ pc' = "memory_retriever"
        /\ guardian' \in GuardianResults
        /\ UNCHANGED <<review, response>>
    BY <1>3 DEF Guardian, Completes
  <2>2. guardian.decided = FALSE
    BY <2>1 DEF IInv, DecisionInv, EarlySteps, Undecided
  <2>3. guardian'.decided = TRUE
    BY <2>1 DEF GuardianResults
  <2>4. CASE guardian'.crisis
    <3>1. Gate!Decide("crisis")
      BY <2>1, <2>2, <2>3, <2>4 DEF Gate!Decide
    <3>2. QED
      BY <3>1 DEF Gate!Modes
  <2>5. CASE ~guardian'.crisis
    <3>1. Gate!Decide("open")
      BY <2>1, <2>2, <2>3, <2>5 DEF Gate!Decide
    <3>2. QED
      BY <3>1 DEF Gate!Modes
  <2>6. QED
    BY <2>4, <2>5
<1>4. CASE QualityChecker
  <2>1. PICK verdict \in VerdictsOn(candidate) :
           /\ review' = [text |-> candidate, verdict |-> verdict]
           /\ pc' \in {"mini_engine", "memory_writer"}
    BY <1>4 DEF QualityChecker, Reviews
  <2>2. pc = "quality_checker" /\ UNCHANGED <<guardian, response>>
    BY <1>4 DEF QualityChecker, Reviews
  <2>3. review.verdict \in {"none", "needs_retry"}
    BY <2>2 DEF IInv, CandidateInv, DraftSteps
  <2>4. guardian \in GuardianResults
    BY <2>2 DEF IInv, DecisionInv, DraftSteps
  <2>5. guardian.decided = TRUE
    BY <2>4 DEF GuardianResults
  <2>6. candidate \in IF guardian.crisis THEN {Template} ELSE Texts \ {Template}
    BY <2>2 DEF IInv, TypeOK, CandidateInv, DraftSteps, Template, NoText
  <2>7. verdict \in {"approved", "needs_retry", "rejected"}
    BY DEF VerdictsOn, Verdicts
  <2>8. Gate!Review
    BY <2>1, <2>2, <2>3, <2>5, <2>6, <2>7 DEF Gate!Review, Gate!Allowed, Gate!Verdicts
  <2>9. QED
    BY <2>8
<1>5. ASSUME UNCHANGED <<guardian, review, response>>, pc # "answered", pc' # "answered"
      PROVE  UNCHANGED Gate!gateVars
  BY <1>5
<1>6. CASE SavePage \/ CommitPage
  BY <1>5, <1>6 DEF SavePage, CommitPage
<1>7. CASE NodeStep /\ ~Guardian /\ ~QualityChecker
  BY <1>5, <1>7
     DEF NodeStep, InputReceiver, MeaningIntent, MemoryRetriever, ReflectionPlanner,
         ContextBuilder, PromptBuilder, SpecialistRouter, MiniEngine, MiniEngineRetries,
         FailedAttempt, MiniEngineGivesUp, NodeRaises, Fails, FailsWith,
         ConversationComposer, Composes, Completes, Nodes, MemoryNodes, GenerationNodes
<1>8. CASE MemoryStep
  BY <1>5, <1>8
     DEF MemoryStep, SkipMemory, WriteNothing, WriteMemory, Writes, AssessMemory,
         MemoryNodeRaises, MemoryFlushFails, MemoryStageFails, MemoryStageEnds, Completes,
         MemoryNodes
<1>9. CASE UNCHANGED vars
  BY <1>9 DEF vars
<1>10. QED
  BY <1>1, <1>2, <1>3, <1>4, <1>6, <1>7, <1>8, <1>9 DEF Next, RouteStep, NodeStep

\* For every retry limit, the pipeline behaves as the delivery gate promises:
\* one decision, reviews one after the other, and one answer that carries the
\* approved text or none.
THEOREM GateRefinement == Spec => ImplementsGate
<1>1. Init => Gate!GateInit
  BY DEF Init, Undecided, NotReviewed, NoResponse, NoText, Gate!GateInit, Gate!NotReviewed
<1>2. IInv /\ [Next]_vars => [Gate!GateNext]_Gate!gateVars
  BY GateStep
<1>3. QED
  BY InvCorrect, <1>1, <1>2, PTL DEF Spec, ImplementsGate, Gate!GateSpec

=============================================================================
