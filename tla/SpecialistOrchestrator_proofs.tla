-------------------- MODULE SpecialistOrchestrator_proofs --------------------
(***************************************************************************)
(* Proofs about SpecialistOrchestrator, for every set of specialists,      *)
(* every dependency table and every limit of its configuration.            *)
(***************************************************************************)
EXTENDS SpecialistOrchestrator, FiniteSetTheorems, SequenceTheorems, TLAPS

-----------------------------------------------------------------------------
(* The inductive invariant *)

\* The loop settles the tasks in order: those before pos have a result or are
\* skipped, the others neither; only the fallback may be both, after the loop.
LoopInv ==
    /\ \A i \in 1..Planned : i < pos => Task(i) \in Recorded \cup skipped
    /\ phase = "tasks" => \A i \in 1..Planned : i >= pos => Task(i) \notin Recorded \cup skipped
    /\ Truncated \subseteq skipped
    /\ phase \in {"fallback", "merge"} => pos = Planned + 1 /\ routing.primary # NoOne
    /\ phase = "done" => pos = Planned + 1 \/ routing.primary = NoOne
    /\ phase \in {"tasks", "fallback"} => Recorded \cap skipped = {}
    /\ \A s \in Recorded \cap skipped : s = routing.fallback

\* The voice is a usable result; a team that completed as a whole speaks through
\* its primary, and its contradictions are known.
MergeInv ==
    /\ phase \in {"tasks", "fallback"} => voice = NoOne
    /\ phase = "fallback" => ~Usable(routing.primary) /\ routing.fallback # NoOne
    /\ phase \in {"merge", "done"} /\ voice # NoOne =>
          Usable(voice) /\ voice \in {routing.primary, routing.fallback}
    /\ phase = "merge" /\ skipped = {} /\ (\A s \in Recorded : StatusIn(s, {"completed"})) =>
          /\ voice = routing.primary
          /\ \A a, b \in Recorded : Contradict(a, b) => {a, b} \in conflicts
    /\ phase # "done" => outcome = NoOutcome

IInv == TypeOK /\ LoopInv /\ MergeInv /\ DependenciesHonored /\ MergeIsVouched /\ StatusIsHonest

-----------------------------------------------------------------------------
(* Plans *)

\* A routing plan names each specialist once, and its primary among them.
LEMMA RoutingFacts ==
    ASSUME routing \in Routings
    PROVE  /\ routing.order \in Seq(Specialists)
           /\ Len(routing.order) \in Nat
           /\ DOMAIN routing.order = 1..Len(routing.order)
           /\ \A i, j \in 1..Len(routing.order) : Task(i) = Task(j) => i = j
           /\ \A i \in 1..Len(routing.order) : Task(i) \in Specialists
           /\ routing.primary # NoOne =>
                 \E i \in 1..Len(routing.order) : Task(i) = routing.primary
           /\ routing.primary = NoOne => Len(routing.order) = 0
           /\ routing.primary \in Specialists \cup {NoOne}
           /\ routing.fallback \in Specialists \cup {NoOne}
<1>1. CASE routing = Blocked
  BY <1>1 DEF Blocked, Task
<1>2. CASE routing # Blocked
  <2>1. /\ routing.order \in Orders
        /\ routing.primary \in Specialists
        /\ routing.fallback \in Specialists \cup {NoOne}
        /\ \E i \in DOMAIN routing.order : routing.order[i] = routing.primary
    BY <1>2, OrchestratorAssumption DEF Routings
  <2>2. PICK n \in 1..Cardinality(Specialists) : routing.order \in [1..n -> Specialists]
    BY <2>1 DEF Orders
  <2>3. n \in Nat
    BY <2>2, FS_CardinalityType, OrchestratorAssumption
  <2>4. routing.order \in Seq(Specialists) /\ DOMAIN routing.order = 1..n
    BY <2>2, <2>3, SeqDef
  <2>5. Len(routing.order) = n
    BY <2>3, <2>4, LenProperties
  <2>6. \A i, j \in 1..n : Task(i) = Task(j) => i = j
    BY <2>1, <2>4 DEF Orders, Task
  <2>7. \A i \in 1..n : Task(i) \in Specialists
    BY <2>2 DEF Task
  <2>8. QED
    BY <2>1, <2>3, <2>4, <2>5, <2>6, <2>7, OrchestratorAssumption DEF Task
<1>3. QED
  BY <1>1, <1>2

\* The tasks of the execution plan are a prefix of the routing order.
LEMMA PlannedFacts ==
    ASSUME routing \in Routings
    PROVE  Planned \in 0..Len(routing.order)
BY RoutingFacts, OrchestratorAssumption DEF Planned

\* Recording a new specialist keeps every result and adds one.
LEMMA PutFacts ==
    ASSUME Recorded \subseteq Specialists, workspace \in [Recorded -> Results],
           NEW s \in Specialists, NEW result \in Results, workspace' = Put(s, result)
    PROVE  /\ Recorded' = Recorded \cup {s}
           /\ Recorded' \subseteq Specialists
           /\ workspace' \in [Recorded' -> Results]
           /\ workspace'[s] = result
           /\ \A t \in Recorded \ {s} : workspace'[t] = workspace[t]
BY DEF Put, Recorded

-----------------------------------------------------------------------------
(* What a step can do *)

\* Some task ran to its end and recorded a result.
TaskEnds ==
    \E status \in Statuses, finding \in Values \cup {NoFinding} :
        Ready /\ Records(status, finding)

\* The fallback ran to its end; it speaks only if it completed.
FallbackEnds ==
    \E status \in {"completed", "failed", "timeout"}, finding \in Values \cup {NoFinding},
       speaker \in {NoOne, routing.fallback} :
        /\ phase = "fallback"
        /\ routing.fallback \notin Recorded
        /\ status = "completed" <=> speaker = routing.fallback
        /\ Fills(status, finding, speaker)

TriesAgain == phase \in {"tasks", "fallback"} /\ attempts < Retries /\ Retry

Crashes ==
    /\ phase \in {"tasks", "fallback"}
    /\ \E reason \in {"workspace_conflict", "malformed_output"} : Crash(reason)

\* Every action is one of seven kinds of step.
LEMMA StepKinds ==
    ASSUME Next, MergeInv
    PROVE  Block \/ SkipTask \/ TaskEnds \/ FallbackEnds \/ TriesAgain \/ Crashes
              \/ FinishTasks \/ Merge
<1>1. CASE NoExecutor
  BY <1>1 DEF NoExecutor, TaskEnds, Statuses
<1>2. CASE AttemptRaises
  <2>1. CASE attempts < Retries
    BY <1>2, <2>1 DEF AttemptRaises, Executing, Ready, InLoop, TriesAgain
  <2>2. CASE ~(attempts < Retries)
    BY <1>2, <2>2 DEF AttemptRaises, Executing, TaskEnds, Statuses
  <2>3. QED
    BY <2>1, <2>2
<1>3. CASE AttemptTimesOut
  BY <1>3 DEF AttemptTimesOut, Executing, TaskEnds, Statuses
<1>4. CASE AttemptCompletes
  BY <1>4 DEF AttemptCompletes, Executing, TaskEnds, Statuses
<1>5. CASE AttemptMalformed
  BY <1>5 DEF AttemptMalformed, Executing, Ready, InLoop, Crashes
<1>6. CASE FallbackRaises \/ FallbackTimesOut \/ FallbackCompletes \/ FallbackMalformed
  <2>1. phase = "fallback"
    BY <1>6 DEF FallbackRaises, FallbackTimesOut, FallbackCompletes, FallbackMalformed
  <2>2. CASE FallbackMalformed
    BY <2>1, <2>2 DEF FallbackMalformed, Crashes
  <2>3. CASE Retry /\ attempts < Retries
    BY <2>1, <2>3 DEF TriesAgain
  <2>4. CASE RecordFallback("failed", NoFinding, NoOne)
             \/ RecordFallback("timeout", NoFinding, NoOne)
             \/ \E finding \in Values \cup {NoFinding} :
                    RecordFallback("completed", finding, routing.fallback)
    <3>1. CASE routing.fallback \in Recorded
      BY <2>1, <2>4, <3>1 DEF RecordFallback, Crashes
    <3>2. CASE routing.fallback \notin Recorded
      BY <2>1, <2>4, <3>2 DEF RecordFallback, FallbackEnds, MergeInv
    <3>3. QED
      BY <3>1, <3>2
  <2>5. QED
    BY <1>6, <2>2, <2>3, <2>4 DEF FallbackRaises, FallbackTimesOut, FallbackCompletes
<1>7. QED
  BY <1>1, <1>2, <1>3, <1>4, <1>5, <1>6 DEF Next

\* A step leaves the plan alone.
LEMMA PlanStays ==
    ASSUME Next
    PROVE  /\ UNCHANGED <<routing, executors>> /\ Planned' = Planned /\ Truncated' = Truncated
           /\ \A i : Task(i)' = Task(i)
<1>1. UNCHANGED <<routing, executors>>
  BY DEF Next, Block, SkipTask, PassesOver, NoExecutor, AttemptRaises, AttemptTimesOut,
         AttemptCompletes, AttemptMalformed, FinishTasks, FallbackRaises, FallbackTimesOut,
         FallbackCompletes, FallbackMalformed, Merge, Records, RecordTask, Retry, Crash,
         RecordFallback, Fills, givenVars
<1>2. QED
  BY <1>1 DEF Planned, Truncated, Task

\* What recording the result of the running task does to the workspace.
LEMMA TaskEndFacts ==
    ASSUME IInv, TaskEnds
    PROVE  /\ pos \in 1..Planned /\ phase = "tasks" /\ pos' = pos + 1
           /\ Task(pos) \in Specialists /\ Task(pos) \notin Recorded \cup skipped
           /\ Unsatisfied(pos) = {} /\ ~stop
           /\ Recorded' = Recorded \cup {Task(pos)}
           /\ Recorded' \subseteq Specialists
           /\ workspace' \in [Recorded' -> Results]
           /\ \A t \in Recorded : workspace'[t] = workspace[t]
           /\ attempts' = 0 /\ stop' \in BOOLEAN
           /\ UNCHANGED <<routing, executors, phase, skipped, conflicts, voice, raised, outcome>>
<1>1. PICK status \in Statuses, finding \in Values \cup {NoFinding} :
         Ready /\ Records(status, finding)
  BY DEF TaskEnds
<1>2. pos \in 1..Planned /\ phase = "tasks" /\ Unsatisfied(pos) = {} /\ ~stop
  BY <1>1, PlannedFacts, RoutingFacts DEF Ready, InLoop, IInv, TypeOK
<1>3. Task(pos) \in Specialists
  BY <1>2, RoutingFacts, PlannedFacts DEF IInv, TypeOK
<1>4. Task(pos) \notin Recorded \cup skipped
  BY <1>2 DEF IInv, LoopInv
<1>5. Result(status, finding) \in Results
  BY <1>1 DEF Result, Results
<1>6. workspace' = Put(Task(pos), Result(status, finding))
  BY <1>1 DEF Records, RecordTask
<1>7. /\ Recorded' = Recorded \cup {Task(pos)}
      /\ Recorded' \subseteq Specialists
      /\ workspace' \in [Recorded' -> Results]
      /\ \A t \in Recorded \ {Task(pos)} : workspace'[t] = workspace[t]
  BY <1>3, <1>5, <1>6, PutFacts DEF IInv, TypeOK
<1>8. QED
  BY <1>1, <1>2, <1>3, <1>4, <1>7 DEF Records, RecordTask, givenVars

\* What recording the fallback's result does to the workspace.
LEMMA FallbackEndFacts ==
    ASSUME IInv, FallbackEnds
    PROVE  /\ phase = "fallback" /\ phase' = "merge"
           /\ routing.fallback \in Specialists /\ routing.fallback \notin Recorded
           /\ Recorded' = Recorded \cup {routing.fallback}
           /\ Recorded' \subseteq Specialists
           /\ workspace' \in [Recorded' -> Results]
           /\ \A t \in Recorded : workspace'[t] = workspace[t]
           /\ voice' \in {NoOne, routing.fallback}
           /\ voice' # NoOne => workspace'[routing.fallback].status = "completed"
           /\ UNCHANGED <<routing, executors, pos, stop, skipped, attempts, conflicts, raised,
                          outcome>>
<1>1. PICK status \in {"completed", "failed", "timeout"}, finding \in Values \cup {NoFinding},
           speaker \in {NoOne, routing.fallback} :
        /\ phase = "fallback"
        /\ routing.fallback \notin Recorded
        /\ status = "completed" <=> speaker = routing.fallback
        /\ Fills(status, finding, speaker)
  BY DEF FallbackEnds
<1>2. routing.fallback \in Specialists
  BY <1>1, RoutingFacts DEF IInv, TypeOK, MergeInv
<1>3. Result(status, finding) \in Results
  BY <1>1 DEF Result, Results, Statuses
<1>4. workspace' = Put(routing.fallback, Result(status, finding))
  BY <1>1 DEF Fills
<1>5. /\ Recorded' = Recorded \cup {routing.fallback}
      /\ Recorded' \subseteq Specialists
      /\ workspace' \in [Recorded' -> Results]
      /\ workspace'[routing.fallback] = Result(status, finding)
      /\ \A t \in Recorded \ {routing.fallback} : workspace'[t] = workspace[t]
  BY <1>2, <1>3, <1>4, PutFacts DEF IInv, TypeOK
<1>6. voice' = speaker /\ (speaker # NoOne => workspace'[routing.fallback].status = "completed")
  BY <1>1, <1>2, <1>5, OrchestratorAssumption DEF Fills, Result
<1>7. QED
  BY <1>1, <1>2, <1>5, <1>6 DEF Fills, givenVars, loopVars

-----------------------------------------------------------------------------
(* Types *)

\* Every step keeps the types.
LEMMA TypeStep ==
    ASSUME IInv, [Next]_vars
    PROVE  TypeOK'
<1> USE OrchestratorAssumption
<1> USE DEF IInv, givenVars, loopVars
<1>0. Planned \in Nat /\ pos \in Nat
  BY PlannedFacts, RoutingFacts DEF TypeOK
<1>1. CASE UNCHANGED vars
  BY <1>1 DEF vars, TypeOK, Recorded, Planned
<1>2. CASE Block
  BY <1>2, <1>0 DEF Block, TypeOK, Recorded, Planned, Outcomes, NoOutcome
<1>3. CASE SkipTask
  <2>1. pos \in 1..Planned /\ Task(pos) \in Specialists
    BY <1>3, <1>0, RoutingFacts, PlannedFacts DEF SkipTask, PassesOver, InLoop, TypeOK
  <2>2. QED
    BY <1>3, <1>0, <2>1 DEF SkipTask, PassesOver, TypeOK, Recorded, Planned
<1>4. CASE TaskEnds
  BY <1>4, <1>0, TaskEndFacts DEF TypeOK, Planned
<1>5. CASE FallbackEnds
  BY <1>5, <1>0, FallbackEndFacts DEF TypeOK, Planned
<1>6. CASE TriesAgain
  BY <1>6, <1>0 DEF TriesAgain, Retry, TypeOK, Recorded, Planned
<1>7. CASE Crashes
  BY <1>7, <1>0 DEF Crashes, Crash, TypeOK, Recorded, Planned
<1>8. CASE FinishTasks
  <2>1. conflicts' \in SUBSET SUBSET Specialists
    BY <1>8 DEF FinishTasks, TypeOK
  <2>2. voice' \in Specialists \cup {NoOne} /\ phase' \in {"fallback", "merge"}
    BY <1>8, RoutingFacts DEF FinishTasks, TypeOK
  <2>3. QED
    BY <1>8, <1>0, <2>1, <2>2 DEF FinishTasks, TypeOK, Recorded, Planned
<1>9. CASE Merge
  <2>1. outcome' \in Outcomes
    <3>1. routing.primary \in Specialists \cup {NoOne}
      BY RoutingFacts DEF TypeOK
    <3>2. QED
      BY <1>9, <3>1 DEF Merge, TypeOK, Outcomes
  <2>2. QED
    BY <1>9, <1>0, <2>1 DEF Merge, TypeOK, Recorded, Planned
<1>10. QED
  BY <1>1, <1>2, <1>3, <1>4, <1>5, <1>6, <1>7, <1>8, <1>9, StepKinds

-----------------------------------------------------------------------------
(* The loop, the dependencies and the merge *)

\* Every step but the two that record leaves the workspace alone.
LEMMA OtherSteps ==
    ASSUME Block \/ SkipTask \/ TriesAgain \/ Crashes \/ FinishTasks \/ Merge
    PROVE  workspace' = workspace /\ Recorded' = Recorded
BY DEF Block, SkipTask, PassesOver, TriesAgain, Retry, Crashes, Crash, FinishTasks, Merge,
       Recorded

\* The loop settles one task after the other.
LEMMA LoopStep ==
    ASSUME IInv, Next
    PROVE  LoopInv'
<1> USE DEF IInv, givenVars, loopVars
<1>0. /\ Planned \in Nat /\ pos \in Nat
      /\ \A i, j \in 1..Planned : Task(i) = Task(j) => i = j
      /\ \A i \in 1..Planned : Task(i) \notin Truncated
  <2>1. Planned \in 0..Len(routing.order) /\ Len(routing.order) \in Nat
    BY PlannedFacts, RoutingFacts DEF TypeOK
  <2>2. \A i, j \in 1..Len(routing.order) : Task(i) = Task(j) => i = j
    BY RoutingFacts DEF TypeOK
  <2>3. QED
    BY <2>1, <2>2 DEF TypeOK, Truncated
<1>1. /\ routing' = routing /\ Planned' = Planned /\ Truncated' = Truncated
      /\ \A i : Task(i)' = Task(i)
  BY PlanStays
<1>2. CASE Block
  BY <1>0, <1>1, <1>2, OtherSteps DEF Block, LoopInv
<1>3. CASE SkipTask
  <2>1. pos \in 1..Planned /\ phase = "tasks" /\ phase' = "tasks" /\ pos' = pos + 1
        /\ skipped' = skipped \cup {Task(pos)} /\ Recorded' = Recorded
    BY <1>0, <1>3, OtherSteps DEF SkipTask, PassesOver, InLoop, TypeOK
  <2>2. Task(pos) \notin Recorded \cup skipped
    BY <2>1, <1>0 DEF LoopInv
  <2>3. \A i \in 1..Planned : i < pos + 1 => i < pos \/ i = pos
    BY <1>0
  <2>4. \A i \in 1..Planned : i >= pos + 1 => i >= pos /\ Task(i) # Task(pos)
    BY <1>0, <2>1
  <2>5. QED
    BY <1>1, <2>1, <2>2, <2>3, <2>4 DEF LoopInv
<1>4. CASE TaskEnds
  <2>1. pos \in 1..Planned /\ phase = "tasks" /\ phase' = "tasks" /\ pos' = pos + 1
        /\ skipped' = skipped /\ Recorded' = Recorded \cup {Task(pos)}
        /\ Task(pos) \notin skipped
    BY <1>4, TaskEndFacts
  <2>2. \A i \in 1..Planned : i < pos + 1 => i < pos \/ i = pos
    BY <1>0
  <2>3. \A i \in 1..Planned : i >= pos + 1 => i >= pos /\ Task(i) # Task(pos)
    BY <1>0, <2>1
  <2>4. QED
    BY <1>1, <2>1, <2>2, <2>3 DEF LoopInv
<1>5. CASE FallbackEnds
  BY <1>1, <1>5, FallbackEndFacts DEF LoopInv
<1>6. CASE TriesAgain
  BY <1>1, <1>6, OtherSteps DEF TriesAgain, Retry, LoopInv
<1>7. CASE Crashes
  BY <1>1, <1>7, OtherSteps DEF Crashes, Crash, LoopInv
<1>8. CASE FinishTasks
  <2>1. pos = Planned + 1
    BY <1>0, <1>8 DEF FinishTasks, TypeOK
  <2>2. QED
    BY <1>1, <1>8, <2>1, OtherSteps DEF FinishTasks, LoopInv
<1>9. CASE Merge
  BY <1>1, <1>9, OtherSteps DEF Merge, LoopInv
<1>10. QED
  BY <1>2, <1>3, <1>4, <1>5, <1>6, <1>7, <1>8, <1>9, StepKinds

\* A task records only after its dependencies, and their results stay.
LEMMA DependStep ==
    ASSUME IInv, Next
    PROVE  DependenciesHonored'
<1> USE DEF IInv
<1>1. /\ routing' = routing /\ Planned' = Planned
      /\ \A i : Task(i)' = Task(i) /\ DependsOn(i)' = DependsOn(i)
  BY PlanStays DEF DependsOn
<1>2. CASE TaskEnds
  <2> SUFFICES ASSUME NEW i \in 1..Planned, Task(i) \in Recorded', Task(i) \notin skipped',
                      NEW d \in DependsOn(i)
               PROVE  StatusIn(d, {"completed"})'
    BY <1>1 DEF DependenciesHonored
  <2>1. StatusIn(d, {"completed"})
    <3>1. CASE Task(i) \in Recorded
      BY <1>2, <3>1, TaskEndFacts DEF DependenciesHonored
    <3>2. CASE Task(i) = Task(pos)
      <4>1. i = pos
        <5>1. pos \in 1..Planned /\ Planned \in 0..Len(routing.order)
              /\ Len(routing.order) \in Nat
          BY <1>2, TaskEndFacts, PlannedFacts, RoutingFacts DEF TypeOK
        <5>2. pos \in 1..Len(routing.order) /\ i \in 1..Len(routing.order)
          BY <5>1
        <5>3. QED
          BY <3>2, <5>2, RoutingFacts DEF TypeOK
      <4>2. QED
        BY <1>2, <4>1, TaskEndFacts DEF Unsatisfied
    <3>3. QED
      BY <1>2, <3>1, <3>2, TaskEndFacts
  <2>2. d \in Recorded /\ d \in Recorded' /\ workspace'[d] = workspace[d]
    BY <1>2, <2>1, TaskEndFacts DEF StatusIn
  <2>3. QED
    BY <2>1, <2>2 DEF StatusIn
<1>3. CASE FallbackEnds
  <2> SUFFICES ASSUME NEW i \in 1..Planned, Task(i) \in Recorded', Task(i) \notin skipped',
                      NEW d \in DependsOn(i)
               PROVE  StatusIn(d, {"completed"})'
    BY <1>1 DEF DependenciesHonored
  <2>1. Task(i) \in Recorded
    <3>1. i < pos
      BY <1>3, FallbackEndFacts, PlannedFacts, RoutingFacts DEF LoopInv, TypeOK
    <3>2. QED
      BY <1>3, <3>1, FallbackEndFacts DEF LoopInv
  <2>2. StatusIn(d, {"completed"})
    BY <1>3, <2>1, FallbackEndFacts DEF DependenciesHonored
  <2>3. d \in Recorded /\ d \in Recorded' /\ workspace'[d] = workspace[d]
    BY <1>3, <2>2, FallbackEndFacts DEF StatusIn
  <2>4. QED
    BY <2>2, <2>3 DEF StatusIn
<1>4. CASE Block \/ SkipTask \/ TriesAgain \/ Crashes \/ FinishTasks \/ Merge
  <2>1. workspace' = workspace /\ Recorded' = Recorded
    BY <1>4, OtherSteps
  <2>2. skipped \subseteq skipped'
    BY <1>4 DEF Block, SkipTask, PassesOver, TriesAgain, Retry, Crashes, Crash, FinishTasks, Merge,
                loopVars
  <2>3. \A s : StatusIn(s, {"completed"})' <=> StatusIn(s, {"completed"})
    BY <2>1 DEF StatusIn
  <2>4. QED
    BY <1>1, <2>1, <2>2, <2>3 DEF DependenciesHonored
<1>5. QED
  BY <1>2, <1>3, <1>4, StepKinds

\* After the loop every selected specialist is settled.
LEMMA Settled ==
    ASSUME IInv, phase \in {"fallback", "merge"}
    PROVE  \A i \in 1..Len(routing.order) : Task(i) \in Recorded \cup skipped
<1>1. Planned \in 0..Len(routing.order) /\ Len(routing.order) \in Nat /\ pos = Planned + 1
  BY PlannedFacts, RoutingFacts DEF IInv, TypeOK, LoopInv
<1>2. ASSUME NEW i \in 1..Len(routing.order)
      PROVE  Task(i) \in Recorded \cup skipped
  <2>1. CASE i <= Planned
    BY <1>1, <2>1 DEF IInv, LoopInv
  <2>2. CASE i > Planned
    <3>1. Task(i) \in Truncated
      BY <1>1, <2>2 DEF Truncated
    <3>2. QED
      BY <3>1 DEF IInv, LoopInv
  <2>3. QED
    BY <1>1, <2>1, <2>2
<1>3. QED
  BY <1>2

\* The voice and the conflicts on the way to the merge.
LEMMA MergeInvStep ==
    ASSUME IInv, Next
    PROVE  MergeInv'
<1> USE DEF IInv
<1>1. routing' = routing
  BY PlanStays
<1>2. CASE TaskEnds
  BY <1>2, TaskEndFacts DEF MergeInv
<1>3. CASE FallbackEnds
  <2>1. Usable(routing.fallback)' <=> workspace'[routing.fallback].status \in {"completed", "degraded"}
    BY <1>1, <1>3, FallbackEndFacts DEF Usable, StatusIn
  <2>2. voice' # NoOne => Usable(voice)' /\ voice' \in {routing.primary, routing.fallback}
    BY <1>3, <2>1, FallbackEndFacts DEF Usable, StatusIn
  <2>3. skipped' # {} \/ \E s \in Recorded' : ~StatusIn(s, {"completed"})'
    <3>1. routing.primary \in Recorded \cup skipped
      <4>1. PICK i \in 1..Len(routing.order) : Task(i) = routing.primary
        BY <1>3, FallbackEndFacts, RoutingFacts DEF TypeOK, LoopInv
      <4>2. QED
        BY <1>3, <4>1, Settled, FallbackEndFacts
    <3>2. CASE routing.primary \in skipped
      BY <1>3, <3>2, FallbackEndFacts
    <3>3. CASE routing.primary \in Recorded
      <4>1. ~Usable(routing.primary)
        BY <1>3, FallbackEndFacts DEF MergeInv
      <4>2. workspace'[routing.primary] = workspace[routing.primary]
            /\ routing.primary \in Recorded'
        BY <1>3, <3>3, FallbackEndFacts
      <4>3. ~StatusIn(routing.primary, {"completed"})'
        BY <1>1, <3>3, <4>1, <4>2 DEF Usable, StatusIn
      <4>4. QED
        BY <1>1, <4>2, <4>3
    <3>4. QED
      BY <3>1, <3>2, <3>3
  <2>4. QED
    BY <1>1, <1>3, <2>2, <2>3, FallbackEndFacts DEF MergeInv
<1>4. CASE FinishTasks
  <2>1. workspace' = workspace /\ Recorded' = Recorded
    BY <1>4, OtherSteps
  <2>2. \A s, t : Usable(s)' <=> Usable(s)
    BY <2>1 DEF Usable, StatusIn
  <2>3. phase' = "fallback" => voice' = NoOne /\ ~Usable(routing.primary) /\ routing.fallback # NoOne
    BY <1>4 DEF FinishTasks, NeedsFallback
  <2>4. voice' # NoOne => Usable(voice') /\ voice' = routing.primary
    BY <1>4 DEF FinishTasks
  <2>5. ASSUME skipped = {}, \A s \in Recorded : StatusIn(s, {"completed"})
        PROVE  /\ voice' = routing.primary
               /\ \A a, b \in Recorded : Contradict(a, b) => {a, b} \in conflicts'
    <3>1. routing.primary \in Recorded
      <4>1. Planned \in 0..Len(routing.order) /\ Len(routing.order) \in Nat /\ pos > Planned
        BY <1>4, PlannedFacts, RoutingFacts DEF TypeOK, FinishTasks
      <4>2. PICK i \in 1..Len(routing.order) : Task(i) = routing.primary
        BY <1>4, RoutingFacts DEF TypeOK, FinishTasks
      <4>3. CASE i <= Planned
        BY <2>5, <4>1, <4>2, <4>3 DEF LoopInv, TypeOK
      <4>4. CASE i > Planned
        BY <2>5, <4>1, <4>2, <4>4 DEF LoopInv, Truncated
      <4>5. QED
        BY <4>1, <4>3, <4>4
    <3>2. Usable(routing.primary)
      BY <2>5, <3>1 DEF Usable, StatusIn
    <3>3. \A s \in Recorded : workspace[s].status = "completed"
      BY <2>5 DEF StatusIn
    <3>4. conflicts' = {p \in SUBSET Recorded : \E a, b \in p : p = {a, b} /\ Contradict(a, b)}
      BY <1>4, <3>3 DEF FinishTasks
    <3>5. QED
      BY <1>4, <3>2, <3>4 DEF FinishTasks
  <2>6. \A a, b : Contradict(a, b)' <=> Contradict(a, b)
    BY <2>1 DEF Contradict
  <2>7. \A s : StatusIn(s, {"completed"})' <=> StatusIn(s, {"completed"})
    BY <2>1 DEF StatusIn
  <2>8. phase' \in {"fallback", "merge"} /\ outcome' = NoOutcome /\ skipped' = skipped
    BY <1>4 DEF FinishTasks, MergeInv, loopVars
  <2>9. phase' = "merge" /\ skipped' = {} /\ (\A s \in Recorded : StatusIn(s, {"completed"})')
          => /\ voice' = routing.primary
             /\ \A a, b \in Recorded : Contradict(a, b) => {a, b} \in conflicts'
    BY <2>5, <2>7, <2>8
  <2>10. QED
    BY <1>1, <2>1, <2>2, <2>3, <2>4, <2>6, <2>8, <2>9 DEF MergeInv
<1>5. CASE Merge
  BY <1>1, <1>5, OtherSteps DEF Merge, MergeInv, Usable, StatusIn
<1>6. CASE Block
  BY <1>1, <1>6, OtherSteps DEF Block, MergeInv, Usable, StatusIn
<1>7. CASE SkipTask \/ TriesAgain \/ Crashes
  <2>1. workspace' = workspace /\ Recorded' = Recorded
        /\ UNCHANGED <<voice, outcome>> /\ phase' \in {phase, "crashed"}
        /\ phase \in {"tasks", "fallback"}
    BY <1>7, OtherSteps
       DEF SkipTask, PassesOver, InLoop, TriesAgain, Retry, Crashes, Crash
  <2>2. QED
    BY <1>1, <2>1 DEF MergeInv, Usable, StatusIn
<1>8. QED
  BY <1>2, <1>3, <1>4, <1>5, <1>6, <1>7, StepKinds

\* The outcome is made once, from what the merge finds.
LEMMA OutcomeStep ==
    ASSUME IInv, Next
    PROVE  MergeIsVouched' /\ StatusIsHonest'
<1> USE DEF IInv
<1>1. /\ routing' = routing /\ \A i : Task(i)' = Task(i)
  BY PlanStays
<1>2. CASE Merge
  <2>1. workspace' = workspace /\ Recorded' = Recorded
    BY <1>2, OtherSteps
  <2>2. /\ \A s : Usable(s)' <=> Usable(s)
        /\ \A s : StatusIn(s, {"completed"})' <=> StatusIn(s, {"completed"})
        /\ \A a, b : Contradict(a, b)' <=> Contradict(a, b)
    BY <2>1 DEF Usable, StatusIn, Contradict
  <2>3. /\ outcome'.status \in {"failed", "degraded", "completed"}
        /\ outcome'.status # "failed" =>
              /\ voice # NoOne
              /\ outcome'.primary = voice
              /\ outcome'.evidence = {s \in Recorded \ {voice} : Usable(s)}
        /\ outcome'.status = "completed" => ~Degraded
    BY <1>2 DEF Merge
  <2>4. MergeIsVouched'
    <3>1. voice # NoOne => Usable(voice) /\ voice \in {routing.primary, routing.fallback}
      BY <1>2 DEF Merge, MergeInv
    <3>2. {s \in Recorded \ {voice} : Usable(s)} = {s \in Specialists \ {voice} : Usable(s)}
      BY DEF TypeOK, Usable, StatusIn
    <3>3. QED
      BY <1>1, <2>2, <2>3, <3>1, <3>2 DEF MergeIsVouched
  <2>5. StatusIsHonest'
    <3> SUFFICES ASSUME outcome'.status = "completed"
                 PROVE  /\ outcome'.primary = routing.primary
                        /\ \A i \in DOMAIN routing.order : StatusIn(Task(i), {"completed"})
                        /\ \A a, b \in Recorded : ~Contradict(a, b)
      BY <1>1, <2>1, <2>2 DEF StatusIsHonest
    <3>1. skipped = {} /\ conflicts = {} /\ \A s \in Recorded : workspace[s].status = "completed"
      BY <2>3 DEF Degraded
    <3>2. \A s \in Recorded : StatusIn(s, {"completed"})
      BY <3>1 DEF StatusIn
    <3>3. voice = routing.primary /\ \A a, b \in Recorded : ~Contradict(a, b)
      BY <1>2, <3>1, <3>2 DEF Merge, MergeInv
    <3>4. \A i \in DOMAIN routing.order : Task(i) \in Recorded
      BY <1>2, <3>1, Settled, RoutingFacts DEF Merge, TypeOK
    <3>5. QED
      BY <2>3, <3>2, <3>3, <3>4
  <2>6. QED
    BY <2>4, <2>5
<1>3. CASE ~Merge
  <2>1. phase # "done"
    BY <1>3, StepKinds
       DEF Block, SkipTask, PassesOver, InLoop, TaskEnds, Ready, FallbackEnds, TriesAgain, Crashes,
           FinishTasks
  <2>2. outcome = NoOutcome
    BY <2>1 DEF MergeInv
  <2>3. outcome' = NoOutcome \/ outcome'.status = "blocked"
    <3>1. CASE Block
      BY <3>1 DEF Block, NoOutcome
    <3>2. CASE TaskEnds
      BY <2>2, <3>2, TaskEndFacts
    <3>3. CASE FallbackEnds
      BY <2>2, <3>3, FallbackEndFacts
    <3>4. CASE SkipTask \/ TriesAgain \/ Crashes \/ FinishTasks
      BY <2>2, <3>4
         DEF SkipTask, PassesOver, TriesAgain, Retry, Crashes, Crash, FinishTasks
    <3>5. QED
      BY <1>3, <3>1, <3>2, <3>3, <3>4, StepKinds
  <2>4. QED
    BY <2>3 DEF MergeIsVouched, StatusIsHonest, NoOutcome
<1>4. QED
  BY <1>2, <1>3

-----------------------------------------------------------------------------
(* Theorems *)

\* The empty sequence is the workspace without results.
LEMMA EmptyWorkspace == <<>> \in [{} -> Results]
<1>1. <<>> = [i \in {} |-> i]
  BY DEF Results
<1>2. QED
  BY <1>1

\* The invariant holds in every state of every run.
LEMMA InvCorrect == Spec => []IInv
<1>1. Init => IInv
  <2> SUFFICES ASSUME Init
               PROVE  IInv
    OBVIOUS
  <2> USE OrchestratorAssumption DEF Init
  <2>1. Recorded = {}
    BY DEF Recorded
  <2>2. /\ Planned \in 0..Len(routing.order) /\ Len(routing.order) \in Nat
        /\ \A i, j \in 1..Len(routing.order) : Task(i) = Task(j) => i = j
        /\ \A i \in 1..Len(routing.order) : Task(i) \in Specialists
    BY PlannedFacts, RoutingFacts
  <2>3. Truncated \subseteq Specialists /\ \A i \in 1..Planned : Task(i) \notin Truncated
    BY <2>2 DEF Truncated
  <2>4. TypeOK
    <3>1. workspace \in [Recorded -> Results]
      BY <2>1, EmptyWorkspace
    <3>2. pos \in 1..(Planned + 1) /\ attempts \in 0..Retries
      BY <2>2
    <3>3. outcome \in Outcomes
      BY DEF NoOutcome, Outcomes
    <3>4. QED
      BY <2>1, <2>3, <3>1, <3>2, <3>3 DEF TypeOK
  <2>5. LoopInv
    BY <2>1, <2>2, <2>3 DEF LoopInv
  <2>6. MergeInv
    BY DEF MergeInv
  <2>7. DependenciesHonored /\ MergeIsVouched /\ StatusIsHonest
    BY <2>1 DEF DependenciesHonored, MergeIsVouched, StatusIsHonest, NoOutcome
  <2>8. QED
    BY <2>4, <2>5, <2>6, <2>7 DEF IInv
<1>2. IInv /\ [Next]_vars => IInv'
  <2>1. CASE UNCHANGED vars
    BY <2>1
       DEF vars, givenVars, loopVars, IInv, TypeOK, LoopInv, MergeInv, DependenciesHonored,
           MergeIsVouched, StatusIsHonest, Planned, Truncated, Task, DependsOn, Recorded, Usable,
           StatusIn, Contradict
  <2>2. CASE Next
    BY <2>2, TypeStep, LoopStep, MergeInvStep, DependStep, OutcomeStep DEF IInv
  <2>3. QED
    BY <2>1, <2>2
<1>3. QED
  BY <1>1, <1>2, PTL DEF Spec

\* Every variable always holds a value of its kind.
THEOREM OrchestratorTypes == Spec => []TypeOK
<1>1. IInv => TypeOK
  BY DEF IInv
<1>2. QED
  BY InvCorrect, <1>1, PTL

\* For every dependency table: no specialist runs in the loop before the
\* specialists it depends on have completed.
THEOREM DependenciesFirst == Spec => []DependenciesHonored
<1>1. IInv => DependenciesHonored
  BY DEF IInv
<1>2. QED
  BY InvCorrect, <1>1, PTL

\* Only outputs that arrived in time are merged, whatever fails.
THEOREM VouchedMerge == Spec => []MergeIsVouched
<1>1. IInv => MergeIsVouched
  BY DEF IInv
<1>2. QED
  BY InvCorrect, <1>1, PTL

\* A completed result is the undisputed work of the whole team.
THEOREM HonestStatus == Spec => []StatusIsHonest
<1>1. IInv => StatusIsHonest
  BY DEF IInv
<1>2. QED
  BY InvCorrect, <1>1, PTL

\* For every plan and every limit: the team the Router selected is accounted for
\* to the last member, the members the limit cut off included, and only a fallback
\* that the loop had skipped is both heard and listed as skipped.
THEOREM AllAccountedFor == Spec => []EveryoneAccountedFor
<1>1. ASSUME IInv, phase \in {"merge", "done"}, NEW i \in DOMAIN routing.order
      PROVE  /\ Task(i) \in Recorded \cup skipped
             /\ Task(i) \in Recorded \cap skipped => Task(i) = routing.fallback
  <2>1. /\ i \in 1..Len(routing.order) /\ Len(routing.order) \in Nat
        /\ Planned \in 0..Len(routing.order)
    BY <1>1, RoutingFacts, PlannedFacts DEF IInv, TypeOK
  <2>2. pos = Planned + 1
    BY <1>1, <2>1, RoutingFacts DEF IInv, TypeOK, LoopInv
  <2>3. CASE i <= Planned
    BY <1>1, <2>1, <2>2, <2>3 DEF IInv, LoopInv
  <2>4. CASE i > Planned
    <3>1. Task(i) \in Truncated
      BY <2>1, <2>4 DEF Truncated
    <3>2. QED
      BY <1>1, <3>1 DEF IInv, LoopInv
  <2>5. QED
    BY <2>1, <2>3, <2>4
<1>2. IInv => EveryoneAccountedFor
  BY <1>1 DEF EveryoneAccountedFor
<1>3. QED
  BY InvCorrect, <1>2, PTL

\* The workspace is write-once, the fallback included.
THEOREM WriteOnceWorkspace == Spec => WriteOnce
<1> DEFINE Kept == \A s \in Recorded : s \in DOMAIN workspace' /\ workspace'[s] = workspace[s]
<1>1. IInv /\ [Next]_vars => [Kept]_vars
  <2> SUFFICES ASSUME IInv, Next
               PROVE  Kept
    OBVIOUS
  <2>1. CASE TaskEnds
    BY <2>1, TaskEndFacts DEF Recorded
  <2>2. CASE FallbackEnds
    BY <2>2, FallbackEndFacts DEF Recorded
  <2>3. CASE Block \/ SkipTask \/ TriesAgain \/ Crashes \/ FinishTasks \/ Merge
    BY <2>3, OtherSteps DEF Recorded
  <2>4. QED
    BY <2>1, <2>2, <2>3, StepKinds DEF IInv
<1>2. QED
  BY InvCorrect, <1>1, PTL DEF Spec, WriteOnce
==============================================================================
