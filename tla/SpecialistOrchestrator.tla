----------------------- MODULE SpecialistOrchestrator -----------------------
(***************************************************************************)
(* How the specialists of one routing plan work together: sequential       *)
(* tasks with bounded retries, dependencies, the write-once workspace,     *)
(* fail fast, the fallback specialist and the merge                        *)
(* (backend/app/orchestra/orchestrator/orchestrator.py and schemas.py).    *)
(*                                                                         *)
(* A specialist's output is abstracted to its value for one finding key    *)
(* and to the side of low_confidence_threshold its confidence falls on.    *)
(* The audit trail and the numeric confidence of the result are left out.  *)
(***************************************************************************)
EXTENDS Naturals, Sequences, FiniteSets

CONSTANTS Specialists,     \* the names of the registry
          Core,            \* mini_core, the Router's only fallback
          NoOne,           \* None in the place of a specialist
          Dependencies,    \* specialist_orchestrator.json: dependencies
          MaxSpecialists,  \* max_specialists_per_request
          Retries,         \* default_retries
          FailFast,        \* fail_fast_on_primary_failure
          AllowDegraded,   \* allow_degraded_results
          Values,          \* values a specialist may report for the finding
          NoFinding        \* an output without the finding

ASSUME OrchestratorAssumption ==
    /\ IsFiniteSet(Specialists)
    /\ Core \in Specialists
    /\ NoOne \notin Specialists
    /\ Dependencies \in [Specialists -> SUBSET Specialists]
    /\ Dependencies[Core] = {}
    /\ MaxSpecialists \in Nat
    /\ Retries \in Nat
    /\ FailFast \in BOOLEAN /\ AllowDegraded \in BOOLEAN
    /\ NoFinding \notin Values

VARIABLES
    routing,     \* the Router's plan: order, primary and fallback
    executors,   \* the specialists the caller has an executor for
    phase,       \* "tasks", "fallback", "merge", "done" or "crashed"
    pos,         \* the task of the loop, from 1
    attempts,    \* failed attempts of the running task
    stop,        \* stop_remaining
    workspace,   \* what each specialist recorded
    skipped,     \* the specialists the result lists as skipped
    conflicts,   \* the pairs of specialists that contradict each other
    voice,       \* primary, once primary_ok; NoOne before
    raised,      \* what escaped from orchestrate, if it crashed
    outcome      \* the OrchestrationResult

givenVars == <<routing, executors>>
loopVars  == <<pos, stop, skipped>>
vars == <<givenVars, loopVars, phase, attempts, workspace, conflicts, voice, raised, outcome>>

-----------------------------------------------------------------------------
(* Plans and results *)

Orders == {o \in UNION {[1..n -> Specialists] : n \in 1..Cardinality(Specialists)} :
              \A i, j \in DOMAIN o : o[i] = o[j] => i = j}

\* A crisis selects nobody.  The Router names Core as the fallback of every
\* other plan if Core participates, also of a plan whose primary is Core.  It
\* puts the primary first; orchestrate, and its tests, take it at any place.
Blocked  == [order |-> <<>>, primary |-> NoOne, fallback |-> NoOne]
Routings == {Blocked}
    \cup {r \in [order : Orders, primary : Specialists, fallback : {Core, NoOne}] :
             \E i \in DOMAIN r.order : r.order[i] = r.primary}

Statuses == {"completed", "failed", "timeout", "degraded"}
Results  == [status : Statuses, finding : Values \cup {NoFinding}]
Result(status, finding) == [status |-> status, finding |-> finding]

NoOutcome == [status |-> "none", primary |-> NoOne, evidence |-> {}]
Outcomes  == [status : {"none", "completed", "degraded", "failed", "blocked"},
              primary : Specialists \cup {NoOne}, evidence : SUBSET Specialists]

-----------------------------------------------------------------------------
(* build_execution_plan *)

Planned   == IF Len(routing.order) <= MaxSpecialists THEN Len(routing.order) ELSE MaxSpecialists
Task(i)   == routing.order[i]
Truncated == {Task(i) : i \in (Planned + 1)..Len(routing.order)}

\* A dependency binds only when that specialist runs earlier in this plan.
DependsOn(i) == {d \in Dependencies[Task(i)] : \E j \in 1..(i - 1) : Task(j) = d}

-----------------------------------------------------------------------------
(* The workspace *)

Recorded == DOMAIN workspace
StatusIn(s, statuses) == s \in Recorded /\ workspace[s].status \in statuses
Usable(s) == StatusIn(s, {"completed", "degraded"})

Put(s, result) == [t \in Recorded \cup {s} |-> IF t = s THEN result ELSE workspace[t]]

SlipUnsatisfied(i) == {d \in DependsOn(i) : d \notin Recorded}

Unsatisfied(i) == {d \in DependsOn(i) : ~StatusIn(d, {"completed"})}

-----------------------------------------------------------------------------
(* The loop over the tasks *)

Init ==
    /\ routing \in Routings
    /\ executors \in SUBSET Specialists
    /\ phase = "tasks"
    /\ pos = 1
    /\ attempts = 0
    /\ stop = FALSE
    /\ workspace = <<>>
    /\ skipped = Truncated
    /\ conflicts = {}
    /\ voice = NoOne
    /\ raised = "nothing"
    /\ outcome = NoOutcome

\* Guardian authority: no primary, no work.
Block ==
    /\ phase = "tasks"
    /\ routing.primary = NoOne
    /\ outcome' = [NoOutcome EXCEPT !.status = "blocked"]
    /\ phase' = "done"
    /\ UNCHANGED <<givenVars, loopVars, attempts, workspace, conflicts, voice, raised>>

InLoop == phase = "tasks" /\ pos <= Planned

PassesOver(omitted) ==
    /\ InLoop
    /\ stop \/ Unsatisfied(pos) # {}
    /\ skipped' = omitted
    /\ pos' = pos + 1
    /\ UNCHANGED <<givenVars, phase, attempts, stop, workspace, conflicts, voice, raised, outcome>>

SlipSkipUnlisted == PassesOver(IF stop THEN skipped ELSE skipped \cup {Task(pos)})

\* The primary failed, or the output of a dependency is missing.
SkipTask == PassesOver(skipped \cup {Task(pos)})

\* The task may run: nothing stopped the loop and no dependency is missing.
Ready == InLoop /\ ~stop /\ Unsatisfied(pos) = {}

\* A recorded result, and what a failed primary does to the rest of the loop.
RecordTask(status, finding, stopping) ==
    /\ workspace' = Put(Task(pos), Result(status, finding))
    /\ stop' = (FailFast /\ Task(pos) = routing.primary /\ status \in stopping)
    /\ pos' = pos + 1
    /\ attempts' = 0
    /\ UNCHANGED <<givenVars, phase, skipped, conflicts, voice, raised, outcome>>

Records(status, finding) == RecordTask(status, finding, {"failed", "timeout"})

NoExecutor == Ready /\ Task(pos) \notin executors /\ Records("failed", NoFinding)

Executing == Ready /\ Task(pos) \in executors

Retry ==
    /\ attempts' = attempts + 1
    /\ UNCHANGED <<givenVars, loopVars, phase, workspace, conflicts, voice, raised, outcome>>

AttemptRaises ==
    Executing /\ IF attempts < Retries THEN Retry ELSE Records("failed", NoFinding)

\* The answer came too late: it is discarded, and not tried again.
AttemptTimesOut == Executing /\ Records("timeout", NoFinding)

AttemptCompletes ==
    /\ Executing
    /\ \E finding \in Values \cup {NoFinding}, status \in {"completed", "degraded"} :
          Records(status, finding)

Crash(reason) ==
    /\ phase' = "crashed"
    /\ raised' = reason
    /\ UNCHANGED <<givenVars, loopVars, attempts, workspace, conflicts, voice, outcome>>

\* The output is no mapping, or its confidence no number from 0 to 1: _run_task
\* reads it outside its try.
AttemptMalformed == Executing /\ Crash("malformed_output")

-----------------------------------------------------------------------------
(* Conflicts, and the fallback *)

Contradict(a, b) ==
    /\ workspace[a].finding # NoFinding /\ workspace[b].finding # NoFinding
    /\ workspace[a].finding # workspace[b].finding

NeedsFallback ==
    /\ ~Usable(routing.primary)
    /\ routing.fallback # NoOne
    /\ ~Usable(routing.fallback)
    /\ routing.fallback \in executors

\* After the loop: detect contradictions, then decide whether to fall back.
FinishTasks ==
    /\ phase = "tasks"
    /\ routing.primary # NoOne
    /\ pos > Planned
    /\ conflicts' = {p \in SUBSET {s \in Recorded : workspace[s].status = "completed"} :
                       \E a, b \in p : p = {a, b} /\ Contradict(a, b)}
    /\ voice' = IF Usable(routing.primary) THEN routing.primary ELSE NoOne
    /\ phase' = IF NeedsFallback THEN "fallback" ELSE "merge"
    /\ UNCHANGED <<givenVars, loopVars, attempts, workspace, raised, outcome>>

Fills(status, finding, speaker) ==
    /\ workspace' = Put(routing.fallback, Result(status, finding))
    /\ voice' = speaker
    /\ phase' = "merge"
    /\ UNCHANGED <<givenVars, loopVars, attempts, conflicts, raised, outcome>>

SlipOverwrite(status, finding, speaker) == Fills(status, finding, speaker)

\* The workspace refuses a second result of the same specialist.
RecordFallback(status, finding, speaker) ==
    IF routing.fallback \in Recorded
    THEN Crash("workspace_conflict")
    ELSE Fills(status, finding, speaker)

FallbackRaises ==
    /\ phase = "fallback"
    /\ IF attempts < Retries THEN Retry ELSE RecordFallback("failed", NoFinding, NoOne)

SlipLateFallback ==
    phase = "fallback" /\ RecordFallback("timeout", NoFinding, routing.fallback)

FallbackTimesOut == phase = "fallback" /\ RecordFallback("timeout", NoFinding, NoOne)

\* The fallback's confidence is not compared with the threshold, and its output
\* is not compared with the others'.
FallbackCompletes ==
    /\ phase = "fallback"
    /\ \E finding \in Values \cup {NoFinding} :
          RecordFallback("completed", finding, routing.fallback)

FallbackMalformed == phase = "fallback" /\ Crash("malformed_output")

-----------------------------------------------------------------------------
(* The merge *)

\* Forgets that a skipped specialist leaves the result incomplete.
SlipDegraded == conflicts # {} \/ \E s \in Recorded : workspace[s].status # "completed"

Degraded ==
    \/ skipped # {}
    \/ conflicts # {}
    \/ \E s \in Recorded : workspace[s].status # "completed"

Merge ==
    /\ phase = "merge"
    /\ phase' = "done"
    /\ outcome' =
          [status   |-> IF voice = NoOne \/ (Degraded /\ ~AllowDegraded) THEN "failed"
                        ELSE IF Degraded THEN "degraded" ELSE "completed",
           primary  |-> IF voice = NoOne THEN routing.primary ELSE voice,
           evidence |-> IF voice = NoOne THEN {} ELSE {s \in Recorded \ {voice} : Usable(s)}]
    /\ UNCHANGED <<givenVars, loopVars, attempts, workspace, conflicts, voice, raised>>

Next ==
    \/ Block \/ SkipTask \/ NoExecutor
    \/ AttemptRaises \/ AttemptTimesOut \/ AttemptCompletes \/ AttemptMalformed
    \/ FinishTasks
    \/ FallbackRaises \/ FallbackTimesOut \/ FallbackCompletes \/ FallbackMalformed
    \/ Merge

Spec == Init /\ [][Next]_vars

-----------------------------------------------------------------------------
(* Properties *)

\* Every variable holds a value of its kind.
TypeOK ==
    /\ routing \in Routings
    /\ executors \in SUBSET Specialists
    /\ phase \in {"tasks", "fallback", "merge", "done", "crashed"}
    /\ pos \in 1..(Planned + 1)
    /\ attempts \in 0..Retries
    /\ stop \in BOOLEAN
    /\ Recorded \subseteq Specialists /\ workspace \in [Recorded -> Results]
    /\ skipped \in SUBSET Specialists
    /\ conflicts \in SUBSET SUBSET Specialists
    /\ voice \in Specialists \cup {NoOne}
    /\ raised \in {"nothing", "workspace_conflict", "malformed_output"}
    /\ outcome \in Outcomes

\* "Never guess a missing dependency's output": whoever recorded a result in the
\* loop ran after all its bound dependencies had completed, not merely run.
DependenciesHonored ==
    \A i \in 1..Planned :
        Task(i) \in Recorded /\ Task(i) \notin skipped =>
            \A d \in DependsOn(i) : StatusIn(d, {"completed"})

\* Every specialist the Router selected has a result or is listed as skipped, and
\* only a fallback that was skipped first can be both.
EveryoneAccountedFor ==
    phase \in {"merge", "done"} =>
        \A i \in DOMAIN routing.order :
            /\ Task(i) \in Recorded \cup skipped
            /\ Task(i) \in Recorded \cap skipped => Task(i) = routing.fallback

\* Uncertainty is never masked: a result called completed is the work of the
\* whole selected team, each with an output of full confidence and none
\* contradicting another.
StatusIsHonest ==
    outcome.status = "completed" =>
        /\ outcome.primary = routing.primary
        /\ \A i \in DOMAIN routing.order : StatusIn(Task(i), {"completed"})
        /\ \A a, b \in Recorded : ~Contradict(a, b)

\* Only outputs that arrived in time are merged: the primary voice and the
\* evidence come from specialists that completed, and the voice is one of the
\* two specialists the Router named for it.
MergeIsVouched ==
    outcome.status \in {"completed", "degraded"} =>
        /\ Usable(outcome.primary)
        /\ outcome.primary \in {routing.primary, routing.fallback}
        /\ outcome.evidence = {s \in Specialists \ {outcome.primary} : Usable(s)}

\* The workspace is write-once: no step changes or removes a recorded result.
WriteOnce ==
    [][\A s \in Recorded : s \in DOMAIN workspace' /\ workspace'[s] = workspace[s]]_vars
=============================================================================
