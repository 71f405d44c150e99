# Verification of Mini SoulSpace

TLA+ models of the program in this repository, the TLC runs that check them and
the theorems TLAPS proves about them. Paths below are relative to the
repository root; `orchestra/` stands for `backend/app/orchestra/`.

Mini SoulSpace is a diary: a React client writes pages of chapters of books
through a FastAPI backend, and closing a page runs a deterministic pipeline, the
Orchestra, that may answer with a reflection and remember a fact.

## 1. Inventory

| Part | State | Operations | Interacts with |
| --- | --- | --- | --- |
| Orchestra pipeline (`orchestra/pipeline.py`, reflect and close in `api/routes/soulbooks.py`) | per request: the node metrics, candidate text, review, retries, the session's transaction | twelve nodes in order, runtime and quality retries, crisis short circuit, memory stage, composer, commit or rollback | every node module, the database session, the Mini runtime |
| Specialist Orchestrator (`orchestra/orchestrator/`) | per request: plan, write-once workspace, skipped, conflicts | plan, run a task with retries and soft timeout, skip, detect conflicts, fall back, merge | the Router's plan, the caller's executors |
| Memory Writer, Memory Intelligence (`orchestra/writer`, `orchestra/intelligence`, `models/memory.py`) | rows of soul_memories, soul_memory_versions, corrections | classify, create, update or ignore, stamp provenance, verify, correct, decay | pipeline, the session; two requests of one user meet in the rows |
| Library (`services/soulbook_service.py`, `api/routes/soulbooks.py`, `models/soulbook.py`) | rows of books, chapters, pages, bookmark, recent books | create, update, autosave, soft delete, bookmark, touch, close | client; concurrent transactions of one user |
| Writing page (`frontend/src/features/soulbook/WritingPage.tsx`) | edited text, dirty flag, autosave timer, save state, requests in flight | edit, autosave, keep, close | the Library's routes, over a network |
| Decision nodes: Input Receiver, Meaning, Guardian, Memory Retriever, Planner, Context, Prompt, Router, Quality (`orchestra/*/`) | none | one function each, from frozen inputs to a frozen output | each reads what the nodes before it decided; pipeline |
| Rate limit (`utils/rate_limit.py`) | counters with expiry in Redis | INCR, then EXPIRE; DEL after a login; open when Redis fails | register and login |
| Accounts and sessions (`services/auth_service.py`, `services/token_service.py`, `api/routes/auth.py`) | rows of users, preferences, agreements and refresh sessions; the cookies of browsers | register, login, rotate, detect reuse, revoke | client; concurrent transactions; the rate limit |
| Vision, brains, profile edits, SPA, legal, migrations, other screens | single rows or none | forms, reads, wiring | - |

What is hard in it:

- **Partial failure.** Twelve nodes and up to six flushes share one transaction
  and one exception handler, a second handler swallows what fails in the memory
  stage, and the route commits twice.
- **Retries inside retries.** The runtime's attempts nest in the quality
  retries; a specialist's attempts nest in a loop that may also run a fallback.
- **Ordering.** The candidate, its review and the decision about memory are
  local variables reassigned in loops; an exception may come between any two.
- **Short circuits.** A crisis skips four nodes; fail fast, truncation, missing
  dependencies and the fallback decide together which specialist runs.
- **Concurrent transactions.** Autosave, close and a second tab work on the same
  rows under READ COMMITTED; numbering, bookmark, memories, emails and refresh
  tokens are read and then written.
- **Decisions that depend on each other.** Meaning may discount what the Guardian
  weighs, with other phrases; the Guardian's limits pass through five nodes, each
  of which could widen them again.
- **Limits.** A context has four caps and a budget in characters of JSON, the
  retriever a number of memories, and a counter in Redis is two calls.
- **The network.** The client's autosaves carry no sequence number.

What makes each part correct: the pipeline shows only approved text, remembers
only what it may and keeps what it saved; its nodes protect a disclosure, do not
escalate fiction and never go beyond the Guardian; the orchestrator honours
dependencies, never overwrites and never calls a partial result complete; the
memory store keeps evidence and history and trusts nothing beyond its wording; the
library keeps numbers unique, references live and the last words written; the
writing page never loses an edit it calls saved; a cookie has a session and an
account behind it, a stolen token ends all sessions, and no counter locks anybody
out for good.

`PROJECT.json` lists every part under "components" and every hazard, at its
line, under "hazards".

## 2. Plan

| # | Module | Models | Status |
| --- | --- | --- | --- |
| 1 | `OrchestraPipeline`, over the abstract `DeliveryGate` | one reflect or close request | checked, proved |
| 2 | `SpecialistOrchestrator` | one routing plan | checked, proved |
| 3 | `SoulBookStore` | the library's rows under concurrent transactions, soft delete, numbering, bookmark | checked, proved |
| 4 | `WritingPage` | the client against the server's page | checked, proved |
| 5 | `MemoryStore` | writer and intelligence, concurrent closings, version history, corrections, decay | checked, proved |
| 6 | `PageReading`, under `ReflectionDecisions` | what the decision nodes of one run decide, from the page to the verdict | checked, proved |
| 7 | `Accounts` | registration, login, refresh, logout and the rate limit | checked, proved |

The order was that of importance: first what the client is shown, then what is
stored under concurrent requests, then the decisions and the sessions.

Every module declares its parameters as CONSTANTS with the weakest assumption the
code justifies, has one action per operation, states its invariants as
conjunctions of named parts and declares no recursive operator, so that it can be
proved about.

The abstract specification stated here is the delivery gate. Two more would be
worth it: a saved page as a single register that the writing page and the store
implement, and a memory with its history that the memory store implements.
`OrchestraPipeline` is the composition of the nodes as far as their failures,
retries and effects go, and `ReflectionDecisions` as far as their decisions go: a
decision is a choice in the first and computed in the second. `WritingPage` over
`SoulBookStore`, and the memory stage of `OrchestraPipeline` over `MemoryStore`,
are not composed.

Every invariant and every action property that a passing run checks is stated by a
theorem. Next in line: the two abstract specifications above, with the refinements
proved, and what a library under concurrent requests keeps when it comes to rest
(the counts of a page that was saved by one request alone, for one).

A run asks one question and no two ask the same.

## 3. Modules

### DeliveryGate

The promise of the pipeline to its client, with nothing of its nodes: the
Guardian decides once, texts are reviewed one after the other, the request is
answered once, and a text that is shown is the one whose review, the last one
made, approved it. `OrchestraPipeline` implements it (`ImplementsGate`).

### OrchestraPipeline

One request, reflect or close, from its save to its answer.

| TLA+ | Code |
| --- | --- |
| `pc`, `metrics`, `failed` | the place in `run_orchestra`, `_Run.metrics`, the failure package |
| `guardian`, `candidate`, `review`, `attempt`, `retries`, `calls` | locals of `run_orchestra` and of the Mini engine's loop |
| `staged`, `committed`, `session` | rows flushed by the request, rows in the database, whether SQLAlchemy still accepts statements |
| `decision`, `package`, `response` | the writer's decision, the Composer's package, the HTTP answer |
| `SavePage` ... `CommitPageFails` | `close_book` before the run |
| one action per node, `NodeRaises` | `run.run("<node>", ...)` and the outer handler |
| `MiniEngine`, `MiniEngineRetries`, `MiniEngineGivesUp` | the loop of `mini/engine.py` |
| `QualityChecker` | one pass of the review loop, lines 277-303 |
| `WriteNothing`, `WriteMemory`, `AssessMemory`, `MemoryNodeRaises`, `MemoryFlushFails`, `SkipMemory` | the memory stage, lines 305-327 |
| `ConversationComposer`, `CommitRun`, `CommitRunFails` | the Composer, the route's commit and `get_db` |

Data is abstracted to what the properties tell apart: a text is the crisis
template, a generated text or none; a review approves, finds a fixable problem or
rejects; a memory is created, updated or not written; the row states are whether
the page, the memory, its provenance and its version are there. A failed flush
makes the session inactive: from then on every statement, the final commit
included, raises until a rollback, which is what SQLAlchemy does.

### SpecialistOrchestrator

One call of `orchestrate` on one routing plan.

| TLA+ | Code |
| --- | --- |
| `routing`, `executors` | the arguments |
| `pos`, `attempts`, `stop`, `skipped` | the loop over `plan.tasks`, the attempts of `_run_task`, `stop_remaining`, `skipped` |
| `workspace` | `SpecialistWorkspace`: specialist to result |
| `conflicts`, `voice`, `outcome`, `raised` | the conflicts, the primary once `primary_ok`, the result, the exception that escaped |
| `Planned`, `Truncated`, `DependsOn` | `build_execution_plan` |
| `SkipTask`, `NoExecutor`, `Attempt...` | one pass of the loop, or one attempt of `_run_task` |
| `FinishTasks` | conflicts and the decision to fall back |
| `Fallback...`, `Merge` | the fallback's `_run_task`, and the merge |

An output is abstracted to its value for one finding and to the side of the
confidence threshold it falls on. Numeric confidence and the audit trail are left
out.

### SoulBookStore

The library of one user under requests that run at the same time. A request is a
transaction, `Program(r)` is its list of SQL statements, and every statement is
a step, in the order in which the functions of `soulbook_service.py` query and
flush (the session has `autoflush=False`).

| TLA+ | Code |
| --- | --- |
| `rows` | the committed rows: id to its columns |
| `tx[c].read`, `tx[c].dirty` | the ORM's copies of rows as first read, the columns flushed and not committed |
| `tx[c].at`, `.number`, `.ribbon`, `.known` | the ids of the URL, and what a query found |
| `Find`, `Try` | `get_book`, `get_chapter`, `get_page` and their 404; the same inside `get_bookmark` |
| `Recall`, `Touch`, `Upsert` | `get_book` and `get_chapter` with touch, `_upsert_recent_*` |
| `TakeNumber`, `Insert` | `create_book`, `create_chapter`, `create_page` |
| `Save`, `Stores` | every function that loads one row and assigns columns: update, autosave, archive, restore, favorite, soft delete; and the flush that sends them to the database |
| `FindRibbon`, `Tie`, `Aim` | `set_bookmark`, and the query of `get_bookmark` |
| `Commit`, `Ends` | the route's `db.commit()`; `get_db` closing the session without one |
| `acked` | nothing: a history of the content each page's last acknowledged save gave it |

What PostgreSQL and SQLAlchemy do is part of the module, and marked external in the
map. At READ COMMITTED (the default; nothing sets another level) a statement sees
what is committed at that moment and what its own transaction wrote; a written row
is locked until its transaction ends (`LockedFor`); an INSERT under a unique key
waits for another one and fails once that one is committed. A NULL for a column
that refuses it fails at once: the schemas of book, chapter and page let a null
through for the columns they make optional, and `setattr` writes it
(`null_refused`). Neither failure is handled; the session is closed, and the answer
is 500. An UPDATE sets the columns that differ from the copy the session read first
(`Changed`), and a query that meets a row again does not refresh that copy
(`Load`). That last pair makes edits of different columns compose, and makes
columns that belong together come apart.

A `close` is the first half of `close_book`, up to its first commit; the second
half is `OrchestraPipeline`. Ids are opaque: a new row takes some id that no row
has (`Spare`), the choice makes no difference. Lists, search, sort order, titles,
covers and timestamps are left out; nothing that is kept depends on them, and a null
title or cover ends like the null numbers and favorites that are modelled. What
becomes of titles is in `WritingPage`.

### WritingPage

One page of a book, open in one or more tabs, and its row on the server.

| TLA+ | Code |
| --- | --- |
| `tab[t].phase` | mounted or not, `isLoading`, `error`, and `closeState` once the page is there |
| `.text`, `.status`, `.timer` | title and content, `status`, the text in the closure of `timerRef` |
| `.reflection` | `reflection`: there, or null because no close was answered or the last one failed |
| `.buttons` | whether Save and Save & Close can be pressed: `AnimatePresence` keeps them, with their old handlers, for the half second they fade |
| `.sends`, `.lastSent` | nothing: how many requests the tab has sent, the last text it sent |
| `net` | the requests under way: sent, done by the server, or failed |
| `stored` | `title` and `content` in the row of the page |
| `Refused`, `Stripped`, `IsBlank`, `Written`, `Handle` | the schemas of the three writing requests; `update_page` and `autosave_page`; their routes |
| `Open`, `PageLoads` | the effect that loads the page, before and after its answer |
| `Edit`, `Autosave` | the debounce effect, and its timer |
| `Save`, `SaveSettles` | `save`, before and after its await |
| `Close`, `CloseSettles`, `ButtonsFade`, `ReturnToShelf` | `closeSoulDiary`, before and after its await, and the states it goes through |
| `Leave` | unmounting, with the effect's cleanup |

A text is a title and a content, each with the number of the edit that typed it, so
that the older one is the smaller one. Of a title the model also has the form,
since the server does not store every title as it was sent: Save refuses an empty
one (422) and strips the others, also to nothing; autosave and close pass over a
blank one, answer as if it were stored, and strip the others. A title above 150
characters is refused by all three, which is a `Fail` here. The server's handling
of a request is one step: `SoulBookStore` has its statements, `OrchestraPipeline`
the run after a close's commit. A request that the server carried out although the
client saw it fail is a `Fail` of a request that is done; one that never reached
the server is a `Fail` of a request that is sent. `ordered` tells the mild network,
where requests of a tab are handled and answered in the order they were sent, from
the wild one: the client gives its requests no number and waits for none, so which
of the two it meets is not in its hands.

### MemoryStore

The memories of one user. A closing is a transaction: it looks for a memory like
the one the page suggests, creates or updates it, stamps it, inserts its version
row and commits. Two of them may run at the same time.

| TLA+ | Code |
| --- | --- |
| `rows`, `history` | the committed rows of `soul_memories` and `soul_memory_versions` |
| `tx[c].read`, `.mine`, `.set`, `.log` | the row as the session read it and as it has it, the columns it has flushed, the version rows it has inserted |
| `alone`, `sound` | whether requests overlap, and whether assess finds its configuration: choices of the first state |
| `ever` | nothing: a history of the texts each memory has held, and whose they were |
| `Candidate`, `Matches` | `extract`; `existing` and `_find_match` |
| `CreateMemory`, `FindMemory`, `UpdateMemory` | `writer.write`, and the flush of `DbMemoryStore.update`, which may wait for a lock |
| `Stamped`, `Assess`, `AssessRaises` | `assess` and `record_version`; the exception the pipeline swallows |
| `Commit`, `Abandon` | the commit of the route; a session that is closed without one |
| `Correct`, `Decay`, `DayPasses` | `apply_correction`, `apply_decay`, and the clock they read |

A fact is a sentence, with its type, its keywords, the confidence of its wording
and the place of its pattern as constants. Confidences are in hundredths and time
is in days. As in `SoulBookStore`, an UPDATE sets the columns that differ from
what the session read, and waits for a transaction that has written the row.
Corrections and decay are called by no route yet; they are modelled as they stand,
one at a time and beside no closing.

### PageReading and ReflectionDecisions

What the nodes of one run decide. `PageReading` has the rule tables of Meaning &
Intent and of the Guardian as operators: the first row whose phrases the page
meets decides (`FirstMatch`). `ReflectionDecisions` runs the nodes one after the
other.

| TLA+ | Code |
| --- | --- |
| `page.says`, `page.signals` | the phrase banks the titles and the text meet in `meaning/engine.py`, the entries they meet in `guardian/lexicon.py` |
| `Analyze`, `Evaluate` | `meaning.analyze`, `guardian.evaluate` |
| `Discounted` | a crisis read again without the words that raised it, when Meaning sees no real-world intent |
| `ReceiveInput` | the errors of `build_orchestra_request`, with any of its facts missing |
| `Retrieve`, `Select` | `retriever.retrieve`: score, rank, cap |
| `PlanReflection`, `PlanFor`, `Template` | `planner.plan`, and the crisis template of `pipeline.py` |
| `BuildContext`, `SelectMemories`, `Fit` | `context/builder.py`: caps, notes, budget, cut |
| `BuildPrompt` | what `prompt/builder.py` tells the model, and its token limit |
| `RouteRequest`, `RouteFails` | `router.route` over any of the registries |
| `Generate` | the model, which may write any draft |
| `Review`, `Blocking`, `Fixable` | `quality.check` |

Which phrases a page meets is a set, not a text; the two searches are independent
because their phrase lists are. The lengths that matter to the budget are numbers:
the page's, the width of its characters once they are escaped as JSON, the
memories', and what all other blocks take (`BaseChars`).

### Accounts

The accounts of some emails and the sessions of some browsers.

| TLA+ | Code |
| --- | --- |
| `account`, `sessions` | the rows committed for an email; `refresh_sessions` |
| `cookie` | the refresh token each browser holds |
| `hits`, `timed` | a limiter's key: its count, and whether it has an expiry |
| `req[w]` | the request a worker thread runs, and the place it is at |
| `scene` | nothing: which operations a behaviour has, whether they overlap, whether Redis fails |
| `Count`, `SetExpiry`, `RedisFails`, `WindowEnds`, `ResetLimit` | `check_rate_limit` with its two calls, its exception, the key's expiry, `reset_rate_limit` |
| `LookUp`, `InsertUser`, `Register` | `register_user`: the query, the first flush, the rest up to the commit |
| `Authenticate`, `Login` | `authenticate_user`, and `issue_tokens` with the commit |
| `ReadToken`, `Rotate`, `RevokeAll`, `Refuse` | `rotate_tokens` and the route's answer |
| `Logout` | `revoke_token` and the commit |
| `Deliver`, `Fails`, `Expires` | the answer that sets or clears the cookie; a rollback, or an answer that is lost; `expires_at` |

Statements that only write rows of the request's own and cannot be seen before the
commit are part of the commit's step. Passwords are right or wrong, and hashing is
left out. Every browser comes from one address.

## 4. Runs

| Run | Question | Bounds |
| --- | --- | --- |
| `pipeline` | can any mix of failures show, remember, lose or misreport what it must not, break the gate or leave a request unanswered? | quality limit 2, one runtime retry: both loops go round more than once and meet their limits; every node and statement may fail |
| `pipeline_memory_blocks` | *violated*: "Memory problems must never block or corrupt the conversation" | the same |
| `orchestrator_safety` | are dependencies, write-once, completeness and honesty kept by every plan? | four specialists, the shipped dependency chain vision, research, memory, and Core; cap 3 (so a plan can be truncated), one retry, two values (so outputs can contradict); every order, primary, fallback and set of executors |
| `store_serial` | do any three requests, one after the other, keep the ribbon on one page, counts, contents and unique numbers, and never meet the unique key of the recent rows? | three clients, 23 requests of every kind, three of them with a null that the database refuses, two books of one chapter each with two pages and one, ids to spare; nothing was opened before |
| `store_shared` | what still holds when the three run at the same time: no edit is undone by another's copy, what is deleted stays deleted, one ribbon | the same requests, in a library in use: its ribbon is tied and its recent rows are there |
| `store_liveness` | does every request end, whatever locks the others hold? | three clients with the requests that write several rows (closings and openings), and a deletion under them |
| `writing_page` | is every edit scheduled and sent, does a tab alone never put an older text back, do a settled "Saved" and a reflection tell the truth? | one tab, a page whose title is empty, two edits of the content or of the title (between spaces, or spaces alone), three requests before the buttons stop being pressed; the mild and the wild network are both initial states, and every request may fail before or after the server acted |
| `writing_kept` | *violated*: "the diary entry is never lost" | one tab, one edit, the mild network |
| `reflection` | is a disclosure a crisis and fiction none, does any node go beyond the Guardian, is anything left out without a note, and does the context fit? | 7,267 pages: every two phrases under three readings of the lexicon, every three signals under three of the phrases, and every length up to 12 over a budget of 20, in three widths; four shelves, three registries, seven drafts; 567,944 states |
| `memory` | what do overlapping closings, failures, corrections and decay leave of history, evidence, confidence and version? | two closings, two memories, three facts (two wordings of one favourite, firm and casual, and a relationship), a day, one correction of a memory, three version rows; 2,233,056 states |
| `memory_history` | *violated*: "every change writes an immutable version row" | the same |
| `accounts` | does every counter expire, has every cookie an account and a session behind it, is one session of a login live, does reuse end all? | two workers, two browsers, one email, limit 1, three sessions; registering and logging in with a Redis that may fail, and logging in, refreshing and logging out, with and without overlap; 3,766,087 states |

Why the bounds are enough: a retry loop behaves alike on every round except the
first and the last, and both limits leave room for one between; a dependency
chain of three with one independent specialist exhibits cascading skips; two
values are all a contradiction needs. In the library two requests meet in a row,
and a third can change what both have read or close a circle of locks over three
tables; two pages in one chapter and one elsewhere are the least with which a
number can clash and a ribbon can come apart. `MaxRunning` = 1 is the serial run.

A page that meets two phrase banks shows which of two rows of a table wins, and
three signals are what the heaviest rule of the Guardian reads (overwhelmed, sad
and a crisis). A shelf holds more memories of a kind than its cap and more in all
than may be retrieved. Two closings are all that meet in a row, and three facts
give a match with another text, a match with the same text, a relationship and
none. A third session is the one that is opened while a reused token is at work on
the second; a limit of 1 has a first, a last and a refused request.

On the writing page an answer can cross one later edit and one later request; the
third request is the close. Autosaves are not counted against `MaxSends`: there is
at most one for each text loaded or typed.

Deadlock is not checked in any module: a request that has been answered, an
orchestration that has returned or raised, and a page that was left stop, as do
the bounded histories and sessions of `MemoryStore` and `Accounts`. That
locks cannot stop requests is `EveryRequestEnds`.

Fairness: `pipeline` assumes weak fairness of `Next`. The route is a synchronous
function that runs to its end on its worker thread, every call of the runtime has
a timeout, and nothing in the run waits for another request. `store_liveness`
assumes weak fairness of each request's own statements: each runs on a worker
thread of its own, and only a row lock makes it wait, which its guard states.
`writing_page` assumes that the timer of a tab fires (weak fairness of `Autosave`),
that a request is handled or its connection breaks (`Serves`), and that its promise
then settles (`Settles`), which a browser does for every request. Nobody has to
type, press or leave. `SpecialistOrchestrator` assumes none: its soft timeout
looks at the clock after the executor has returned, so nothing in the code bounds
an executor and no liveness holds. `MemoryStore`, `ReflectionDecisions` and
`Accounts` state safety only and assume none; that a closing ends is a property of
`pipeline` and `store_liveness`.

## 5. Proofs

`OrchestraPipeline_proofs`, for every retry limit:

- `TypeCorrect`, and from it an inductive invariant, `IInv`, that each safety
  theorem follows from. The properties are not inductive alone. That the client
  sees only approved text needs that a candidate and its review always change
  together before the Composer; that a reported memory is kept needs which rows
  are staged at each `pc`; that a crisis stays deterministic needs that no
  generation node can be reached once the Guardian has decided; the bound on
  calls relates `calls` to `retries` and `attempt`.
- `ApprovedOnly`, `CrisisDeterminism`, `KeptMemory`, `SavedPage`: the invariants of
  `pipeline`; and two that no run repeats, `CallsBounded` (the retry loops) and
  `EarnedMemory` (only an approved exchange is remembered).
- `FailureAttribution`: an action property, from the same invariant.
- `GateRefinement`: every initial state maps to one of the gate, and every step
  to a step of the gate or a stutter.

`SpecialistOrchestrator_proofs`, for every registry, dependency table, cap, retry
limit and set of values: `OrchestratorTypes`, `DependenciesFirst`,
`VouchedMerge`, `HonestStatus`, `WriteOnceWorkspace`, `AllAccountedFor`. The
strengthening says what the loop has settled: every task before `pos` is recorded or
skipped, no later one has a result, a recorded task's dependencies had completed, and
outside the loop `voice` is the primary exactly when its result is usable.

`SoulBookStore_proofs`, for every set of clients, requests and rows, and any
number of them at the same time:

- `DeletionIsFinal`. It is not inductive: that a commit undeletes nothing depends on
  what the transaction wrote long before. The invariant, `StoreInvariant`, says of
  every transaction that has not ended that what it wrote over an existing row does
  not undelete it, and that no other one has written that row; the second part is
  needed when a commit turns an inserted row into an existing one. `StepKinds`
  reduces the steps to four kinds: nothing written, a write under the row's lock, a
  rollback, a commit.
- `RibbonStaysOne`, `EditsCompose` and `NoCircularWait` need how far each request has
  come. What it has still to do is a script, a list of statements each of which was
  prepared by the one before it (`Scripted`), and rows keep the columns of their
  table (`Filled`).
- `RibbonStaysOne` assumes that the library has a ribbon. Without one, two first
  closings tie one each, as section 6 says.
- `EditsCompose` follows every edit through four places: its row is to be read, to
  be saved, written and not committed, stored (`EditKept`). What carries it over
  the statements of the others is that nobody writes a column that its own request
  does not change (`OwnColumns`).
- `NoCircularWait` is the safety that `EveryRequestEnds` rests on, and no run repeats
  it. Requests get to the tables in one order (page, ribbon, book, its recent row,
  chapter, its recent row), so that a request that waits is at a table above all it
  has locked (`Climbing`); along a chain of waits the tables ascend, and it ends.
  Chains do occur: three clients are enough for one to wait for a second that waits
  for the third.

`SoulBookStore_serial_proofs`, for a server that runs one request at a time
(`MaxRunning` = 1) and every set of clients, requests and rows: `RibbonMarks`,
`CountsMatch`, `LastSaveStays`, `NumbersStayApart`, `RecentRowsStayApart`, all from
the invariant of `OneByOne`. A request works on what it sees, the rows under its own
writes (`View`), and a library in order stays in order under each write; that a write
is such a one is what the statements before it have established (`Prepared`: the row
to save is as it was read, the bookmark's page is where the URL says, the number is
above those of the siblings). The hypothesis is what these theorems are about: with
`MaxRunning` = 2 in `SoulBookStore_serial.cfg`, TLC finds each of the five violated.

`WritingPage_proofs`, for every set of tabs and every bound: `TypeCorrect`,
`NoEditForgotten`, `SavedIsTrue`, `NothingOlder`, and `QuietAfterClose`, which no
run repeats: a page that was left or closed sends nothing. `SavedIsTrue` is about
two things the page says: "Saved", in an open page where everything has settled,
and a reflection, whatever is still under way. It promises the content, and the
title without the spaces around it unless it is blank (`Kept`); the blank titles,
over which autosave and close pass, are in section 6. It says nothing of the
requests on their way, and cannot be kept by itself. The invariant `IInv` adds that
a tab's requests carry texts that grow with their numbers (`Precedes`), that on the
mild network they are done in that order and the last one settles last, that what
is stored is not newer than anything a tab alone still has under way and is what it
sent last once that is done (`Stands`), and that a close that is done has stored
the text on the screen, with no request of another text left once it was answered
(`Closed`), so that the second close of a second press takes nothing back.
`StepKinds` reduces the twelve actions to four: a request is sent, marked,
received, or none of these.

`MemoryStore_proofs`, for every number of clients, memories and facts, every table
of types, keywords and tiers, and every bound: `MemoriesExplained`, `DiaryKept`,
`VersionsCount`, `ConfidenceFits`. One lemma for each step says what it does to a
transaction (`CreateEffect` to `CommitEffect`), so that the invariants need not
look into rows. `TInv` has the types, and that a transaction works on a row that
is there. That the diary is kept needs that a stamped transaction carries a version
row of the text it will commit; that the version counts the corrections (`Numbered`)
needs that a new row's id belongs to one transaction and that no version row of a
closing is outdated; that the confidence fits (`Fitting`) needs that without
overlap the row is still the one that was read, so that the flushed columns make
up the whole row. `ConfidenceFits` assumes that no wording is worth less than
`minimum_confidence`, as the configuration has it.

`ReflectionDecisions_proofs`, for every set of pages, shelves, registries, drafts
and budgets: `DisclosureProtected`, `FictionNotEscalated`, `GuardianIsCeiling`,
`ApprovedWithin`, `NothingDropped`, `BudgetHolds`, `ImportantOnesFirst`. `DInv` says
which decisions stand at each `pc`, and that each is what its node computes from
those before it; what remains are facts about the tables and the lists. A first
match is a row that meets the marks (`FirstMatchRow`), only three signals make a
crisis (`CrisisBySignal`), the overrides after a policy relax none of its limits
(`GovernedFacts`), and a plan keeps within them (`PlansFit`). The retriever's answer
is a ranked list of distinct memories that leaves out none of a higher rank
(`SelectIsRanked`). The context is built by folds over that list: what a fold keeps,
counts or adds up is proved by looking at the least place where it would go wrong.
`FitNearlyHolds` is the arithmetic of the budget.

`Accounts_proofs`, for every number of workers, browsers, emails and sessions and
every limit: `CountersExpire`, `CookiesBacked`, `OneLive`, `ReuseEndsAll`. A
counter without expiry has a request at the place where it sets one, whoever
deletes the key in between. A cookie, or an answer on its way to set one, has a
session (`TokensExist`), and the account of a session, or of a login about to open
one, is whole (`AccountsWhole`). What a request has seen are sessions of its
account, and they are revoked once its UPDATE is done; nothing revives a session
(`SeenRevoked`). Where requests do not overlap, one runs at a time, a refresh
rotates a session that is still live, and every chain begins with a session that
exists, so that a fresh one joins no older chain (`AloneInv`). `FreshIsSpare` takes
the least token from the well-foundedness of the naturals.

Assumptions: `MemoryAssumption` (tiers are 1 to 99, patterns have places of their
own, the bounds are naturals), `ReflectionAssumption` (lengths and limits are
naturals, ranks differ), `AccountsAssumption` (the limit is positive and below the
bound on hits), `WritingAssumption` (the bounds are naturals, and no text is no
number; the title in the database is stripped), `PipelineAssumption` (limits are
naturals), `OrchestratorAssumption` (the registry is finite, Core is in it, depends
on nobody and is not the placeholder for None), `StoreAssumption` (ids of different
tables are distinct; what a request is and which columns of which table it may
assign; that no request sets the deletion flag to false, as no route does; that a
number that is sent is a number or null, as the schemas have it) and
`LibraryAssumption` (the library starts in order: each row has its columns, and
counts, numbers and ribbon are right). TLC evaluates them in every run. Two
hypotheses stand in the theorems themselves: a ribbon at the start, and
`MaxRunning` = 1.

Only model-checked: the liveness properties `EveryRequestIsAnswered`,
`EveryRequestEnds` and `EditsAreSent`. Liveness under fairness and ENABLED are out of
the prover's reach. So are the library's induction theorems; the induction over
numbers, lists and folds that the proofs need goes by a least counterexample
(`LeastOf`), which the well-foundedness of the naturals gives.

## 6. Where the code and its documentation differ

1. `orchestra/pipeline.py:326` promises that memory problems never block the
   conversation. A failed flush leaves the session inactive; the route's commit
   then raises and the approved reflection is lost (`pipeline_memory_blocks`).
2. `frontend/src/features/soulbook/WritingPage.tsx:119` promises that the entry is
   never lost, and line 279 tells the reader that the words are safely kept. A
   close that fails is told like one without a reflection; the autosave timer was
   cleared before it, so that nothing sends the text again (`writing_kept`).
3. `orchestra/intelligence/store.py:3` promises that "history must never be lost:
   every change writes an immutable version row". A correction writes one for the
   old text only. When a later closing updates the memory, the text the user gave
   is overwritten and stands in no version row (`memory_history`). No route calls
   `apply_correction` yet.

Also met while modelling, without a run of their own:

In the pipeline, the orchestrator and the library:

- `docs/SPECIALIST_ORCHESTRATOR.md:64` promises that a failed specialist never
  crashes the Orchestra. mini_core is the Router's fallback even of a plan whose
  primary it is (`orchestra/router/router.py:97` and 134); when it fails, its second
  result is refused by the write-once workspace with an exception that leaves
  `orchestrate` (`orchestra/orchestrator/orchestrator.py:281`).
- `README.md:360` promises that reopening continues at the bookmarked page. Two
  closings at the same time, a second tab for example, leave a bookmark with the
  chapter of one and the page of the other (`services/soulbook_service.py:426`), and
  `get_bookmark` then finds no page. `store_serial` shows that closings one after
  the other do not.
- `api/routes/soulbooks.py:333` gives saving the page priority. The save shares its
  transaction with the recent rows (line 340), whose unique key another request may
  have taken in between; the answer is 500 and the text is rolled back.
- When assess raises for another reason than a flush, the row the writer flushed
  is committed unstamped, against `orchestra/intelligence/engine.py:128`.
- `_run_task` "never raises" (`orchestra/orchestrator/orchestrator.py:123`), but
  reads the executor's output outside its try.
- Conflicts between specialists are computed before the fallback runs, so a
  fallback that contradicts a supporting specialist is merged without the conflict
  that `docs/SPECIALIST_ORCHESTRATOR.md:74` promises. This takes a plan whose
  primary is not first, as the tests build them, or fail fast switched off.
- Two saves of a page at the same time leave the text of one with the word count
  of the other: each sets only the columns that differ from the copy it read. The
  next save of the page, alone, repairs it.
- Two first closings at the same time each insert a bookmark, since
  `soul_bookmarks` has no unique key on the user.
- An explicit null for the title, `is_favorite`, `chapter_number` or `page_number`, and
  for the other columns that the update schemas make optional and the tables do not,
  passes the schema (`schemas/soulbook.py:37`, 77 and 104), is written by `setattr`
  (`services/soulbook_service.py:135`, 250 and 367) and fails in the database with 500
  instead of 422.
- A bookmark in a deleted book or chapter makes `GET /bookmark` answer 404 instead
  of null: `get_bookmark` asks for the page only, and deleting a book leaves its
  pages.

On the writing page:

- `WritingPage.tsx:93` says that the autosave skips the initial load. `loadedRef` is
  set (line 63) by the time the effect sees the loaded text, so that opening a page
  and waiting saves it; in a second tab this puts an older text back.
- Autosaves that overtake each other put an older text back, until the next edit.
- The answer to an older save sets "Saved" after a close has failed, and while a
  newer text is waiting for its timer.
- "Saved", and the status `saved` of `schemas/soulbook.py:143`, stand over a blank title
  that is not stored: `services/soulbook_service.py:383` passes over it and the row keeps
  the old one. A close then shows its reflection just the same.
- A second press on Save & Close while the button fades sends a second close.
- The guard on leaving the window asks only while the status is "unsaved" or
  "saving": not after a save has failed.

In the memories:

- Two closings that overlap on one memory can leave the text of one with the
  confidence of the other; `ConfidenceFitsStatement` is stated without overlap. Two
  that create at the same time leave two memories of one fact.
- Decay counts the days from the last verification, which it does not move: for a
  memory that was verified each run of it takes all those days again from what the
  runs before have left. It writes no version row.
- A closing that updates a memory the user has corrected takes the verification
  back, and writes its version row under the version number of the correction.
- `would_resurface`, which is to keep a corrected value from coming back
  (`orchestra/intelligence/engine.py:11`), is called by nothing, and neither are
  `required_confidence` and `needs_verification`.

In the decisions:

- Meaning's list of first-person disclosures and the Guardian's lexicon differ:
  some disclosures raise no signal, and a signal in a song, a quotation or a joke
  that Meaning's list does not know is discounted.
- A title with "history" in it contains "story", which is looked for earlier: the
  page is read as a short story.
- The context may exceed its budget by up to 24 characters, since the ellipsis and
  the flag are added after the cut. The cut is computed in characters of the page
  for an overflow in characters of JSON, so a page in wide characters may be cut to
  the ellipsis alone. `BudgetNearlyHolds` states what is left of the limit.
- The rule of the Quality Checker against claims to remember looks at what was
  retrieved, not at what was left in the prompt.

In accounts and sessions:

- When EXPIRE is lost after INCR, or Redis fails between the two, the key never
  expires, although `utils/rate_limit.py:36` says that the window resets by itself:
  the address or the account stays locked out until a successful login, which the
  limit refuses. `EveryCounterExpires` is stated for a steady Redis.
- Two refreshes at the same time with one token both succeed and fork the chain;
  `OneLivePerLogin` is stated without overlap.
- The 401 of a refresh is raised as an exception, so the cookies the handler cleared
  on its response stay in the browser: each later refresh presents the revoked token
  again and ends the sessions the user has opened since.
- Two registrations of one email at the same time: the loser is answered 500 by the
  unique index instead of 409.

## 7. Not modelled, and why

Password hashing, token encoding, validation of request bodies, prompt wording,
prompt assembly and templates are data without control; the phrases of the
lexicons are too, and only which of them a page meets is modelled. Edits of the
profile and of the preferences write one row of their user with nothing to order
them. The SPA shell, legal texts, health checks, logging, migrations and the brain
stubs keep no state. No part of the pipeline calls the vision engine: it
is one function from the bytes of an image and the observations of a model to a
result, without a state or an order to get wrong, and its hazards are formats.
Other screens are forms and lists over the API; none of them calls refresh.

## 8. Running

    tlc -config OrchestraPipeline.cfg OrchestraPipeline
    tlc -config SpecialistOrchestrator_safety.cfg MCSpecialistOrchestrator
    tlc -config SoulBookStore_shared.cfg MCSoulBookStore
    tlc -config WritingPage.cfg WritingPage
    tlc -config MemoryStore.cfg MCMemoryStore
    tlc -config ReflectionDecisions.cfg MCReflectionDecisions
    tlc -config Accounts.cfg MCAccounts
    tlapm OrchestraPipeline_proofs.tla

and the same with each other configuration of "runs" in `PROJECT.json` and each
other `*_proofs.tla`.
