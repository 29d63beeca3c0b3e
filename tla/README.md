# ATLAS in TLA+

ATLAS is a TypeScript monorepo (`packages/*`, `apps/web`): a platform that
keeps an organization's knowledge in a structured memory and answers goals
put to it through a command line or a web chat. A turn goes from the user to
`executeChatTurn`, which builds a context package from memory and either
calls an LLM with tools (`runToolLoop`) or plans, compiles and executes a
workflow without one; what happened is stored in memory, published on event
buses and persisted with the conversation.

This directory holds TLA+ specifications of that program, TLC configurations
that check them on small instances, and proofs, checked by TLAPS, of what
holds for every instance. Modules are translated from the code; where the code
and a document, a comment or a test disagree, the module follows the code and
a run shows the disagreement.

- [Inventory](#inventory)
- [How the modules correspond to the code](#how-the-modules-correspond-to-the-code)
- [Runs](#runs), [bounds](#bounds) and [fairness](#fairness)
- [Proofs](#proofs)
- [Disagreements and facts met](#disagreements-and-facts-met)
- [What is not modelled](#what-is-not-modelled), [plan](#plan)

To check a run: `tlc -workers 2 -config <run>.cfg <module>.tla` (the modules
are in the table of runs); to check the proofs of a module:
`tlapm <module>.tla`. `PROJECT.json` maps each definition to its lines, lists
the hazards of the code line by line with the properties that cover them, and
gives for each property a mutant: a definition with a plausible mistake (kept
in the module beside the right one, under a comment that begins with "Mutant")
under which TLC finds the property violated.

## Inventory

Everything runs in Node.js. A process has one thread; code gives it back at an
`await` only. An `await` of a promise that is settled already (all the
shipped storage, index and retrieval providers are of this kind) lets only
microtasks run; an `await` of the LLM, of a timer or of a file extraction lets
other HTTP requests run. Several processes may share the files of a workspace,
and several tabs of a browser a server.

| Component | State | Operations | What is hard | What makes it correct | Modelled in |
|---|---|---|---|---|---|
| Pipeline coordinator, `packages/runtime/src/pipeline` | the events and status records of the Execution aggregate | `run`, `resume`, `pause`, `cancel`, projections | calls overlap; pause and cancel land during a stage; events deduplicated by millisecond | stages in order, completion covers all, final verdict, every call returns | `PipelineCoordinator`, `StagedPipeline` |
| Execution engine, lifecycle and state managers, `packages/runtime/src/{engine,lifecycle,state}` | executions with lifecycle, outputs, events | `execute`, `begin`, `transition` | handlers and executors that throw, move executions, or execute something else before they return | only moves of the table; events tell the moves; one verdict | `ExecutionFlow`, `ExecutionLifecycle` |
| Runtime event dispatcher, domain event bus | handlers | `publish`, `subscribe` | synchronous delivery; a handler that throws ends it | an event is recorded before it is told | partly, in `PipelineCoordinator`, `ExecutionFlow`, `GoalExecution`, `Governance` |
| Memory engine and JSON file, `packages/memory` | a file; per engine a map, an index, an active session | `store`, `update`, `delete`, `retrieve`, `search`, opening | failed writes between map, file and index; crashes; one operation at a time | acknowledged writes stay, search misses nothing, the engine is never locked for good | `MemoryEngine` |
| Memory sessions | the session aggregate, the registry, a clock | begin, record, complete, fail | a failing provider at each await; an operation begun during another | the engine's own validators find nothing; the counters count | `MemorySession` |
| Memory repositories | records, versions, collections, relationships | create, append a version, move, delete, link | stale copies, overlapping callers, failing writes; validated against what the caller holds | no record ahead of its versions, versions in sequence | `MemoryRepositories` |
| LLM tool loop and chat window, `packages/llm`, `packages/cli/src/chat` | per session: history, boundaries; per turn: transcript, budget | `runToolLoop`, `executeLlmChatTurn`, `selectRecentTurns` | overlapping turns, budgets, failing tools, a window that is the live array | no result without its call, no call without its result | `ToolLoop` |
| LLM providers | attempts and delays of one completion; the wire format | `complete`, message conversion both ways | retries and server hints; two APIs that want their answers back verbatim | no request before its time, bounded waits; calls echoed in order | `LlmProviders`, `LlmMessages` |
| Context builder and retrieval, `packages/sdk/src/{context,retrieval}` | none | `build`, `searchContent` | several searches over a memory that changes meanwhile | no duplicate, nothing relevant missing, best records in order | `TurnContext` |
| Planning, workflow graph and compiler | immutable values | plan, sort, validate, compile | malformed graphs, repeated steps and branches | compiled exactly when it can be, in the order of its edges | `WorkflowPlanning` |
| Knowledge compiler, commands, SDK facade, deterministic turn | compilation context; plan executions remembered | `compile`, `run`, `plan`, `chat` | stages that fail, an engine busy with another turn | the answer says what happened | `GoalExecution` |
| Organizational memory and feedback, `packages/sdk/src/{org,feedback}` | policies with versions, rules, decisions, links, feedback | upserts, decisions, corrections | version then record with awaits between; writes that fail; one millisecond | history has each revision, nothing is lost, feedback is true | `OrgMemory` |
| Governance, `packages/sdk/src/governance` | actions, results, events | `authorize`, `execute` | policy, rule and decision read in three steps, the action stored later | no action without authority, verdicts match the records, order of closure | `Governance` over `OrgMemory` |
| Web session store: conversations | sessions and histories in memory; `conversation.json` | `getOrCreate`, turns, `persistSession`, `resetLlmClients` | turns overlap; settings change in a turn; restarts; swallowed failures | no answered exchange lost or recorded twice | `ChatSessionStore` |
| Chat page and workspace switch | messages, controls, requests under way | send, retry, correct, start over, switch | late, reordered, failed and lost answers | what is shown is stored; an undisturbed page is exact | `WebChat`, `WebWorkspaces` |
| Knowledge page and uploads | library, search, batches; documents, folders | choose, ask, upload, list, search | batches and listings overlap; extraction fails half-way | uploaded means whole; duplicates asked; library current | `WebKnowledge` |
| Document extraction and chunking | the loop's variables | `chunkText`, `chunkExcelWorkbook` | breaks, limits, rows and headers | no character or row lost or cited wrongly | `DocumentChunks` |
| LLM settings | a file over the environment; the client; pages | save, test, reset | stale tabs, masked keys, two decisions about the kept key | a key goes only where it was typed for | `WebSettings` |
| Activity log, activity and home pages | a bounded log, its file; pages | append, merge, read | torn and failed writes, the cut, results of governance, crossing readings | a reading is the newest events | `WebActivity` |
| Brands | directories and profiles; catalog, page, form | visit, create, list, switch | half-way creations, spellings of one slug, late listings | acknowledged brands stay, the user is where he chose | `WebBrands` |
| Runtime composition, views; stubs of the runtime; memory domain values; routing, shell, design system; core types; empty packages, scripts | none | | wiring, value objects, presentation | | not modelled |

Interactions: the web server and the CLI call the session store and the chat
turn; a turn calls the context builder and the tool loop; tools call
governance, organizational memory and the memory module; all of these store
through `MemoryEngine`. Governance publishes on the domain event bus; the
runtime publishes on its dispatcher, which records on the aggregate and
bridges three event types to the bus. The pages of the browser talk to the
server by requests whose answers they handle when they come.

## How the modules correspond to the code

An action is what runs between two awaits of one asynchronous call, or, where
there are none, between two places that call out. A variable marked "history"
records what a property needs to know and no code reads it.

### `PipelineCoordinator`, `StagedPipeline`

`executePipeline` is one loop over `pipeline.stage_ids`. `events` and `status`
are the aggregate's log and its latest `pipeline_status` record. A call of
`run()` or `resume()` is a member of `Calls` with a program counter, the stage
it awaits (`at`) and the `doneStageIds` it read (`done`). `Run` and `Resume`
are the code up to the first await or the return, `StageCompleted` and
`StageFailed` the code from the answer of `executeStage` on. They share
`Proceed(c, e, i, d, s)`: publish `e`, then from position `i` stop
(`StopLoop`), finish (`FinishLoop`), fail on an unregistered stage
(`FailUnregistered`) or launch the next one (`LaunchStage`). `RunAgain` and
`RunStopped` are the two early returns. `Pause` and `Cancel` are synchronous,
as is `Register`.

The dispatcher drops an event whose id is on the aggregate already; the id
contains the clock's millisecond. `recent` holds the events of the current
millisecond and `Tick` is the clock moving on, so that the model drops exactly
what the code may drop.

`StagedPipeline` is what the component promises to a caller who makes one call
at a time: stages run one by one, in order and each once, and the verdict is
given once. `Conveyor` instantiates it with the stages that have a result, the
stage awaited and the projected status; `ImplementsStagedPipeline` is the
refinement.

### `ExecutionFlow`, `ExecutionLifecycle`

`execute()` has no await but calls out all the time, to handlers of events, to
executors of artifacts and to the bus. `stack` is the JavaScript stack of the
`execute()` calls under way; the top one moves on (`Execute`, `Initialize`,
`Prepare`, `Run`, `PublishStarted`, `BridgeStarted`, `RunArtifact`, `Complete`,
`PublishVerdict`, `BridgeVerdict`, `CloseExecution`, `Archive`, `Finalize`), or whatever it
called throws (`CalleeThrows`: the promise of that `execute()` is rejected, and
a handler that had called it sees nothing thrown), executes something
(`Execute` again), creates an execution or moves one with the lifecycle manager
or the state manager (`CreateExecution`, `MoveLifecycle`, `MoveState`). The flow
reads the repository afresh at every step, so that what a callee did is kept
and may refuse the flow's next transition. `execute()` takes its ids from a
counter, `CreateExecution` any id, and `begin()` replaces an execution that has
it, under way or ended; the history variable `replaced` remembers these, whose
answers may then differ from what the repository holds.
`ExecutionLifecycle` is the abstract specification: an execution starts when it
is created, anew when it is created again, and moves along the table of
transitions. `LifecycleStage` maps an aggregate to its last stage;
`ImplementsLifecycle` is the refinement.

### `WorkflowPlanning`

`Plan` is the planning engine with its four strategies, `Submit` a definition
handed to the workflow compiler. `TakeNext` is one turn of the loop of
`topologicalSort` with its own in-degrees and queue, `Compile` the validator
and the compilation that follow. Names of nodes are sequences of their parts,
ordered as their strings are. Reference definitions (what a sound graph and a
sound plan are) are stated over paths and edges, without the sort.

### `GoalExecution`

The commands `compile`, `run`, `plan` and `chat`, the deterministic turn of
the web server and the two SDK calls. A job holds its phase, its compilation
context and what it ran; `Compiled` takes the context through the eight stages
with their preconditions and diagnostics; `Retrieve`, `Remember` and
`Remembered` are the awaits on the memory engine, which one call has at a time
(`held`). Exit codes are those of `exit-codes.ts`.

### `MemoryEngine`

A client is one `MemoryEngine` on the JSON file. `records` is the map of its
`JsonFileStorageProvider`, `index` the ids of its `InMemoryIndexProvider`, `op`
the operation of the active session, with how far it has come. `Begin...`
actions are `beginExecution` and the synchronous validation; `Persist` changes
the map and replaces the file, `PersistFails` changes the map only, as
`#records.set` comes before `#persistSync` in the code; `UpdateIndex` follows;
`Acknowledge` and `Answer` end the session. `Close` ends the process anywhere,
`Open` loads the file and rebuilds the index. A record is its revision.
`promised` and `doubt` record what the callers were told.

### `MemorySession`, `MemoryRepositories`, `TurnContext`

What stands on the engine. In `MemorySession` an operation is a list of
stretches between awaits, each with what it records in its session; `Answered`
and `ProviderFails` move on, `BeginRefused` is an operation begun during
another. The validators are translated beside it, and the main property is
that they accept what the engine does. In `MemoryRepositories` callers hold
copies (`held`) that they hand over again; an operation is validated against
those, then stores a version and then the record (`StoreVersion`,
`StoreRecord`), each of which may fail. `TurnContext` is
`AtlasContextBuilder.build`: a query for the goal and one for each long word
(`SearchNext`), the records resolved one by one (`ResolveNext`), merged,
ranked and cut, while `memory` changes. `lost` and `gone` record a search
that failed and a record that was deleted between the search and the reading.
Sorts and filters are those of `Lists`.

### `OrgMemory`, `Governance`

Nothing is overwritten in the memory below: readers resolve an entity to its
record of the highest revision, then the latest time, then the greatest random
id. `current[e]` is that record, `versions` the audited ones. An upsert reads
(`Upsert`), stores the replaced version (`StoreVersion`), then the entity
(`StoreEntity`); a correction applies the policy change, then stores the
feedback (`Correct`, `ApplyCorrection`, `StoreFeedback`); a decision is stored
and then linked. Each write may be refused or fail. `Governance` extends it: a
request reads policy, rule and decision (`Evaluate`, `ReadRule`,
`ReadDecision`), stores its action (`Act`) and its result (`Persist`),
publishes (`Publish`), and `OrgStep` is any step of `OrgMemory` in between.

### `ToolLoop`, `LlmProviders`, `LlmMessages`

`Select` is `executeLlmChatTurn` up to the context package: `selectRecentTurns`
returns a slice, or the session's own array when the history fits the window
(`shared`). `Start` is `runToolLoop` copying it and entering the loop. Then the
provider answers (`FinalAnswer`, `ToolsCalled`, `BudgetExceeded`) or fails
(`TurnFails`), and tools settle one after the other (`ToolSettles`), a failing
or unknown one too, since its error is its answer. A turn that ends is
recorded by `Record`, one that throws is not. A message is its role, the
number of tools it calls or the call it answers.

`LlmProviders` is the loop of attempts of one completion with its delays
(`Succeed`, `Refuse`, `Unreachable`, `Wake`, whose timer may be late).
`LlmMessages` keeps what the APIs answered (`given`) beside the messages that
Atlas keeps, and converts these for the next request; `AnswersAreEchoed`
compares the two.

### `ChatSessionStore`

One workspace. `file` is `conversation.json` (its field
`deterministicHistory`, which is what the page shows, is `shown`), `session[s]`
the session object made by request `s`, `current` the one in the map,
`deterministic` the map of deterministic exchanges, `bootstrapped` whether the
file was read. A request that calls the LLM is two actions, `Ask` and
`Answered` (or `AskFails`), and keeps the session object it was given, also
after `resetLlmClients` cleared the map. All other requests await microtasks
only and are one action: `Visit`, `Converse`, `ConverseFails`, `Correct`.
`Write` is `writePersistedConversation`: a failed write is swallowed and the
request answered all the same. `Restart` forgets everything but the file.

### The web client

Each page is a module with the part of the server it talks to. A request is a
record in a set (`chatCalls`, `pending`, `requests`, `asks`, `listings`) with
what its closure holds; the server serves it (`Serve...`, `Receive`, `Store`,
`Derive`, `Answer`, `ListBrands`, `CreateBrand`), the page handles its answer
(`Handle...`, `FileAnswered`, `Created`), or it fails or is lost before or
after the server did its part (`Fail...`, `Lose...`, `CreateBreaks`). Between the two the
user does what the controls allow. The `Restart...` actions and
`WebActivity`'s torn files are the server's. `WebWorkspaces` declares what the
pages share. `DocumentChunks` is the cutting of what was uploaded, one round
of a loop a step.

### Compositions

`Governance` composes with `OrgMemory` step by step, since each reads what the
other writes. `MCTurn`, `MCMemoryDomain` and `MCWebClient` put modules that
share no state side by side: `part` says which one moves in a behaviour, so
that the number of states is the sum of theirs, and nothing is lost, as no
property relates two of them. What the parts do to each other is in the module
itself: `GoalExecution` has an execution, a plan and an engine operation end
in every way `ExecutionFlow`, `WorkflowPlanning` and `MemoryEngine` let them.

## Runs

| Run, module | Checks | Shows |
|---|---|---|
| `PipelineOverlap`, `MCPipelineCoordinator` | `StagesInOrder`, `CompletedCoversAllStages`, `ProjectionFinal`, `CallsReturn` | two calls that overlap anyhow, two pauses or cancels, stages registered late |
| `PipelineSerial`, `MCPipelineCoordinator` | `ExecutedAtMostOnce`, `ImplementsStagedPipeline` | three calls one after the other |
| `MemoryOneClient`, `MCMemoryEngine` | `AcknowledgedStays`, `SearchMissesNothing`, `EngineUnlocks` | one client, failed writes and crashes; deadlock is checked |
| `MemoryDomain`, `MCMemoryDomain` | `SessionsAreTrue`, `VersionHistory`, `ContextIsGroundTruth` | every operation with every failure; two callers with stale copies; a memory that changes while a context is built |
| `ChatConversation`, `MCChatSessionStore` | `ConversationKept`, `NoExchangeTwice`, `LastTurnEndsHistory` | four requests, two saved settings, two failed writes or restarts |
| `Turn`, `MCTurn` | `RequestsAreWhole`, `AnswersAreEchoed`, `RetriesKeepTheTimes`, `PlanIsSound`, `EventsAreTrue`, `VerdictsAgree`, `ImplementsLifecycle`, `AnswersAreTrue` | the parts of a turn, with and without an LLM |
| `GovernedOrg`, `MCGovernance` | `AuditTrail`, `NothingReplacedIsLost`, `FeedbackTellsTruth`, `NoActionWithoutAuthority`, `VerdictMatchesRecords`, `ClosureOrder` | two calls that change the records while a discount is asked for, and a write fails |
| `WebClient`, `MCWebClient` | `ShownIsStored`, `UndisturbedPage`, `UploadedIsWhole`, `DuplicatesAsked`, `LibraryIsCurrent`, `StoredKeyIsKept`, `ReadingIsNewest`, `ActivityPagesSettle`, `AcknowledgedBrandsStay`, `CatalogSettles`, `ChunksKeepTheDocument` | the pages, with late, reordered, failed and lost answers |
| `PipelineStatesEvents`, `MCPipelineCoordinator` | violation of `StatesAgreeWithEvents` | cancel during the last stage |
| `PipelineRerun`, `MCPipelineCoordinator` | violation of `CompletedStagesNotRerun` | resume during the paused call |
| `ChatSettings`, `MCChatSessionStore` | violation of `RebuiltFromHistory` | settings deleted between two turns |
| `WebIsolation`, `MCWebClient` | violation of `OnlyOfActive` | a brand switched while an answer is on its way |

Several properties are conditional on something that the code does not
prevent, kept in a history variable and named in their comments: that calls on
one policy did not overlap (`overlapped`), that a user waited for each answer
(`disturbed`), that answers did not overtake each other or come to the wrong
place (`stale`, `crossed`, `misplaced`). Without the condition they do not hold;
with it they say how far the code can be relied on, and the states in which it
is true are most of those explored.

Deadlock is not checked where calls, requests and turns are finitely many, each
made once: the system stops when all have been made. `MemoryEngine` runs on for
ever and deadlock is checked.

### Bounds

- Pipeline: two stages have a first, a last and an order; two overlapping calls
  are needed for every race of the loop, and a third serial call for a run after
  a resume. Two pauses or cancels are a pause that is overtaken by a cancel.
- Memory engine: two records tell the written one from the others,
  `MaxRevision = 3` is an update of an update; `MaxFaults = 3` a failed write, a
  crash and another one while the engine recovers.
- Sessions: two sessions on one registry, two readings of the clock.
  Repositories: two callers, one record, one collection, two contents and three
  revisions are a stale copy two revisions behind; one write fails. Context: three records
  for a block of two (`ContextLimit`), a long and a short word, four changes
  before and during the build.
- Chat: four requests are two overlapping turns, one before and one after them;
  two saved settings go to the other mode and back; `MaxFaults = 2` a failed
  write followed by a restart.
- Tool loop: with `Window = 1` the third turn is the first one whose window is a
  slice; `MaxTurns = 2` provider calls and `MaxCalls = 2` tools reach a request
  after tools, and a turn that runs out of calls. A token limit of 1, with calls
  of 0 or 1 tokens, is exceeded by the second call.
- Providers: the code's own three attempts and limit of 8 seconds, with hints of
  1, 8 and 9, below, at and above it. Wire: two answers of up to two blocks, an
  id that repeats or is missing.
- Planning: all graphs on four nodes, malformed ones with a repeated, unknown
  or looping edge, node, dependency, entry or exit; goals of up to two steps or branches.
- Executions: two ids, so that one nests in the other, two artifacts, two
  interventions. Commands: two calls, two goals of a chat, workspace files with
  none, one, a blank or a repeated unit.
- Governed organization: two calls overlap; two policies, one rule, two
  decisions on two dates by two roles, numbers 1 and 2 for percentages and
  limits, one request, one failed write.
- Web client: two workspaces, two batches of one file, two folders, two tabs, two
  urls, two spellings; bounds on requests, faults and moves of the user of one
  to three each, which together reach an answer that comes after the user left,
  came back and asked again. `MaxKept = 2` and `MaxShown = 2` make the log
  overflow at the third event. Texts of up to nine characters with a limit of
  five hold two cuts; sheets of up to four rows and two columns have cells that are
  empty, short, or as wide as half the limit.

Names that differ by name only are permuted where a run checks invariants; the
one refinement checked under symmetry, `ImplementsLifecycle`, is a step
property without liveness whose formula treats all executions alike.

### Fairness

`PipelineOverlap` assumes that the handler of an awaited stage settles (weak
fairness of `StageCompleted` or `StageFailed`): a promise that is never settled
would leave the call pending, and nothing in the coordinator bounds the wait.
Nothing is assumed of who calls, pauses or cancels. `MemoryOneClient` assumes
that the promises of the consistency, storage and index providers settle, which
the shipped ones do at once. The other runs check safety and assume nothing;
where the web client would wait for ever, a safety property says that it waits
only for something that is on its way.

## Proofs

All theorems hold for every value of the constants that satisfies the
assumptions declared beside them. Most of these say that a bound is a natural
number. Of the others, `DoublingAssumption` (a power of two is a natural number) is
arithmetic that the provers do not know; `NoneAssumption`, `UnsetAssumption`,
`RecordAssumption`, `RepositoryNone`, `NoneIsNoWorkspace`, `SettingsNone`,
`NothingIsNoGraph` and `NobodyAssumption` say that the value standing for
"nothing there" is none of the values that can be there; `EntitiesAssumption`
and `DiscountsAssumption` that an id names one thing; `BatchesNumbered` that
batches are numbered, in the order they are chosen. Where the inputs are a
constant, an assumption says what kind of values they are: `GoalLists`,
`GivenAreGraphs` (lists of nodes with finitely many edges, which may be
malformed in every way), `GoalsAreGoals`, `MatricesOfWidths`, and
`TextsAreTrimmed` and `NothingEmpty`, which hold of what reaches the cutting
since `chunkText` trims and the extractors throw when there is nothing. TLC
evaluates all of them in its runs. A component that has no specification of its
own, since it is one part of a run, has it in the proof module (`BrandsSpec`,
`GoalSpec`, `ContextSpec` and the like).

- `PipelineCoordinator_proofs`: `TypeCorrect`, `OrderedStages`,
  `CompletionIsComplete`, `OneStart`, for any number of stages and calls,
  overlapping or not. The inductive invariant `IInv` adds `LoopsKnowTheLog` (a
  loop awaits a stage, all earlier stages are in its `done`, and `done` is
  contained in what the log says) and `RecentIsLogged` (what the dispatcher
  drops is in the log). Without the first, a loop might finish on a `done` that
  is ahead of the log. The action properties `TerminalProjectionStays` and
  `PausedPipelinesLaunchNothing` follow from the same invariant: the log only
  grows, so its first terminal event stays the first.
  With `~Overlap`, also `AtMostOneExecution` and `Refinement`. `SerialInv` says
  that one loop runs at most, that its `done` is exactly what the log says, and
  that a stage launched has a result or is running. Every step of the
  coordinator is then a step of `StagedPipeline` or leaves its variables alone.
- `MemoryEngine_proofs`: `MemoryTypes` and `NothingIsMissed` for any number of
  clients; `WhatIsAcknowledgedStays` assumes one client of the file. `MemInv`
  says how far the write of the active session has come in the map and in the
  index; `FileInv` that file, map and promises agree but for records in doubt or
  in flight. Both are needed because the writes of map, file and index are three
  steps.
- `Turn_proofs`, one part for each part of a turn:
  - executions: `FlowImplementsLifecycle`, the refinement for any executions and
    any depth of nesting. `FlowInv` says that an execution under way is in the
    repository: without it a save of the flow might create one without the
    lifecycle's first step. Each save is then a creation, also of one that is
    there, one move of the table or no move. `EventsStayTrue` is about the
    events queued or told: their moves are in the trail of their execution,
    which only grows. `VerdictsStayUnanimous` needs `CallsInv`: one call at most
    is under way for an execution, and `Came` says what has been recorded and
    heard of it when its call has come to a place.
  - tool loop: `RequestsStayWhole` and `TypesAreKept`, for any number of
    overlapping turns, any window and any budget. That the history is whole is
    not enough, since a window is only its end; `HistoryFits` says that the end of
    the history is whole from every turn on. `Calling` says of a transcript in
    which tools are running which calls have their result; `CallingGoesOn` is
    the lemma that the next result is the next one missing. The lemmas on joined
    sequences carry wholeness from the window, the user's message and the
    transcript to the request.
  - providers: `RetriesInTime`, for both providers, any hints and any number of
    attempts. `WaitInv` says how long the attempts so far have slept and what a
    sleep under way is for.
  - wire: `AnswersStayEchoed`, for any number of answers, blocks and calls.
    `Layout` says where each answer stands among the messages, right after
    what followed the one before it; the positions an API finds its answers at
    are then these (`SentAnswers`), and `AnthropicEchoes` is the lemma that
    splitting what was kept of one answer gives back its calls.
  - commands and turns without an LLM: `AnswersStayTrue`, for any calls, lists of units
    and knowledge objects. The eight stages of the compiler are taken one by one
    (`Progress`) to what they make of a context together; `GoalInv` says of
    each call that only what compiled whole is run and remembered, once.
  - planning: `PlansAreSound`, for any goals and any graphs, malformed ones too.
    `Kahn` is the invariant of the sort: what is listed, what waits in the
    queue and what the in-degrees count. The searches of the validator find the
    smallest set that the edges do not lead out of (`Smallest`), which is
    what can be reached; what a strategy lays (`LaidOut`) has no circle and lies
    all between entry and exit. `SortInv` puts these together.
- `ChatSessionStore_proofs`: `ConversationSurvives`, `NothingTwice`,
  `LastTurnIsLast`, for any number of requests, saved settings, failed writes
  and restarts. `HistoriesAreOld` keeps the exchanges of a request that has not
  been answered out of every history. `ConversationIsThere` says in which of
  the file, the session in use and the map of deterministic exchanges the
  conversation is: what was answered (`promised`) and what had been when the
  file was last written (`written`) are in different ones, according to the mode
  and to whether the file was read.
- `MemoryDomain_proofs`: `VersionsStayInSequence` about the repositories,
  for any number of callers, records and failed writes. `PointsBack` says that
  the version an operation is about to point to is there; `Gapless`, as long as
  nobody strayed and nothing failed, that one operation works on a record at a
  time and all revisions before are stored. `SessionsStayTrue` about the engine's
  sessions: `Running`, `Midway` and `Finished` say what the counters and the
  lifecycle of a session are during its operation, between two of its
  stretches and after it; the validators are then lemmas about sequences in order.
  `ContextStaysTrue` about the context of a turn, for any number of records,
  words, limits and changes of the memory meanwhile. A search is described for any
  memory first (`HitFinds`), so that what one found can be compared with
  what the memory has become. `ContextInv` says what has been found so far:
  nothing before the search for the goal (`NotBegun`, `NotAsked`); after it
  (`Asked`), unless something was lost on the way, all that is relevant and was left alone
  (`Complete`), and in the order of the search for the goal if nothing changed (`Orderly`).
- `Governance_proofs`: `HistoryIsComplete`, `NothingLostInTurn`,
  `FeedbackIsTrue` about the organizational memory, `ActionsHaveAuthority`,
  `VerdictIsRight`, `ClosureInOrder` about governed actions, for any numbers of
  calls, requests, policies and decisions. `OrgInv` relates what a call has
  read to what is stored: every revision before the one it found is told, the
  one it found as well once it is past its version, and, as long as calls on a policy did
  not overlap, what it found is current. `GovInv` adds, for each stage of a
  request, what it has read and what authority that gives.
- `WebClient_proofs`, one part for each page:
  - brands: `BrandsStay`. `BrandInv` ties an acknowledged brand to the slug of its
    name, so that a directory which is there keeps every other spelling out.
    `CatalogStaysSettled`. `ListingFits` says that a listing on its way to the page is
    for the workspace it marks, unless one of the two is no brand and the page
    will ask again; until there is a catalog all is about one workspace.
  - settings: `KeysStay`. `SettingsInv`: a configuration, stored or asked for,
    holds only the key that was typed for its own endpoint.
  - chat: `PageShowsStored`, from `ChatInv` (what an answer under way tells is
    stored already). `PageUndisturbed`, from `CalmInv`: one call at a time, and
    it fits what the page shows and what the server stores.
  - knowledge: `UploadsAreWhole` and `DuplicatesStayAsked`, from `KnowledgeInv`,
    which says of each batch what it has found and stored so far, and of one that
    was chosen alone and neither asked nor failed to list that no earlier
    document in its folder has the name of a file still to come (`Unseen`).
    `LibraryStaysCurrent`, from `LibraryInv`: at most
    one listing and one search are awaited, for the active workspace and the
    chosen folder, and what is shown or answered is current, unless a batch
    made it stale (`Stale`), which will then ask again.
  - activity: `ReadingsAreNewest`, for any number of events, failures and
    restarts and any limits. `NothingElseIsLost` says that an event which is
    missing from a workspace's log has as many newer ones as the log holds, or is
    among those that a restart lost since they were in no whole file; a reading merges
    and cuts lists that are in order. `PagesSettle`: what the pages wait for
    is on its way (`HomeFits`, `ActivityFits`).
  - documents: `ChunksKeepDocuments`, for texts and sheets of any size, and any
    limits. `TextInv`: all letters before the next one are in the pieces, which are
    apart (`Pieced`, `Apart`), and a word they tear is a long one (`ShortWord`).
    `SheetInv`: the rows that are open follow those that are cited (`Loop`,
    `Citing`, `NextCited`).
- `ListLemmas`: what the proofs above need of lists. `Lists` defines a sort
  (`Arranged`) and a filter (`Picked`) by the places of the elements, without
  recursion. The induction they need is had without a theorem that takes an
  operator: the finite subsets of a set are well-founded under inclusion, so that a
  nonempty set of numbers has a smallest one, and a set of numbers with 0
  and with the next of each of them is all of them. From this come the values of
  recursive functions, `ArrangedInOrder` (a finite set in a strict order is
  listed whole, each once and in order) and what `Picked` keeps.

Only model-checked is liveness, whose proof needs `ENABLED`: `CallsReturn` and
`EngineUnlocks`. The properties that `Pipeline...`, `ChatSettings` and
`WebIsolation` show violated are not theorems, of course; every invariant that a
passing run checks is one, and so are the two refinements and the action property.

## Disagreements and facts met

Shown by runs:

1. `PipelineStatesEvents`: a cancel or a pause during the last stage is
   overwritten by `completed` in the diagnostics and in the result, while the
   projection says `cancelled`. The runtime specification, section 5, asks for
   consistency between states and events.
2. `PipelineRerun`: `resume()` during a call that still awaits a stage runs that
   stage, and later ones, twice; the test of pause and resume waits in between.
3. `ChatSettings`: saving or deleting the LLM settings between turns loses sight
   of answered exchanges, since the file shows one of two histories. The comment
   of `resetLlmClients` promises conversations rebuilt from their history.
4. `WebIsolation`: a chat answer that arrives after the user switched to another
   brand is appended to the page of that brand, which says its information is
   not mixed. What is stored is not mixed, and reloading shows the right page.

Met while modelling, in the modules but without a run of their own:

- A delete whose disk write fails leaves an index entry without a record, which
  `ATLAS-MEMORY-006-INDEXING.md`, line 123, rules out. Searches are correct.
- A token budget can end a turn between tool calls and their results, and the
  next requests hold calls without results, against the comment of
  `selectRecentTurns` (`chat-session.ts`, line 45). The default budget has no
  token limit; for it the theorem `RequestsStayWhole` says it never happens.
- An execution moved by the state manager has moves that no event tells; the
  events there are tell moves that were made.
- `createExecution` with the id of an execution under way replaces it: its flow
  then fails at its next transition. Nothing refuses the id.
- The headers repeated in each chunk of a sheet may be wider than the limit that
  `constants.ts` states for a chunk; what is beyond is cut from the snippet.
- The first row of a sheet counts as the headers also when it has fewer than two
  filled cells and none are taken from it: its cell is in no chunk
  (`extract-excel.ts`, line 160).
- A batch that ends while a search is shown and the page was left throws before
  `uploadInProgress` is reset (`knowledge.ts`, line 1434).
- Two readings of the activity page may cross, and the later answer wins.
- The home page drops an answer by the active workspace only (`home.ts`, line
  277), not by the one it shows: asked for brand A, left for B, whose home is
  opened and left again, a late answer for A that arrives once the user is back
  in A elsewhere is filed under B, and B's home shows it until its own answer
  comes. `WEB_UI_PRODUCT_UX.md`, line 472, promises that brands are not mixed.
  `misplaced` records it, and `ActivityPagesSettle` says what holds otherwise.
- A failed search counts as nothing found, in the context of a turn.
- Two upserts of a policy in one millisecond both succeed, and readers see one.

## What is not modelled

- Two clients of one memory file overwrite each other's records; the model has
  them, no property does, as nothing promises otherwise.
- A torn `conversation.json` (it is written in place): the model writes whole.
  Torn activity files and brand profiles are modelled.
- Subscribing and unsubscribing during a delivery, and the filters and history
  of the buses.
- The words of goals and their normalization, scores of candidate plans, and the text,
  rendering and wording of prompts, answers and pages.
- The parsing of PDF, Word and Excel files, which libraries do.
- The resolvers and traversals of organizational memory, query filters and
  diagnostics, which only read; factories and validators of immutable values.
- The commands `doctor`, `version`, `ask`, `memory` and `brand`, which print
  or make one call that is modelled elsewhere.
- Server routing, markup, translations, the bundled design system: presentation.
  Runtime composition and views: wiring. Stubs and empty packages: no behaviour.

## Plan

Done, in this order: the pipeline, the memory engine, the conversations and
the tool loop; governance over organizational memory; the execution engine;
planning, compilation and commands; sessions, repositories and context; the
web client; and the proofs above, of every invariant the runs check. Left, most
useful first:

1. A torn `conversation.json` as a fault of `ChatSessionStore`, with what it
   then promises.
2. Handlers that subscribe and unsubscribe during a delivery, in a module of the
   dispatcher.
3. Liveness of the web client: every page settles when answers come.
