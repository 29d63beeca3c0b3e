----------------------------- MODULE GoalExecution -----------------------------
(***************************************************************************)
(* What a command without an LLM does: `atlas compile`, `run`, `plan` and  *)
(* the goals of `atlas chat` (packages/cli), a deterministic turn of the   *)
(* web server, and the same two calls made of the SDK ("api.compile",      *)
(* "api.plan").  A workspace, or a planned workflow, becomes compilation   *)
(* units; the compiler takes them through its eight stages; the artifacts  *)
(* are executed; a planned goal is remembered.                             *)
(*                                                                         *)
(* The calls of one server share one memory engine, which takes one        *)
(* operation at a time.  An action is the code between two awaits.         *)
(*                                                                         *)
(* Abstracted: planning and the workflow (WorkflowPlanning), the execution *)
(* (ExecutionFlow) and the engine (MemoryEngine) are their verdicts,       *)
(* chosen freely; a unit is its id and the kind its metadata gives it, its *)
(* source and checksum are left out; a diagnostic is its severity.  The    *)
(* lines of a chat that change nothing (an empty one, a correction without *)
(* an LLM) and the id of the memory session a turn reports are left out.   *)
(***************************************************************************)
EXTENDS Naturals, Sequences, FiniteSets

CONSTANTS
  Calls,      \* commands, or requests to one server
  Nothing,
  UnitLists,  \* what a workspace file may list: sequences of [id, kind]
  Objects,    \* sequences of knowledge objects: [id, kind, life]
  MaxGoals    \* bound on the goals of a chat

ListedIn(lists) == UNION {{s[i] : i \in DOMAIN s} : s \in lists}

UnitIds == {u.id : u \in ListedIn(UnitLists) \cup ListedIn(Objects)} \cup {"workflow"}
UnitKinds ==
  {u.kind : u \in ListedIn(UnitLists) \cup ListedIn(Objects)} \cup {"KnowledgeNode", "WorkflowPipeline"}

ASSUME GoalLists ==
  UnitLists \subseteq Seq(ListedIn(UnitLists)) /\ Objects \subseteq Seq(ListedIn(Objects)) /\ MaxGoals \in Nat
ASSUME NothingIsNoGraph == Nothing \notin Seq([unit : UnitIds, kind : UnitKinds])

VARIABLES
  command,    \* command[c]: what the call is
  options,    \* the options of the client
  job,        \* job[c]: how far it has come
  held,       \* the call whose operation the memory engine has, or Nothing
  memory,     \* the plan executions remembered
  announced   \* the CompilerCompleted events published

goalVars == <<command, options, job, held, memory, announced>>

\* The commands that plan a goal, and those that are one call of a process.
FromGoal == {"plan", "chat", "web", "api.plan"}
Alone == {"compile", "run", "plan", "chat", "api.compile", "api.plan"}

\* The client of AtlasService: one generator, no publisher, nobody listening.
SummaryOptions == [generate |-> "one", publish |-> "none", listen |-> "none", stopOnError |-> TRUE]
Options ==
  [generate : {"none", "one", "throws"}, publish : {"none", "warning", "error", "throws"},
   listen : {"none", "throws"}, stopOnError : BOOLEAN]

-----------------------------------------------------------------------------
(* The compiler.                                                           *)

CompilerStages == <<"discovery", "ingestion", "lowering", "resolution",
            "graph_construction", "validation", "generation", "publishing">>

NewContext(units) ==
  [units |-> units, diagnostics |-> <<>>, hir |-> <<>>, mir |-> Nothing, artifacts |-> 0,
   lifecycle |-> "initialize", stage |-> Nothing]

Blocking(x) == \E i \in DOMAIN x.diagnostics : x.diagnostics[i] = "error"

\* readUnitKind: of the first unit with that id; no kind and an empty one
\* become KnowledgeNode, one of blanks ("blank") does not.
UnitKind(units, id) ==
  LET given == units[CHOOSE i \in DOMAIN units :
                       units[i].id = id /\ \A j \in 1..(i - 1) : units[j].id # id].kind
  IN  IF given = "missing" THEN "KnowledgeNode" ELSE given

Nodes(units) == [i \in DOMAIN units |-> [unit |-> units[i].id, kind |-> UnitKind(units, units[i].id)]]

\* validatePreconditions of the stages that have it.
Preconditions(s, x) ==
  CASE s = "ingestion" /\ x.units = <<>> -> <<"warning">>
    [] s = "resolution" /\ x.hir = <<>> -> <<"error">>
    [] s = "validation" /\ x.mir = Nothing -> <<"error">>
    [] OTHER -> <<>>

BlankNodes(nodes) == {i \in DOMAIN nodes : nodes[i].kind = "blank"}

\* transform of each stage; a generator or a publisher may throw.
Transformed(s, x) ==
  CASE s = "lowering" -> [x EXCEPT !.hir = Nodes(x.units)]
    [] s = "graph_construction" -> [x EXCEPT !.mir = x.hir]
    [] s = "validation" /\ x.mir # Nothing ->
         [x EXCEPT !.diagnostics = @ \o [i \in 1 .. Cardinality(BlankNodes(x.mir)) |-> "error"]]
    [] s = "generation" /\ x.mir # Nothing /\ options.generate = "one" -> [x EXCEPT !.artifacts = @ + 1]
    [] s = "publishing" /\ options.publish \in {"warning", "error"} ->
         [x EXCEPT !.diagnostics = Append(@, options.publish)]
    [] OTHER -> x

StageThrows(s, x) ==
  \/ s = "generation" /\ x.mir # Nothing /\ options.generate = "throws"
  \/ s = "publishing" /\ options.publish = "throws"

StageLifecycle ==
  [discovery |-> "discover", ingestion |-> "create_units", lowering |-> "lower",
   resolution |-> "resolve", graph_construction |-> "resolve", validation |-> "validate",
   generation |-> "generate", publishing |-> "publish"]

\* defineCompilerStage: execute
ExecuteStage(s, x) ==
  LET warned == [x EXCEPT !.diagnostics = @ \o Preconditions(s, x)]
  IN  IF StageThrows(s, warned)
      THEN [warned EXCEPT !.lifecycle = "threw"]
      ELSE [Transformed(s, warned) EXCEPT !.lifecycle = StageLifecycle[s], !.stage = s]

Halts(x) == x.lifecycle = "threw" \/ (options.stopOnError /\ Blocking(x))

\* DefaultCompilerPipeline.run
Compiled(units) ==
  LET after[k \in 0..Len(CompilerStages)] ==
        IF k = 0 THEN NewContext(units)
        ELSE IF Halts(after[k - 1]) THEN after[k - 1]
        ELSE ExecuteStage(CompilerStages[k], after[k - 1])
      last == after[Len(CompilerStages)]
  IN  IF last.lifecycle = "threw" THEN last
      ELSE IF Halts(last) THEN [last EXCEPT !.lifecycle = "cancelled"]
      ELSE [last EXCEPT !.lifecycle = "complete", !.stage = Nothing]

\* Mutant: a run that came to its end is a success.
Successful_AtTheEnd(x) == x.lifecycle = "complete"

Successful(x) == x.lifecycle = "complete" /\ ~Blocking(x)

-----------------------------------------------------------------------------
(* Answers.  0 is a command that succeeded, or a promise that resolved;    *)
(* the others are the exit codes of the CLI.  A request to the server and  *)
(* a call of the SDK are rejected, which is 1.                             *)

ExitCode(c, what) ==
  LET from == IF command[c] = "chat" THEN 2 ELSE 1
  IN  IF command[c] \in {"web", "api.plan", "api.compile"} THEN 1
      ELSE CASE what \in {"Planning failed", "Workflow compilation failed"} -> 3
             [] what = "Compilation failed" -> 5
             [] what = "Execution failed" -> 6
             [] OTHER -> from

Answer(k, code) == [k EXCEPT !.phase = "answered", !.code = code]
Fails(c, k, what) == job' = [job EXCEPT ![c] = Answer(k, ExitCode(c, what))]
Succeeds(c, k) == job' = [job EXCEPT ![c] = Answer(k, 0)]
Goes(c, k, phase) == job' = [job EXCEPT ![c] = [k EXCEPT !.phase = phase]]

NewCall(goals) ==
  [phase |-> "given", context |-> Nothing, ran |-> Nothing, code |-> Nothing, goals |-> goals]

GoalInit ==
  /\ \/ command = [c \in Calls |-> "web"]
     \/ \E c \in Calls, x \in Alone : command = [d \in Calls |-> IF d = c THEN x ELSE "none"]
  /\ options \in Options
  /\ (\E c \in Calls : command[c] \in {"compile", "run", "plan", "chat", "web"}) => options = SummaryOptions
  /\ job = [c \in Calls |-> NewCall(1)]
  /\ held = Nothing /\ memory = <<>> /\ announced = <<>>

\* AtlasCompiler.compile, up to the await of its caller.  A handler of the
\* event that throws rejects the compilation after it was announced.
CompileUnits(c, units) ==
  LET x == Compiled(units)
      k == [job[c] EXCEPT !.context = x]
  IN  IF x.lifecycle = "threw"
      THEN Fails(c, k, "threw") /\ UNCHANGED announced
      ELSE /\ announced' = Append(announced, [by |-> c, goal |-> k.goals, success |-> Successful(x)])
           /\ IF options.listen = "throws" THEN Fails(c, k, "threw") ELSE Goes(c, k, "compiled")

Refused(c, code) ==
  /\ job' = [job EXCEPT ![c] = Answer(@, code)]
  /\ UNCHANGED <<command, options, held, memory, announced>>

NeedsWorkspace(c) == job[c].phase = "given" /\ command[c] \in {"compile", "run", "plan"}

\* WorkspaceLoader.load: there is no such file, or it is not JSON.
Workspace_Missing(c) == NeedsWorkspace(c) /\ Refused(c, 4)

\* parseWorkspaceConfig
Workspace_Invalid(c) == NeedsWorkspace(c) /\ Refused(c, 3)

\* compile and run, given a workspace.
Compile_Workspace(c) ==
  /\ job[c].phase = "given" /\ command[c] \in {"compile", "run"}
  /\ \E units \in UnitLists : CompileUnits(c, units)
  /\ UNCHANGED <<command, options, held, memory>>

Projectable(object) == object.life \in {"Operational", "Observed"}
Projected(objects) == [i \in DOMAIN objects |-> [id |-> objects[i].id, kind |-> objects[i].kind]]

\* CompilerModule.compile: projectAll throws unless all can be projected.
Compile_Knowledge(c) ==
  /\ job[c].phase = "given" /\ command[c] = "api.compile"
  /\ \E objects \in Objects, units \in UnitLists :
       IF \A i \in DOMAIN objects : Projectable(objects[i])
       THEN CompileUnits(c, Projected(objects) \o units)
       ELSE Fails(c, job[c], "threw") /\ UNCHANGED announced
  /\ UNCHANGED <<command, options, held, memory>>

\* plan with a blank goal.
Goal_Blank(c) == job[c].phase = "given" /\ command[c] = "plan" /\ Refused(c, 2)

\* The engine throws when it has an operation under way.
EngineCall(c, phase) ==
  IF held = Nothing THEN held' = c /\ Goes(c, job[c], phase)
  ELSE Fails(c, job[c], "threw") /\ UNCHANGED held

\* planExecuteAndRemember up to its first await: retrieveForGoal
Retrieve(c) ==
  /\ job[c].phase = "given" /\ command[c] \in FromGoal
  /\ EngineCall(c, "retrieving")
  /\ UNCHANGED <<command, options, memory, announced>>

\* WorkflowProjectionAdapter.projectToUnits, of a workflow that compiled.
PlannedUnits == <<[id |-> "workflow", kind |-> "WorkflowPipeline"]>>

\* The retrieval answered; one that failed counts as one that found nothing.
\* Planning, the workflow's compilation and its unit follow without an await.
Plan_Goal(c) ==
  /\ job[c].phase = "retrieving"
  /\ held' = Nothing
  /\ \/ \E what \in {"threw", "Planning failed", "Workflow compilation failed"} :
          Fails(c, job[c], what) /\ UNCHANGED announced
     \/ CompileUnits(c, PlannedUnits)
  /\ UNCHANGED <<command, options, memory>>

\* The compilation resolved.
Run_Artifacts(c) ==
  /\ job[c].phase = "compiled"
  /\ LET k == job[c]
     IN  \/ command[c] \in {"compile", "api.compile"}
            /\ IF command[c] = "compile" /\ ~Successful(k.context)
               THEN Fails(c, k, "Compilation failed") ELSE Succeeds(c, k)
         \/ command[c] \in FromGoal \cup {"run"}
            /\ IF ~Successful(k.context) THEN Fails(c, k, "Compilation failed")
               ELSE \/ \E ok \in BOOLEAN : Goes(c, [k EXCEPT !.ran = ok], "executed")
                    \/ Fails(c, [k EXCEPT !.ran = FALSE], "threw")
  /\ UNCHANGED <<command, options, held, memory, announced>>

\* The execution resolved: storePlanExecution up to its await.
Remember(c) ==
  /\ job[c].phase = "executed"
  /\ \/ ~job[c].ran /\ Fails(c, job[c], "Execution failed") /\ UNCHANGED held
     \/ job[c].ran /\ command[c] = "run" /\ Succeeds(c, job[c]) /\ UNCHANGED held
     \/ job[c].ran /\ command[c] # "run" /\ EngineCall(c, "storing")
  /\ UNCHANGED <<command, options, memory, announced>>

\* The store answered.  One that fails may leave the record in the map of
\* the provider, which is changed before the file is written.
Remembered(c) ==
  /\ job[c].phase = "storing"
  /\ held' = Nothing
  /\ LET record == [by |-> c, goal |-> job[c].goals, artifacts |-> job[c].context.artifacts]
     IN  \/ memory' = Append(memory, record) /\ Succeeds(c, job[c])
         \/ memory' \in {memory, Append(memory, record)} /\ Fails(c, job[c], "threw")
  /\ UNCHANGED <<command, options, announced>>

\* runChatRepl goes on with the next goal after an answer, not after an error.
Next_Goal(c) ==
  /\ job[c].phase = "answered" /\ job[c].code = 0 /\ command[c] = "chat"
  /\ job[c].goals < MaxGoals
  /\ job' = [job EXCEPT ![c] = NewCall(@.goals + 1)]
  /\ UNCHANGED <<command, options, held, memory, announced>>

GoalNext ==
  \E c \in Calls :
    \/ Workspace_Missing(c) \/ Workspace_Invalid(c) \/ Goal_Blank(c)
    \/ Compile_Workspace(c) \/ Compile_Knowledge(c)
    \/ Retrieve(c) \/ Plan_Goal(c) \/ Run_Artifacts(c) \/ Remember(c) \/ Remembered(c) \/ Next_Goal(c)

-----------------------------------------------------------------------------
\* Every unit is one node of the graph, in order, and nothing is wrong.
Whole(x) ==
  /\ x.mir # Nothing /\ [i \in DOMAIN x.mir |-> x.mir[i].unit] = [i \in DOMAIN x.units |-> x.units[i].id]
  /\ \A i \in DOMAIN x.mir : x.mir[i].kind # "blank"
  /\ ~Blocking(x)
  /\ options.generate = "one" => x.artifacts = 1

RecordsOf(c) == {i \in DOMAIN memory : memory[i].by = c /\ memory[i].goal = job[c].goals}
AnnouncedBy(c) == {i \in DOMAIN announced : announced[i].by = c /\ announced[i].goal = job[c].goals}

(* The answer of a command says what happened.  Only what compiled whole is *)
(* executed; only what executed is remembered, with the number of its       *)
(* artifacts, and once, however the turns of a server overlap and fail; an  *)
(* answer without an error means that all of it was done; and an exit code  *)
(* names the step that failed: 5 when nothing was executed, 6 when it was   *)
(* and is not remembered, 3 and 4 when nothing was compiled.  A compilation *)
(* is announced once, with the verdict its caller gets.                     *)
AnswersAreTrue ==
  \A c \in Calls : LET k == job[c] IN
    /\ k.ran # Nothing => Whole(k.context)
    /\ RecordsOf(c) # {} => k.ran = TRUE /\ \A i \in RecordsOf(c) : memory[i].artifacts = k.context.artifacts
    /\ Cardinality(RecordsOf(c)) \leq 1 /\ Cardinality(AnnouncedBy(c)) \leq 1
    /\ \A i \in AnnouncedBy(c) : announced[i].success => Whole(k.context)
    /\ k.phase = "answered" =>
         /\ k.code = 0 /\ command[c] \in FromGoal => RecordsOf(c) # {}
         /\ k.code = 0 /\ command[c] # "api.compile" => Whole(k.context)
         /\ k.code = 5 => k.ran = Nothing /\ Blocking(k.context)
         /\ k.code = 6 => k.ran = FALSE
         /\ k.code \in {3, 4} => k.context = Nothing
=============================================================================
