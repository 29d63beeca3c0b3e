----------------------------- MODULE MCTurn -----------------------------
(* What a turn consists of, side by side.  With an LLM: the loop that calls  *)
(* it and the tools, one completion of a provider, the messages on the wire. *)
(* Without: the goal is planned and its workflow compiled to stages, and the *)
(* runtime executes, the whole of it within a command.  They share no state  *)
(* of these modules, so that one behaviour moves one of them.                *)
EXTENDS ToolLoop, LlmProviders, LlmMessages, WorkflowPlanning, ExecutionFlow,
        GoalExecution, TLC

CONSTANTS e1, e2, c1, c2

VARIABLE part

\* Names "step.1" and "step.2" besides entry and exit; every set of edges
\* between the four nodes that leaves neither the exit for the entry nor a
\* node for itself, with and without a second edge between two of them, a
\* loop, a repeated node, an edge to an unknown node, an unknown dependency.
StageNode(s, deps) ==
    [id |-> Step(s), type |-> "stage", stage |-> s, dependencies |-> deps]
Usual == <<StageNode(2, {}), Terminal(Exit, "exit"), StageNode(1, {}), Terminal(Entry, "entry")>>
Pairs == {p \in Ids([nodes |-> Usual]) \X Ids([nodes |-> Usual]) : p[1] # p[2] /\ p # <<Exit, Entry>>}
Arrows(P) == {Edge(p[1], p[2]) : p \in P}
Graph(nodes, edges, entry, exit) ==
    [nodes |-> nodes, edges |-> edges, entry |-> entry, exit |-> exit]
Straight == Arrows({<<Entry, Step(1)>>, <<Step(1), Step(2)>>, <<Step(2), Exit>>})
Double == [Edge(Step(1), Step(2)) EXCEPT !.id = <<Step(1), Step(2), <<1>>>>]

MCGiven ==
    {Graph(Usual, Arrows(P), Entry, Exit) : P \in SUBSET Pairs}
      \cup {Graph(Usual, Straight \cup X, Entry, Exit) :
              X \in {{Double}, {Edge(Step(1), Step(1))}, {Edge(Step(1), Step(3))},
                     {[Edge(Entry, Step(2)) EXCEPT !.id = <<Entry, Step(1)>>]}}}
      \cup {Graph(Append(Usual, n), Straight, Entry, Exit) :
              n \in {StageNode(1, {}), StageNode(3, {}), StageNode(3, {Step(4)})}}
      \cup {Graph(Usual, Straight, a, b) : a, b \in {Entry, Exit, Step(1), Step(4)}}

Short == {<<>>, <<1>>, <<2>>, <<2, 1>>, <<1, 1>>}
MCGoals ==
    [strategy : {"sequential", "unknown"}, steps : Short, appended : Short, conditions : {<<>>},
     fallback : {3}, branches : {None}, branched : {<<>>}, compose : {None}]
      \cup [strategy : {"conditional"}, steps : {<<>>}, appended : Short, conditions : Short,
            fallback : {3}, branches : {None}, branched : {<<>>}, compose : {None}]
      \cup [strategy : {"branch"}, steps : {<<>>, <<2, 1>>}, appended : {<<>>}, conditions : {<<>>},
            fallback : {3}, branches : {None, <<>>} \cup {<<b, c>> : b, c \in Short},
            branched : {<<>>, << <<2, 1>> >>, << <<1>>, <<2>> >>, << <<1>>, <<>>, <<1>> >>}, compose : {None}]
      \cup [strategy : {"composite"}, steps : Short, appended : {<<>>, <<1>>}, conditions : {<<>>, <<2, 1>>},
            fallback : {3}, branches : {None}, branched : {<<>>},
            compose : {None} \cup {<<[strategy |-> s, steps |-> a], [strategy |-> t, steps |-> b]>> :
                          s, t \in {"sequential", "branch", "unknown"}, a, b \in {<<1>>, <<2, 1>>}}]

Unit(i, k) == [id |-> i, kind |-> k]
\* An empty workspace, a unit without kind, one of a blank kind, one id twice.
MCUnitLists ==
    {<<>>, <<Unit("u", "missing")>>, <<Unit("v", "Rule"), Unit("u", "blank")>>,
     <<Unit("u", "Rule"), Unit("u", "blank")>>}
MCObjects ==
    {<<>>} \cup {<<[id |-> "o", kind |-> "Rule", life |-> l]>> : l \in {"Draft", "Operational"}}

\* What differs at the start differs in the part that moves.
TurnInit ==
    /\ part \in {"loop", "provider", "wire", "plan", "execute", "command"}
    /\ part # "loop" => limit = NoLimit
    /\ part # "wire" => api = "anthropic"
    /\ part # "plan" => request = None
    /\ part # "command" =>
         command = [c \in Calls |-> "web"] /\ options = SummaryOptions
    /\ Init /\ ProvidersInit /\ WireInit /\ PlanningInit /\ ExecutionInit /\ GoalInit
    /\ part # "provider" => completion.provider = "anthropic"

Loop_Step == part = "loop" /\ Next
    /\ UNCHANGED <<part, providerVars, wireVars, planningVars, executionVars, goalVars>>
Provider_Step == part = "provider" /\ ProvidersNext
    /\ UNCHANGED <<part, vars, wireVars, planningVars, executionVars, goalVars>>
Wire_Step == part = "wire" /\ WireNext
    /\ UNCHANGED <<part, vars, providerVars, planningVars, executionVars, goalVars>>
Plan_Step == part = "plan" /\ PlanningNext
    /\ UNCHANGED <<part, vars, providerVars, wireVars, executionVars, goalVars>>
Execute_Step == part = "execute" /\ ExecutionNext
    /\ UNCHANGED <<part, vars, providerVars, wireVars, planningVars, goalVars>>
Command_Step == part = "command" /\ GoalNext
    /\ UNCHANGED <<part, vars, providerVars, wireVars, planningVars, executionVars>>

TurnNext == Loop_Step \/ Provider_Step \/ Wire_Step \/ Plan_Step \/ Execute_Step
    \/ Command_Step
turnVars == <<vars, providerVars, wireVars, planningVars, executionVars, goalVars>>
TurnSpec == TurnInit /\ [][TurnNext]_<<part, turnVars>>

Same == Permutations(Turns) \cup Permutations(Executions)
=============================================================================
