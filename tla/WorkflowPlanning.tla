--------------------------- MODULE WorkflowPlanning ---------------------------
(***************************************************************************)
(* From a goal to the list of stages a pipeline runs.  A planning strategy *)
(* (packages/intelligence/src/planning-strategies.ts) builds a workflow    *)
(* graph; the workflow compiler (packages/workflow/src) sorts the graph,   *)
(* validates it and keeps what lies between its entry and its exit.  The   *)
(* sort is modelled one turn of its loop at a time.                        *)
(*                                                                         *)
(* A node name is the sequence of the parts of its string ("step.<name>",  *)
(* "branch.<i>.step.<j>.<name>"), every part a number, so that the         *)
(* alphabetical order the sort uses is the lexicographic one.              *)
(***************************************************************************)
EXTENDS Integers, Lists

CONSTANTS
    Given,      \* definitions callers hand to the compiler directly
    Goals,      \* the goals the planning engine is asked to plan
    None

\* A node is its name, its kind ("stage" for all but two), the stage it runs
\* and the nodes it depends on; names and steps are numbers.
WorkflowNodes ==
    [id : Seq(Nat), type : {"entry", "exit", "stage"}, stage : Nat \cup {None}, dependencies : SUBSET Seq(Nat)]
ASSUME GivenAreGraphs == \A d \in Given : d.nodes \in Seq(WorkflowNodes) /\ IsFiniteSet(d.edges)

Strategies == {"sequential", "conditional", "branch", "composite", "unknown"}
StepLists == Seq(Nat)
PlanningGoals ==
    [strategy : Strategies, steps : StepLists, appended : StepLists, conditions : StepLists, fallback : Nat,
     branches : Seq(StepLists) \cup {None}, branched : Seq(StepLists),
     compose : Seq([strategy : Strategies, steps : StepLists]) \cup {None}]
ASSUME GoalsAreGoals == Goals \subseteq PlanningGoals

VARIABLES
    request,    \* the goal being planned; None for a definition given directly
    definition, \* the workflow being compiled
    phase,      \* "planning", "sorting", "compiled", "threw" or "refused"
    inDegree, queue, sorted,    \* the locals of topologicalSort
    result      \* what compile returns

planningVars == <<request, definition, phase, inDegree, queue, sorted, result>>

Names(s) == {s[i] : i \in DOMAIN s}
NoRepeats(s) == \A i, j \in DOMAIN s : s[i] = s[j] => i = j
Joined(ss) ==
    LET upTo[k \in 0..Len(ss)] == IF k = 0 THEN <<>> ELSE upTo[k - 1] \o ss[k]
    IN  upTo[Len(ss)]
Mapped(Op(_), s) == [i \in DOMAIN s |-> Op(s[i])]

-----------------------------------------------------------------------------
(* The names of nodes and their order as strings.                          *)

Entry == <<2>>
Exit == <<3>>
Step(s) == <<4, 0, s>>
RuleStep(s) == <<4, 1, s>>
BranchStep(i, j, s) == <<0, 0, i, j, s>>
RuleBranchStep(i, j, s) == <<0, 1, i, j, s>>
Composed(id) == <<1>> \o id

Before(a, b) ==
    \/ \E k \in DOMAIN a \cap DOMAIN b : a[k] < b[k] /\ \A j \in 1..(k - 1) : a[j] = b[j]
    \/ Len(a) < Len(b) /\ \A j \in DOMAIN a : a[j] = b[j]
IsFirst(n, S) == n \in S /\ \A m \in S \ {n} : Before(n, m)

-----------------------------------------------------------------------------
(* The strategies.  Each of them lays lanes of steps between entry and     *)
(* exit: a lane is a sequence of [id, stage].                              *)

Lane(steps, Id(_, _)) == [j \in DOMAIN steps |-> [id |-> Id(j, steps[j]), stage |-> steps[j]]]

\* Every append_step rule adds its step unless the goal already has it.
Extended(steps, rules) ==
    LET upTo[k \in 0..Len(rules)] ==
            IF k = 0 THEN steps
            ELSE IF rules[k] \in Names(upTo[k - 1]) THEN upTo[k - 1]
                 ELSE Append(upTo[k - 1], rules[k])
    IN  upTo[Len(rules)]

Sequential(goal) ==
    << Lane(Extended(goal.steps, goal.appended), LAMBDA j, s : Step(s)) >>

\* Rule steps already added by an earlier rule are skipped; without a
\* condition the fallback step is the whole plan.
Conditional(goal) ==
    IF goal.conditions = <<>>
    THEN << Lane(<<goal.fallback>>, LAMBDA j, s : Step(s)) >>
    ELSE [i \in DOMAIN goal.conditions |-> Lane(<<goal.conditions[i]>>, LAMBDA j, s : Step(s))]
           \o LET ruled == Extended(<<>>, goal.appended)
              IN  [i \in DOMAIN ruled |-> Lane(<<ruled[i]>>, LAMBDA j, s : RuleStep(s))]

\* A branch without steps is an edge from entry to exit; a rule's branch
\* without steps adds nothing.  Every rule counts as branch number Len(branches).
Branches(goal) ==
    LET lanes == IF goal.branches = None THEN Mapped(LAMBDA s : <<s>>, goal.steps) ELSE goal.branches
        ruled == Picked(goal.branched, {r \in DOMAIN goal.branched : goal.branched[r] # <<>>})
    IN  [i \in DOMAIN lanes |-> Lane(lanes[i], LAMBDA j, s : BranchStep(i, j, s))]
          \o [r \in DOMAIN ruled |-> Lane(ruled[r], LAMBDA j, s : RuleBranchStep(Len(lanes), j, s))]

Simple(goal) ==
    CASE goal.strategy = "conditional" -> Conditional(goal)
      [] goal.strategy = "branch" -> Branches(goal)
      [] OTHER -> Sequential(goal)

\* WorkflowBuilder.addNode throws on a name it has; so does addEdge, whose
\* names repeat only with the nodes'.
BuilderThrows(lanes) == ~NoRepeats(Mapped(LAMBDA n : n.id, Joined(lanes)))

\* Every segment is planned by its strategy (the first one when it is not
\* known) and the stages of all segments are strung on one lane.
Segments(goal) ==
    IF goal.compose = None
    THEN Mapped(LAMBDA s : [goal EXCEPT !.strategy = s], <<"sequential", "conditional", "branch">>)
    ELSE Mapped(LAMBDA c : [goal EXCEPT !.strategy = c.strategy, !.steps = c.steps], goal.compose)
Composite(goal) ==
    << Mapped(LAMBDA n : [n EXCEPT !.id = Composed(n.id)],
              Joined(Mapped(LAMBDA g : Joined(Simple(g)), Segments(goal)))) >>

Lanes(goal) == IF goal.strategy = "composite" THEN Composite(goal) ELSE Simple(goal)
PlanThrows(goal) ==
    \/ BuilderThrows(Lanes(goal))
    \/ goal.strategy = "composite" /\ \E g \in Names(Segments(goal)) : BuilderThrows(Simple(g))

\* The node a strategy links node j of a lane from: its previousId.
Previous(lane, j) == IF j = 1 THEN Entry ELSE lane[j - 1].id

Edge(from, to) == [id |-> <<from, to>>, from |-> from, to |-> to]
LaneEdges(lane) ==
    {Edge(Previous(lane, j), lane[j].id) : j \in DOMAIN lane}
      \cup {Edge(Previous(lane, Len(lane) + 1), Exit)}
LaneNodes(lane) ==
    [j \in DOMAIN lane |-> [id |-> lane[j].id, type |-> "stage", stage |-> lane[j].stage,
                            dependencies |-> {Previous(lane, j)}]]
Terminal(id, type) == [id |-> id, type |-> type, stage |-> None, dependencies |-> {}]

Workflow(lanes) ==
    [nodes |-> <<Terminal(Entry, "entry"), Terminal(Exit, "exit")>>
                  \o Joined(Mapped(LaneNodes, lanes)),
     edges |-> UNION {LaneEdges(lanes[i]) : i \in DOMAIN lanes},
     entry |-> Entry, exit |-> Exit]

-----------------------------------------------------------------------------
(* The graph of a definition.  Edges are a set of [id, from, to].          *)

Ids(d) == {d.nodes[i].id : i \in DOMAIN d.nodes}
NodeOf(d, id) == d.nodes[CHOOSE i \in DOMAIN d.nodes : d.nodes[i].id = id]
EdgesInto(d, n) == {e \in d.edges : e.to = n /\ e.from \in Ids(d)}
InDegrees(d) == [n \in Ids(d) |-> Cardinality(EdgesInto(d, n))]

\* The breadth-first searches: everything found from start by following
\* next, the adjacency map, which has no entry for a name no node has.
Found(start, next, d) ==
    LET within[k \in 0..Len(d.nodes)] ==
            IF k = 0 THEN {start}
            ELSE within[k - 1] \cup UNION {next[n] : n \in within[k - 1] \cap DOMAIN next}
    IN  within[Len(d.nodes)]
Targets(d) == [n \in Ids(d) |-> {e.to : e \in {x \in d.edges : x.from = n}}]
Sources(d) == [n \in Ids(d) |-> {e.from : e \in {x \in d.edges : x.to = n}}]
Forward(d) == Found(d.entry, Targets(d), d)
Backward(d) == Found(d.exit, Sources(d), d)
IsOnExecutionPath(d, n) == n \in Forward(d) /\ n \in Backward(d)

\* WorkflowValidator.validate, given the order the sort produced.
NamesAreSound(d) ==
    /\ NoRepeats(Mapped(LAMBDA n : n.id, d.nodes))
    /\ \A i \in DOMAIN d.nodes : d.nodes[i].dependencies \subseteq Ids(d)
    /\ {d.entry, d.exit} \subseteq Ids(d)
    /\ \A e, f \in d.edges : e.id = f.id => e = f
    /\ \A e \in d.edges : {e.from, e.to} \subseteq Ids(d)
HasCycle(d, order) == Len(order) # Cardinality(Ids(d))
AllReached(d) == Ids(d) \subseteq Forward(d)
IsValid(d, order) == NamesAreSound(d) /\ ~HasCycle(d, order) /\ AllReached(d)

Failure == [success |-> FALSE, ordered |-> <<>>, stages |-> <<>>]
CompiledPlan(d, order) ==
    LET ordered == Picked(order, {i \in DOMAIN order : IsOnExecutionPath(d, order[i])})
        stageNodes == Picked(ordered, {i \in DOMAIN ordered : NodeOf(d, ordered[i]).type \notin {"entry", "exit"}})
    IN  [success |-> TRUE, ordered |-> ordered,
         stages |-> Mapped(LAMBDA n : NodeOf(d, n).stage, stageNodes)]

-----------------------------------------------------------------------------
Sorting(d) ==
    /\ phase' = "sorting"
    /\ definition' = d
    /\ inDegree' = InDegrees(d)
    /\ queue' = {n \in Ids(d) : InDegrees(d)[n] = 0}
    /\ sorted' = <<>>

NothingSorted == definition = None /\ inDegree = <<>> /\ queue = {} /\ sorted = <<>> /\ result = Failure

PlanningInit == request \in Goals \cup {None} /\ phase = "planning" /\ NothingSorted

\* A caller of compile.
Submit ==
    /\ phase = "planning" /\ request = None
    /\ \E d \in Given : Sorting(d)
    /\ UNCHANGED <<request, result>>

\* PlanningEngine.plan: an unknown strategy is refused, a strategy that
\* throws is not caught, and the workflow it returns is compiled to check it.
Plan ==
    /\ phase = "planning" /\ request # None
    /\ \/ /\ request.strategy = "unknown"
          /\ phase' = "refused"
          /\ UNCHANGED <<definition, inDegree, queue, sorted>>
       \/ /\ request.strategy # "unknown" /\ PlanThrows(request)
          /\ phase' = "threw"
          /\ UNCHANGED <<definition, inDegree, queue, sorted>>
       \/ /\ request.strategy # "unknown" /\ ~PlanThrows(request)
          /\ Sorting(Workflow(Lanes(request)))
    /\ UNCHANGED <<request, result>>

Released(d, n, m) == {e \in EdgesInto(d, m) : e.from = n}
\* mutant: a target joins as soon as one of its predecessors is taken
Freed_Early(before, after) == {m \in DOMAIN after : after[m] # before[m]}
\* The nodes that join the queue: their last predecessor has been taken.
Freed(before, after) == {m \in DOMAIN after : after[m] = 0 /\ after[m] # before[m]}

\* One turn of the loop: the first node of the sorted queue is taken.
TakeNext ==
    /\ phase = "sorting"
    /\ \E n \in queue :
          /\ IsFirst(n, queue)
          /\ sorted' = Append(sorted, n)
          /\ inDegree' = [m \in DOMAIN inDegree |->
                            inDegree[m] - Cardinality(Released(definition, n, m))]
          /\ queue' = (queue \ {n}) \cup Freed(inDegree, inDegree')
    /\ UNCHANGED <<request, definition, phase, result>>

Compile ==
    /\ phase = "sorting" /\ queue = {}
    /\ phase' = "compiled"
    /\ result' = IF IsValid(definition, sorted) THEN CompiledPlan(definition, sorted) ELSE Failure
    /\ UNCHANGED <<request, definition, inDegree, queue, sorted>>

PlanningNext == Submit \/ Plan \/ TakeNext \/ Compile
PlanningSpec == PlanningInit /\ [][PlanningNext]_planningVars

-----------------------------------------------------------------------------
(* Properties.                                                             *)

Position(n, s) == CHOOSE i \in DOMAIN s : s[i] = n

\* References for the searches and the sort: what every set closed under
\* the edges contains, and a set in which every node waits for another.
Closed(d, S, backwards) ==
    \A e \in d.edges : IF backwards THEN e.to \in S => e.from \in S ELSE e.from \in S => e.to \in S
Between(d, n) ==
    \A S \in SUBSET Ids(d) : /\ d.entry \in S /\ Closed(d, S, FALSE) => n \in S
                             /\ d.exit \in S /\ Closed(d, S, TRUE) => n \in S
Circular(d, S) == S # {} /\ \A n \in S : \E e \in EdgesInto(d, n) : e.from \in S

\* compile succeeds exactly on a definition whose names are sound, that no
\* set of nodes waits on in a circle and whose nodes the entry all reaches;
\* its plan then lists the nodes between entry and exit, each once, the entry
\* first, the exit last and the source of every edge before its target
\* (workflow-graph.ts topologicalSort, workflow-compiler.ts isOnExecutionPath).
CompiledPlanIsSound ==
    phase = "compiled" =>
      LET d == definition
          plan == result.ordered
      IN  /\ result.success <=>
               /\ NamesAreSound(d)
               /\ \A S \in SUBSET Ids(d) : ~Circular(d, S)
               /\ \A S \in SUBSET Ids(d) : d.entry \in S /\ Closed(d, S, FALSE) => S = Ids(d)
          /\ result.success =>
               /\ NoRepeats(plan) /\ Names(plan) = {n \in Ids(d) : Between(d, n)}
               /\ plan # <<>> => plan[1] = d.entry /\ plan[Len(plan)] = d.exit
               /\ \A e \in d.edges : {e.from, e.to} \subseteq Names(plan) =>
                     Position(e.from, plan) < Position(e.to, plan)

\* A workflow a strategy returns compiles, unless the goal names no branch,
\* and its plan runs every step the strategy laid, a lane's steps in the
\* order of the lane (planning-strategies.ts, the previousId of each loop).
PlannedStepsKeepTheirOrder ==
    phase = "compiled" /\ request # None =>
      LET lanes == Lanes(request)
      IN  /\ result.success <=> lanes # <<>>
          /\ result.success =>
               /\ Len(result.stages) = Len(Joined(lanes))
               /\ \A i \in DOMAIN lanes : \A j, k \in DOMAIN lanes[i] :
                     j < k => Position(lanes[i][j].id, result.ordered)
                                < Position(lanes[i][k].id, result.ordered)

\* A goal or a definition is compiled to a plan exactly when it can be, and
\* the plan keeps the order of its edges and of the steps of the goal.
PlanIsSound == CompiledPlanIsSound /\ PlannedStepsKeepTheirOrder
=============================================================================
