---------------------------- MODULE Turn_proofs ----------------------------
(***************************************************************************)
(* Proofs about what a turn is made of: the execution of a workflow        *)
(* (ExecutionFlow), the calls of the LLM (ToolLoop, LlmProviders) and the  *)
(* messages they cross the wire as (LlmMessages), the goals and commands   *)
(* without one (GoalExecution) and the plan of a goal (WorkflowPlanning).  *)
(***************************************************************************)
EXTENDS ExecutionFlow, ToolLoop, LlmProviders, LlmMessages, GoalExecution, WorkflowPlanning, ListLemmas,
        SequenceTheorems

(***************************************************************************)
(* ExecutionFlow, for any number of executions, artifacts and              *)
(* interventions, however the calls of handlers nest: the stage of an      *)
(* execution follows ExecutionLifecycle, its events tell the moves that it *)
(* made, and when its call is answered every account of its verdict is the *)
(* same.                                                                   *)
(***************************************************************************)
Frames ==
  [id : Executions,
   at : {"created", "initialized", "prepared", "running", "started", "entering", "executing",
         "completing", "judged", "told", "completed", "archived"},
   left : Nat, outputs : Seq(BOOLEAN)]

(* What the repository may hold.                                           *)
Truthful == {x \in Aggregates : TellsItsMoves(x)}

(* An execution under way is in the repository: what the flow saves is the *)
(* next version of it, and never a first one.                              *)
FlowInv ==
  /\ execution \in [Executions -> Truthful \cup {Unset}]
  /\ stack \in Seq(Frames)
  /\ \A i \in DOMAIN stack : execution[stack[i].id] # Unset

LEMMA TruthfulFacts == \A x \in Truthful : x \in Aggregates /\ x # Unset
  BY UnsetAssumption DEF Truthful

(* A version that has the events of the one before, or one more, which is  *)
(* not of a move or is of the move that was made.                          *)
LEMMA NextVersion ==
  ASSUME NEW x \in Truthful, NEW y \in Aggregates, NEW to \in Stages,
         y.history \in {x.history, Append(x.history, to)},
         \/ y.events = x.events
         \/ \E v \in Events : /\ y.events = Append(x.events, v)
                              /\ v.type = "state_changed" => /\ y.history = Append(x.history, to)
                                                            /\ v = StateChanged(x, to)
  PROVE  y \in Truthful
<1>1. PICK h, k, n : h = x.history /\ k = x.events /\ n = Len(h)
  OBVIOUS
<1>2. h \in Seq(Stages) \ {<<>>} /\ k \in Seq(Events) /\ n \in Nat \ {0} /\ Len(k) \in Nat
  BY <1>1, TruthfulFacts, EmptySeq, LenProperties DEF Aggregates
<1>3. \A i \in 1 .. Len(k) : k[i].type = "state_changed" =>
        /\ k[i].n \in 1 .. n - 1 /\ k[i].from = h[k[i].n] /\ k[i].to = h[k[i].n + 1]
        /\ \A j \in 1 .. i - 1 : k[j].type = "state_changed" => k[j].n < k[i].n
  BY <1>1, <1>2 DEF Truthful, TellsItsMoves
<1>4. PICK g : g = y.history
  OBVIOUS
<1>5. /\ Len(g) \in {n, n + 1}
      /\ \A i \in 1 .. n : g[i] = h[i]
      /\ g = Append(h, to) => Len(g) = n + 1 /\ g[n + 1] = to
  <2>1. g = h \/ g = Append(h, to)
    BY <1>1, <1>4
  <2>2. Len(Append(h, to)) = n + 1 /\ Append(h, to)[n + 1] = to /\ \A i \in 1 .. n : Append(h, to)[i] = h[i]
    BY <1>1, <1>2, AppendProperties
  <2>3. n + 1 # n
    BY <1>2
  <2> QED BY <1>1, <2>1, <2>2, <2>3
<1>6. \A i \in 1 .. Len(k) : k[i].type = "state_changed" =>
        /\ k[i].n \in 1 .. Len(g) - 1 /\ k[i].from = g[k[i].n] /\ k[i].to = g[k[i].n + 1]
        /\ k[i].n < n
        /\ \A j \in 1 .. i - 1 : k[j].type = "state_changed" => k[j].n < k[i].n
  <2>1. SUFFICES ASSUME NEW i \in 1 .. Len(k), k[i].type = "state_changed"
                 PROVE  /\ k[i].n \in 1 .. Len(g) - 1 /\ k[i].from = g[k[i].n] /\ k[i].to = g[k[i].n + 1]
                        /\ k[i].n < n
    BY <1>3
  <2>2. PICK p : p = k[i].n
    OBVIOUS
  <2>3. p \in 1 .. n - 1 /\ k[i].from = h[p] /\ k[i].to = h[p + 1]
    BY <1>3, <2>1, <2>2
  <2>4. p \in 1 .. n /\ p + 1 \in 1 .. n /\ p < n /\ p \in 1 .. Len(g) - 1
    BY <1>2, <1>5, <2>3
  <2> QED BY <1>5, <2>2, <2>3, <2>4
<1>7. CASE y.events = x.events
  <2>1. y.events = k /\ DOMAIN k = 1 .. Len(k)
    BY <1>1, <1>2, <1>7
  <2> QED BY <1>4, <1>6, <2>1 DEF Truthful, TellsItsMoves
<1>8. ASSUME NEW v \in Events, y.events = Append(x.events, v),
             v.type = "state_changed" => y.history = Append(x.history, to) /\ v = StateChanged(x, to)
      PROVE  y \in Truthful
  <2>1. PICK m : m = y.events
    OBVIOUS
  <2>2. /\ m \in Seq(Events) /\ DOMAIN m = 1 .. Len(k) + 1
        /\ \A i \in 1 .. Len(k) : m[i] = k[i]
        /\ m[Len(k) + 1] = v
    BY <1>1, <1>2, <1>8, <2>1, AppendProperties
  <2>3. v.type = "state_changed" => v.n = n /\ v.from = h[n] /\ v.to = to /\ g = Append(h, to)
    BY <1>1, <1>4, <1>8 DEF StateChanged, Event, Last
  <2>4. ASSUME NEW i \in DOMAIN m, m[i].type = "state_changed"
        PROVE  /\ m[i].n \in 1 .. Len(g) - 1 /\ m[i].from = g[m[i].n] /\ m[i].to = g[m[i].n + 1]
               /\ \A j \in 1 .. i - 1 : m[j].type = "state_changed" => m[j].n < m[i].n
    <3>1. CASE i \in 1 .. Len(k)
      <4>1. \A j \in 1 .. i - 1 : j \in 1 .. Len(k)
        BY <1>2, <3>1
      <4> QED BY <1>6, <2>2, <2>4, <3>1, <4>1
    <3>2. CASE i = Len(k) + 1
      <4>1. m[i] = v /\ v.n = n /\ v.from = h[n] /\ v.to = to /\ g = Append(h, to)
        BY <2>2, <2>3, <2>4, <3>2
      <4>2. \A j \in 1 .. i - 1 : m[j] = k[j] /\ j \in 1 .. Len(k)
        BY <1>2, <2>2, <3>2
      <4> QED BY <1>2, <1>5, <1>6, <4>1, <4>2
    <3> QED BY <1>2, <2>2, <2>4, <3>1, <3>2
  <2> QED BY <1>4, <2>1, <2>4 DEF Truthful, TellsItsMoves
<1> QED BY <1>7, <1>8

LEMMA SameEvents ==
  ASSUME NEW x \in Truthful, NEW y \in Aggregates, y.history = x.history, y.events = x.events
  PROVE  y \in Truthful
BY NextVersion DEF Stages

(* Save of a first version, of one with the same history, of a longer one. *)
LEMMA CreateSteps ==
  ASSUME FlowInv, NEW e \in Executions, Save(e, NewExecution)
  PROVE  /\ execution' \in [Executions -> Truthful \cup {Unset}]
         /\ execution'[e] # Unset
         /\ \A d \in Executions : execution[d] # Unset => execution'[d] # Unset
         /\ Lifecycle!Next
<1>1. NewExecution \in Truthful /\ NewExecution.history = <<"created">>
  BY DEF NewExecution, Truthful, TellsItsMoves, Aggregates, Stages
<1>2. NewExecution # Unset
  BY <1>1, TruthfulFacts
<1>3. /\ execution' = [execution EXCEPT ![e] = NewExecution]
      /\ execution' \in [Executions -> Truthful \cup {Unset}]
  BY <1>1 DEF Save, FlowInv
<1>4. Last(NewExecution.history) = "created"
  BY <1>1 DEF Last
<1>5. Lifecycle!Create(e)
  <2>1. LifecycleStage' = [LifecycleStage EXCEPT ![e] = "created"]
    BY <1>2, <1>3, <1>4 DEF LifecycleStage, FlowInv
  <2> QED BY <2>1 DEF Lifecycle!Create
<1> QED BY <1>2, <1>3, <1>5 DEF Lifecycle!Next, FlowInv

LEMMA SaveSteps ==
  ASSUME FlowInv, NEW e \in Executions, execution[e] # Unset, NEW x \in Truthful,
         x.history = execution[e].history, Save(e, x)
  PROVE  /\ execution' \in [Executions -> Truthful \cup {Unset}]
         /\ \A d \in Executions : execution[d] # Unset => execution'[d] # Unset
         /\ UNCHANGED LifecycleStage
<1>1. x # Unset
  BY TruthfulFacts
<1>2. execution' = [execution EXCEPT ![e] = x]
  BY DEF Save
<1> QED BY <1>1, <1>2 DEF FlowInv, LifecycleStage

LEMMA RecordFacts ==
  ASSUME NEW x \in Aggregates, NEW v \in Events
  PROVE  /\ RecordEvent(x, v) \in Aggregates
         /\ RecordEvent(x, v).events \in {x.events, Append(x.events, v)}
         /\ (\A i \in DOMAIN x.events : x.events[i].type # v.type) => RecordEvent(x, v).events = Append(x.events, v)
         /\ RecordEvent(x, v).history = x.history /\ RecordEvent(x, v).outputs = x.outputs
<1>1. x.events \in Seq(Events) /\ Append(x.events, v) \in Seq(Events)
  BY DEF Aggregates
<1> QED BY <1>1 DEF RecordEvent, Aggregates

LEMMA TransitionFacts ==
  ASSUME NEW x \in Truthful, NEW to \in Stages, NEW ok \in BOOLEAN \cup {Unset}, NEW told \in BOOLEAN
  PROVE  /\ Transition(x, to, ok, told) \in Truthful
         /\ Transition(x, to, ok, told).history = Append(x.history, to)
         /\ Transition(x, to, ok, told).events \in {x.events, Append(x.events, StateChanged(x, to))}
         /\ Transition(x, to, ok, told).outputs = x.outputs
<1> DEFINE success == IF ok = Unset THEN x.success ELSE ok
           moved == [x EXCEPT !.history = Append(@, to), !.success = success, !.status = Status(to, success)]
<1>1. x \in Aggregates
  BY TruthfulFacts
<1>2. success \in BOOLEAN \cup {Unset}
  BY <1>1 DEF Aggregates
<1>3. Status(to, success) \in {"pending", "active", "completed", "failed"}
  BY DEF Status, Verdict
<1> HIDE DEF success
<1>4. x.history \in Seq(Stages) /\ Append(x.history, to) \in Seq(Stages) \ {<<>>}
  BY <1>1 DEF Aggregates
<1>5. /\ moved \in Aggregates /\ moved.history = Append(x.history, to)
      /\ moved.events = x.events /\ moved.outputs = x.outputs
  BY <1>1, <1>2, <1>3, <1>4 DEF Aggregates
<1>6. StateChanged(x, to) \in Events
  <2>1. Last(x.history) \in Stages /\ Len(x.history) \in Nat
    BY <1>1, <1>4 DEF Last, Aggregates
  <2> QED BY <2>1 DEF StateChanged, Event, Events
<1> HIDE DEF moved
<1>7. PICK y : y = Transition(x, to, ok, told)
  OBVIOUS
<1>8. y \in {moved, RecordEvent(moved, StateChanged(x, to))}
  BY <1>7 DEF Transition, moved, success
<1>9. /\ y \in Aggregates /\ y.history = Append(x.history, to) /\ y.outputs = x.outputs
      /\ y.events \in {x.events, Append(x.events, StateChanged(x, to))}
  BY <1>5, <1>6, <1>8, RecordFacts
<1>10. y \in Truthful
  BY <1>6, <1>9, NextVersion
<1> QED BY <1>7, <1>9, <1>10

LEMMA MoveSteps ==
  ASSUME FlowInv, NEW e \in Executions, execution[e] # Unset, NEW to \in Stages,
         NEW x \in Truthful, x.history = execution[e].history, MayMove(x, to),
         NEW ok \in BOOLEAN \cup {Unset}, NEW told \in BOOLEAN, Save(e, Transition(x, to, ok, told))
  PROVE  /\ execution' \in [Executions -> Truthful \cup {Unset}]
         /\ \A d \in Executions : execution[d] # Unset => execution'[d] # Unset
         /\ Lifecycle!Next
<1>1. PICK y : y = Transition(x, to, ok, told)
  OBVIOUS
<1>2. y \in Truthful /\ y \in Aggregates /\ y.history = Append(x.history, to) /\ y # Unset
  BY <1>1, TransitionFacts, TruthfulFacts
<1>3. execution' = [execution EXCEPT ![e] = y]
  BY <1>1 DEF Save
<1>4. Last(y.history) = to
  BY <1>2 DEF Last, Aggregates
<1>5. PICK from : from = LifecycleStage[e]
  OBVIOUS
<1>6. from = Last(x.history) /\ from \in Stages
  BY <1>5, TruthfulFacts DEF LifecycleStage, Last, Aggregates
<1>7. Lifecycle!Move(e, from, to)
  <2>1. LifecycleStage' = [LifecycleStage EXCEPT ![e] = to]
    BY <1>2, <1>3, <1>4 DEF LifecycleStage, FlowInv
  <2> QED BY <1>5, <2>1 DEF Lifecycle!Move
<1>8. to \in ValidTransitions[from]
  BY <1>6 DEF MayMove
<1>9. Lifecycle!Prepare(e) \/ Lifecycle!Run(e) \/ Lifecycle!Interrupt(e) \/ Lifecycle!Close(e)
  BY <1>6, <1>7, <1>8 DEF ValidTransitions, Stages, Lifecycle!Prepare, Lifecycle!Run, Lifecycle!Interrupt, Lifecycle!Close
<1> QED BY <1>2, <1>3, <1>9 DEF Lifecycle!Next, FlowInv
-----------------------------------------------------------------------------
LEMMA TopFacts ==
  ASSUME FlowInv, stack # <<>>
  PROVE  /\ Top \in Frames /\ Top.id \in Executions
         /\ execution[Top.id] \in Truthful /\ execution[Top.id] \in Aggregates /\ execution[Top.id] # Unset
<1>1. stack[1] \in Frames /\ 1 \in DOMAIN stack
  BY DEF FlowInv
<1>2. Top \in Frames /\ execution[Top.id] # Unset
  BY <1>1 DEF Top, FlowInv
<1>3. Top.id \in Executions
  BY <1>2 DEF Frames
<1> QED BY <1>2, <1>3, TruthfulFacts DEF FlowInv

(* A frame pushed on the stack.                                            *)
LEMMA Pushed ==
  ASSUME NEW S, NEW f \in S, NEW s \in Seq(S), NEW t, t = <<f>> \o s
  PROVE  /\ t \in Seq(S)
         /\ DOMAIN t = 1 .. Len(s) + 1
         /\ t[1] = f
         /\ \A i \in DOMAIN t : i # 1 => i - 1 \in 1 .. Len(s) /\ t[i] = s[i - 1]
<1>1. <<f>> \in Seq(S) /\ Len(<<f>>) = 1 /\ <<f>>[1] = f /\ Len(s) \in Nat
  OBVIOUS
<1>2. /\ t \in Seq(S) /\ Len(t) = 1 + Len(s)
      /\ \A i \in 1 .. 1 + Len(s) : t[i] = IF i <= 1 THEN <<f>>[i] ELSE s[i - 1]
  BY <1>1, ConcatProperties
<1>3. DOMAIN t = 1 .. Len(s) + 1 /\ t[1] = f
  BY <1>1, <1>2
<1> QED BY <1>1, <1>2, <1>3

(* The executions under way stay in the repository.                        *)
LEMMA StackFacts ==
  ASSUME FlowInv, execution' \in [Executions -> Truthful \cup {Unset}],
         \A d \in Executions : execution[d] # Unset => execution'[d] # Unset,
         \/ stack' = stack
         \/ stack # <<>> /\ stack' = Tail(stack)
         \/ \E f \in Frames : stack # <<>> /\ f.id = Top.id /\ stack' = <<f>> \o Tail(stack)
         \/ \E f \in Frames : execution'[f.id] # Unset /\ stack' = <<f>> \o stack
  PROVE  FlowInv'
<1>1. stack \in Seq(Frames) /\ DOMAIN stack = 1 .. Len(stack) /\ Len(stack) \in Nat
  BY DEF FlowInv
<1>2. \A i \in DOMAIN stack : execution'[stack[i].id] # Unset
  <2>1. \A i \in DOMAIN stack : stack[i] \in Frames
    BY <1>1
  <2>2. \A f \in Frames : f.id \in Executions
    BY DEF Frames
  <2> QED BY <2>1, <2>2 DEF FlowInv
<1>3. CASE stack' = stack
  BY <1>1, <1>2, <1>3 DEF FlowInv
<1>4. stack # <<>> => /\ Tail(stack) \in Seq(Frames) /\ Len(Tail(stack)) = Len(stack) - 1
                      /\ \A i \in 1 .. Len(Tail(stack)) : i + 1 \in DOMAIN stack /\ Tail(stack)[i] = stack[i + 1]
  BY <1>1, HeadTailProperties
<1>5. CASE stack # <<>> /\ stack' = Tail(stack)
  <2>1. DOMAIN stack' = 1 .. Len(Tail(stack))
    BY <1>4, <1>5
  <2> QED BY <1>2, <1>4, <1>5, <2>1 DEF FlowInv
<1>6. ASSUME NEW f \in Frames, stack # <<>>, f.id = Top.id, stack' = <<f>> \o Tail(stack) PROVE FlowInv'
  <2>1. PICK s : s = Tail(stack)
    OBVIOUS
  <2>2. PICK t : t = <<f>> \o s
    OBVIOUS
  <2>3. /\ s \in Seq(Frames) /\ stack' = t
        /\ \A i \in 1 .. Len(s) : i + 1 \in DOMAIN stack /\ s[i] = stack[i + 1]
    BY <1>4, <1>6, <2>1, <2>2
  <2>4. /\ t \in Seq(Frames) /\ t[1] = f
        /\ \A i \in DOMAIN t : i # 1 => i - 1 \in 1 .. Len(s) /\ t[i] = s[i - 1]
    BY <2>2, <2>3, Pushed
  <2>5. 1 \in DOMAIN stack
    <3>1. stack # <<>>
      BY <1>6
    <3> QED BY <1>1, <3>1
  <2>6. execution'[f.id] # Unset
    BY <1>2, <1>6, <2>5 DEF Top
  <2>7. \A i \in DOMAIN t : execution'[t[i].id] # Unset
    BY <1>2, <2>3, <2>4, <2>6
  <2> QED BY <2>3, <2>4, <2>7 DEF FlowInv
<1>7. ASSUME NEW f \in Frames, execution'[f.id] # Unset, stack' = <<f>> \o stack PROVE FlowInv'
  <2>1. PICK t : t = <<f>> \o stack
    OBVIOUS
  <2>2. /\ t \in Seq(Frames) /\ t[1] = f
        /\ \A i \in DOMAIN t : i # 1 => i - 1 \in DOMAIN stack /\ t[i] = stack[i - 1]
    BY <1>1, <2>1, Pushed
  <2>3. \A i \in DOMAIN t : execution'[t[i].id] # Unset
    BY <1>2, <1>7, <2>2
  <2> QED BY <1>7, <2>1, <2>2, <2>3 DEF FlowInv
<1> QED BY <1>3, <1>5, <1>6, <1>7

(* What a step comes to: FlowInv still holds and the stages took one step  *)
(* of the lifecycle or none.                                               *)
Moves == Lifecycle!Next \/ UNCHANGED LifecycleStage

LEMMA ExecuteSteps == FlowInv /\ Execute => FlowInv' /\ Moves
<1> SUFFICES ASSUME FlowInv, Execute PROVE FlowInv' /\ Moves
  OBVIOUS
<1>1. PICK e \in Executions, n \in 0 .. MaxArtifacts :
        /\ Save(e, NewExecution)
        /\ stack' = <<[id |-> e, at |-> "created", left |-> n, outputs |-> <<>>]>> \o stack
  BY DEF Execute
<1>2. [id |-> e, at |-> "created", left |-> n, outputs |-> <<>>] \in Frames
  BY ExecutionBounds DEF Frames
<1> QED BY <1>1, <1>2, CreateSteps, StackFacts DEF Moves

LEMMA AdvanceSteps ==
  ASSUME FlowInv, NEW from, NEW to \in Stages, NEW ok \in BOOLEAN \cup {Unset},
         NEW at \in {"initialized", "prepared", "running", "completed", "archived"},
         Advance(from, to, at, ok)
  PROVE  FlowInv' /\ Moves
<1>1. Top \in Frames /\ stack # <<>> /\ Top.id \in Executions
      /\ execution[Top.id] \in Truthful /\ execution[Top.id] \in Aggregates /\ execution[Top.id] # Unset
  BY TopFacts DEF Advance, At
<1>2. CASE MayMove(execution[Top.id], to)
  <2>1. Save(Top.id, Transition(execution[Top.id], to, ok, TRUE)) /\ stack' = <<[Top EXCEPT !.at = at]>> \o Tail(stack)
    BY <1>2 DEF Advance, AdvanceTop
  <2>2. [Top EXCEPT !.at = at] \in Frames /\ [Top EXCEPT !.at = at].id = Top.id
    BY <1>1 DEF Frames
  <2> QED BY <1>1, <1>2, <2>1, <2>2, MoveSteps, StackFacts DEF Moves
<1>3. CASE ~MayMove(execution[Top.id], to)
  <2>1. execution' = execution /\ stack' = Tail(stack)
    BY <1>3 DEF Advance, Leave
  <2> QED BY <1>1, <2>1, StackFacts DEF Moves, LifecycleStage, FlowInv
<1> QED BY <1>2, <1>3

LEMMA PublishSteps ==
  ASSUME FlowInv, NEW from, NEW type \in {"started", "completed", "failed"}, NEW at \in {"started", "judged"},
         Publish(from, type, at)
  PROVE  FlowInv' /\ Moves
<1>1. Top \in Frames /\ stack # <<>> /\ Top.id \in Executions
      /\ execution[Top.id] \in Truthful /\ execution[Top.id] \in Aggregates /\ execution[Top.id] # Unset
  BY TopFacts DEF Publish, At
<1>2. PICK x, y : x = execution[Top.id] /\ y = RecordEvent(x, Event(type, Unset, Unset, 0))
  OBVIOUS
<1>3. y \in Truthful /\ y.history = x.history
  <2>1. Event(type, Unset, Unset, 0) \in Events /\ Event(type, Unset, Unset, 0).type # "state_changed"
    BY DEF Event, Events
  <2>2. /\ y \in Aggregates /\ y.history = x.history
        /\ y.events \in {x.events, Append(x.events, Event(type, Unset, Unset, 0))}
    BY <1>1, <1>2, <2>1, RecordFacts
  <2>3. "created" \in Stages
    BY DEF Stages
  <2> QED BY <1>1, <1>2, <2>1, <2>2, <2>3, NextVersion
<1>4. [Top EXCEPT !.at = at] \in Frames /\ [Top EXCEPT !.at = at].id = Top.id
  BY <1>1 DEF Frames
<1>5. Save(Top.id, y) /\ stack' = <<[Top EXCEPT !.at = at]>> \o Tail(stack)
  BY <1>2 DEF Publish, AdvanceTop
<1> QED BY <1>1, <1>2, <1>3, <1>4, <1>5, SaveSteps, StackFacts DEF Moves

LEMMA BridgeSteps ==
  ASSUME FlowInv, NEW from, NEW message, NEW at \in {"entering", "told"}, Bridge(from, message, at)
  PROVE  FlowInv' /\ Moves
<1>1. Top \in Frames /\ stack # <<>>
  BY TopFacts DEF Bridge, At
<1>2. [Top EXCEPT !.at = at] \in Frames /\ [Top EXCEPT !.at = at].id = Top.id
  BY <1>1 DEF Frames
<1>3. execution' = execution /\ stack' = <<[Top EXCEPT !.at = at]>> \o Tail(stack)
  BY DEF Bridge, AdvanceTop
<1> QED BY <1>1, <1>2, <1>3, StackFacts DEF Moves, LifecycleStage, FlowInv

LEMMA RunArtifactSteps == FlowInv /\ RunArtifact => FlowInv' /\ Moves
<1> SUFFICES ASSUME FlowInv, RunArtifact PROVE FlowInv' /\ Moves
  OBVIOUS
<1>1. Top \in Frames /\ stack # <<>> /\ Top.left > 0
  BY TopFacts DEF RunArtifact, At
<1>2. PICK ok \in BOOLEAN :
        stack' = <<[Top EXCEPT !.at = "executing", !.left = @ - 1, !.outputs = Append(@, ok)]>> \o Tail(stack)
  BY DEF RunArtifact, AdvanceTop
<1>3. Top.left - 1 \in Nat /\ Append(Top.outputs, ok) \in Seq(BOOLEAN)
  BY <1>1 DEF Frames
<1>4. /\ [Top EXCEPT !.at = "executing", !.left = @ - 1, !.outputs = Append(@, ok)] \in Frames
      /\ [Top EXCEPT !.at = "executing", !.left = @ - 1, !.outputs = Append(@, ok)].id = Top.id
  BY <1>1, <1>3 DEF Frames
<1>5. execution' = execution
  BY DEF RunArtifact
<1> QED BY <1>1, <1>2, <1>4, <1>5, StackFacts DEF Moves, LifecycleStage, FlowInv

LEMMA CompleteSteps == FlowInv /\ Complete => FlowInv' /\ Moves
<1> SUFFICES ASSUME FlowInv, Complete PROVE FlowInv' /\ Moves
  OBVIOUS
<1>1. Top \in Frames /\ stack # <<>> /\ Top.id \in Executions
      /\ execution[Top.id] \in Truthful /\ execution[Top.id] \in Aggregates /\ execution[Top.id] # Unset
  BY TopFacts DEF Complete, At
<1>2. PICK x, ok : x = [execution[Top.id] EXCEPT !.outputs = Top.outputs] /\ ok = Succeeded(Top.outputs)
  OBVIOUS
<1>3. x \in Truthful /\ x.history = execution[Top.id].history
  BY <1>1, <1>2, SameEvents DEF Aggregates, Frames
<1>4. ok \in BOOLEAN \cup {Unset}
  BY <1>2 DEF Succeeded
<1>5. CASE MayMove(x, "completing")
  <2>1. Save(Top.id, Transition(x, "completing", ok, TRUE)) /\ stack' = <<[Top EXCEPT !.at = "completing"]>> \o Tail(stack)
    BY <1>2, <1>5 DEF Complete, AdvanceTop
  <2>2. [Top EXCEPT !.at = "completing"] \in Frames /\ [Top EXCEPT !.at = "completing"].id = Top.id
    BY <1>1 DEF Frames
  <2>3. "completing" \in Stages
    BY DEF Stages
  <2> QED BY <1>1, <1>3, <1>4, <1>5, <2>1, <2>2, <2>3, MoveSteps, StackFacts DEF Moves
<1>6. CASE ~MayMove(x, "completing")
  <2>1. Save(Top.id, x) /\ stack' = Tail(stack)
    BY <1>2, <1>6 DEF Complete, Leave
  <2> QED BY <1>1, <1>3, <2>1, SaveSteps, StackFacts DEF Moves
<1> QED BY <1>5, <1>6

LEMMA FinalizeSteps == FlowInv /\ Finalize => FlowInv' /\ Moves
<1> SUFFICES ASSUME FlowInv, Finalize PROVE FlowInv' /\ Moves
  OBVIOUS
<1>1. Top \in Frames /\ stack # <<>> /\ Top.id \in Executions
      /\ execution[Top.id] \in Truthful /\ execution[Top.id] \in Aggregates /\ execution[Top.id] # Unset
  BY TopFacts DEF Finalize, At
<1>2. PICK ok : ok = Succeeded(Top.outputs)
  OBVIOUS
<1>3. ok \in BOOLEAN /\ Verdict(ok) \in {"completed", "failed"}
  BY <1>2 DEF Succeeded, Verdict
<1>4. PICK x : x = [execution[Top.id] EXCEPT !.result = ok, !.status = Verdict(ok)]
  OBVIOUS
<1>5. x \in Truthful /\ x.history = execution[Top.id].history
  BY <1>1, <1>3, <1>4, SameEvents DEF Aggregates
<1>6. Save(Top.id, x) /\ stack' = Tail(stack)
  BY <1>2, <1>4 DEF Finalize, Leave
<1> QED BY <1>1, <1>5, <1>6, SaveSteps, StackFacts DEF Moves

LEMMA InterventionSteps == FlowInv /\ (CreateExecution \/ MoveLifecycle \/ MoveState) => FlowInv' /\ Moves
<1> SUFFICES ASSUME FlowInv, CreateExecution \/ MoveLifecycle \/ MoveState PROVE FlowInv' /\ Moves
  OBVIOUS
<1>1. stack' = stack
  BY DEF CreateExecution, MoveLifecycle, MoveState, Intervene
<1>2. CASE CreateExecution
  BY <1>1, <1>2, CreateSteps, StackFacts DEF CreateExecution, Moves
<1>3. CASE MoveLifecycle
  <2>1. PICK e \in Executions, to \in Stages :
          execution[e] # Unset /\ MayMove(execution[e], to) /\ Save(e, Transition(execution[e], to, Unset, TRUE))
    BY <1>3 DEF MoveLifecycle
  <2>2. execution[e] \in Truthful
    BY <2>1 DEF FlowInv
  <2> QED BY <1>1, <2>1, <2>2, MoveSteps, StackFacts DEF Moves
<1>4. CASE MoveState
  <2>1. PICK e \in Executions, to \in Stages, ok \in BOOLEAN \cup {Unset} :
          execution[e] # Unset /\ MayMove(execution[e], to) /\ Save(e, Transition(execution[e], to, ok, FALSE))
    BY <1>4 DEF MoveState
  <2>2. execution[e] \in Truthful
    BY <2>1 DEF FlowInv
  <2> QED BY <1>1, <2>1, <2>2, MoveSteps, StackFacts DEF Moves
<1> QED BY <1>2, <1>3, <1>4

LEMMA FlowSteps == FlowInv /\ [ExecutionNext]_executionVars => FlowInv' /\ Moves
<1> SUFFICES ASSUME FlowInv, [ExecutionNext]_executionVars PROVE FlowInv' /\ Moves
  OBVIOUS
<1>1. PICK ok \in BOOLEAN \cup {Unset} : ok = Succeeded(Top.outputs)
  BY DEF Succeeded
<1>2. Unset \in BOOLEAN \cup {Unset}
  OBVIOUS
<1>3. {"initialized", "prepared", "running", "completed", "archived"} \subseteq Stages
  BY DEF Stages
<1>4. CASE Initialize \/ Prepare \/ Run
  BY <1>2, <1>3, <1>4, AdvanceSteps DEF Initialize, Prepare, Run
<1>5. CASE CloseExecution \/ Archive
  BY <1>1, <1>3, <1>5, AdvanceSteps DEF CloseExecution, Archive
<1>6. CASE PublishStarted \/ PublishVerdict
  <2>1. Verdict(ok) \in {"completed", "failed"}
    BY DEF Verdict
  <2> QED BY <1>1, <1>6, <2>1, PublishSteps DEF PublishStarted, PublishVerdict
<1>7. CASE BridgeStarted \/ BridgeVerdict
  BY <1>7, BridgeSteps DEF BridgeStarted, BridgeVerdict
<1>8. CASE CalleeThrows
  <2>1. stack # <<>> /\ execution' = execution /\ stack' = Tail(stack)
    BY <1>8 DEF CalleeThrows, CallingOut, Leave
  <2> QED BY <2>1, StackFacts DEF Moves, LifecycleStage, FlowInv
<1>9. CASE UNCHANGED executionVars
  BY <1>9, StackFacts DEF executionVars, Moves, LifecycleStage, FlowInv
<1> QED BY <1>4, <1>5, <1>6, <1>7, <1>8, <1>9, ExecuteSteps, RunArtifactSteps, CompleteSteps,
           FinalizeSteps, InterventionSteps DEF ExecutionNext, Flow

(* ExecutionEngine, LifecycleManager and StateManager together implement   *)
(* the lifecycle of isValidLifecycleTransition.                            *)
THEOREM FlowImplementsLifecycle == ExecutionSpec => ImplementsLifecycle
<1>1. ExecutionInit => FlowInv
  BY DEF ExecutionInit, FlowInv
<1>2. ExecutionInit => Lifecycle!Init
  BY DEF ExecutionInit, Lifecycle!Init, LifecycleStage
<1>3. Moves => [Lifecycle!Next]_LifecycleStage
  BY DEF Moves
<1> QED BY <1>1, <1>2, <1>3, FlowSteps, PTL DEF ExecutionSpec, ImplementsLifecycle, Lifecycle!Spec

(* state.changed events tell what happened, whatever the handlers that     *)
(* they were given to did in the meantime.                                 *)
THEOREM EventsStayTrue == ExecutionSpec => []EventsAreTrue
<1>1. ExecutionInit => FlowInv
  BY DEF ExecutionInit, FlowInv
<1>2. FlowInv => EventsAreTrue
  BY DEF FlowInv, EventsAreTrue, Truthful
<1> QED BY <1>1, <1>2, FlowSteps, PTL DEF ExecutionSpec
-----------------------------------------------------------------------------
Words == {"started", "completed", "failed"}
Told == [id : Executions, message : Words]

(* What has been recorded and told when the flow has come to a place.      *)
TwoWords(f) == <<"started", Verdict(Succeeded(f.outputs))>>
SaidBy(f) ==
  CASE f.at \in {"created", "initialized", "prepared", "running"} -> <<>>
    [] f.at \in {"started", "entering", "executing", "completing"} -> <<"started">>
    [] OTHER -> TwoWords(f)
HeardOf(f) ==
  CASE f.at \in {"created", "initialized", "prepared", "running", "started"} -> <<>>
    [] f.at \in {"entering", "executing", "completing", "judged"} -> <<"started">>
    [] OTHER -> TwoWords(f)

(* How far the execution of a frame has come.  An archived one moves no    *)
(* more, so that it still is when its call is answered.                    *)
Came(x, b, f) ==
  /\ Says(x, SaidBy(f))
  /\ Hears(b, f.id, HeardOf(f))
  /\ f.at \in {"completing", "judged", "told", "completed", "archived"} => x.outputs = f.outputs
  /\ f.at = "archived" => Last(x.history) = "archived"

(* One call under way for each execution that has one: what one frame does *)
(* to its execution disturbs no other frame.                               *)
CallsInv ==
  /\ bus \in Seq(Told)
  /\ call \in [Executions -> {"none", "running", "rejected", "resolved"}]
  /\ \A i \in DOMAIN stack : call[stack[i].id] = "running"
  /\ \A i, j \in DOMAIN stack : stack[i].id = stack[j].id => i = j
  /\ \A k \in DOMAIN bus : call[bus[k].id] # "none"
  /\ \A i \in DOMAIN stack : stack[i].id \notin replaced => Came(execution[stack[i].id], bus, stack[i])
  /\ VerdictsAgree

LEMMA ReadsNothing == ASSUME NEW s, NEW a, DOMAIN a = {} PROVE Reads(s, {}, a)
<1>1. a \in [DOMAIN a -> {}] \/ [i \in {} |-> i] \in [DOMAIN a -> {}]
  OBVIOUS
<1> QED BY <1>1 DEF Reads

LEMMA ReadsStay ==
  ASSUME NEW s, NEW t, NEW I, NEW a, \A i \in I : t[i] = s[i], Reads(s, I, a)
  PROVE  Reads(t, I, a)
BY DEF Reads

LEMMA ReadsNext ==
  ASSUME NEW n \in Nat, NEW a, NEW b, DOMAIN a = 1 .. n, DOMAIN b = 1 .. n + 1,
         \A i \in 1 .. n : b[i] = a[i],
         NEW m \in Nat, NEW I \in SUBSET (1 .. m), NEW s, NEW t,
         \A i \in I : t[i] = s[i], t[m + 1] = b[n + 1], Reads(s, I, a)
  PROVE  Reads(t, I \cup {m + 1}, b)
<1>1. PICK p \in [1 .. n -> I] :
        /\ I = {p[i] : i \in 1 .. n}
        /\ \A i \in 1 .. n : s[p[i]] = a[i]
        /\ \A i, j \in 1 .. n : i < j => p[i] < p[j]
  BY DEF Reads
<1>2. PICK q : q = [i \in 1 .. n + 1 |-> IF i \in 1 .. n THEN p[i] ELSE m + 1]
  OBVIOUS
<1>3. /\ \A i \in 1 .. n + 1 : i \in 1 .. n \/ i = n + 1
      /\ \A i \in 1 .. n : i \in 1 .. n + 1 /\ q[i] = p[i] /\ p[i] \in I /\ p[i] \in 1 .. m
      /\ n + 1 \in 1 .. n + 1 /\ q[n + 1] = m + 1
  <2>1. \A i \in 1 .. n + 1 : i \in 1 .. n \/ i = n + 1
    OBVIOUS
  <2>2. \A i \in 1 .. n : i \in 1 .. n + 1 /\ q[i] = p[i]
    BY <1>2
  <2>3. n + 1 \in 1 .. n + 1 /\ n + 1 \notin 1 .. n
    OBVIOUS
  <2>4. q[n + 1] = m + 1
    BY <1>2, <2>3
  <2>5. \A i \in 1 .. n : p[i] \in I /\ p[i] \in 1 .. m
    BY <1>1
  <2> QED BY <2>1, <2>2, <2>3, <2>4, <2>5
<1>4. q \in [1 .. n + 1 -> I \cup {m + 1}]
  BY <1>2, <1>3
<1>5. I \cup {m + 1} = {q[i] : i \in 1 .. n + 1}
  <2>1. ASSUME NEW k \in I PROVE k \in {q[i] : i \in 1 .. n + 1}
    <3>1. PICK i \in 1 .. n : k = p[i]
      BY <1>1
    <3> QED BY <1>3, <3>1
  <2>2. m + 1 \in {q[i] : i \in 1 .. n + 1}
    BY <1>3
  <2>3. ASSUME NEW i \in 1 .. n + 1 PROVE q[i] \in I \cup {m + 1}
    BY <1>4
  <2> QED BY <2>1, <2>2, <2>3
<1>6. ASSUME NEW i \in 1 .. n + 1 PROVE t[q[i]] = b[i]
  <2>1. CASE i \in 1 .. n
    <3>1. q[i] = p[i] /\ p[i] \in I /\ s[p[i]] = a[i]
      BY <1>1, <1>3, <2>1
    <3> QED BY <2>1, <3>1
  <2>2. CASE i = n + 1
    BY <1>3, <2>2
  <2> QED BY <1>3, <2>1, <2>2
<1>7. ASSUME NEW i \in 1 .. n + 1, NEW j \in 1 .. n + 1, i < j PROVE q[i] < q[j]
  <2>1. i \in 1 .. n
    BY <1>7
  <2>2. CASE j \in 1 .. n
    BY <1>1, <1>3, <1>7, <2>1, <2>2
  <2>3. CASE j = n + 1
    BY <1>3, <2>1, <2>3
  <2> QED BY <1>3, <2>2, <2>3
<1> QED BY <1>4, <1>5, <1>6, <1>7 DEF Reads

LEMMA Appended ==
  ASSUME NEW S, NEW b \in Seq(S), NEW m \in S, NEW d, d = Append(b, m)
  PROVE  /\ DOMAIN b = 1 .. Len(b) /\ Len(b) \in Nat
         /\ DOMAIN d = 1 .. Len(b) + 1 /\ d[Len(b) + 1] = m /\ \A i \in 1 .. Len(b) : d[i] = b[i]
BY AppendProperties

(* What an execution's events say is left alone by its moves and by what   *)
(* is done to the rest of it.                                              *)
LEMMA SaysStay ==
  ASSUME NEW x \in Aggregates, NEW y \in Aggregates, NEW types, Says(x, types),
         \/ y.events = x.events
         \/ \E v \in Events : y.events = Append(x.events, v) /\ v.type = "state_changed"
  PROVE  Says(y, types)
<1>1. PICK k, m : k = x.events /\ m = y.events
  OBVIOUS
<1>2. k \in Seq(Events) /\ DOMAIN k = 1 .. Len(k) /\ Len(k) \in Nat
  BY <1>1 DEF Aggregates
<1>3. /\ \A i \in DOMAIN k : m[i] = k[i]
      /\ \A i \in DOMAIN m : i \in DOMAIN k \/ m[i].type = "state_changed"
      /\ DOMAIN k \subseteq DOMAIN m
  <2>1. CASE m = k
    BY <2>1
  <2>2. ASSUME NEW v \in Events, m = Append(k, v), v.type = "state_changed"
        PROVE  /\ \A i \in DOMAIN k : m[i] = k[i]
               /\ \A i \in DOMAIN m : i \in DOMAIN k \/ m[i].type = "state_changed"
               /\ DOMAIN k \subseteq DOMAIN m
    <3>1. Len(m) = Len(k) + 1 /\ m \in Seq(Events) /\ m[Len(k) + 1] = v
          /\ \A i \in 1 .. Len(k) : m[i] = k[i]
      BY <1>2, <2>2, AppendProperties
    <3> QED BY <1>2, <2>2, <3>1
  <2> QED BY <1>1, <2>1, <2>2
<1>4. {i \in DOMAIN m : m[i].type # "state_changed"} = {i \in DOMAIN k : k[i].type # "state_changed"}
  BY <1>3
<1>5. Reads(m, {i \in DOMAIN k : k[i].type # "state_changed"}, [i \in DOMAIN types |-> Event(types[i], Unset, Unset, 0)])
  <2>1. \A i \in {i \in DOMAIN k : k[i].type # "state_changed"} : m[i] = k[i]
    BY <1>3
  <2> QED BY <1>1, <2>1, ReadsStay DEF Says
<1> QED BY <1>1, <1>4, <1>5 DEF Says

LEMMA SaysNext ==
  ASSUME NEW x \in Aggregates, NEW y \in Aggregates, NEW types \in Seq(Words), NEW type \in Words, Says(x, types),
         y.events = Append(x.events, Event(type, Unset, Unset, 0))
  PROVE  Says(y, Append(types, type))
<1>1. PICK k, m, n, l, v : /\ k = x.events /\ m = y.events /\ n = Len(types) /\ l = Len(k)
                           /\ v = Event(type, Unset, Unset, 0)
  OBVIOUS
<1>2. v \in Events /\ v.type = type /\ type # "state_changed"
  BY <1>1 DEF Event, Events, Words
<1>3. k \in Seq(Events) /\ DOMAIN k = 1 .. l /\ l \in Nat
  BY <1>1 DEF Aggregates
<1>4. DOMAIN m = 1 .. l + 1 /\ m[l + 1] = v /\ \A i \in 1 .. l : m[i] = k[i]
  BY <1>1, <1>2, <1>3, AppendProperties
<1>5. PICK I : I = {i \in DOMAIN k : k[i].type # "state_changed"}
  OBVIOUS
<1>6. {i \in DOMAIN m : m[i].type # "state_changed"} = I \cup {l + 1}
  BY <1>2, <1>3, <1>4, <1>5
<1>7. PICK new : new = Append(types, type)
  OBVIOUS
<1>8. n \in Nat /\ DOMAIN types = 1 .. n /\ DOMAIN new = 1 .. n + 1 /\ new[n + 1] = type /\ \A i \in 1 .. n : new[i] = types[i]
  BY <1>1, <1>7, AppendProperties
<1>9. PICK a, b : a = [i \in DOMAIN types |-> Event(types[i], Unset, Unset, 0)] /\ b = [i \in DOMAIN new |-> Event(new[i], Unset, Unset, 0)]
  OBVIOUS
<1>10. DOMAIN a = 1 .. n /\ DOMAIN b = 1 .. n + 1 /\ (\A i \in 1 .. n : b[i] = a[i]) /\ b[n + 1] = v
  BY <1>1, <1>8, <1>9
<1>11. Reads(k, I, a)
  BY <1>1, <1>5, <1>9 DEF Says
<1>12. I \in SUBSET (1 .. l) /\ \A i \in I : m[i] = k[i]
  BY <1>3, <1>4, <1>5
<1>13. Reads(m, I \cup {l + 1}, b)
  <2>1. m[l + 1] = b[n + 1] /\ l \in Nat /\ n \in Nat
    BY <1>3, <1>4, <1>8, <1>10
  <2> QED BY <1>10, <1>11, <1>12, <2>1, ReadsNext
<1> QED BY <1>1, <1>6, <1>7, <1>9, <1>13 DEF Says

(* A word that has not been said makes an event of its own.                *)
LEMMA SaysNot ==
  ASSUME NEW x \in Aggregates, NEW types \in Seq(Words), NEW type \in Words, Says(x, types),
         \A i \in DOMAIN types : types[i] # type
  PROVE  \A i \in DOMAIN x.events : x.events[i].type # type
<1>1. PICK I, a : /\ I = {i \in DOMAIN x.events : x.events[i].type # "state_changed"}
                  /\ a = [i \in DOMAIN types |-> Event(types[i], Unset, Unset, 0)]
  OBVIOUS
<1>2. PICK p \in [DOMAIN types -> I] : I = {p[i] : i \in DOMAIN types} /\ \A i \in DOMAIN types : x.events[p[i]] = a[i]
  BY <1>1 DEF Says, Reads
<1>3. ASSUME NEW i \in DOMAIN x.events, x.events[i].type = type PROVE FALSE
  <2>1. i \in I
    BY <1>1, <1>3 DEF Words
  <2>2. PICK j \in DOMAIN types : i = p[j]
    BY <1>2, <2>1
  <2>3. x.events[i].type = types[j]
    BY <1>1, <1>2, <2>2 DEF Event
  <2> QED BY <1>3, <2>2, <2>3
<1> QED BY <1>3

LEMMA HearsStay ==
  ASSUME NEW b \in Seq(Told), NEW d, NEW e, NEW messages, Hears(b, e, messages),
         d = b \/ \E m \in Told : d = Append(b, m) /\ m.id # e
  PROVE  Hears(d, e, messages)
<1>1. DOMAIN b = 1 .. Len(b) /\ Len(b) \in Nat
  OBVIOUS
<1>2. /\ \A i \in DOMAIN b : d[i] = b[i]
      /\ \A i \in DOMAIN d : i \in DOMAIN b \/ d[i].id # e
      /\ DOMAIN b \subseteq DOMAIN d
  <2>1. CASE d = b
    BY <2>1
  <2>2. ASSUME NEW m \in Told, d = Append(b, m), m.id # e
        PROVE  /\ \A i \in DOMAIN b : d[i] = b[i]
               /\ \A i \in DOMAIN d : i \in DOMAIN b \/ d[i].id # e
               /\ DOMAIN b \subseteq DOMAIN d
    <3>1. DOMAIN d = 1 .. Len(b) + 1 /\ d[Len(b) + 1] = m /\ \A i \in 1 .. Len(b) : d[i] = b[i]
      BY <2>2, Appended
    <3>2. m.id # e
      BY <2>2
    <3> QED BY <1>1, <3>1, <3>2
  <2> QED BY <2>1, <2>2
<1>3. {i \in DOMAIN d : d[i].id = e} = {i \in DOMAIN b : b[i].id = e}
  BY <1>2
<1>4. Reads(d, {i \in DOMAIN b : b[i].id = e}, [i \in DOMAIN messages |-> [id |-> e, message |-> messages[i]]])
  <2>1. \A i \in {i \in DOMAIN b : b[i].id = e} : d[i] = b[i]
    BY <1>2
  <2> QED BY <2>1, ReadsStay DEF Hears
<1> QED BY <1>3, <1>4 DEF Hears

LEMMA HearsNext ==
  ASSUME NEW b \in Seq(Told), NEW e \in Executions, NEW messages \in Seq(Words), NEW message \in Words, Hears(b, e, messages)
  PROVE  Hears(Append(b, [id |-> e, message |-> message]), e, Append(messages, message))
<1>1. PICK d, n, l, m : /\ d = Append(b, m) /\ n = Len(messages) /\ l = Len(b)
                        /\ m = [id |-> e, message |-> message]
  OBVIOUS
<1>2. m \in Told /\ m.id = e
  BY <1>1 DEF Told
<1>3. DOMAIN b = 1 .. l /\ l \in Nat
  BY <1>1
<1>4. DOMAIN d = 1 .. l + 1 /\ d[l + 1] = m /\ \A i \in 1 .. l : d[i] = b[i]
  BY <1>1, <1>2, <1>3, AppendProperties
<1>5. PICK I : I = {i \in DOMAIN b : b[i].id = e}
  OBVIOUS
<1>6. {i \in DOMAIN d : d[i].id = e} = I \cup {l + 1}
  BY <1>2, <1>3, <1>4, <1>5
<1>7. PICK new : new = Append(messages, message)
  OBVIOUS
<1>8. /\ n \in Nat /\ DOMAIN messages = 1 .. n /\ DOMAIN new = 1 .. n + 1 /\ new[n + 1] = message
      /\ \A i \in 1 .. n : new[i] = messages[i]
  BY <1>1, <1>7, AppendProperties
<1>9. PICK f, g : /\ f = [i \in DOMAIN messages |-> [id |-> e, message |-> messages[i]]]
                  /\ g = [i \in DOMAIN new |-> [id |-> e, message |-> new[i]]]
  OBVIOUS
<1>10. DOMAIN f = 1 .. n /\ DOMAIN g = 1 .. n + 1 /\ (\A i \in 1 .. n : g[i] = f[i]) /\ g[n + 1] = m
  BY <1>1, <1>8, <1>9
<1>11. Reads(b, I, f)
  BY <1>5, <1>9 DEF Hears
<1>12. I \in SUBSET (1 .. l) /\ \A i \in I : d[i] = b[i]
  BY <1>3, <1>4, <1>5
<1>13. Reads(d, I \cup {l + 1}, g)
  <2>1. d[l + 1] = g[n + 1] /\ l \in Nat /\ n \in Nat
    BY <1>3, <1>4, <1>8, <1>10
  <2> QED BY <1>10, <1>11, <1>12, <2>1, ReadsNext
<1> QED BY <1>1, <1>6, <1>7, <1>9, <1>13 DEF Hears
-----------------------------------------------------------------------------
LEMMA CameStay ==
  ASSUME NEW x \in Truthful, NEW y \in Truthful, NEW b, NEW f, Came(x, b, f),
         \/ y.events = x.events
         \/ \E v \in Events : y.events = Append(x.events, v) /\ v.type = "state_changed",
         y.outputs = x.outputs, f.at # "archived" \/ y.history = x.history
  PROVE  Came(y, b, f)
<1>1. Says(y, SaidBy(f))
  BY SaysStay, TruthfulFacts DEF Came
<1> QED BY <1>1 DEF Came

(* The bus was told of another execution, or of none.                      *)
Elsewhere(b, d, e) == d = b \/ \E m \in Told : d = Append(b, m) /\ m.id # e

LEMMA CameElsewhere ==
  ASSUME NEW b \in Seq(Told), NEW d, NEW x, NEW f, Came(x, b, f), Elsewhere(b, d, f.id)
  PROVE  Came(x, d, f)
<1>1. Hears(d, f.id, HeardOf(f))
  BY HearsStay DEF Came, Elsewhere
<1> QED BY <1>1 DEF Came

LEMMA UnanimousElsewhere ==
  ASSUME NEW b \in Seq(Told), NEW d, NEW x, NEW e, Unanimous(e, x, b), Elsewhere(b, d, e)
  PROVE  Unanimous(e, x, d)
<1>1. Hears(d, e, <<"started", Verdict(x.result)>>)
  BY HearsStay DEF Unanimous, Elsewhere
<1> QED BY <1>1 DEF Unanimous

(* The answered executions, when one that is not among them is saved.      *)
LEMMA AgreementStays ==
  ASSUME CallsInv, NEW e \in Executions, call[e] # "resolved",
         \A d \in Executions : d # e => execution'[d] = execution[d] /\ call'[d] = call[d],
         replaced \subseteq replaced', \A d \in Executions : d # e => Elsewhere(bus, bus', d),
         call'[e] # "resolved" \/ e \in replaced' \/ Unanimous(e, execution'[e], bus')
  PROVE  VerdictsAgree'
<1> SUFFICES ASSUME NEW d \in Executions, d \notin replaced', call'[d] = "resolved"
             PROVE  Unanimous(d, execution'[d], bus')
  BY DEF VerdictsAgree
<1>1. CASE d = e
  BY <1>1
<1>2. CASE d # e
  <2>1. Unanimous(d, execution[d], bus) /\ bus \in Seq(Told)
    BY <1>2 DEF CallsInv, VerdictsAgree
  <2> QED BY <1>2, <2>1, UnanimousElsewhere
<1> QED BY <1>1, <1>2

LEMMA BusGrows ==
  ASSUME NEW b \in Seq(Told), NEW d, NEW e \in Executions,
         d = b \/ \E m \in Told : d = Append(b, m) /\ m.id = e
  PROVE  /\ d \in Seq(Told)
         /\ \A k \in DOMAIN d : d[k].id = e \/ (k \in DOMAIN b /\ d[k] = b[k])
         /\ \A c : c # e => Elsewhere(b, d, c)
<1>1. CASE d = b
  BY <1>1 DEF Elsewhere
<1>2. ASSUME NEW m \in Told, d = Append(b, m), m.id = e
      PROVE  /\ d \in Seq(Told)
             /\ \A k \in DOMAIN d : d[k].id = e \/ (k \in DOMAIN b /\ d[k] = b[k])
             /\ \A c : c # e => Elsewhere(b, d, c)
  <2>1. /\ DOMAIN b = 1 .. Len(b) /\ Len(b) \in Nat
        /\ DOMAIN d = 1 .. Len(b) + 1 /\ d[Len(b) + 1] = m /\ \A i \in 1 .. Len(b) : d[i] = b[i]
    BY <1>2, Appended
  <2>2. m.id = e
    BY <1>2
  <2>3. \A k \in DOMAIN d : d[k].id = e \/ (k \in DOMAIN b /\ d[k] = b[k])
    BY <2>1, <2>2
  <2>4. d \in Seq(Told)
    BY <1>2
  <2> QED BY <1>2, <2>3, <2>4 DEF Elsewhere
<1> QED BY <1>1, <1>2

(* The innermost call goes on.                                             *)
LEMMA TopMoves ==
  ASSUME FlowInv, CallsInv, stack # <<>>, NEW f \in Frames, f.id = Top.id,
         stack' = <<f>> \o Tail(stack), call' = call, replaced' = replaced,
         \A d \in Executions : d # Top.id => execution'[d] = execution[d],
         bus' = bus \/ \E m \in Told : bus' = Append(bus, m) /\ m.id = Top.id,
         Top.id \notin replaced => Came(execution'[Top.id], bus', f)
  PROVE  CallsInv'
<1>1. PICK e, s, t : e = Top.id /\ s = stack /\ t = stack'
  OBVIOUS
<1>2. s \in Seq(Frames) /\ s # <<>> /\ DOMAIN s = 1 .. Len(s) /\ Len(s) \in Nat /\ s[1].id = e /\ 1 \in DOMAIN s
  <2>1. s \in Seq(Frames) /\ s # <<>>
    BY <1>1 DEF FlowInv
  <2>2. DOMAIN s = 1 .. Len(s) /\ Len(s) \in Nat /\ 1 \in DOMAIN s
    BY <2>1
  <2> QED BY <1>1, <2>1, <2>2 DEF Top
<1>3. DOMAIN t = DOMAIN s /\ t[1] = f /\ \A i \in DOMAIN s : i # 1 => t[i] = s[i]
  <2>1. PICK r : r = Tail(s)
    OBVIOUS
  <2>2. r \in Seq(Frames) /\ Len(r) = Len(s) - 1 /\ \A i \in 1 .. Len(r) : r[i] = s[i + 1]
    BY <1>2, <2>1, HeadTailProperties
  <2>3. t = <<f>> \o r
    BY <1>1, <2>1
  <2>4. /\ DOMAIN t = 1 .. Len(r) + 1
        /\ t[1] = f
        /\ \A i \in DOMAIN t : i # 1 => i - 1 \in 1 .. Len(r) /\ t[i] = r[i - 1]
    BY <2>2, <2>3, Pushed
  <2>5. DOMAIN t = DOMAIN s
    BY <1>2, <2>2, <2>4
  <2>6. ASSUME NEW i \in DOMAIN s, i # 1 PROVE t[i] = s[i]
    BY <1>2, <2>2, <2>4, <2>5, <2>6
  <2> QED BY <2>4, <2>5, <2>6
<1>4. \A i \in DOMAIN s : t[i].id = s[i].id /\ t[i].id \in Executions
  <2>1. \A i \in DOMAIN s : s[i] \in Frames
    BY <1>2
  <2>2. \A i \in DOMAIN s : s[i].id \in Executions
    BY <2>1 DEF Frames
  <2>3. t[1].id = s[1].id
    BY <1>1, <1>2, <1>3
  <2>4. \A i \in DOMAIN s : t[i].id = s[i].id
    BY <1>3, <2>3
  <2> QED BY <2>2, <2>4
<1>5. /\ \A i \in DOMAIN s : call[s[i].id] = "running"
      /\ \A i, j \in DOMAIN s : s[i].id = s[j].id => i = j
  BY <1>1 DEF CallsInv
<1>6. e \in Executions /\ call[e] = "running" /\ \A i \in DOMAIN s : s[i].id = e => i = 1
  BY <1>2, <1>4, <1>5
<1>7. /\ bus' \in Seq(Told)
      /\ \A k \in DOMAIN bus' : bus'[k].id = e \/ (k \in DOMAIN bus /\ bus'[k] = bus[k])
      /\ \A c : c # e => Elsewhere(bus, bus', c)
  BY <1>1, <1>6, BusGrows DEF CallsInv
<1>8. ASSUME NEW i \in DOMAIN t, t[i].id \notin replaced PROVE Came(execution'[t[i].id], bus', t[i])
  <2>1. CASE i = 1
    BY <1>1, <1>3, <1>8, <2>1
  <2>2. CASE i # 1
    <3>1. t[i] = s[i] /\ t[i].id # e /\ execution'[t[i].id] = execution[t[i].id]
      BY <1>1, <1>3, <1>4, <1>6, <2>2
    <3>2. Came(execution[s[i].id], bus, s[i]) /\ bus \in Seq(Told)
      BY <1>1, <1>3, <1>8, <3>1 DEF CallsInv
    <3> QED BY <1>7, <3>1, <3>2, CameElsewhere
  <2> QED BY <2>1, <2>2
<1>9. VerdictsAgree'
  BY <1>1, <1>6, <1>7, AgreementStays
<1>10. /\ \A i \in DOMAIN t : call[t[i].id] = "running"
      /\ \A i, j \in DOMAIN t : t[i].id = t[j].id => i = j
  BY <1>3, <1>4, <1>5
<1>11. \A k \in DOMAIN bus' : call[bus'[k].id] # "none"
  BY <1>6, <1>7 DEF CallsInv
<1> QED BY <1>1, <1>7, <1>8, <1>9, <1>10, <1>11 DEF CallsInv

(* The innermost call is answered.                                         *)
LEMMA TopLeaves ==
  ASSUME FlowInv, CallsInv, stack # <<>>, NEW how \in {"rejected", "resolved"}, Leave(how),
         bus' = bus, replaced' = replaced,
         \A d \in Executions : d # Top.id => execution'[d] = execution[d],
         how = "rejected" \/ Top.id \in replaced \/ Unanimous(Top.id, execution'[Top.id], bus)
  PROVE  CallsInv'
<1>1. PICK e, s, t : e = Top.id /\ s = stack /\ t = stack'
  OBVIOUS
<1>2. s \in Seq(Frames) /\ s # <<>> /\ DOMAIN s = 1 .. Len(s) /\ Len(s) \in Nat /\ s[1].id = e /\ 1 \in DOMAIN s
  <2>1. s \in Seq(Frames) /\ s # <<>>
    BY <1>1 DEF FlowInv
  <2>2. DOMAIN s = 1 .. Len(s) /\ Len(s) \in Nat /\ 1 \in DOMAIN s
    BY <2>1
  <2> QED BY <1>1, <2>1, <2>2 DEF Top
<1>3. \A i \in DOMAIN t : i + 1 \in DOMAIN s /\ i + 1 # 1 /\ t[i] = s[i + 1]
  <2>1. PICK r : r = Tail(s)
    OBVIOUS
  <2>2. r \in Seq(Frames) /\ Len(r) = Len(s) - 1 /\ \A i \in 1 .. Len(r) : r[i] = s[i + 1]
    BY <1>2, <2>1, HeadTailProperties
  <2>3. t = r /\ DOMAIN r = 1 .. Len(r) /\ Len(r) \in Nat
    BY <1>1, <2>1, <2>2 DEF Leave
  <2> QED BY <1>2, <2>2, <2>3
<1>4. \A i \in DOMAIN s : s[i].id \in Executions
  <2>1. \A i \in DOMAIN s : s[i] \in Frames
    BY <1>2
  <2> QED BY <2>1 DEF Frames
<1>5. /\ \A i \in DOMAIN s : call[s[i].id] = "running"
      /\ \A i, j \in DOMAIN s : s[i].id = s[j].id => i = j
  BY <1>1 DEF CallsInv
<1>6. e \in Executions /\ call[e] = "running" /\ \A i \in DOMAIN s : s[i].id = e => i = 1
  BY <1>2, <1>4, <1>5
<1>7. call' = [call EXCEPT ![e] = how]
  BY <1>1 DEF Leave
<1>8. /\ call' \in [Executions -> {"none", "running", "rejected", "resolved"}]
      /\ call'[e] = how /\ \A d \in Executions : d # e => call'[d] = call[d]
  BY <1>6, <1>7 DEF CallsInv
<1>9. \A i \in DOMAIN t : t[i].id # e /\ t[i].id \in Executions
  BY <1>3, <1>4, <1>6
<1>10. ASSUME NEW i \in DOMAIN t, t[i].id \notin replaced PROVE Came(execution'[t[i].id], bus, t[i])
  <2>1. t[i] = s[i + 1] /\ i + 1 \in DOMAIN s
    BY <1>3
  <2>2. Came(execution[t[i].id], bus, t[i])
    BY <1>1, <1>10, <2>1 DEF CallsInv
  <2> QED BY <1>1, <1>9, <2>2
<1>11. VerdictsAgree'
  <2>1. \A d \in Executions : Elsewhere(bus, bus', d)
    BY DEF Elsewhere
  <2>2. bus' = bus /\ replaced' = replaced
    OBVIOUS
  <2>3. call'[e] # "resolved" \/ e \in replaced' \/ Unanimous(e, execution'[e], bus')
    BY <1>1, <1>8, <2>2
  <2> QED BY <1>1, <1>6, <1>8, <2>1, <2>2, <2>3, AgreementStays
<1>12. /\ \A i \in DOMAIN t : call'[t[i].id] = "running"
       /\ \A i, j \in DOMAIN t : t[i].id = t[j].id => i = j
  <2>1. ASSUME NEW i \in DOMAIN t PROVE call'[t[i].id] = "running"
    BY <1>3, <1>8, <1>9, <1>5
  <2>2. ASSUME NEW i \in DOMAIN t, NEW j \in DOMAIN t, t[i].id = t[j].id PROVE i = j
    <3>1. i + 1 = j + 1
      BY <1>3, <1>5, <2>2
    <3>2. i \in Nat /\ j \in Nat
      <4>1. i + 1 \in 1 .. Len(s) /\ j + 1 \in 1 .. Len(s)
        BY <1>2, <1>3
      <4>2. t \in Seq(Frames)
        BY <1>1, <1>2, HeadTailProperties DEF Leave
      <4> QED BY <4>2
    <3> QED BY <3>1, <3>2
  <2> QED BY <2>1, <2>2
<1>13. \A k \in DOMAIN bus : call'[bus[k].id] # "none"
  <2>1. ASSUME NEW k \in DOMAIN bus PROVE call'[bus[k].id] # "none"
    <3>1. bus[k] \in Told /\ call[bus[k].id] # "none"
      BY DEF CallsInv
    <3>2. bus[k].id \in Executions
      BY <3>1 DEF Told
    <3> QED BY <1>8, <3>1, <3>2
  <2> QED BY <2>1
<1> QED BY <1>1, <1>8, <1>10, <1>11, <1>12, <1>13 DEF CallsInv
-----------------------------------------------------------------------------
LEMMA ExecuteCalls == ASSUME FlowInv, CallsInv, Execute PROVE CallsInv'
<1>1. PICK e \in Executions, n \in 0 .. MaxArtifacts :
        /\ call[e] = "none"
        /\ execution' = [execution EXCEPT ![e] = NewExecution]
        /\ call' = [call EXCEPT ![e] = "running"]
        /\ stack' = <<[id |-> e, at |-> "created", left |-> n, outputs |-> <<>>]>> \o stack
        /\ bus' = bus /\ replaced' = replaced
  BY DEF Execute, Save
<1>2. PICK f, s, t : f = [id |-> e, at |-> "created", left |-> n, outputs |-> <<>>] /\ s = stack /\ t = stack'
  OBVIOUS
<1>3. f \in Frames /\ f.id = e /\ f.at = "created"
  BY <1>2, ExecutionBounds DEF Frames
<1>4. s \in Seq(Frames) /\ DOMAIN s = 1 .. Len(s) /\ Len(s) \in Nat
  BY <1>2 DEF FlowInv
<1>5. /\ DOMAIN t = 1 .. Len(s) + 1
      /\ t[1] = f
      /\ \A i \in DOMAIN t : i # 1 => i - 1 \in DOMAIN s /\ t[i] = s[i - 1]
  <2>1. t = <<f>> \o s
    BY <1>1, <1>2
  <2> QED BY <1>3, <1>4, <2>1, Pushed
<1>6. \A i \in DOMAIN s : call[s[i].id] = "running" /\ s[i].id \in Executions /\ s[i].id # e
  <2>1. \A i \in DOMAIN s : s[i] \in Frames
    BY <1>4
  <2>2. \A i \in DOMAIN s : call[s[i].id] = "running"
    BY <1>2 DEF CallsInv
  <2> QED BY <1>1, <2>1, <2>2 DEF Frames
<1>7. /\ call' \in [Executions -> {"none", "running", "rejected", "resolved"}]
      /\ call'[e] = "running" /\ \A d \in Executions : d # e => call'[d] = call[d]
  BY <1>1 DEF CallsInv
<1>8. /\ execution'[e] = NewExecution /\ \A d \in Executions : d # e => execution'[d] = execution[d]
  BY <1>1 DEF FlowInv
<1>9. Came(NewExecution, bus, f)
  <2>1. SaidBy(f) = <<>> /\ HeardOf(f) = <<>>
    BY <1>3 DEF SaidBy, HeardOf
  <2>2. NewExecution.events = <<>>
    BY DEF NewExecution
  <2>3. {k \in DOMAIN NewExecution.events : NewExecution.events[k].type # "state_changed"} = {}
    BY <2>2
  <2>4. Says(NewExecution, <<>>)
    <3>1. DOMAIN [i \in DOMAIN <<>> |-> Event(<<>>[i], Unset, Unset, 0)] = {}
      OBVIOUS
    <3> QED BY <2>3, <3>1, ReadsNothing DEF Says
  <2>5. {k \in DOMAIN bus : bus[k].id = e} = {}
    BY <1>1 DEF CallsInv
  <2>6. Hears(bus, e, <<>>)
    <3>1. DOMAIN [i \in DOMAIN <<>> |-> [id |-> e, message |-> <<>>[i]]] = {}
      OBVIOUS
    <3> QED BY <2>5, <3>1, ReadsNothing DEF Hears
  <2> QED BY <1>3, <2>1, <2>4, <2>6 DEF Came
<1>10. ASSUME NEW i \in DOMAIN t, t[i].id \notin replaced PROVE Came(execution'[t[i].id], bus, t[i])
  <2>1. CASE i = 1
    BY <1>3, <1>5, <1>8, <1>9, <2>1
  <2>2. CASE i # 1
    <3>1. i - 1 \in DOMAIN s /\ t[i] = s[i - 1]
      BY <1>5, <2>2
    <3>2. execution'[t[i].id] = execution[t[i].id]
      BY <1>6, <1>8, <3>1
    <3>3. Came(execution[t[i].id], bus, t[i])
      BY <1>2, <1>10, <3>1 DEF CallsInv
    <3> QED BY <3>2, <3>3
  <2> QED BY <2>1, <2>2
<1>11. VerdictsAgree'
  <2>1. \A d \in Executions : Elsewhere(bus, bus', d)
    BY <1>1 DEF Elsewhere
  <2>2. call[e] # "resolved" /\ call'[e] # "resolved" /\ replaced \subseteq replaced'
    BY <1>1, <1>7
  <2> QED BY <1>7, <1>8, <2>1, <2>2, AgreementStays
<1>12. \A i \in DOMAIN t : call'[t[i].id] = "running"
  <2>1. ASSUME NEW i \in DOMAIN t, i # 1 PROVE call'[t[i].id] = "running"
    BY <1>5, <1>6, <1>7, <2>1
  <2> QED BY <1>3, <1>5, <1>7, <2>1
<1>13. ASSUME NEW i \in DOMAIN t, NEW j \in DOMAIN t, t[i].id = t[j].id PROVE i = j
  <2>1. \A k \in DOMAIN t : k # 1 => t[k].id # e
    BY <1>5, <1>6
  <2>2. CASE i = 1 \/ j = 1
    BY <1>3, <1>5, <1>13, <2>1, <2>2
  <2>3. CASE i # 1 /\ j # 1
    <3>1. i - 1 \in DOMAIN s /\ j - 1 \in DOMAIN s /\ s[i - 1].id = s[j - 1].id
      BY <1>5, <1>13, <2>3
    <3>2. i - 1 = j - 1
      BY <1>2, <3>1 DEF CallsInv
    <3>3. i \in 1 .. Len(s) + 1 /\ j \in 1 .. Len(s) + 1
      BY <1>5
    <3> QED BY <3>2, <3>3
  <2> QED BY <2>2, <2>3
<1>14. \A k \in DOMAIN bus : call'[bus[k].id] # "none"
  <2>1. ASSUME NEW k \in DOMAIN bus PROVE call'[bus[k].id] # "none"
    <3>1. bus[k] \in Told /\ call[bus[k].id] # "none"
      BY DEF CallsInv
    <3>2. bus[k].id \in Executions
      BY <3>1 DEF Told
    <3> QED BY <1>7, <3>1, <3>2
  <2> QED BY <2>1
<1>15. bus' \in Seq(Told)
  BY <1>1 DEF CallsInv
<1>16. bus' = bus /\ replaced' = replaced /\ stack' = t
  BY <1>1, <1>2
<1> QED BY <1>7, <1>10, <1>11, <1>12, <1>13, <1>14, <1>15, <1>16 DEF CallsInv

(* A handler, an executor or a caller moves or creates an execution.       *)
LEMMA InterventionCalls ==
  ASSUME FlowInv, CallsInv, CreateExecution \/ MoveLifecycle \/ MoveState PROVE CallsInv'
<1>1. stack' = stack /\ call' = call /\ bus' = bus
  BY DEF CreateExecution, MoveLifecycle, MoveState, Intervene
<1>2. PICK e \in Executions :
        /\ \A d \in Executions : d # e => execution'[d] = execution[d]
        /\ replaced \subseteq replaced'
        /\ \/ call[e] = "none" \/ e \in replaced'
           \/ \E to \in Stages, ok \in BOOLEAN \cup {Unset}, told \in BOOLEAN :
                /\ execution[e] \in Truthful /\ MayMove(execution[e], to)
                /\ execution'[e] = Transition(execution[e], to, ok, told)
  <2>1. CASE CreateExecution
    <3>1. PICK e \in Executions : /\ Save(e, NewExecution)
                                  /\ replaced' = IF call[e] = "none" THEN replaced ELSE replaced \cup {e}
      BY <2>1 DEF CreateExecution
    <3>2. \A d \in Executions : d # e => execution'[d] = execution[d]
      BY <3>1 DEF Save, FlowInv
    <3> QED BY <3>1, <3>2
  <2>2. CASE MoveLifecycle \/ MoveState
    <3>1. PICK e \in Executions, to \in Stages, ok \in BOOLEAN \cup {Unset}, told \in BOOLEAN :
            /\ execution[e] # Unset /\ MayMove(execution[e], to)
            /\ Save(e, Transition(execution[e], to, ok, told)) /\ replaced' = replaced
      BY <2>2 DEF MoveLifecycle, MoveState
    <3>2. PICK y : y = Transition(execution[e], to, ok, told)
      OBVIOUS
    <3>3. execution' = [execution EXCEPT ![e] = y]
      BY <3>1, <3>2 DEF Save
    <3>4. execution'[e] = y /\ execution[e] \in Truthful /\ \A d \in Executions : d # e => execution'[d] = execution[d]
      BY <3>1, <3>3 DEF FlowInv
    <3> QED BY <3>1, <3>2, <3>4
  <2> QED BY <2>1, <2>2
<1>3. ASSUME execution[e] \in Truthful, NEW b, NEW f, Came(execution[e], b, f), call[e] # "none", e \notin replaced'
      PROVE  Came(execution'[e], b, f)
  <2>1. PICK to \in Stages, ok \in BOOLEAN \cup {Unset}, told \in BOOLEAN :
          MayMove(execution[e], to) /\ execution'[e] = Transition(execution[e], to, ok, told)
    BY <1>2, <1>3
  <2>2. PICK x, y : x = execution[e] /\ y = execution'[e]
    OBVIOUS
  <2>3. /\ x \in Truthful /\ y \in Truthful /\ y.outputs = x.outputs
        /\ y.events = x.events \/ y.events = Append(x.events, StateChanged(x, to))
    <3>1. x \in Truthful /\ y = Transition(x, to, ok, told)
      BY <1>3, <2>1, <2>2
    <3> QED BY <3>1, TransitionFacts
  <2>4. StateChanged(x, to) \in Events /\ StateChanged(x, to).type = "state_changed"
    <3>1. Last(x.history) \in Stages /\ Len(x.history) \in Nat
      BY <2>3, TruthfulFacts DEF Last, Aggregates
    <3> QED BY <3>1 DEF StateChanged, Event, Events
  <2>5. f.at # "archived"
    <3>1. Last(x.history) = "archived" => FALSE
      BY <2>1, <2>2 DEF MayMove, ValidTransitions
    <3> QED BY <1>3, <2>2, <3>1 DEF Came
  <2>6. Came(x, b, f)
    BY <1>3, <2>2
  <2> QED BY <2>2, <2>3, <2>4, <2>5, <2>6, CameStay
<1>4. ASSUME NEW i \in DOMAIN stack, stack[i].id \notin replaced'
      PROVE  Came(execution'[stack[i].id], bus, stack[i])
  <2>1. Came(execution[stack[i].id], bus, stack[i]) /\ call[stack[i].id] # "none"
    BY <1>2, <1>4 DEF CallsInv
  <2>2. stack[i] \in Frames /\ execution[stack[i].id] # Unset
    BY DEF FlowInv
  <2>3. stack[i].id \in Executions
    BY <2>2 DEF Frames
  <2>4. execution[stack[i].id] \in Truthful
    BY <2>2, <2>3 DEF FlowInv
  <2>5. CASE stack[i].id = e
    BY <1>3, <1>4, <2>1, <2>4, <2>5
  <2>6. CASE stack[i].id # e
    BY <1>2, <2>1, <2>3, <2>6
  <2> QED BY <2>5, <2>6
<1>5. ASSUME NEW d \in Executions, d \notin replaced', call[d] = "resolved" PROVE Unanimous(d, execution'[d], bus)
  <2>1. Unanimous(d, execution[d], bus)
    BY <1>2, <1>5 DEF CallsInv, VerdictsAgree
  <2>2. CASE d # e
    BY <1>2, <2>1, <2>2
  <2>3. CASE d = e
    <3>1. PICK to \in Stages : MayMove(execution[e], to)
      BY <1>2, <1>5, <2>3
    <3>2. Last(execution[e].history) = "archived"
      BY <2>1, <2>3 DEF Unanimous
    <3> QED BY <3>1, <3>2 DEF MayMove, ValidTransitions
  <2> QED BY <2>2, <2>3
<1>6. VerdictsAgree'
  BY <1>1, <1>5 DEF VerdictsAgree
<1> QED BY <1>1, <1>4, <1>6 DEF CallsInv
-----------------------------------------------------------------------------
LEMMA TopCame ==
  ASSUME FlowInv, CallsInv, stack # <<>>
  PROVE  /\ Top \in Frames /\ Top.id \in Executions /\ execution[Top.id] \in Truthful
         /\ execution[Top.id] \in Aggregates
         /\ Top.id \notin replaced => Came(execution[Top.id], bus, Top)
<1>1. 1 \in DOMAIN stack
  BY DEF FlowInv
<1>2. Top.id \notin replaced => Came(execution[Top.id], bus, Top)
  BY <1>1 DEF CallsInv, Top
<1> QED BY <1>2, TopFacts

LEMMA SavedTop ==
  ASSUME FlowInv, stack # <<>>, NEW y, Save(Top.id, y)
  PROVE  execution'[Top.id] = y /\ \A d \in Executions : d # Top.id => execution'[d] = execution[d]
<1>1. Top.id \in Executions
  BY TopFacts
<1>2. PICK e : e = Top.id
  OBVIOUS
<1>3. execution' = [execution EXCEPT ![e] = y]
  BY <1>2 DEF Save
<1> QED BY <1>1, <1>2, <1>3 DEF FlowInv

(* The verdict is one of the words, and never the first one.               *)
LEMMA VerdictWord == \A ok \in BOOLEAN : Verdict(ok) \in Words /\ Verdict(ok) # "started" /\ Verdict(ok) # "state_changed"
  BY DEF Verdict, Words

LEMMA Sentences ==
  ASSUME NEW f \in Frames
  PROVE  /\ Succeeded(f.outputs) \in BOOLEAN
         /\ <<>> \in Seq(Words) /\ <<"started">> \in Seq(Words)
         /\ Append(<<>>, "started") = <<"started">>
         /\ Append(<<"started">>, Verdict(Succeeded(f.outputs))) = TwoWords(f)
<1>1. "started" \in Words
  BY DEF Words
<1>2. <<>> \in Seq(Words) /\ <<"started">> \in Seq(Words)
  BY <1>1
<1>3. Append(<<>>, "started") = <<"started">>
  OBVIOUS
<1>4. PICK v : v = Verdict(Succeeded(f.outputs))
  OBVIOUS
<1>5. Append(<<"started">>, v) = <<"started", v>>
  <2>1. v \in Words
    BY <1>4, VerdictWord DEF Succeeded
  <2>2. PICK s, t, u : s = <<"started">> /\ t = Append(s, v) /\ u = <<"started", v>>
    OBVIOUS
  <2>3. s \in Seq(Words) /\ Len(s) = 1 /\ s[1] = "started"
    BY <1>2, <2>2
  <2>4. t \in Seq(Words) /\ Len(t) = 2 /\ t[1] = "started" /\ t[2] = v
    BY <2>1, <2>2, <2>3, AppendProperties
  <2>5. u \in Seq(Words) /\ Len(u) = 2 /\ u[1] = "started" /\ u[2] = v
    BY <1>1, <2>1, <2>2
  <2>6. \A i \in 1 .. 2 : t[i] = u[i]
    BY <2>4, <2>5
  <2> QED BY <2>2, <2>4, <2>5, <2>6, SeqEqual
<1> QED BY <1>2, <1>3, <1>4, <1>5 DEF Succeeded, TwoWords

(* A transition of the flow leaves alone what has been said and heard.     *)
LEMMA AdvanceCalls ==
  ASSUME FlowInv, CallsInv, NEW from, NEW to \in Stages, NEW at \in {"initialized", "prepared", "running", "completed", "archived"},
         NEW ok \in BOOLEAN \cup {Unset}, Advance(from, to, at, ok),
         <<from, to, at>> \in {<<"created", "initialized", "initialized">>, <<"initialized", "prepared", "prepared">>,
                               <<"prepared", "running", "running">>, <<"told", "completed", "completed">>,
                               <<"completed", "archived", "archived">>}
  PROVE  CallsInv'
<1>1. stack # <<>> /\ Top.at = from /\ bus' = bus /\ replaced' = replaced
  BY DEF Advance, At
<1>2. /\ Top \in Frames /\ Top.id \in Executions /\ execution[Top.id] \in Truthful
      /\ Top.id \notin replaced => Came(execution[Top.id], bus, Top)
  BY <1>1, TopCame
<1>3. CASE MayMove(execution[Top.id], to)
  <2>1. PICK x, y, f : x = execution[Top.id] /\ y = Transition(x, to, ok, TRUE) /\ f = [Top EXCEPT !.at = at]
    OBVIOUS
  <2>2. Save(Top.id, y) /\ stack' = <<f>> \o Tail(stack) /\ call' = call
    BY <1>3, <2>1 DEF Advance, AdvanceTop
  <2>3. f \in Frames /\ f.id = Top.id /\ f.at = at /\ f.outputs = Top.outputs
    BY <1>2, <2>1 DEF Frames
  <2>4. /\ x \in Truthful /\ y \in Truthful /\ y.outputs = x.outputs /\ y.history = Append(x.history, to)
        /\ y.events = x.events \/ y.events = Append(x.events, StateChanged(x, to))
    BY <1>2, <2>1, TransitionFacts
  <2>5. StateChanged(x, to) \in Events /\ StateChanged(x, to).type = "state_changed"
    <3>1. Last(x.history) \in Stages /\ Len(x.history) \in Nat
      BY <2>4, TruthfulFacts DEF Last, Aggregates
    <3> QED BY <3>1 DEF StateChanged, Event, Events
  <2>6. ASSUME Came(x, bus, Top) PROVE Came(y, bus, f)
    <3>1. SaidBy(f) = SaidBy(Top) /\ HeardOf(f) = HeardOf(Top)
      BY <1>1, <2>3 DEF SaidBy, HeardOf, TwoWords
    <3>2. Says(y, SaidBy(Top))
      BY <2>4, <2>5, <2>6, SaysStay, TruthfulFacts DEF Came
    <3>3. f.at \in {"completing", "judged", "told", "completed", "archived"} => y.outputs = f.outputs
      BY <1>1, <2>3, <2>4, <2>6 DEF Came
    <3>4. f.at = "archived" => Last(y.history) = "archived"
      <4>1. x.history \in Seq(Stages)
        BY <2>4, TruthfulFacts DEF Aggregates
      <4>2. Last(y.history) = to
        BY <2>4, <4>1 DEF Last
      <4> QED BY <2>3, <4>2
    <3> QED BY <2>3, <2>6, <3>1, <3>2, <3>3, <3>4 DEF Came
  <2>7. execution'[Top.id] = y /\ \A d \in Executions : d # Top.id => execution'[d] = execution[d]
    BY <1>1, <2>2, SavedTop
  <2>8. Top.id \notin replaced => Came(execution'[Top.id], bus', f)
    BY <1>1, <1>2, <2>1, <2>6, <2>7
  <2> QED BY <1>1, <2>2, <2>3, <2>7, <2>8, TopMoves
<1>4. CASE ~MayMove(execution[Top.id], to)
  <2>1. Leave("rejected") /\ execution' = execution
    BY <1>4 DEF Advance
  <2> QED BY <1>1, <2>1, TopLeaves
<1> QED BY <1>3, <1>4

(* An event of the flow is recorded.                                       *)
LEMMA PublishCalls ==
  ASSUME FlowInv, CallsInv, PublishStarted \/ PublishVerdict
  PROVE  CallsInv'
<1>1. PICK from, type, at :
        /\ Publish(from, type, at)
        /\ \/ from = "running" /\ type = "started" /\ at = "started"
           \/ from = "completing" /\ type = Verdict(Succeeded(Top.outputs)) /\ at = "judged"
  BY DEF PublishStarted, PublishVerdict
<1>2. /\ stack # <<>> /\ Top.at = from /\ bus' = bus /\ replaced' = replaced /\ call' = call
      /\ Save(Top.id, RecordEvent(execution[Top.id], Event(type, Unset, Unset, 0)))
      /\ stack' = <<[Top EXCEPT !.at = at]>> \o Tail(stack)
  BY <1>1 DEF Publish, At, AdvanceTop
<1>3. /\ Top \in Frames /\ Top.id \in Executions /\ execution[Top.id] \in Aggregates
      /\ Top.id \notin replaced => Came(execution[Top.id], bus, Top)
  BY <1>2, TopCame
<1>4. PICK x, v, y, f : /\ x = execution[Top.id] /\ v = Event(type, Unset, Unset, 0)
                        /\ y = RecordEvent(x, v) /\ f = [Top EXCEPT !.at = at]
  OBVIOUS
<1>5. f \in Frames /\ f.id = Top.id /\ f.at = at /\ f.outputs = Top.outputs
  BY <1>1, <1>3, <1>4 DEF Frames
<1>6. type \in Words /\ v \in Events /\ v.type = type
  <2>1. type \in Words
    BY <1>1, <1>3, Sentences, VerdictWord DEF Words
  <2> QED BY <1>4, <2>1 DEF Event, Events, Words
<1>7. ASSUME Came(x, bus, Top) PROVE Came(y, bus, f)
  <2>1. PICK types \in Seq(Words) :
          types = SaidBy(Top) /\ Append(types, type) = SaidBy(f) /\ \A i \in DOMAIN types : types[i] # type
    <3>1. CASE from = "running"
      <4>1. SaidBy(Top) = <<>> /\ SaidBy(f) = <<"started">>
        BY <1>1, <1>2, <1>5, <3>1 DEF SaidBy
      <4>2. <<>> \in Seq(Words) /\ Append(<<>>, type) = SaidBy(f) /\ \A i \in DOMAIN <<>> : <<>>[i] # type
        BY <1>1, <1>3, <3>1, <4>1, Sentences
      <4> QED BY <4>1, <4>2
    <3>2. CASE from = "completing"
      <4>1. SaidBy(Top) = <<"started">> /\ SaidBy(f) = TwoWords(Top) /\ type = Verdict(Succeeded(Top.outputs))
        BY <1>1, <1>2, <1>5, <3>2 DEF SaidBy, TwoWords
      <4>2. type # "started"
        BY <1>3, <4>1, Sentences, VerdictWord
      <4>3. <<"started">> \in Seq(Words) /\ Append(<<"started">>, type) = SaidBy(f)
        BY <1>3, <4>1, Sentences
      <4>4. \A i \in DOMAIN <<"started">> : <<"started">>[i] # type
        BY <4>2
      <4> QED BY <4>1, <4>3, <4>4
    <3> QED BY <1>1, <3>1, <3>2
  <2>2. Says(x, types)
    BY <1>7, <2>1 DEF Came
  <2>3. \A i \in DOMAIN x.events : x.events[i].type # v.type
    BY <1>3, <1>4, <1>6, <2>1, <2>2, SaysNot
  <2>4. /\ y \in Aggregates /\ y.events = Append(x.events, Event(type, Unset, Unset, 0))
        /\ y.outputs = x.outputs
    BY <1>3, <1>4, <1>6, <2>3, RecordFacts
  <2>5. Says(y, SaidBy(f))
    BY <1>3, <1>4, <1>6, <2>1, <2>2, <2>4, SaysNext
  <2>6. HeardOf(f) = HeardOf(Top)
    BY <1>1, <1>2, <1>5 DEF HeardOf
  <2>7. f.at \in {"completing", "judged", "told", "completed", "archived"} => y.outputs = f.outputs
    BY <1>1, <1>2, <1>5, <1>7, <2>4 DEF Came
  <2>8. f.at # "archived"
    BY <1>1, <1>5
  <2> QED BY <1>5, <1>7, <2>5, <2>6, <2>7, <2>8 DEF Came
<1>8. execution'[Top.id] = y /\ \A d \in Executions : d # Top.id => execution'[d] = execution[d]
  BY <1>2, <1>4, SavedTop
<1>9. Top.id \notin replaced => Came(execution'[Top.id], bus', f)
  BY <1>2, <1>3, <1>4, <1>7, <1>8
<1> QED BY <1>2, <1>4, <1>5, <1>8, <1>9, TopMoves

(* The event bus is told of it.                                            *)
LEMMA BridgeCalls ==
  ASSUME FlowInv, CallsInv, BridgeStarted \/ BridgeVerdict
  PROVE  CallsInv'
<1>1. PICK from, message, at :
        /\ Bridge(from, message, at)
        /\ \/ from = "started" /\ message = "started" /\ at = "entering"
           \/ from = "judged" /\ message = Verdict(Succeeded(Top.outputs)) /\ at = "told"
  BY DEF BridgeStarted, BridgeVerdict
<1>2. /\ stack # <<>> /\ Top.at = from /\ execution' = execution /\ replaced' = replaced /\ call' = call
      /\ bus' = Append(bus, [id |-> Top.id, message |-> message])
      /\ stack' = <<[Top EXCEPT !.at = at]>> \o Tail(stack)
  BY <1>1 DEF Bridge, At, AdvanceTop
<1>3. /\ Top \in Frames /\ Top.id \in Executions /\ execution[Top.id] \in Aggregates
      /\ Top.id \notin replaced => Came(execution[Top.id], bus, Top)
  BY <1>2, TopCame
<1>4. PICK x, m, f : /\ x = execution[Top.id] /\ m = [id |-> Top.id, message |-> message]
                     /\ f = [Top EXCEPT !.at = at]
  OBVIOUS
<1>5. f \in Frames /\ f.id = Top.id /\ f.at = at /\ f.outputs = Top.outputs
  BY <1>1, <1>3, <1>4 DEF Frames
<1>6. message \in Words /\ m \in Told /\ m.id = Top.id
  <2>1. message \in Words
    BY <1>1, <1>3, Sentences, VerdictWord DEF Words
  <2> QED BY <1>3, <1>4, <2>1 DEF Told
<1>7. ASSUME Came(x, bus, Top) PROVE Came(x, bus', f)
  <2>1. PICK messages \in Seq(Words) : messages = HeardOf(Top) /\ Append(messages, message) = HeardOf(f)
    <3>1. CASE from = "started"
      <4>1. HeardOf(Top) = <<>> /\ HeardOf(f) = <<"started">>
        BY <1>1, <1>2, <1>5, <3>1 DEF HeardOf
      <4> QED BY <1>1, <1>3, <3>1, <4>1, Sentences
    <3>2. CASE from = "judged"
      <4>1. HeardOf(Top) = <<"started">> /\ HeardOf(f) = TwoWords(Top) /\ message = Verdict(Succeeded(Top.outputs))
        BY <1>1, <1>2, <1>5, <3>2 DEF HeardOf, TwoWords
      <4> QED BY <1>3, <4>1, Sentences
    <3> QED BY <1>1, <3>1, <3>2
  <2>2. Hears(bus, Top.id, messages) /\ bus \in Seq(Told)
    BY <1>7, <2>1 DEF Came, CallsInv
  <2>3. Hears(bus', f.id, HeardOf(f))
    BY <1>2, <1>3, <1>5, <1>6, <2>1, <2>2, HearsNext
  <2>4. SaidBy(f) = SaidBy(Top)
    BY <1>1, <1>2, <1>5 DEF SaidBy, TwoWords
  <2>5. f.at \in {"completing", "judged", "told", "completed", "archived"} => x.outputs = f.outputs
    BY <1>1, <1>2, <1>5, <1>7 DEF Came
  <2>6. f.at # "archived"
    BY <1>1, <1>5
  <2> QED BY <1>7, <2>3, <2>4, <2>5, <2>6 DEF Came
<1>8. Top.id \notin replaced => Came(execution'[Top.id], bus', f)
  BY <1>2, <1>3, <1>4, <1>7
<1>9. bus' = Append(bus, m)
  BY <1>2, <1>4
<1> QED BY <1>2, <1>4, <1>5, <1>6, <1>8, <1>9, TopMoves

LEMMA RunArtifactCalls == ASSUME FlowInv, CallsInv, RunArtifact PROVE CallsInv'
<1>1. /\ stack # <<>> /\ Top.at \in {"entering", "executing"} /\ Top.left > 0
      /\ bus' = bus /\ execution' = execution /\ replaced' = replaced /\ call' = call
  BY DEF RunArtifact, At, AdvanceTop
<1>2. PICK ok \in BOOLEAN :
        stack' = <<[Top EXCEPT !.at = "executing", !.left = @ - 1, !.outputs = Append(@, ok)]>> \o Tail(stack)
  BY DEF RunArtifact, AdvanceTop
<1>3. Top \in Frames /\ (Top.id \notin replaced => Came(execution[Top.id], bus, Top))
  BY <1>1, TopCame
<1>4. PICK f : f = [Top EXCEPT !.at = "executing", !.left = @ - 1, !.outputs = Append(@, ok)]
  OBVIOUS
<1>5. Top.left - 1 \in Nat /\ Append(Top.outputs, ok) \in Seq(BOOLEAN)
  BY <1>1, <1>3 DEF Frames
<1>6. f \in Frames /\ f.id = Top.id /\ f.at = "executing"
  BY <1>3, <1>4, <1>5 DEF Frames
<1>7. SaidBy(f) = SaidBy(Top) /\ HeardOf(f) = HeardOf(Top)
  BY <1>1, <1>6 DEF SaidBy, HeardOf
<1>8. Top.id \notin replaced => Came(execution[Top.id], bus, f)
  BY <1>3, <1>6, <1>7 DEF Came
<1> QED BY <1>1, <1>2, <1>4, <1>6, <1>8, TopMoves

(* The outputs are set with the transition, or stay without it.            *)
LEMMA CompleteCalls == ASSUME FlowInv, CallsInv, Complete PROVE CallsInv'
<1>1. stack # <<>> /\ Top.at \in {"entering", "executing"} /\ bus' = bus /\ replaced' = replaced
  BY DEF Complete, At
<1>2. /\ Top \in Frames /\ Top.id \in Executions /\ execution[Top.id] \in Truthful /\ execution[Top.id] \in Aggregates
      /\ Top.id \notin replaced => Came(execution[Top.id], bus, Top)
  BY <1>1, TopCame
<1>3. PICK w, x, ok : w = execution[Top.id] /\ x = [w EXCEPT !.outputs = Top.outputs] /\ ok = Succeeded(Top.outputs)
  OBVIOUS
<1>4. x \in Aggregates /\ x.history = w.history /\ x.events = w.events /\ x.outputs = Top.outputs
  BY <1>2, <1>3 DEF Aggregates, Frames
<1>5. x \in Truthful /\ w \in Truthful /\ ok \in BOOLEAN \cup {Unset}
  BY <1>2, <1>3, <1>4, SameEvents, Sentences
<1>6. CASE MayMove(x, "completing")
  <2>1. PICK y, f : y = Transition(x, "completing", ok, TRUE) /\ f = [Top EXCEPT !.at = "completing"]
    OBVIOUS
  <2>2. Save(Top.id, y) /\ stack' = <<f>> \o Tail(stack) /\ call' = call
    BY <1>3, <1>6, <2>1 DEF Complete, AdvanceTop
  <2>3. f \in Frames /\ f.id = Top.id /\ f.at = "completing" /\ f.outputs = Top.outputs
    BY <1>2, <2>1 DEF Frames
  <2>4. "completing" \in Stages
    BY DEF Stages
  <2>5. /\ y \in Truthful /\ y.outputs = x.outputs
        /\ y.events = x.events \/ y.events = Append(x.events, StateChanged(x, "completing"))
    BY <1>5, <2>1, <2>4, TransitionFacts
  <2>6. StateChanged(x, "completing") \in Events /\ StateChanged(x, "completing").type = "state_changed"
    <3>1. Last(x.history) \in Stages /\ Len(x.history) \in Nat
      BY <1>4 DEF Last, Aggregates
    <3> QED BY <2>4, <3>1 DEF StateChanged, Event, Events
  <2>7. ASSUME Came(w, bus, Top) PROVE Came(y, bus, f)
    <3>1. SaidBy(f) = SaidBy(Top) /\ HeardOf(f) = HeardOf(Top)
      BY <1>1, <2>3 DEF SaidBy, HeardOf
    <3>2. Says(w, SaidBy(Top))
      BY <2>7 DEF Came
    <3>3. y.events = w.events \/ y.events = Append(w.events, StateChanged(x, "completing"))
      BY <1>4, <2>5
    <3>4. Says(y, SaidBy(Top))
      BY <1>5, <2>5, <2>6, <3>2, <3>3, SaysStay, TruthfulFacts
    <3> QED BY <1>4, <2>3, <2>5, <2>7, <3>1, <3>4 DEF Came
  <2>8. execution'[Top.id] = y /\ \A d \in Executions : d # Top.id => execution'[d] = execution[d]
    BY <1>1, <2>2, SavedTop
  <2>9. Top.id \notin replaced => Came(execution'[Top.id], bus', f)
    BY <1>1, <1>2, <1>3, <2>7, <2>8
  <2> QED BY <1>1, <2>2, <2>3, <2>8, <2>9, TopMoves
<1>7. CASE ~MayMove(x, "completing")
  <2>1. Save(Top.id, x) /\ Leave("rejected")
    BY <1>3, <1>7 DEF Complete
  <2>2. \A d \in Executions : d # Top.id => execution'[d] = execution[d]
    BY <1>1, <2>1, SavedTop
  <2> QED BY <1>1, <2>1, <2>2, TopLeaves
<1> QED BY <1>6, <1>7

(* The call is answered, with everything said.                             *)
LEMMA FinalizeCalls == ASSUME FlowInv, CallsInv, Finalize PROVE CallsInv'
<1>1. stack # <<>> /\ Top.at = "archived" /\ bus' = bus /\ replaced' = replaced
  BY DEF Finalize, At
<1>2. /\ Top \in Frames /\ Top.id \in Executions /\ execution[Top.id] \in Aggregates
      /\ Top.id \notin replaced => Came(execution[Top.id], bus, Top)
  BY <1>1, TopCame
<1>3. PICK x, ok, y : /\ x = execution[Top.id] /\ ok = Succeeded(Top.outputs)
                      /\ y = [x EXCEPT !.result = ok, !.status = Verdict(ok)]
  OBVIOUS
<1>4. ok \in BOOLEAN /\ Verdict(ok) \in {"completed", "failed"}
  BY <1>2, <1>3, Sentences DEF Verdict
<1>5. /\ y \in Aggregates /\ y.events = x.events /\ y.history = x.history /\ y.outputs = x.outputs
      /\ y.result = ok /\ y.status = Verdict(ok)
  BY <1>2, <1>3, <1>4 DEF Aggregates
<1>6. Save(Top.id, y) /\ Leave("resolved")
  BY <1>3 DEF Finalize
<1>7. execution'[Top.id] = y /\ \A d \in Executions : d # Top.id => execution'[d] = execution[d]
  BY <1>1, <1>6, SavedTop
<1>8. ASSUME Came(x, bus, Top) PROVE Unanimous(Top.id, y, bus)
  <2>1. SaidBy(Top) = <<"started", Verdict(ok)>> /\ HeardOf(Top) = <<"started", Verdict(ok)>>
    BY <1>1, <1>3 DEF SaidBy, HeardOf, TwoWords
  <2>2. Says(y, <<"started", Verdict(y.result)>>)
    <3>1. PICK types : types = SaidBy(Top)
      OBVIOUS
    <3>2. Says(x, types)
      BY <1>8, <3>1 DEF Came
    <3>3. x \in Aggregates /\ y \in Aggregates /\ y.events = x.events
      BY <1>2, <1>3, <1>5
    <3>4. Says(y, types)
      BY <3>2, <3>3, SaysStay
    <3> QED BY <1>5, <2>1, <3>1, <3>4
  <2>3. Hears(bus, Top.id, <<"started", Verdict(y.result)>>)
    BY <1>5, <1>8, <2>1 DEF Came
  <2>4. x.outputs = Top.outputs /\ Last(x.history) = "archived"
    BY <1>1, <1>8 DEF Came
  <2>5. y.result = \A i \in DOMAIN y.outputs : y.outputs[i]
    BY <1>3, <1>5, <2>4 DEF Succeeded
  <2> QED BY <1>4, <1>5, <2>2, <2>3, <2>4, <2>5 DEF Unanimous
<1>9. Top.id \in replaced \/ Unanimous(Top.id, execution'[Top.id], bus)
  BY <1>2, <1>3, <1>7, <1>8
<1> QED BY <1>1, <1>6, <1>7, <1>9, TopLeaves

LEMMA CallsSteps == FlowInv /\ CallsInv /\ [ExecutionNext]_executionVars => CallsInv'
<1> SUFFICES ASSUME FlowInv, CallsInv, [ExecutionNext]_executionVars PROVE CallsInv'
  OBVIOUS
<1>1. Succeeded(Top.outputs) \in BOOLEAN \cup {Unset}
  BY DEF Succeeded
<1>2. Unset \in BOOLEAN \cup {Unset} /\ {"initialized", "prepared", "running", "completed", "archived"} \subseteq Stages
  BY DEF Stages
<1>3. CASE Initialize \/ Prepare \/ Run
  BY <1>2, <1>3, AdvanceCalls DEF Initialize, Prepare, Run
<1>4. CASE CloseExecution \/ Archive
  BY <1>1, <1>2, <1>4, AdvanceCalls DEF CloseExecution, Archive
<1>5. CASE CalleeThrows
  <2>1. stack # <<>> /\ execution' = execution /\ bus' = bus /\ replaced' = replaced /\ Leave("rejected")
    BY <1>5 DEF CalleeThrows, CallingOut
  <2> QED BY <2>1, TopLeaves
<1>6. CASE UNCHANGED executionVars
  <2>1. VerdictsAgree'
    BY <1>6 DEF executionVars, CallsInv, VerdictsAgree
  <2> QED BY <1>6, <2>1 DEF executionVars, CallsInv
<1> QED BY <1>3, <1>4, <1>5, <1>6, ExecuteCalls, InterventionCalls, PublishCalls, BridgeCalls, RunArtifactCalls,
           CompleteCalls, FinalizeCalls DEF ExecutionNext, Flow

(* Every account of an answered execution gives the same verdict.          *)
THEOREM VerdictsStayUnanimous == ExecutionSpec => []VerdictsAgree
<1>1. ExecutionInit => FlowInv /\ CallsInv
  BY DEF ExecutionInit, FlowInv, CallsInv, VerdictsAgree
<1>2. CallsInv => VerdictsAgree
  BY DEF CallsInv
<1> QED BY <1>1, <1>2, FlowSteps, CallsSteps, PTL DEF ExecutionSpec

-----------------------------------------------------------------------------
(***************************************************************************)
(* ToolLoop, for any number of turns that overlap, any window and any      *)
(* budget: what is sent to the provider is whole.  And LlmProviders:       *)
(* whatever delays a server asks for and however many attempts are made,   *)
(* no request is sent before its time and no turn is held up beyond the    *)
(* limit.                                                                  *)
(*                                                                         *)
(* The window is the end of the history from some turn on.  That it is     *)
(* whole does not follow from the whole history being so; the invariant    *)
(* says it of the end of the history from every turn on.                   *)
(***************************************************************************)
(* Messages that can be sent, given the budget.                            *)
WholeMessages(ms) ==
  /\ ms \in Seq(Message)
  /\ ResultsHaveCalls(ms)
  /\ limit = NoLimit => CallsHaveResults(ms)

(* A window: nothing, or whole turns.                                      *)
IsWindow(ms) == WholeMessages(ms) /\ (ms = <<>> \/ ms[1] = User)

HistoryFits ==
  /\ IsWindow(history)
  /\ boundaries \in Seq(Nat)
  /\ \A k \in DOMAIN boundaries :
       /\ boundaries[k] < Len(history)
       /\ IsWindow(From(history, boundaries[k] + 1))

(* The last message that calls tools is the i-th; those before have their  *)
(* results, and it has some of its own.                                    *)
Calling(ms, i) ==
  /\ i \in 1 .. Len(ms) /\ ms[i].role = "assistant"
  /\ Len(ms) - i < ms[i].calls
  /\ \A k \in 1 .. Len(ms) - i : ms[i + k] = Tool(k)
  /\ \A j \in 1 .. i - 1 : \A k \in 1 .. ms[j].calls : j + k <= Len(ms) /\ ms[j + k] = Tool(k)

\* What the loop l of a turn is that waits for step.
Fits(l, step) ==
  /\ l.shared \/ IsWindow(l.window)
  /\ step = "building" => l.transcript = <<>> /\ l.calls = 0
  /\ step \in {"calling", "executing"} => IsWindow(l.window) /\ ResultsHaveCalls(l.transcript)
  /\ step = "calling" => CallsHaveResults(l.transcript) /\ l.calls < MaxTurns
  /\ step = "executing" => \E i \in Nat : Calling(l.transcript, i)

LoopInv ==
  /\ TypeOK
  /\ HistoryFits
  /\ \A t \in Turns : Fits(loop[t], pc[t])

-----------------------------------------------------------------------------
LEMMA Messages ==
  /\ User \in Message /\ User.role = "user" /\ User.calls = 0
  /\ \A n \in 0 .. MaxCalls : /\ Assistant(n) \in Message /\ Assistant(n).role = "assistant"
                              /\ Assistant(n).calls = n
  /\ \A k \in 0 .. MaxCalls : /\ Tool(k) \in Message /\ Tool(k).role = "tool"
                              /\ Tool(k).calls = 0 /\ Tool(k).call = k
  /\ \A m \in Message : m.calls \in 0 .. MaxCalls /\ m.call \in Nat
<1>1. MaxCalls \in Nat
  BY BoundsAssumption
<1> QED BY <1>1 DEF User, Assistant, Tool, Message

LEMMA MessagesJoined ==
  ASSUME NEW S, NEW a \in Seq(S), NEW b \in Seq(S), NEW c, c = a \o b
  PROVE  /\ c \in Seq(S) /\ Len(a) \in Nat /\ Len(b) \in Nat /\ Len(c) = Len(a) + Len(b)
         /\ \A i \in 1 .. Len(a) : c[i] = a[i]
         /\ \A i \in 1 .. Len(b) : c[Len(a) + i] = b[i]
         /\ \A i \in 1 .. Len(c) : i \in 1 .. Len(a) \/ i - Len(a) \in 1 .. Len(b)
<1>1. /\ c \in Seq(S) /\ Len(c) = Len(a) + Len(b) /\ Len(a) \in Nat /\ Len(b) \in Nat
      /\ \A i \in 1 .. Len(a) + Len(b) : c[i] = IF i <= Len(a) THEN a[i] ELSE b[i - Len(a)]
  BY ConcatProperties, LenProperties
<1>2. \A i \in 1 .. Len(a) : i \in 1 .. Len(a) + Len(b) /\ i <= Len(a)
  BY <1>1
<1>3. \A i \in 1 .. Len(b) : /\ Len(a) + i \in 1 .. Len(a) + Len(b) /\ ~(Len(a) + i <= Len(a))
                             /\ (Len(a) + i) - Len(a) = i
  BY <1>1
<1>4. \A i \in 1 .. Len(c) : i \in 1 .. Len(a) \/ i - Len(a) \in 1 .. Len(b)
  BY <1>1
<1> QED BY <1>1, <1>2, <1>3, <1>4

(* WholeMessages messages one after the other are whole.                           *)
LEMMA ResultsJoined ==
  ASSUME NEW a \in Seq(Message), NEW b \in Seq(Message), ResultsHaveCalls(a), ResultsHaveCalls(b)
  PROVE  ResultsHaveCalls(a \o b)
<1>1. PICK c : c = a \o b
  OBVIOUS
<1>2. /\ c \in Seq(Message) /\ Len(a) \in Nat /\ Len(b) \in Nat /\ Len(c) = Len(a) + Len(b)
      /\ \A i \in 1 .. Len(a) : c[i] = a[i]
      /\ \A i \in 1 .. Len(b) : c[Len(a) + i] = b[i]
      /\ \A i \in 1 .. Len(c) : i \in 1 .. Len(a) \/ i - Len(a) \in 1 .. Len(b)
  BY <1>1, MessagesJoined
<1>3. ASSUME NEW i \in 1 .. Len(c), c[i].role = "tool"
      PROVE  /\ c[i].call < i
             /\ c[i - c[i].call].role = "assistant"
             /\ c[i].call <= c[i - c[i].call].calls
  <2>1. CASE i \in 1 .. Len(a)
    <3>1. PICK n : n = a[i].call
      OBVIOUS
    <3>2. /\ c[i] = a[i] /\ n < i /\ a[i - n].role = "assistant" /\ n <= a[i - n].calls
      BY <1>2, <1>3, <2>1, <3>1 DEF ResultsHaveCalls
    <3>3. n \in Nat
      BY <2>1, <3>1, Messages, ElementOfSeq
    <3>4. i - n \in 1 .. Len(a)
      BY <1>2, <2>1, <3>2, <3>3
    <3> QED BY <1>2, <3>1, <3>2, <3>4
  <2>2. CASE i - Len(a) \in 1 .. Len(b)
    <3>1. PICK j \in 1 .. Len(b) : j = i - Len(a)
      BY <2>2
    <3>2. PICK n : n = b[j].call
      OBVIOUS
    <3>3. i = Len(a) + j
      BY <1>2, <3>1
    <3>4. c[i] = b[j]
      BY <1>2, <3>3
    <3>5. n < j /\ b[j - n].role = "assistant" /\ n <= b[j - n].calls
      BY <1>3, <3>2, <3>4 DEF ResultsHaveCalls
    <3>6. n \in Nat
      BY <3>2, Messages, ElementOfSeq
    <3>7. j - n \in 1 .. Len(b) /\ i - n = Len(a) + (j - n) /\ n < i
      BY <1>2, <3>1, <3>3, <3>5, <3>6
    <3>8. c[i - n] = b[j - n]
      BY <1>2, <3>7
    <3> QED BY <3>2, <3>4, <3>5, <3>7, <3>8
  <2> QED BY <1>2, <1>3, <2>1, <2>2
<1>4. ResultsHaveCalls(c)
  BY <1>3 DEF ResultsHaveCalls
<1> QED BY <1>1, <1>4

LEMMA CallsJoined ==
  ASSUME NEW a \in Seq(Message), NEW b \in Seq(Message), CallsHaveResults(a), CallsHaveResults(b)
  PROVE  CallsHaveResults(a \o b)
<1>1. PICK c : c = a \o b
  OBVIOUS
<1>2. /\ c \in Seq(Message) /\ Len(a) \in Nat /\ Len(b) \in Nat /\ Len(c) = Len(a) + Len(b)
      /\ \A i \in 1 .. Len(a) : c[i] = a[i]
      /\ \A i \in 1 .. Len(b) : c[Len(a) + i] = b[i]
      /\ \A i \in 1 .. Len(c) : i \in 1 .. Len(a) \/ i - Len(a) \in 1 .. Len(b)
  BY <1>1, MessagesJoined
<1>3. ASSUME NEW i \in 1 .. Len(c), NEW k \in 1 .. c[i].calls
      PROVE  i + k <= Len(c) /\ c[i + k] = Tool(k)
  <2>0. c[i].calls \in Nat
    BY <1>2, Messages, ElementOfSeq
  <2>1. CASE i \in 1 .. Len(a)
    <3>1. k \in 1 .. a[i].calls
      BY <1>2, <1>3, <2>1
    <3>2. i + k <= Len(a) /\ a[i + k] = Tool(k)
      BY <2>1, <3>1 DEF CallsHaveResults
    <3>3. i + k \in 1 .. Len(a) /\ i + k <= Len(c)
      BY <1>2, <2>0, <2>1, <3>2
    <3> QED BY <1>2, <3>2, <3>3
  <2>2. CASE i - Len(a) \in 1 .. Len(b)
    <3>1. PICK j \in 1 .. Len(b) : j = i - Len(a)
      BY <2>2
    <3>2. i = Len(a) + j
      BY <1>2, <3>1
    <3>3. k \in 1 .. b[j].calls
      BY <1>2, <1>3, <3>2
    <3>4. j + k <= Len(b) /\ b[j + k] = Tool(k)
      BY <3>3 DEF CallsHaveResults
    <3>5. j + k \in 1 .. Len(b) /\ i + k = Len(a) + (j + k) /\ i + k <= Len(c)
      BY <1>2, <2>0, <3>2, <3>4
    <3> QED BY <1>2, <3>4, <3>5
  <2> QED BY <1>2, <2>1, <2>2
<1>4. CallsHaveResults(c)
  BY <1>3 DEF CallsHaveResults
<1> QED BY <1>1, <1>4

LEMMA OneMessage ==
  ASSUME NEW m \in Message
  PROVE  /\ <<m>> \in Seq(Message)
         /\ m.role # "tool" => ResultsHaveCalls(<<m>>)
         /\ m.calls = 0 => CallsHaveResults(<<m>>)
<1>1. <<m>> \in Seq(Message) /\ Len(<<m>>) = 1 /\ <<m>>[1] = m
  OBVIOUS
<1> QED BY <1>1 DEF ResultsHaveCalls, CallsHaveResults

LEMMA NoMessage ==
  <<>> \in Seq(Message) /\ ResultsHaveCalls(<<>>) /\ CallsHaveResults(<<>>)
<1>1. <<>> \in Seq(Message) /\ Len(<<>>) = 0
  OBVIOUS
<1> QED BY <1>1 DEF ResultsHaveCalls, CallsHaveResults

LEMMA MessageAdded ==
  ASSUME NEW ms \in Seq(Message), NEW m \in Message
  PROVE  /\ Append(ms, m) \in Seq(Message)
         /\ ResultsHaveCalls(ms) /\ m.role # "tool" => ResultsHaveCalls(Append(ms, m))
         /\ CallsHaveResults(ms) /\ m.calls = 0 => CallsHaveResults(Append(ms, m))
<1>1. Append(ms, m) = ms \o <<m>>
  BY AppendIsConcat
<1>2. <<m>> \in Seq(Message)
  BY OneMessage
<1>3. ResultsHaveCalls(ms) /\ m.role # "tool" => ResultsHaveCalls(ms \o <<m>>)
  BY <1>2, OneMessage, ResultsJoined
<1>4. CallsHaveResults(ms) /\ m.calls = 0 => CallsHaveResults(ms \o <<m>>)
  BY <1>2, OneMessage, CallsJoined
<1> QED BY <1>1, <1>3, <1>4, AppendProperties

(* The turn's messages after the user's, with the user's before them.      *)
LEMMA TurnIsWindow ==
  ASSUME NEW ms \in Seq(Message), WholeMessages(ms)
  PROVE  /\ IsWindow(<<User>> \o ms)
         /\ <<User>> \o ms # <<>> /\ Len(<<User>> \o ms) \in Nat \ {0}
<1>1. User \in Message /\ <<User>> \in Seq(Message) /\ ResultsHaveCalls(<<User>>) /\ CallsHaveResults(<<User>>)
  BY Messages, OneMessage
<1>2. ResultsHaveCalls(<<User>> \o ms) /\ (limit = NoLimit => CallsHaveResults(<<User>> \o ms))
  BY <1>1, ResultsJoined, CallsJoined DEF WholeMessages
<1>3. PICK c : c = <<User>> \o ms
  OBVIOUS
<1>4. Len(<<User>>) = 1 /\ <<User>>[1] = User
  OBVIOUS
<1>5. /\ c \in Seq(Message) /\ Len(ms) \in Nat /\ Len(c) = Len(<<User>>) + Len(ms)
      /\ \A i \in 1 .. Len(<<User>>) : c[i] = <<User>>[i]
  BY <1>1, <1>3, MessagesJoined
<1>6. c[1] = User /\ Len(c) = 1 + Len(ms)
  BY <1>4, <1>5
<1>7. c # <<>>
  BY <1>5, <1>6
<1> QED BY <1>2, <1>3, <1>5, <1>6, <1>7 DEF IsWindow, WholeMessages

LEMMA WindowsJoined ==
  ASSUME NEW a, NEW b, IsWindow(a), IsWindow(b)
  PROVE  IsWindow(a \o b) /\ (b # <<>> => a \o b # <<>>)
<1>1. /\ a \in Seq(Message) /\ b \in Seq(Message) /\ ResultsHaveCalls(a) /\ ResultsHaveCalls(b)
      /\ limit = NoLimit => CallsHaveResults(a) /\ CallsHaveResults(b)
  BY DEF IsWindow, WholeMessages
<1>2. PICK c : c = a \o b
  OBVIOUS
<1>3. /\ c \in Seq(Message) /\ Len(a) \in Nat /\ Len(b) \in Nat /\ Len(c) = Len(a) + Len(b)
      /\ \A i \in 1 .. Len(a) : c[i] = a[i]
  BY <1>1, <1>2, MessagesJoined
<1>4. WholeMessages(c)
  BY <1>1, <1>2, <1>3, ResultsJoined, CallsJoined DEF WholeMessages
<1>5. CASE a = <<>>
  <2>1. c = b
    BY <1>1, <1>2, <1>5
  <2> QED BY <1>2, <1>4, <2>1 DEF IsWindow
<1>6. CASE a # <<>>
  <2>1. 1 \in 1 .. Len(a)
    BY <1>1, <1>3, <1>6
  <2>2. c[1] = User
    BY <1>3, <1>6, <2>1 DEF IsWindow
  <2>3. c # <<>>
    BY <1>3, <2>1
  <2> QED BY <1>2, <1>4, <2>2, <2>3 DEF IsWindow
<1> QED BY <1>5, <1>6

(* The end of the history from some turn on, when a turn is added.         *)
LEMMA FromJoined ==
  ASSUME NEW s \in Seq(Message), NEW m \in Seq(Message), m # <<>>
  PROVE  /\ \A n \in 1 .. Len(s) : From(s \o m, n) = From(s, n) \o m
         /\ From(s \o m, Len(s) + 1) = m
<1>1. PICK c : c = s \o m
  OBVIOUS
<1>2. /\ c \in Seq(Message) /\ Len(s) \in Nat /\ Len(m) \in Nat \ {0} /\ Len(c) = Len(s) + Len(m)
  BY <1>1, MessagesJoined, EmptySeq
<1>3. SubSeq(c, Len(s) + 1, Len(c)) = m
  <2>1. /\ Len(s) + 1 \in Len(s) + 1 .. Len(s) + Len(m) /\ Len(c) \in Len(s) + 1 .. Len(s) + Len(m)
        /\ (Len(s) + 1) - Len(s) = 1 /\ Len(c) - Len(s) = Len(m)
    BY <1>2
  <2>2. SubSeq(c, Len(s) + 1, Len(c)) = SubSeq(m, 1, Len(m))
    BY <1>1, <2>1, SubSeqOfConcat2
  <2> QED BY <2>2, SubSeqFull
<1>4. ASSUME NEW n \in 1 .. Len(s) PROVE From(c, n) = From(s, n) \o m
  <2>1. n \in 1 .. Len(c) + 1 /\ Len(s) \in n - 1 .. Len(c) /\ Len(c) \in Len(s) .. Len(c) /\ Len(s) \in 1 .. Len(s)
    BY <1>2
  <2>2. SubSeq(c, n, Len(s)) \o SubSeq(c, Len(s) + 1, Len(c)) = SubSeq(c, n, Len(c))
    BY <1>2, <2>1, ConcatAdjacentSubSeq
  <2>3. SubSeq(c, n, Len(s)) = SubSeq(s, n, Len(s))
    BY <1>1, <2>1, SubSeqOfConcat1
  <2> QED BY <1>3, <2>2, <2>3 DEF From
<1> QED BY <1>1, <1>3, <1>4 DEF From

(* recordTurnMessages keeps the history.                                   *)
LEMMA RecordFits ==
  ASSUME HistoryFits, NEW ms, WholeMessages(ms), Record(<<User>> \o ms), UNCHANGED limit
  PROVE  HistoryFits'
<1>1. PICK m : m = <<User>> \o ms
  OBVIOUS
<1>2. IsWindow(m) /\ m # <<>> /\ m \in Seq(Message) /\ Len(m) \in Nat \ {0}
  BY <1>1, TurnIsWindow DEF WholeMessages, IsWindow
<1>3. history' = history \o m /\ boundaries' = Append(boundaries, Len(history))
  BY <1>1 DEF Record
<1>4. history \in Seq(Message) /\ Len(history) \in Nat /\ boundaries \in Seq(Nat)
  BY LenProperties DEF HistoryFits, IsWindow, WholeMessages
<1>5. \A s : IsWindow(s)' <=> IsWindow(s)
  BY DEF IsWindow, WholeMessages
<1>6. Len(history') = Len(history) + Len(m)
  BY <1>2, <1>3, <1>4, MessagesJoined
<1>7. IsWindow(history')
  BY <1>2, <1>3, WindowsJoined DEF HistoryFits
<1>8. /\ boundaries' \in Seq(Nat) /\ DOMAIN boundaries = 1 .. Len(boundaries) /\ Len(boundaries) \in Nat
      /\ DOMAIN boundaries' = 1 .. Len(boundaries) + 1
      /\ \A k \in 1 .. Len(boundaries) : boundaries'[k] = boundaries[k]
      /\ boundaries'[Len(boundaries) + 1] = Len(history)
  BY <1>3, <1>4
<1>9. ASSUME NEW k \in DOMAIN boundaries'
      PROVE  boundaries'[k] < Len(history') /\ IsWindow(From(history', boundaries'[k] + 1))
  <2>1. CASE k \in DOMAIN boundaries
    <3>1. /\ boundaries'[k] = boundaries[k] /\ boundaries[k] \in Nat /\ boundaries[k] < Len(history)
          /\ IsWindow(From(history, boundaries[k] + 1))
      BY <1>8, <2>1, ElementOfSeq DEF HistoryFits
    <3>2. boundaries[k] + 1 \in 1 .. Len(history) /\ boundaries[k] < Len(history')
      BY <1>2, <1>4, <1>6, <3>1
    <3>3. From(history', boundaries[k] + 1) = From(history, boundaries[k] + 1) \o m
      BY <1>2, <1>3, <1>4, <3>2, FromJoined
    <3> QED BY <1>2, <3>1, <3>2, <3>3, WindowsJoined
  <2>2. CASE k = Len(boundaries) + 1
    <3>1. boundaries'[k] = Len(history) /\ Len(history) < Len(history')
      BY <1>2, <1>4, <1>6, <1>8, <2>2
    <3>2. From(history', Len(history) + 1) = m
      BY <1>2, <1>3, <1>4, FromJoined
    <3> QED BY <1>2, <3>1, <3>2
  <2> QED BY <1>8, <2>1, <2>2
<1> QED BY <1>5, <1>7, <1>8, <1>9 DEF HistoryFits
-----------------------------------------------------------------------------
(* The provider's message calls tools: none of them has its result yet.    *)
LEMMA CallingBegins ==
  ASSUME NEW ms \in Seq(Message), CallsHaveResults(ms), NEW n \in 1 .. MaxCalls
  PROVE  Calling(Append(ms, Assistant(n)), Len(ms) + 1)
<1>1. PICK c : c = Append(ms, Assistant(n))
  OBVIOUS
<1>2. n \in Nat /\ n > 0 /\ n \in 0 .. MaxCalls
  BY BoundsAssumption
<1>3. Assistant(n) \in Message /\ Assistant(n).role = "assistant" /\ Assistant(n).calls = n
  BY <1>2, Messages
<1>4. /\ c \in Seq(Message) /\ Len(c) = Len(ms) + 1 /\ Len(ms) \in Nat
      /\ \A j \in 1 .. Len(ms) : c[j] = ms[j]
      /\ c[Len(ms) + 1] = Assistant(n)
  BY <1>1, <1>3, AppendProperties, LenProperties
<1>5. ASSUME NEW j \in 1 .. (Len(ms) + 1) - 1, NEW k \in 1 .. c[j].calls
      PROVE  j + k <= Len(c) /\ c[j + k] = Tool(k)
  <2>1. j \in 1 .. Len(ms) /\ k \in 1 .. ms[j].calls
    BY <1>4, <1>5
  <2>2. j + k <= Len(ms) /\ ms[j + k] = Tool(k) /\ ms[j].calls \in Nat
    BY <2>1, Messages, ElementOfSeq DEF CallsHaveResults
  <2>3. j + k \in 1 .. Len(ms)
    BY <1>4, <2>1, <2>2
  <2> QED BY <1>4, <2>2, <2>3
<1>6. PICK i : i = Len(ms) + 1
  OBVIOUS
<1>7. i \in 1 .. Len(c) /\ Len(c) - i = 0 /\ c[i].role = "assistant" /\ c[i].calls = n
  BY <1>3, <1>4, <1>6
<1>8. \A k \in 1 .. Len(c) - i : c[i + k] = Tool(k)
  BY <1>7
<1>9. \A j \in 1 .. i - 1 : \A k \in 1 .. c[j].calls : j + k <= Len(c) /\ c[j + k] = Tool(k)
  BY <1>5, <1>6
<1>10. Calling(c, i)
  BY <1>2, <1>7, <1>8, <1>9 DEF Calling
<1> QED BY <1>1, <1>6, <1>10

(* The message that called is the one that LastAssistant finds.            *)
LEMMA CallerFound ==
  ASSUME NEW ms \in Seq(Message), NEW i \in 1 .. Len(ms), ms[i].role = "assistant",
         \A j \in i + 1 .. Len(ms) : ms[j].role = "tool"
  PROVE  LastAssistant(ms) = i
<1>1. Len(ms) \in Nat
  BY LenProperties
<1> DEFINE Is(x) == ms[x].role = "assistant" /\ \A j \in (x + 1) .. Len(ms) : ms[j].role = "tool"
<1>2. Is(i)
  OBVIOUS
<1>3. ASSUME NEW x \in 1 .. Len(ms), Is(x) PROVE x = i
  <2>1. ~(x < i)
    <3>1. x < i => i \in (x + 1) .. Len(ms)
      BY <1>1
    <3> QED BY <1>3, <3>1
  <2>2. ~(i < x)
    <3>1. i < x => x \in i + 1 .. Len(ms)
      BY <1>1
    <3> QED BY <1>3, <3>1
  <2> QED BY <1>1, <2>1, <2>2
<1> HIDE DEF Is
<1>4. (CHOOSE x \in 1 .. Len(ms) : Is(x)) = i
  BY <1>2, <1>3
<1> QED BY <1>4 DEF LastAssistant, Is

(* A tool settles: its result is the next one that is missing, and with    *)
(* the last one every call has its result.                                 *)
LEMMA CallingGoesOn ==
  ASSUME NEW ms \in Seq(Message), NEW i \in Nat, Calling(ms, i), ResultsHaveCalls(ms)
  PROVE  LET new == Append(ms, Tool(Executed(ms) + 1))
         IN  /\ new \in Seq(Message) /\ ResultsHaveCalls(new)
             /\ IF MoreTools(new) THEN Calling(new, i) ELSE CallsHaveResults(new)
<1>1. PICK len, n : len = Len(ms) /\ n = ms[i].calls
  OBVIOUS
<1>2. /\ len \in Nat /\ i \in 1 .. len /\ n \in 0 .. MaxCalls /\ n \in Nat /\ len - i < n
      /\ ms[i].role = "assistant"
  BY <1>1, LenProperties, Messages, ElementOfSeq, BoundsAssumption DEF Calling
<1>3. \A k \in 1 .. len - i : k \in 0 .. MaxCalls /\ ms[i + k] = Tool(k)
  BY <1>1, <1>2, BoundsAssumption DEF Calling
<1>4. ASSUME NEW j \in i + 1 .. len PROVE ms[j].role = "tool"
  <2>1. j - i \in 1 .. len - i /\ i + (j - i) = j
    BY <1>2
  <2> QED BY <1>3, <2>1, Messages
<1>5. LastAssistant(ms) = i
  BY <1>1, <1>2, <1>4, CallerFound
<1>6. PICK k : k = len - i + 1
  OBVIOUS
<1>7. k \in 1 .. n /\ k \in 0 .. MaxCalls /\ Executed(ms) + 1 = k /\ len + 1 = i + k
  <2>1. Executed(ms) = len - i
    BY <1>1, <1>5 DEF Executed
  <2>2. MaxCalls \in Nat
    BY BoundsAssumption
  <2>3. len \in Nat /\ i \in 1 .. len /\ n \in 0 .. MaxCalls /\ len - i < n
    BY <1>2
  <2> QED BY <1>6, <2>1, <2>2, <2>3
<1>8. PICK new : new = Append(ms, Tool(Executed(ms) + 1))
  OBVIOUS
<1>9. Tool(k) \in Message /\ Tool(k).role = "tool" /\ Tool(k).call = k /\ Tool(k).calls = 0
  BY <1>7, Messages
<1>10. /\ new \in Seq(Message) /\ Len(new) = len + 1
       /\ \A j \in 1 .. len : new[j] = ms[j]
       /\ new[len + 1] = Tool(k)
  BY <1>1, <1>7, <1>8, <1>9, AppendProperties
<1>11. ResultsHaveCalls(new)
  <2>1. ASSUME NEW j \in 1 .. Len(new), new[j].role = "tool"
        PROVE  /\ new[j].call < j
               /\ new[j - new[j].call].role = "assistant"
               /\ new[j].call <= new[j - new[j].call].calls
    <3>1. CASE j \in 1 .. len
      <4>1. PICK c : c = ms[j].call
        OBVIOUS
      <4>2. new[j] = ms[j] /\ c < j /\ ms[j - c].role = "assistant" /\ c <= ms[j - c].calls
        BY <1>1, <1>10, <2>1, <3>1, <4>1 DEF ResultsHaveCalls
      <4>3. c \in Nat
        BY <1>1, <3>1, <4>1, Messages, ElementOfSeq
      <4>4. j - c \in 1 .. len
        BY <1>2, <3>1, <4>2, <4>3
      <4> QED BY <1>10, <4>1, <4>2, <4>4
    <3>2. CASE j = len + 1
      <4>1. new[j].call = k /\ k < j /\ j - k = i
        BY <1>2, <1>7, <1>9, <1>10, <3>2
      <4>2. new[i] = ms[i]
        BY <1>2, <1>10
      <4> QED BY <1>1, <1>2, <1>7, <4>1, <4>2
    <3> QED BY <1>2, <1>10, <3>1, <3>2
  <2> QED BY <2>1 DEF ResultsHaveCalls
<1>12. ASSUME NEW j \in 1 .. i - 1, NEW l \in 1 .. new[j].calls
       PROVE  j + l <= Len(new) /\ new[j + l] = Tool(l)
  <2>1. j \in 1 .. len /\ new[j] = ms[j]
    BY <1>2, <1>10
  <2>2. j + l <= len /\ ms[j + l] = Tool(l)
    BY <1>1, <1>12, <2>1 DEF Calling
  <2>3. new[j].calls \in Nat
    BY <1>1, <2>1, Messages, ElementOfSeq
  <2>4. j + l \in 1 .. len /\ j + l <= Len(new)
    BY <1>2, <1>10, <2>1, <2>2, <2>3
  <2> QED BY <1>10, <2>2, <2>4
<1>13. ASSUME NEW l \in 1 .. k PROVE new[i + l] = Tool(l) /\ i + l <= Len(new)
  <2>1. CASE l = k
    BY <1>2, <1>7, <1>10, <2>1
  <2>2. CASE l # k
    <3>1. l \in 1 .. len - i /\ i + l \in 1 .. len /\ i + l <= Len(new)
      BY <1>2, <1>6, <1>10, <2>2
    <3> QED BY <1>3, <1>10, <3>1
  <2> QED BY <2>1, <2>2
<1>14. new[i] = ms[i] /\ new[i].calls = n /\ i \in 1 .. Len(new) /\ Len(new) - i = k
  BY <1>1, <1>2, <1>7, <1>10
<1>15. MoreTools(new) <=> k < n
  <2>1. ASSUME NEW j \in i + 1 .. Len(new) PROVE new[j].role = "tool"
    <3>1. j \in i + 1 .. len \/ j = len + 1
      BY <1>2, <1>10
    <3>2. j \in i + 1 .. len => j \in 1 .. len
      BY <1>2
    <3> QED BY <1>4, <1>9, <1>10, <3>1, <3>2
  <2>2. LastAssistant(new) = i
    BY <1>2, <1>10, <1>14, <2>1, CallerFound
  <2> QED BY <1>14, <2>2 DEF MoreTools, Executed, ToolCalls
<1>16. CASE k < n
  <2>1. Calling(new, i)
    BY <1>2, <1>12, <1>13, <1>14, <1>16 DEF Calling
  <2> QED BY <1>8, <1>10, <1>11, <1>15, <1>16, <2>1
<1>17. len \in Nat
  BY <1>2
<1>18. CASE ~(k < n)
  <2>1. k = n
    BY <1>2, <1>7, <1>18
  <2>2. ASSUME NEW j \in 1 .. Len(new), NEW l \in 1 .. new[j].calls
        PROVE  j + l <= Len(new) /\ new[j + l] = Tool(l)
    <3>1. CASE j \in 1 .. i - 1
      BY <1>12, <2>2, <3>1
    <3>2. CASE j = i
      BY <1>13, <1>14, <2>1, <2>2, <3>2
    <3>3. CASE j \in i + 1 .. len
      <4>1. j - i \in 1 .. len - i /\ i + (j - i) = j /\ j \in 1 .. len
        BY <1>17, <3>3
      <4>2. new[j].calls = 0
        BY <1>3, <1>10, <4>1, Messages
      <4> QED BY <2>2, <4>2
    <3>4. CASE j = len + 1
      BY <1>9, <1>10, <2>2, <3>4
    <3> QED BY <1>2, <1>10, <3>1, <3>2, <3>3, <3>4
  <2>3. CallsHaveResults(new)
    BY <2>2 DEF CallsHaveResults
  <2> QED BY <1>8, <1>10, <1>11, <1>15, <1>18, <2>3
<1> QED BY <1>16, <1>18
-----------------------------------------------------------------------------
Steps == {"new", "building", "calling", "executing", "answered", "exceeded", "failed"}

LEMMA Budget == limit' = limit => /\ \A ms : WholeMessages(ms)' <=> WholeMessages(ms)
                                  /\ \A ms : IsWindow(ms)' <=> IsWindow(ms)
                                  /\ \A l, step : Fits(l, step)' <=> Fits(l, step)
BY DEF WholeMessages, IsWindow, Fits

LEMMA IdleFits ==
  /\ IsWindow(<<>>) /\ Idle \in Loop
  /\ \A step \in {"new", "answered", "exceeded", "failed"} : Fits(Idle, step)
<1>1. IsWindow(<<>>)
  BY NoMessage DEF IsWindow, WholeMessages
<1>2. 0 \in 0 .. MaxTurns
  BY BoundsAssumption
<1> QED BY <1>1, <1>2, NoMessage DEF Idle, NewLoop, Loop, Fits

LEMMA LoopChanges ==
  ASSUME LoopInv, UNCHANGED limit, NEW t \in Turns, NEW l \in Loop, NEW step \in Steps,
         pc' = [pc EXCEPT ![t] = step], loop' = [loop EXCEPT ![t] = l], Fits(l, step)
  PROVE  /\ limit' \in MaxTokens \cup {NoLimit} /\ pc' \in [Turns -> Steps] /\ loop' \in [Turns -> Loop]
         /\ \A u \in Turns : Fits(loop[u], pc[u])'
<1>1. limit' \in MaxTokens \cup {NoLimit} /\ pc' \in [Turns -> Steps] /\ loop' \in [Turns -> Loop]
  BY DEF LoopInv, TypeOK, Steps
<1>2. ASSUME NEW u \in Turns PROVE Fits(loop[u], pc[u])'
  <2>0. PICK k, s : k = loop'[u] /\ s = pc'[u]
    OBVIOUS
  <2>1. Fits(k, s)
    <3>1. CASE u = t
      <4>1. k = l /\ s = step
        BY <2>0, <3>1 DEF LoopInv, TypeOK
      <4> QED BY <4>1
    <3>2. CASE u # t
      <4>1. k = loop[u] /\ s = pc[u]
        BY <2>0, <3>2 DEF LoopInv, TypeOK
      <4> QED BY <4>1 DEF LoopInv
    <3> QED BY <3>1, <3>2
  <2>2. IsWindow(k.window)' <=> IsWindow(k.window)
    BY Budget
  <2> QED BY <2>0, <2>1, <2>2 DEF Fits, IsWindow, WholeMessages
<1> QED BY <1>1, <1>2

LEMMA GoOnKeeps ==
  ASSUME LoopInv, UNCHANGED limit, NEW t \in Turns, NEW l \in Loop, NEW step \in Steps,
         GoOn(t, l, step), Fits(l, step)
  PROVE  LoopInv'
<1>1. UNCHANGED <<history, boundaries>>
  BY DEF GoOn
<1>2. HistoryFits'
  BY <1>1, Budget DEF LoopInv, HistoryFits, From
<1>3. history' \in Seq(Message) /\ boundaries' \in Seq(Nat)
  BY <1>1 DEF LoopInv, TypeOK
<1>4. /\ limit' \in MaxTokens \cup {NoLimit} /\ pc' \in [Turns -> Steps] /\ loop' \in [Turns -> Loop]
      /\ \A u \in Turns : Fits(loop[u], pc[u])'
  BY LoopChanges DEF GoOn
<1> QED BY <1>2, <1>3, <1>4 DEF LoopInv, TypeOK, Steps

LEMMA FinishKeeps ==
  ASSUME LoopInv, UNCHANGED limit, NEW t \in Turns, NEW ms, NEW outcome \in {"answered", "exceeded"},
         Finish(t, ms, outcome), WholeMessages(ms)
  PROVE  LoopInv'
<1>1. Record(<<User>> \o ms) /\ HistoryFits
  BY DEF Finish, LoopInv
<1>2. HistoryFits'
  BY <1>1, RecordFits
<1>3. history' \in Seq(Message) /\ boundaries' \in Seq(Nat)
  BY <1>2 DEF HistoryFits, IsWindow, WholeMessages
<1>4. outcome \in Steps /\ Idle \in Loop /\ Fits(Idle, outcome)
  BY IdleFits DEF Steps
<1>5. /\ limit' \in MaxTokens \cup {NoLimit} /\ pc' \in [Turns -> Steps] /\ loop' \in [Turns -> Loop]
      /\ \A u \in Turns : Fits(loop[u], pc[u])'
  BY <1>4, LoopChanges DEF Finish
<1> QED BY <1>2, <1>3, <1>5 DEF LoopInv, TypeOK, Steps

LEMMA AgainKeeps ==
  ASSUME LoopInv, UNCHANGED limit, NEW t \in Turns, NEW l \in Loop, Again(t, l),
         IsWindow(l.window), ResultsHaveCalls(l.transcript), CallsHaveResults(l.transcript)
  PROVE  LoopInv'
<1>1. l.transcript \in Seq(Message) /\ l.calls \in 0 .. MaxTurns /\ l.calls \in Nat /\ MaxTurns \in Nat
  BY BoundsAssumption DEF Loop
<1>2. CASE TurnsUsedUp(l.calls)
  <2>1. WholeMessages(l.transcript) /\ Finish(t, l.transcript, "exceeded")
    BY <1>1, <1>2 DEF WholeMessages, Again
  <2> QED BY <2>1, FinishKeeps
<1>3. CASE ~TurnsUsedUp(l.calls)
  <2>1. l.calls < MaxTurns /\ GoOn(t, l, "calling") /\ "calling" \in Steps
    BY <1>1, <1>3 DEF TurnsUsedUp, Again, Steps
  <2>2. Fits(l, "calling")
    BY <2>1 DEF Fits
  <2> QED BY <2>1, <2>2, GoOnKeeps
<1> QED BY <1>2, <1>3

-----------------------------------------------------------------------------
LEMMA LoopInit == Init => LoopInv
<1> SUFFICES ASSUME Init PROVE LoopInv
  OBVIOUS
<1>1. TypeOK
  BY IdleFits, NoMessage DEF Init, TypeOK
<1>2. HistoryFits
  BY IdleFits DEF Init, HistoryFits
<1>3. \A t \in Turns : Fits(loop[t], pc[t])
  BY IdleFits DEF Init
<1> QED BY <1>1, <1>2, <1>3 DEF LoopInv

LEMMA SelectKeeps == ASSUME LoopInv, NEW t \in Turns, Select(t) PROVE LoopInv'
<1>1. 0 \in 0 .. MaxTurns /\ Window \in Nat \ {0}
  BY BoundsAssumption, WindowAssumption
<1>2. IsWindow(<<>>) /\ <<>> \in Seq(Message)
  BY IdleFits, NoMessage
<1>3. RecentTurns \in Loop /\ Fits(RecentTurns, "building")
  <2>1. CASE Len(boundaries) <= Window
    <3>1. RecentTurns = NewLoop(TRUE, <<>>)
      BY <2>1 DEF RecentTurns
    <3> QED BY <1>1, <1>2, <3>1 DEF NewLoop, Loop, Fits
  <2>2. CASE ~(Len(boundaries) <= Window)
    <3>1. PICK k : k = Len(boundaries) - Window + 1
      OBVIOUS
    <3>2. k \in DOMAIN boundaries
      BY <1>1, <2>2, <3>1, LenProperties DEF LoopInv, HistoryFits
    <3>3. PICK w : w = From(history, boundaries[k] + 1)
      OBVIOUS
    <3>4. IsWindow(w) /\ w \in Seq(Message)
      BY <3>2, <3>3 DEF LoopInv, HistoryFits, IsWindow, WholeMessages
    <3>5. RecentTurns = NewLoop(FALSE, w)
      BY <2>2, <3>1, <3>3 DEF RecentTurns
    <3> QED BY <1>1, <1>2, <3>4, <3>5 DEF NewLoop, Loop, Fits
  <2> QED BY <2>1, <2>2
<1> QED BY <1>3, GoOnKeeps DEF Select, Steps

LEMMA StartKeeps == ASSUME LoopInv, NEW t \in Turns, Start(t) PROVE LoopInv'
<1>1. PICK l : l = IF loop[t].shared THEN NewLoop(FALSE, history) ELSE loop[t]
  OBVIOUS
<1>2. Again(t, l) /\ UNCHANGED limit /\ pc[t] = "building"
  BY <1>1 DEF Start
<1>3. /\ loop[t] \in Loop /\ history \in Seq(Message) /\ IsWindow(history) /\ 0 \in 0 .. MaxTurns
      /\ loop[t].shared \/ IsWindow(loop[t].window)
      /\ loop[t].transcript = <<>>
  BY <1>2, BoundsAssumption DEF LoopInv, TypeOK, HistoryFits, Fits
<1>4. l \in Loop /\ IsWindow(l.window) /\ l.transcript = <<>>
  <2>1. CASE loop[t].shared
    <3>1. l = NewLoop(FALSE, history)
      BY <1>1, <2>1
    <3> QED BY <1>3, <3>1, NoMessage DEF NewLoop, Loop
  <2>2. CASE ~loop[t].shared
    BY <1>1, <1>3, <2>2
  <2> QED BY <2>1, <2>2
<1> QED BY <1>2, <1>4, NoMessage, AgainKeeps

(* The provider answers, with n calls of tools.                            *)
LEMMA AnswerConsumed ==
  ASSUME LoopInv, NEW t \in Turns, pc[t] = "calling", NEW n \in 0 .. MaxCalls, NEW u \in Usage
  PROVE  LET l == Consumed(loop[t], n, u)
         IN  /\ l \in Loop /\ IsWindow(l.window) /\ l.shared = loop[t].shared
             /\ l.transcript = Append(loop[t].transcript, Assistant(n))
             /\ loop[t].transcript \in Seq(Message) /\ CallsHaveResults(loop[t].transcript)
             /\ l.transcript \in Seq(Message) /\ ResultsHaveCalls(l.transcript)
             /\ n = 0 => CallsHaveResults(l.transcript)
<1>1. /\ loop[t] \in Loop /\ IsWindow(loop[t].window) /\ loop[t].transcript \in Seq(Message)
      /\ ResultsHaveCalls(loop[t].transcript) /\ CallsHaveResults(loop[t].transcript)
      /\ loop[t].calls < MaxTurns
  BY DEF LoopInv, TypeOK, Loop, Fits
<1>2. u \in Nat
  BY BoundsAssumption DEF Usage
<1>3. Assistant(n) \in Message /\ Assistant(n).role # "tool" /\ Assistant(n).calls = n
  BY Messages
<1>4. /\ Append(loop[t].transcript, Assistant(n)) \in Seq(Message)
      /\ ResultsHaveCalls(Append(loop[t].transcript, Assistant(n)))
      /\ n = 0 => CallsHaveResults(Append(loop[t].transcript, Assistant(n)))
  BY <1>1, <1>3, MessageAdded
<1>5. loop[t].calls + 1 \in 0 .. MaxTurns /\ loop[t].tokens + u \in Nat
  BY <1>1, <1>2, BoundsAssumption DEF Loop
<1>6. PICK l : l = Consumed(loop[t], n, u)
  OBVIOUS
<1>7. l \in Loop /\ l.window = loop[t].window /\ l.shared = loop[t].shared
      /\ l.transcript = Append(loop[t].transcript, Assistant(n))
  BY <1>1, <1>4, <1>5, <1>6 DEF Consumed, Answered, Loop
<1> QED BY <1>1, <1>4, <1>6, <1>7

LEMMA FinalAnswerKeeps ==
  ASSUME LoopInv, NEW t \in Turns, NEW u \in Usage, FinalAnswer(t, u) PROVE LoopInv'
<1>1. 0 \in 0 .. MaxCalls
  BY BoundsAssumption
<1>2. PICK l : l = Consumed(loop[t], 0, u)
  OBVIOUS
<1>3. pc[t] = "calling" /\ Finish(t, l.transcript, "answered") /\ UNCHANGED limit
  BY <1>2 DEF FinalAnswer
<1>4. WholeMessages(l.transcript)
  BY <1>1, <1>2, <1>3, AnswerConsumed DEF WholeMessages
<1> QED BY <1>3, <1>4, FinishKeeps

LEMMA BudgetExceededKeeps ==
  ASSUME LoopInv, NEW t \in Turns, NEW n \in 0 .. MaxCalls, NEW u \in Usage, BudgetExceeded(t, n, u)
  PROVE  LoopInv'
<1>1. PICK l : l = Consumed(loop[t], n, u)
  OBVIOUS
<1>2. pc[t] = "calling" /\ Finish(t, l.transcript, "exceeded") /\ UNCHANGED limit /\ limit # NoLimit
  BY <1>1 DEF BudgetExceeded, TokensUsedUp
<1>3. WholeMessages(l.transcript)
  BY <1>1, <1>2, AnswerConsumed DEF WholeMessages
<1> QED BY <1>2, <1>3, FinishKeeps

LEMMA ToolsCalledKeeps ==
  ASSUME LoopInv, NEW t \in Turns, NEW n \in 0 .. MaxCalls, NEW u \in Usage, ToolsCalled(t, n, u)
  PROVE  LoopInv'
<1>1. PICK l, ms : l = Consumed(loop[t], n, u) /\ ms = loop[t].transcript
  OBVIOUS
<1>2. /\ pc[t] = "calling" /\ GoOn(t, l, "executing") /\ UNCHANGED limit /\ n \in 1 .. MaxCalls
      /\ "executing" \in Steps
  BY <1>1, BoundsAssumption DEF ToolsCalled, Steps
<1>3. /\ l \in Loop /\ IsWindow(l.window) /\ ms \in Seq(Message) /\ CallsHaveResults(ms)
      /\ l.transcript = Append(ms, Assistant(n)) /\ ResultsHaveCalls(l.transcript)
  BY <1>1, <1>2, AnswerConsumed
<1>4. Calling(l.transcript, Len(ms) + 1) /\ Len(ms) + 1 \in Nat
  BY <1>2, <1>3, CallingBegins, LenProperties
<1>5. Fits(l, "executing")
  BY <1>3, <1>4 DEF Fits
<1> QED BY <1>2, <1>3, <1>5, GoOnKeeps

LEMMA TurnFailsKeeps == ASSUME LoopInv, NEW t \in Turns, TurnFails(t) PROVE LoopInv'
<1>1. GoOn(t, Idle, "failed") /\ UNCHANGED limit /\ "failed" \in Steps
  BY DEF TurnFails, Steps
<1> QED BY <1>1, IdleFits, GoOnKeeps

LEMMA ToolSettlesKeeps == ASSUME LoopInv, NEW t \in Turns, ToolSettles(t) PROVE LoopInv'
<1>1. PICK ms, l : ms = loop[t].transcript /\ l = Answered(loop[t], Tool(Executed(loop[t].transcript) + 1))
  OBVIOUS
<1>2. /\ pc[t] = "executing" /\ UNCHANGED limit /\ "executing" \in Steps
      /\ IF MoreTools(l.transcript) THEN GoOn(t, l, "executing") ELSE Again(t, l)
  BY <1>1 DEF ToolSettles, Steps
<1>3. loop[t] \in Loop /\ IsWindow(loop[t].window) /\ ms \in Seq(Message) /\ ResultsHaveCalls(ms)
  BY <1>1, <1>2 DEF LoopInv, TypeOK, Loop, Fits
<1>4. PICK i \in Nat : Calling(ms, i)
  BY <1>1, <1>2 DEF LoopInv, Fits
<1>5. PICK new : new = Append(ms, Tool(Executed(ms) + 1))
  OBVIOUS
<1>6. /\ new \in Seq(Message) /\ ResultsHaveCalls(new)
      /\ IF MoreTools(new) THEN Calling(new, i) ELSE CallsHaveResults(new)
  BY <1>3, <1>4, <1>5, CallingGoesOn
<1>7. l \in Loop /\ l.window = loop[t].window /\ l.transcript = new
  BY <1>1, <1>3, <1>5, <1>6 DEF Answered, Loop
<1>8. CASE MoreTools(new)
  <2>1. GoOn(t, l, "executing")
    BY <1>2, <1>7, <1>8
  <2>2. Fits(l, "executing")
    BY <1>3, <1>6, <1>7, <1>8 DEF Fits
  <2> QED BY <1>2, <1>7, <2>1, <2>2, GoOnKeeps
<1>9. CASE ~MoreTools(new)
  <2>1. Again(t, l) /\ CallsHaveResults(l.transcript) /\ ResultsHaveCalls(l.transcript) /\ IsWindow(l.window)
    BY <1>2, <1>3, <1>6, <1>7, <1>9
  <2> QED BY <1>2, <1>7, <2>1, AgainKeeps
<1> QED BY <1>8, <1>9

LEMMA LoopStep == LoopInv /\ [Next]_vars => LoopInv'
<1> SUFFICES ASSUME LoopInv, [Next]_vars PROVE LoopInv'
  OBVIOUS
<1>1. CASE UNCHANGED vars
  <2>1. limit' = limit /\ history' = history /\ boundaries' = boundaries /\ pc' = pc /\ loop' = loop
    BY <1>1 DEF vars
  <2> QED BY <2>1, Budget DEF LoopInv, TypeOK, HistoryFits, From
<1>2. CASE Next
  <2>1. PICK t \in Turns :
          \/ Select(t)
          \/ Start(t)
          \/ \E u \in Usage :
               \/ FinalAnswer(t, u)
               \/ \E n \in 0 .. MaxCalls : BudgetExceeded(t, n, u) \/ ToolsCalled(t, n, u)
          \/ TurnFails(t)
          \/ ToolSettles(t)
    BY <1>2 DEF Next
  <2>2. CASE Select(t)
    BY <2>2, SelectKeeps
  <2>3. CASE Start(t)
    BY <2>3, StartKeeps
  <2>4. CASE \E u \in Usage : FinalAnswer(t, u)
    BY <2>4, FinalAnswerKeeps
  <2>5. CASE \E u \in Usage, n \in 0 .. MaxCalls : BudgetExceeded(t, n, u)
    BY <2>5, BudgetExceededKeeps
  <2>6. CASE \E u \in Usage, n \in 0 .. MaxCalls : ToolsCalled(t, n, u)
    BY <2>6, ToolsCalledKeeps
  <2>7. CASE TurnFails(t)
    BY <2>7, TurnFailsKeeps
  <2>8. CASE ToolSettles(t)
    BY <2>8, ToolSettlesKeeps
  <2> QED BY <2>1, <2>2, <2>3, <2>4, <2>5, <2>6, <2>7, <2>8
<1> QED BY <1>1, <1>2

LEMMA LoopRequests == LoopInv => RequestsAreWhole
<1> SUFFICES ASSUME LoopInv PROVE RequestsAreWhole
  OBVIOUS
<1>1. ResultsHaveCalls(history) /\ (limit = NoLimit => CallsHaveResults(history))
  BY DEF LoopInv, HistoryFits, IsWindow, WholeMessages
<1>2. ASSUME NEW t \in Turns, pc[t] = "calling"
      PROVE  /\ ResultsHaveCalls(Request(t)) /\ Request(t)[1] = User
             /\ limit = NoLimit => CallsHaveResults(Request(t))
  <2>1. PICK w, ms : w = loop[t].window /\ ms = loop[t].transcript
    OBVIOUS
  <2>2. IsWindow(w) /\ WholeMessages(ms) /\ w \in Seq(Message) /\ ms \in Seq(Message)
    BY <1>2, <2>1 DEF LoopInv, TypeOK, Loop, Fits, WholeMessages, IsWindow
  <2>3. Request(t) = w \o (<<User>> \o ms)
    <3>1. <<User>> \in Seq(Message)
      BY Messages, OneMessage
    <3>2. (w \o <<User>>) \o ms = w \o (<<User>> \o ms)
      BY <2>2, <3>1, ConcatAssociative
    <3> QED BY <2>1, <3>2 DEF Request
  <2>4. PICK r : r = Request(t)
    OBVIOUS
  <2>5. IsWindow(<<User>> \o ms) /\ <<User>> \o ms # <<>>
    BY <2>2, TurnIsWindow
  <2>6. IsWindow(r) /\ r # <<>>
    BY <2>2, <2>3, <2>4, <2>5, WindowsJoined
  <2> QED BY <2>4, <2>6 DEF IsWindow, WholeMessages
<1> QED BY <1>1, <1>2 DEF RequestsAreWhole, NoResultWithoutCall, NoCallWithoutResult

(* Whatever turns of a session overlap, whatever tools they call, however  *)
(* they end: the provider is never sent a tool result without its call,    *)
(* nor, with a budget that counts only turns, a call without its result.   *)
(* runToolLoop, selectRecentTurns and recordTurnMessages together.         *)
THEOREM RequestsStayWhole == Spec => []RequestsAreWhole
<1>1. Init => LoopInv
  BY LoopInit
<1>2. LoopInv /\ [Next]_vars => LoopInv'
  BY LoopStep
<1>3. LoopInv => RequestsAreWhole
  BY LoopRequests
<1> QED BY <1>1, <1>2, <1>3, PTL DEF Spec

(* Every variable of the tool loop and of the session holds what its       *)
(* declaration says.                                                       *)
THEOREM TypesAreKept == Spec => []TypeOK
<1>1. Init => LoopInv
  BY LoopInit
<1>2. LoopInv /\ [Next]_vars => LoopInv'
  BY LoopStep
<1>3. LoopInv => TypeOK
  BY DEF LoopInv
<1> QED BY <1>1, <1>2, <1>3, PTL DEF Spec
-----------------------------------------------------------------------------
ProvidersSpec == ProvidersInit /\ [][ProvidersNext]_providerVars

Completions ==
  [provider : {"anthropic", "openai-compatible"},
   pc : {"sent", "sleeping", "completed", "rejected"},
   attempt : 1 .. MaxAttempts,
   delay : Nat]

(* The longest that a completion with n retries behind it has slept.       *)
Slept(n) == n * (MaxDelay + 1)

(* What has been slept before this attempt, and what a sleep under way is  *)
(* for: without it nothing would say that a sleep ends after notBefore.    *)
WaitInv ==
  /\ completion \in Completions
  /\ now \in Nat /\ notBefore \in Nat
  /\ now <= Slept(completion.attempt - 1)
  /\ completion.pc = "sent" => now >= notBefore
  /\ completion.pc = "sleeping" =>
       /\ completion.attempt < MaxAttempts
       /\ completion.delay <= MaxDelay
       /\ now + completion.delay >= notBefore

-----------------------------------------------------------------------------
LEMMA SleptGrows ==
  ASSUME NEW n \in Nat
  PROVE  /\ Slept(n) \in Nat
         /\ Slept(n + 1) = Slept(n) + MaxDelay + 1
<1> DEFINE d == MaxDelay + 1
<1>1. d \in Nat
  BY ProviderBounds
<1>2. n * d \in Nat /\ (n + 1) * d = n * d + d
  BY <1>1
<1> QED BY <1>2, ProviderBounds DEF Slept

(* More retries, more sleep.                                               *)
LEMMA SleptIsMonotone ==
  ASSUME NEW n \in Nat, NEW m \in Nat, n <= m
  PROVE  Slept(n) <= Slept(m)
<1> DEFINE d == MaxDelay + 1
<1>1. d \in Nat /\ m - n \in Nat
  BY ProviderBounds
<1>2. m * d = n * d + (m - n) * d
  BY <1>1
<1>3. n * d \in Nat /\ (m - n) * d \in Nat
  BY <1>1
<1>4. n * d <= m * d
  <2> HIDE DEF d
  <2> QED BY <1>2, <1>3
<1> QED BY <1>4 DEF Slept

(* A retry is slept for within the limit, and for as long as was asked.    *)
LEMMA DelayIsHeard ==
  ASSUME NEW hint \in Hints \cup {NoHint}, NEW attempt \in 1 .. MaxAttempts,
         RetryDelay(hint, attempt) # NoHint
  PROVE  /\ RetryDelay(hint, attempt) \in Nat
         /\ RetryDelay(hint, attempt) <= MaxDelay
         /\ hint # NoHint => RetryDelay(hint, attempt) = hint
<1>1. 2 ^ (attempt - 1) \in Nat
  BY ProviderBounds, DoublingAssumption
<1>2. hint # NoHint => hint \in Nat
  BY ProviderBounds
<1> QED BY <1>1, <1>2 DEF RetryDelay

LEMMA WaitInit ==
  ASSUME ProvidersInit
  PROVE  WaitInv
<1>1. Slept(0) \in Nat
  BY SleptGrows
<1> QED BY <1>1, ProviderBounds DEF ProvidersInit, WaitInv, Completions

(* A refusal: the hint that counts is heard by the sleep, if there is one. *)
LEMMA RefusalKeeps ==
  ASSUME WaitInv, Refuse
  PROVE  WaitInv'
<1>1. /\ completion.pc = "sent" /\ now' = now
      /\ completion \in Completions /\ now \in Nat
  BY DEF Refuse, WaitInv
<1>2. PICK status \in Statuses, header \in Hints \cup {NoHint}, inBody \in Hints \cup {NoHint} :
        /\ notBefore' = IF Hint(inBody, header) = NoHint THEN now ELSE now + Hint(inBody, header)
        /\ completion' = IF Retries(status, Hint(inBody, header))
                         THEN [completion EXCEPT !.pc = "sleeping",
                                 !.delay = RetryDelay(Hint(inBody, header), completion.attempt)]
                         ELSE [completion EXCEPT !.pc = "rejected"]
  BY DEF Refuse
<1> DEFINE hint == Hint(inBody, header)
<1>3. hint \in Hints \cup {NoHint}
  BY DEF Hint
<1>4. hint # NoHint => hint \in Nat
  BY <1>3, ProviderBounds
<1>5. completion.pc = "sent" => now >= notBefore
  BY DEF WaitInv
<1>6. CASE Retries(status, hint)
  <2> DEFINE delay == RetryDelay(hint, completion.attempt)
  <2>1. /\ completion.attempt < MaxAttempts /\ delay # NoHint
        /\ completion.attempt \in 1 .. MaxAttempts
    BY <1>1, <1>6 DEF Retries, Completions
  <2>2. delay \in Nat /\ delay <= MaxDelay /\ (hint # NoHint => delay = hint)
    BY <1>3, <2>1, DelayIsHeard
  <2>3. completion' = [completion EXCEPT !.pc = "sleeping", !.delay = delay]
    BY <1>2, <1>6
  <2>4. notBefore' = IF hint = NoHint THEN now ELSE now + hint
    BY <1>2
  <2> HIDE DEF delay, hint
  <2>5. completion' \in Completions
    BY <1>1, <2>2, <2>3 DEF Completions
  <2>6. /\ completion'.pc = "sleeping" /\ completion'.delay = delay
        /\ completion'.attempt = completion.attempt
    BY <1>1, <2>3 DEF Completions
  <2>7. notBefore' \in Nat /\ now' + delay >= notBefore'
    BY <1>1, <1>4, <1>5, <2>2, <2>4
  <2> QED BY <1>1, <1>5, <2>1, <2>2, <2>5, <2>6, <2>7 DEF WaitInv
<1>7. CASE ~Retries(status, hint)
  <2>1. completion' = [completion EXCEPT !.pc = "rejected"]
    BY <1>2, <1>7
  <2>2. notBefore' \in Nat
    BY <1>1, <1>2, <1>4
  <2> QED BY <1>1, <2>1, <2>2 DEF WaitInv, Completions
<1> QED BY <1>6, <1>7

(* A sleep ends after its delay, and late by a second at most.             *)
LEMMA WakingKeeps ==
  ASSUME WaitInv, Wake
  PROVE  WaitInv'
<1>1. PICK late \in {0, 1} : now' = now + completion.delay + late
  BY DEF Wake
<1>2. /\ completion.pc = "sleeping" /\ notBefore' = notBefore
      /\ completion' = [completion EXCEPT !.pc = "sent", !.attempt = @ + 1, !.delay = 0]
  BY DEF Wake
<1>3. /\ completion \in Completions /\ completion.attempt \in 1 .. MaxAttempts
      /\ completion.delay \in Nat /\ completion.delay <= MaxDelay
      /\ completion.attempt < MaxAttempts /\ now \in Nat /\ notBefore \in Nat
      /\ now + completion.delay >= notBefore
      /\ now <= Slept(completion.attempt - 1)
  BY <1>2 DEF WaitInv, Completions
<1>4. completion' \in Completions /\ completion'.attempt = completion.attempt + 1
      /\ completion'.pc = "sent"
  <2>1. completion.attempt + 1 \in 1 .. MaxAttempts
    BY <1>3, ProviderBounds
  <2>2. /\ completion'.pc = "sent" /\ completion'.attempt = completion.attempt + 1
        /\ completion' = [completion EXCEPT !.pc = "sent", !.attempt = completion.attempt + 1,
                                            !.delay = 0]
    BY <1>2, <1>3 DEF Completions
  <2> QED BY <1>3, <2>1, <2>2 DEF Completions
<1>5. /\ Slept(completion.attempt - 1) \in Nat
      /\ Slept(completion.attempt - 1 + 1) = Slept(completion.attempt - 1) + MaxDelay + 1
  BY <1>3, SleptGrows
<1>6. completion.attempt - 1 + 1 = completion'.attempt - 1
  BY <1>3, <1>4
<1>7. now' <= Slept(completion'.attempt - 1)
  BY <1>1, <1>3, <1>5, <1>6, ProviderBounds
<1>8. now' \in Nat /\ now' >= notBefore
  BY <1>1, <1>3
<1> QED BY <1>2, <1>3, <1>4, <1>7, <1>8 DEF WaitInv

LEMMA WaitStep ==
  ASSUME WaitInv, [ProvidersNext]_providerVars
  PROVE  WaitInv'
<1>1. CASE Succeed
  BY <1>1 DEF WaitInv, Completions, Succeed
<1>2. CASE Refuse
  BY <1>2, RefusalKeeps
<1>3. CASE Unreachable
  BY <1>3 DEF WaitInv, Completions, Unreachable
<1>4. CASE Wake
  BY <1>4, WakingKeeps
<1>5. CASE UNCHANGED providerVars
  BY <1>5 DEF WaitInv, providerVars
<1> QED BY <1>1, <1>2, <1>3, <1>4, <1>5 DEF ProvidersNext

(* Neither provider sends a request before the time the server asked for,  *)
(* and both give up in time (resolveRetryDelayMs and the loop around it).  *)
THEOREM RetriesInTime == ProvidersSpec => []RetriesKeepTheTimes
<1>1. WaitInv => RetriesKeepTheTimes
  <2> SUFFICES ASSUME WaitInv PROVE RetriesKeepTheTimes
    OBVIOUS
  <2>1. /\ completion.attempt \in 1 .. MaxAttempts /\ now \in Nat
        /\ now <= Slept(completion.attempt - 1)
    BY DEF WaitInv, Completions
  <2>2. /\ Slept(completion.attempt - 1) <= Slept(MaxAttempts - 1)
        /\ Slept(completion.attempt - 1) \in Nat /\ Slept(MaxAttempts - 1) \in Nat
    <3>1. /\ completion.attempt - 1 \in Nat /\ MaxAttempts - 1 \in Nat
          /\ completion.attempt - 1 <= MaxAttempts - 1
      BY <2>1, ProviderBounds
    <3> QED BY <3>1, SleptIsMonotone, SleptGrows
  <2>3. now <= Slept(MaxAttempts - 1)
    BY <2>1, <2>2
  <2> QED BY <2>1, <2>3 DEF WaitInv, RetriesKeepTheTimes, Slept
<1> QED BY <1>1, WaitInit, WaitStep, PTL DEF ProvidersSpec

-----------------------------------------------------------------------------
(***************************************************************************)
(* GoalExecution, for any calls, workspaces, knowledge objects and goals.  *)
(***************************************************************************)
GoalSpec == GoalInit /\ [][GoalNext]_goalVars

GraphNodes == [unit : UnitIds, kind : UnitKinds]

(* What the compiler makes of given units.                                 *)
Contexts(units) ==
  [units : {units}, diagnostics : Seq({"warning", "error"}), hir : {<<>>, Nodes(units)},
   mir : {Nothing, <<>>, Nodes(units)}, artifacts : Nat,
   lifecycle : {"initialize", "threw", "cancelled", "complete", "discover", "create_units", "lower",
                "resolve", "validate", "generate", "publish"},
   stage : {Nothing, "discovery", "ingestion", "lowering", "resolution",
            "graph_construction", "validation", "generation", "publishing"}]

Unit(u) == u.id \in UnitIds /\ u.kind \in UnitKinds
Unfolded(units) == DOMAIN units = 1 .. Len(units) /\ Len(units) \in Nat /\ \A i \in 1 .. Len(units) : Unit(units[i])

(* The units of a graph are those of the list, and it is a graph.          *)
LEMMA NodesAre ==
  ASSUME NEW units, Unfolded(units)
  PROVE  /\ Nodes(units) \in Seq(GraphNodes) /\ Nodes(units) # Nothing
         /\ DOMAIN Nodes(units) = 1 .. Len(units)
         /\ \A i \in 1 .. Len(units) : Nodes(units)[i].unit = units[i].id
<1> DEFINE n == Len(units)
<1>1. n \in Nat /\ DOMAIN units = 1 .. n /\ \A i \in 1 .. n : Unit(units[i])
  BY DEF Unfolded
<1>2. \A i \in 1 .. n : UnitKind(units, units[i].id) \in UnitKinds
  <2> TAKE i \in 1 .. n
  <2> DEFINE Same == {j \in 1 .. n : units[j].id = units[i].id}
             IsFirstOf(k) == units[k].id = units[i].id /\ \A j \in 1 .. (k - 1) : units[j].id # units[i].id
  <2>1. PICK k \in Same : \A j \in Same : k <= j
    <3>1. Same \subseteq Nat /\ i \in Same
      BY <1>1
    <3> HIDE DEF Same
    <3>2. QED BY <3>1, SmallestNumber
  <2>2. k \in 1 .. n /\ IsFirstOf(k)
    <3>1. \A j \in 1 .. (k - 1) : j \in 1 .. n /\ j < k
      BY <1>1
    <3>2. \A j \in 1 .. (k - 1) : j \notin Same
      <4> TAKE j \in 1 .. (k - 1)
      <4>1. j < k /\ j \in Int /\ k \in Int
        BY <1>1, <3>1
      <4>2. QED BY <2>1, <4>1
    <3>3. QED BY <3>1, <3>2
  <2> DEFINE c == CHOOSE k1 \in DOMAIN units : IsFirstOf(k1)
  <2>3. c \in 1 .. n
    <3> HIDE DEF IsFirstOf
    <3> QED BY <1>1, <2>2
  <2>4. units[c].kind \in UnitKinds /\ "KnowledgeNode" \in UnitKinds
    <3> HIDE DEF c
    <3> QED BY <1>1, <2>3 DEF Unit, UnitKinds
  <2>5. UnitKind(units, units[i].id) = IF units[c].kind = "missing" THEN "KnowledgeNode" ELSE units[c].kind
    BY DEF UnitKind
  <2> HIDE DEF c
  <2>6. QED BY <2>4, <2>5
<1>3. Nodes(units) = [i \in 1 .. n |-> [unit |-> units[i].id, kind |-> UnitKind(units, units[i].id)]]
  BY <1>1 DEF Nodes
<1> HIDE DEF n
<1>4. Nodes(units) \in [1 .. n -> GraphNodes]
  BY <1>1, <1>2, <1>3 DEF GraphNodes, Unit
<1>5. Nodes(units) \in Seq(GraphNodes)
  BY <1>1, <1>4, SeqDef
<1>6. Nodes(units) # Nothing
  BY <1>5, NothingIsNoGraph DEF GraphNodes
<1>7. QED BY <1>3, <1>5, <1>6 DEF n

-----------------------------------------------------------------------------
(* How far a compilation is after k stages, unless it has halted.          *)
Progress(k, x) ==
  LET nodes == Nodes(x.units)
  IN  /\ k < 7 => x.artifacts = 0
      /\ k >= 3 => x.hir = nodes
      /\ k >= 5 => x.mir = nodes
      /\ k >= 6 => (BlankNodes(nodes) # {} => Blocking(x))
      /\ k >= 7 /\ options.generate = "one" => x.artifacts = 1

StagedTo(k, x) == Halts(x) \/ Progress(k, x)

LEMMA DiagnosticsGrow ==
  ASSUME NEW s \in Seq({"warning", "error"}), NEW t \in Seq({"warning", "error"})
  PROVE  /\ s \o t \in Seq({"warning", "error"})
         /\ (\E i \in DOMAIN (s \o t) : (s \o t)[i] = "error") <=>
              (\E i \in DOMAIN s : s[i] = "error") \/ (\E i \in DOMAIN t : t[i] = "error")
<1>1. /\ Len(s) \in Nat /\ Len(t) \in Nat /\ DOMAIN s = 1 .. Len(s) /\ DOMAIN t = 1 .. Len(t)
  BY LenProperties
<1>2. /\ s \o t \in Seq({"warning", "error"}) /\ Len(s \o t) = Len(s) + Len(t)
      /\ \A i \in 1 .. Len(s) + Len(t) : (s \o t)[i] = IF i <= Len(s) THEN s[i] ELSE t[i - Len(s)]
  BY ConcatProperties
<1>3. DOMAIN (s \o t) = 1 .. Len(s) + Len(t)
  BY <1>2, LenProperties
<1>4. ASSUME NEW i \in 1 .. Len(s) + Len(t)
      PROVE  (i \in 1 .. Len(s) /\ (s \o t)[i] = s[i]) \/ (i - Len(s) \in 1 .. Len(t) /\ (s \o t)[i] = t[i - Len(s)])
  BY <1>1, <1>2
<1>5. \A i \in 1 .. Len(s) : i \in 1 .. Len(s) + Len(t) /\ (s \o t)[i] = s[i]
  BY <1>1, <1>2
<1>6. \A i \in 1 .. Len(t) : i + Len(s) \in 1 .. Len(s) + Len(t) /\ (s \o t)[i + Len(s)] = t[i]
  <2> TAKE i \in 1 .. Len(t)
  <2>1. i + Len(s) \in 1 .. Len(s) + Len(t) /\ ~ (i + Len(s) <= Len(s)) /\ (i + Len(s)) - Len(s) = i
    BY <1>1
  <2>2. QED BY <1>2, <2>1
<1>7. QED BY <1>1, <1>2, <1>3, <1>4, <1>5, <1>6

(* A context with some of its parts changed.                               *)
LEMMA PreconditionsAre ==
  ASSUME NEW s, NEW x
  PROVE  Preconditions(s, x) \in {<<>>, <<"warning">>, <<"error">>} /\ Preconditions(s, x) \in Seq({"warning", "error"})
<1>1. CASE s = "ingestion" /\ x.units = <<>>
  <2>1. Preconditions(s, x) = <<"warning">>
    BY <1>1 DEF Preconditions
  <2>2. QED BY <2>1
<1>2. CASE s = "resolution" /\ x.hir = <<>>
  <2>1. Preconditions(s, x) = <<"error">>
    BY <1>2 DEF Preconditions
  <2>2. QED BY <2>1
<1>3. CASE s = "validation" /\ x.mir = Nothing
  <2>1. Preconditions(s, x) = <<"error">>
    BY <1>3 DEF Preconditions
  <2>2. QED BY <2>1
<1>4. CASE ~ (s = "ingestion" /\ x.units = <<>>) /\ ~ (s = "resolution" /\ x.hir = <<>>) /\ ~ (s = "validation" /\ x.mir = Nothing)
  <2>1. Preconditions(s, x) = <<>>
    BY <1>4 DEF Preconditions
  <2>2. QED BY <2>1
<1>5. QED BY <1>1, <1>2, <1>3, <1>4

LEMMA BlanksAre ==
  ASSUME NEW units, Unfolded(units)
  PROVE  LET blanks == [i \in 1 .. Cardinality(BlankNodes(Nodes(units))) |-> "error"]
         IN  /\ blanks \in Seq({"warning", "error"})
             /\ BlankNodes(Nodes(units)) # {} => \E i \in DOMAIN blanks : blanks[i] = "error"
<1> DEFINE B == BlankNodes(Nodes(units))
           n == Cardinality(B)
           blanks == [i \in 1 .. n |-> "error"]
<1>1. B \in SUBSET (1 .. Len(units)) /\ Len(units) \in Nat
  BY NodesAre DEF BlankNodes, Unfolded
<1>2. IsFiniteSet(1 .. Len(units))
  BY <1>1, FS_Interval
<1>3. IsFiniteSet(B)
  BY <1>1, <1>2, FS_Subset
<1>4. n \in Nat /\ (B # {} => n # 0)
  BY <1>3, FS_CardinalityType, FS_EmptySet
<1> HIDE DEF n, B
<1>5. blanks \in Seq({"warning", "error"})
  BY <1>4, SeqDef
<1>6. B # {} => \E i \in DOMAIN blanks : blanks[i] = "error"
  <2> SUFFICES ASSUME B # {} PROVE \E i \in DOMAIN blanks : blanks[i] = "error"
    OBVIOUS
  <2>1. 1 \in DOMAIN blanks /\ blanks[1] = "error"
    BY <1>4
  <2>2. QED BY <2>1
<1>7. QED BY <1>5, <1>6 DEF n, B

StageNames == {"discovery", "ingestion", "lowering", "resolution",
               "graph_construction", "validation", "generation", "publishing"}

(* What a stage does to a context.                                         *)
Staged(s, x) ==
  [x EXCEPT
     !.diagnostics = (@ \o Preconditions(s, x)) \o
        (IF s = "validation" /\ x.mir # Nothing THEN [i \in 1 .. Cardinality(BlankNodes(x.mir)) |-> "error"]
         ELSE IF s = "publishing" /\ options.publish \in {"warning", "error"} THEN <<options.publish>> ELSE <<>>),
     !.hir = IF s = "lowering" THEN Nodes(x.units) ELSE @,
     !.mir = IF s = "graph_construction" THEN x.hir ELSE @,
     !.artifacts = IF s = "generation" /\ x.mir # Nothing /\ options.generate = "one" THEN @ + 1 ELSE @,
     !.lifecycle = StageLifecycle[s],
     !.stage = s]

LEMMA StageIs ==
  ASSUME NEW units, Unfolded(units), NEW x \in Contexts(units), NEW s \in StageNames
  PROVE  ExecuteStage(s, x) = IF StageThrows(s, x)
                              THEN [x EXCEPT !.diagnostics = @ \o Preconditions(s, x), !.lifecycle = "threw"]
                              ELSE Staged(s, x)
<1> DEFINE p == Preconditions(s, x)
           w == [x EXCEPT !.diagnostics = @ \o p]
<1>1. x.diagnostics \in Seq({"warning", "error"}) /\ p \in Seq({"warning", "error"})
  BY PreconditionsAre DEF Contexts
<1>2. x.diagnostics \o p \in Seq({"warning", "error"})
  BY <1>1, ConcatProperties
<1>3. (x.diagnostics \o p) \o <<>> = x.diagnostics \o p
  BY <1>2
<1>4. Append(x.diagnostics \o p, options.publish) = (x.diagnostics \o p) \o <<options.publish>>
  BY <1>2
<1>5. /\ w.mir = x.mir /\ w.hir = x.hir /\ w.units = x.units /\ w.artifacts = x.artifacts
      /\ w.diagnostics = x.diagnostics \o p
  BY DEF Contexts
<1>6. StageThrows(s, w) <=> StageThrows(s, x)
  BY <1>5 DEF StageThrows
<1>7. ExecuteStage(s, x) = IF StageThrows(s, w) THEN [w EXCEPT !.lifecycle = "threw"]
                           ELSE [Transformed(s, w) EXCEPT !.lifecycle = StageLifecycle[s], !.stage = s]
  BY DEF ExecuteStage
<1>8. [w EXCEPT !.lifecycle = "threw"] = [x EXCEPT !.diagnostics = @ \o p, !.lifecycle = "threw"]
  BY DEF Contexts
<1>9. [Transformed(s, w) EXCEPT !.lifecycle = StageLifecycle[s], !.stage = s] = Staged(s, x)
  <2>1. CASE s \in {"discovery", "ingestion", "resolution"}
    BY <1>3, <1>5, <2>1 DEF Transformed, Staged, Contexts
  <2>2. CASE s = "lowering"
    BY <1>3, <1>5, <2>2 DEF Transformed, Staged, Contexts
  <2>3. CASE s = "graph_construction"
    BY <1>3, <1>5, <2>3 DEF Transformed, Staged, Contexts
  <2>4. CASE s = "validation"
    BY <1>3, <1>5, <2>4 DEF Transformed, Staged, Contexts
  <2>5. CASE s = "generation"
    BY <1>3, <1>5, <2>5 DEF Transformed, Staged, Contexts
  <2>6. CASE s = "publishing"
    BY <1>3, <1>4, <1>5, <2>6 DEF Transformed, Staged, Contexts
  <2>7. QED BY <2>1, <2>2, <2>3, <2>4, <2>5, <2>6 DEF StageNames
<1>10. QED BY <1>6, <1>7, <1>8, <1>9

(* What the stage adds to the diagnostics is diagnostics: an error for     *)
(* blank nodes.                                                            *)
LEMMA StagedIs ==
  ASSUME NEW units, Unfolded(units), NEW x \in Contexts(units), NEW s \in StageNames
  PROVE  /\ Staged(s, x) \in Contexts(units)
         /\ Blocking(x) => Blocking(Staged(s, x))
         /\ s = "validation" /\ x.mir # Nothing /\ BlankNodes(x.mir) # {} => Blocking(Staged(s, x))
<1> DEFINE p == Preconditions(s, x)
           blanks == [i \in 1 .. Cardinality(BlankNodes(x.mir)) |-> "error"]
           more == IF s = "validation" /\ x.mir # Nothing THEN blanks
                   ELSE IF s = "publishing" /\ options.publish \in {"warning", "error"} THEN <<options.publish>> ELSE <<>>
           all == (x.diagnostics \o p) \o more
<1>1. x.diagnostics \in Seq({"warning", "error"}) /\ p \in Seq({"warning", "error"})
  BY PreconditionsAre DEF Contexts
<1>2. /\ x.mir # Nothing => blanks \in Seq({"warning", "error"})
      /\ x.mir # Nothing /\ BlankNodes(x.mir) # {} => \E i \in DOMAIN blanks : blanks[i] = "error"
  <2>1. CASE x.mir = Nodes(units)
    <3> HIDE DEF blanks
    <3> QED BY <2>1, BlanksAre DEF blanks
  <2>2. CASE x.mir = <<>>
    <3>1. BlankNodes(x.mir) = {}
      BY <2>2 DEF BlankNodes
    <3>2. Cardinality(BlankNodes(x.mir)) = 0
      BY <3>1, FS_EmptySet
    <3>3. blanks \in Seq({"warning", "error"})
      <4>1. blanks = [i \in 1 .. 0 |-> "error"]
        BY <3>2
      <4>2. [i \in 1 .. 0 |-> "error"] \in Seq({"warning", "error"})
        BY SeqDef
      <4>3. QED BY <4>1, <4>2
    <3>4. QED BY <3>1, <3>3
  <2>3. QED BY <2>1, <2>2 DEF Contexts
<1> HIDE DEF blanks
<1>3. more \in Seq({"warning", "error"})
  <2>1. CASE s = "validation" /\ x.mir # Nothing
    <3>1. more = blanks
      BY <2>1
    <3>2. QED BY <1>2, <2>1, <3>1
  <2>2. CASE s = "publishing" /\ options.publish \in {"warning", "error"}
    <3>1. more = <<options.publish>>
      BY <2>2
    <3>2. QED BY <2>2, <3>1
  <2>3. CASE ~ (s = "validation" /\ x.mir # Nothing) /\ ~ (s = "publishing" /\ options.publish \in {"warning", "error"})
    <3>1. more = <<>>
      BY <2>3
    <3> HIDE DEF more
    <3>2. QED BY <3>1
  <2>4. QED BY <2>1, <2>2, <2>3
<1> HIDE DEF p, more
<1>4. /\ x.diagnostics \o p \in Seq({"warning", "error"})
      /\ (\E i \in DOMAIN x.diagnostics : x.diagnostics[i] = "error") =>
            (\E i \in DOMAIN (x.diagnostics \o p) : (x.diagnostics \o p)[i] = "error")
  BY <1>1, DiagnosticsGrow
<1>5. /\ all \in Seq({"warning", "error"})
      /\ (\E i \in DOMAIN (x.diagnostics \o p) : (x.diagnostics \o p)[i] = "error") => (\E i \in DOMAIN all : all[i] = "error")
      /\ (\E i \in DOMAIN more : more[i] = "error") => (\E i \in DOMAIN all : all[i] = "error")
  BY <1>3, <1>4, DiagnosticsGrow
<1>6. Staged(s, x) = [x EXCEPT
                        !.diagnostics = all,
                        !.hir = IF s = "lowering" THEN Nodes(x.units) ELSE @,
                        !.mir = IF s = "graph_construction" THEN x.hir ELSE @,
                        !.artifacts = IF s = "generation" /\ x.mir # Nothing /\ options.generate = "one" THEN @ + 1 ELSE @,
                        !.lifecycle = StageLifecycle[s],
                        !.stage = s]
  BY DEF Staged, all, more, p, blanks, Contexts
<1> HIDE DEF all
<1>7. StageLifecycle[s] \in {"discover", "create_units", "lower", "resolve", "validate", "generate", "publish"}
  BY DEF StageLifecycle, StageNames
<1>8. Staged(s, x) \in Contexts(units) /\ Staged(s, x).diagnostics = all
  <2> DEFINE h == IF s = "lowering" THEN Nodes(x.units) ELSE x.hir
             m == IF s = "graph_construction" THEN x.hir ELSE x.mir
             n == IF s = "generation" /\ x.mir # Nothing /\ options.generate = "one" THEN x.artifacts + 1 ELSE x.artifacts
  <2>1. h \in {<<>>, Nodes(units)} /\ m \in {Nothing, <<>>, Nodes(units)} /\ n \in Nat
    BY DEF Contexts
  <2>2. Staged(s, x) = [x EXCEPT !.diagnostics = all, !.hir = h, !.mir = m, !.artifacts = n,
                                 !.lifecycle = StageLifecycle[s], !.stage = s]
    BY <1>6 DEF Contexts
  <2> HIDE DEF h, m, n
  <2>3. s \in {Nothing, "discovery", "ingestion", "lowering", "resolution",
               "graph_construction", "validation", "generation", "publishing"}
    BY DEF StageNames
  <2>4. Staged(s, x) = [units |-> units, diagnostics |-> all, hir |-> h, mir |-> m, artifacts |-> n,
                        lifecycle |-> StageLifecycle[s], stage |-> s]
    BY <2>2 DEF Contexts
  <2>5. QED BY <1>5, <1>7, <2>1, <2>3, <2>4 DEF Contexts
<1>9. Blocking(x) => Blocking(Staged(s, x))
  BY <1>4, <1>5, <1>8 DEF Blocking
<1>10. ASSUME s = "validation", x.mir # Nothing, BlankNodes(x.mir) # {} PROVE Blocking(Staged(s, x))
  <2>1. more = blanks
    BY <1>10 DEF more
  <2>2. QED BY <1>2, <1>5, <1>8, <1>10, <2>1 DEF Blocking
<1>11. QED BY <1>8, <1>9, <1>10

LEMMA StageKeeps ==
  ASSUME NEW units, Unfolded(units), NEW x \in Contexts(units), NEW s \in StageNames
  PROVE  ExecuteStage(s, x) \in Contexts(units)
<1>1. CASE StageThrows(s, x)
  <2>1. x.diagnostics \o Preconditions(s, x) \in Seq({"warning", "error"})
    BY PreconditionsAre, DiagnosticsGrow DEF Contexts
  <2>2. QED BY <1>1, <2>1, StageIs DEF Contexts
<1>2. CASE ~StageThrows(s, x)
  BY <1>2, StageIs, StagedIs
<1>3. QED BY <1>1, <1>2

LEMMA StageProgresses ==
  ASSUME NEW units, Unfolded(units), NEW x \in Contexts(units), NEW k \in 1 .. 8,
         ~Halts(x), Progress(k - 1, x)
  PROVE  StagedTo(k, ExecuteStage(CompilerStages[k], x))
<1> DEFINE s == CompilerStages[k]
           y == Staged(s, x)
           nodes == Nodes(units)
<1>1. s \in StageNames
  BY DEF CompilerStages, StageNames
<1>2. CASE StageThrows(s, x)
  <2>1. ExecuteStage(s, x).lifecycle = "threw"
    BY <1>1, <1>2, StageIs DEF Contexts
  <2>2. QED BY <2>1 DEF StagedTo, Halts
<1>3. CASE ~StageThrows(s, x)
  <2>1. ExecuteStage(s, x) = y
    BY <1>1, <1>3, StageIs
  <2>2. nodes # Nothing
    BY NodesAre
  <2>3. y \in Contexts(units) /\ (Blocking(x) => Blocking(y))
        /\ (s = "validation" /\ x.mir # Nothing /\ BlankNodes(x.mir) # {} => Blocking(y))
    BY <1>1, StagedIs
  <2>4. /\ x.units = units /\ y.units = units
        /\ y.hir = (IF s = "lowering" THEN nodes ELSE x.hir)
        /\ y.mir = (IF s = "graph_construction" THEN x.hir ELSE x.mir)
        /\ y.artifacts = (IF s = "generation" /\ x.mir # Nothing /\ options.generate = "one"
                          THEN x.artifacts + 1 ELSE x.artifacts)
    BY DEF Staged, Contexts
  <2> HIDE DEF y
  <2>5. /\ k = 3 <=> s = "lowering"
        /\ k = 5 <=> s = "graph_construction"
        /\ k = 6 <=> s = "validation"
        /\ k = 7 <=> s = "generation"
    BY DEF CompilerStages
  <2> HIDE DEF s, nodes
  <2>6. /\ k - 1 < 7 => x.artifacts = 0
        /\ k - 1 >= 3 => x.hir = nodes
        /\ k - 1 >= 5 => x.mir = nodes
        /\ k - 1 >= 6 => (BlankNodes(nodes) # {} => Blocking(x))
        /\ k - 1 >= 7 /\ options.generate = "one" => x.artifacts = 1
    BY <2>4 DEF Progress, nodes
  <2>7. k < 7 => y.artifacts = 0
    BY <2>4, <2>5, <2>6
  <2>8. k >= 3 => y.hir = nodes
    BY <2>4, <2>5, <2>6
  <2>9. k >= 5 => y.mir = nodes
    BY <2>4, <2>5, <2>6
  <2>10. k >= 6 => (BlankNodes(nodes) # {} => Blocking(y))
    BY <2>2, <2>3, <2>5, <2>6
  <2>11. k >= 7 /\ options.generate = "one" => y.artifacts = 1
    BY <2>2, <2>4, <2>5, <2>6
  <2>12. Progress(k, y)
    BY <2>4, <2>7, <2>8, <2>9, <2>10, <2>11 DEF Progress, nodes
  <2>13. QED BY <2>1, <2>12 DEF StagedTo, s
<1>4. QED BY <1>2, <1>3

(* What the compiler returns: a list that compiled is whole, and one that  *)
(* did not, and did not throw, has an error.                               *)
LEMMA CompiledIs ==
  ASSUME NEW units, Unfolded(units), options \in Options
  PROVE  /\ Compiled(units) \in Contexts(units)
         /\ Compiled(units).lifecycle \in {"threw", "cancelled", "complete"}
         /\ Successful(Compiled(units)) => Whole(Compiled(units))
         /\ Compiled(units).lifecycle # "threw" /\ ~Successful(Compiled(units)) => Blocking(Compiled(units))
<1> DEFINE S == Contexts(units)
           G(k, y) == IF Halts(y) THEN y ELSE ExecuteStage(CompilerStages[k], y)
           g == [q \in (1 .. 8) \X S |-> G(q[1], q[2])]
           Full(f) == [k \in 0 .. Len(CompilerStages) |->
                        IF k = 0 THEN NewContext(units)
                        ELSE IF Halts(f[k - 1]) THEN f[k - 1]
                        ELSE ExecuteStage(CompilerStages[k], f[k - 1])]
           after == CHOOSE f : f = Full(f)
           last == after[Len(CompilerStages)]
<1>1. Len(CompilerStages) = 8 /\ \A k \in 1 .. 8 : CompilerStages[k] \in StageNames
  BY DEF CompilerStages, StageNames
<1>2. NewContext(units) \in S
  BY DEF NewContext, Contexts
<1>3. \A k \in 1 .. 8 : \A y \in S : G(k, y) \in S
  BY <1>1, StageKeeps
<1>4. Compiled(units) = IF last.lifecycle = "threw" THEN last
                        ELSE IF Halts(last) THEN [last EXCEPT !.lifecycle = "cancelled"]
                        ELSE [last EXCEPT !.lifecycle = "complete", !.stage = Nothing]
  BY DEF Compiled
<1>5. /\ after \in [0 .. 8 -> S] /\ after[0] = NewContext(units)
      /\ \A k \in 1 .. 8 : after[k] = G(k, after[k - 1])
  <2>1. g \in [(1 .. 8) \X S -> S] /\ \A k \in 1 .. 8 : \A y \in S : g[<<k, y>>] = G(k, y)
    <3> HIDE DEF G, S
    <3> QED BY <1>3
  <2>2. PICK f \in [0 .. 8 -> S] : f[0] = NewContext(units) /\ \A k \in 1 .. 8 : f[k] = g[<<k, f[k - 1]>>]
    <3>1. 8 \in Nat
      OBVIOUS
    <3> DEFINE s0 == NewContext(units)
    <3>2. s0 \in S /\ g \in [(1 .. 8) \X S -> S]
      BY <1>2, <2>1
    <3> HIDE DEF g, S, s0
    <3>3. Recursive(S, s0, 8, g)
      BY <3>1, <3>2, RecursionExists
    <3>4. QED BY <3>3 DEF s0, Recursive
  <2>3. \A k \in 1 .. 8 : f[k] = G(k, f[k - 1])
    <3>1. \A k \in 1 .. 8 : f[k - 1] \in S
      BY <2>2
    <3> HIDE DEF g, G, S
    <3>2. QED BY <2>1, <2>2, <3>1
  <2>4. f = Full(f)
    <3>1. \A k \in 0 .. 8 : k = 0 \/ k \in 1 .. 8
      OBVIOUS
    <3>2. \A k \in 0 .. 8 : f[k] = IF k = 0 THEN NewContext(units) ELSE G(k, f[k - 1])
      BY <2>2, <2>3, <3>1
    <3>3. f = [k \in 0 .. 8 |-> IF k = 0 THEN NewContext(units) ELSE G(k, f[k - 1])]
      <4> HIDE DEF G
      <4> QED BY <2>2, <3>2
    <3>4. QED BY <1>1, <3>3
  <2>5. after = Full(after)
    <3> HIDE DEF Full
    <3> QED BY <2>4
  <2>6. after = [k \in 0 .. 8 |-> IF k = 0 THEN NewContext(units) ELSE G(k, after[k - 1])]
    <3> HIDE DEF after
    <3> QED BY <1>1, <2>5
  <2> HIDE DEF after, g, Full, G
  <2>7. after[0] = NewContext(units) /\ \A k \in 1 .. 8 : after[k] = G(k, after[k - 1])
    BY <2>6
  <2> DEFINE T == {k \in Nat : k <= 8 => after[k] \in S}
  <2>8. 0 \in T
    BY <1>2, <2>7
  <2>9. ASSUME NEW k \in Nat, k \in T PROVE k + 1 \in T
    <3>1. k + 1 <= 8 => k + 1 \in 1 .. 8 /\ (k + 1) - 1 = k /\ k <= 8
      OBVIOUS
    <3> HIDE DEF S
    <3>2. QED BY <1>3, <2>7, <2>9, <3>1
  <2>10. \A k \in Nat : k \in T
    <3> HIDE DEF T
    <3> QED BY <2>8, <2>9, Induction
  <2>11. \A k \in 0 .. 8 : after[k] \in S
    BY <2>10
  <2>12. QED BY <2>6, <2>7, <2>11
<1> HIDE DEF after, g, Full
<1>6. \A k \in 0 .. 8 : StagedTo(k, after[k])
  <2> DEFINE T == {k \in Nat : k <= 8 => StagedTo(k, after[k])}
  <2>1. 0 \in T
    BY <1>5 DEF StagedTo, Progress, NewContext
  <2>2. ASSUME NEW k \in Nat, k \in T PROVE k + 1 \in T
    <3> SUFFICES ASSUME k + 1 <= 8 PROVE StagedTo(k + 1, after[k + 1])
      OBVIOUS
    <3>1. k + 1 \in 1 .. 8 /\ (k + 1) - 1 = k /\ k \in 0 .. 8
      OBVIOUS
    <3>2. after[k] \in S /\ StagedTo(k, after[k]) /\ after[k + 1] = G(k + 1, after[k])
      BY <1>5, <2>2, <3>1
    <3>3. CASE Halts(after[k])
      BY <3>2, <3>3 DEF StagedTo
    <3>4. CASE ~Halts(after[k])
      <4>1. Progress((k + 1) - 1, after[k])
        BY <3>1, <3>2, <3>4 DEF StagedTo
      <4>2. StagedTo(k + 1, ExecuteStage(CompilerStages[k + 1], after[k]))
        BY <3>1, <3>2, <3>4, <4>1, StageProgresses
      <4>3. QED BY <3>2, <3>4, <4>2
    <3>5. QED BY <3>3, <3>4
  <2>3. \A k \in Nat : k \in T
    <3> HIDE DEF T
    <3> QED BY <2>1, <2>2, Induction
  <2>4. QED BY <2>3
<1>7. last \in S /\ StagedTo(8, last)
  <2>1. 8 \in 0 .. 8
    OBVIOUS
  <2>2. QED BY <1>1, <1>5, <1>6, <2>1
<1> HIDE DEF last
<1>8. CASE last.lifecycle = "threw"
  BY <1>4, <1>7, <1>8 DEF Successful
<1>9. CASE last.lifecycle # "threw" /\ Halts(last)
  <2>1. Compiled(units) = [last EXCEPT !.lifecycle = "cancelled"]
    BY <1>4, <1>9
  <2>2. /\ Compiled(units) \in S /\ Compiled(units).lifecycle = "cancelled"
        /\ Compiled(units).diagnostics = last.diagnostics
    BY <1>7, <2>1 DEF Contexts
  <2>3. Blocking(Compiled(units))
    BY <1>9, <2>2 DEF Halts, Blocking
  <2>4. QED BY <2>2, <2>3 DEF Successful
<1>10. CASE ~Halts(last)
  <2>1. Compiled(units) = [last EXCEPT !.lifecycle = "complete", !.stage = Nothing]
    BY <1>4, <1>10 DEF Halts
  <2>2. /\ Compiled(units) \in S /\ Compiled(units).lifecycle = "complete"
        /\ Compiled(units).diagnostics = last.diagnostics
        /\ Compiled(units).mir = last.mir /\ Compiled(units).artifacts = last.artifacts
        /\ Compiled(units).units = units /\ last.units = units
    BY <1>7, <2>1 DEF Contexts
  <2>3. /\ last.mir = Nodes(units)
        /\ BlankNodes(Nodes(units)) # {} => Blocking(last)
        /\ options.generate = "one" => last.artifacts = 1
    BY <1>7, <1>10, <2>2 DEF StagedTo, Progress
  <2>4. Blocking(Compiled(units)) <=> Blocking(last)
    BY <2>2 DEF Blocking
  <2>5. Successful(Compiled(units)) => Whole(Compiled(units))
    <3> SUFFICES ASSUME ~Blocking(Compiled(units)) PROVE Whole(Compiled(units))
      BY DEF Successful
    <3> DEFINE nodes == Nodes(units)
    <3>1. /\ nodes # Nothing /\ DOMAIN nodes = 1 .. Len(units) /\ DOMAIN units = 1 .. Len(units)
          /\ \A i \in 1 .. Len(units) : nodes[i].unit = units[i].id
      BY NodesAre DEF Unfolded
    <3> HIDE DEF nodes
    <3>2. [i \in DOMAIN nodes |-> nodes[i].unit] = [i \in DOMAIN units |-> units[i].id]
      BY <3>1
    <3>3. \A i \in DOMAIN nodes : nodes[i].kind # "blank"
      BY <2>3, <2>4 DEF BlankNodes, nodes
    <3>4. Compiled(units).mir = nodes
      BY <2>2, <2>3 DEF nodes
    <3>5. QED BY <2>2, <2>3, <3>1, <3>2, <3>3, <3>4 DEF Whole
  <2>6. Blocking(Compiled(units)) \/ Successful(Compiled(units))
    BY <2>2 DEF Successful
  <2>7. QED BY <2>2, <2>5, <2>6
<1>11. QED BY <1>8, <1>9, <1>10

-----------------------------------------------------------------------------
(* The places of what a list says of a goal of c.                          *)
OfGoal(list, c, goal) == {i \in DOMAIN list : list[i].by = c /\ list[i].goal = goal}

(* Whole, under given options.                                             *)
WholeUnder(o, x) ==
  /\ x.mir # Nothing /\ [i \in DOMAIN x.mir |-> x.mir[i].unit] = [i \in DOMAIN x.units |-> x.units[i].id]
  /\ \A i \in DOMAIN x.mir : x.mir[i].kind # "blank"
  /\ ~Blocking(x)
  /\ o.generate = "one" => x.artifacts = 1

GoalVerdict(o, x) == (Successful(x) => WholeUnder(o, x)) /\ (~Successful(x) => Blocking(x)) /\ x.artifacts \in Nat

(* A call has come as far as its parts, the memory and the events say.     *)
NothingYet(k, R, A) == k.context = Nothing /\ k.ran = Nothing /\ R = {} /\ A = {}
GoalAnswered(o, cmd, k, R) ==
  /\ k.code = 0 /\ cmd \in FromGoal => R # {}
  /\ k.code = 0 /\ cmd # "api.compile" => WholeUnder(o, k.context)
  /\ k.code = 5 => k.ran = Nothing /\ Blocking(k.context)
  /\ k.code = 6 => k.ran = FALSE
  /\ k.code \in {3, 4} => k.context = Nothing
GoalTold(o, k, R, A, mem, told) ==
  /\ k.ran # Nothing => WholeUnder(o, k.context)
  /\ R # {} => k.ran = TRUE
  /\ \A i \in R : mem[i].artifacts = k.context.artifacts
  /\ \A i, j \in R : i = j
  /\ \A i, j \in A : i = j
  /\ \A i \in A : told[i].success => WholeUnder(o, k.context)

JobFits(o, cmd, k, R, A, mem, told) ==
  /\ k = [phase |-> k.phase, context |-> k.context, ran |-> k.ran, code |-> k.code, goals |-> k.goals]
  /\ k.goals \in Nat
  /\ k.phase \in {"given", "retrieving"} => NothingYet(k, R, A)
  /\ k.phase = "compiled" => GoalVerdict(o, k.context) /\ k.ran = Nothing
  /\ k.phase \in {"executed", "storing"} =>
       WholeUnder(o, k.context) /\ k.context.artifacts \in Nat /\ k.ran \in BOOLEAN
  /\ k.phase = "storing" => k.ran = TRUE
  /\ k.phase # "answered" => R = {}
  /\ GoalTold(o, k, R, A, mem, told)
  /\ k.phase = "answered" => GoalAnswered(o, cmd, k, R)

GoalFits(o, cmd, c, k, mem, told) ==
  JobFits(o, cmd, k, OfGoal(mem, c, k.goals), OfGoal(told, c, k.goals), mem, told)

RecordSet == [by : Calls, goal : Nat, artifacts : Nat]
EventSet == [by : Calls, goal : Nat, success : BOOLEAN]

(* Nobody's record or event is of a goal that has not been given yet, and   *)
(* every call fits what there is of it.                                     *)
GoalInv ==
  /\ options \in Options
  /\ job = [c \in Calls |-> job[c]]
  /\ memory \in Seq(RecordSet) /\ \A i \in DOMAIN memory : memory[i].goal <= job[memory[i].by].goals
  /\ announced \in Seq(EventSet) /\ \A i \in DOMAIN announced : announced[i].goal <= job[announced[i].by].goals
  /\ \A c \in Calls : GoalFits(options, command[c], c, job[c], memory, announced)

LEMMA ExitCodes ==
  ASSUME NEW c \in Calls
  PROVE  /\ ExitCode(c, "threw") \in {1, 2}
         /\ ExitCode(c, "Planning failed") \in {1, 3}
         /\ ExitCode(c, "Workflow compilation failed") \in {1, 3}
         /\ ExitCode(c, "Compilation failed") \in {1, 5}
         /\ ExitCode(c, "Execution failed") \in {1, 6}
BY DEF ExitCode

(* A list that is longer by what it says of c.                             *)
LEMMA OfGoalAppended ==
  ASSUME NEW S, NEW list \in Seq(S), NEW r \in S
  PROVE  /\ Append(list, r) \in Seq(S) /\ Len(list) \in Nat /\ DOMAIN list = 1 .. Len(list)
         /\ DOMAIN Append(list, r) = DOMAIN list \cup {Len(list) + 1}
         /\ Append(list, r)[Len(list) + 1] = r
         /\ \A i \in DOMAIN list : Append(list, r)[i] = list[i]
         /\ \A c, goal : OfGoal(Append(list, r), c, goal) =
              OfGoal(list, c, goal) \cup (IF r.by = c /\ r.goal = goal THEN {Len(list) + 1} ELSE {})
<1>1. Len(list) \in Nat /\ DOMAIN list = 1 .. Len(list)
  BY LenProperties
<1>2. /\ Append(list, r) \in Seq(S) /\ DOMAIN Append(list, r) = 1 .. Len(list) + 1
      /\ Append(list, r)[Len(list) + 1] = r /\ \A i \in 1 .. Len(list) : Append(list, r)[i] = list[i]
  BY AppendProperties, LenProperties
<1>3. DOMAIN Append(list, r) = DOMAIN list \cup {Len(list) + 1}
  BY <1>1, <1>2
<1>4. \A c, goal : OfGoal(Append(list, r), c, goal) =
              OfGoal(list, c, goal) \cup (IF r.by = c /\ r.goal = goal THEN {Len(list) + 1} ELSE {})
  BY <1>1, <1>2, <1>3 DEF OfGoal
<1>5. QED BY <1>1, <1>2, <1>3, <1>4

(* What fits depends only on the entries of the call.                      *)
LEMMA FitsStays ==
  ASSUME NEW o, NEW cmd, NEW c, NEW k, NEW mem, NEW told, NEW mem2, NEW told2,
         GoalFits(o, cmd, c, k, mem, told),
         OfGoal(mem2, c, k.goals) = OfGoal(mem, c, k.goals), OfGoal(told2, c, k.goals) = OfGoal(told, c, k.goals),
         \A i \in OfGoal(mem, c, k.goals) : mem2[i] = mem[i],
         \A i \in OfGoal(told, c, k.goals) : told2[i] = told[i]
  PROVE  GoalFits(o, cmd, c, k, mem2, told2)
<1> DEFINE R == OfGoal(mem, c, k.goals)
           A == OfGoal(told, c, k.goals)
<1>1. OfGoal(mem2, c, k.goals) = R /\ OfGoal(told2, c, k.goals) = A /\ JobFits(o, cmd, k, R, A, mem, told)
  BY DEF GoalFits
<1>2. (\A i \in R : mem2[i] = mem[i]) /\ (\A i \in A : told2[i] = told[i])
  OBVIOUS
<1> HIDE DEF R, A
<1>3. GoalTold(o, k, R, A, mem, told) => GoalTold(o, k, R, A, mem2, told2)
  BY <1>2 DEF GoalTold
<1>4. JobFits(o, cmd, k, R, A, mem2, told2)
  BY <1>1, <1>3 DEF JobFits
<1>5. QED BY <1>1, <1>4 DEF GoalFits

(* A step of c, and what it adds to the memory and the events.             *)
LEMMA CallMoves ==
  ASSUME GoalInv, NEW c \in Calls, NEW k, job' = [job EXCEPT ![c] = k], UNCHANGED <<command, options>>,
         k.goals \in Nat, k.goals >= job[c].goals,
         NEW r \in RecordSet, r.by = c, r.goal = k.goals, memory' \in {memory, Append(memory, r)},
         NEW e \in EventSet, e.by = c, e.goal = k.goals, announced' \in {announced, Append(announced, e)},
         GoalFits(options, command[c], c, k, memory', announced')
  PROVE  GoalInv'
<1>1. /\ options' \in Options /\ job' = [d \in Calls |-> job'[d]] /\ job'[c] = k
      /\ \A d \in Calls : d # c => job'[d] = job[d]
  BY DEF GoalInv
<1>2. \A d \in Calls : job[d].goals \in Nat /\ job'[d].goals \in Nat /\ job[d].goals <= job'[d].goals
  BY <1>1 DEF GoalInv, GoalFits, JobFits
<1>3. /\ memory' \in Seq(RecordSet)
      /\ \A i \in DOMAIN memory' : memory'[i].goal <= job'[memory'[i].by].goals
      /\ \A d \in Calls : \A goal : d # c => OfGoal(memory', d, goal) = OfGoal(memory, d, goal)
      /\ \A i \in DOMAIN memory : memory'[i] = memory[i]
  <2>1. \A i \in DOMAIN memory : memory[i] \in RecordSet /\ memory[i].goal <= job'[memory[i].by].goals
    <3>1. \A i \in DOMAIN memory : memory[i] \in RecordSet /\ memory[i].goal <= job[memory[i].by].goals
      BY LenProperties, ElementOfSeq DEF GoalInv
    <3>2. QED BY <1>2, <3>1 DEF RecordSet
  <2>2. CASE memory' = memory
    BY <2>1, <2>2 DEF GoalInv
  <2>3. CASE memory' = Append(memory, r)
    <3>1. r.goal <= job'[r.by].goals
      BY <1>1, <1>2
    <3>2. /\ Append(memory, r) \in Seq(RecordSet)
          /\ DOMAIN Append(memory, r) = DOMAIN memory \cup {Len(memory) + 1}
          /\ Append(memory, r)[Len(memory) + 1] = r
          /\ \A i \in DOMAIN memory : Append(memory, r)[i] = memory[i]
          /\ \A d, goal : OfGoal(Append(memory, r), d, goal) =
               OfGoal(memory, d, goal) \cup (IF r.by = d /\ r.goal = goal THEN {Len(memory) + 1} ELSE {})
      BY OfGoalAppended DEF GoalInv
    <3>3. \A d \in Calls : \A goal : d # c => OfGoal(memory', d, goal) = OfGoal(memory, d, goal)
      <4> TAKE d \in Calls
      <4> TAKE goal
      <4> SUFFICES ASSUME d # c PROVE OfGoal(memory', d, goal) = OfGoal(memory, d, goal)
        OBVIOUS
      <4>1. (IF r.by = d /\ r.goal = goal THEN {Len(memory) + 1} ELSE {}) = {}
        OBVIOUS
      <4>2. OfGoal(Append(memory, r), d, goal) = OfGoal(memory, d, goal) \cup {}
        BY <3>2, <4>1
      <4>3. QED BY <2>3, <4>2
    <3>4. \A i \in DOMAIN memory' : memory'[i].goal <= job'[memory'[i].by].goals
      <4> TAKE i \in DOMAIN memory'
      <4>1. CASE i \in DOMAIN memory
        BY <2>1, <2>3, <3>2, <4>1
      <4>2. CASE i = Len(memory) + 1
        BY <2>3, <3>1, <3>2, <4>2
      <4>3. QED BY <2>3, <3>2, <4>1, <4>2
    <3>5. QED BY <2>3, <3>2, <3>3, <3>4
  <2>4. QED BY <2>2, <2>3
<1>4. /\ announced' \in Seq(EventSet)
      /\ \A i \in DOMAIN announced' : announced'[i].goal <= job'[announced'[i].by].goals
      /\ \A d \in Calls : \A goal : d # c => OfGoal(announced', d, goal) = OfGoal(announced, d, goal)
      /\ \A i \in DOMAIN announced : announced'[i] = announced[i]
  <2>1. \A i \in DOMAIN announced : announced[i] \in EventSet /\ announced[i].goal <= job'[announced[i].by].goals
    <3>1. \A i \in DOMAIN announced : announced[i] \in EventSet /\ announced[i].goal <= job[announced[i].by].goals
      BY LenProperties, ElementOfSeq DEF GoalInv
    <3>2. QED BY <1>2, <3>1 DEF EventSet
  <2>2. CASE announced' = announced
    BY <2>1, <2>2 DEF GoalInv
  <2>3. CASE announced' = Append(announced, e)
    <3>1. e.goal <= job'[e.by].goals
      BY <1>1, <1>2
    <3>2. /\ Append(announced, e) \in Seq(EventSet)
          /\ DOMAIN Append(announced, e) = DOMAIN announced \cup {Len(announced) + 1}
          /\ Append(announced, e)[Len(announced) + 1] = e
          /\ \A i \in DOMAIN announced : Append(announced, e)[i] = announced[i]
          /\ \A d, goal : OfGoal(Append(announced, e), d, goal) =
               OfGoal(announced, d, goal) \cup (IF e.by = d /\ e.goal = goal THEN {Len(announced) + 1} ELSE {})
      BY OfGoalAppended DEF GoalInv
    <3>3. \A d \in Calls : \A goal : d # c => OfGoal(announced', d, goal) = OfGoal(announced, d, goal)
      <4> TAKE d \in Calls
      <4> TAKE goal
      <4> SUFFICES ASSUME d # c PROVE OfGoal(announced', d, goal) = OfGoal(announced, d, goal)
        OBVIOUS
      <4>1. (IF e.by = d /\ e.goal = goal THEN {Len(announced) + 1} ELSE {}) = {}
        OBVIOUS
      <4>2. OfGoal(Append(announced, e), d, goal) = OfGoal(announced, d, goal) \cup {}
        BY <3>2, <4>1
      <4>3. QED BY <2>3, <4>2
    <3>4. \A i \in DOMAIN announced' : announced'[i].goal <= job'[announced'[i].by].goals
      <4> TAKE i \in DOMAIN announced'
      <4>1. CASE i \in DOMAIN announced
        BY <2>1, <2>3, <3>2, <4>1
      <4>2. CASE i = Len(announced) + 1
        BY <2>3, <3>1, <3>2, <4>2
      <4>3. QED BY <2>3, <3>2, <4>1, <4>2
    <3>5. QED BY <2>3, <3>2, <3>3, <3>4
  <2>4. QED BY <2>2, <2>3
<1>5. ASSUME NEW d \in Calls PROVE GoalFits(options', command'[d], d, job'[d], memory', announced')
  <2>1. CASE d = c
    BY <1>1, <2>1
  <2>2. CASE d # c
    <3>1. GoalFits(options, command[d], d, job[d], memory, announced) /\ job'[d] = job[d]
      BY <1>1, <2>2 DEF GoalInv
    <3>2. /\ OfGoal(memory', d, job[d].goals) = OfGoal(memory, d, job[d].goals)
          /\ OfGoal(announced', d, job[d].goals) = OfGoal(announced, d, job[d].goals)
      BY <1>3, <1>4, <2>2
    <3>3. /\ \A i \in OfGoal(memory, d, job[d].goals) : memory'[i] = memory[i]
          /\ \A i \in OfGoal(announced, d, job[d].goals) : announced'[i] = announced[i]
      BY <1>3, <1>4 DEF OfGoal
    <3>4. GoalFits(options, command[d], d, job[d], memory', announced')
      BY <3>1, <3>2, <3>3, FitsStays
    <3>5. QED BY <3>1, <3>4
  <2>3. QED BY <2>1, <2>2
<1>6. QED BY <1>1, <1>3, <1>4, <1>5 DEF GoalInv

(* The lists a call may compile.                                           *)
LEMMA UnitsAre ==
  /\ \A units \in UnitLists : Unfolded(units)
  /\ \A objects \in Objects, units \in UnitLists : Unfolded(Projected(objects) \o units)
  /\ Unfolded(PlannedUnits)
<1>1. \A u \in ListedIn(UnitLists) \cup ListedIn(Objects) : Unit(u)
  BY DEF Unit, UnitIds, UnitKinds
<1>2. ASSUME NEW units \in UnitLists PROVE Unfolded(units)
  <2>1. units \in Seq(ListedIn(UnitLists))
    BY GoalLists
  <2>2. DOMAIN units = 1 .. Len(units) /\ Len(units) \in Nat /\ \A i \in 1 .. Len(units) : units[i] \in ListedIn(UnitLists)
    BY <2>1, LenProperties, ElementOfSeq
  <2>3. QED BY <1>1, <2>2 DEF Unfolded
<1>3. ASSUME NEW objects \in Objects, NEW units \in UnitLists PROVE Unfolded(Projected(objects) \o units)
  <2>1. objects \in Seq(ListedIn(Objects))
    BY GoalLists
  <2>2. DOMAIN objects = 1 .. Len(objects) /\ Len(objects) \in Nat /\ \A i \in 1 .. Len(objects) : objects[i] \in ListedIn(Objects)
    BY <2>1, LenProperties, ElementOfSeq
  <2> DEFINE T == [id : UnitIds, kind : UnitKinds]
             U == T \cup ListedIn(UnitLists)
             n == Len(objects)
             p == Projected(objects)
  <2>3. \A i \in 1 .. n : [id |-> objects[i].id, kind |-> objects[i].kind] \in T
    BY <1>1, <2>2 DEF Unit
  <2>4. p \in [1 .. n -> T]
    BY <2>2, <2>3 DEF Projected
  <2>5. p \in Seq(U)
    <3>1. p \in [1 .. n -> U]
      BY <2>4
    <3> HIDE DEF p, U, T
    <3>2. QED BY <2>2, <3>1, SeqDef
  <2>6. units \in Seq(U)
    <3>1. \A i \in 1 .. Len(units) : units[i] \in U
      BY GoalLists, ElementOfSeq
    <3>2. units = [i \in 1 .. Len(units) |-> units[i]] /\ Len(units) \in Nat
      BY GoalLists, LenProperties
    <3>3. units \in [1 .. Len(units) -> U]
      BY <3>1, <3>2
    <3> HIDE DEF U
    <3>4. QED BY <3>2, <3>3, SeqDef
  <2>7. \A u \in U : Unit(u)
    BY <1>1 DEF Unit
  <2> HIDE DEF p, U
  <2>8. p \o units \in Seq(U)
    BY <2>5, <2>6, ConcatProperties
  <2>9. DOMAIN (p \o units) = 1 .. Len(p \o units) /\ Len(p \o units) \in Nat /\ \A i \in 1 .. Len(p \o units) : (p \o units)[i] \in U
    BY <2>8, LenProperties, ElementOfSeq
  <2>10. QED BY <2>7, <2>9 DEF Unfolded, p
<1>4. Unfolded(PlannedUnits)
  BY DEF Unfolded, PlannedUnits, Unit, UnitIds, UnitKinds
<1>5. QED BY <1>2, <1>3, <1>4

LEMMA GoalInitially == GoalInit => GoalInv
<1> SUFFICES ASSUME GoalInit PROVE GoalInv
  OBVIOUS
<1>1. options \in Options /\ job = [c \in Calls |-> NewCall(1)] /\ memory = <<>> /\ announced = <<>>
  BY DEF GoalInit
<1>2. OfGoal(<<>>, 0, 0) = {} /\ \A c, goal : OfGoal(<<>>, c, goal) = {}
  BY DEF OfGoal
<1>3. ASSUME NEW c \in Calls PROVE GoalFits(options, command[c], c, job[c], memory, announced)
  <2>1. job[c] = NewCall(1)
    BY <1>1
  <2>2. GoalFits(options, command[c], c, NewCall(1), <<>>, <<>>)
    BY <1>2 DEF GoalFits, JobFits, NothingYet, GoalTold, NewCall
  <2>3. QED BY <1>1, <2>1, <2>2
<1>4. QED BY <1>1, <1>3 DEF GoalInv

(* A step of c that adds nothing to the memory and the events.             *)
LEMMA CallGoes ==
  ASSUME GoalInv, NEW c \in Calls, NEW k, job' = [job EXCEPT ![c] = k],
         UNCHANGED <<command, options, memory, announced>>, k.goals = job[c].goals,
         LET R == OfGoal(memory, c, job[c].goals)
             A == OfGoal(announced, c, job[c].goals)
         IN  JobFits(options, command[c], k, R, A, memory, announced)
  PROVE  GoalInv'
<1> DEFINE r == [by |-> c, goal |-> k.goals, artifacts |-> 0]
           e == [by |-> c, goal |-> k.goals, success |-> TRUE]
<1>1. k.goals \in Nat /\ k.goals >= job[c].goals
  BY DEF GoalInv, GoalFits, JobFits
<1>2. r \in RecordSet /\ r.by = c /\ r.goal = k.goals /\ e \in EventSet /\ e.by = c /\ e.goal = k.goals
  BY <1>1 DEF RecordSet, EventSet
<1>3. GoalFits(options, command[c], c, k, memory', announced')
  BY DEF GoalFits
<1> HIDE DEF r, e
<1>4. QED BY <1>1, <1>2, <1>3, CallMoves

(* A call with some of its parts changed.                                  *)
Phased(k, n) == [k EXCEPT !.phase = n]
Ran(k, n) == [k EXCEPT !.ran = n]

LEMMA AnswerIs ==
  ASSUME NEW k, NEW ph, NEW x, NEW ran, NEW code, NEW goals, NEW n,
         k = [phase |-> ph, context |-> x, ran |-> ran, code |-> code, goals |-> goals]
  PROVE  Answer(k, n) = [phase |-> "answered", context |-> x, ran |-> ran, code |-> n, goals |-> goals]
<1>1. [k EXCEPT !.phase = "answered"] = [phase |-> "answered", context |-> x, ran |-> ran, code |-> code, goals |-> goals]
  OBVIOUS
<1> DEFINE k2 == [k EXCEPT !.phase = "answered"]
<1>2. Answer(k, n) = [k2 EXCEPT !.code = n]
  BY DEF Answer
<1>3. k2 = [phase |-> "answered", context |-> x, ran |-> ran, code |-> code, goals |-> goals]
  BY <1>1
<1> HIDE DEF k2
<1>4. [k2 EXCEPT !.code = n] = [phase |-> "answered", context |-> x, ran |-> ran, code |-> n, goals |-> goals]
  BY <1>3
<1>5. QED BY <1>2, <1>4

LEMMA PhaseIs ==
  ASSUME NEW k, NEW ph, NEW x, NEW ran, NEW code, NEW goals, NEW n,
         k = [phase |-> ph, context |-> x, ran |-> ran, code |-> code, goals |-> goals]
  PROVE  Phased(k, n) = [phase |-> n, context |-> x, ran |-> ran, code |-> code, goals |-> goals]
BY DEF Phased

LEMMA RanIs ==
  ASSUME NEW k, NEW ph, NEW x, NEW ran, NEW code, NEW goals, NEW n,
         k = [phase |-> ph, context |-> x, ran |-> ran, code |-> code, goals |-> goals]
  PROVE  Ran(k, n) = [phase |-> ph, context |-> x, ran |-> n, code |-> code, goals |-> goals]
BY DEF Ran

LEMMA ThrewFits ==
  ASSUME NEW o, NEW cmd, NEW k, NEW R, k.code \in {1, 2}
  PROVE  GoalAnswered(o, cmd, k, R)
BY DEF GoalAnswered

(* A call that has nothing but its goal is answered.                       *)
LEMMA EarlyAnswers ==
  ASSUME GoalInv, NEW c \in Calls, NEW code \in {1, 2, 3, 4}, job[c].phase \in {"given", "retrieving"},
         job' = [job EXCEPT ![c] = Answer(job[c], code)], UNCHANGED <<command, options, memory, announced>>
  PROVE  GoalInv'
<1> DEFINE k == Answer(job[c], code)
           R == OfGoal(memory, c, job[c].goals)
           A == OfGoal(announced, c, job[c].goals)
<1>1. JobFits(options, command[c], job[c], R, A, memory, announced)
  BY DEF GoalInv, GoalFits
<1> HIDE DEF R, A
<1>2. NothingYet(job[c], R, A) /\ job[c].goals \in Nat
      /\ job[c] = [phase |-> job[c].phase, context |-> job[c].context, ran |-> job[c].ran,
                   code |-> job[c].code, goals |-> job[c].goals]
  BY <1>1 DEF JobFits
<1>3. k = [phase |-> "answered", context |-> job[c].context, ran |-> job[c].ran, code |-> code, goals |-> job[c].goals]
  BY <1>2, AnswerIs
<1> HIDE DEF k
<1>4. JobFits(options, command[c], k, R, A, memory, announced)
  BY <1>2, <1>3 DEF JobFits, NothingYet, GoalTold, GoalAnswered
<1>5. job' = [job EXCEPT ![c] = k] /\ k.goals = job[c].goals
  BY <1>3 DEF k
<1>6. QED BY <1>4, <1>5, CallGoes DEF R, A

(* AtlasCompiler.compile by a call that has nothing but its goal.          *)
LEMMA CompileFits ==
  ASSUME GoalInv, NEW c \in Calls, NEW units, Unfolded(units), job[c].phase \in {"given", "retrieving"},
         CompileUnits(c, units), UNCHANGED <<command, options, memory>>
  PROVE  GoalInv'
<1> DEFINE R == OfGoal(memory, c, job[c].goals)
           A == OfGoal(announced, c, job[c].goals)
<1>1. JobFits(options, command[c], job[c], R, A, memory, announced) /\ options \in Options
  BY DEF GoalInv, GoalFits
<1> HIDE DEF R, A
<1>2. NothingYet(job[c], R, A) /\ job[c].goals \in Nat
      /\ job[c] = [phase |-> job[c].phase, context |-> job[c].context, ran |-> job[c].ran,
                   code |-> job[c].code, goals |-> job[c].goals]
  BY <1>1 DEF JobFits
<1> DEFINE x == Compiled(units)
           k == [job[c] EXCEPT !.context = x]
<1>3. /\ x.lifecycle # "threw" => GoalVerdict(options, x)
      /\ x.artifacts \in Nat
      /\ Successful(x) \in BOOLEAN /\ (Successful(x) => WholeUnder(options, x))
  <2>1. /\ x \in Contexts(units) /\ (Successful(x) => Whole(x))
        /\ x.lifecycle # "threw" /\ ~Successful(x) => Blocking(x)
    BY <1>1, CompiledIs
  <2> HIDE DEF x
  <2>2. Whole(x) <=> WholeUnder(options, x)
    BY DEF Whole, WholeUnder
  <2>3. x.artifacts \in Nat
    BY <2>1 DEF Contexts
  <2>4. Successful(x) \in BOOLEAN
    BY DEF Successful
  <2>5. QED BY <2>1, <2>2, <2>3, <2>4 DEF GoalVerdict
<1>4. ExitCode(c, "threw") \in {1, 2}
  BY ExitCodes
<1>5. IF x.lifecycle = "threw"
      THEN Fails(c, k, "threw") /\ UNCHANGED announced
      ELSE /\ announced' = Append(announced, [by |-> c, goal |-> k.goals, success |-> Successful(x)])
           /\ IF options.listen = "throws" THEN Fails(c, k, "threw") ELSE Goes(c, k, "compiled")
  BY DEF CompileUnits
<1> HIDE DEF x
<1>6. k = [phase |-> job[c].phase, context |-> x, ran |-> Nothing, code |-> job[c].code, goals |-> job[c].goals]
  BY <1>2 DEF NothingYet
<1>7. ASSUME NEW code \in {1, 2}
      PROVE  Answer(k, code) = [phase |-> "answered", context |-> x, ran |-> Nothing, code |-> code, goals |-> job[c].goals]
  BY <1>6, AnswerIs
<1>8. CASE x.lifecycle = "threw"
  <2> DEFINE k2 == Answer(k, ExitCode(c, "threw"))
  <2>1. k2 = [phase |-> "answered", context |-> x, ran |-> Nothing, code |-> ExitCode(c, "threw"), goals |-> job[c].goals]
    BY <1>4, <1>7
  <2>2. job' = [job EXCEPT ![c] = k2] /\ UNCHANGED announced
    BY <1>5, <1>8 DEF Fails
  <2> HIDE DEF k2
  <2>3. JobFits(options, command[c], k2, R, A, memory, announced)
    BY <1>2, <1>4, <2>1 DEF JobFits, NothingYet, GoalTold, GoalAnswered
  <2>4. QED BY <2>1, <2>2, <2>3, CallGoes DEF R, A
<1>9. CASE x.lifecycle # "threw"
  <2> DEFINE e == [by |-> c, goal |-> job[c].goals, success |-> Successful(x)]
             r == [by |-> c, goal |-> job[c].goals, artifacts |-> 0]
             told == Append(announced, e)
  <2>1. announced' = told
    BY <1>5, <1>6, <1>9
  <2>2. PICK k2 : /\ job' = [job EXCEPT ![c] = k2]
                  /\ \/ k2 = Answer(k, ExitCode(c, "threw"))
                     \/ k2 = Phased(k, "compiled")
    <3>1. CASE options.listen = "throws"
      BY <1>5, <1>9, <3>1 DEF Fails
    <3>2. CASE options.listen # "throws"
      BY <1>5, <1>9, <3>2 DEF Goes, Phased
    <3>3. QED BY <3>1, <3>2
  <2>3. \/ k2 = [phase |-> "answered", context |-> x, ran |-> Nothing, code |-> ExitCode(c, "threw"), goals |-> job[c].goals]
        \/ k2 = [phase |-> "compiled", context |-> x, ran |-> Nothing, code |-> job[c].code, goals |-> job[c].goals]
    <3>1. Answer(k, ExitCode(c, "threw")) = [phase |-> "answered", context |-> x, ran |-> Nothing, code |-> ExitCode(c, "threw"), goals |-> job[c].goals]
      BY <1>4, <1>7
    <3>2. Phased(k, "compiled") = [phase |-> "compiled", context |-> x, ran |-> Nothing, code |-> job[c].code, goals |-> job[c].goals]
      BY <1>6, PhaseIs
    <3> HIDE DEF k
    <3>3. QED BY <2>2, <3>1, <3>2
  <2> HIDE DEF k
  <2>4. k2.goals = job[c].goals /\ k2.context = x /\ k2.ran = Nothing
    BY <2>3
  <2>5. e \in EventSet /\ r \in RecordSet /\ e.by = c /\ r.by = c /\ e.goal = k2.goals /\ r.goal = k2.goals
        /\ e.success = Successful(x)
    BY <1>2, <1>3, <2>4 DEF EventSet, RecordSet
  <2> HIDE DEF e, r
  <2>6. /\ OfGoal(told, c, job[c].goals) = {Len(announced) + 1}
        /\ told[Len(announced) + 1] = e
    <3>1. announced \in Seq(EventSet) /\ A = {}
      BY <1>2 DEF GoalInv, NothingYet
    <3>2. QED BY <2>4, <2>5, <3>1, OfGoalAppended DEF A
  <2>7. GoalTold(options, k2, R, {Len(announced) + 1}, memory, told)
    <3>1. told[Len(announced) + 1].success => WholeUnder(options, k2.context)
      BY <1>3, <2>4, <2>5, <2>6
    <3> HIDE DEF told
    <3>2. QED BY <1>2, <2>4, <3>1 DEF GoalTold, NothingYet
  <2>8. JobFits(options, command[c], k2, R, {Len(announced) + 1}, memory, told)
    <3> HIDE DEF told
    <3>1. CASE k2 = [phase |-> "answered", context |-> x, ran |-> Nothing, code |-> ExitCode(c, "threw"), goals |-> job[c].goals]
      <4>1. GoalAnswered(options, command[c], k2, R)
        BY <1>4, <3>1 DEF GoalAnswered
      <4>2. QED BY <1>2, <2>7, <3>1, <4>1 DEF JobFits, NothingYet
    <3>2. CASE k2 = [phase |-> "compiled", context |-> x, ran |-> Nothing, code |-> job[c].code, goals |-> job[c].goals]
      BY <1>2, <1>3, <1>9, <2>7, <3>2 DEF JobFits, NothingYet
    <3>3. QED BY <2>3, <3>1, <3>2
  <2>9. GoalFits(options, command[c], c, k2, memory', announced')
    BY <2>1, <2>4, <2>6, <2>8 DEF GoalFits, R
  <2>10. k2.goals \in Nat /\ k2.goals >= job[c].goals
    BY <1>2, <2>4
  <2>11. QED BY <2>1, <2>2, <2>5, <2>9, <2>10, CallMoves
<1>10. QED BY <1>8, <1>9

(* What the invariant says of one call.                                    *)
LEMMA CallFits ==
  ASSUME GoalInv, NEW c \in Calls
  PROVE  LET k == job[c]
             R == OfGoal(memory, c, k.goals)
             A == OfGoal(announced, c, k.goals)
         IN  /\ k.goals \in Nat
             /\ k = [phase |-> k.phase, context |-> k.context, ran |-> k.ran, code |-> k.code, goals |-> k.goals]
             /\ JobFits(options, command[c], k, R, A, memory, announced)
BY DEF GoalInv, GoalFits, JobFits

LEMMA RefusalsKeep ==
  ASSUME GoalInv, NEW c \in Calls, Workspace_Missing(c) \/ Workspace_Invalid(c) \/ Goal_Blank(c)
  PROVE  GoalInv'
<1>1. PICK code \in {2, 3, 4} : job[c].phase = "given" /\ Refused(c, code)
  BY DEF Workspace_Missing, Workspace_Invalid, Goal_Blank, NeedsWorkspace
<1>2. job' = [job EXCEPT ![c] = Answer(job[c], code)] /\ UNCHANGED <<command, options, memory, announced>>
  BY <1>1 DEF Refused
<1>3. QED BY <1>1, <1>2, EarlyAnswers

LEMMA CompilesKeep ==
  ASSUME GoalInv, NEW c \in Calls, Compile_Workspace(c) \/ Compile_Knowledge(c)
  PROVE  GoalInv'
<1>1. CASE Compile_Workspace(c)
  <2>1. PICK units \in UnitLists : CompileUnits(c, units)
    BY <1>1 DEF Compile_Workspace
  <2>2. job[c].phase = "given" /\ UNCHANGED <<command, options, memory>>
    BY <1>1 DEF Compile_Workspace
  <2>3. QED BY <2>1, <2>2, UnitsAre, CompileFits
<1>2. CASE Compile_Knowledge(c)
  <2>1. job[c].phase = "given" /\ UNCHANGED <<command, options, memory>>
    BY <1>2 DEF Compile_Knowledge
  <2>2. \/ \E objects \in Objects, units \in UnitLists : CompileUnits(c, Projected(objects) \o units)
        \/ Fails(c, job[c], "threw") /\ UNCHANGED announced
    BY <1>2 DEF Compile_Knowledge
  <2>3. CASE \E objects \in Objects, units \in UnitLists : CompileUnits(c, Projected(objects) \o units)
    BY <2>1, <2>3, UnitsAre, CompileFits
  <2>4. CASE Fails(c, job[c], "threw") /\ UNCHANGED announced
    <3>1. job' = [job EXCEPT ![c] = Answer(job[c], ExitCode(c, "threw"))] /\ ExitCode(c, "threw") \in {1, 2, 3, 4}
      BY <2>4, ExitCodes DEF Fails
    <3>2. QED BY <2>1, <2>4, <3>1, EarlyAnswers
  <2>5. QED BY <2>2, <2>3, <2>4
<1>3. QED BY <1>1, <1>2

LEMMA RetrievesKeep ==
  ASSUME GoalInv, NEW c \in Calls, Retrieve(c)
  PROVE  GoalInv'
<1>1. /\ job[c].phase = "given" /\ UNCHANGED <<command, options, memory, announced>>
      /\ Goes(c, job[c], "retrieving") \/ Fails(c, job[c], "threw")
  BY DEF Retrieve, EngineCall
<1>2. CASE Goes(c, job[c], "retrieving")
  <2> DEFINE R == OfGoal(memory, c, job[c].goals)
             A == OfGoal(announced, c, job[c].goals)
             k == Phased(job[c], "retrieving")
  <2>1. job' = [job EXCEPT ![c] = k]
    BY <1>2 DEF Goes, Phased
  <2>2. JobFits(options, command[c], job[c], R, A, memory, announced)
    BY CallFits
  <2>3. k = [phase |-> "retrieving", context |-> job[c].context, ran |-> job[c].ran, code |-> job[c].code, goals |-> job[c].goals]
    <3>1. job[c] = [phase |-> job[c].phase, context |-> job[c].context, ran |-> job[c].ran, code |-> job[c].code, goals |-> job[c].goals]
      BY CallFits
    <3>2. QED BY <3>1, PhaseIs
  <2> HIDE DEF R, A, k
  <2>4. JobFits(options, command[c], k, R, A, memory, announced)
    BY <1>1, <2>2, <2>3 DEF JobFits, NothingYet, GoalTold
  <2>5. k.goals = job[c].goals
    BY <2>3
  <2>6. QED BY <1>1, <2>1, <2>4, <2>5, CallGoes DEF R, A
<1>3. CASE Fails(c, job[c], "threw")
  <2>1. job' = [job EXCEPT ![c] = Answer(job[c], ExitCode(c, "threw"))] /\ ExitCode(c, "threw") \in {1, 2, 3, 4}
    BY <1>3, ExitCodes DEF Fails
  <2>2. QED BY <1>1, <2>1, EarlyAnswers
<1>4. QED BY <1>1, <1>2, <1>3

LEMMA PlansKeep ==
  ASSUME GoalInv, NEW c \in Calls, Plan_Goal(c)
  PROVE  GoalInv'
<1>1. job[c].phase = "retrieving" /\ UNCHANGED <<command, options, memory>>
  BY DEF Plan_Goal
<1>2. CASE CompileUnits(c, PlannedUnits)
  BY <1>1, <1>2, UnitsAre, CompileFits
<1>3. CASE \E what \in {"threw", "Planning failed", "Workflow compilation failed"} :
             Fails(c, job[c], what) /\ UNCHANGED announced
  <2>1. PICK code \in {1, 2, 3, 4} : job' = [job EXCEPT ![c] = Answer(job[c], code)]
    BY <1>3, ExitCodes DEF Fails
  <2>2. UNCHANGED announced
    BY <1>3
  <2>3. QED BY <1>1, <2>1, <2>2, EarlyAnswers
<1>4. QED BY <1>2, <1>3 DEF Plan_Goal

(* A call that was compiled, and what comes of it.                         *)
LEMMA RunsKeep ==
  ASSUME GoalInv, NEW c \in Calls, Run_Artifacts(c)
  PROVE  GoalInv'
<1> DEFINE R == OfGoal(memory, c, job[c].goals)
           A == OfGoal(announced, c, job[c].goals)
           x == job[c].context
<1>1. JobFits(options, command[c], job[c], R, A, memory, announced)
  BY CallFits
<1>2. job[c] = [phase |-> job[c].phase, context |-> x, ran |-> job[c].ran, code |-> job[c].code, goals |-> job[c].goals]
  BY CallFits
<1>3. job[c].phase = "compiled" /\ UNCHANGED <<command, options, memory, announced>>
  BY DEF Run_Artifacts
<1>4. \/ /\ command[c] \in {"compile", "api.compile"}
         /\ IF command[c] = "compile" /\ ~Successful(x)
            THEN Fails(c, job[c], "Compilation failed") ELSE Succeeds(c, job[c])
      \/ /\ command[c] \in FromGoal \cup {"run"}
         /\ IF ~Successful(x) THEN Fails(c, job[c], "Compilation failed")
            ELSE \/ \E ok \in BOOLEAN : Goes(c, [job[c] EXCEPT !.ran = ok], "executed")
                 \/ Fails(c, [job[c] EXCEPT !.ran = FALSE], "threw")
  BY DEF Run_Artifacts
<1> HIDE DEF R, A
<1>5. GoalVerdict(options, x) /\ job[c].ran = Nothing /\ R = {} /\ (\A i, j \in A : i = j)
      /\ (\A i \in A : announced[i].success => WholeUnder(options, x))
      /\ job[c].goals \in Nat
  BY <1>1, <1>3 DEF JobFits, GoalTold
<1>6. ExitCode(c, "Compilation failed") \in {1, 5} /\ ExitCode(c, "threw") \in {1, 2}
  BY ExitCodes
<1> HIDE DEF x
<1>14. PICK ph0, code0, g0 : job[c] = [phase |-> ph0, context |-> x, ran |-> Nothing, code |-> code0, goals |-> g0]
  BY <1>2, <1>5
<1>13. g0 = job[c].goals
  BY <1>14
<1>15. ASSUME NEW n
       PROVE  Answer(job[c], n) = [phase |-> "answered", context |-> x, ran |-> Nothing, code |-> n, goals |-> job[c].goals]
  BY <1>14, <1>13, AnswerIs
<1>16. ASSUME NEW r, NEW n
       PROVE  /\ Ran(job[c], r) = [phase |-> ph0, context |-> x, ran |-> r, code |-> code0, goals |-> job[c].goals]
              /\ Answer(Ran(job[c], r), n) = [phase |-> "answered", context |-> x, ran |-> r, code |-> n, goals |-> job[c].goals]
  <2>1. Ran(job[c], r) = [phase |-> ph0, context |-> x, ran |-> r, code |-> code0, goals |-> job[c].goals]
    BY <1>14, <1>13, RanIs
  <2>2. QED BY <2>1, AnswerIs
<1>7. ASSUME NEW k, job' = [job EXCEPT ![c] = k],
             NEW ph, NEW ran, NEW code, k = [phase |-> ph, context |-> x, ran |-> ran, code |-> code, goals |-> job[c].goals],
             ran # Nothing => WholeUnder(options, x),
             \/ ph = "executed" /\ ran \in BOOLEAN /\ WholeUnder(options, x)
             \/ ph = "answered" /\ GoalAnswered(options, command[c], k, R)
      PROVE  GoalInv'
  <2>1. GoalTold(options, k, R, A, memory, announced)
    BY <1>5, <1>7 DEF GoalTold
  <2>2. JobFits(options, command[c], k, R, A, memory, announced)
    BY <1>5, <1>7, <2>1 DEF JobFits, GoalVerdict
  <2>3. k.goals = job[c].goals
    BY <1>7
  <2>4. QED BY <1>3, <1>7, <2>2, <2>3, CallGoes DEF R, A
<1>8. CASE Fails(c, job[c], "Compilation failed") /\ ~Successful(x)
  <2> DEFINE code == ExitCode(c, "Compilation failed")
             k == Answer(job[c], code)
  <2>1. k = [phase |-> "answered", context |-> x, ran |-> Nothing, code |-> code, goals |-> job[c].goals]
    <3> HIDE DEF code
    <3>1. QED BY <1>15 DEF k
  <2>2. job' = [job EXCEPT ![c] = k]
    BY <1>8 DEF Fails
  <2>3. code \in {1, 5} /\ Blocking(x)
    BY <1>5, <1>6, <1>8 DEF GoalVerdict
  <2> HIDE DEF code, k
  <2>4. GoalAnswered(options, command[c], k, R)
    BY <2>1, <2>3 DEF GoalAnswered
  <2>5. QED BY <1>7, <2>1, <2>2, <2>4
<1>9. CASE Succeeds(c, job[c]) /\ command[c] \in {"compile", "api.compile"} /\ (command[c] = "api.compile" \/ Successful(x))
  <2> DEFINE k == Answer(job[c], 0)
  <2>1. k = [phase |-> "answered", context |-> x, ran |-> Nothing, code |-> 0, goals |-> job[c].goals]
    BY <1>15
  <2>2. job' = [job EXCEPT ![c] = k]
    BY <1>9 DEF Succeeds
  <2> HIDE DEF k
  <2>3. GoalAnswered(options, command[c], k, R)
    BY <1>5, <1>9, <2>1 DEF GoalAnswered, GoalVerdict, FromGoal
  <2>4. QED BY <1>7, <2>1, <2>2, <2>3
<1>10. CASE Successful(x) /\ \E ok \in BOOLEAN : Goes(c, [job[c] EXCEPT !.ran = ok], "executed")
  <2>1. PICK ok \in BOOLEAN : Goes(c, [job[c] EXCEPT !.ran = ok], "executed")
    BY <1>10
  <2> DEFINE k == Phased(Ran(job[c], ok), "executed")
  <2>2. k = [phase |-> "executed", context |-> x, ran |-> ok, code |-> code0, goals |-> job[c].goals]
    <3>1. Ran(job[c], ok) = [phase |-> ph0, context |-> x, ran |-> ok, code |-> code0, goals |-> job[c].goals]
      BY <1>16
    <3>2. QED BY <3>1, PhaseIs
  <2>3. job' = [job EXCEPT ![c] = k]
    BY <2>1 DEF Goes, Phased, Ran
  <2>4. WholeUnder(options, x)
    BY <1>5, <1>10 DEF GoalVerdict
  <2> HIDE DEF k
  <2>5. QED BY <1>7, <2>2, <2>3, <2>4
<1>11. CASE Successful(x) /\ Fails(c, [job[c] EXCEPT !.ran = FALSE], "threw")
  <2> DEFINE code == ExitCode(c, "threw")
             k == Answer(Ran(job[c], FALSE), code)
  <2>1. k = [phase |-> "answered", context |-> x, ran |-> FALSE, code |-> code, goals |-> job[c].goals]
    <3> HIDE DEF code
    <3>1. QED BY <1>16 DEF k
  <2>2. job' = [job EXCEPT ![c] = k]
    BY <1>11 DEF Fails, Ran
  <2>3. WholeUnder(options, x) /\ code \in {1, 2}
    BY <1>5, <1>6, <1>11 DEF GoalVerdict
  <2> HIDE DEF k, code
  <2>4. GoalAnswered(options, command[c], k, R)
    <3>1. k.code \in {1, 2}
      BY <2>1, <2>3
    <3>2. QED BY <3>1, ThrewFits
  <2>5. QED BY <1>7, <2>1, <2>2, <2>3, <2>4
<1>12. QED BY <1>4, <1>8, <1>9, <1>10, <1>11

(* A call that was executed.                                               *)
LEMMA ExecutedFits ==
  ASSUME GoalInv, NEW c \in Calls, job[c].phase \in {"executed", "storing"}
  PROVE  LET R == OfGoal(memory, c, job[c].goals)
             A == OfGoal(announced, c, job[c].goals)
             x == job[c].context
         IN  /\ WholeUnder(options, x) /\ x.artifacts \in Nat /\ job[c].ran \in BOOLEAN /\ R = {}
             /\ job[c].phase = "storing" => job[c].ran = TRUE
             /\ \A i, j \in A : i = j
             /\ job[c].goals \in Nat
             /\ job[c] = [phase |-> job[c].phase, context |-> x, ran |-> job[c].ran, code |-> job[c].code, goals |-> job[c].goals]
<1> DEFINE R == OfGoal(memory, c, job[c].goals)
           A == OfGoal(announced, c, job[c].goals)
<1>1. JobFits(options, command[c], job[c], R, A, memory, announced)
  BY CallFits
<1> HIDE DEF R, A
<1>2. QED BY <1>1 DEF JobFits, GoalTold, R, A

LEMMA RemembersKeep ==
  ASSUME GoalInv, NEW c \in Calls, Remember(c)
  PROVE  GoalInv'
<1> DEFINE R == OfGoal(memory, c, job[c].goals)
           A == OfGoal(announced, c, job[c].goals)
           x == job[c].context
<1>1. JobFits(options, command[c], job[c], R, A, memory, announced)
  BY CallFits
<1>2. job[c].phase = "executed" /\ UNCHANGED <<command, options, memory, announced>>
  BY DEF Remember
<1>3. \/ ~job[c].ran /\ Fails(c, job[c], "Execution failed")
      \/ job[c].ran /\ command[c] = "run" /\ Succeeds(c, job[c])
      \/ job[c].ran /\ (Goes(c, job[c], "storing") \/ Fails(c, job[c], "threw"))
  BY DEF Remember, EngineCall
<1>4. /\ WholeUnder(options, x) /\ x.artifacts \in Nat /\ job[c].ran \in BOOLEAN /\ R = {}
      /\ job[c].goals \in Nat
      /\ job[c] = [phase |-> job[c].phase, context |-> x, ran |-> job[c].ran, code |-> job[c].code, goals |-> job[c].goals]
  BY <1>2, ExecutedFits
<1> HIDE DEF R, A
<1>5. GoalTold(options, job[c], R, A, memory, announced)
  BY <1>1 DEF JobFits
<1>6. ExitCode(c, "Execution failed") \in {1, 6} /\ ExitCode(c, "threw") \in {1, 2}
  BY ExitCodes
<1>7. PICK ph0, code0, ran0, g0 : job[c] = [phase |-> ph0, context |-> x, ran |-> ran0, code |-> code0, goals |-> g0]
  BY <1>4
<1>8. g0 = job[c].goals /\ ran0 = job[c].ran
  BY <1>7
<1> HIDE DEF x
<1>9. ASSUME NEW n
      PROVE  /\ Answer(job[c], n) = [phase |-> "answered", context |-> x, ran |-> ran0, code |-> n, goals |-> job[c].goals]
             /\ Phased(job[c], n) = [phase |-> n, context |-> x, ran |-> ran0, code |-> code0, goals |-> job[c].goals]
  <2>1. Answer(job[c], n) = [phase |-> "answered", context |-> x, ran |-> ran0, code |-> n, goals |-> job[c].goals]
    BY <1>7, <1>8, AnswerIs
  <2>2. Phased(job[c], n) = [phase |-> n, context |-> x, ran |-> ran0, code |-> code0, goals |-> job[c].goals]
    BY <1>7, <1>8, PhaseIs
  <2>3. QED BY <2>1, <2>2
<1>10. ASSUME NEW k, job' = [job EXCEPT ![c] = k],
              NEW ph, NEW code, k = [phase |-> ph, context |-> x, ran |-> ran0, code |-> code, goals |-> job[c].goals],
              \/ ph = "storing" /\ ran0 = TRUE
              \/ ph = "answered" /\ GoalAnswered(options, command[c], k, R)
       PROVE  GoalInv'
  <2>1. x = job[c].context /\ k.context = x /\ k.ran = job[c].ran
    BY <1>8, <1>10 DEF x
  <2>2. GoalTold(options, k, R, A, memory, announced)
    BY <1>5, <2>1 DEF GoalTold
  <2>3. JobFits(options, command[c], k, R, A, memory, announced)
    <3>1. CASE ph = "storing" /\ ran0 = TRUE
      BY <1>4, <1>10, <2>2, <3>1 DEF JobFits
    <3>2. CASE ph = "answered" /\ GoalAnswered(options, command[c], k, R)
      BY <1>4, <1>10, <2>2, <3>2 DEF JobFits
    <3>3. QED BY <1>10, <3>1, <3>2
  <2>4. k.goals = job[c].goals
    BY <1>10
  <2>5. QED BY <1>2, <1>10, <2>3, <2>4, CallGoes DEF R, A
<1>11. CASE ~job[c].ran /\ Fails(c, job[c], "Execution failed")
  <2> DEFINE code == ExitCode(c, "Execution failed")
             k == Answer(job[c], code)
  <2>1. k = [phase |-> "answered", context |-> x, ran |-> ran0, code |-> code, goals |-> job[c].goals]
    <3> HIDE DEF code
    <3>1. QED BY <1>9 DEF k
  <2>2. job' = [job EXCEPT ![c] = k]
    BY <1>11 DEF Fails
  <2> HIDE DEF code, k
  <2>3. k.ran = FALSE
    <3>1. job[c].ran = FALSE
      BY <1>4, <1>11
    <3>2. k.ran = ran0
      BY <2>1
    <3>3. QED BY <1>8, <3>1, <3>2
  <2>4. k.code \in {1, 6}
    BY <1>6, <2>1 DEF code
  <2>5. GoalAnswered(options, command[c], k, R)
    BY <2>3, <2>4 DEF GoalAnswered
  <2>6. QED BY <1>10, <2>1, <2>2, <2>5
<1>12. CASE job[c].ran /\ command[c] = "run" /\ Succeeds(c, job[c])
  <2> DEFINE k == Answer(job[c], 0)
  <2>1. k = [phase |-> "answered", context |-> x, ran |-> ran0, code |-> 0, goals |-> job[c].goals]
    BY <1>9
  <2>2. job' = [job EXCEPT ![c] = k]
    BY <1>12 DEF Succeeds
  <2> HIDE DEF k
  <2>3. k.code = 0 /\ k.context = x
    BY <2>1
  <2>4. GoalAnswered(options, command[c], k, R)
    BY <1>4, <1>12, <2>3 DEF GoalAnswered, FromGoal
  <2>5. QED BY <1>10, <2>1, <2>2, <2>4
<1>13. CASE job[c].ran /\ Goes(c, job[c], "storing")
  <2> DEFINE k == Phased(job[c], "storing")
  <2>1. k = [phase |-> "storing", context |-> x, ran |-> ran0, code |-> code0, goals |-> job[c].goals]
    BY <1>9
  <2>2. job' = [job EXCEPT ![c] = k]
    BY <1>13 DEF Goes, Phased
  <2> HIDE DEF k
  <2>3. ran0 = TRUE
    <3>1. job[c].ran = TRUE
      BY <1>4, <1>13
    <3>2. QED BY <1>8, <3>1
  <2>4. QED BY <1>10, <2>1, <2>2, <2>3
<1>14. CASE job[c].ran /\ Fails(c, job[c], "threw")
  <2> DEFINE code == ExitCode(c, "threw")
             k == Answer(job[c], code)
  <2>1. k = [phase |-> "answered", context |-> x, ran |-> ran0, code |-> code, goals |-> job[c].goals]
    <3> HIDE DEF code
    <3>1. QED BY <1>9 DEF k
  <2>2. job' = [job EXCEPT ![c] = k]
    BY <1>14 DEF Fails
  <2> HIDE DEF code, k
  <2>3. k.code \in {1, 2}
    BY <1>6, <2>1 DEF code
  <2>4. GoalAnswered(options, command[c], k, R)
    BY <2>3, ThrewFits
  <2>5. QED BY <1>10, <2>1, <2>2, <2>4
<1>15. QED BY <1>3, <1>11, <1>12, <1>13, <1>14

LEMMA RemembranceKeeps ==
  ASSUME GoalInv, NEW c \in Calls, Remembered(c)
  PROVE  GoalInv'
<1> DEFINE R == OfGoal(memory, c, job[c].goals)
           A == OfGoal(announced, c, job[c].goals)
           x == job[c].context
           r == [by |-> c, goal |-> job[c].goals, artifacts |-> x.artifacts]
           e == [by |-> c, goal |-> job[c].goals, success |-> TRUE]
<1>1. JobFits(options, command[c], job[c], R, A, memory, announced)
  BY CallFits
<1>2. job[c].phase = "storing" /\ UNCHANGED <<command, options, announced>>
  BY DEF Remembered
<1>3. \/ memory' = Append(memory, r) /\ Succeeds(c, job[c])
      \/ memory' \in {memory, Append(memory, r)} /\ Fails(c, job[c], "threw")
  BY DEF Remembered
<1>4. /\ WholeUnder(options, x) /\ x.artifacts \in Nat /\ R = {} /\ job[c].ran = TRUE
      /\ job[c].goals \in Nat
      /\ job[c] = [phase |-> job[c].phase, context |-> x, ran |-> job[c].ran, code |-> job[c].code, goals |-> job[c].goals]
  BY <1>2, ExecutedFits
<1> HIDE DEF R, A
<1>5. GoalTold(options, job[c], R, A, memory, announced)
  BY <1>1 DEF JobFits
<1>6. ExitCode(c, "threw") \in {1, 2}
  BY ExitCodes
<1>7. PICK ph0, code0, ran0, g0 : job[c] = [phase |-> ph0, context |-> x, ran |-> ran0, code |-> code0, goals |-> g0]
  BY <1>4
<1>8. g0 = job[c].goals /\ ran0 = job[c].ran
  BY <1>7
<1> HIDE DEF x
<1>9. ASSUME NEW n
      PROVE  Answer(job[c], n) = [phase |-> "answered", context |-> x, ran |-> ran0, code |-> n, goals |-> job[c].goals]
  BY <1>7, <1>8, AnswerIs
<1>10. /\ r \in RecordSet /\ r.by = c /\ r.goal = job[c].goals /\ r.artifacts = x.artifacts
       /\ e \in EventSet /\ e.by = c /\ e.goal = job[c].goals
  BY <1>4 DEF RecordSet, EventSet
<1> HIDE DEF r, e
<1>11. /\ OfGoal(Append(memory, r), c, job[c].goals) = {Len(memory) + 1}
       /\ Append(memory, r)[Len(memory) + 1] = r
  <2>1. memory \in Seq(RecordSet)
    BY DEF GoalInv
  <2>2. QED BY <1>4, <1>10, <2>1, OfGoalAppended DEF R
<1>12. ASSUME NEW k, job' = [job EXCEPT ![c] = k],
              NEW code, k = [phase |-> "answered", context |-> x, ran |-> ran0, code |-> code, goals |-> job[c].goals],
              \/ code \in {1, 2} /\ memory' \in {memory, Append(memory, r)}
              \/ code = 0 /\ memory' = Append(memory, r)
       PROVE  GoalInv'
  <2>1. x = job[c].context /\ k.context = x /\ k.ran = ran0 /\ k.code = code /\ k.goals = job[c].goals /\ k.phase = "answered"
    BY <1>12 DEF x
  <2>2. k.ran = TRUE
    BY <1>4, <1>8, <2>1
  <2>3. k = [phase |-> k.phase, context |-> k.context, ran |-> k.ran, code |-> k.code, goals |-> k.goals]
    BY <1>12
  <2>4. k.goals \in Nat /\ k.goals >= job[c].goals
    BY <1>4, <2>1
  <2>5. CASE memory' = memory /\ code \in {1, 2}
    <3>1. GoalTold(options, k, R, A, memory, announced)
      <4>1. k.ran = job[c].ran
        BY <1>8, <2>1
      <4>2. QED BY <1>5, <2>1, <4>1 DEF GoalTold
    <3>2. GoalAnswered(options, command[c], k, R)
      BY <2>1, <2>5, ThrewFits
    <3>3. JobFits(options, command[c], k, R, A, memory, announced)
      BY <2>1, <2>3, <2>4, <3>1, <3>2 DEF JobFits
    <3>4. QED BY <1>2, <1>12, <2>1, <2>5, <3>3, CallGoes DEF R, A
  <2>6. CASE memory' = Append(memory, r) /\ code \in {0, 1, 2}
    <3> DEFINE m == Len(memory) + 1
    <3>1. GoalTold(options, k, {m}, A, Append(memory, r), announced)
      <4>1. WholeUnder(options, k.context)
        BY <1>4, <2>1
      <4>2. Append(memory, r)[m].artifacts = k.context.artifacts
        BY <1>10, <1>11, <2>1
      <4>3. (\A i, j \in A : i = j) /\ \A i \in A : announced[i].success => WholeUnder(options, k.context)
        BY <1>5, <2>1 DEF GoalTold
      <4> HIDE DEF m
      <4>4. QED BY <2>2, <4>1, <4>2, <4>3 DEF GoalTold
    <3> HIDE DEF m
    <3>2. GoalAnswered(options, command[c], k, {m})
      <4>1. WholeUnder(options, k.context)
        BY <1>4, <2>1
      <4>2. QED BY <2>1, <2>6, <4>1 DEF GoalAnswered
    <3>3. JobFits(options, command[c], k, {m}, A, Append(memory, r), announced)
      BY <2>1, <2>3, <2>4, <3>1, <3>2 DEF JobFits
    <3>4. GoalFits(options, command[c], c, k, memory', announced')
      BY <1>2, <1>11, <2>1, <2>6, <3>3 DEF GoalFits, m, A
    <3>5. QED BY <1>2, <1>10, <1>12, <2>1, <2>4, <2>6, <3>4, CallMoves
  <2>7. QED BY <1>12, <2>5, <2>6
<1>13. CASE memory' = Append(memory, r) /\ Succeeds(c, job[c])
  <2> DEFINE k == Answer(job[c], 0)
  <2>1. k = [phase |-> "answered", context |-> x, ran |-> ran0, code |-> 0, goals |-> job[c].goals]
    BY <1>9
  <2>2. job' = [job EXCEPT ![c] = k]
    BY <1>13 DEF Succeeds
  <2> HIDE DEF k
  <2>3. QED BY <1>12, <1>13, <2>1, <2>2
<1>14. CASE memory' \in {memory, Append(memory, r)} /\ Fails(c, job[c], "threw")
  <2> DEFINE code == ExitCode(c, "threw")
             k == Answer(job[c], code)
  <2>1. k = [phase |-> "answered", context |-> x, ran |-> ran0, code |-> code, goals |-> job[c].goals]
    <3> HIDE DEF code
    <3>1. QED BY <1>9 DEF k
  <2>2. job' = [job EXCEPT ![c] = k]
    BY <1>14 DEF Fails
  <2>3. code \in {1, 2}
    BY <1>6
  <2> HIDE DEF code, k
  <2>4. QED BY <1>12, <1>14, <2>1, <2>2, <2>3
<1>15. QED BY <1>3, <1>13, <1>14 DEF r, x

LEMMA NextGoalsKeep ==
  ASSUME GoalInv, NEW c \in Calls, Next_Goal(c)
  PROVE  GoalInv'
<1> DEFINE g == job[c].goals + 1
           k == NewCall(g)
           r == [by |-> c, goal |-> g, artifacts |-> 0]
           e == [by |-> c, goal |-> g, success |-> TRUE]
<1>1. job[c].goals \in Nat
  BY CallFits
<1>2. job' = [job EXCEPT ![c] = k] /\ UNCHANGED <<command, options, memory, announced>>
  BY DEF Next_Goal
<1>3. OfGoal(memory, c, g) = {} /\ OfGoal(announced, c, g) = {}
  <2>1. ASSUME NEW i \in DOMAIN memory PROVE ~ (memory[i].by = c /\ memory[i].goal = g)
    <3>1. memory[i].goal <= job[memory[i].by].goals
      BY DEF GoalInv
    <3>2. QED BY <1>1, <3>1
  <2>2. ASSUME NEW i \in DOMAIN announced PROVE ~ (announced[i].by = c /\ announced[i].goal = g)
    <3>1. announced[i].goal <= job[announced[i].by].goals
      BY DEF GoalInv
    <3>2. QED BY <1>1, <3>1
  <2>3. QED BY <2>1, <2>2 DEF OfGoal
<1>4. g \in Nat /\ g >= job[c].goals
  BY <1>1
<1> HIDE DEF g
<1>5. k = [phase |-> "given", context |-> Nothing, ran |-> Nothing, code |-> Nothing, goals |-> g]
  BY DEF NewCall
<1> HIDE DEF k
<1>6. k.goals = g
  BY <1>5
<1>7. JobFits(options, command[c], k, {}, {}, memory, announced)
  BY <1>4, <1>5 DEF JobFits, NothingYet, GoalTold
<1>8. GoalFits(options, command[c], c, k, memory', announced')
  BY <1>2, <1>3, <1>6, <1>7 DEF GoalFits
<1>9. r \in RecordSet /\ r.by = c /\ r.goal = g /\ e \in EventSet /\ e.by = c /\ e.goal = g
  BY <1>4 DEF RecordSet, EventSet
<1> HIDE DEF r, e
<1>10. QED BY <1>2, <1>4, <1>6, <1>8, <1>9, CallMoves

LEMMA GoalStepsKeep == GoalInv /\ [GoalNext]_goalVars => GoalInv'
<1> SUFFICES ASSUME GoalInv, [GoalNext]_goalVars PROVE GoalInv'
  OBVIOUS
<1>1. CASE UNCHANGED goalVars
  BY <1>1 DEF goalVars, GoalInv
<1>2. ASSUME NEW c \in Calls,
             \/ Workspace_Missing(c) \/ Workspace_Invalid(c) \/ Goal_Blank(c)
             \/ Compile_Workspace(c) \/ Compile_Knowledge(c)
             \/ Retrieve(c) \/ Plan_Goal(c) \/ Run_Artifacts(c) \/ Remember(c) \/ Remembered(c) \/ Next_Goal(c)
      PROVE  GoalInv'
  BY <1>2, RefusalsKeep, CompilesKeep, RetrievesKeep, PlansKeep, RunsKeep, RemembersKeep, RemembranceKeeps, NextGoalsKeep
<1>3. QED BY <1>1, <1>2 DEF GoalNext

(* A set in which all are equal has at most one element.                   *)
LEMMA AtMostOne ==
  ASSUME NEW S, \A i, j \in S : i = j
  PROVE  Cardinality(S) \leq 1
<1>1. CASE S = {}
  BY <1>1, FS_EmptySet
<1>2. CASE S # {}
  <2>1. PICK i \in S : S = {i}
    BY <1>2
  <2>2. Cardinality({i}) = 1
    BY FS_Singleton
  <2>3. Cardinality(S) = 1
    BY <2>1, <2>2
  <2>4. QED BY <2>3
<1>3. QED BY <1>1, <1>2

LEMMA TrueAnswers == GoalInv => AnswersAreTrue
<1> SUFFICES ASSUME GoalInv, NEW c \in Calls
    PROVE LET k == job[c] IN
      /\ k.ran # Nothing => Whole(k.context)
      /\ RecordsOf(c) # {} => k.ran = TRUE /\ \A i \in RecordsOf(c) : memory[i].artifacts = k.context.artifacts
      /\ Cardinality(RecordsOf(c)) \leq 1 /\ Cardinality(AnnouncedBy(c)) \leq 1
      /\ \A i \in AnnouncedBy(c) : announced[i].success => Whole(k.context)
      /\ k.phase = "answered" =>
           /\ k.code = 0 /\ command[c] \in FromGoal => RecordsOf(c) # {}
           /\ k.code = 0 /\ command[c] # "api.compile" => Whole(k.context)
           /\ k.code = 5 => k.ran = Nothing /\ Blocking(k.context)
           /\ k.code = 6 => k.ran = FALSE
           /\ k.code \in {3, 4} => k.context = Nothing
  BY DEF AnswersAreTrue
<1>1. RecordsOf(c) = OfGoal(memory, c, job[c].goals) /\ AnnouncedBy(c) = OfGoal(announced, c, job[c].goals)
  BY DEF RecordsOf, AnnouncedBy, OfGoal
<1>2. JobFits(options, command[c], job[c], RecordsOf(c), AnnouncedBy(c), memory, announced)
  BY <1>1, CallFits
<1>3. \A x : Whole(x) <=> WholeUnder(options, x)
  BY DEF Whole, WholeUnder
<1> DEFINE R == RecordsOf(c)
           A == AnnouncedBy(c)
<1> HIDE DEF R, A
<1>4. GoalTold(options, job[c], R, A, memory, announced) /\ (job[c].phase = "answered" => GoalAnswered(options, command[c], job[c], R))
  BY <1>2 DEF JobFits, R, A
<1>5. Cardinality(R) \leq 1 /\ Cardinality(A) \leq 1
  BY <1>4, AtMostOne DEF GoalTold
<1>6. /\ job[c].ran # Nothing => Whole(job[c].context)
      /\ R # {} => job[c].ran = TRUE /\ \A i \in R : memory[i].artifacts = job[c].context.artifacts
      /\ \A i \in A : announced[i].success => Whole(job[c].context)
  BY <1>3, <1>4 DEF GoalTold
<1>7. job[c].phase = "answered" =>
        /\ job[c].code = 0 /\ command[c] \in FromGoal => R # {}
        /\ job[c].code = 0 /\ command[c] # "api.compile" => Whole(job[c].context)
        /\ job[c].code = 5 => job[c].ran = Nothing /\ Blocking(job[c].context)
        /\ job[c].code = 6 => job[c].ran = FALSE
        /\ job[c].code \in {3, 4} => job[c].context = Nothing
  BY <1>3, <1>4 DEF GoalAnswered
<1>8. QED BY <1>5, <1>6, <1>7 DEF R, A

(* AnswersAreTrue: the answer of a command, of a request and of a call of  *)
(* the SDK says what was compiled, executed and remembered, whatever the   *)
(* workspaces and the knowledge, however many calls share the server and   *)
(* whatever fails.                                                         *)
THEOREM AnswersStayTrue == GoalSpec => []AnswersAreTrue
<1>1. GoalSpec => []GoalInv
  BY GoalInitially, GoalStepsKeep, PTL DEF GoalSpec
<1>2. QED BY <1>1, TrueAnswers, PTL

(***************************************************************************)
(* WorkflowPlanning, for any goals and any definitions: the sort lists a   *)
(* node when all that it waits for is listed, so that it lists them all    *)
(* unless some wait for one another; a search finds the smallest set that  *)
(* the edges do not lead out of; and what a strategy lays has no circle    *)
(* and is all between entry and exit.                                      *)
(***************************************************************************)
Graph(d) == d.nodes \in Seq(WorkflowNodes) /\ IsFiniteSet(d.edges)

LEMMA IdsAre ==
  ASSUME NEW d, Graph(d)
  PROVE  /\ IsFiniteSet(Ids(d)) /\ Cardinality(Ids(d)) \in Nat
         /\ Len(d.nodes) \in Nat /\ Cardinality(Ids(d)) <= Len(d.nodes)
         /\ \A n : IsFiniteSet(EdgesInto(d, n))
<1> DEFINE n == Len(d.nodes)
           f == [i \in 1 .. n |-> d.nodes[i].id]
<1>1. n \in Nat /\ DOMAIN d.nodes = 1 .. n
  BY DEF Graph
<1>2. f \in [1 .. n -> {d.nodes[i].id : i \in 1 .. n}]
  OBVIOUS
<1>3. ValuesOf(f, n) = Ids(d)
  BY <1>1 DEF ValuesOf, Ids
<1> DEFINE V == {d.nodes[i].id : i \in 1 .. n}
<1>4. f \in [1 .. n -> V] /\ n \in Nat
  BY <1>1, <1>2
<1> HIDE DEF f, V
<1>5. /\ IsFiniteSet(ValuesOf(f, n)) /\ Cardinality(ValuesOf(f, n)) \in Nat
      /\ Cardinality(ValuesOf(f, n)) <= n
  BY <1>4, Values
<1>6. \A m : IsFiniteSet(EdgesInto(d, m))
  <2> TAKE m
  <2>1. EdgesInto(d, m) \in SUBSET d.edges /\ IsFiniteSet(d.edges)
    BY DEF EdgesInto, Graph
  <2>2. QED BY <2>1, FS_Subset
<1>7. QED BY <1>1, <1>3, <1>5, <1>6

-----------------------------------------------------------------------------
(* The sort.                                                               *)

Waiting(d, m, s) == {e \in EdgesInto(d, m) : e.from \notin Names(s)}

InOrder(d, s) ==
  \A i \in DOMAIN s : \A e \in EdgesInto(d, s[i]) : \E j \in 1 .. i - 1 : s[j] = e.from

Kahn(d, s, degrees, q) ==
  /\ s \in Seq(Ids(d)) /\ NoRepeats(s) /\ InOrder(d, s)
  /\ degrees = [m \in Ids(d) |-> Cardinality(Waiting(d, m, s))]
  /\ q = {m \in Ids(d) \ Names(s) : degrees[m] = 0}

LEMMA KahnBegins ==
  ASSUME NEW d, Graph(d)
  PROVE  Kahn(d, <<>>, InDegrees(d), {n \in Ids(d) : InDegrees(d)[n] = 0})
<1>1. \A m : Waiting(d, m, <<>>) = EdgesInto(d, m)
  BY DEF Waiting, Names
<1>2. InDegrees(d) = [m \in Ids(d) |-> Cardinality(Waiting(d, m, <<>>))]
  BY <1>1 DEF InDegrees
<1>3. Names(<<>>) = {}
  BY DEF Names
<1>4. NoRepeats(<<>>) /\ InOrder(d, <<>>) /\ <<>> \in Seq(Ids(d))
  BY DEF NoRepeats, InOrder
<1>5. QED BY <1>2, <1>3, <1>4 DEF Kahn

LEMMA KahnGoesOn ==
  ASSUME NEW d, Graph(d), NEW s, NEW degrees, NEW q, Kahn(d, s, degrees, q), NEW n \in q, NEW after,
         after = [m \in DOMAIN degrees |-> degrees[m] - Cardinality(Released(d, n, m))]
  PROVE  Kahn(d, Append(s, n), after, (q \ {n}) \cup Freed(degrees, after))
<1> DEFINE t == Append(s, n)
           I == Ids(d)
<1>1. s \in Seq(I) /\ Len(s) \in Nat /\ DOMAIN s = 1 .. Len(s) /\ n \in I /\ n \notin Names(s) /\ degrees[n] = 0
  BY DEF Kahn
<1>2. /\ t \in Seq(I) /\ Len(t) = Len(s) + 1 /\ DOMAIN t = 1 .. Len(s) + 1 /\ t[Len(s) + 1] = n
      /\ \A i \in 1 .. Len(s) : t[i] = s[i]
  BY <1>1
<1> HIDE DEF t
<1>3. \A i \in 1 .. Len(s) + 1 : i \in 1 .. Len(s) \/ i = Len(s) + 1
  BY <1>1
<1>4. Names(t) = Names(s) \cup {n}
  <2>1. \A i \in 1 .. Len(s) : i \in 1 .. Len(s) + 1
    BY <1>1
  <2>2. Len(s) + 1 \in 1 .. Len(s) + 1
    BY <1>1
  <2>3. QED BY <1>1, <1>2, <1>3, <2>1, <2>2 DEF Names
<1>5. \A m : IsFiniteSet(EdgesInto(d, m))
  BY IdsAre
<1>6. \A m : IsFiniteSet(Waiting(d, m, s)) /\ Cardinality(Waiting(d, m, s)) \in Nat
  <2> TAKE m
  <2>1. Waiting(d, m, s) \in SUBSET EdgesInto(d, m)
    BY DEF Waiting
  <2>2. QED BY <1>5, <2>1, FS_Subset, FS_CardinalityType
<1>7. \A m \in I : /\ degrees[m] = Cardinality(Waiting(d, m, s))
                   /\ degrees[m] = 0 <=> Waiting(d, m, s) = {}
  BY <1>6, FS_EmptySet DEF Kahn
<1>8. \A m : /\ Waiting(d, m, t) = Waiting(d, m, s) \ Released(d, n, m)
             /\ Waiting(d, m, s) \cap Released(d, n, m) = Released(d, n, m)
  BY <1>1, <1>4 DEF Waiting, Released
<1>9. \A m : Cardinality(Waiting(d, m, t)) = Cardinality(Waiting(d, m, s)) - Cardinality(Released(d, n, m))
  <2> TAKE m
  <2>1. Cardinality(Waiting(d, m, s) \ Released(d, n, m))
          = Cardinality(Waiting(d, m, s)) - Cardinality(Waiting(d, m, s) \cap Released(d, n, m))
    BY <1>6, FS_Difference
  <2>2. QED BY <1>8, <2>1
<1>10. DOMAIN degrees = I
  BY DEF Kahn
<1>11. after = [m \in I |-> Cardinality(Waiting(d, m, t))]
  BY <1>7, <1>9, <1>10
<1>12. \A i \in DOMAIN s : \A e \in EdgesInto(d, s[i]) : e.from \in Names(s)
  <2> SUFFICES ASSUME NEW i \in DOMAIN s, NEW e \in EdgesInto(d, s[i]) PROVE e.from \in Names(s)
    OBVIOUS
  <2>1. PICK j \in 1 .. i - 1 : s[j] = e.from
    BY DEF Kahn, InOrder
  <2>2. j \in DOMAIN s
    BY <1>1
  <2>3. QED BY <2>1, <2>2 DEF Names
<1>13. \A m \in Names(s) : Waiting(d, m, s) = {}
  BY <1>12 DEF Names, Waiting
<1>14. \A m \in I \ Names(t) : after[m] = 0 => m \in (q \ {n}) \cup Freed(degrees, after)
  <2> SUFFICES ASSUME NEW m \in I \ Names(t), after[m] = 0, m \notin Freed(degrees, after)
               PROVE  m \in q \ {n}
    OBVIOUS
  <2>1. m \in DOMAIN after /\ degrees[m] = 0
    BY <1>11 DEF Freed
  <2>2. m # n /\ m \notin Names(s)
    BY <1>4
  <2>3. QED BY <2>1, <2>2 DEF Kahn
<1>15. \A m \in (q \ {n}) \cup Freed(degrees, after) : m \in I \ Names(t) /\ after[m] = 0
  <2> TAKE m \in (q \ {n}) \cup Freed(degrees, after)
  <2>1. CASE m \in q \ {n}
    <3>1. m \in I /\ m \notin Names(s) /\ m # n /\ degrees[m] = 0
      BY <2>1 DEF Kahn
    <3>2. Waiting(d, m, t) = {}
      BY <1>7, <1>8, <3>1
    <3>3. after[m] = 0
      BY <1>11, <3>1, <3>2, FS_EmptySet
    <3>4. QED BY <1>4, <3>1, <3>3
  <2>2. CASE m \in Freed(degrees, after)
    <3>1. m \in I /\ after[m] = 0 /\ after[m] # degrees[m]
      BY <1>11, <2>2 DEF Freed
    <3>2. m \notin Names(s)
      BY <1>7, <1>13, <3>1
    <3>3. m # n
      BY <1>1, <3>1
    <3>4. QED BY <1>4, <3>1, <3>2, <3>3
  <2>3. QED BY <2>1, <2>2
<1>16. NoRepeats(t)
  <2>1. \A i \in 1 .. Len(s) : t[i] # n
    BY <1>1, <1>2 DEF Names
  <2>2. \A i, j \in 1 .. Len(s) : t[i] = t[j] => i = j
    BY <1>1, <1>2 DEF Kahn, NoRepeats
  <2>3. QED BY <1>2, <1>3, <2>1, <2>2 DEF NoRepeats
<1>17. InOrder(d, t)
  <2> SUFFICES ASSUME NEW i \in 1 .. Len(s) + 1, NEW e \in EdgesInto(d, t[i])
               PROVE  \E j \in 1 .. i - 1 : t[j] = e.from
    BY <1>2 DEF InOrder
  <2>1. CASE i \in 1 .. Len(s)
    <3>1. PICK j \in 1 .. i - 1 : s[j] = e.from
      BY <1>1, <1>2, <2>1 DEF Kahn, InOrder
    <3>2. j \in 1 .. Len(s)
      BY <1>1, <2>1
    <3>3. QED BY <1>2, <3>1, <3>2
  <2>2. CASE i = Len(s) + 1
    <3>1. Waiting(d, n, s) = {}
      BY <1>1, <1>7
    <3>2. e.from \in Names(s)
      BY <1>2, <2>2, <3>1 DEF Waiting
    <3>3. PICK j \in 1 .. Len(s) : s[j] = e.from
      BY <1>1, <3>2 DEF Names
    <3>4. j \in 1 .. i - 1 /\ t[j] = e.from
      BY <1>1, <1>2, <2>2, <3>3
    <3>5. QED BY <3>4
  <2>3. QED BY <1>3, <2>1, <2>2
<1>18. (q \ {n}) \cup Freed(degrees, after) = {m \in I \ Names(t) : after[m] = 0}
  BY <1>14, <1>15
<1>19. QED BY <1>2, <1>11, <1>16, <1>17, <1>18 DEF Kahn, t

(* When the queue is empty, all nodes are sorted unless some wait for one  *)
(* another.                                                                *)
LEMMA KahnEnds ==
  ASSUME NEW d, Graph(d), NEW s, NEW degrees, Kahn(d, s, degrees, {})
  PROVE  /\ ~HasCycle(d, s) <=> \A S \in SUBSET Ids(d) : ~Circular(d, S)
         /\ ~HasCycle(d, s) => Names(s) = Ids(d)
<1> DEFINE I == Ids(d)
           T == Names(s)
<1>1. s \in Seq(I) /\ Len(s) \in Nat /\ DOMAIN s = 1 .. Len(s)
  BY DEF Kahn
<1>2. T \in SUBSET I
  BY <1>1 DEF Names
<1>3. Cardinality(T) = Len(s)
  <2> DEFINE n == Len(s)
  <2>1. s \in [1 .. n -> I] /\ n \in Nat
    BY <1>1
  <2>2. \A i, j \in 1 .. n : s[i] = s[j] => i = j
    BY <1>1 DEF Kahn, NoRepeats
  <2>3. ValuesOf(s, n) = T
    BY <1>1 DEF ValuesOf, Names
  <2> HIDE DEF n, I
  <2>4. Cardinality(ValuesOf(s, n)) = n
    BY <2>1, <2>2, Values
  <2>5. QED BY <2>3, <2>4 DEF n
<1>4. HasCycle(d, s) <=> T # I
  <2>1. IsFiniteSet(I)
    BY IdsAre
  <2>2. Cardinality(I) = Cardinality(T) => I = T
    BY <1>2, <2>1, FS_Subset
  <2>3. QED BY <1>3, <2>2 DEF HasCycle
<1>5. ASSUME T = I, NEW S \in SUBSET I, Circular(d, S) PROVE FALSE
  <2> DEFINE places == {i \in 1 .. Len(s) : s[i] \in S}
  <2>1. places \subseteq Nat /\ places # {}
    <3>1. PICK m \in S : TRUE
      BY <1>5 DEF Circular
    <3>2. PICK i \in 1 .. Len(s) : s[i] = m
      BY <1>1, <1>5, <3>1 DEF Names
    <3>3. QED BY <3>1, <3>2
  <2> HIDE DEF places
  <2>2. PICK i \in places : \A j \in places : i <= j
    BY <2>1, SmallestNumber
  <2>3. i \in 1 .. Len(s) /\ s[i] \in S
    BY DEF places
  <2>4. PICK e \in EdgesInto(d, s[i]) : e.from \in S
    BY <1>5, <2>3 DEF Circular
  <2>5. PICK j \in 1 .. i - 1 : s[j] = e.from
    BY <1>1, <2>3, <2>4 DEF Kahn, InOrder
  <2>6. j \in places /\ j < i
    BY <1>1, <2>3, <2>4, <2>5 DEF places
  <2>7. QED BY <1>1, <2>2, <2>3, <2>6
<1>6. ASSUME T # I PROVE Circular(d, I \ T) /\ I \ T \in SUBSET I
  <2>1. I \ T # {}
    BY <1>2, <1>6
  <2>2. ASSUME NEW m \in I \ T PROVE \E e \in EdgesInto(d, m) : e.from \in I \ T
    <3>1. Cardinality(Waiting(d, m, s)) # 0
      BY <2>2 DEF Kahn
    <3>2. Waiting(d, m, s) # {}
      BY <3>1, FS_EmptySet
    <3>3. PICK e \in EdgesInto(d, m) : e.from \notin T
      BY <3>2 DEF Waiting
    <3>4. QED BY <3>3 DEF EdgesInto
  <2>3. QED BY <2>1, <2>2 DEF Circular
<1>7. QED BY <1>4, <1>5, <1>6

-----------------------------------------------------------------------------
(* The searches.                                                           *)

Spread(next, S) == S \cup UNION {next[n] : n \in S \cap DOMAIN next}
Settled(next, S) == \A n \in S \cap DOMAIN next : next[n] \subseteq S

(* Following next as often as there are nodes finds the smallest set that  *)
(* has the start and that next does not lead out of.                       *)
Spreads(w, next, s, N) == w[0] = {s} /\ \A k \in 1 .. N : w[k] = Spread(next, w[k - 1])
Smallest(next, s, S) ==
  /\ s \in S /\ Settled(next, S)
  /\ \A R : s \in R /\ Settled(next, R) => S \subseteq R

LEMMA SpreadIsSmallest ==
  ASSUME NEW I, IsFiniteSet(I), NEW N \in Nat, Cardinality(I) <= N, NEW next \in [I -> SUBSET I],
         NEW s \in I, NEW w, Spreads(w, next, s, N)
  PROVE  w[N] \in SUBSET I /\ Smallest(next, s, w[N])
<1>0. /\ w[0] = {s}
      /\ \A k \in Nat : k + 1 <= N => k <= N /\ w[k + 1] = Spread(next, w[k])
  <2>1. \A k \in Nat : k + 1 <= N => k + 1 \in 1 .. N /\ (k + 1) - 1 = k
    OBVIOUS
  <2>2. QED BY <2>1 DEF Spreads
<1>1. \A S \in SUBSET I : Spread(next, S) \in SUBSET I /\ S \subseteq Spread(next, S)
  BY DEF Spread
<1>2. \A S \in SUBSET I : Settled(next, S) <=> Spread(next, S) = S
  BY DEF Spread, Settled
<1> DEFINE Within == {k \in Nat : k <= N => w[k] \in SUBSET I /\ s \in w[k]}
<1>3. \A k \in Nat : k \in Within
  <2>1. 0 \in Within
    BY <1>0
  <2>2. ASSUME NEW k \in Nat, k \in Within PROVE k + 1 \in Within
    BY <1>0, <1>1, <2>2
  <2> HIDE DEF Within
  <2>3. QED BY <2>1, <2>2, Induction
<1> DEFINE Least == {k \in Nat : k <= N => \A R : s \in R /\ Settled(next, R) => w[k] \subseteq R}
<1>4. \A k \in Nat : k \in Least
  <2>1. 0 \in Least
    BY <1>0
  <2>2. ASSUME NEW k \in Nat, k \in Least PROVE k + 1 \in Least
    <3> SUFFICES ASSUME k + 1 <= N, NEW R, s \in R, Settled(next, R) PROVE w[k + 1] \subseteq R
      OBVIOUS
    <3>1. w[k] \subseteq R
      BY <1>0, <2>2
    <3>2. QED BY <1>0, <3>1 DEF Spread, Settled
  <2> HIDE DEF Least
  <2>3. QED BY <2>1, <2>2, Induction
<1>5. \A k \in Nat : k <= N => IsFiniteSet(w[k]) /\ Cardinality(w[k]) \in Nat /\ Cardinality(w[k]) <= Cardinality(I)
  BY <1>3, FS_Subset, FS_CardinalityType
<1> DEFINE Grown == {k \in Nat : k <= N => Settled(next, w[k]) \/ Cardinality(w[k]) >= k + 1}
<1>6. \A k \in Nat : k \in Grown
  <2>1. 0 \in Grown
    <3>1. Cardinality(w[0]) = 1
      BY <1>0, FS_Singleton
    <3>2. QED BY <3>1
  <2>2. ASSUME NEW k \in Nat, k \in Grown PROVE k + 1 \in Grown
    <3> SUFFICES ASSUME k + 1 <= N PROVE Settled(next, w[k + 1]) \/ Cardinality(w[k + 1]) >= k + 2
      OBVIOUS
    <3>1. w[k] \in SUBSET I /\ w[k + 1] \in SUBSET I /\ w[k] \subseteq w[k + 1] /\ w[k + 1] = Spread(next, w[k])
      BY <1>0, <1>1, <1>3
    <3>2. CASE Settled(next, w[k])
      BY <1>2, <3>1, <3>2
    <3>3. CASE ~Settled(next, w[k])
      <4>1. Cardinality(w[k]) >= k + 1
        BY <1>0, <2>2, <3>3
      <4>2. w[k] # w[k + 1]
        BY <1>2, <3>1, <3>3
      <4>3. IsFiniteSet(w[k + 1]) /\ Cardinality(w[k]) \in Nat /\ Cardinality(w[k + 1]) \in Nat
        BY <1>0, <1>5
      <4>4. Cardinality(w[k]) <= Cardinality(w[k + 1]) /\ Cardinality(w[k]) # Cardinality(w[k + 1])
        BY <3>1, <4>2, <4>3, FS_Subset
      <4>5. QED BY <4>1, <4>3, <4>4
    <3>4. QED BY <3>2, <3>3
  <2> HIDE DEF Grown
  <2>3. QED BY <2>1, <2>2, Induction
<1>7. Settled(next, w[N])
  <2>1. Settled(next, w[N]) \/ Cardinality(w[N]) >= N + 1
    BY <1>6
  <2>2. Cardinality(w[N]) \in Nat /\ Cardinality(I) \in Nat /\ Cardinality(w[N]) <= Cardinality(I)
    BY <1>5, FS_CardinalityType
  <2>3. QED BY <2>1, <2>2
<1>8. w[N] \in SUBSET I /\ s \in w[N]
  BY <1>3
<1>9. \A R : s \in R /\ Settled(next, R) => w[N] \subseteq R
  BY <1>4
<1>10. QED BY <1>7, <1>8, <1>9 DEF Smallest

(* What a search finds.                                                    *)
LEMMA FoundIsSmallest ==
  ASSUME NEW d, Graph(d), NEW next \in [Ids(d) -> SUBSET Ids(d)], NEW s \in Ids(d)
  PROVE  Found(s, next, d) \in SUBSET Ids(d) /\ Smallest(next, s, Found(s, next, d))
<1> DEFINE I == Ids(d)
           N == Len(d.nodes)
           Full(f) == [k \in 0 .. N |->
                         IF k = 0 THEN {s} ELSE f[k - 1] \cup UNION {next[n] : n \in f[k - 1] \cap DOMAIN next}]
           within == CHOOSE f : f = Full(f)
           g == [q \in (1 .. N) \X SUBSET I |-> Spread(next, q[2])]
           s0 == {s}
<1>1. N \in Nat /\ IsFiniteSet(I) /\ Cardinality(I) <= N
  BY IdsAre
<1>2. Found(s, next, d) = within[N]
  BY DEF Found
<1>3. g \in [(1 .. N) \X SUBSET I -> SUBSET I] /\ \A k \in 1 .. N : \A S \in SUBSET I : g[<<k, S>>] = Spread(next, S)
  BY DEF Spread
<1>4. PICK f \in [0 .. N -> SUBSET I] : f[0] = s0 /\ \A k \in 1 .. N : f[k] = g[<<k, f[k - 1]>>]
  <2>1. s0 \in SUBSET I
    OBVIOUS
  <2> HIDE DEF g, s0, I, N
  <2>2. Recursive(SUBSET I, s0, N, g)
    BY <1>1, <1>3, <2>1, RecursionExists
  <2>3. QED BY <2>2 DEF Recursive
<1>5. \A k \in 1 .. N : f[k] = Spread(next, f[k - 1])
  <2>1. \A k \in 1 .. N : f[k - 1] \in SUBSET I
    BY <1>1, <1>4
  <2> HIDE DEF g
  <2>2. QED BY <1>3, <1>4, <2>1
<1>6. f = Full(f)
  <2>1. \A k \in 0 .. N : k = 0 \/ k \in 1 .. N
    BY <1>1
  <2>2. \A k \in 0 .. N : f[k] = IF k = 0 THEN {s} ELSE f[k - 1] \cup UNION {next[n] : n \in f[k - 1] \cap DOMAIN next}
    BY <1>4, <1>5, <2>1 DEF Spread
  <2> HIDE DEF N, I, g
  <2>3. QED BY <1>4, <2>2
<1>7. within = Full(within)
  <2> HIDE DEF Full
  <2> QED BY <1>6
<1>8. Spreads(within, next, s, N)
  <2> DEFINE body(u, k) == u \cup UNION {next[n] : n \in u \cap DOMAIN next}
  <2>1. within = [k \in 0 .. N |-> IF k = 0 THEN {s} ELSE body(within[k - 1], k)]
    <3> HIDE DEF within
    <3> QED BY <1>7
  <2>2. \A k : body(within[k - 1], k) = Spread(next, within[k - 1])
    <3> HIDE DEF within
    <3> QED BY DEF Spread
  <2> HIDE DEF within, Full, body, N
  <2>3. within[0] = {s} /\ \A k \in 1 .. N : within[k] = body(within[k - 1], k)
    <3>1. \A k \in 0 .. N : within[k] = IF k = 0 THEN {s} ELSE body(within[k - 1], k)
      BY <2>1
    <3>2. 0 \in 0 .. N /\ \A k \in 1 .. N : k \in 0 .. N /\ k # 0
      BY <1>1
    <3>3. QED BY <3>1, <3>2
  <2>4. QED BY <2>2, <2>3 DEF Spreads
<1> HIDE DEF within, Full, I, N, g
<1>9. within[N] \in SUBSET I /\ Smallest(next, s, within[N])
  <2>1. next \in [I -> SUBSET I] /\ s \in I
    BY DEF I
  <2>2. QED BY <1>1, <1>8, <2>1, SpreadIsSmallest
<1>10. QED BY <1>2, <1>9 DEF I

-----------------------------------------------------------------------------
(* What lies between entry and exit.                                       *)

LEMMA ForwardIs ==
  ASSUME NEW d, Graph(d), NamesAreSound(d)
  PROVE  /\ Forward(d) \in SUBSET Ids(d) /\ d.entry \in Forward(d) /\ Closed(d, Forward(d), FALSE)
         /\ \A S : d.entry \in S /\ Closed(d, S, FALSE) => Forward(d) \subseteq S
         /\ \A n \in Forward(d) : n # d.entry => \E e \in d.edges : e.to = n /\ e.from \in Forward(d)
<1> DEFINE F == Found(d.entry, Targets(d), d)
           I == Ids(d)
<1>1. d.entry \in I /\ \A e \in d.edges : e.from \in I /\ e.to \in I
  BY DEF NamesAreSound
<1>2. Targets(d) \in [I -> SUBSET I] /\ DOMAIN Targets(d) = I
  BY <1>1 DEF Targets
<1>3. F \in SUBSET I /\ Smallest(Targets(d), d.entry, F)
  BY <1>1, <1>2, FoundIsSmallest
<1> HIDE DEF F, I
<1>4. ASSUME NEW S PROVE Settled(Targets(d), S) <=> Closed(d, S, FALSE)
  <2>1. \A n \in I : Targets(d)[n] = {e.to : e \in {x \in d.edges : x.from = n}}
    BY DEF Targets, I
  <2>2. \A n \in I : Targets(d)[n] \subseteq S <=> \A e \in d.edges : e.from = n => e.to \in S
    BY <2>1
  <2>3. Settled(Targets(d), S) <=> \A n \in S \cap I : \A e \in d.edges : e.from = n => e.to \in S
    BY <1>2, <2>2 DEF Settled
  <2>4. Closed(d, S, FALSE) <=> \A e \in d.edges : e.from \in S => e.to \in S
    BY DEF Closed
  <2>5. QED BY <1>1, <2>3, <2>4
<1>5. F \in SUBSET I /\ d.entry \in F /\ Closed(d, F, FALSE)
  BY <1>3, <1>4 DEF Smallest
<1>6. \A S : d.entry \in S /\ Closed(d, S, FALSE) => F \subseteq S
  BY <1>3, <1>4 DEF Smallest
<1>7. ASSUME NEW n \in F, n # d.entry, \A e \in d.edges : e.to = n => e.from \notin F PROVE FALSE
  <2>1. Closed(d, F \ {n}, FALSE)
    BY <1>5, <1>7 DEF Closed
  <2>2. QED BY <1>5, <1>6, <1>7, <2>1
<1>8. Forward(d) = F
  BY DEF Forward, F
<1>9. QED BY <1>5, <1>6, <1>7, <1>8 DEF I

LEMMA BackwardIs ==
  ASSUME NEW d, Graph(d), NamesAreSound(d)
  PROVE  /\ Backward(d) \in SUBSET Ids(d) /\ d.exit \in Backward(d) /\ Closed(d, Backward(d), TRUE)
         /\ \A S : d.exit \in S /\ Closed(d, S, TRUE) => Backward(d) \subseteq S
         /\ \A n \in Backward(d) : n # d.exit => \E e \in d.edges : e.from = n /\ e.to \in Backward(d)
<1> DEFINE F == Found(d.exit, Sources(d), d)
           I == Ids(d)
<1>1. d.exit \in I /\ \A e \in d.edges : e.from \in I /\ e.to \in I
  BY DEF NamesAreSound
<1>2. Sources(d) \in [I -> SUBSET I] /\ DOMAIN Sources(d) = I
  BY <1>1 DEF Sources
<1>3. F \in SUBSET I /\ Smallest(Sources(d), d.exit, F)
  BY <1>1, <1>2, FoundIsSmallest
<1> HIDE DEF F, I
<1>4. ASSUME NEW S PROVE Settled(Sources(d), S) <=> Closed(d, S, TRUE)
  <2>1. \A n \in I : Sources(d)[n] = {e.from : e \in {x \in d.edges : x.to = n}}
    BY DEF Sources, I
  <2>2. \A n \in I : Sources(d)[n] \subseteq S <=> \A e \in d.edges : e.to = n => e.from \in S
    BY <2>1
  <2>3. Settled(Sources(d), S) <=> \A n \in S \cap I : \A e \in d.edges : e.to = n => e.from \in S
    BY <1>2, <2>2 DEF Settled
  <2>4. Closed(d, S, TRUE) <=> \A e \in d.edges : e.to \in S => e.from \in S
    BY DEF Closed
  <2>5. QED BY <1>1, <2>3, <2>4
<1>5. F \in SUBSET I /\ d.exit \in F /\ Closed(d, F, TRUE)
  BY <1>3, <1>4 DEF Smallest
<1>6. \A S : d.exit \in S /\ Closed(d, S, TRUE) => F \subseteq S
  BY <1>3, <1>4 DEF Smallest
<1>7. ASSUME NEW n \in F, n # d.exit, \A e \in d.edges : e.from = n => e.to \notin F PROVE FALSE
  <2>1. Closed(d, F \ {n}, TRUE)
    BY <1>5, <1>7 DEF Closed
  <2>2. QED BY <1>5, <1>6, <1>7, <2>1
<1>8. Backward(d) = F
  BY DEF Backward, F
<1>9. QED BY <1>5, <1>6, <1>7, <1>8 DEF I

LEMMA ReachedIs ==
  ASSUME NEW d, Graph(d), NamesAreSound(d)
  PROVE  /\ AllReached(d) <=> \A S \in SUBSET Ids(d) : d.entry \in S /\ Closed(d, S, FALSE) => S = Ids(d)
         /\ \A n \in Ids(d) : IsOnExecutionPath(d, n) <=> Between(d, n)
<1> DEFINE F == Forward(d)
           B == Backward(d)
<1>1. /\ F \in SUBSET Ids(d) /\ d.entry \in F /\ Closed(d, F, FALSE)
      /\ \A S : d.entry \in S /\ Closed(d, S, FALSE) => F \subseteq S
  BY ForwardIs
<1>2. /\ B \in SUBSET Ids(d) /\ d.exit \in B /\ Closed(d, B, TRUE)
      /\ \A S : d.exit \in S /\ Closed(d, S, TRUE) => B \subseteq S
  BY BackwardIs
<1>3. AllReached(d) <=> Ids(d) \subseteq F
  BY DEF AllReached
<1>4. \A n : IsOnExecutionPath(d, n) <=> n \in F /\ n \in B
  BY DEF IsOnExecutionPath
<1> HIDE DEF F, B
<1>5. AllReached(d) <=> \A S \in SUBSET Ids(d) : d.entry \in S /\ Closed(d, S, FALSE) => S = Ids(d)
  BY <1>1, <1>3
<1>6. \A n \in Ids(d) : Between(d, n) <=> n \in F /\ n \in B
  BY <1>1, <1>2 DEF Between
<1>7. QED BY <1>4, <1>5, <1>6

LEMMA PositionIs ==
  ASSUME NEW p, NoRepeats(p), NEW i \in DOMAIN p
  PROVE  Position(p[i], p) = i
BY DEF NoRepeats, Position

(* The nodes on the path in the order of the sort: the plan.               *)
LEMMA PlanIs ==
  ASSUME NEW d, Graph(d), NamesAreSound(d), NEW s \in Seq(Ids(d)), NoRepeats(s), InOrder(d, s), Names(s) = Ids(d),
         NEW plan, plan = Picked(s, {i \in DOMAIN s : IsOnExecutionPath(d, s[i])})
  PROVE  /\ plan \in Seq(Ids(d)) /\ NoRepeats(plan) /\ Names(plan) = {n \in Ids(d) : Between(d, n)}
         /\ plan # <<>> => plan[1] = d.entry /\ plan[Len(plan)] = d.exit
         /\ \A e \in d.edges : {e.from, e.to} \subseteq Names(plan) =>
               Position(e.from, plan) < Position(e.to, plan)
<1> DEFINE n == Len(s)
           P == {i \in DOMAIN s : IsOnExecutionPath(d, s[i])}
           c == Cardinality(P)
           I == Ids(d)
<1>1. n \in Nat /\ DOMAIN s = 1 .. n /\ P \in SUBSET (1 .. n) /\ s \in [1 .. n -> I]
  OBVIOUS
<1>2. \A i \in P : s[i] \in I /\ IsOnExecutionPath(d, s[i])
  BY <1>1
<1>3. \A m \in I : IsOnExecutionPath(d, m) => \E i \in P : s[i] = m
  BY DEF Names
<1>4. plan = Picked(s, P)
  OBVIOUS
<1>5. \A m \in I : IsOnExecutionPath(d, m) <=> Between(d, m)
  BY ReachedIs
<1> HIDE DEF n, P, I
<1>6. c \in 0 .. n /\ \E f : PicksAt(s, P, f)
  BY <1>1, PickedInOrder
<1> HIDE DEF c
<1>7. PICK f : PicksAt(s, P, f)
  BY <1>6
<1>8. /\ f \in [1 .. c -> P] /\ plan = [i \in 1 .. c |-> s[f[i]]]
      /\ \A i, j \in 1 .. c : i < j <=> f[i] < f[j]
      /\ \A p \in P : \E i \in 1 .. c : f[i] = p
  BY <1>4, <1>7 DEF PicksAt, c
<1>9. /\ c \in Nat /\ plan \in Seq(I) /\ Len(plan) = c /\ DOMAIN plan = 1 .. c
      /\ \A i \in 1 .. c : plan[i] = s[f[i]] /\ f[i] \in 1 .. n
  <2>1. c \in Nat
    BY <1>1, <1>6
  <2>2. \A i \in 1 .. c : f[i] \in P /\ f[i] \in 1 .. n
    BY <1>1, <1>8
  <2>3. plan \in [1 .. c -> I]
    BY <1>2, <1>8, <2>2
  <2>4. \A i \in 1 .. c : plan[i] = s[f[i]]
    BY <1>8
  <2>5. plan \in Seq(I) /\ Len(plan) = c /\ DOMAIN plan = 1 .. c
    BY <2>1, <2>3
  <2>6. QED BY <2>1, <2>2, <2>4, <2>5
<1>10. NoRepeats(plan)
  <2>1. ASSUME NEW i \in 1 .. c, NEW j \in 1 .. c, plan[i] = plan[j] PROVE i = j
    <3>1. f[i] = f[j]
      BY <1>1, <1>9, <2>1 DEF NoRepeats
    <3>2. i \in Nat /\ j \in Nat
      OBVIOUS
    <3>3. f[i] \in Nat /\ ~ (i < j) /\ ~ (j < i)
      BY <1>8, <1>9, <3>1
    <3>4. QED BY <3>2, <3>3
  <2>2. QED BY <1>9, <2>1 DEF NoRepeats
<1>11. Names(plan) = {m \in I : IsOnExecutionPath(d, m)}
  <2>1. \A i \in 1 .. c : plan[i] \in I /\ IsOnExecutionPath(d, plan[i])
    BY <1>2, <1>8
  <2>2. \A m \in I : IsOnExecutionPath(d, m) => \E i \in 1 .. c : plan[i] = m
    <3> TAKE m \in I
    <3>1. ASSUME NEW i \in P, s[i] = m PROVE \E j \in 1 .. c : plan[j] = m
      <4>1. PICK j \in 1 .. c : f[j] = i
        BY <1>8
      <4>2. QED BY <1>9, <3>1, <4>1
    <3>2. QED BY <1>3, <3>1
  <2>3. Names(plan) = {plan[i] : i \in 1 .. c}
    BY <1>9 DEF Names
  <2>4. QED BY <2>1, <2>2, <2>3
<1>12. \A e \in d.edges : e.from \in I /\ e.to \in I
  BY DEF NamesAreSound, I
<1>13. ASSUME NEW e \in d.edges, NEW a \in 1 .. c, NEW b \in 1 .. c, plan[a] = e.from, plan[b] = e.to PROVE a < b
  <2>1. e \in EdgesInto(d, s[f[b]])
    BY <1>9, <1>12, <1>13 DEF EdgesInto, I
  <2>2. PICK j \in 1 .. f[b] - 1 : s[j] = e.from
    BY <1>1, <1>9, <2>1 DEF InOrder
  <2>3. j = f[a]
    <3>1. j \in 1 .. n /\ f[a] \in 1 .. n
      BY <1>1, <1>9
    <3>2. s[f[a]] = s[j]
      BY <1>9, <1>13, <2>2
    <3>3. QED BY <1>1, <3>1, <3>2 DEF NoRepeats
  <2>4. f[a] < f[b]
    BY <1>9, <2>3
  <2>5. QED BY <1>8, <2>4
<1>14. \A e \in d.edges : {e.from, e.to} \subseteq Names(plan) => Position(e.from, plan) < Position(e.to, plan)
  <2> SUFFICES ASSUME NEW e \in d.edges, e.from \in Names(plan), e.to \in Names(plan)
               PROVE  Position(e.from, plan) < Position(e.to, plan)
    OBVIOUS
  <2>1. PICK a \in 1 .. c : plan[a] = e.from
    BY <1>9 DEF Names
  <2>2. PICK b \in 1 .. c : plan[b] = e.to
    BY <1>9 DEF Names
  <2>3. Position(e.from, plan) = a
    BY <1>9, <1>10, <2>1, PositionIs
  <2>4. Position(e.to, plan) = b
    BY <1>9, <1>10, <2>2, PositionIs
  <2>5. QED BY <1>13, <2>1, <2>2, <2>3, <2>4
<1>15. ASSUME plan # <<>> PROVE plan[1] = d.entry /\ plan[Len(plan)] = d.exit
  <2>1. c # 0 /\ 1 \in 1 .. c /\ c \in 1 .. c
    BY <1>9, <1>15
  <2>2. ASSUME plan[1] # d.entry PROVE FALSE
    <3>1. plan[1] \in Forward(d) /\ plan[1] \in Backward(d)
      BY <1>9, <1>11, <2>1 DEF Names, IsOnExecutionPath
    <3>2. PICK e \in d.edges : e.to = plan[1] /\ e.from \in Forward(d)
      BY <2>2, <3>1, ForwardIs
    <3>3. Closed(d, Backward(d), TRUE)
      BY BackwardIs
    <3>4. e.from \in Backward(d)
      BY <3>1, <3>2, <3>3 DEF Closed
    <3>5. e.from \in Names(plan)
      BY <1>11, <1>12, <3>2, <3>4 DEF IsOnExecutionPath
    <3>6. PICK a \in 1 .. c : plan[a] = e.from
      BY <1>9, <3>5 DEF Names
    <3>7. a < 1
      BY <1>13, <2>1, <3>2, <3>6
    <3>8. QED BY <3>7
  <2>3. ASSUME plan[c] # d.exit PROVE FALSE
    <3>1. plan[c] \in Forward(d) /\ plan[c] \in Backward(d)
      BY <1>9, <1>11, <2>1 DEF Names, IsOnExecutionPath
    <3>2. PICK e \in d.edges : e.from = plan[c] /\ e.to \in Backward(d)
      BY <2>3, <3>1, BackwardIs
    <3>3. Closed(d, Forward(d), FALSE)
      BY ForwardIs
    <3>4. e.to \in Forward(d)
      BY <3>1, <3>2, <3>3 DEF Closed
    <3>5. e.to \in Names(plan)
      BY <1>11, <1>12, <3>2, <3>4 DEF IsOnExecutionPath
    <3>6. PICK b \in 1 .. c : plan[b] = e.to
      BY <1>9, <3>5 DEF Names
    <3>7. c < b
      BY <1>13, <2>1, <3>2, <3>6
    <3>8. QED BY <1>9, <3>7
  <2>4. QED BY <1>9, <2>2, <2>3
<1>16. QED BY <1>5, <1>9, <1>10, <1>11, <1>14, <1>15 DEF I

-----------------------------------------------------------------------------
(* Lists of lists.                                                         *)

\* The places in the first k of the lists ss, and where joining puts them.
Places(ss, k) == {q \in (1 .. k) \X Nat : q[2] \in DOMAIN ss[q[1]]}
JoinsAt(ss, k, J, at) ==
  /\ at \in [Places(ss, k) -> 1 .. Len(J)]
  /\ \A q \in Places(ss, k) : J[at[q]] = ss[q[1]][q[2]]
  /\ \A q, r \in Places(ss, k) : at[q] = at[r] => q = r
  /\ \A i \in 1 .. Len(J) : \E q \in Places(ss, k) : at[q] = i

(* One list more.                                                          *)
LEMMA JoinsOneMore ==
  ASSUME NEW S, NEW ss \in Seq(Seq(S)), NEW k \in Nat, k + 1 <= Len(ss), NEW J \in Seq(S), NEW at, JoinsAt(ss, k, J, at)
  PROVE  J \o ss[k + 1] \in Seq(S) /\ \E joined : JoinsAt(ss, k + 1, J \o ss[k + 1], joined)
<1> DEFINE t == ss[k + 1]
           K == J \o t
           P == Places(ss, k)
           Q == Places(ss, k + 1)
           joined == [q \in Q |-> IF q[1] = k + 1 THEN Len(J) + q[2] ELSE at[q]]
           n == Len(J)
           m == Len(t)
<1>1. k + 1 \in DOMAIN ss
  OBVIOUS
<1>2. t \in Seq(S)
  BY <1>1
<1> HIDE DEF t
<1>3. /\ K \in Seq(S) /\ Len(K) = n + m /\ n \in Nat /\ m \in Nat
      /\ DOMAIN t = 1 .. m
      /\ \A i \in 1 .. n : K[i] = J[i] /\ i \in 1 .. n + m
      /\ \A i \in 1 .. m : K[n + i] = t[i] /\ n + i \in 1 .. n + m
      /\ \A i \in 1 .. n + m : i \in 1 .. n \/ (i - n \in 1 .. m /\ i = n + (i - n))
  BY <1>2
<1> HIDE DEF K, n, m
<1>4. /\ \A q \in Q : \/ q \in P /\ q[1] # k + 1
                      \/ q[1] = k + 1 /\ q[2] \in 1 .. m /\ q = <<k + 1, q[2]>>
      /\ \A q \in P : q \in Q /\ q[1] # k + 1
      /\ \A j \in 1 .. m : <<k + 1, j>> \in Q
  <2>1. \A i \in 1 .. k + 1 : i = k + 1 \/ (i \in 1 .. k /\ i # k + 1)
    OBVIOUS
  <2>2. \A i \in 1 .. k : i # k + 1 /\ i \in 1 .. k + 1
    OBVIOUS
  <2>3. k + 1 \in 1 .. k + 1 /\ \A j \in 1 .. m : j \in Nat
    OBVIOUS
  <2>4. DOMAIN ss[k + 1] = 1 .. m
    BY <1>3 DEF t
  <2>5. \A q \in Q : q = <<q[1], q[2]>> /\ q[1] \in 1 .. k + 1 /\ q[2] \in Nat /\ q[2] \in DOMAIN ss[q[1]]
    BY DEF Places
  <2>6. \A q \in Q : q[1] \in 1 .. k => q \in P
    BY <2>5 DEF Places
  <2>7. \A q \in P : q \in Q /\ q[1] \in 1 .. k
    BY <2>2 DEF Places
  <2>8. \A j \in 1 .. m : <<k + 1, j>> \in Q
    BY <2>3, <2>4 DEF Places
  <2> HIDE DEF P, Q
  <2>9. QED BY <2>1, <2>2, <2>4, <2>5, <2>6, <2>7, <2>8
<1>5. /\ at \in [P -> 1 .. n]
      /\ \A q \in P : J[at[q]] = ss[q[1]][q[2]]
      /\ \A q, r \in P : at[q] = at[r] => q = r
      /\ \A i \in 1 .. n : \E q \in P : at[q] = i
  BY DEF JoinsAt, n
<1> HIDE DEF P, Q
<1>6. \A q \in Q : \/ q \in P /\ joined[q] = at[q] /\ joined[q] \in 1 .. n
                   \/ q[1] = k + 1 /\ q[2] \in 1 .. m /\ q = <<k + 1, q[2]>> /\ joined[q] = n + q[2]
  <2> TAKE q \in Q
  <2>1. CASE q \in P /\ q[1] # k + 1
    <3>1. joined[q] = at[q]
      BY <2>1
    <3>2. QED BY <1>5, <2>1, <3>1
  <2>2. CASE q[1] = k + 1 /\ q[2] \in 1 .. m /\ q = <<k + 1, q[2]>>
    <3>1. joined[q] = n + q[2]
      BY <2>2 DEF n
    <3>2. QED BY <2>2, <3>1
  <2>3. QED BY <1>4, <2>1, <2>2
<1>7. joined = [q \in Q |-> joined[q]]
  OBVIOUS
<1> HIDE DEF joined
<1>8. joined \in [Q -> 1 .. Len(K)]
  <2>1. \A q \in Q : joined[q] \in 1 .. Len(K)
    BY <1>3, <1>6
  <2>2. QED BY <1>7, <2>1
<1>9. \A q \in Q : K[joined[q]] = ss[q[1]][q[2]]
  <2> TAKE q \in Q
  <2>1. CASE q \in P /\ joined[q] = at[q] /\ joined[q] \in 1 .. n
    <3>1. K[joined[q]] = J[joined[q]]
      BY <1>3, <2>1
    <3>2. QED BY <1>5, <2>1, <3>1
  <2>2. CASE q[1] = k + 1 /\ q[2] \in 1 .. m /\ joined[q] = n + q[2]
    <3>1. K[joined[q]] = t[q[2]]
      BY <1>3, <2>2
    <3>2. t = ss[q[1]]
      BY <2>2 DEF t
    <3>3. QED BY <3>1, <3>2
  <2>3. QED BY <1>6, <2>1, <2>2
<1>10. \A q, r \in Q : joined[q] = joined[r] => q = r
  <2> SUFFICES ASSUME NEW q \in Q, NEW r \in Q, joined[q] = joined[r] PROVE q = r
    OBVIOUS
  <2>1. CASE joined[q] \in 1 .. n
    <3>1. \A j \in 1 .. m : ~ (n + j \in 1 .. n)
      BY <1>3
    <3>2. q \in P /\ r \in P /\ at[q] = at[r]
      BY <1>6, <2>1, <3>1
    <3>3. QED BY <1>5, <3>2
  <2>2. CASE joined[q] \notin 1 .. n
    <3>1. q[2] \in 1 .. m /\ r[2] \in 1 .. m /\ n + q[2] = n + r[2] /\ q = <<k + 1, q[2]>> /\ r = <<k + 1, r[2]>>
      BY <1>6, <2>2
    <3>2. q[2] = r[2]
      BY <1>3, <3>1
    <3>3. QED BY <3>1, <3>2
  <2>3. QED BY <2>1, <2>2
<1>11. \A i \in 1 .. Len(K) : \E q \in Q : joined[q] = i
  <2> TAKE i \in 1 .. Len(K)
  <2>1. CASE i \in 1 .. n
    <3>1. PICK q \in P : at[q] = i
      BY <1>5, <2>1
    <3>2. q \in Q /\ q[1] # k + 1
      BY <1>4
    <3>3. joined[q] = at[q]
      BY <1>6, <3>2
    <3>4. QED BY <3>1, <3>2, <3>3
  <2>2. CASE i - n \in 1 .. m /\ i = n + (i - n)
    <3> DEFINE j == i - n
               q == <<k + 1, j>>
    <3>1. q \in Q /\ q[1] = k + 1 /\ q[2] = j
      BY <1>4, <2>2
    <3>2. q \notin P
      BY <1>4, <3>1
    <3>3. joined[q] = n + q[2]
      BY <1>6, <3>1, <3>2
    <3>4. QED BY <2>2, <3>1, <3>3
  <2>3. QED BY <1>3, <2>1, <2>2
<1>12. JoinsAt(ss, k + 1, K, joined)
  BY <1>8, <1>9, <1>10, <1>11 DEF JoinsAt, Q
<1>13. QED BY <1>3, <1>12 DEF K, t

LEMMA JoinedIs ==
  ASSUME NEW S, NEW ss \in Seq(Seq(S))
  PROVE  Joined(ss) \in Seq(S) /\ \E at : JoinsAt(ss, Len(ss), Joined(ss), at)
<1> DEFINE n == Len(ss)
           Full(f) == [k \in 0 .. n |-> IF k = 0 THEN <<>> ELSE f[k - 1] \o ss[k]]
           upTo == CHOOSE f : f = Full(f)
           g == [q \in (1 .. n) \X Seq(S) |-> q[2] \o ss[q[1]]]
           s0 == <<>>
<1>1. n \in Nat /\ \A k \in 1 .. n : ss[k] \in Seq(S)
  OBVIOUS
<1>2. Joined(ss) = upTo[n]
  BY DEF Joined
<1>3. g \in [(1 .. n) \X Seq(S) -> Seq(S)] /\ \A k \in 1 .. n : \A y \in Seq(S) : g[<<k, y>>] = y \o ss[k]
  <2>1. \A y, z \in Seq(S) : y \o z \in Seq(S)
    OBVIOUS
  <2>2. \A q \in (1 .. n) \X Seq(S) : q[2] \o ss[q[1]] \in Seq(S)
    <3> TAKE q \in (1 .. n) \X Seq(S)
    <3>1. q[2] \in Seq(S) /\ ss[q[1]] \in Seq(S)
      BY <1>1
    <3>2. QED BY <2>1, <3>1
  <2> HIDE DEF n
  <2>3. QED BY <2>2
<1>4. PICK f \in [0 .. n -> Seq(S)] : f[0] = s0 /\ \A k \in 1 .. n : f[k] = g[<<k, f[k - 1]>>]
  <2>1. s0 \in Seq(S)
    OBVIOUS
  <2> HIDE DEF g, s0, n
  <2>2. Recursive(Seq(S), s0, n, g)
    BY <1>1, <1>3, <2>1, RecursionExists
  <2>3. QED BY <2>2 DEF Recursive
<1>5. \A k \in 1 .. n : f[k] = f[k - 1] \o ss[k]
  <2> HIDE DEF g, n
  <2>1. \A k \in 1 .. n : f[k - 1] \in Seq(S)
    <3>1. \A k \in 1 .. n : k - 1 \in 0 .. n
      BY <1>1
    <3>2. QED BY <1>4, <3>1
  <2>2. QED BY <1>3, <1>4, <2>1
<1>6. f = Full(f)
  <2>1. \A k \in 0 .. n : k = 0 \/ k \in 1 .. n
    BY <1>1
  <2> HIDE DEF n, g
  <2>2. \A k \in 0 .. n : f[k] = IF k = 0 THEN <<>> ELSE f[k - 1] \o ss[k]
    BY <1>4, <1>5, <2>1
  <2>3. QED BY <1>4, <2>2
<1>7. upTo = Full(upTo)
  <2> HIDE DEF Full
  <2> QED BY <1>6
<1> HIDE DEF upTo, n
<1>8. upTo[0] = <<>> /\ \A k \in 1 .. n : upTo[k] = upTo[k - 1] \o ss[k]
  <2>1. \A k \in 0 .. n : upTo[k] = IF k = 0 THEN <<>> ELSE upTo[k - 1] \o ss[k]
    BY <1>7
  <2>2. 0 \in 0 .. n /\ \A k \in 1 .. n : k \in 0 .. n /\ k # 0
    BY <1>1
  <2>3. QED BY <2>1, <2>2
<1> HIDE DEF Full
<1> DEFINE T == {k \in Nat : k <= n => upTo[k] \in Seq(S) /\ \E at : JoinsAt(ss, k, upTo[k], at)}
<1>9. 0 \in T
  <2>1. Places(ss, 0) = {}
    BY DEF Places
  <2>2. JoinsAt(ss, 0, <<>>, [q \in {} |-> 0])
    BY <2>1 DEF JoinsAt
  <2>3. <<>> \in Seq(S) /\ 0 \in Nat
    OBVIOUS
  <2>4. upTo[0] \in Seq(S) /\ \E at : JoinsAt(ss, 0, upTo[0], at)
    BY <1>8, <2>2, <2>3
  <2>5. QED BY <2>3, <2>4
<1>10. ASSUME NEW k \in Nat, k \in T PROVE k + 1 \in T
  <2> SUFFICES ASSUME k + 1 <= n
               PROVE  upTo[k + 1] \in Seq(S) /\ \E at : JoinsAt(ss, k + 1, upTo[k + 1], at)
    OBVIOUS
  <2>1. upTo[k + 1] = upTo[k] \o ss[k + 1]
    <3>1. k + 1 \in 1 .. n /\ (k + 1) - 1 = k
      OBVIOUS
    <3>2. QED BY <1>8, <3>1
  <2>2. upTo[k] \in Seq(S) /\ \E at : JoinsAt(ss, k, upTo[k], at)
    BY <1>1, <1>10
  <2>3. PICK at : JoinsAt(ss, k, upTo[k], at)
    BY <2>2
  <2>4. k + 1 <= Len(ss)
    BY DEF n
  <2>5. QED BY <2>1, <2>2, <2>3, <2>4, JoinsOneMore
<1>11. n \in T
  <2> HIDE DEF T
  <2> QED BY <1>1, <1>9, <1>10, Induction
<1>12. QED BY <1>1, <1>2, <1>11 DEF n

-----------------------------------------------------------------------------
(* The lanes of a goal.                                                    *)

Stops == [id : Seq(Nat) \ {Entry, Exit}, stage : Nat]

LEMMA ExtendedIs ==
  ASSUME NEW steps \in Seq(Nat), NEW rules \in Seq(Nat)
  PROVE  Extended(steps, rules) \in Seq(Nat)
<1> DEFINE n == Len(rules)
           More(s, k) == IF rules[k] \in Names(s) THEN s ELSE Append(s, rules[k])
           Full(f) == [k \in 0 .. n |-> IF k = 0 THEN steps
                                        ELSE IF rules[k] \in Names(f[k - 1]) THEN f[k - 1]
                                             ELSE Append(f[k - 1], rules[k])]
           upTo == CHOOSE f : f = Full(f)
           g == [q \in (1 .. n) \X Seq(Nat) |-> More(q[2], q[1])]
<1>1. n \in Nat /\ \A k \in 1 .. n : rules[k] \in Nat
  OBVIOUS
<1>2. Extended(steps, rules) = upTo[n]
  BY DEF Extended
<1>3. g \in [(1 .. n) \X Seq(Nat) -> Seq(Nat)] /\ \A k \in 1 .. n : \A y \in Seq(Nat) : g[<<k, y>>] = More(y, k)
  <2>1. \A k \in 1 .. n : \A y \in Seq(Nat) : More(y, k) \in Seq(Nat)
    BY <1>1
  <2> HIDE DEF More, n
  <2>2. QED BY <2>1
<1> HIDE DEF n
<1>4. PICK f \in [0 .. n -> Seq(Nat)] : f[0] = steps /\ \A k \in 1 .. n : f[k] = g[<<k, f[k - 1]>>]
  <2> HIDE DEF g
  <2>1. Recursive(Seq(Nat), steps, n, g)
    BY <1>1, <1>3, RecursionExists
  <2>2. QED BY <2>1 DEF Recursive
<1>5. \A k \in 1 .. n : f[k] = More(f[k - 1], k)
  <2> HIDE DEF g
  <2>1. \A k \in 1 .. n : f[k - 1] \in Seq(Nat)
    <3>1. \A k \in 1 .. n : k - 1 \in 0 .. n
      BY <1>1
    <3>2. QED BY <1>4, <3>1
  <2> HIDE DEF More
  <2>2. QED BY <1>3, <1>4, <2>1
<1>6. f = Full(f)
  <2>1. \A k \in 0 .. n : k = 0 \/ k \in 1 .. n
    BY <1>1
  <2> HIDE DEF g
  <2>2. \A k \in 0 .. n : f[k] = IF k = 0 THEN steps ELSE More(f[k - 1], k)
    <3> HIDE DEF More
    <3> QED BY <1>4, <1>5, <2>1
  <2>3. QED BY <1>4, <2>2
<1>7. upTo = Full(upTo)
  <2> HIDE DEF Full
  <2> QED BY <1>6
<1> HIDE DEF upTo
<1>8. upTo[0] = steps /\ \A k \in 1 .. n : upTo[k] = More(upTo[k - 1], k)
  <2>1. \A k \in 0 .. n : upTo[k] = IF k = 0 THEN steps ELSE More(upTo[k - 1], k)
    BY <1>7
  <2>2. 0 \in 0 .. n /\ \A k \in 1 .. n : k \in 0 .. n /\ k # 0
    BY <1>1
  <2> HIDE DEF Full, More
  <2>3. QED BY <2>1, <2>2
<1> HIDE DEF Full
<1> DEFINE T == {k \in Nat : k <= n => upTo[k] \in Seq(Nat)}
<1>9. 0 \in T
  BY <1>8
<1>10. ASSUME NEW k \in Nat, k \in T PROVE k + 1 \in T
  <2> SUFFICES ASSUME k + 1 <= n PROVE upTo[k + 1] \in Seq(Nat)
    OBVIOUS
  <2>1. k + 1 \in 1 .. n /\ (k + 1) - 1 = k /\ upTo[k] \in Seq(Nat)
    BY <1>1, <1>10
  <2>2. upTo[k + 1] = More(upTo[k], k + 1)
    <3> HIDE DEF More
    <3> QED BY <1>8, <2>1
  <2>3. QED BY <1>1, <2>1, <2>2
<1>11. n \in T
  <2> HIDE DEF T
  <2> QED BY <1>1, <1>9, <1>10, Induction
<1>12. QED BY <1>1, <1>2, <1>11

(* A list is the function of its places.                                   *)
LEMMA ListIs ==
  ASSUME NEW X, NEW n \in Nat, NEW f \in [1 .. n -> X]
  PROVE  f \in Seq(X) /\ Len(f) = n /\ DOMAIN f = 1 .. n
OBVIOUS

(* No step has the name of a terminal.                                     *)
LEMMA StopsAre ==
  /\ \A s \in Nat : {Step(s), RuleStep(s)} \subseteq Seq(Nat) \ {Entry, Exit}
  /\ \A i, j, s \in Nat : {BranchStep(i, j, s), RuleBranchStep(i, j, s)} \subseteq Seq(Nat) \ {Entry, Exit}
  /\ \A id \in Seq(Nat) : Composed(id) \in Seq(Nat) \ {Entry, Exit}
<1>1. Len(Entry) = 1 /\ Len(Exit) = 1 /\ Entry[1] = 2 /\ Exit[1] = 3
  BY DEF Entry, Exit
<1>2. ASSUME NEW s \in Nat PROVE {Step(s), RuleStep(s)} \subseteq Seq(Nat) \ {Entry, Exit}
  <2>1. /\ Step(s) \in Seq(Nat) /\ Len(Step(s)) = 3
        /\ RuleStep(s) \in Seq(Nat) /\ Len(RuleStep(s)) = 3
    BY DEF Step, RuleStep
  <2>2. \A x : Len(x) = 3 => x # Entry /\ x # Exit
    BY <1>1
  <2>3. QED BY <2>1, <2>2
<1>3. ASSUME NEW i \in Nat, NEW j \in Nat, NEW s \in Nat
      PROVE  {BranchStep(i, j, s), RuleBranchStep(i, j, s)} \subseteq Seq(Nat) \ {Entry, Exit}
  <2>1. /\ BranchStep(i, j, s) \in Seq(Nat) /\ Len(BranchStep(i, j, s)) = 5
        /\ RuleBranchStep(i, j, s) \in Seq(Nat) /\ Len(RuleBranchStep(i, j, s)) = 5
    BY DEF BranchStep, RuleBranchStep
  <2>2. \A x : Len(x) = 5 => x # Entry /\ x # Exit
    BY <1>1
  <2>3. QED BY <2>1, <2>2
<1>4. ASSUME NEW id \in Seq(Nat) PROVE Composed(id) \in Seq(Nat) \ {Entry, Exit}
  <2>1. Composed(id) \in Seq(Nat) /\ Composed(id)[1] = 1
    <3>1. <<1>> \in Seq(Nat) /\ Len(<<1>>) = 1 /\ <<1>>[1] = 1
      OBVIOUS
    <3>2. QED BY <3>1 DEF Composed
  <2>2. QED BY <1>1, <2>1
<1>5. QED BY <1>2, <1>3, <1>4

LEMMA LaneIs ==
  ASSUME NEW steps \in Seq(Nat)
  PROVE  /\ [j \in DOMAIN steps |-> [id |-> Step(steps[j]), stage |-> steps[j]]] \in Seq(Stops)
         /\ [j \in DOMAIN steps |-> [id |-> RuleStep(steps[j]), stage |-> steps[j]]] \in Seq(Stops)
         /\ \A i \in Nat :
              /\ [j \in DOMAIN steps |-> [id |-> BranchStep(i, j, steps[j]), stage |-> steps[j]]] \in Seq(Stops)
              /\ [j \in DOMAIN steps |-> [id |-> RuleBranchStep(i, j, steps[j]), stage |-> steps[j]]] \in Seq(Stops)
<1> DEFINE n == Len(steps)
<1>1. n \in Nat /\ DOMAIN steps = 1 .. n /\ \A j \in 1 .. n : steps[j] \in Nat /\ j \in Nat
  OBVIOUS
<1> HIDE DEF n
<1>2. \A j \in 1 .. n : /\ [id |-> Step(steps[j]), stage |-> steps[j]] \in Stops
                        /\ [id |-> RuleStep(steps[j]), stage |-> steps[j]] \in Stops
  BY <1>1, StopsAre DEF Stops
<1>3. \A i \in Nat : \A j \in 1 .. n :
         /\ [id |-> BranchStep(i, j, steps[j]), stage |-> steps[j]] \in Stops
         /\ [id |-> RuleBranchStep(i, j, steps[j]), stage |-> steps[j]] \in Stops
  BY <1>1, StopsAre DEF Stops
<1> DEFINE steply == [j \in 1 .. n |-> [id |-> Step(steps[j]), stage |-> steps[j]]]
           ruly == [j \in 1 .. n |-> [id |-> RuleStep(steps[j]), stage |-> steps[j]]]
           branchly(i) == [j \in 1 .. n |-> [id |-> BranchStep(i, j, steps[j]), stage |-> steps[j]]]
           rulyBranchly(i) == [j \in 1 .. n |-> [id |-> RuleBranchStep(i, j, steps[j]), stage |-> steps[j]]]
<1>4. steply \in [1 .. n -> Stops] /\ ruly \in [1 .. n -> Stops]
  BY <1>2
<1>5. \A i \in Nat : branchly(i) \in [1 .. n -> Stops] /\ rulyBranchly(i) \in [1 .. n -> Stops]
  BY <1>3
<1>6. steply \in Seq(Stops) /\ ruly \in Seq(Stops)
  <2> HIDE DEF steply, ruly
  <2> QED BY <1>1, <1>4, ListIs
<1>7. \A i \in Nat : branchly(i) \in Seq(Stops) /\ rulyBranchly(i) \in Seq(Stops)
  <2> HIDE DEF branchly, rulyBranchly
  <2> QED BY <1>1, <1>5, ListIs
<1>8. QED BY <1>1, <1>6, <1>7

LEMMA ShortLaneIs ==
  ASSUME NEW s \in Nat
  PROVE  /\ [j \in DOMAIN <<s>> |-> [id |-> Step(<<s>>[j]), stage |-> <<s>>[j]]] \in Seq(Stops)
         /\ [j \in DOMAIN <<s>> |-> [id |-> RuleStep(<<s>>[j]), stage |-> <<s>>[j]]] \in Seq(Stops)
<1> DEFINE steps == <<s>>
<1>1. steps \in Seq(Nat)
  OBVIOUS
<1> HIDE DEF steps
<1>2. /\ [j \in DOMAIN steps |-> [id |-> Step(steps[j]), stage |-> steps[j]]] \in Seq(Stops)
      /\ [j \in DOMAIN steps |-> [id |-> RuleStep(steps[j]), stage |-> steps[j]]] \in Seq(Stops)
  BY <1>1, LaneIs
<1>3. QED BY <1>2 DEF steps

LEMMA SimpleIs ==
  ASSUME NEW goal \in PlanningGoals
  PROVE  Simple(goal) \in Seq(Seq(Stops))
<1>1. /\ {goal.steps, goal.appended, goal.conditions} \subseteq Seq(Nat) /\ goal.fallback \in Nat
      /\ goal.branches \in Seq(Seq(Nat)) \cup {None} /\ goal.branched \in Seq(Seq(Nat))
  BY DEF PlanningGoals, StepLists
<1>2. Sequential(goal) \in Seq(Seq(Stops))
  <2> DEFINE steps == Extended(goal.steps, goal.appended)
             lane == [j \in DOMAIN steps |-> [id |-> Step(steps[j]), stage |-> steps[j]]]
  <2>1. steps \in Seq(Nat)
    BY <1>1, ExtendedIs
  <2>2. Sequential(goal) = <<lane>>
    BY DEF Sequential, Lane
  <2> HIDE DEF steps
  <2>3. lane \in Seq(Stops)
    BY <2>1, LaneIs
  <2> HIDE DEF lane
  <2>4. QED BY <2>2, <2>3
<1>3. Conditional(goal) \in Seq(Seq(Stops))
  <2> DEFINE c == goal.conditions
             ruled == Extended(<<>>, goal.appended)
             first == [i \in DOMAIN c |-> [j \in DOMAIN <<c[i]>> |-> [id |-> Step(<<c[i]>>[j]), stage |-> <<c[i]>>[j]]]]
             rest == [i \in DOMAIN ruled |->
                        [j \in DOMAIN <<ruled[i]>> |-> [id |-> RuleStep(<<ruled[i]>>[j]), stage |-> <<ruled[i]>>[j]]]]
             f == goal.fallback
             only == [j \in DOMAIN <<f>> |-> [id |-> Step(<<f>>[j]), stage |-> <<f>>[j]]]
  <2>1. Conditional(goal) = IF c = <<>> THEN <<only>> ELSE first \o rest
    BY DEF Conditional, Lane
  <2>2. c \in Seq(Nat) /\ f \in Nat /\ ruled \in Seq(Nat)
    <3>1. <<>> \in Seq(Nat)
      OBVIOUS
    <3>2. QED BY <1>1, <3>1, ExtendedIs
  <2> HIDE DEF c, ruled, f
  <2>3. only \in Seq(Stops)
    BY <2>2, ShortLaneIs
  <2>4. first \in Seq(Seq(Stops))
    <3> DEFINE at(i) == [j \in DOMAIN <<c[i]>> |-> [id |-> Step(<<c[i]>>[j]), stage |-> <<c[i]>>[j]]]
    <3>1. \A i \in 1 .. Len(c) : at(i) \in Seq(Stops)
      <4>1. \A i \in 1 .. Len(c) : c[i] \in Nat
        BY <2>2
      <4>2. QED BY <4>1, ShortLaneIs
    <3>2. first = [i \in DOMAIN c |-> at(i)]
      OBVIOUS
    <3> HIDE DEF at, first
    <3>3. Len(c) \in Nat /\ DOMAIN c = 1 .. Len(c)
      BY <2>2
    <3>4. first \in [1 .. Len(c) -> Seq(Stops)]
      BY <3>1, <3>2, <3>3
    <3>5. QED BY <3>3, <3>4, ListIs
  <2>5. rest \in Seq(Seq(Stops))
    <3> DEFINE at(i) == [j \in DOMAIN <<ruled[i]>> |-> [id |-> RuleStep(<<ruled[i]>>[j]), stage |-> <<ruled[i]>>[j]]]
    <3>1. \A i \in 1 .. Len(ruled) : at(i) \in Seq(Stops)
      <4>1. \A i \in 1 .. Len(ruled) : ruled[i] \in Nat
        BY <2>2
      <4>2. QED BY <4>1, ShortLaneIs
    <3>2. rest = [i \in DOMAIN ruled |-> at(i)]
      OBVIOUS
    <3> HIDE DEF at, rest
    <3>3. Len(ruled) \in Nat /\ DOMAIN ruled = 1 .. Len(ruled)
      BY <2>2
    <3>4. rest \in [1 .. Len(ruled) -> Seq(Stops)]
      BY <3>1, <3>2, <3>3
    <3>5. QED BY <3>3, <3>4, ListIs
  <2> HIDE DEF only, first, rest
  <2>6. QED BY <2>1, <2>3, <2>4, <2>5
<1>4. Branches(goal) \in Seq(Seq(Stops))
  <2> DEFINE lanes == IF goal.branches = None THEN [i \in DOMAIN goal.steps |-> <<goal.steps[i]>>] ELSE goal.branches
             P == {r \in DOMAIN goal.branched : goal.branched[r] # <<>>}
             ruled == Picked(goal.branched, P)
             first == [i \in DOMAIN lanes |->
                         [j \in DOMAIN lanes[i] |-> [id |-> BranchStep(i, j, lanes[i][j]), stage |-> lanes[i][j]]]]
             rest == [r \in DOMAIN ruled |->
                        [j \in DOMAIN ruled[r] |-> [id |-> RuleBranchStep(Len(lanes), j, ruled[r][j]), stage |-> ruled[r][j]]]]
  <2>1. Branches(goal) = first \o rest
    BY DEF Branches, Lane, Mapped
  <2>2. lanes \in Seq(Seq(Nat))
    <3>1. \A i \in 1 .. Len(goal.steps) : <<goal.steps[i]>> \in Seq(Nat)
      BY <1>1
    <3>2. [i \in DOMAIN goal.steps |-> <<goal.steps[i]>>] \in Seq(Seq(Nat))
      <4>1. Len(goal.steps) \in Nat /\ DOMAIN goal.steps = 1 .. Len(goal.steps)
        BY <1>1
      <4>2. [i \in 1 .. Len(goal.steps) |-> <<goal.steps[i]>>] \in [1 .. Len(goal.steps) -> Seq(Nat)]
        BY <3>1
      <4>3. [i \in 1 .. Len(goal.steps) |-> <<goal.steps[i]>>] \in Seq(Seq(Nat))
        BY <4>1, <4>2, ListIs
      <4>4. QED BY <4>1, <4>3
    <3>3. QED BY <1>1, <3>2
  <2>3. ruled \in Seq(Seq(Nat))
    <3> DEFINE b == goal.branched
               n == Len(b)
    <3>1. n \in Nat /\ DOMAIN b = 1 .. n /\ P \in SUBSET (1 .. n) /\ b \in [1 .. n -> Seq(Nat)]
      BY <1>1
    <3> HIDE DEF P, b, n
    <3>2. Cardinality(P) \in 0 .. n /\ \E p : PicksAt(b, P, p)
      BY <3>1, PickedInOrder
    <3>3. PICK p : PicksAt(b, P, p)
      BY <3>2
    <3> DEFINE m == Cardinality(P)
    <3> HIDE DEF m
    <3>4. m \in Nat /\ p \in [1 .. m -> P] /\ Picked(b, P) = [i \in 1 .. m |-> b[p[i]]]
      BY <3>1, <3>2, <3>3 DEF PicksAt, m
    <3>5. \A i \in 1 .. m : b[p[i]] \in Seq(Nat)
      BY <3>1, <3>4
    <3>6. Picked(b, P) \in Seq(Seq(Nat))
      BY <3>4, <3>5
    <3>7. QED BY <3>6 DEF b
  <2> HIDE DEF lanes, P, ruled
  <2>4. first \in Seq(Seq(Stops))
    <3> DEFINE at(i) == [j \in DOMAIN lanes[i] |-> [id |-> BranchStep(i, j, lanes[i][j]), stage |-> lanes[i][j]]]
    <3>1. \A i \in 1 .. Len(lanes) : at(i) \in Seq(Stops)
      <4>1. \A i \in 1 .. Len(lanes) : lanes[i] \in Seq(Nat) /\ i \in Nat
        BY <2>2
      <4>2. QED BY <4>1, LaneIs
    <3>2. first = [i \in DOMAIN lanes |-> at(i)]
      OBVIOUS
    <3> HIDE DEF at, first
    <3>3. Len(lanes) \in Nat /\ DOMAIN lanes = 1 .. Len(lanes)
      BY <2>2
    <3>4. first \in [1 .. Len(lanes) -> Seq(Stops)]
      BY <3>1, <3>2, <3>3
    <3>5. QED BY <3>3, <3>4, ListIs
  <2>5. rest \in Seq(Seq(Stops))
    <3> DEFINE at(r) == [j \in DOMAIN ruled[r] |-> [id |-> RuleBranchStep(Len(lanes), j, ruled[r][j]), stage |-> ruled[r][j]]]
    <3>1. \A r \in 1 .. Len(ruled) : at(r) \in Seq(Stops)
      <4>1. Len(lanes) \in Nat /\ \A r \in 1 .. Len(ruled) : ruled[r] \in Seq(Nat)
        BY <2>2, <2>3
      <4>2. QED BY <4>1, LaneIs
    <3>2. rest = [r \in DOMAIN ruled |-> at(r)]
      OBVIOUS
    <3> HIDE DEF at, rest
    <3>3. Len(ruled) \in Nat /\ DOMAIN ruled = 1 .. Len(ruled)
      BY <2>3
    <3>4. rest \in [1 .. Len(ruled) -> Seq(Stops)]
      BY <3>1, <3>2, <3>3
    <3>5. QED BY <3>3, <3>4, ListIs
  <2> HIDE DEF first, rest
  <2>6. QED BY <2>1, <2>4, <2>5
<1>5. QED BY <1>2, <1>3, <1>4 DEF Simple

LEMMA LanesAre ==
  ASSUME NEW goal \in PlanningGoals
  PROVE  Lanes(goal) \in Seq(Seq(Stops))
<1>1. Segments(goal) \in Seq(PlanningGoals)
  <2>1. CASE goal.compose = None
    <3> DEFINE n == 3
               names == <<"sequential", "conditional", "branch">>
               f == [i \in DOMAIN names |-> [goal EXCEPT !.strategy = names[i]]]
    <3>1. DOMAIN names = 1 .. 3 /\ \A i \in 1 .. 3 : names[i] \in Strategies
      <4>1. names \in Seq(Strategies) /\ Len(names) = 3
        BY DEF Strategies
      <4> HIDE DEF names
      <4>2. QED BY <4>1
    <3>2. Segments(goal) = f
      BY <2>1 DEF Segments, Mapped
    <3> HIDE DEF names
    <3>3. \A i \in 1 .. 3 : [goal EXCEPT !.strategy = names[i]] \in PlanningGoals
      BY <3>1 DEF PlanningGoals
    <3>4. f \in [1 .. 3 -> PlanningGoals] /\ 3 \in Nat
      BY <3>1, <3>3
    <3> HIDE DEF f
    <3>5. f \in Seq(PlanningGoals)
      BY <3>4, ListIs
    <3>6. QED BY <3>2, <3>5
  <2>2. CASE goal.compose # None
    <3> DEFINE c == goal.compose
               n == Len(c)
               f == [i \in DOMAIN c |-> [goal EXCEPT !.strategy = c[i].strategy, !.steps = c[i].steps]]
    <3>1. c \in Seq([strategy : Strategies, steps : StepLists])
      BY <2>2 DEF PlanningGoals
    <3>2. Segments(goal) = f
      BY <2>2 DEF Segments, Mapped
    <3> HIDE DEF c
    <3>3. n \in Nat /\ DOMAIN c = 1 .. n /\ \A i \in 1 .. n : c[i].strategy \in Strategies /\ c[i].steps \in StepLists
      <4> DEFINE R == [strategy : Strategies, steps : StepLists]
      <4>1. \A x \in R : x.strategy \in Strategies /\ x.steps \in StepLists
        OBVIOUS
      <4>2. c \in Seq(R)
        BY <3>1
      <4> HIDE DEF R
      <4>3. n \in Nat /\ DOMAIN c = 1 .. n /\ \A i \in 1 .. n : c[i] \in R
        BY <4>2
      <4>4. QED BY <4>1, <4>3
    <3>4. \A i \in 1 .. n : [goal EXCEPT !.strategy = c[i].strategy, !.steps = c[i].steps] \in PlanningGoals
      BY <3>3 DEF PlanningGoals
    <3>5. f \in [1 .. n -> PlanningGoals]
      BY <3>3, <3>4
    <3> HIDE DEF f
    <3>6. f \in Seq(PlanningGoals)
      BY <3>3, <3>5, ListIs
    <3>7. QED BY <3>2, <3>6
  <2>3. QED BY <2>1, <2>2
<1>2. Composite(goal) \in Seq(Seq(Stops))
  <2> DEFINE G == Segments(goal)
             m == Len(G)
             parts == [i \in DOMAIN G |-> Joined(Simple(G[i]))]
             J == Joined(parts)
             lane == [j \in DOMAIN J |-> [J[j] EXCEPT !.id = Composed(J[j].id)]]
  <2>1. Composite(goal) = <<lane>>
    BY DEF Composite, Mapped
  <2>2. m \in Nat /\ DOMAIN G = 1 .. m /\ \A i \in 1 .. m : G[i] \in PlanningGoals
    BY <1>1
  <2> HIDE DEF G, m
  <2>3. \A i \in 1 .. m : Joined(Simple(G[i])) \in Seq(Stops)
    BY <2>2, SimpleIs, JoinedIs
  <2>4. parts \in [1 .. m -> Seq(Stops)]
    BY <2>2, <2>3
  <2> HIDE DEF parts
  <2>5. parts \in Seq(Seq(Stops))
    BY <2>2, <2>4, ListIs
  <2>6. J \in Seq(Stops)
    BY <2>5, JoinedIs
  <2> DEFINE k == Len(J)
  <2> HIDE DEF J
  <2>7. k \in Nat /\ DOMAIN J = 1 .. k /\ \A j \in 1 .. k : J[j] \in Stops
    BY <2>6
  <2> HIDE DEF k
  <2>8. \A x \in Stops : [x EXCEPT !.id = Composed(x.id)] \in Stops
    BY StopsAre DEF Stops
  <2>9. lane \in [1 .. k -> Stops]
    BY <2>7, <2>8
  <2> HIDE DEF lane
  <2>10. lane \in Seq(Stops)
    BY <2>7, <2>9, ListIs
  <2>11. QED BY <2>1, <2>10
<1>3. QED BY <1>2, SimpleIs DEF Lanes

-----------------------------------------------------------------------------
(* The workflow of some lanes.                                             *)

LEMMA PreviousIs ==
  ASSUME NEW lane \in Seq(Stops), NEW j \in 1 .. Len(lane) + 1
  PROVE  /\ (j = 1 /\ Previous(lane, j) = Entry) \/ (j # 1 /\ j - 1 \in DOMAIN lane /\ Previous(lane, j) = lane[j - 1].id)
         /\ Previous(lane, j) \in {Entry} \cup {lane[i].id : i \in DOMAIN lane}
         /\ Previous(lane, j) \in Seq(Nat)
<1>1. Len(lane) \in Nat /\ DOMAIN lane = 1 .. Len(lane) /\ \A i \in DOMAIN lane : lane[i].id \in Seq(Nat)
  <2>1. \A x \in Stops : x.id \in Seq(Nat)
    BY DEF Stops
  <2>2. QED BY <2>1
<1>2. j = 1 \/ j - 1 \in DOMAIN lane
  BY <1>1
<1>3. (j = 1 /\ Previous(lane, j) = Entry) \/ (j # 1 /\ j - 1 \in DOMAIN lane /\ Previous(lane, j) = lane[j - 1].id)
  BY <1>2 DEF Previous
<1>4. Entry \in Seq(Nat)
  BY DEF Entry
<1>5. QED BY <1>1, <1>3, <1>4

\* The nodes of the lanes, and of the workflow.
StopIds(lanes) == {lanes[q[1]][q[2]].id : q \in Places(lanes, Len(lanes))}

LEMMA PlacesAre ==
  ASSUME NEW lanes \in Seq(Seq(Stops))
  PROVE  /\ \A q \in Places(lanes, Len(lanes)) : /\ q[1] \in DOMAIN lanes /\ q[2] \in DOMAIN lanes[q[1]]
                                                 /\ q = <<q[1], q[2]>>
                                                 /\ lanes[q[1]][q[2]] \in Stops
         /\ \A i \in DOMAIN lanes : /\ lanes[i] \in Seq(Stops)
                                    /\ \A j \in DOMAIN lanes[i] : /\ <<i, j>> \in Places(lanes, Len(lanes))
                                                                  /\ lanes[i][j].id \in StopIds(lanes)
         /\ StopIds(lanes) \subseteq Seq(Nat) /\ Entry \notin StopIds(lanes) /\ Exit \notin StopIds(lanes)
<1>1. Len(lanes) \in Nat /\ DOMAIN lanes = 1 .. Len(lanes) /\ \A i \in 1 .. Len(lanes) : lanes[i] \in Seq(Stops)
  OBVIOUS
<1>2. \A i \in 1 .. Len(lanes) : \A j \in DOMAIN lanes[i] : lanes[i][j] \in Stops /\ j \in Nat
  BY <1>1
<1>3. \A q \in Places(lanes, Len(lanes)) : /\ q[1] \in 1 .. Len(lanes) /\ q[2] \in DOMAIN lanes[q[1]]
                                           /\ q = <<q[1], q[2]>>
  BY DEF Places
<1>4. \A i \in 1 .. Len(lanes) : \A j \in DOMAIN lanes[i] : <<i, j>> \in Places(lanes, Len(lanes))
  BY <1>2 DEF Places
<1>5. \A i \in 1 .. Len(lanes) : \A j \in DOMAIN lanes[i] : lanes[i][j].id \in StopIds(lanes)
  <2> TAKE i \in 1 .. Len(lanes)
  <2> TAKE j \in DOMAIN lanes[i]
  <2> DEFINE q == <<i, j>>
  <2>1. q \in Places(lanes, Len(lanes)) /\ q[1] = i /\ q[2] = j
    BY <1>4
  <2> HIDE DEF q
  <2>2. QED BY <2>1 DEF StopIds
<1>6. \A x \in Stops : x.id \in Seq(Nat) /\ x.id # Entry /\ x.id # Exit
  BY DEF Stops
<1>7. StopIds(lanes) \subseteq Seq(Nat) /\ Entry \notin StopIds(lanes) /\ Exit \notin StopIds(lanes)
  BY <1>2, <1>3, <1>6 DEF StopIds
<1>8. QED BY <1>1, <1>2, <1>3, <1>4, <1>5, <1>7

AreNodesOf(lanes, all) ==
  /\ all \in Seq(Seq(WorkflowNodes)) /\ Len(all) = Len(lanes)
  /\ Places(all, Len(lanes)) = Places(lanes, Len(lanes))
  /\ \A i \in DOMAIN lanes : \A j \in DOMAIN lanes[i] :
       all[i][j] = [id |-> lanes[i][j].id, type |-> "stage", stage |-> lanes[i][j].stage,
                    dependencies |-> {Previous(lanes[i], j)}]

LEMMA LaneNodesAre ==
  ASSUME NEW lanes \in Seq(Seq(Stops)), NEW all, all = [i \in DOMAIN lanes |-> LaneNodes(lanes[i])]
  PROVE  AreNodesOf(lanes, all)
<1>1. Len(lanes) \in Nat /\ DOMAIN lanes = 1 .. Len(lanes) /\ \A i \in 1 .. Len(lanes) : lanes[i] \in Seq(Stops)
  OBVIOUS
<1>2. ASSUME NEW lane \in Seq(Stops)
      PROVE  LaneNodes(lane) \in Seq(WorkflowNodes) /\ DOMAIN LaneNodes(lane) = DOMAIN lane
  <2> DEFINE n == Len(lane)
             at(j) == [id |-> lane[j].id, type |-> "stage", stage |-> lane[j].stage, dependencies |-> {Previous(lane, j)}]
  <2>1. n \in Nat /\ DOMAIN lane = 1 .. n /\ \A j \in 1 .. n : lane[j] \in Stops /\ j \in 1 .. n + 1
    OBVIOUS
  <2>2. \A j \in 1 .. n : Previous(lane, j) \in Seq(Nat)
    BY <2>1, PreviousIs
  <2>3. \A j \in 1 .. n : lane[j].id \in Seq(Nat) /\ lane[j].stage \in Nat
    BY <2>1 DEF Stops
  <2>4. \A j \in 1 .. n : at(j) \in WorkflowNodes
    <3> TAKE j \in 1 .. n
    <3>1. lane[j].id \in Seq(Nat) /\ lane[j].stage \in Nat \cup {None} /\ {Previous(lane, j)} \in SUBSET Seq(Nat)
      BY <2>2, <2>3
    <3>2. QED BY <3>1 DEF WorkflowNodes
  <2>5. LaneNodes(lane) = [j \in 1 .. n |-> at(j)]
    BY <2>1 DEF LaneNodes
  <2> HIDE DEF at, n
  <2>6. LaneNodes(lane) \in [1 .. n -> WorkflowNodes]
    BY <2>4, <2>5
  <2>7. QED BY <2>1, <2>6, ListIs
<1>3. all \in [1 .. Len(lanes) -> Seq(WorkflowNodes)]
  BY <1>1, <1>2
<1>4. all \in Seq(Seq(WorkflowNodes)) /\ Len(all) = Len(lanes)
  BY <1>1, <1>3, ListIs
<1>5. \A i \in 1 .. Len(lanes) : DOMAIN all[i] = DOMAIN lanes[i]
  BY <1>1, <1>2
<1>6. Places(all, Len(lanes)) = Places(lanes, Len(lanes))
  BY <1>5 DEF Places
<1>7. \A i \in DOMAIN lanes : \A j \in DOMAIN lanes[i] :
         all[i][j] = [id |-> lanes[i][j].id, type |-> "stage", stage |-> lanes[i][j].stage,
                      dependencies |-> {Previous(lanes[i], j)}]
  BY DEF LaneNodes
<1>8. QED BY <1>4, <1>6, <1>7 DEF AreNodesOf

LEMMA EdgesAre ==
  ASSUME NEW lanes \in Seq(Seq(Stops)), NEW d, d = Workflow(lanes)
  PROVE  /\ IsFiniteSet(d.edges)
         /\ \A e \in d.edges :
              /\ e.id = <<e.from, e.to>> /\ e = Edge(e.from, e.to)
              /\ \E i \in DOMAIN lanes :
                   \/ e.from = Previous(lanes[i], Len(lanes[i]) + 1) /\ e.to = Exit
                   \/ \E j \in DOMAIN lanes[i] : e.from = Previous(lanes[i], j) /\ e.to = lanes[i][j].id
         /\ \A i \in DOMAIN lanes :
              /\ Edge(Previous(lanes[i], Len(lanes[i]) + 1), Exit) \in d.edges
              /\ \A j \in DOMAIN lanes[i] : Edge(Previous(lanes[i], j), lanes[i][j].id) \in d.edges
<1> DEFINE of == [i \in DOMAIN lanes |-> LaneEdges(lanes[i])]
           sets == {LaneEdges(lanes[i]) : i \in DOMAIN lanes}
<1>1. d.edges = UNION sets
  BY DEF Workflow
<1>2. ASSUME NEW lane \in Seq(Stops) PROVE IsFiniteSet(LaneEdges(lane))
  <2> DEFINE f(j) == Edge(Previous(lane, j), lane[j].id)
             g == [j \in DOMAIN lane |-> f(j)]
             S == {f(j) : j \in DOMAIN lane}
             last == Edge(Previous(lane, Len(lane) + 1), Exit)
  <2>1. DOMAIN lane = 1 .. Len(lane) /\ Len(lane) \in Nat
    OBVIOUS
  <2>2. IsFiniteSet(DOMAIN lane)
    BY <2>1, FS_Interval
  <2>3. g \in Surjection(DOMAIN lane, S)
    <3> HIDE DEF f
    <3> QED BY DEF Surjection
  <2>4. LaneEdges(lane) = S \cup {last}
    BY DEF LaneEdges
  <2> HIDE DEF g, S, last
  <2>5. IsFiniteSet(S)
    BY <2>2, <2>3, FS_Surjection
  <2>6. QED BY <2>4, <2>5, FS_AddElement
<1>3. IsFiniteSet(UNION sets)
  <2>1. DOMAIN lanes = 1 .. Len(lanes) /\ Len(lanes) \in Nat /\ \A i \in DOMAIN lanes : lanes[i] \in Seq(Stops)
    OBVIOUS
  <2>2. IsFiniteSet(DOMAIN lanes)
    BY <2>1, FS_Interval
  <2>3. of \in Surjection(DOMAIN lanes, sets)
    BY DEF Surjection
  <2>4. \A S \in sets : IsFiniteSet(S)
    BY <1>2, <2>1
  <2> HIDE DEF of, sets
  <2>5. IsFiniteSet(sets)
    BY <2>2, <2>3, FS_Surjection
  <2>6. QED BY <2>4, <2>5, FS_UNION
<1>4. \A a, b : Edge(a, b).id = <<a, b>> /\ Edge(a, b).from = a /\ Edge(a, b).to = b
  BY DEF Edge
<1>5. \A i \in DOMAIN lanes : \A e \in LaneEdges(lanes[i]) :
         \/ e = Edge(Previous(lanes[i], Len(lanes[i]) + 1), Exit)
         \/ \E j \in DOMAIN lanes[i] : e = Edge(Previous(lanes[i], j), lanes[i][j].id)
  BY DEF LaneEdges
<1>6. \A i \in DOMAIN lanes :
         /\ Edge(Previous(lanes[i], Len(lanes[i]) + 1), Exit) \in LaneEdges(lanes[i])
         /\ \A j \in DOMAIN lanes[i] : Edge(Previous(lanes[i], j), lanes[i][j].id) \in LaneEdges(lanes[i])
  BY DEF LaneEdges
<1>7. ASSUME NEW e \in d.edges
      PROVE  /\ e.id = <<e.from, e.to>> /\ e = Edge(e.from, e.to)
             /\ \E i \in DOMAIN lanes :
                   \/ e.from = Previous(lanes[i], Len(lanes[i]) + 1) /\ e.to = Exit
                   \/ \E j \in DOMAIN lanes[i] : e.from = Previous(lanes[i], j) /\ e.to = lanes[i][j].id
  <2>1. PICK i \in DOMAIN lanes : e \in LaneEdges(lanes[i])
    BY <1>1
  <2>2. CASE e = Edge(Previous(lanes[i], Len(lanes[i]) + 1), Exit)
    BY <1>4, <2>2
  <2>3. ASSUME NEW j \in DOMAIN lanes[i], e = Edge(Previous(lanes[i], j), lanes[i][j].id)
        PROVE  /\ e.id = <<e.from, e.to>> /\ e = Edge(e.from, e.to)
               /\ e.from = Previous(lanes[i], j) /\ e.to = lanes[i][j].id
    BY <1>4, <2>3
  <2>4. QED BY <1>5, <2>1, <2>2, <2>3
<1>8. QED BY <1>1, <1>3, <1>6, <1>7

\* The node laid at a place.
StopNode(lanes, q) ==
  [id |-> lanes[q[1]][q[2]].id, type |-> "stage", stage |-> lanes[q[1]][q[2]].stage,
   dependencies |-> {Previous(lanes[q[1]], q[2])}]
\* Two terminals, then one node for each place.
LaidOut(lanes, d, at) ==
  /\ d.nodes \in Seq(WorkflowNodes) /\ Len(d.nodes) >= 2
  /\ d.nodes[1] = Terminal(Entry, "entry") /\ d.nodes[2] = Terminal(Exit, "exit")
  /\ at \in [Places(lanes, Len(lanes)) -> 1 .. Len(d.nodes) - 2]
  /\ \A q \in Places(lanes, Len(lanes)) : d.nodes[at[q] + 2] = StopNode(lanes, q)
  /\ \A i \in 1 .. Len(d.nodes) - 2 : \E q \in Places(lanes, Len(lanes)) : at[q] = i

(* Two elements before a list.                                             *)
LEMMA TwoBefore ==
  ASSUME NEW S, NEW a \in S, NEW b \in S, NEW s \in Seq(S)
  PROVE  /\ <<a, b>> \o s \in Seq(S) /\ Len(<<a, b>> \o s) = Len(s) + 2 /\ Len(s) \in Nat
         /\ (<<a, b>> \o s)[1] = a /\ (<<a, b>> \o s)[2] = b
         /\ \A i \in 1 .. Len(s) : (<<a, b>> \o s)[i + 2] = s[i]
OBVIOUS

LEMMA NodesAreLaidOut ==
  ASSUME NEW lanes \in Seq(Seq(Stops)), NEW d, d = Workflow(lanes)
  PROVE  Graph(d) /\ d.entry = Entry /\ d.exit = Exit /\ \E at : LaidOut(lanes, d, at)
<1> DEFINE all == [i \in DOMAIN lanes |-> LaneNodes(lanes[i])]
           K == Joined(all)
           n == Len(lanes)
           P == Places(lanes, n)
           ends == <<Terminal(Entry, "entry"), Terminal(Exit, "exit")>>
<1>1. d.nodes = ends \o K /\ d.entry = Entry /\ d.exit = Exit
  BY DEF Workflow, Mapped
<1>2. /\ all \in Seq(Seq(WorkflowNodes)) /\ Len(all) = n /\ Places(all, n) = P
      /\ \A i \in DOMAIN lanes : \A j \in DOMAIN lanes[i] :
           all[i][j] = [id |-> lanes[i][j].id, type |-> "stage", stage |-> lanes[i][j].stage,
                        dependencies |-> {Previous(lanes[i], j)}]
  <2>1. all = [i \in DOMAIN lanes |-> LaneNodes(lanes[i])]
    OBVIOUS
  <2> HIDE DEF all
  <2>2. AreNodesOf(lanes, all)
    BY <2>1, LaneNodesAre
  <2>3. QED BY <2>2 DEF AreNodesOf
<1> HIDE DEF all
<1>3. K \in Seq(WorkflowNodes) /\ \E at : JoinsAt(all, n, K, at)
  <2>1. K \in Seq(WorkflowNodes) /\ \E at : JoinsAt(all, Len(all), K, at)
    BY <1>2, JoinedIs
  <2>2. QED BY <1>2, <2>1
<1> HIDE DEF K
<1>4. PICK at : JoinsAt(all, n, K, at)
  BY <1>3
<1>5. /\ at \in [P -> 1 .. Len(K)]
      /\ \A q \in P : K[at[q]] = all[q[1]][q[2]]
      /\ \A i \in 1 .. Len(K) : \E q \in P : at[q] = i
  BY <1>2, <1>4 DEF JoinsAt
<1>6. \A q \in P : q[1] \in DOMAIN lanes /\ q[2] \in DOMAIN lanes[q[1]]
  BY PlacesAre
<1>7. \A q \in P : K[at[q]] = StopNode(lanes, q)
  BY <1>2, <1>5, <1>6 DEF StopNode
<1>8. Terminal(Entry, "entry") \in WorkflowNodes /\ Terminal(Exit, "exit") \in WorkflowNodes
  <2>1. Entry \in Seq(Nat) /\ Exit \in Seq(Nat)
    BY DEF Entry, Exit
  <2>2. QED BY <2>1 DEF Terminal, WorkflowNodes
<1> HIDE DEF n, P
<1>9. /\ d.nodes \in Seq(WorkflowNodes) /\ Len(d.nodes) = Len(K) + 2 /\ Len(K) \in Nat
      /\ d.nodes[1] = Terminal(Entry, "entry") /\ d.nodes[2] = Terminal(Exit, "exit")
      /\ \A i \in 1 .. Len(K) : d.nodes[i + 2] = K[i]
  <2> DEFINE a == Terminal(Entry, "entry")
             b == Terminal(Exit, "exit")
  <2>1. d.nodes = <<a, b>> \o K /\ a \in WorkflowNodes /\ b \in WorkflowNodes
    BY <1>1, <1>8
  <2> HIDE DEF a, b
  <2>2. /\ <<a, b>> \o K \in Seq(WorkflowNodes) /\ Len(<<a, b>> \o K) = Len(K) + 2 /\ Len(K) \in Nat
        /\ (<<a, b>> \o K)[1] = a /\ (<<a, b>> \o K)[2] = b
        /\ \A i \in 1 .. Len(K) : (<<a, b>> \o K)[i + 2] = K[i]
    BY <1>3, <2>1, TwoBefore
  <2>3. QED BY <2>1, <2>2 DEF a, b
<1>10. Len(d.nodes) - 2 = Len(K) /\ Len(d.nodes) >= 2
  BY <1>9
<1>11. \A q \in P : at[q] \in 1 .. Len(K)
  BY <1>5
<1>12. LaidOut(lanes, d, at)
  BY <1>5, <1>7, <1>8, <1>9, <1>10, <1>11 DEF LaidOut, n, P
<1>13. Graph(d)
  BY <1>9, EdgesAre DEF Graph
<1>14. QED BY <1>1, <1>12, <1>13

LEMMA WorkflowIdsAre ==
  ASSUME NEW lanes \in Seq(Seq(Stops)), NEW d, d = Workflow(lanes), NEW at, LaidOut(lanes, d, at)
  PROVE  /\ Ids(d) = {Entry, Exit} \cup StopIds(lanes) /\ Entry # Exit
         /\ \A i \in DOMAIN d.nodes : \/ i = 1 /\ d.nodes[i] = Terminal(Entry, "entry")
                                      \/ i = 2 /\ d.nodes[i] = Terminal(Exit, "exit")
                                      \/ \E q \in Places(lanes, Len(lanes)) : i = at[q] + 2 /\ d.nodes[i] = StopNode(lanes, q)
<1> DEFINE P == Places(lanes, Len(lanes))
           m == Len(d.nodes)
<1>1. DOMAIN d.nodes = 1 .. m /\ m \in Nat /\ m >= 2
  BY DEF LaidOut
<1>2. ASSUME NEW i \in 1 .. m
      PROVE  \/ i = 1 /\ d.nodes[i] = Terminal(Entry, "entry")
             \/ i = 2 /\ d.nodes[i] = Terminal(Exit, "exit")
             \/ \E q \in P : i = at[q] + 2 /\ d.nodes[i] = StopNode(lanes, q)
  <2>1. i = 1 \/ i = 2 \/ (i - 2 \in 1 .. m - 2 /\ i = (i - 2) + 2)
    BY <1>1
  <2>2. ASSUME i - 2 \in 1 .. m - 2, i = (i - 2) + 2 PROVE \E q \in P : i = at[q] + 2 /\ d.nodes[i] = StopNode(lanes, q)
    <3>1. PICK q \in P : at[q] = i - 2
      BY <2>2 DEF LaidOut
    <3>2. d.nodes[at[q] + 2] = StopNode(lanes, q)
      BY DEF LaidOut
    <3>3. i = at[q] + 2
      BY <2>2, <3>1
    <3>4. QED BY <3>2, <3>3
  <2>3. QED BY <2>1, <2>2 DEF LaidOut
<1>3. Ids(d) \subseteq {Entry, Exit} \cup StopIds(lanes)
  <2> SUFFICES ASSUME NEW i \in 1 .. m PROVE d.nodes[i].id \in {Entry, Exit} \cup StopIds(lanes)
    BY <1>1 DEF Ids
  <2>1. /\ Terminal(Entry, "entry").id = Entry /\ Terminal(Exit, "exit").id = Exit
        /\ \A q \in P : StopNode(lanes, q).id \in StopIds(lanes)
    BY DEF Terminal, StopNode, StopIds
  <2>2. QED BY <1>2, <2>1
<1>4. Entry \in Ids(d) /\ Exit \in Ids(d)
  <2>1. 1 \in DOMAIN d.nodes /\ 2 \in DOMAIN d.nodes
    BY <1>1
  <2>2. d.nodes[1].id = Entry /\ d.nodes[2].id = Exit
    BY DEF LaidOut, Terminal
  <2>3. QED BY <2>1, <2>2 DEF Ids
<1>5. StopIds(lanes) \subseteq Ids(d)
  <2> SUFFICES ASSUME NEW q \in P PROVE lanes[q[1]][q[2]].id \in Ids(d)
    BY DEF StopIds
  <2>1. at[q] + 2 \in DOMAIN d.nodes /\ d.nodes[at[q] + 2] = StopNode(lanes, q)
    <3>1. at[q] \in 1 .. m - 2
      BY DEF LaidOut
    <3>2. QED BY <1>1, <3>1 DEF LaidOut
  <2>2. StopNode(lanes, q).id = lanes[q[1]][q[2]].id
    BY DEF StopNode
  <2>3. QED BY <2>1, <2>2 DEF Ids
<1>6. Entry # Exit
  <2>1. Entry[1] = 2 /\ Exit[1] = 3
    BY DEF Entry, Exit
  <2>2. QED BY <2>1
<1>7. QED BY <1>1, <1>2, <1>3, <1>4, <1>5, <1>6

LEMMA StopsAreDistinct ==
  ASSUME NEW lanes \in Seq(Seq(Stops)), ~BuilderThrows(lanes)
  PROVE  /\ \A q, r \in Places(lanes, Len(lanes)) : lanes[q[1]][q[2]].id = lanes[r[1]][r[2]].id => q = r
         /\ IsFiniteSet(StopIds(lanes)) /\ Cardinality(StopIds(lanes)) = Len(Joined(lanes)) /\ Len(Joined(lanes)) \in Nat
<1> DEFINE J == Joined(lanes)
           n == Len(lanes)
           m == Len(J)
           P == Places(lanes, n)
           ids == [i \in 1 .. m |-> J[i].id]
<1>1. J \in Seq(Stops) /\ \E at : JoinsAt(lanes, n, J, at)
  BY JoinedIs
<1>2. PICK at : JoinsAt(lanes, n, J, at)
  BY <1>1
<1>3. /\ at \in [P -> 1 .. m]
      /\ \A q \in P : J[at[q]] = lanes[q[1]][q[2]]
      /\ \A q, r \in P : at[q] = at[r] => q = r
      /\ \A i \in 1 .. m : \E q \in P : at[q] = i
  BY <1>2 DEF JoinsAt
<1>4. NoRepeats([i \in DOMAIN J |-> J[i].id])
  BY DEF BuilderThrows, Mapped
<1>5. m \in Nat /\ DOMAIN J = 1 .. m
  BY <1>1
<1> HIDE DEF m, J, P, n
<1>6. \A i, j \in 1 .. m : J[i].id = J[j].id => i = j
  BY <1>4, <1>5 DEF NoRepeats
<1>7. ASSUME NEW q \in P, NEW r \in P, lanes[q[1]][q[2]].id = lanes[r[1]][r[2]].id PROVE q = r
  <2>1. at[q] \in 1 .. m /\ at[r] \in 1 .. m /\ J[at[q]].id = J[at[r]].id
    BY <1>3, <1>7
  <2>2. at[q] = at[r]
    BY <1>6, <2>1
  <2>3. QED BY <1>3, <2>2
<1>8. ValuesOf(ids, m) = StopIds(lanes)
  <2>1. ValuesOf(ids, m) = {J[i].id : i \in 1 .. m}
    BY DEF ValuesOf
  <2>2. StopIds(lanes) = {lanes[q[1]][q[2]].id : q \in P}
    BY DEF StopIds, P, n
  <2>3. \A q \in P : at[q] \in 1 .. m /\ J[at[q]].id = lanes[q[1]][q[2]].id
    BY <1>3
  <2>4. \A i \in 1 .. m : \E q \in P : J[i].id = lanes[q[1]][q[2]].id
    BY <1>3
  <2>5. StopIds(lanes) \subseteq ValuesOf(ids, m)
    BY <2>1, <2>2, <2>3
  <2>6. ValuesOf(ids, m) \subseteq StopIds(lanes)
    BY <2>1, <2>2, <2>4
  <2>7. QED BY <2>5, <2>6
<1>9. ids \in [1 .. m -> {J[i].id : i \in 1 .. m}] /\ \A i, j \in 1 .. m : ids[i] = ids[j] => i = j
  BY <1>6
<1> DEFINE V == {J[i].id : i \in 1 .. m}
<1> HIDE DEF ids
<1>10. ids \in [1 .. m -> V]
  BY <1>9
<1> HIDE DEF V
<1>11. IsFiniteSet(ValuesOf(ids, m)) /\ Cardinality(ValuesOf(ids, m)) = m
  BY <1>5, <1>9, <1>10, Values
<1>12. QED BY <1>5, <1>7, <1>8, <1>11 DEF P, n, m, J

LEMMA WorkflowNamesAre ==
  ASSUME NEW lanes \in Seq(Seq(Stops)), ~BuilderThrows(lanes), NEW d, d = Workflow(lanes)
  PROVE  /\ Graph(d) /\ NamesAreSound(d) /\ d.entry = Entry /\ d.exit = Exit
         /\ Ids(d) = {Entry, Exit} \cup StopIds(lanes) /\ Entry # Exit
         /\ \A n \in Ids(d) : NodeOf(d, n).type \notin {"entry", "exit"} <=> n \in StopIds(lanes)
<1> DEFINE P == Places(lanes, Len(lanes))
<1>1. Graph(d) /\ d.entry = Entry /\ d.exit = Exit /\ \E at : LaidOut(lanes, d, at)
  BY NodesAreLaidOut
<1>2. PICK at : LaidOut(lanes, d, at)
  BY <1>1
<1>3. /\ Ids(d) = {Entry, Exit} \cup StopIds(lanes) /\ Entry # Exit
      /\ \A i \in DOMAIN d.nodes : \/ i = 1 /\ d.nodes[i] = Terminal(Entry, "entry")
                                   \/ i = 2 /\ d.nodes[i] = Terminal(Exit, "exit")
                                   \/ \E q \in P : i = at[q] + 2 /\ d.nodes[i] = StopNode(lanes, q)
  BY <1>2, WorkflowIdsAre
<1>4. Entry \notin StopIds(lanes) /\ Exit \notin StopIds(lanes)
  BY PlacesAre
<1>5. \A q \in P : StopNode(lanes, q).id \in StopIds(lanes) /\ StopNode(lanes, q).type = "stage"
                   /\ StopNode(lanes, q).id = lanes[q[1]][q[2]].id
                   /\ StopNode(lanes, q).dependencies = {Previous(lanes[q[1]], q[2])}
  BY DEF StopNode, StopIds
<1>6. /\ Terminal(Entry, "entry").id = Entry /\ Terminal(Entry, "entry").type = "entry" /\ Terminal(Entry, "entry").dependencies = {}
      /\ Terminal(Exit, "exit").id = Exit /\ Terminal(Exit, "exit").type = "exit" /\ Terminal(Exit, "exit").dependencies = {}
  BY DEF Terminal
<1>7. \A i \in DOMAIN d.nodes : \A j \in DOMAIN d.nodes : d.nodes[i].id = d.nodes[j].id => i = j
  <2> SUFFICES ASSUME NEW i \in DOMAIN d.nodes, NEW j \in DOMAIN d.nodes, d.nodes[i].id = d.nodes[j].id PROVE i = j
    OBVIOUS
  <2>1. ASSUME NEW q \in P, i = at[q] + 2, d.nodes[i] = StopNode(lanes, q),
               NEW r \in P, j = at[r] + 2, d.nodes[j] = StopNode(lanes, r)
        PROVE  i = j
    <3>1. q = r
      BY <1>5, <2>1, StopsAreDistinct
    <3>2. QED BY <2>1, <3>1
  <2>2. QED BY <1>3, <1>4, <1>5, <1>6, <2>1
<1>8. \A i \in DOMAIN d.nodes : d.nodes[i].dependencies \subseteq Ids(d)
  <2>1. ASSUME NEW q \in P PROVE Previous(lanes[q[1]], q[2]) \in Ids(d)
    <3>1. q[1] \in DOMAIN lanes /\ q[2] \in DOMAIN lanes[q[1]] /\ lanes[q[1]] \in Seq(Stops)
      BY PlacesAre
    <3>2. q[2] \in 1 .. Len(lanes[q[1]]) + 1
      BY <3>1
    <3>3. Previous(lanes[q[1]], q[2]) \in {Entry} \cup {lanes[q[1]][i].id : i \in DOMAIN lanes[q[1]]}
      <4> DEFINE lane == lanes[q[1]]
                 j == q[2]
      <4>1. lane \in Seq(Stops) /\ j \in 1 .. Len(lane) + 1
        BY <3>1, <3>2
      <4> HIDE DEF lane, j
      <4>2. Previous(lane, j) \in {Entry} \cup {lane[i].id : i \in DOMAIN lane}
        BY <4>1, PreviousIs
      <4>3. QED BY <4>2 DEF lane, j
    <3>4. \A i \in DOMAIN lanes[q[1]] : lanes[q[1]][i].id \in StopIds(lanes)
      BY <3>1, PlacesAre
    <3>5. QED BY <1>3, <3>3, <3>4
  <2> TAKE i \in DOMAIN d.nodes
  <2>2. CASE d.nodes[i] \in {Terminal(Entry, "entry"), Terminal(Exit, "exit")}
    BY <1>6, <2>2
  <2>3. ASSUME NEW q \in P, d.nodes[i] = StopNode(lanes, q) PROVE d.nodes[i].dependencies \subseteq Ids(d)
    BY <1>5, <2>1, <2>3
  <2>4. QED BY <1>3, <2>2, <2>3
<1>9. \A e \in d.edges : e.from \in Ids(d) /\ e.to \in Ids(d)
  <2> TAKE e \in d.edges
  <2>1. PICK i \in DOMAIN lanes : \/ e.from = Previous(lanes[i], Len(lanes[i]) + 1) /\ e.to = Exit
                                  \/ \E j \in DOMAIN lanes[i] : e.from = Previous(lanes[i], j) /\ e.to = lanes[i][j].id
    BY EdgesAre
  <2>2. lanes[i] \in Seq(Stops) /\ \A j \in DOMAIN lanes[i] : lanes[i][j].id \in StopIds(lanes)
    BY PlacesAre
  <2>3. \A j \in 1 .. Len(lanes[i]) + 1 : Previous(lanes[i], j) \in Ids(d)
    <3> DEFINE lane == lanes[i]
    <3>1. lane \in Seq(Stops)
      BY <2>2
    <3>2. \A j \in DOMAIN lane : lane[j].id \in Ids(d)
      BY <1>3, <2>2
    <3> HIDE DEF lane
    <3>3. \A j \in 1 .. Len(lane) + 1 : Previous(lane, j) \in Ids(d)
      <4> TAKE j \in 1 .. Len(lane) + 1
      <4>1. Previous(lane, j) \in {Entry} \cup {lane[h].id : h \in DOMAIN lane}
        BY <3>1, PreviousIs
      <4>2. QED BY <1>3, <3>2, <4>1
    <3>4. QED BY <3>3 DEF lane
  <2>4. Len(lanes[i]) + 1 \in 1 .. Len(lanes[i]) + 1 /\ \A j \in DOMAIN lanes[i] : j \in 1 .. Len(lanes[i]) + 1
    BY <2>2
  <2>5. QED BY <1>3, <2>1, <2>2, <2>3, <2>4
<1>10. \A e, f \in d.edges : e.id = f.id => e = f
  <2>1. \A e \in d.edges : e.id = <<e.from, e.to>> /\ e = Edge(e.from, e.to)
    BY EdgesAre
  <2>2. \A a, b, x, y : <<a, b>> = <<x, y>> => a = x /\ b = y
    OBVIOUS
  <2>3. QED BY <2>1, <2>2
<1>11. NamesAreSound(d)
  <2>1. NoRepeats([i \in DOMAIN d.nodes |-> d.nodes[i].id])
    BY <1>7 DEF NoRepeats
  <2>2. NoRepeats(Mapped(LAMBDA n : n.id, d.nodes))
    BY <2>1 DEF Mapped
  <2>3. QED BY <1>1, <1>3, <1>8, <1>9, <1>10, <2>2 DEF NamesAreSound
<1>12. ASSUME NEW n \in Ids(d) PROVE NodeOf(d, n).type \notin {"entry", "exit"} <=> n \in StopIds(lanes)
  <2>1. \E i \in DOMAIN d.nodes : d.nodes[i].id = n
    BY DEF Ids
  <2> DEFINE c == CHOOSE i \in DOMAIN d.nodes : d.nodes[i].id = n
  <2>2. c \in DOMAIN d.nodes /\ d.nodes[c].id = n
    BY <2>1
  <2>3. NodeOf(d, n) = d.nodes[c]
    BY DEF NodeOf
  <2> HIDE DEF c
  <2>4. QED BY <1>3, <1>4, <1>5, <1>6, <2>2, <2>3
<1>13. QED BY <1>1, <1>3, <1>11, <1>12

(* A lane is a chain from entry to exit.                                   *)
LEMMA LaneIsChain ==
  ASSUME NEW lanes \in Seq(Seq(Stops)), NEW d, d = Workflow(lanes), NEW i \in DOMAIN lanes
  PROVE  /\ Len(lanes[i]) \in Nat /\ Previous(lanes[i], 1) = Entry
         /\ \A j \in 1 .. Len(lanes[i]) :
              /\ Previous(lanes[i], j + 1) = lanes[i][j].id
              /\ Edge(Previous(lanes[i], j), Previous(lanes[i], j + 1)) \in d.edges
         /\ Edge(Previous(lanes[i], Len(lanes[i]) + 1), Exit) \in d.edges
<1>1. lanes[i] \in Seq(Stops)
  OBVIOUS
<1>2. Len(lanes[i]) \in Nat /\ DOMAIN lanes[i] = 1 .. Len(lanes[i])
  BY <1>1
<1>3. \A j \in 1 .. Len(lanes[i]) : j + 1 \in 1 .. Len(lanes[i]) + 1 /\ j + 1 # 1 /\ (j + 1) - 1 = j
  BY <1>2
<1>4. \A j \in 1 .. Len(lanes[i]) : Previous(lanes[i], j + 1) = lanes[i][j].id
  <2> TAKE j \in 1 .. Len(lanes[i])
  <2>1. j + 1 # 1 /\ (j + 1) - 1 = j
    BY <1>3
  <2>2. QED BY <2>1 DEF Previous
<1>5. Previous(lanes[i], 1) = Entry
  BY DEF Previous
<1>6. /\ Edge(Previous(lanes[i], Len(lanes[i]) + 1), Exit) \in d.edges
      /\ \A j \in DOMAIN lanes[i] : Edge(Previous(lanes[i], j), lanes[i][j].id) \in d.edges
  BY EdgesAre
<1>7. QED BY <1>2, <1>4, <1>5, <1>6

LEMMA EdgeIs ==
  ASSUME NEW a, NEW b
  PROVE  Edge(a, b).from = a /\ Edge(a, b).to = b
BY DEF Edge

(* No node of a workflow waits for itself.                                 *)
LEMMA NoCircles ==
  ASSUME NEW lanes \in Seq(Seq(Stops)), ~BuilderThrows(lanes), NEW d, d = Workflow(lanes),
         NEW S \in SUBSET Ids(d), Circular(d, S)
  PROVE  FALSE
<1> DEFINE P == Places(lanes, Len(lanes))
<1>1. S # {} /\ \A n \in S : \E e \in d.edges : e.to = n /\ e.from \in S
  BY DEF Circular, EdgesInto
<1>2. \A e \in d.edges : \E i \in DOMAIN lanes :
         \/ e.from = Previous(lanes[i], Len(lanes[i]) + 1) /\ e.to = Exit
         \/ \E j \in DOMAIN lanes[i] : e.from = Previous(lanes[i], j) /\ e.to = lanes[i][j].id
  BY EdgesAre
<1>3. /\ Ids(d) = {Entry, Exit} \cup StopIds(lanes) /\ Entry # Exit
      /\ Entry \notin StopIds(lanes) /\ Exit \notin StopIds(lanes)
  BY WorkflowNamesAre, PlacesAre
<1>4. \A i \in DOMAIN lanes : /\ lanes[i] \in Seq(Stops)
                              /\ \A j \in DOMAIN lanes[i] : <<i, j>> \in P /\ lanes[i][j].id \in StopIds(lanes)
  BY PlacesAre
<1>5. Entry \notin S
  <2> SUFFICES ASSUME Entry \in S PROVE FALSE
    OBVIOUS
  <2>1. PICK e \in d.edges : e.to = Entry
    BY <1>1
  <2>2. QED BY <1>2, <1>3, <1>4, <2>1
<1>6. \A q \in P : lanes[q[1]][q[2]].id \notin S
  <2> DEFINE T == {j \in Nat : \E i \in DOMAIN lanes : j \in DOMAIN lanes[i] /\ lanes[i][j].id \in S}
  <2>1. ASSUME T # {} PROVE FALSE
    <3>1. T \subseteq Nat
      OBVIOUS
    <3> HIDE DEF T
    <3>2. PICK j \in T : \A k \in T : j <= k
      BY <2>1, <3>1, SmallestNumber
    <3>3. PICK i \in DOMAIN lanes : j \in DOMAIN lanes[i] /\ lanes[i][j].id \in S
      BY DEF T
    <3>4. PICK e \in d.edges : e.to = lanes[i][j].id /\ e.from \in S
      BY <1>1, <3>3
    <3>5. PICK h \in DOMAIN lanes : \E k \in DOMAIN lanes[h] : e.from = Previous(lanes[h], k) /\ e.to = lanes[h][k].id
      BY <1>2, <1>3, <1>4, <3>3, <3>4
    <3>6. PICK k \in DOMAIN lanes[h] : e.from = Previous(lanes[h], k) /\ e.to = lanes[h][k].id
      BY <3>5
    <3>7. <<h, k>> = <<i, j>>
      <4> DEFINE q == <<h, k>>
                 r == <<i, j>>
      <4>1. q \in P /\ r \in P /\ q[1] = h /\ q[2] = k /\ r[1] = i /\ r[2] = j
        BY <1>4, <3>3
      <4> HIDE DEF q, r
      <4>2. lanes[q[1]][q[2]].id = lanes[r[1]][r[2]].id
        BY <3>4, <3>6, <4>1
      <4>3. q = r
        BY <4>1, <4>2, StopsAreDistinct
      <4>4. QED BY <4>3 DEF q, r
    <3>8. lanes[i] \in Seq(Stops) /\ j \in 1 .. Len(lanes[i]) + 1 /\ e.from = Previous(lanes[i], j)
      <4>1. h = i /\ k = j
        BY <3>7
      <4>2. lanes[i] \in Seq(Stops)
        BY <1>4
      <4>3. j \in 1 .. Len(lanes[i]) + 1
        BY <3>3, <4>2
      <4>4. QED BY <3>6, <4>1, <4>2, <4>3
    <3>9. e.from = Entry \/ (j - 1 \in DOMAIN lanes[i] /\ e.from = lanes[i][j - 1].id)
      BY <3>8, PreviousIs
    <3>10. j - 1 \in DOMAIN lanes[i] /\ lanes[i][j - 1].id \in S
      BY <1>5, <3>4, <3>9
    <3>11. j - 1 \in Nat /\ j \in Nat
      <4>1. DOMAIN lanes[i] = 1 .. Len(lanes[i])
        BY <3>8
      <4>2. QED BY <3>3, <3>10, <4>1
    <3>12. j - 1 \in T
      BY <3>10, <3>11 DEF T
    <3>13. QED BY <3>2, <3>11, <3>12
  <2>2. ASSUME NEW q \in P, lanes[q[1]][q[2]].id \in S PROVE T # {}
    <3>1. q[1] \in DOMAIN lanes /\ q[2] \in DOMAIN lanes[q[1]]
      BY PlacesAre
    <3>2. q[2] \in Nat
      BY DEF Places
    <3>3. QED BY <2>2, <3>1, <3>2
  <2> HIDE DEF T
  <2>3. QED BY <2>1, <2>2
<1>7. S \cap StopIds(lanes) = {}
  BY <1>6 DEF StopIds
<1>8. Exit \in S
  BY <1>1, <1>3, <1>5, <1>7
<1>9. PICK e \in d.edges : e.to = Exit /\ e.from \in S
  BY <1>1, <1>8
<1>10. PICK i \in DOMAIN lanes : e.from = Previous(lanes[i], Len(lanes[i]) + 1)
  BY <1>2, <1>3, <1>4, <1>9
<1>11. lanes[i] \in Seq(Stops) /\ Len(lanes[i]) + 1 \in 1 .. Len(lanes[i]) + 1
  BY <1>4
<1>12. e.from \in {Entry} \cup {lanes[i][j].id : j \in DOMAIN lanes[i]}
  <2> DEFINE lane == lanes[i]
             h == Len(lane) + 1
  <2>1. lane \in Seq(Stops) /\ h \in 1 .. Len(lane) + 1 /\ e.from = Previous(lane, h)
    BY <1>10, <1>11
  <2> HIDE DEF lane, h
  <2>2. e.from \in {Entry} \cup {lane[j].id : j \in DOMAIN lane}
    BY <2>1, PreviousIs
  <2>3. QED BY <2>2 DEF lane
<1>13. e.from = Entry \/ e.from \in StopIds(lanes)
  BY <1>4, <1>12
<1>14. QED BY <1>5, <1>7, <1>9, <1>13

(* A search from the entry finds all of a lane, and so does one back from  *)
(* the exit.                                                               *)
LEMMA LaneIsFound ==
  ASSUME NEW lanes \in Seq(Seq(Stops)), NEW d, d = Workflow(lanes), NEW i \in DOMAIN lanes, NEW S
  PROVE  /\ Entry \in S /\ Closed(d, S, FALSE) =>
              Exit \in S /\ \A j \in DOMAIN lanes[i] : lanes[i][j].id \in S
         /\ Exit \in S /\ Closed(d, S, TRUE) =>
              Entry \in S /\ \A j \in DOMAIN lanes[i] : lanes[i][j].id \in S
<1> DEFINE lane == lanes[i]
           m == Len(lane)
           c(k) == Previous(lane, k)
<1>1. /\ m \in Nat /\ c(1) = Entry
      /\ \A j \in 1 .. m : c(j + 1) = lane[j].id /\ Edge(c(j), c(j + 1)) \in d.edges
      /\ Edge(c(m + 1), Exit) \in d.edges
  BY LaneIsChain
<1>2. DOMAIN lane = 1 .. m
  <2>1. lane \in Seq(Stops)
    OBVIOUS
  <2>2. QED BY <2>1
<1> HIDE DEF m, lane, c
<1>3. ASSUME Entry \in S, Closed(d, S, FALSE) PROVE Exit \in S /\ \A j \in DOMAIN lane : lane[j].id \in S
  <2>1. \A e \in d.edges : e.from \in S => e.to \in S
    BY <1>3 DEF Closed
  <2>2. ASSUME NEW a, NEW b, Edge(a, b) \in d.edges, a \in S PROVE b \in S
    <3>1. Edge(a, b).from = a /\ Edge(a, b).to = b
      BY EdgeIs
    <3>2. QED BY <2>1, <2>2, <3>1
  <2> DEFINE T == {k \in Nat : k <= m => c(k + 1) \in S}
  <2>3. 0 \in T
    BY <1>1, <1>3
  <2>4. ASSUME NEW k \in Nat, k \in T PROVE k + 1 \in T
    <3> SUFFICES ASSUME k + 1 <= m PROVE c((k + 1) + 1) \in S
      OBVIOUS
    <3>1. k + 1 \in 1 .. m /\ c(k + 1) \in S
      BY <1>1, <2>4
    <3>2. QED BY <1>1, <2>2, <3>1
  <2>5. \A k \in Nat : k \in T
    <3> HIDE DEF T
    <3> QED BY <2>3, <2>4, Induction
  <2>6. \A k \in Nat : k <= m => c(k + 1) \in S
    BY <2>5
  <2> HIDE DEF T
  <2>7. \A j \in 1 .. m : c(j + 1) \in S
    <3> TAKE j \in 1 .. m
    <3>1. j \in Nat /\ j <= m
      BY <1>1
    <3>2. QED BY <2>6, <3>1
  <2>8. c(m + 1) \in S
    BY <1>1, <2>6
  <2>9. QED BY <1>1, <1>2, <2>2, <2>7, <2>8
<1>4. ASSUME Exit \in S, Closed(d, S, TRUE) PROVE Entry \in S /\ \A j \in DOMAIN lane : lane[j].id \in S
  <2>1. \A e \in d.edges : e.to \in S => e.from \in S
    BY <1>4 DEF Closed
  <2>2. ASSUME NEW a, NEW b, Edge(a, b) \in d.edges, b \in S PROVE a \in S
    <3>1. Edge(a, b).from = a /\ Edge(a, b).to = b
      BY EdgeIs
    <3>2. QED BY <2>1, <2>2, <3>1
  <2> DEFINE T == {k \in Nat : k <= m => c((m - k) + 1) \in S}
  <2>3. 0 \in T
    <3>1. (m - 0) + 1 = m + 1
      BY <1>1
    <3>2. c(m + 1) \in S
      BY <1>1, <1>4, <2>2
    <3>3. QED BY <3>1, <3>2
  <2>4. ASSUME NEW k \in Nat, k \in T PROVE k + 1 \in T
    <3> SUFFICES ASSUME k + 1 <= m PROVE c((m - (k + 1)) + 1) \in S
      OBVIOUS
    <3> DEFINE j == m - k
    <3>1. j \in 1 .. m /\ c(j + 1) \in S
      BY <1>1, <2>4
    <3>2. c(j) \in S
      BY <1>1, <2>2, <3>1
    <3>3. (m - (k + 1)) + 1 = j
      BY <1>1
    <3>4. QED BY <3>2, <3>3
  <2>5. \A k \in Nat : k \in T
    <3> HIDE DEF T
    <3> QED BY <2>3, <2>4, Induction
  <2>6. ASSUME NEW j \in 1 .. m + 1 PROVE c(j) \in S
    <3> DEFINE k == m + 1 - j
    <3>1. k \in Nat /\ k <= m /\ (m - k) + 1 = j
      BY <1>1
    <3> HIDE DEF k
    <3>2. c((m - k) + 1) \in S
      BY <2>5, <3>1
    <3>3. QED BY <3>1, <3>2
  <2>7. 1 \in 1 .. m + 1 /\ \A j \in 1 .. m : j + 1 \in 1 .. m + 1
    BY <1>1
  <2>8. QED BY <1>1, <1>2, <2>6, <2>7
<1>5. QED BY <1>3, <1>4 DEF lane

(* The workflow of some lanes compiles, unless there is none, and all its  *)
(* nodes are between entry and exit.                                       *)
LEMMA LanesAreReached ==
  ASSUME NEW lanes \in Seq(Seq(Stops)), ~BuilderThrows(lanes), NEW d, d = Workflow(lanes)
  PROVE  /\ (\A S \in SUBSET Ids(d) : d.entry \in S /\ Closed(d, S, FALSE) => S = Ids(d)) <=> lanes # <<>>
         /\ lanes # <<>> => \A n \in Ids(d) : Between(d, n)
<1>1. d.entry = Entry /\ d.exit = Exit /\ Ids(d) = {Entry, Exit} \cup StopIds(lanes) /\ Entry # Exit
  BY WorkflowNamesAre
<1>2. ASSUME lanes = <<>> PROVE \E S \in SUBSET Ids(d) : d.entry \in S /\ Closed(d, S, FALSE) /\ S # Ids(d)
  <2> DEFINE S == {Entry}
  <2>1. d.edges = {}
    <3>1. \A e \in d.edges : \E i \in DOMAIN lanes : TRUE
      BY EdgesAre
    <3>2. DOMAIN lanes = {}
      BY <1>2
    <3>3. QED BY <3>1, <3>2
  <2>2. Closed(d, S, FALSE)
    BY <2>1 DEF Closed
  <2>3. S \in SUBSET Ids(d) /\ d.entry \in S /\ S # Ids(d)
    BY <1>1
  <2>4. QED BY <2>2, <2>3
<1>3. ASSUME lanes # <<>>
      PROVE  /\ \A S : Entry \in S /\ Closed(d, S, FALSE) => Ids(d) \subseteq S
             /\ \A S : Exit \in S /\ Closed(d, S, TRUE) => Ids(d) \subseteq S
  <2>1. \E i \in DOMAIN lanes : TRUE
    <3> DEFINE X == Seq(Stops)
    <3>1. lanes \in Seq(X)
      OBVIOUS
    <3> HIDE DEF X
    <3>2. Len(lanes) # 0 /\ Len(lanes) \in Nat /\ DOMAIN lanes = 1 .. Len(lanes)
      BY <1>3, <3>1
    <3>3. 1 \in DOMAIN lanes
      BY <3>2
    <3>4. QED BY <3>3
  <2>2. \A q \in Places(lanes, Len(lanes)) : q[1] \in DOMAIN lanes /\ q[2] \in DOMAIN lanes[q[1]]
    BY PlacesAre
  <2>3. ASSUME NEW S, Entry \in S, Closed(d, S, FALSE) PROVE Ids(d) \subseteq S
    <3>1. \A i \in DOMAIN lanes : Exit \in S /\ \A j \in DOMAIN lanes[i] : lanes[i][j].id \in S
      BY <2>3, LaneIsFound
    <3>2. StopIds(lanes) \subseteq S
      BY <2>2, <3>1 DEF StopIds
    <3>3. QED BY <1>1, <2>1, <2>3, <3>1, <3>2
  <2>4. ASSUME NEW S, Exit \in S, Closed(d, S, TRUE) PROVE Ids(d) \subseteq S
    <3>1. \A i \in DOMAIN lanes : Entry \in S /\ \A j \in DOMAIN lanes[i] : lanes[i][j].id \in S
      BY <2>4, LaneIsFound
    <3>2. StopIds(lanes) \subseteq S
      BY <2>2, <3>1 DEF StopIds
    <3>3. QED BY <1>1, <2>1, <2>4, <3>1, <3>2
  <2>5. QED BY <2>3, <2>4
<1>4. lanes # <<>> => \A n \in Ids(d) : Between(d, n)
  BY <1>1, <1>3 DEF Between
<1>5. lanes # <<>> => \A S \in SUBSET Ids(d) : d.entry \in S /\ Closed(d, S, FALSE) => S = Ids(d)
  BY <1>1, <1>3
<1>6. QED BY <1>2, <1>4, <1>5

-----------------------------------------------------------------------------
(* The behaviours.                                                         *)

IsPlanOf(d, lanes) ==
  /\ lanes \in Seq(Seq(Stops)) /\ ~BuilderThrows(lanes) /\ d = Workflow(lanes)

SortInv ==
  /\ request \in Goals \cup {None}
  /\ phase \in {"sorting", "compiled"} =>
       /\ Graph(definition) /\ Kahn(definition, sorted, inDegree, queue)
       /\ request # None => IsPlanOf(definition, Lanes(request))
  /\ phase = "compiled" =>
       /\ queue = {}
       /\ result = IF IsValid(definition, sorted) THEN CompiledPlan(definition, sorted) ELSE Failure

LEMMA SortBegins == PlanningInit => SortInv
BY DEF PlanningInit, SortInv

LEMMA SortGoesOn == SortInv /\ [PlanningNext]_planningVars => SortInv'
<1> SUFFICES ASSUME SortInv, [PlanningNext]_planningVars PROVE SortInv'
  OBVIOUS
<1>1. ASSUME NEW d, Graph(d), Sorting(d)
      PROVE  phase' = "sorting" /\ definition' = d /\ Kahn(d, sorted', inDegree', queue')
  BY <1>1, KahnBegins DEF Sorting
<1>2. CASE Submit
  <2>1. PICK d \in Given : Sorting(d)
    BY <1>2 DEF Submit
  <2>2. Graph(d)
    BY GivenAreGraphs DEF Graph
  <2>3. request' = request /\ request = None
    BY <1>2 DEF Submit
  <2>4. phase' = "sorting" /\ definition' = d /\ Kahn(d, sorted', inDegree', queue')
    BY <1>1, <2>1, <2>2
  <2>5. QED BY <2>2, <2>3, <2>4 DEF SortInv
<1>3. CASE Plan
  <2>1. request' = request /\ request # None
    BY <1>3 DEF Plan
  <2>2. CASE phase' = "refused" \/ phase' = "threw"
    BY <2>1, <2>2 DEF SortInv
  <2>3. CASE ~PlanThrows(request) /\ Sorting(Workflow(Lanes(request)))
    <3> DEFINE lanes == Lanes(request)
               d == Workflow(lanes)
    <3>1. request \in PlanningGoals
      BY <2>1, GoalsAreGoals DEF SortInv
    <3>2. lanes \in Seq(Seq(Stops))
      BY <3>1, LanesAre
    <3>3. ~BuilderThrows(lanes)
      BY <2>3 DEF PlanThrows
    <3> HIDE DEF lanes
    <3>4. Graph(d)
      BY <3>2, NodesAreLaidOut
    <3>5. Sorting(d)
      BY <2>3 DEF lanes
    <3> HIDE DEF d
    <3>6. phase' = "sorting" /\ definition' = d /\ Kahn(d, sorted', inDegree', queue')
      BY <1>1, <3>4, <3>5
    <3>7. IsPlanOf(d, lanes)
      BY <3>2, <3>3 DEF IsPlanOf, d
    <3>8. QED BY <2>1, <3>4, <3>6, <3>7 DEF SortInv, lanes
  <2>4. QED BY <1>3, <2>2, <2>3 DEF Plan
<1>4. CASE TakeNext
  <2>1. /\ phase = "sorting" /\ phase' = "sorting" /\ request' = request /\ definition' = definition
        /\ Graph(definition) /\ Kahn(definition, sorted, inDegree, queue)
        /\ request # None => IsPlanOf(definition, Lanes(request))
    BY <1>4 DEF TakeNext, SortInv
  <2>2. PICK n \in queue :
          /\ sorted' = Append(sorted, n)
          /\ inDegree' = [m \in DOMAIN inDegree |-> inDegree[m] - Cardinality(Released(definition, n, m))]
          /\ queue' = (queue \ {n}) \cup Freed(inDegree, inDegree')
    BY <1>4 DEF TakeNext
  <2>3. Kahn(definition, sorted', inDegree', queue')
    BY <2>1, <2>2, KahnGoesOn
  <2>4. QED BY <2>1, <2>3 DEF SortInv
<1>5. CASE Compile
  BY <1>5 DEF Compile, SortInv
<1>6. CASE UNCHANGED planningVars
  BY <1>6 DEF planningVars, SortInv
<1>7. QED BY <1>2, <1>3, <1>4, <1>5, <1>6 DEF PlanningNext

(* What is compiled is as it should be.                                    *)
LEMMA CompiledIsSound == SortInv => CompiledPlanIsSound
<1> SUFFICES ASSUME SortInv, phase = "compiled" PROVE CompiledPlanIsSound
  BY DEF CompiledPlanIsSound
<1> DEFINE d == definition
           s == sorted
           plan == result.ordered
<1>1. /\ Graph(d) /\ Kahn(d, s, inDegree, {})
      /\ result = IF IsValid(d, s) THEN CompiledPlan(d, s) ELSE Failure
  BY DEF SortInv
<1> HIDE DEF d, s
<1>2. /\ ~HasCycle(d, s) <=> \A S \in SUBSET Ids(d) : ~Circular(d, S)
      /\ ~HasCycle(d, s) => Names(s) = Ids(d)
      /\ s \in Seq(Ids(d)) /\ NoRepeats(s) /\ InOrder(d, s)
  BY <1>1, KahnEnds DEF Kahn
<1>3. NamesAreSound(d) => (AllReached(d) <=> \A S \in SUBSET Ids(d) : d.entry \in S /\ Closed(d, S, FALSE) => S = Ids(d))
  BY <1>1, ReachedIs
<1>4. IsValid(d, s) <=>
        /\ NamesAreSound(d)
        /\ \A S \in SUBSET Ids(d) : ~Circular(d, S)
        /\ \A S \in SUBSET Ids(d) : d.entry \in S /\ Closed(d, S, FALSE) => S = Ids(d)
  BY <1>2, <1>3 DEF IsValid
<1>5. result.success <=> IsValid(d, s)
  BY <1>1 DEF CompiledPlan, Failure
<1>6. ASSUME IsValid(d, s)
      PROVE  /\ NoRepeats(plan) /\ Names(plan) = {n \in Ids(d) : Between(d, n)}
             /\ plan # <<>> => plan[1] = d.entry /\ plan[Len(plan)] = d.exit
             /\ \A e \in d.edges : {e.from, e.to} \subseteq Names(plan) =>
                   Position(e.from, plan) < Position(e.to, plan)
  <2>1. plan = Picked(s, {i \in DOMAIN s : IsOnExecutionPath(d, s[i])})
    BY <1>1, <1>6 DEF CompiledPlan
  <2>2. NamesAreSound(d) /\ Names(s) = Ids(d)
    BY <1>2, <1>6 DEF IsValid
  <2> HIDE DEF plan
  <2>3. QED BY <1>1, <1>2, <2>1, <2>2, PlanIs
<1>7. QED BY <1>4, <1>5, <1>6 DEF CompiledPlanIsSound, d

(* How many elements one picks from a list without repeats.                *)
LEMMA PickedMany ==
  ASSUME NEW V, NEW s \in Seq(V), NoRepeats(s), NEW W \in SUBSET Names(s),
         NEW P, P = {i \in DOMAIN s : s[i] \in W}, NEW p, p = Picked(s, P), NEW t, DOMAIN t = DOMAIN p,
         NEW f, t = [i \in DOMAIN p |-> f[i]]
  PROVE  Len(t) = Cardinality(W)
<1> DEFINE n == Len(s)
           g == [i \in P |-> s[i]]
<1>1. n \in Nat /\ DOMAIN s = 1 .. n /\ P \in SUBSET (1 .. n)
  OBVIOUS
<1>2. g \in Surjection(P, W)
  <2>1. g \in [P -> W]
    OBVIOUS
  <2>2. \A w \in W : \E i \in P : g[i] = w
    BY DEF Names
  <2>3. QED BY <2>1, <2>2 DEF Surjection
<1>3. g \in Injection(P, W)
  <2>1. \A i, j \in P : g[i] = g[j] => i = j
    BY DEF NoRepeats
  <2>2. g \in [P -> W]
    OBVIOUS
  <2> HIDE DEF g
  <2>3. QED BY <2>1, <2>2 DEF Injection, IsInjective
<1>4. IsFiniteSet(P)
  <2>1. IsFiniteSet(1 .. n)
    BY <1>1, FS_Interval
  <2> HIDE DEF n
  <2>2. QED BY <1>1, <2>1, FS_Subset
<1> HIDE DEF g, n
<1>5. Cardinality(W) = Cardinality(P)
  BY <1>2, <1>3, <1>4, FS_Surjection
<1>6. Cardinality(P) \in Nat
  BY <1>4, FS_CardinalityType
<1> DEFINE c == Cardinality(P)
<1> HIDE DEF c
<1>7. DOMAIN p = 1 .. c /\ c \in Nat
  BY <1>6 DEF Picked, c
<1>8. t = [i \in 1 .. c |-> f[i]]
  BY <1>7
<1>9. Len(t) = c
  BY <1>7, <1>8
<1>10. QED BY <1>5, <1>9 DEF c

(* A lane's steps are in the plan in their order.                          *)
LEMMA LaneKeepsOrder ==
  ASSUME NEW lanes \in Seq(Seq(Stops)), NEW d, d = Workflow(lanes), NEW plan,
         \A e \in d.edges : Position(e.from, plan) < Position(e.to, plan),
         \A e \in d.edges : Position(e.from, plan) \in Nat /\ Position(e.to, plan) \in Nat,
         NEW i \in DOMAIN lanes, NEW j \in DOMAIN lanes[i], NEW k \in DOMAIN lanes[i], j < k
  PROVE  Position(lanes[i][j].id, plan) < Position(lanes[i][k].id, plan)
<1> DEFINE m == Len(lanes[i])
           c(h) == Previous(lanes[i], h)
           at(h) == Position(c(h), plan)
<1>1. /\ m \in Nat
      /\ \A h \in 1 .. m : c(h + 1) = lanes[i][h].id /\ Edge(c(h), c(h + 1)) \in d.edges
  BY LaneIsChain
<1>2. DOMAIN lanes[i] = 1 .. m
  <2>1. lanes[i] \in Seq(Stops)
    OBVIOUS
  <2>2. QED BY <2>1
<1> HIDE DEF m, c
<1>3. ASSUME NEW h \in 1 .. m PROVE at(h) < at(h + 1) /\ at(h) \in Nat /\ at(h + 1) \in Nat
  <2> DEFINE e == Edge(c(h), c(h + 1))
  <2>1. e.from = c(h) /\ e.to = c(h + 1)
    BY EdgeIs
  <2>2. e \in d.edges
    BY <1>1
  <2> HIDE DEF e
  <2>3. QED BY <2>1, <2>2
<1> HIDE DEF at
<1> DEFINE T == {n \in Nat : j + (n + 1) <= m => at(j + 1) < at((j + (n + 1)) + 1)}
<1>4. j \in 1 .. m /\ k \in 1 .. m /\ m \in Nat
  BY <1>1, <1>2
<1>5. 0 \in T
  <2> SUFFICES ASSUME j + (0 + 1) <= m PROVE at(j + 1) < at((j + (0 + 1)) + 1)
    OBVIOUS
  <2>1. j + 1 \in 1 .. m /\ j + (0 + 1) = j + 1
    BY <1>4
  <2>2. at(j + 1) < at((j + 1) + 1)
    BY <1>3, <2>1
  <2>3. QED BY <2>1, <2>2
<1>6. ASSUME NEW n \in Nat, n \in T PROVE n + 1 \in T
  <2> SUFFICES ASSUME j + ((n + 1) + 1) <= m PROVE at(j + 1) < at((j + ((n + 1) + 1)) + 1)
    OBVIOUS
  <2> DEFINE h == j + (n + 1)
  <2>1. h \in Nat /\ h + 1 \in 1 .. m /\ j + ((n + 1) + 1) = h + 1 /\ h <= m /\ j + 1 \in 1 .. m
    BY <1>4
  <2>2. at(j + 1) < at(h + 1)
    BY <1>6, <2>1
  <2>3. at(h + 1) < at((h + 1) + 1) /\ at(h + 1) \in Nat /\ at((h + 1) + 1) \in Nat
    BY <1>3, <2>1
  <2>4. at(j + 1) \in Nat
    BY <1>3, <2>1
  <2>5. at(j + 1) < at((h + 1) + 1)
    BY <2>2, <2>3, <2>4
  <2>6. QED BY <2>1, <2>5
<1>7. \A n \in Nat : n \in T
  <2> HIDE DEF T
  <2> QED BY <1>5, <1>6, Induction
<1>8. at(j + 1) < at(k + 1)
  <2> DEFINE n == k - j - 1
  <2>1. n \in Nat /\ j + (n + 1) = k /\ k <= m
    BY <1>4
  <2> HIDE DEF n
  <2>2. j + (n + 1) <= m => at(j + 1) < at((j + (n + 1)) + 1)
    BY <1>7, <2>1
  <2>3. QED BY <2>1, <2>2
<1>9. c(j + 1) = lanes[i][j].id /\ c(k + 1) = lanes[i][k].id
  BY <1>1, <1>4
<1>10. QED BY <1>8, <1>9 DEF at

LEMMA PlannedIsOrdered == SortInv /\ CompiledPlanIsSound => PlannedStepsKeepTheirOrder
<1> SUFFICES ASSUME SortInv, CompiledPlanIsSound, phase = "compiled", request # None
             PROVE  LET lanes == Lanes(request)
                    IN  /\ result.success <=> lanes # <<>>
                        /\ result.success =>
                             /\ Len(result.stages) = Len(Joined(lanes))
                             /\ \A i \in DOMAIN lanes : \A j, k \in DOMAIN lanes[i] :
                                   j < k => Position(lanes[i][j].id, result.ordered)
                                              < Position(lanes[i][k].id, result.ordered)
  BY DEF PlannedStepsKeepTheirOrder
<1> DEFINE lanes == Lanes(request)
           d == definition
           s == sorted
           plan == result.ordered
<1>1. lanes \in Seq(Seq(Stops)) /\ ~BuilderThrows(lanes) /\ d = Workflow(lanes)
  BY DEF SortInv, IsPlanOf
<1>2. /\ Graph(d) /\ s \in Seq(Ids(d)) /\ NoRepeats(s)
      /\ result = IF IsValid(d, s) THEN CompiledPlan(d, s) ELSE Failure
  BY DEF SortInv, Kahn
<1>3. /\ result.success <=>
           /\ NamesAreSound(d)
           /\ \A S \in SUBSET Ids(d) : ~Circular(d, S)
           /\ \A S \in SUBSET Ids(d) : d.entry \in S /\ Closed(d, S, FALSE) => S = Ids(d)
      /\ result.success =>
           /\ NoRepeats(plan) /\ Names(plan) = {n \in Ids(d) : Between(d, n)}
           /\ \A e \in d.edges : {e.from, e.to} \subseteq Names(plan) =>
                 Position(e.from, plan) < Position(e.to, plan)
  BY DEF CompiledPlanIsSound
<1> HIDE DEF lanes, d, s
<1>4. NamesAreSound(d) /\ \A n \in Ids(d) : NodeOf(d, n).type \notin {"entry", "exit"} <=> n \in StopIds(lanes)
  BY <1>1, WorkflowNamesAre
<1>5. \A S \in SUBSET Ids(d) : ~Circular(d, S)
  BY <1>1, NoCircles
<1>6. /\ (\A S \in SUBSET Ids(d) : d.entry \in S /\ Closed(d, S, FALSE) => S = Ids(d)) <=> lanes # <<>>
      /\ lanes # <<>> => \A n \in Ids(d) : Between(d, n)
  BY <1>1, LanesAreReached
<1>7. result.success <=> lanes # <<>>
  BY <1>3, <1>4, <1>5, <1>6
<1>8. ASSUME result.success
      PROVE  /\ Len(result.stages) = Len(Joined(lanes))
             /\ \A i \in DOMAIN lanes : \A j, k \in DOMAIN lanes[i] :
                   j < k => Position(lanes[i][j].id, plan) < Position(lanes[i][k].id, plan)
  <2>1. NoRepeats(plan) /\ Names(plan) = Ids(d)
    BY <1>3, <1>6, <1>7, <1>8
  <2>2. result = CompiledPlan(d, s)
    BY <1>2, <1>8 DEF Failure
  <2>3. plan \in Seq(Ids(d))
    <3> DEFINE P == {i \in DOMAIN s : IsOnExecutionPath(d, s[i])}
               n == Len(s)
    <3>1. plan = Picked(s, P)
      BY <2>2 DEF CompiledPlan
    <3>2. n \in Nat /\ P \in SUBSET (1 .. n) /\ \A i \in 1 .. n : s[i] \in Ids(d)
      BY <1>2
    <3> HIDE DEF P, n, plan
    <3>3. Cardinality(P) \in 0 .. n /\ \E f : PicksAt(s, P, f)
      BY <3>2, PickedInOrder
    <3>4. PICK f : PicksAt(s, P, f)
      BY <3>3
    <3> DEFINE c == Cardinality(P)
    <3> HIDE DEF c
    <3>5. c \in Nat /\ f \in [1 .. c -> P] /\ plan = [i \in 1 .. c |-> s[f[i]]]
      BY <3>1, <3>2, <3>3, <3>4 DEF PicksAt, c
    <3>6. plan \in [1 .. c -> Ids(d)]
      BY <3>2, <3>5
    <3>7. QED BY <3>5, <3>6, ListIs
  <2>4. Len(result.stages) = Cardinality(StopIds(lanes))
    <3> DEFINE P == {i \in DOMAIN plan : NodeOf(d, plan[i]).type \notin {"entry", "exit"}}
               Q == {i \in DOMAIN plan : plan[i] \in StopIds(lanes)}
               p == Picked(plan, P)
               f == [i \in DOMAIN p |-> NodeOf(d, p[i]).stage]
               t == result.stages
    <3>1. t = f
      BY <2>2 DEF CompiledPlan, Mapped
    <3>2. P = Q
      <4>1. \A i \in DOMAIN plan : plan[i] \in Ids(d)
        BY <2>1 DEF Names
      <4>2. QED BY <1>4, <4>1
    <3>3. p = Picked(plan, Q)
      BY <3>2
    <3>4. StopIds(lanes) \in SUBSET Names(plan)
      BY <1>1, <2>1, WorkflowNamesAre
    <3>5. DOMAIN t = DOMAIN p /\ t = [i \in DOMAIN p |-> f[i]]
      BY <3>1
    <3> HIDE DEF P, p, f, t, plan
    <3>6. Len(t) = Cardinality(StopIds(lanes))
      BY <2>1, <2>3, <3>3, <3>4, <3>5, PickedMany
    <3>7. QED BY <3>6 DEF t
  <2>5. Len(result.stages) = Len(Joined(lanes))
    BY <1>1, <2>4, StopsAreDistinct
  <2> HIDE DEF plan
  <2>6. \A e \in d.edges : e.from \in Names(plan) /\ e.to \in Names(plan)
    BY <1>4, <2>1 DEF NamesAreSound
  <2>7. \A e \in d.edges : Position(e.from, plan) < Position(e.to, plan)
    BY <1>3, <1>8, <2>6 DEF plan
  <2>8. \A n \in Names(plan) : Position(n, plan) \in Nat
    <3> TAKE n \in Names(plan)
    <3>1. PICK i \in DOMAIN plan : plan[i] = n
      BY DEF Names
    <3>2. Position(n, plan) = i
      BY <2>1, <3>1, PositionIs
    <3>3. i \in Nat
      BY <2>3
    <3>4. QED BY <3>2, <3>3
  <2>9. \A e \in d.edges : Position(e.from, plan) \in Nat /\ Position(e.to, plan) \in Nat
    BY <2>6, <2>8
  <2>10. \A i \in DOMAIN lanes : \A j, k \in DOMAIN lanes[i] :
            j < k => Position(lanes[i][j].id, plan) < Position(lanes[i][k].id, plan)
    BY <1>1, <2>7, <2>9, LaneKeepsOrder
  <2>11. QED BY <2>5, <2>10
<1>9. QED BY <1>7, <1>8 DEF lanes

(* A goal or a definition compiles exactly when it can be compiled: names  *)
(* sound, no circle, every node reached; and its plan then is what lies    *)
(* between entry and exit, every edge forward, and for a goal every step   *)
(* its strategy laid, the steps of a lane in order                         *)
(* (workflow-graph.ts topologicalSort, workflow-compiler.ts,               *)
(* planning-strategies.ts).                                                *)
THEOREM PlansAreSound == PlanningSpec => []PlanIsSound
<1>1. SortInv => PlanIsSound
  BY CompiledIsSound, PlannedIsOrdered DEF PlanIsSound
<1>2. QED BY <1>1, SortBegins, SortGoesOn, PTL DEF PlanningSpec

(***************************************************************************)
(* LlmMessages, for any number of answers, of blocks in them and of ids:   *)
(* what the providers send shows each answer as the API gave it.  Layout   *)
(* says where the answers stand among the messages: each right after what  *)
(* followed the one before it.                                             *)
(***************************************************************************)
WireSpec == WireInit /\ [][WireNext]_wireVars

(* What the loop keeps, and what the APIs answer.                          *)
KeptCalls == [id : CallIds, arguments : {"object", "unparsable", "none"}, extra : {NoCall, "signature"}]
KeptMessages ==
  [role : {"system", "user", "assistant", "tool"}, text : Texts_Given, calls : Seq(KeptCalls),
   of : CallIds \cup {NoCall}]
Bodies == [text : Texts_Given, calls : Seq(Calls_Given)]

AnswerOf(a, body) == IF a = "anthropic" THEN AnthropicAnswer(body) ELSE OpenAiAnswer(body)

(* The calls in a list of blocks, and what is kept of an answer.           *)
LEMMA CallsMadeAre ==
  ASSUME NEW content \in Seq(Blocks)
  PROVE  /\ CallsMade(content) \in Seq([type : {"tool_use"}, id : CallIds])
         /\ \A b \in DOMAIN content : content[b].type = "text" =>
               \E k \in DOMAIN Selected(content, "text") : Selected(content, "text")[k] = content[b]
         /\ Selected(content, "text") \in Seq([type : {"text"}, text : Texts_Given])
<1>1. PICK n \in Nat : n = Len(content) /\ DOMAIN content = 1 .. n
  BY LenProperties
<1>2. \A i \in 1 .. n : content[i] \in Blocks
  BY <1>1, LenProperties
<1> DEFINE P == {i \in 1 .. n : content[i].type = "tool_use" /\ content[i].id # NoCall}
           Q == {i \in 1 .. n : content[i].type = "text"}
<1>3. CallsMade(content) = Picked(content, P) /\ Selected(content, "text") = Picked(content, Q)
  BY <1>1 DEF CallsMade, Selected
<1>4. \A i \in P : content[i] \in [type : {"tool_use"}, id : CallIds]
  BY <1>2 DEF Blocks
<1>5. \A i \in Q : content[i] \in [type : {"text"}, text : Texts_Given]
  BY <1>2 DEF Blocks
<1>6. P \in SUBSET (1 .. n) /\ Q \in SUBSET (1 .. n)
  OBVIOUS
<1> HIDE DEF P, Q
<1>7. Cardinality(P) \in 0 .. n /\ Cardinality(Q) \in 0 .. n
  BY <1>6, PickedInOrder
<1>8. PICK f : PicksAt(content, P, f)
  BY <1>6, PickedInOrder
<1>9. PICK g : PicksAt(content, Q, g)
  BY <1>6, PickedInOrder
<1>10. CallsMade(content) \in Seq([type : {"tool_use"}, id : CallIds])
  <2>1. CallsMade(content) = [i \in 1 .. Cardinality(P) |-> content[f[i]]]
    BY <1>3, <1>8 DEF PicksAt
  <2>2. \A i \in 1 .. Cardinality(P) : content[f[i]] \in [type : {"tool_use"}, id : CallIds]
    BY <1>4, <1>8 DEF PicksAt
  <2>3. PICK c \in Nat : c = Cardinality(P)
    BY <1>7
  <2>4. \A i \in 1 .. c : content[f[i]] \in [type : {"tool_use"}, id : CallIds]
    BY <2>2, <2>3
  <2>5. [i \in 1 .. c |-> content[f[i]]] \in Seq([type : {"tool_use"}, id : CallIds])
    <3> DEFINE T == [type : {"tool_use"}, id : CallIds]
    <3>1. \A i \in 1 .. c : content[f[i]] \in T
      BY <2>4
    <3> HIDE DEF T
    <3>2. [i \in 1 .. c |-> content[f[i]]] \in Seq(T)
      BY <3>1, IsASeq
    <3>3. QED BY <3>2 DEF T
  <2>6. QED BY <2>1, <2>3, <2>5
<1>11. Selected(content, "text") = [i \in 1 .. Cardinality(Q) |-> content[g[i]]]
  BY <1>3, <1>9 DEF PicksAt
<1>12. Selected(content, "text") \in Seq([type : {"text"}, text : Texts_Given])
  <2>1. \A i \in 1 .. Cardinality(Q) : content[g[i]] \in [type : {"text"}, text : Texts_Given]
    BY <1>5, <1>9 DEF PicksAt
  <2>2. PICK c \in Nat : c = Cardinality(Q)
    BY <1>7
  <2>3. \A i \in 1 .. c : content[g[i]] \in [type : {"text"}, text : Texts_Given]
    BY <2>1, <2>2
  <2>4. [i \in 1 .. c |-> content[g[i]]] \in Seq([type : {"text"}, text : Texts_Given])
    <3> DEFINE T == [type : {"text"}, text : Texts_Given]
    <3>1. \A i \in 1 .. c : content[g[i]] \in T
      BY <2>3
    <3> HIDE DEF T
    <3>2. [i \in 1 .. c |-> content[g[i]]] \in Seq(T)
      BY <3>1, IsASeq
    <3>3. QED BY <3>2 DEF T
  <2>5. QED BY <1>11, <2>2, <2>4
<1>13. \A b \in DOMAIN content : content[b].type = "text" =>
          \E k \in DOMAIN Selected(content, "text") : Selected(content, "text")[k] = content[b]
  <2> SUFFICES ASSUME NEW b \in 1 .. n, content[b].type = "text"
               PROVE  \E k \in DOMAIN Selected(content, "text") : Selected(content, "text")[k] = content[b]
    BY <1>1
  <2>1. b \in Q
    BY DEF Q
  <2>2. PICK k \in 1 .. Cardinality(Q) : g[k] = b
    BY <1>9, <2>1 DEF PicksAt
  <2>3. QED BY <1>11, <2>2
<1>14. QED BY <1>10, <1>12, <1>13

LEMMA AnthropicKept ==
  ASSUME NEW content \in Seq(Blocks)
  PROVE  /\ AnthropicAnswer(content) \in KeptMessages
         /\ AnthropicAnswer(content).role = "assistant"
         /\ Len(AnthropicAnswer(content).calls) = Len(CallsMade(content))
         /\ \A k \in 1 .. Len(CallsMade(content)) :
               AnthropicAnswer(content).calls[k].id = CallsMade(content)[k].id
         /\ TextBlock("words") \in {content[b] : b \in DOMAIN content}
              => AnthropicAnswer(content).text = "words"
<1> DEFINE made == CallsMade(content)
           texts == Selected(content, "text")
           calls == [k \in DOMAIN made |-> [id |-> made[k].id, arguments |-> "object", extra |-> NoCall]]
<1>1. AnthropicAnswer(content) = Kept("assistant", JoinedTexts(texts), calls, NoCall)
  BY DEF AnthropicAnswer, CallsMade
<1>2. made \in Seq([type : {"tool_use"}, id : CallIds])
  BY CallsMadeAre
<1> HIDE DEF made, texts
<1>3. PICK n \in Nat : Len(made) = n /\ DOMAIN made = 1 .. n /\ \A k \in 1 .. n : made[k].id \in CallIds
  <2>1. Len(made) \in Nat /\ DOMAIN made = 1 .. Len(made) /\ made \in [1 .. Len(made) -> [type : {"tool_use"}, id : CallIds]]
    BY <1>2, LenProperties
  <2>2. \A k \in 1 .. Len(made) : made[k].id \in CallIds
    BY <2>1
  <2>3. QED BY <2>1, <2>2
<1>4. calls = [k \in 1 .. n |-> [id |-> made[k].id, arguments |-> "object", extra |-> NoCall]]
  BY <1>3
<1>5. calls \in Seq(KeptCalls) /\ Len(calls) = n
  <2>1. \A k \in 1 .. n : [id |-> made[k].id, arguments |-> "object", extra |-> NoCall] \in KeptCalls
    BY <1>3 DEF KeptCalls
  <2>2. calls \in Seq(KeptCalls)
    <3> HIDE DEF calls
    <3> QED BY <1>4, <2>1, IsASeq
  <2> HIDE DEF calls
  <2>3. QED BY <1>4, <2>2, LenProperties
<1>6. JoinedTexts(texts) \in Texts_Given
  BY DEF JoinedTexts, Texts_Given
<1>7. TextBlock("words") \in {content[b] : b \in DOMAIN content} => JoinedTexts(texts) = "words"
  <2> SUFFICES ASSUME NEW b \in DOMAIN content, content[b] = TextBlock("words")
               PROVE  JoinedTexts(texts) = "words"
    OBVIOUS
  <2>1. content[b].type = "text" /\ content[b].text = "words"
    BY DEF TextBlock
  <2>2. PICK k \in DOMAIN texts : texts[k] = content[b]
    BY <2>1, CallsMadeAre DEF texts
  <2>3. "words" \in {texts[i].text : i \in DOMAIN texts}
    BY <2>1, <2>2
  <2>4. QED BY <2>3 DEF JoinedTexts
<1>8. \A k \in 1 .. n : calls[k].id = made[k].id
  BY <1>4
<1> HIDE DEF calls
<1>9. QED BY <1>1, <1>3, <1>5, <1>6, <1>7, <1>8 DEF Kept, KeptMessages, made

LEMMA OpenAiKept ==
  ASSUME NEW body \in Bodies
  PROVE  /\ OpenAiAnswer(body) \in KeptMessages
         /\ OpenAiAnswer(body).role = "assistant"
         /\ OpenAiAnswer(body).text = body.text
         /\ Len(OpenAiAnswer(body).calls) = Len(body.calls)
         /\ \A k \in 1 .. Len(body.calls) :
               /\ OpenAiAnswer(body).calls[k].id = body.calls[k].id
               /\ \/ OpenAiAnswer(body).calls[k] = body.calls[k]
                  \/ body.calls[k].arguments = "unparsable"
                     /\ OpenAiAnswer(body).calls[k].extra = body.calls[k].extra
<1> DEFINE calls == [k \in DOMAIN body.calls |-> OpenAiCall(body.calls[k])]
<1>1. OpenAiAnswer(body) = Kept("assistant", body.text, calls, NoCall)
  BY DEF OpenAiAnswer
<1>2. body.calls \in Seq(Calls_Given) /\ body.text \in Texts_Given
  BY DEF Bodies
<1>3. PICK n \in Nat : Len(body.calls) = n /\ DOMAIN body.calls = 1 .. n
                       /\ \A k \in 1 .. n : body.calls[k] \in Calls_Given
  BY <1>2, LenProperties
<1>4. calls = [k \in 1 .. n |-> OpenAiCall(body.calls[k])]
  BY <1>3
<1>5. \A c \in Calls_Given :
        /\ OpenAiCall(c) \in KeptCalls /\ OpenAiCall(c).id = c.id
        /\ OpenAiCall(c) = c \/ (c.arguments = "unparsable" /\ OpenAiCall(c).extra = c.extra)
  BY DEF OpenAiCall, Calls_Given, KeptCalls
<1>6. \A k \in 1 .. n : OpenAiCall(body.calls[k]) \in KeptCalls
  BY <1>3, <1>5
<1> HIDE DEF calls
<1>7. calls \in Seq(KeptCalls)
  BY <1>4, <1>6, IsASeq
<1>8. Len(calls) = n
  BY <1>4, <1>7, LenProperties
<1>9. \A k \in 1 .. n :
        /\ calls[k].id = body.calls[k].id
        /\ calls[k] = body.calls[k] \/ (body.calls[k].arguments = "unparsable" /\ calls[k].extra = body.calls[k].extra)
  BY <1>3, <1>4, <1>5
<1>10. QED BY <1>1, <1>2, <1>3, <1>7, <1>8, <1>9 DEF Kept, KeptMessages

(* What follows an answer: results or a message of the user.               *)
LEMMA ResultsFollow ==
  ASSUME NEW m \in KeptMessages
  PROVE  /\ Results(m) \in Seq(KeptMessages)
         /\ Len(Results(m)) \in Nat \ {0}
         /\ \A k \in 1 .. Len(Results(m)) : Results(m)[k].role \in {"user", "tool"}
         /\ m.calls = <<>> => Len(Results(m)) = 1 /\ Results(m)[1] = Asked
         /\ m.calls # <<>> =>
              /\ Len(Results(m)) = Len(m.calls)
              /\ \A k \in 1 .. Len(m.calls) : Results(m)[k] = Kept("tool", "words", <<>>, m.calls[k].id)
<1>1. CASE m.calls = <<>>
  <2>1. Results(m) = <<Asked>>
    BY <1>1 DEF Results
  <2>2. Asked \in KeptMessages /\ Asked.role = "user"
    BY EmptySeq DEF Asked, Kept, KeptMessages, Texts_Given
  <2>3. QED BY <1>1, <2>1, <2>2
<1>2. CASE m.calls # <<>>
  <2>1. PICK n \in Nat \ {0} : Len(m.calls) = n /\ DOMAIN m.calls = 1 .. n
                                /\ \A k \in 1 .. n : m.calls[k].id \in CallIds
    <3>1. m.calls \in Seq(KeptCalls)
      BY DEF KeptMessages
    <3>2. /\ Len(m.calls) \in Nat \ {0} /\ DOMAIN m.calls = 1 .. Len(m.calls)
          /\ m.calls \in [1 .. Len(m.calls) -> KeptCalls]
      BY <1>2, <3>1, LenProperties, EmptySeq
    <3>3. \A k \in 1 .. Len(m.calls) : m.calls[k].id \in CallIds
      BY <3>2 DEF KeptCalls
    <3>4. QED BY <3>2, <3>3
  <2>2. Results(m) = [k \in 1 .. n |-> Kept("tool", "words", <<>>, m.calls[k].id)]
    BY <1>2, <2>1 DEF Results
  <2>3. \A k \in 1 .. n : Kept("tool", "words", <<>>, m.calls[k].id) \in KeptMessages
    BY <2>1, EmptySeq DEF Kept, KeptMessages, Texts_Given
  <2>4. Results(m) \in Seq(KeptMessages)
    BY <2>2, <2>3, IsASeq
  <2>5. Len(Results(m)) = n
    BY <2>2, <2>4, LenProperties
  <2>6. \A k \in 1 .. n : Results(m)[k] = Kept("tool", "words", <<>>, m.calls[k].id)
    BY <2>2
  <2>7. \A k \in 1 .. n : Results(m)[k].role = "tool"
    <3>1. \A id : Kept("tool", "words", <<>>, id).role = "tool"
      BY DEF Kept
    <3>2. QED BY <2>6, <3>1
  <2>8. QED BY <1>2, <2>1, <2>4, <2>5, <2>6, <2>7
<1>3. QED BY <1>1, <1>2

(* Where the answers stand among the messages kept: each from the place    *)
(* where what followed the one before ends, itself first and then what     *)
(* follows it.                                                             *)
Layout(at, a, gs, ks) ==
  /\ at \in [1 .. Len(gs) + 1 -> Nat]
  /\ at[1] = 3 /\ at[Len(gs) + 1] = Len(ks) + 1
  /\ \A i, j \in 1 .. Len(gs) + 1 : i < j => at[i] < at[j]
  /\ \A p \in 3 .. Len(ks) : \E i \in 1 .. Len(gs) : at[i] <= p /\ p < at[i + 1]
  /\ \A i \in 1 .. Len(gs) :
       LET m == AnswerOf(a, gs[i])
       IN  /\ at[i + 1] = at[i] + 1 + Len(Results(m))
           /\ ks[at[i]] = m
           /\ \A k \in 1 .. Len(Results(m)) : ks[at[i] + k] = Results(m)[k]

Answered_By(a) == IF a = "anthropic" THEN Seq(Blocks) ELSE Bodies

WireInv ==
  /\ api \in {"anthropic", "openai-compatible"}
  /\ given \in Seq(Answered_By(api))
  /\ kept \in Seq(KeptMessages) /\ Len(kept) >= 2
  /\ kept[1].role = "system" /\ kept[2] = Asked
  /\ \E at : Layout(at, api, given, kept)

LEMMA WireBegins == WireInit => WireInv
<1> SUFFICES ASSUME WireInit PROVE WireInv
  OBVIOUS
<1>1. given = <<>> /\ Len(given) = 0 /\ given \in Seq(Answered_By(api))
  BY EmptySeq DEF WireInit
<1>2. kept = <<Kept("system", "words", <<>>, NoCall), Asked>>
  BY DEF WireInit
<1>3. /\ Kept("system", "words", <<>>, NoCall) \in KeptMessages /\ Asked \in KeptMessages
      /\ Kept("system", "words", <<>>, NoCall).role = "system"
  BY EmptySeq DEF Asked, Kept, KeptMessages, Texts_Given
<1>4. kept \in Seq(KeptMessages) /\ Len(kept) = 2 /\ kept[1].role = "system" /\ kept[2] = Asked
  BY <1>2, <1>3
<1> DEFINE at == [i \in 1 .. 1 |-> 3]
<1>5. at \in [1 .. 1 -> Nat] /\ at[1] = 3
  OBVIOUS
<1> HIDE DEF at
<1>6. Layout(at, api, given, kept)
  BY <1>1, <1>4, <1>5 DEF Layout
<1>7. QED BY <1>1, <1>4, <1>6 DEF WireInv, WireInit

LEMMA AnswerIsKept ==
  ASSUME NEW body \in Answered_By(api), api \in {"anthropic", "openai-compatible"}
  PROVE  AnswerOf(api, body) \in KeptMessages /\ AnswerOf(api, body).role = "assistant"
  BY AnthropicKept, OpenAiKept DEF Answered_By, AnswerOf

LEMMA WireTakes ==
  ASSUME WireInv, NEW body \in Answered_By(api), Take(body, AnswerOf(api, body))
  PROVE  WireInv'
<1>1. PICK at : Layout(at, api, given, kept)
  BY DEF WireInv
<1> DEFINE m == AnswerOf(api, body)
           n == Len(given)
           l == Len(kept)
           rs == Results(m)
           r == Len(rs)
<1>2. m \in KeptMessages /\ m.role = "assistant"
  BY AnswerIsKept DEF WireInv
<1> HIDE DEF m
<1>3. rs \in Seq(KeptMessages) /\ r \in Nat \ {0}
  BY <1>2, ResultsFollow
<1> HIDE DEF rs, r
<1>4. /\ api' = api /\ given' = Append(given, body) /\ kept' = kept \o <<m>> \o rs
  BY DEF Take, m, rs
<1>5. n \in Nat /\ l \in Nat /\ l >= 2
  BY LenProperties DEF WireInv
<1>6. /\ given' \in Seq(Answered_By(api')) /\ Len(given') = n + 1
      /\ given'[n + 1] = body /\ \A i \in 1 .. n : given'[i] = given[i]
  BY <1>4, AppendProperties DEF WireInv
<1>7. /\ kept' \in Seq(KeptMessages) /\ Len(kept') = l + 1 + r
      /\ \A p \in 1 .. l : kept'[p] = kept[p]
      /\ kept'[l + 1] = m
      /\ \A k \in 1 .. r : kept'[l + 1 + k] = rs[k]
  <2>1. kept \in Seq(KeptMessages) /\ <<m>> \in Seq(KeptMessages) /\ Len(<<m>>) = 1 /\ <<m>>[1] = m
    BY <1>2 DEF WireInv
  <2>2. PICK s \in Seq(KeptMessages) : s = kept \o <<m>>
    BY <2>1, ConcatProperties
  <2>3. Len(s) = l + 1 /\ \A p \in 1 .. l + 1 : s[p] = IF p <= l THEN kept[p] ELSE <<m>>[p - l]
    BY <2>1, <2>2, ConcatProperties
  <2>4. (\A p \in 1 .. l : s[p] = kept[p]) /\ s[l + 1] = m
    <3>1. l + 1 \in 1 .. l + 1 /\ ~ (l + 1 <= l) /\ (l + 1) - l = 1
      BY <1>5
    <3>2. s[l + 1] = m
      BY <2>1, <2>3, <3>1
    <3>3. QED BY <1>5, <2>3, <3>2
  <2>5. /\ kept' \in Seq(KeptMessages) /\ Len(kept') = l + 1 + r
        /\ \A p \in 1 .. l + 1 + r : kept'[p] = IF p <= l + 1 THEN s[p] ELSE rs[p - (l + 1)]
    BY <1>3, <1>4, <2>2, <2>3, ConcatProperties DEF r
  <2>6. \A k \in 1 .. r : l + 1 + k \in 1 .. l + 1 + r /\ ~ (l + 1 + k <= l + 1) /\ (l + 1 + k) - (l + 1) = k
    BY <1>3, <1>5
  <2>7. \A p \in 1 .. l + 1 : p \in 1 .. l + 1 + r /\ p <= l + 1
    BY <1>3, <1>5
  <2>8. \A p \in 1 .. l : p \in 1 .. l + 1
    BY <1>5
  <2>9. l + 1 \in 1 .. l + 1
    BY <1>5
  <2> HIDE DEF l
  <2>10. QED BY <2>4, <2>5, <2>6, <2>7, <2>8, <2>9
<1>8. /\ at \in [1 .. n + 1 -> Nat] /\ at[1] = 3 /\ at[n + 1] = l + 1
      /\ \A i, j \in 1 .. n + 1 : i < j => at[i] < at[j]
      /\ \A p \in 3 .. l : \E i \in 1 .. n : at[i] <= p /\ p < at[i + 1]
  BY <1>1 DEF Layout
<1>9. \A i \in 1 .. n :
        /\ at[i + 1] = at[i] + 1 + Len(Results(AnswerOf(api, given[i])))
        /\ kept[at[i]] = AnswerOf(api, given[i])
        /\ \A k \in 1 .. Len(Results(AnswerOf(api, given[i]))) : kept[at[i] + k] = Results(AnswerOf(api, given[i]))[k]
  BY <1>1 DEF Layout
<1>10. \A i \in 1 .. n : Len(Results(AnswerOf(api, given[i]))) \in Nat
  <2> TAKE i \in 1 .. n
  <2>1. given[i] \in Answered_By(api)
    BY LenProperties DEF WireInv
  <2>2. QED BY <2>1, AnswerIsKept, ResultsFollow DEF WireInv
<1>11. kept'[1].role = "system" /\ kept'[2] = Asked
  BY <1>5, <1>7 DEF WireInv
<1> DEFINE new == [i \in 1 .. n + 2 |-> IF i <= n + 1 THEN at[i] ELSE l + 2 + r]
<1> HIDE DEF n, l
<1>12. /\ new \in [1 .. n + 2 -> Nat] /\ new[n + 2] = l + 2 + r
       /\ \A i \in 1 .. n + 1 : new[i] = at[i]
  <2>1. \A i \in 1 .. n + 2 : (IF i <= n + 1 THEN at[i] ELSE l + 2 + r) \in Nat
    BY <1>3, <1>5, <1>8
  <2>2. QED BY <1>3, <1>5, <2>1
<1> HIDE DEF new
<1>13. \A i \in 1 .. n + 1 : at[i] <= l + 1
  <2> TAKE i \in 1 .. n + 1
  <2>1. i < n + 1 \/ i = n + 1
    BY <1>5
  <2>2. at[i] \in Nat /\ n + 1 \in 1 .. n + 1
    BY <1>5, <1>8
  <2>3. QED BY <1>5, <1>8, <2>1, <2>2
<1>14. \A i, j \in 1 .. n + 2 : i < j => new[i] < new[j]
  <2> SUFFICES ASSUME NEW i \in 1 .. n + 2, NEW j \in 1 .. n + 2, i < j PROVE new[i] < new[j]
    OBVIOUS
  <2>1. i \in 1 .. n + 1
    BY <1>5
  <2>2. CASE j = n + 2
    <3>1. at[i] \in Nat /\ at[i] <= l + 1
      BY <1>8, <1>13, <2>1
    <3>2. QED BY <1>3, <1>5, <1>12, <2>1, <2>2, <3>1
  <2>3. CASE j # n + 2
    <3>1. j \in 1 .. n + 1
      BY <1>5, <2>3
    <3>2. QED BY <1>8, <1>12, <2>1, <3>1
  <2>4. QED BY <2>2, <2>3
<1>15. \A p \in 3 .. l + 1 + r : \E i \in 1 .. n + 1 : new[i] <= p /\ p < new[i + 1]
  <2> TAKE p \in 3 .. l + 1 + r
  <2>1. CASE p <= l
    <3>1. p \in 3 .. l
      BY <2>1
    <3>2. PICK i \in 1 .. n : at[i] <= p /\ p < at[i + 1]
      BY <1>8, <3>1
    <3>3. i \in 1 .. n + 1 /\ i + 1 \in 1 .. n + 1
      BY <1>5
    <3>4. QED BY <1>12, <3>2, <3>3
  <2>2. CASE ~ (p <= l)
    <3>1. n + 1 \in 1 .. n + 1 /\ new[n + 1] = l + 1 /\ (n + 1) + 1 = n + 2
      BY <1>5, <1>8, <1>12
    <3>2. l + 1 <= p /\ p < l + 2 + r
      BY <1>3, <1>5, <2>2
    <3>3. QED BY <1>12, <3>1, <3>2
  <2>3. QED BY <2>1, <2>2
<1>17. ASSUME NEW i \in 1 .. n + 1
       PROVE  LET x == AnswerOf(api, given'[i])
              IN  /\ new[i + 1] = new[i] + 1 + Len(Results(x))
                  /\ kept'[new[i]] = x
                  /\ \A k \in 1 .. Len(Results(x)) : kept'[new[i] + k] = Results(x)[k]
  <2>1. CASE i = n + 1
    <3>1. AnswerOf(api, given'[i]) = m
      BY <1>6, <2>1 DEF m
    <3>2. new[i] = l + 1 /\ new[i + 1] = l + 2 + r
      BY <1>5, <1>8, <1>12, <2>1
    <3>3. l + 2 + r = (l + 1) + 1 + r
      BY <1>3, <1>5
    <3>4. r = Len(Results(m)) /\ rs = Results(m)
      BY DEF r, rs
    <3>5. QED BY <1>7, <3>1, <3>2, <3>3, <3>4
  <2>2. CASE i # n + 1
    <3>1. i \in 1 .. n /\ i + 1 \in 1 .. n + 1
      BY <1>5, <2>2
    <3>2. PICK x : x = AnswerOf(api, given[i])
      OBVIOUS
    <3>3. given'[i] = given[i] /\ new[i] = at[i] /\ new[i + 1] = at[i + 1]
      BY <1>6, <1>12, <3>1
    <3>4. at[i + 1] = at[i] + 1 + Len(Results(x)) /\ Len(Results(x)) \in Nat
      BY <1>9, <1>10, <3>1, <3>2
    <3>5. at[i] \in Nat /\ at[i + 1] <= l + 1
      BY <1>8, <1>13, <3>1
    <3>6. 1 <= at[i]
      <4>1. 1 \in 1 .. n + 1 /\ (i = 1 \/ 1 < i)
        BY <1>5
      <4>2. at[1] < at[i] \/ i = 1
        BY <1>8, <4>1
      <4>3. QED BY <1>8, <3>5, <4>2
    <3>7. at[i] \in 1 .. l /\ \A k \in 1 .. Len(Results(x)) : at[i] + k \in 1 .. l
      BY <1>5, <3>4, <3>5, <3>6
    <3>8. kept[at[i]] = x /\ \A k \in 1 .. Len(Results(x)) : kept[at[i] + k] = Results(x)[k]
      BY <1>9, <3>1, <3>2
    <3>9. kept'[at[i]] = x /\ \A k \in 1 .. Len(Results(x)) : kept'[at[i] + k] = Results(x)[k]
      BY <1>7, <3>7, <3>8
    <3>10. QED BY <3>2, <3>3, <3>4, <3>9
  <2>3. QED BY <2>1, <2>2
<1>18. new[1] = 3 /\ new[n + 2] = Len(kept') + 1
  <2>1. 1 \in 1 .. n + 1 /\ l + 2 + r = (l + 1 + r) + 1
    BY <1>3, <1>5
  <2>2. QED BY <1>7, <1>8, <1>12, <2>1
<1>19. Layout(new, api, given', kept')
  <2>1. Len(given') + 1 = n + 2 /\ Len(given') = n + 1 /\ Len(kept') = l + 1 + r
    BY <1>5, <1>6, <1>7
  <2>2. QED BY <1>12, <1>14, <1>15, <1>17, <1>18, <2>1 DEF Layout
<1>20. Len(kept') >= 2
  BY <1>3, <1>5, <1>7
<1>21. QED BY <1>4, <1>6, <1>7, <1>11, <1>19, <1>20 DEF WireInv

LEMMA WireGoesOn == WireInv /\ [WireNext]_wireVars => WireInv'
<1> SUFFICES ASSUME WireInv, [WireNext]_wireVars PROVE WireInv'
  OBVIOUS
<1>1. CASE AnthropicAnswers
  <2>0. PICK n \in 0 .. MaxBlocks : \E content \in [1 .. n -> Blocks] : Take(content, AnthropicAnswer(content))
    BY <1>1 DEF AnthropicAnswers
  <2>1. PICK content \in [1 .. n -> Blocks] : Take(content, AnthropicAnswer(content))
    BY <2>0
  <2>2. n \in Nat
    BY WireBounds
  <2>3. content \in Seq(Blocks)
    BY <2>1, <2>2, SeqDef
  <2>4. api = "anthropic"
    BY <1>1 DEF AnthropicAnswers
  <2>5. content \in Answered_By(api) /\ AnswerOf(api, content) = AnthropicAnswer(content)
    BY <2>3, <2>4 DEF Answered_By, AnswerOf
  <2>6. QED BY <2>1, <2>5, WireTakes
<1>2. CASE OpenAiAnswers
  <2>0. PICK n \in 0 .. MaxBlocks : \E body \in [text : Texts_Given, calls : [1 .. n -> Calls_Given]] :
          Take(body, OpenAiAnswer(body))
    BY <1>2 DEF OpenAiAnswers
  <2>1. PICK body \in [text : Texts_Given, calls : [1 .. n -> Calls_Given]] : Take(body, OpenAiAnswer(body))
    BY <2>0
  <2>2. n \in Nat
    BY WireBounds
  <2>3. [1 .. n -> Calls_Given] \subseteq Seq(Calls_Given)
    BY <2>2, SeqDef
  <2>4. body \in Bodies
    BY <2>1, <2>3 DEF Bodies
  <2>5. api = "openai-compatible"
    BY <1>2 DEF OpenAiAnswers
  <2>6. body \in Answered_By(api) /\ AnswerOf(api, body) = OpenAiAnswer(body)
    BY <2>4, <2>5 DEF Answered_By, AnswerOf
  <2>7. QED BY <2>1, <2>6, WireTakes
<1>3. CASE UNCHANGED wireVars
  BY <1>3 DEF wireVars, WireInv
<1>4. QED BY <1>1, <1>2, <1>3 DEF WireNext

-----------------------------------------------------------------------------
(* The answers are the messages of the assistant, and only the first       *)
(* message is of the system.                                               *)
LEMMA AnswersStand ==
  ASSUME WireInv, NEW at, Layout(at, api, given, kept)
  PROVE  /\ Len(given) \in Nat /\ Len(kept) \in Nat /\ Len(kept) >= 2
         /\ \A i \in 1 .. Len(given) :
              /\ given[i] \in Answered_By(api)
              /\ AnswerOf(api, given[i]) \in KeptMessages
              /\ at[i] \in 3 .. Len(kept)
              /\ \A k \in 1 .. Len(Results(AnswerOf(api, given[i]))) : at[i] + k \in 3 .. Len(kept)
         /\ \A p \in 1 .. Len(kept) :
              /\ kept[p] \in KeptMessages
              /\ kept[p].role = "system" <=> p = 1
              /\ kept[p].role = "assistant" <=> \E i \in 1 .. Len(given) : p = at[i]
<1> DEFINE n == Len(given)
           l == Len(kept)
<1>1. n \in Nat /\ l \in Nat /\ l >= 2 /\ \A p \in 1 .. l : kept[p] \in KeptMessages
  BY LenProperties DEF WireInv
<1>2. \A i \in 1 .. n : given[i] \in Answered_By(api)
  BY LenProperties DEF WireInv
<1>3. kept[1].role = "system" /\ kept[2].role = "user"
  BY DEF WireInv, Asked, Kept
<1>4. /\ at \in [1 .. n + 1 -> Nat] /\ at[1] = 3 /\ at[n + 1] = l + 1
      /\ \A i, j \in 1 .. n + 1 : i < j => at[i] < at[j]
      /\ \A p \in 3 .. l : \E i \in 1 .. n : at[i] <= p /\ p < at[i + 1]
  BY DEF Layout
<1> HIDE DEF n, l
<1>5. ASSUME NEW i \in 1 .. n, NEW m, m = AnswerOf(api, given[i])
      PROVE  /\ m \in KeptMessages /\ m.role = "assistant"
             /\ at[i] \in 3 .. l /\ at[i + 1] = at[i] + 1 + Len(Results(m))
             /\ Len(Results(m)) \in Nat
             /\ \A k \in 1 .. Len(Results(m)) : at[i] + k \in 3 .. l
             /\ kept[at[i]].role = "assistant"
             /\ \A k \in 1 .. Len(Results(m)) : kept[at[i] + k].role \in {"user", "tool"}
  <2>1. m \in KeptMessages /\ m.role = "assistant"
    BY <1>2, <1>5, AnswerIsKept DEF WireInv
  <2>2. /\ at[i + 1] = at[i] + 1 + Len(Results(m)) /\ kept[at[i]] = m
        /\ \A k \in 1 .. Len(Results(m)) : kept[at[i] + k] = Results(m)[k]
    BY <1>5 DEF Layout, n
  <2>3. Len(Results(m)) \in Nat \ {0} /\ \A k \in 1 .. Len(Results(m)) : Results(m)[k].role \in {"user", "tool"}
    BY <2>1, ResultsFollow
  <2>4. i \in 1 .. n + 1 /\ i + 1 \in 1 .. n + 1 /\ 1 \in 1 .. n + 1 /\ n + 1 \in 1 .. n + 1
    BY <1>1
  <2>5. at[i] \in Nat /\ at[i + 1] \in Nat
    BY <1>4, <2>4
  <2>6. at[1] < at[i] \/ i = 1
    BY <1>4, <2>4
  <2>7. at[i + 1] < at[n + 1] \/ i + 1 = n + 1
    <3>1. i + 1 < n + 1 \/ i + 1 = n + 1
      BY <1>1
    <3>2. QED BY <1>4, <2>4, <3>1
  <2>8. 3 <= at[i] /\ at[i + 1] <= l + 1
    BY <1>1, <1>4, <2>5, <2>6, <2>7
  <2>9. at[i] \in 3 .. l /\ \A k \in 1 .. Len(Results(m)) : at[i] + k \in 3 .. l
    BY <1>1, <2>2, <2>3, <2>5, <2>8
  <2>10. QED BY <2>1, <2>2, <2>3, <2>9
<1>6. ASSUME NEW p \in 1 .. l
      PROVE  /\ kept[p].role = "system" <=> p = 1
             /\ kept[p].role = "assistant" <=> \E i \in 1 .. n : p = at[i]
  <2>1. CASE p = 1 \/ p = 2
    <3>1. \A i \in 1 .. n : at[i] # p
      BY <1>5, <2>1
    <3>2. QED BY <1>3, <2>1, <3>1
  <2>2. CASE ~ (p = 1 \/ p = 2)
    <3>1. p \in 3 .. l
      BY <2>2
    <3>2. PICK i \in 1 .. n : at[i] <= p /\ p < at[i + 1]
      BY <1>4, <3>1
    <3>3. PICK m : m = AnswerOf(api, given[i])
      OBVIOUS
    <3>4. /\ at[i] \in 3 .. l /\ at[i + 1] = at[i] + 1 + Len(Results(m)) /\ Len(Results(m)) \in Nat
          /\ kept[at[i]].role = "assistant"
          /\ \A k \in 1 .. Len(Results(m)) : kept[at[i] + k].role \in {"user", "tool"}
      BY <1>5, <3>3
    <3>5. CASE p = at[i]
      BY <2>2, <3>4, <3>5
    <3>6. CASE p # at[i]
      <4>1. p - at[i] \in 1 .. Len(Results(m)) /\ at[i] + (p - at[i]) = p
        BY <3>1, <3>2, <3>4, <3>6
      <4>2. kept[p].role \in {"user", "tool"}
        BY <3>4, <4>1
      <4>3. \A j \in 1 .. n : p # at[j]
        BY <1>5, <4>2
      <4>4. QED BY <2>2, <4>2, <4>3
    <3>7. QED BY <3>5, <3>6
  <2>3. QED BY <2>1, <2>2
<1>7. QED BY <1>1, <1>2, <1>5, <1>6 DEF n, l

(* A request has the answers where they are kept, those to Anthropic one   *)
(* place earlier; what follows each of them is what followed it.           *)
LEMMA SentAnswers ==
  ASSUME WireInv, NEW at, Layout(at, api, given, kept), NEW d \in {0, 1}, NEW S, NEW sent \in Seq(S),
         Len(sent) = Len(kept) - d,
         \A p \in 1 .. Len(sent) : sent[p].role = "assistant" <=> kept[p + d].role = "assistant"
  PROVE  /\ Cardinality(Answer_Positions(sent)) = Len(given)
         /\ \A i \in 1 .. Len(given) :
              /\ Answer_Position(sent, i) = at[i] - d
              /\ Following(sent, i) \in Seq(S)
              /\ Len(Following(sent, i)) = Len(Results(AnswerOf(api, given[i])))
              /\ \A k \in 1 .. Len(Results(AnswerOf(api, given[i]))) :
                    Following(sent, i)[k] = sent[at[i] - d + k]
<1> DEFINE n == Len(given)
           l == Len(kept)
           f == [i \in 1 .. n |-> at[i] - d]
           P == Answer_Positions(sent)
<1>1. /\ n \in Nat /\ l \in Nat /\ l >= 2
      /\ \A i \in 1 .. n :
           /\ AnswerOf(api, given[i]) \in KeptMessages
           /\ at[i] \in 3 .. l
      /\ \A p \in 1 .. l : kept[p].role = "assistant" <=> \E i \in 1 .. n : p = at[i]
  BY AnswersStand
<1>2. /\ at \in [1 .. n + 1 -> Nat] /\ at[n + 1] = l + 1
      /\ \A i, j \in 1 .. n + 1 : i < j => at[i] < at[j]
      /\ \A i \in 1 .. n : at[i + 1] = at[i] + 1 + Len(Results(AnswerOf(api, given[i])))
  BY DEF Layout
<1>3. Len(sent) = l - d /\ DOMAIN sent = 1 .. l - d /\ \A p \in 1 .. l - d : sent[p] \in S
  BY LenProperties
<1>4. \A p \in 1 .. l - d : sent[p].role = "assistant" <=> kept[p + d].role = "assistant"
  BY <1>3
<1> HIDE DEF n, l
<1>5. f \in [1 .. n -> Nat] /\ \A i, j \in 1 .. n : i < j => f[i] < f[j]
  <2>1. \A i \in 1 .. n : at[i] - d \in Nat /\ i \in 1 .. n + 1
    BY <1>1
  <2>2. \A i \in 1 .. n : f[i] = at[i] - d
    OBVIOUS
  <2>3. f \in [1 .. n -> Nat]
    BY <2>1
  <2> HIDE DEF f
  <2>4. \A i, j \in 1 .. n : i < j => f[i] < f[j]
    BY <1>1, <1>2, <2>1, <2>2
  <2>5. QED BY <2>3, <2>4
<1>6. \A i \in 1 .. n : f[i] = at[i] - d
  OBVIOUS
<1> HIDE DEF f
<1>7. P = ValuesOf(f, n)
  <2>1. ASSUME NEW p \in P PROVE p \in ValuesOf(f, n)
    <3>1. p \in 1 .. l - d /\ kept[p + d].role = "assistant"
      BY <1>3, <1>4, <2>1 DEF Answer_Positions
    <3>2. p + d \in 1 .. l
      BY <1>1, <3>1
    <3>3. PICK i \in 1 .. n : p + d = at[i]
      BY <1>1, <3>1, <3>2
    <3>4. p = at[i] - d
      BY <1>1, <3>1, <3>3
    <3>5. QED BY <1>6, <3>4 DEF ValuesOf
  <2>2. ASSUME NEW i \in 1 .. n PROVE f[i] \in P
    <3>1. at[i] \in 3 .. l /\ at[i] \in 1 .. l /\ f[i] = at[i] - d
      BY <1>1, <1>6
    <3>2. f[i] \in 1 .. l - d /\ f[i] + d = at[i]
      BY <1>1, <3>1
    <3>3. sent[f[i]].role = "assistant"
      BY <1>1, <1>4, <3>1, <3>2
    <3>4. QED BY <1>3, <3>2, <3>3 DEF Answer_Positions
  <2> HIDE DEF P
  <2>3. QED BY <2>1, <2>2 DEF ValuesOf
<1> HIDE DEF P
<1>8. Cardinality(P) = n /\ \A i \in 1 .. n : Arranged(P, {p \in P \X P : p[1] < p[2]})[i] = f[i]
  <2>1. f \in [1 .. n -> Nat]
    BY <1>5
  <2>2. \A i, j \in 1 .. n : i < j => f[i] < f[j]
    BY <1>5
  <2>3. n \in Nat
    BY <1>1
  <2>4. QED BY ONLY <2>1, <2>2, <2>3, <1>7, ArrangedIncreasing
<1>9. \A i \in 1 .. n : Answer_Position(sent, i) = at[i] - d
  BY <1>6, <1>8 DEF Answer_Position, P
<1>10. ASSUME NEW i \in 1 .. n, NEW r, r = Len(Results(AnswerOf(api, given[i])))
       PROVE  /\ Following(sent, i) \in Seq(S)
              /\ Len(Following(sent, i)) = r
              /\ \A k \in 1 .. r : Following(sent, i)[k] = sent[at[i] - d + k]
  <2>1. r \in Nat \ {0}
    BY <1>1, <1>10, ResultsFollow
  <2> DEFINE a == at[i] - d + 1
             b == at[i] - d + r
  <2>2. at[i] \in 3 .. l /\ at[i + 1] = at[i] + 1 + r /\ at[i + 1] \in Nat /\ at[i + 1] <= l + 1
    <3>1. i + 1 \in 1 .. n + 1 /\ n + 1 \in 1 .. n + 1 /\ (i + 1 = n + 1 \/ i + 1 < n + 1)
      BY <1>1
    <3>2. at[i + 1] \in Nat /\ (at[i + 1] < at[n + 1] \/ i + 1 = n + 1)
      BY <1>2, <3>1
    <3>3. at[i + 1] <= l + 1
      BY <1>1, <1>2, <3>2
    <3>4. QED BY <1>1, <1>2, <1>10, <3>2, <3>3
  <2>3. PICK x \in Nat : x = at[i] /\ x >= 3 /\ at[i + 1] = x + 1 + r /\ x + 1 + r <= l + 1
    BY <1>1, <2>1, <2>2
  <2>4. d \in Int /\ d <= 1 /\ 0 <= d /\ l \in Nat
    BY <1>1
  <2> DEFINE y == x - d
  <2> HIDE DEF y
  <2>10. y \in Nat /\ y >= 2 /\ l - d \in Nat /\ y + r <= l - d /\ at[i] - d = y /\ at[i + 1] - d = y + 1 + r
    <3>1. x >= 3 /\ x + 1 + r <= l + 1
      BY <2>3
    <3>2. y \in Nat /\ y >= 2 /\ l - d \in Nat /\ y + r <= l - d /\ (x + 1 + r) - d = y + 1 + r
      <4>1. CASE d = 0
        BY ONLY <2>1, <2>3, <2>4, <3>1, <4>1 DEF y
      <4>2. CASE d = 1
        <5>1. x \in Nat /\ r \in Nat /\ l \in Nat /\ r >= 1
          BY <2>1, <2>3, <2>4
        <5>2. y = x - 1
          BY <4>2 DEF y
        <5>3. l >= x + r
          BY <3>1, <5>1
        <5>4. y \in Nat /\ y >= 2
          BY <3>1, <5>1, <5>2
        <5>5. l - 1 \in Nat /\ y + r <= l - 1 /\ (x + 1 + r) - 1 = y + 1 + r
          BY <3>1, <5>1, <5>2, <5>3
        <5>6. QED BY <4>2, <5>4, <5>5
      <4>3. QED BY <4>1, <4>2
    <3>3. QED BY <2>3, <3>2 DEF y
  <2>11. a = y + 1 /\ b = y + r
    BY <2>10
  <2> HIDE DEF a, b
  <2>5. Following(sent, i) = SubSeq(sent, a, b)
    <3>1. CASE i = n
      <4>1. at[i + 1] = l + 1
        BY <1>2, <3>1
      <4>2. l - d = b
        BY <2>1, <2>10, <2>11, <2>3, <2>4, <4>1
      <4>3. QED BY <1>3, <1>9, <3>1, <4>2 DEF Following, n, a
    <3>2. CASE i # n
      <4>1. i + 1 \in 1 .. n
        BY <1>1, <3>2
      <4>2. Answer_Position(sent, i + 1) = at[i + 1] - d
        BY <1>9, <4>1
      <4>3. (at[i + 1] - d) - 1 = b
        BY <2>1, <2>10, <2>11
      <4>4. QED BY <1>9, <3>2, <4>2, <4>3 DEF Following, n, a
    <3>3. QED BY <3>1, <3>2
  <2>6. a \in Int /\ b \in Int /\ a <= b /\ b - a + 1 = r /\ \A j \in a .. b : j \in 1 .. l - d
    BY <2>1, <2>10, <2>11
  <2>7. \A k \in 1 .. r : a + k - 1 = at[i] - d + k
    BY <2>1, <2>10, <2>11
  <2>8. /\ SubSeq(sent, a, b) \in Seq(S)
        /\ Len(SubSeq(sent, a, b)) = IF a <= b THEN b - a + 1 ELSE 0
        /\ \A k \in 1 .. b - a + 1 : SubSeq(sent, a, b)[k] = sent[a + k - 1]
    BY <1>3, <2>6, SubSeqProperties
  <2>9. QED BY <2>5, <2>6, <2>7, <2>8
<1>11. QED BY <1>8, <1>9, <1>10 DEF n, P

(* An answer of Anthropic goes back with its calls, and only words beside  *)
(* them.                                                                   *)
LEMMA AnthropicEchoes ==
  ASSUME NEW content \in Seq(Blocks), NEW m, m = AnthropicAnswer(content),
         NEW echoed, echoed = AnthropicMessage(m).content
  PROVE  /\ Selected(echoed, "tool_use") = CallsMade(content)
         /\ CallsMade(content) # <<>> =>
              \A b \in DOMAIN echoed : echoed[b].type = "text" => echoed[b].text = "words"
         /\ TextBlock("words") \in {content[b] : b \in DOMAIN content}
              => TextBlock("words") \in {echoed[b] : b \in DOMAIN echoed}
<1> DEFINE made == CallsMade(content)
           Made == [type : {"tool_use"}, id : CallIds]
<1>1. /\ m \in KeptMessages /\ m.role = "assistant" /\ m.calls \in Seq(KeptCalls)
      /\ Len(m.calls) = Len(made)
      /\ \A k \in 1 .. Len(made) : m.calls[k].id = made[k].id
      /\ TextBlock("words") \in {content[b] : b \in DOMAIN content} => m.text = "words"
  BY AnthropicKept DEF KeptMessages
<1>2. made \in Seq(Made)
  BY CallsMadeAre
<1>3. echoed = IF m.calls = <<>> THEN <<TextBlock(m.text)>> ELSE AnthropicBlocks(m)
  <2>1. AnthropicMessage(m) =
          Wired("assistant", IF m.calls = <<>> THEN <<TextBlock(m.text)>> ELSE AnthropicBlocks(m))
    BY <1>1 DEF AnthropicMessage
  <2>2. QED BY <2>1 DEF Wired
<1> HIDE DEF made
<1>4. PICK c \in Nat : c = Len(made) /\ c = Len(m.calls) /\ DOMAIN made = 1 .. c /\ DOMAIN m.calls = 1 .. c
  BY <1>1, <1>2, LenProperties
<1>5. \A k \in 1 .. c : made[k] = ToolUse(m.calls[k])
  <2> TAKE k \in 1 .. c
  <2>1. made[k] \in Made
    BY <1>2, <1>4, LenProperties
  <2>2. made[k] = [type |-> "tool_use", id |-> made[k].id]
    BY <2>1
  <2>3. m.calls[k].id = made[k].id
    BY <1>1, <1>4
  <2>4. QED BY <2>2, <2>3 DEF ToolUse
<1>6. CASE c = 0
  <2>1. m.calls = <<>> /\ made = <<>>
    BY <1>1, <1>2, <1>4, <1>6, EmptySeq
  <2>2. echoed = <<TextBlock(m.text)>>
    BY <1>3, <2>1
  <2>3. Selected(echoed, "tool_use") = <<>>
    <3>1. DOMAIN echoed = 1 .. 1 /\ echoed[1].type = "text"
      BY <2>2 DEF TextBlock
    <3>2. {i \in DOMAIN echoed : echoed[i].type = "tool_use"} = Ending(0, 0)
      BY <3>1 DEF Ending
    <3>3. Selected(echoed, "tool_use") = Picked(echoed, Ending(0, 0))
      BY <3>2 DEF Selected
    <3>4. 0 \in Nat
      OBVIOUS
    <3>5. Picked(echoed, Ending(0, 0)) = EndOf(echoed, 0, 0)
      BY ONLY <3>4, PickedEnd
    <3>6. QED BY <3>3, <3>5 DEF EndOf
  <2>4. m.text = "words" => TextBlock("words") \in {echoed[b] : b \in DOMAIN echoed}
    BY <2>2
  <2>5. QED BY <1>1, <2>1, <2>3, <2>4 DEF made
<1>7. CASE c # 0
  <2> DEFINE pre == IF m.text = "words" THEN <<TextBlock(m.text)>> ELSE <<>>
             uses == [k \in 1 .. c |-> ToolUse(m.calls[k])]
             All == {TextBlock("words")} \cup {ToolUse(m.calls[k]) : k \in 1 .. c}
  <2>1. m.calls # <<>> /\ made # <<>>
    BY <1>1, <1>2, <1>4, <1>7, EmptySeq
  <2>2. echoed = pre \o uses
    BY <1>3, <1>4, <2>1 DEF AnthropicBlocks
  <2>3. /\ uses \in Seq(All) /\ Len(uses) = c
        /\ \A k \in 1 .. c : uses[k] = ToolUse(m.calls[k])
    <3>1. \A k \in 1 .. c : ToolUse(m.calls[k]) \in All
      OBVIOUS
    <3> HIDE DEF All
    <3>2. uses \in Seq(All)
      BY <3>1, IsASeq
    <3>3. QED BY <3>2, LenProperties
  <2>4. /\ pre \in Seq(All) /\ Len(pre) \in {0, 1}
        /\ Len(pre) = 1 => pre[1] = TextBlock("words") /\ m.text = "words"
        /\ m.text = "words" => Len(pre) = 1
    <3>1. CASE m.text = "words"
      BY <3>1
    <3>2. CASE m.text # "words"
      BY <3>2, EmptySeq
    <3>3. QED BY <3>1, <3>2
  <2> HIDE DEF pre, uses, All
  <2>5. PICK q \in Nat : q = Len(pre) /\ q <= 1
    <3>1. CASE Len(pre) = 0
      BY <3>1
    <3>2. CASE Len(pre) = 1
      BY <3>2
    <3>3. QED BY <2>4, <3>1, <3>2
  <2>6. /\ DOMAIN echoed = 1 .. q + c
        /\ \A i \in 1 .. q + c : echoed[i] = IF i <= q THEN pre[i] ELSE uses[i - q]
    <3>1. /\ echoed \in Seq(All) /\ Len(echoed) = q + c
          /\ \A i \in 1 .. q + c : echoed[i] = IF i <= q THEN pre[i] ELSE uses[i - q]
      <4>1. pre \in Seq(All) /\ uses \in Seq(All) /\ Len(pre) = q /\ Len(uses) = c
        BY <2>3, <2>4, <2>5
      <4>2. /\ pre \o uses \in Seq(All) /\ Len(pre \o uses) = Len(pre) + Len(uses)
            /\ \A i \in 1 .. Len(pre) + Len(uses) :
                 (pre \o uses)[i] = IF i <= Len(pre) THEN pre[i] ELSE uses[i - Len(pre)]
        BY <4>1, ConcatProperties
      <4>3. QED BY <2>2, <4>1, <4>2
    <3>2. QED BY <3>1, LenProperties
  <2>7. \A i \in 1 .. q : i = 1 /\ q = 1 /\ echoed[i] = TextBlock("words")
    <3> TAKE i \in 1 .. q
    <3>1. i = 1 /\ q = 1
      BY <2>5
    <3>2. i \in 1 .. q + c /\ i <= q
      BY <3>1
    <3>3. QED BY <2>4, <2>5, <2>6, <3>1, <3>2
  <2>8. \A k \in 1 .. c : q + k \in 1 .. q + c /\ echoed[q + k] = ToolUse(m.calls[k])
    <3> TAKE k \in 1 .. c
    <3>1. q + k \in 1 .. q + c /\ ~ (q + k <= q) /\ (q + k) - q = k
      OBVIOUS
    <3>2. QED BY <2>3, <2>6, <3>1
  <2>9. {i \in DOMAIN echoed : echoed[i].type = "tool_use"} = (q + 1) .. (q + c)
    <3>1. ASSUME NEW i \in 1 .. q + c PROVE echoed[i].type = "tool_use" <=> i \in (q + 1) .. (q + c)
      <4>1. CASE i \in 1 .. q
        BY <2>7, <4>1 DEF TextBlock
      <4>2. CASE i \notin 1 .. q
        <5>1. PICK k \in 1 .. c : i = q + k
          <6>1. i - q \in 1 .. c /\ i = q + (i - q)
            BY <4>2
          <6>2. QED BY <6>1
        <5>2. echoed[i] = ToolUse(m.calls[k])
          BY <2>8, <5>1
        <5>3. i \in (q + 1) .. (q + c)
          BY <5>1
        <5>4. QED BY <5>2, <5>3 DEF ToolUse
      <4>3. QED BY <4>1, <4>2
    <3>2. (q + 1) .. (q + c) \subseteq 1 .. q + c
      OBVIOUS
    <3>3. QED BY <2>6, <3>1, <3>2
  <2>10. Selected(echoed, "tool_use") = made
    <3>1. Selected(echoed, "tool_use") = Picked(echoed, (q + 1) .. (q + c))
      BY <2>9 DEF Selected
    <3>2. Picked(echoed, (q + 1) .. (q + c)) = [k \in 1 .. c |-> echoed[q + k]]
      <4>1. Picked(echoed, Ending(q, c)) = EndOf(echoed, q, c)
        BY ONLY q \in Nat, c \in Nat, PickedEnd
      <4>2. QED BY <4>1 DEF Ending, EndOf
    <3>3. \A k \in 1 .. c : echoed[q + k] = made[k]
      BY <1>5, <2>8
    <3>4. made = [k \in 1 .. c |-> made[k]]
      BY <1>2, <1>4
    <3>5. QED BY <3>1, <3>2, <3>3, <3>4
  <2>11. \A b \in DOMAIN echoed : echoed[b].type = "text" => echoed[b].text = "words"
    <3>1. ASSUME NEW i \in 1 .. q + c, echoed[i].type = "text" PROVE echoed[i].text = "words"
      <4>1. i \in 1 .. q
        <5>1. i \in DOMAIN echoed /\ echoed[i].type # "tool_use"
          BY <2>6, <3>1
        <5>2. i \notin (q + 1) .. (q + c)
          BY <2>9, <3>1, <5>1
        <5>3. QED BY <5>2
      <4>2. QED BY <2>7, <4>1 DEF TextBlock
    <3>2. QED BY <2>6, <3>1
  <2>12. m.text = "words" => TextBlock("words") \in {echoed[b] : b \in DOMAIN echoed}
    <3> SUFFICES ASSUME m.text = "words" PROVE \E b \in DOMAIN echoed : echoed[b] = TextBlock("words")
      OBVIOUS
    <3>1. q = 1
      BY <2>4, <2>5
    <3>2. 1 \in 1 .. q /\ 1 \in 1 .. q + c
      BY <3>1
    <3>3. QED BY <2>6, <2>7, <3>2
  <2>13. QED BY <1>1, <2>10, <2>11, <2>12 DEF made
<1>8. QED BY <1>6, <1>7

LEMMA AnthropicIsEchoed == WireInv /\ api = "anthropic" => AnthropicSeesItsCalls
<1> SUFFICES ASSUME WireInv, api = "anthropic" PROVE AnthropicSeesItsCalls
  OBVIOUS
<1> DEFINE sent == AnthropicMessages(kept)
           l == Len(kept)
           S == {AnthropicMessage(m) : m \in KeptMessages}
<1>1. PICK at : Layout(at, api, given, kept)
  BY DEF WireInv
<1>2. /\ Len(given) \in Nat /\ l \in Nat /\ l >= 2
      /\ \A p \in 1 .. l : kept[p] \in KeptMessages /\ (kept[p].role = "system" <=> p = 1)
  BY <1>1, AnswersStand
<1>3. DOMAIN kept = 1 .. l
  BY LenProperties DEF WireInv
<1>4. Len(System(kept)) = 1
  <2>1. {i \in DOMAIN kept : kept[i].role = "system"} = 1 .. 1
    BY <1>2, <1>3
  <2>2. System(kept) = [i \in 1 .. 1 |-> kept[i]]
    <3>1. System(kept) = Picked(kept, 1 .. 1)
      BY <2>1 DEF System
    <3>2. PICK z \in Nat : z = 1 /\ z \in 0 .. z
      OBVIOUS
    <3>3. Picked(kept, 1 .. z) = [i \in 1 .. z |-> kept[i]]
      BY <3>2, PickedBeginning
    <3>4. QED BY <3>1, <3>2, <3>3
  <2>3. [i \in 1 .. 1 |-> kept[i]] \in Seq(KeptMessages)
    <3>1. \A i \in 1 .. 1 : kept[i] \in KeptMessages
      BY <1>2
    <3>2. QED BY <3>1, IsASeq
  <2>4. QED BY <2>2, <2>3, LenProperties
<1>5. sent = [p \in 1 .. l - 1 |-> AnthropicMessage(kept[p + 1])]
  <2>1. {i \in DOMAIN kept : kept[i].role # "system"} = (1 + 1) .. (1 + (l - 1))
    BY <1>2, <1>3
  <2>2. l - 1 \in Nat
    BY <1>2
  <2>3. Conversation(kept) = [p \in 1 .. l - 1 |-> kept[1 + p]]
    <3>1. Conversation(kept) = Picked(kept, (1 + 1) .. (1 + (l - 1)))
      BY <2>1 DEF Conversation
    <3> HIDE DEF l
    <3>2. 1 \in Nat
      OBVIOUS
    <3>3. Picked(kept, Ending(1, l - 1)) = EndOf(kept, 1, l - 1)
      BY ONLY <2>2, <3>2, PickedEnd
    <3>4. QED BY <3>1, <3>3 DEF Ending, EndOf
  <2>4. \A p \in 1 .. l - 1 : 1 + p = p + 1
    OBVIOUS
  <2>5. QED BY <2>3, <2>4 DEF AnthropicMessages
<1>6. \A p \in 1 .. l - 1 : p + 1 \in 1 .. l /\ p + 1 # 1
  BY <1>2
<1>7. sent \in Seq(S) /\ Len(sent) = l - 1
  <2>1. \A p \in 1 .. l - 1 : AnthropicMessage(kept[p + 1]) \in S
    BY <1>2, <1>6
  <2>2. l - 1 \in Nat
    BY <1>2
  <2> HIDE DEF S, sent, l
  <2>3. [p \in 1 .. l - 1 |-> AnthropicMessage(kept[p + 1])] \in Seq(S)
    BY <2>1, <2>2, IsASeq
  <2>4. QED BY <1>5, <2>2, <2>3, LenProperties
<1>8. \A p \in 1 .. l - 1 : sent[p] = AnthropicMessage(kept[p + 1])
  BY <1>5
<1>9. \A m \in KeptMessages : m.role # "system" =>
        (AnthropicMessage(m).role = "assistant" <=> m.role = "assistant")
  BY DEF AnthropicMessage, KeptMessages, Wired
<1> HIDE DEF sent, S, l
<1>10. \A p \in 1 .. Len(sent) : sent[p].role = "assistant" <=> kept[p + 1].role = "assistant"
  BY <1>2, <1>6, <1>7, <1>8, <1>9
<1>11. /\ Cardinality(Answer_Positions(sent)) = Len(given)
       /\ \A i \in 1 .. Len(given) :
            /\ Answer_Position(sent, i) = at[i] - 1
            /\ Following(sent, i) \in Seq(S)
            /\ Len(Following(sent, i)) = Len(Results(AnswerOf(api, given[i])))
            /\ \A k \in 1 .. Len(Results(AnswerOf(api, given[i]))) :
                  Following(sent, i)[k] = sent[at[i] - 1 + k]
  BY <1>1, <1>7, <1>10, SentAnswers DEF l
<1>12. sent[1].role = "user"
  <2>1. 1 \in 1 .. l - 1 /\ 1 + 1 = 2
    BY <1>2
  <2>2. sent[1] = AnthropicMessage(Asked)
    BY <1>8, <2>1 DEF WireInv
  <2>3. QED BY <2>2 DEF AnthropicMessage, Asked, Kept, Wired
<1>13. ASSUME NEW i \in 1 .. Len(given)
       PROVE  LET echoed == sent[Answer_Position(sent, i)].content
                  made == CallsMade(given[i])
                  follows == Following(sent, i)
              IN  /\ Selected(echoed, "tool_use") = made
                  /\ made # <<>> =>
                       /\ \A b \in DOMAIN echoed : echoed[b].type = "text" => echoed[b].text = "words"
                       /\ [k \in DOMAIN follows |-> follows[k].content[1].of] = IdsOf(made)
                  /\ made = <<>> => Len(follows) = 1 /\ follows[1].content[1].type = "text"
                  /\ TextBlock("words") \in {given[i][b] : b \in DOMAIN given[i]}
                       => TextBlock("words") \in {echoed[b] : b \in DOMAIN echoed}
  <2> DEFINE made == CallsMade(given[i])
             follows == Following(sent, i)
  <2>1. PICK m : m = AnthropicAnswer(given[i]) /\ m = AnswerOf(api, given[i])
    BY DEF AnswerOf
  <2>2. given[i] \in Seq(Blocks) /\ m \in KeptMessages /\ at[i] \in 3 .. l
        /\ \A k \in 1 .. Len(Results(m)) : at[i] + k \in 3 .. l
    BY <1>1, <2>1, AnswersStand DEF Answered_By, l
  <2>3. /\ Len(m.calls) = Len(made) /\ made \in Seq([type : {"tool_use"}, id : CallIds])
        /\ \A k \in 1 .. Len(made) : m.calls[k].id = made[k].id
    BY <2>1, <2>2, AnthropicKept, CallsMadeAre
  <2>4. kept[at[i]] = m /\ \A k \in 1 .. Len(Results(m)) : kept[at[i] + k] = Results(m)[k]
    BY <1>1, <2>1 DEF Layout
  <2>5. sent[Answer_Position(sent, i)] = AnthropicMessage(m)
    <3>1. at[i] - 1 \in 1 .. l - 1 /\ (at[i] - 1) + 1 = at[i]
      BY <1>2, <2>2
    <3>2. QED BY <1>8, <1>11, <2>4, <3>1
  <2>6. \A k \in 1 .. Len(Results(m)) : follows[k] = AnthropicMessage(Results(m)[k])
    <3> TAKE k \in 1 .. Len(Results(m))
    <3>1. follows[k] = sent[at[i] - 1 + k]
      BY <1>11, <2>1
    <3>2. at[i] - 1 + k \in 1 .. l - 1 /\ (at[i] - 1 + k) + 1 = at[i] + k
      <4>1. PICK r \in Nat : r = Len(Results(m))
        BY <2>2, ResultsFollow
      <4>2. k \in 1 .. r /\ at[i] \in Nat /\ at[i] >= 3 /\ at[i] + k <= l
        BY <2>2, <4>1
      <4>3. QED BY <1>2, <4>2
    <3>3. QED BY <1>8, <2>4, <3>1, <3>2
  <2>7. DOMAIN follows = 1 .. Len(Results(m)) /\ Len(follows) = Len(Results(m))
    BY <1>11, <2>1, LenProperties
  <2> HIDE DEF made, follows
  <2>8. made # <<>> => [k \in DOMAIN follows |-> follows[k].content[1].of] = IdsOf(made)
    <3> SUFFICES ASSUME made # <<>> PROVE [k \in DOMAIN follows |-> follows[k].content[1].of] = IdsOf(made)
      OBVIOUS
    <3>1. PICK c \in Nat : c = Len(made) /\ c # 0 /\ DOMAIN made = 1 .. c
      BY <2>3, LenProperties, EmptySeq
    <3>2. m.calls # <<>>
      BY <2>3, <3>1, EmptySeq
    <3>3. Len(Results(m)) = c /\ \A k \in 1 .. c : Results(m)[k] = Kept("tool", "words", <<>>, m.calls[k].id)
      BY <2>2, <2>3, <3>1, <3>2, ResultsFollow
    <3>4. \A id : AnthropicMessage(Kept("tool", "words", <<>>, id)).content[1].of = id
      BY DEF AnthropicMessage, Kept, Wired
    <3>5. \A k \in 1 .. c : follows[k].content[1].of = made[k].id
      BY <2>3, <2>6, <3>1, <3>3, <3>4
    <3>6. QED BY <2>7, <3>1, <3>3, <3>5 DEF IdsOf
  <2>9. made = <<>> => Len(follows) = 1 /\ follows[1].content[1].type = "text"
    <3> SUFFICES ASSUME made = <<>> PROVE Len(follows) = 1 /\ follows[1].content[1].type = "text"
      OBVIOUS
    <3>1. m.calls = <<>>
      BY <2>2, <2>3, EmptySeq DEF KeptMessages
    <3>2. Len(Results(m)) = 1 /\ Results(m)[1] = Asked
      BY <2>2, <3>1, ResultsFollow
    <3>3. follows[1] = AnthropicMessage(Asked)
      BY <2>6, <3>2
    <3>4. QED BY <2>7, <3>2, <3>3 DEF AnthropicMessage, Asked, Kept, Wired, TextBlock
  <2>10. PICK echoed : echoed = AnthropicMessage(m).content
    OBVIOUS
  <2>11. /\ Selected(echoed, "tool_use") = made
         /\ made # <<>> => \A b \in DOMAIN echoed : echoed[b].type = "text" => echoed[b].text = "words"
         /\ TextBlock("words") \in {given[i][b] : b \in DOMAIN given[i]}
              => TextBlock("words") \in {echoed[b] : b \in DOMAIN echoed}
    <3>1. given[i] \in Seq(Blocks) /\ m = AnthropicAnswer(given[i])
      BY <2>1, <2>2
    <3> HIDE DEF made
    <3>2. QED BY <2>10, <3>1, AnthropicEchoes DEF made
  <2>12. QED BY <2>5, <2>8, <2>9, <2>10, <2>11 DEF made, follows
<1>14. DOMAIN given = 1 .. Len(given)
  BY LenProperties DEF WireInv
<1>15. QED BY <1>4, <1>11, <1>12, <1>13, <1>14 DEF AnthropicSeesItsCalls, sent

LEMMA OthersAreEchoed == WireInv /\ api # "anthropic" => OthersSeeTheirCalls
<1> SUFFICES ASSUME WireInv, api # "anthropic" PROVE OthersSeeTheirCalls
  OBVIOUS
<1> DEFINE sent == OpenAiMessages(kept)
           l == Len(kept)
           S == {OpenAiMessage(m) : m \in KeptMessages}
<1>1. PICK at : Layout(at, api, given, kept)
  BY DEF WireInv
<1>2. Len(given) \in Nat /\ l \in Nat /\ \A p \in 1 .. l : kept[p] \in KeptMessages
  BY <1>1, AnswersStand
<1>3. DOMAIN kept = 1 .. l
  BY LenProperties DEF WireInv
<1>4. sent = [p \in 1 .. l |-> OpenAiMessage(kept[p])]
  BY <1>3 DEF OpenAiMessages
<1>5. sent \in Seq(S) /\ Len(sent) = l
  <2>1. \A p \in 1 .. l : OpenAiMessage(kept[p]) \in S
    BY <1>2
  <2> HIDE DEF S, sent, l
  <2>2. [p \in 1 .. l |-> OpenAiMessage(kept[p])] \in Seq(S)
    BY <1>2, <2>1, IsASeq
  <2>3. QED BY <1>2, <1>4, <2>2, LenProperties
<1>6. \A p \in 1 .. l : sent[p] = OpenAiMessage(kept[p])
  BY <1>4
<1> HIDE DEF sent, S, l
<1>7. \A m : OpenAiMessage(m).role = m.role /\ OpenAiMessage(m).calls = m.calls /\ OpenAiMessage(m).of = m.of
  BY DEF OpenAiMessage
<1>8. Len(sent) = l - 0 /\ \A p \in 1 .. Len(sent) : sent[p].role = "assistant" <=> kept[p + 0].role = "assistant"
  <2>1. l = l - 0 /\ \A p \in 1 .. l : p + 0 = p
    BY <1>2
  <2>2. QED BY <1>5, <1>6, <1>7, <2>1
<1>9. /\ Cardinality(Answer_Positions(sent)) = Len(given)
      /\ \A i \in 1 .. Len(given) :
           /\ Answer_Position(sent, i) = at[i] - 0
           /\ Following(sent, i) \in Seq(S)
           /\ Len(Following(sent, i)) = Len(Results(AnswerOf(api, given[i])))
           /\ \A k \in 1 .. Len(Results(AnswerOf(api, given[i]))) :
                 Following(sent, i)[k] = sent[at[i] - 0 + k]
  BY <1>1, <1>5, <1>8, SentAnswers DEF l
<1>10. ASSUME NEW i \in 1 .. Len(given)
       PROVE  LET echoed == sent[Answer_Position(sent, i)]
                  follows == Following(sent, i)
              IN  /\ IdsOf(echoed.calls) = IdsOf(given[i].calls)
                  /\ \A k \in DOMAIN echoed.calls :
                       \/ echoed.calls[k] = given[i].calls[k]
                       \/ given[i].calls[k].arguments = "unparsable"
                          /\ echoed.calls[k].extra = given[i].calls[k].extra
                  /\ echoed.text # given[i].text => echoed.calls # <<>> /\ given[i].text = "blank"
                  /\ IF echoed.calls = <<>> THEN Len(follows) = 1 /\ follows[1].role = "user"
                     ELSE [k \in DOMAIN follows |-> follows[k].of] = IdsOf(echoed.calls)
  <2> DEFINE follows == Following(sent, i)
             body == given[i]
  <2>1. PICK m : m = OpenAiAnswer(body) /\ m = AnswerOf(api, body)
    BY DEF AnswerOf
  <2>2. body \in Bodies /\ m \in KeptMessages /\ at[i] \in 3 .. l
        /\ \A k \in 1 .. Len(Results(m)) : at[i] + k \in 3 .. l
    BY <1>1, <2>1, AnswersStand DEF Answered_By, l
  <2>3. /\ m.text = body.text /\ Len(m.calls) = Len(body.calls)
        /\ \A k \in 1 .. Len(body.calls) :
             /\ m.calls[k].id = body.calls[k].id
             /\ \/ m.calls[k] = body.calls[k]
                \/ body.calls[k].arguments = "unparsable" /\ m.calls[k].extra = body.calls[k].extra
    BY <2>1, <2>2, OpenAiKept
  <2>4. kept[at[i]] = m /\ \A k \in 1 .. Len(Results(m)) : kept[at[i] + k] = Results(m)[k]
    BY <1>1, <2>1 DEF Layout
  <2>5. sent[Answer_Position(sent, i)] = OpenAiMessage(m)
    <3>1. at[i] \in 1 .. l /\ at[i] - 0 = at[i]
      BY <1>2, <2>2
    <3>2. QED BY <1>6, <1>9, <2>4, <3>1
  <2>6. \A k \in 1 .. Len(Results(m)) : follows[k] = OpenAiMessage(Results(m)[k])
    <3> TAKE k \in 1 .. Len(Results(m))
    <3>1. follows[k] = sent[at[i] - 0 + k]
      BY <1>9, <2>1
    <3>2. at[i] + k \in 1 .. l /\ at[i] - 0 + k = at[i] + k
      BY <1>2, <2>2
    <3>3. QED BY <1>6, <2>4, <3>1, <3>2
  <2>7. DOMAIN follows = 1 .. Len(Results(m)) /\ Len(follows) = Len(Results(m))
    BY <1>9, <2>1, LenProperties
  <2>8. PICK c \in Nat : /\ c = Len(m.calls) /\ c = Len(body.calls)
                         /\ DOMAIN m.calls = 1 .. c /\ DOMAIN body.calls = 1 .. c
    <3>1. m.calls \in Seq(KeptCalls) /\ body.calls \in Seq(Calls_Given)
      BY <2>2 DEF KeptMessages, Bodies
    <3>2. QED BY <2>3, <3>1, LenProperties
  <2>9. m.calls = <<>> <=> c = 0
    BY <2>2, <2>8, EmptySeq DEF KeptMessages
  <2> HIDE DEF body, follows
  <2>10. IdsOf(m.calls) = IdsOf(body.calls)
    BY <2>3, <2>8 DEF IdsOf
  <2>11. OpenAiMessage(m).text # body.text => m.calls # <<>> /\ body.text = "blank"
    BY <2>2, <2>3 DEF OpenAiMessage, Bodies, Texts_Given
  <2>12. m.calls = <<>> => Len(follows) = 1 /\ follows[1].role = "user"
    <3> SUFFICES ASSUME m.calls = <<>> PROVE Len(follows) = 1 /\ follows[1].role = "user"
      OBVIOUS
    <3>1. Len(Results(m)) = 1 /\ Results(m)[1] = Asked
      BY <2>2, ResultsFollow
    <3>2. follows[1].role = Asked.role
      BY <1>7, <2>6, <3>1
    <3>3. QED BY <2>7, <3>1, <3>2 DEF Asked, Kept
  <2>13. m.calls # <<>> => [k \in DOMAIN follows |-> follows[k].of] = IdsOf(m.calls)
    <3> SUFFICES ASSUME m.calls # <<>> PROVE [k \in DOMAIN follows |-> follows[k].of] = IdsOf(m.calls)
      OBVIOUS
    <3>1. Len(Results(m)) = c /\ \A k \in 1 .. c : Results(m)[k] = Kept("tool", "words", <<>>, m.calls[k].id)
      BY <2>2, <2>8, ResultsFollow
    <3>2. \A id : Kept("tool", "words", <<>>, id).of = id
      BY DEF Kept
    <3>3. \A k \in 1 .. c : follows[k].of = m.calls[k].id
      BY <1>7, <2>6, <3>1, <3>2
    <3>4. QED BY <2>7, <2>8, <3>1, <3>3 DEF IdsOf
  <2>14. OpenAiMessage(m).calls = m.calls
    BY <1>7
  <2>15. QED BY <2>3, <2>5, <2>8, <2>10, <2>11, <2>12, <2>13, <2>14 DEF body, follows
<1>11. DOMAIN given = 1 .. Len(given)
  BY LenProperties DEF WireInv
<1>12. QED BY <1>9, <1>10, <1>11 DEF OthersSeeTheirCalls, sent

(* Every answer is shown to the API again as the API gave it, with all of  *)
(* its calls in their order, and after it the result of each of them, for  *)
(* any number of answers, blocks and calls: splitMessages of the Anthropic *)
(* provider and mapMessages of the others undo what mapAnthropicResponse   *)
(* and mapToolCalls did.                                                   *)
THEOREM AnswersStayEchoed == WireSpec => []AnswersAreEchoed
<1>1. WireInv => AnswersAreEchoed
  BY AnthropicIsEchoed, OthersAreEchoed DEF AnswersAreEchoed
<1>2. QED BY <1>1, WireBegins, WireGoesOn, PTL DEF WireSpec
=============================================================================
