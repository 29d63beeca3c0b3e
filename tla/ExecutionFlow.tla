---------------------------- MODULE ExecutionFlow ----------------------------
(***************************************************************************)
(* The execution engine of packages/runtime: execute() takes an execution  *)
(* through its lifecycle and runs its artifacts one by one.                *)
(*                                                                         *)
(* There is no await in it, but it calls out all the time: each transition *)
(* and each event is published to handlers, which run at once, and each    *)
(* artifact is given to an executor.  Whatever is called may throw, may    *)
(* move this or another execution with the lifecycle manager or the state  *)
(* manager, and may execute something else, which then runs to its end     *)
(* before the call returns.  The module keeps the stack of executions      *)
(* under way; an action is the code between two places that call out.      *)
(*                                                                         *)
(* Abstracted: artifacts are counted and their outputs are a verdict each; *)
(* clock readings, diagnostics and the payloads of events are left out.    *)
(***************************************************************************)
EXTENDS Naturals, Sequences

CONSTANTS
  Executions,        \* ids of executions: session.<counter>
  Unset,              \* no execution, no verdict yet
  MaxArtifacts,      \* bound on the artifacts of one execution
  MaxInterventions   \* bound on what handlers, executors and callers do

ASSUME NoneAssumption == Unset \notin Executions \cup BOOLEAN
ASSUME ExecutionBounds == MaxArtifacts \in Nat /\ MaxInterventions \in Nat

VARIABLES
  execution,     \* execution[e]: the aggregate in the repository, or Unset
  call,          \* call[e]: how far the execute() that made e has come
  stack,         \* the execute() calls under way, the innermost first
  bus,           \* what the domain event bus was told
  interventions, \* what handlers, executors and callers did
  replaced       \* history: executions created again after execute() began them

executionVars == <<execution, call, stack, bus, interventions, replaced>>

Stages == {"created", "initialized", "prepared", "running", "waiting", "resumed",
           "completing", "completed", "archived"}

\* VALID_LIFECYCLE_TRANSITIONS
ValidTransitions ==
  [created |-> {"initialized"}, initialized |-> {"prepared"}, prepared |-> {"running"},
   running |-> {"waiting", "completing"}, waiting |-> {"resumed"},
   resumed |-> {"running", "completing"}, completing |-> {"completed"},
   completed |-> {"archived"}, archived |-> {}]

Last(s) == s[Len(s)]

\* Mutant: a stage may be skipped on the way to the end.
MayMove_Closing(x, to) == to \in ValidTransitions[Last(x.history)] \cup {"completed"}

\* isValidLifecycleTransition
MayMove(x, to) == to \in ValidTransitions[Last(x.history)]

\* createInitialExecutionAggregate
NewExecution == [history |-> <<"created">>, success |-> Unset, outputs |-> <<>>,
                 events |-> <<>>, result |-> Unset, status |-> "pending"]

\* RuntimeEventEnvelope and Execution
Events == [type : {"state_changed", "started", "completed", "failed"},
           from : Stages \cup {Unset}, to : Stages \cup {Unset}, n : Nat]
Aggregates == [history : Seq(Stages) \ {<<>>}, success : BOOLEAN \cup {Unset}, outputs : Seq(BOOLEAN),
               events : Seq(Events), result : BOOLEAN \cup {Unset},
               status : {"pending", "active", "completed", "failed"}]

ASSUME UnsetAssumption == Unset \notin Aggregates

Verdict(ok) == IF ok = FALSE THEN "failed" ELSE "completed"

\* deriveExecutionStatus
Status(stage, ok) ==
  CASE stage = "archived" -> Verdict(ok) [] stage = "created" -> "pending" [] OTHER -> "active"

Event(type, from, to, n) == [type |-> type, from |-> from, to |-> to, n |-> n]

\* recordOnAggregate: an event is known by its id, which holds its type and,
\* for a change of state, the number of stages entered before.
RecordEvent(x, event) ==
  IF \E i \in DOMAIN x.events : x.events[i].type = event.type /\ x.events[i].n = event.n
  THEN x
  ELSE [x EXCEPT !.events = Append(@, event)]

\* Mutant: the event is made of the aggregate that was saved.
StateChanged_AfterSave(x, to) == Event("state_changed", to, to, Len(x.history) + 1)

\* publishStateChanged
StateChanged(x, to) == Event("state_changed", Last(x.history), to, Len(x.history))

\* ExecutionRepository.transition; told if it was given the dispatcher.
Transition(x, to, ok, told) ==
  LET success == IF ok = Unset THEN x.success ELSE ok
      moved == [x EXCEPT !.history = Append(@, to), !.success = success, !.status = Status(to, success)]
  IN  IF told THEN RecordEvent(moved, StateChanged(x, to)) ELSE moved

ExecutionInit ==
  /\ execution = [e \in Executions |-> Unset]
  /\ call = [e \in Executions |-> "none"]
  /\ stack = <<>>
  /\ bus = <<>>
  /\ interventions = 0
  /\ replaced = {}

-----------------------------------------------------------------------------
Top == stack[1]
At(place) == stack # <<>> /\ Top.at = place
Save(e, x) == execution' = [execution EXCEPT ![e] = x]
AdvanceTop(frame) == stack' = <<frame>> \o Tail(stack) /\ UNCHANGED call
Leave(how) == call' = [call EXCEPT ![Top.id] = how] /\ stack' = Tail(stack)

\* Some handler or executor is running, called by the innermost execution.
\* Nothing is called before the first transition nor between the last executor
\* and the next transition.
CallingOut == stack # <<>> /\ Top.at # "created" /\ (Top.at # "executing" \/ Top.left > 0)

\* runExecutionFlow up to the handlers of its first transition.  It is called
\* from outside or by a handler or executor.  The counter gives no id twice.
Execute ==
  /\ stack = <<>> \/ CallingOut
  /\ \E e \in Executions, n \in 0 .. MaxArtifacts :
       /\ call[e] = "none"
       /\ Save(e, NewExecution)
       /\ call' = [call EXCEPT ![e] = "running"]
       /\ stack' = <<[id |-> e, at |-> "created", left |-> n, outputs |-> <<>>]>> \o stack
  /\ UNCHANGED <<bus, interventions, replaced>>

\* A transition of the flow with its event, or its refusal.
Advance(from, to, at, ok) ==
  /\ At(from)
  /\ LET x == execution[Top.id]
     IN  IF MayMove(x, to)
         THEN /\ Save(Top.id, Transition(x, to, ok, TRUE))
              /\ AdvanceTop([Top EXCEPT !.at = at])
         ELSE /\ Leave("rejected")
              /\ UNCHANGED execution
  /\ UNCHANGED <<bus, interventions, replaced>>

Initialize == Advance("created", "initialized", "initialized", Unset)
Prepare == Advance("initialized", "prepared", "prepared", Unset)
Run == Advance("prepared", "running", "running", Unset)

\* publish: recorded, then given to the handlers ...
Publish(from, type, at) ==
  /\ At(from)
  /\ Save(Top.id, RecordEvent(execution[Top.id], Event(type, Unset, Unset, 0)))
  /\ AdvanceTop([Top EXCEPT !.at = at])
  /\ UNCHANGED <<bus, interventions, replaced>>

\* ... and, when they have returned, to the domain event bus.
Bridge(from, message, at) ==
  /\ At(from)
  /\ bus' = Append(bus, [id |-> Top.id, message |-> message])
  /\ AdvanceTop([Top EXCEPT !.at = at])
  /\ UNCHANGED <<execution, interventions, replaced>>

PublishStarted == Publish("running", "started", "started")
BridgeStarted == Bridge("started", "started", "entering")

\* Mutant: the last output decides.
Succeeded_Last(outputs) == outputs = <<>> \/ Last(outputs)

Succeeded(outputs) == \A i \in DOMAIN outputs : outputs[i]

\* The executor of the next artifact returns, or there is none for its kind.
RunArtifact ==
  /\ At("entering") \/ At("executing")
  /\ Top.left > 0
  /\ \E ok \in BOOLEAN :
       AdvanceTop([Top EXCEPT !.at = "executing", !.left = @ - 1, !.outputs = Append(@, ok)])
  /\ UNCHANGED <<execution, bus, interventions, replaced>>

\* setOutputs, which stays when the transition is refused.
Complete ==
  /\ At("entering") \/ At("executing")
  /\ Top.left = 0
  /\ LET x == [execution[Top.id] EXCEPT !.outputs = Top.outputs]
     IN  IF MayMove(x, "completing")
         THEN /\ Save(Top.id, Transition(x, "completing", Succeeded(Top.outputs), TRUE))
              /\ AdvanceTop([Top EXCEPT !.at = "completing"])
         ELSE /\ Save(Top.id, x)
              /\ Leave("rejected")
  /\ UNCHANGED <<bus, interventions, replaced>>

PublishVerdict == At("completing") /\ Publish("completing", Verdict(Succeeded(Top.outputs)), "judged")
BridgeVerdict == At("judged") /\ Bridge("judged", Verdict(Succeeded(Top.outputs)), "told")
CloseExecution == At("told") /\ Advance("told", "completed", "completed", Succeeded(Top.outputs))
Archive == At("completed") /\ Advance("completed", "archived", "archived", Succeeded(Top.outputs))

\* finalizeCompatContext: the context is disposed of, whatever the verdict.
Finalize ==
  /\ At("archived")
  /\ LET ok == Succeeded(Top.outputs)
     IN  Save(Top.id, [execution[Top.id] EXCEPT !.result = ok, !.status = Verdict(ok)])
  /\ Leave("resolved")
  /\ UNCHANGED <<bus, interventions, replaced>>

\* What was called throws: execute() rejects its promise, which a handler that
\* called it does not see thrown.
CalleeThrows ==
  /\ CallingOut
  /\ Leave("rejected")
  /\ UNCHANGED <<execution, bus, interventions, replaced>>

-----------------------------------------------------------------------------
Intervene ==
  /\ stack = <<>> \/ CallingOut
  /\ interventions < MaxInterventions
  /\ interventions' = interventions + 1
  /\ UNCHANGED <<call, stack, bus>>

\* ExecutionEngine.createExecution, for an id of the caller's choice: begin()
\* replaces the execution that has it.
CreateExecution ==
  /\ Intervene
  /\ \E e \in Executions :
       /\ Save(e, NewExecution)
       /\ replaced' = IF call[e] = "none" THEN replaced ELSE replaced \cup {e}

\* LifecycleManager.transition
MoveLifecycle ==
  /\ Intervene
  /\ \E e \in Executions, to \in Stages :
       /\ execution[e] # Unset
       /\ MayMove(execution[e], to)
       /\ Save(e, Transition(execution[e], to, Unset, TRUE))
  /\ UNCHANGED replaced

\* StateManager.transitionExecution, which hands no dispatcher on.
MoveState ==
  /\ Intervene
  /\ \E e \in Executions, to \in Stages, ok \in BOOLEAN \cup {Unset} :
       /\ execution[e] # Unset
       /\ MayMove(execution[e], to)
       /\ Save(e, Transition(execution[e], to, ok, FALSE))
  /\ UNCHANGED replaced

Flow ==
  \/ Initialize \/ Prepare \/ Run \/ PublishStarted \/ BridgeStarted \/ RunArtifact
  \/ Complete \/ PublishVerdict \/ BridgeVerdict \/ CloseExecution \/ Archive \/ Finalize

ExecutionNext == Execute \/ Flow \/ CalleeThrows \/ CreateExecution \/ MoveLifecycle \/ MoveState

ExecutionSpec == ExecutionInit /\ [][ExecutionNext]_executionVars
-----------------------------------------------------------------------------
\* The state.changed events of an execution tell moves that it made, in the
\* order in which it made them.
TellsItsMoves(x) ==
  \A i \in DOMAIN x.events : x.events[i].type = "state_changed" =>
    /\ x.events[i].n \in 1 .. Len(x.history) - 1
    /\ x.events[i].from = x.history[x.events[i].n]
    /\ x.events[i].to = x.history[x.events[i].n + 1]
    /\ \A j \in 1 .. i - 1 : x.events[j].type = "state_changed" => x.events[j].n < x.events[i].n

\* Each execution's events are true of it, whoever moved it and however the
\* calls nest.
EventsAreTrue == \A e \in Executions : execution[e] # Unset => TellsItsMoves(execution[e])

\* What s holds at the given indices, in their order, is this.
Reads(s, indices, words) ==
  \E p \in [DOMAIN words -> indices] :
    /\ indices = {p[i] : i \in DOMAIN words}
    /\ \A i \in DOMAIN words : s[p[i]] = words[i]
    /\ \A i, j \in DOMAIN words : i < j => p[i] < p[j]

\* What an execution's events say besides its moves; what the event bus was
\* told of it.
Says(x, types) ==
  Reads(x.events, {k \in DOMAIN x.events : x.events[k].type # "state_changed"},
        [i \in DOMAIN types |-> Event(types[i], Unset, Unset, 0)])
Hears(b, e, messages) ==
  Reads(b, {k \in DOMAIN b : b[k].id = e}, [i \in DOMAIN messages |-> [id |-> e, message |-> messages[i]]])

\* An archived execution: its result, status, outputs, events and what the
\* event bus was told all give one verdict, once.
Unanimous(e, x, b) ==
  /\ x.result \in BOOLEAN
  /\ Last(x.history) = "archived"
  /\ x.status = Verdict(x.result)
  /\ x.result = \A i \in DOMAIN x.outputs : x.outputs[i]
  /\ Says(x, <<"started", Verdict(x.result)>>)
  /\ Hears(b, e, <<"started", Verdict(x.result)>>)

\* So is every execution whose call was answered, and that was not created
\* again.
VerdictsAgree ==
  \A e \in Executions \ replaced : call[e] = "resolved" => Unanimous(e, execution[e], bus)

\* The stage of an execution follows the lifecycle, whoever moves it.
LifecycleStage == [e \in Executions |-> IF execution[e] = Unset THEN Unset ELSE Last(execution[e].history)]
Lifecycle == INSTANCE ExecutionLifecycle WITH stage <- LifecycleStage
ImplementsLifecycle == Lifecycle!Spec
=============================================================================
