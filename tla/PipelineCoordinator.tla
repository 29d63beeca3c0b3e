------------------------- MODULE PipelineCoordinator -------------------------
(***************************************************************************)
(* The pipeline coordinator of packages/runtime: run, resume, pause and    *)
(* cancel of one pipeline of one execution.                                *)
(*                                                                         *)
(* The coordinator keeps no state of its own.  Everything it knows is in   *)
(* the Execution aggregate: the log of pipeline events (events) and the    *)
(* latest status record of the diagnostics (status).  A run() or resume()  *)
(* is an asynchronous call whose loop over the stages gives the thread     *)
(* back at one point only, the await of executor.executeStage; pause() and *)
(* cancel() are synchronous and may land at any of those awaits.  So an    *)
(* action is what happens between two awaits, and a call is described by   *)
(* its program counter, the stage it awaits and the set doneStageIds it    *)
(* read when it began.                                                     *)
(*                                                                         *)
(* The dispatcher drops an event whose event_id is already on the          *)
(* aggregate.  The id is made of the kind of event, the stage and the      *)
(* clock in milliseconds, so two equal events collide when they are        *)
(* published in one millisecond: recent holds the events recorded during   *)
(* the current one, and Tick is the clock moving on.                       *)
(*                                                                         *)
(* Abstracted: payloads, outputs and durations; the transition event,      *)
(* always published with the stage-started event of the same stage and     *)
(* dropped with it, is the same entry of the log.  The clock is monotone   *)
(* (the sort by timestamp of derivePipelineStatus is then the identity)    *)
(* and stands still between two awaits.  Handlers subscribed to the        *)
(* dispatcher neither throw nor call the coordinator back.                 *)
(***************************************************************************)
EXTENDS Naturals, Sequences

CONSTANTS
  NumStages,    \* length of pipeline.stage_ids (the ids are distinct)
  Calls,        \* the run() and resume() calls; each is made at most once
  MaxControls,  \* bound on the number of pause() and cancel() calls
  Overlap       \* may a run() or resume() be called while another awaits?

Stages == 1 .. NumStages

ASSUME NumStagesAssumption == NumStages \in Nat
ASSUME MaxControlsAssumption == MaxControls \in Nat
ASSUME OverlapAssumption == Overlap \in BOOLEAN

Statuses == {"pending", "running", "paused", "completed", "failed", "cancelled"}
TerminalStatuses == {"completed", "failed", "cancelled"}
StoppedStatuses == {"paused", "cancelled"}

EventTypes == {"started", "resumed", "paused", "cancelled", "completed", "failed",
               "stage_started", "stage_completed", "stage_failed"}
ResultTypes == {"stage_completed", "stage_failed"}

\* Stage 0 marks the events of the pipeline as a whole.
Event == [type : EventTypes, stage : 0 .. NumStages]
PipelineEvent(type) == [type |-> type, stage |-> 0]
StageEvent(type, k) == [type |-> type, stage |-> k]

VARIABLES
  events,    \* the pipeline's events on the Execution aggregate, oldest first
  recent,    \* the events recorded in the current millisecond
  status,    \* the latest pipeline_status record of the diagnostics
  pc,        \* pc[c]: "new", "executing" (awaiting a stage) or "returned"
  at,        \* at[c]: the stage call c awaits, 0 before the first
  done,      \* done[c]: the doneStageIds of call c
  result,    \* result[c]: the status call c returned
  launches,  \* launches[k]: how often the handler of stage k was invoked
  registered, \* the positions of stage_ids the stage registry resolves
  controls   \* number of pause() and cancel() calls so far

vars == <<events, recent, status, pc, at, done, result, launches, registered, controls>>

-----------------------------------------------------------------------------
(* What is read from the log. *)

Logged(log, e) == \E i \in 1 .. Len(log) : log[i] = e

\* Mutant: only the completed stages are done, so a resume runs a failed one again.
DoneIn_CompletedOnly(log) == {k \in Stages : Logged(log, StageEvent("stage_completed", k))}

\* completedStageIds: a stage that failed counts as done.
DoneIn(log) == {k \in Stages : \E t \in ResultTypes : Logged(log, StageEvent(t, k))}

AlreadyStarted == Logged(events, PipelineEvent("started"))

IsTerminal(e) == e.type \in TerminalStatuses

\* Mutant: the last terminal event decides.
FirstTerminal_Last(log) ==
  CHOOSE i \in 1 .. Len(log) : /\ IsTerminal(log[i])
                               /\ \A j \in (i + 1) .. Len(log) : ~IsTerminal(log[j])

FirstTerminal(log) ==
  CHOOSE i \in 1 .. Len(log) : /\ IsTerminal(log[i])
                               /\ \A j \in 1 .. (i - 1) : ~IsTerminal(log[j])

IsControl(e) == e.type \in {"started", "resumed", "paused"}
LastControl(log) ==
  CHOOSE i \in 1 .. Len(log) : /\ IsControl(log[i])
                               /\ \A j \in (i + 1) .. Len(log) : ~IsControl(log[j])

\* Mutant: a resume or a pause reopens the projection.
DerivedStatus_Reopens(log) ==
  IF \E i \in 1 .. Len(log) : IsControl(log[i])
  THEN IF \E j \in LastControl(log) .. Len(log) : IsTerminal(log[j])
       THEN log[FirstTerminal(log)].type
       ELSE "running"
  ELSE "pending"

\* derivePipelineStatus: the first terminal event decides, for good.
DerivedStatus(log) ==
  IF \E i \in 1 .. Len(log) : IsTerminal(log[i])
  THEN log[FirstTerminal(log)].type
  ELSE IF \E i \in 1 .. Len(log) : IsControl(log[i])
       THEN IF log[LastControl(log)].type = "paused" THEN "paused" ELSE "running"
       ELSE "pending"

-----------------------------------------------------------------------------
(* Publishing: recordOnAggregate appends unless the id is there already. *)

Record(log, e) == IF e \in recent THEN log ELSE Append(log, e)

Publish(e) ==
  /\ events' = Record(events, e)
  /\ recent' = recent \cup {e}

PublishTwo(e, f) ==
  /\ events' = Record(Record(events, e), f)
  /\ recent' = recent \cup {e, f}

\* Mutant: the promise of the call is left pending.
Return_NeverResolves(c, s) ==
  /\ pc' = [pc EXCEPT ![c] = "new"]
  /\ result' = [result EXCEPT ![c] = s]
  /\ UNCHANGED <<at, done, launches>>

Return(c, s) ==
  /\ pc' = [pc EXCEPT ![c] = "returned"]
  /\ result' = [result EXCEPT ![c] = s]
  /\ UNCHANGED <<at, done, launches>>

-----------------------------------------------------------------------------
Init ==
  /\ events = <<>>
  /\ recent = {}
  /\ status = "pending"
  /\ pc = [c \in Calls |-> "new"]
  /\ at = [c \in Calls |-> 0]
  /\ done = [c \in Calls |-> {}]
  /\ result = [c \in Calls |-> "pending"]
  /\ launches = [k \in Stages |-> 0]
  /\ registered \in SUBSET Stages
  /\ controls = 0

\* Mutant: the loop starts one stage too late.
Todo_SkipsOne(i, d) == {k \in Stages : k > i} \ d

\* The stages the loop still has to execute from position i on, given those done.
Todo(i, d) == {k \in Stages : k >= i} \ d

\* Mutant: any stage that is left may be next.
IsNext_AnyStage(k, i, d) == k \in Todo(i, d)

IsNext(k, i, d) == k \in Todo(i, d) /\ \A j \in Todo(i, d) : k <= j

Stopped(s) == s \in StoppedStatuses

Await(c, k, d) ==
  /\ pc' = [pc EXCEPT ![c] = "executing"]
  /\ at' = [at EXCEPT ![c] = k]
  /\ done' = [done EXCEPT ![c] = d]
  /\ launches' = [launches EXCEPT ![k] = @ + 1]
  /\ UNCHANGED result

\* The loop from position i on, up to the next await or the return: e is the
\* event the call has just published, d its doneStageIds, and s the status the
\* diagnostics hold at this point.
StopLoop(c, e, i, d, s) ==
  /\ i <= NumStages
  /\ Stopped(s)
  /\ Publish(e)
  /\ status' = s
  /\ Return(c, s)

FinishLoop(c, e, i, d, s) ==
  /\ Todo(i, d) = {}
  /\ i <= NumStages => ~Stopped(s)
  /\ PublishTwo(e, PipelineEvent("completed"))
  /\ status' = "completed"
  /\ Return(c, "completed")

FailUnregistered(c, e, i, d, s) ==
  /\ ~Stopped(s)
  /\ \E k \in Stages \ registered : IsNext(k, i, d)
  /\ PublishTwo(e, PipelineEvent("failed"))
  /\ status' = "failed"
  /\ Return(c, "failed")

LaunchStage(c, e, i, d, s) ==
  /\ ~Stopped(s)
  /\ \E k \in registered : /\ IsNext(k, i, d)
                           /\ PublishTwo(e, StageEvent("stage_started", k))
                           /\ Await(c, k, d)
  /\ status' = s

Proceed(c, e, i, d, s) ==
  \/ StopLoop(c, e, i, d, s)
  \/ FinishLoop(c, e, i, d, s)
  \/ FailUnregistered(c, e, i, d, s)
  \/ LaunchStage(c, e, i, d, s)

-----------------------------------------------------------------------------
MayCall(c) ==
  /\ pc[c] = "new"
  /\ Overlap \/ \A b \in Calls : pc[b] # "executing"

\* run() of a pipeline that was started before only projects the log.
RunAgain(c) ==
  /\ MayCall(c)
  /\ AlreadyStarted
  /\ Return(c, DerivedStatus(events))
  /\ UNCHANGED <<events, recent, status, registered, controls>>

\* run() of a pipeline paused or cancelled before it ever started.
RunStopped(c) ==
  /\ MayCall(c)
  /\ ~AlreadyStarted
  /\ Stopped(status)
  /\ Return(c, IF events # <<>> THEN DerivedStatus(events) ELSE status)
  /\ UNCHANGED <<events, recent, status, registered, controls>>

Run(c) ==
  /\ MayCall(c)
  /\ ~AlreadyStarted
  /\ ~Stopped(status)
  /\ Proceed(c, PipelineEvent("started"), 1, DoneIn(events), "running")
  /\ UNCHANGED <<registered, controls>>

\* resume() checks nothing: not the status, not whether a loop is running.
Resume(c) ==
  /\ MayCall(c)
  /\ Proceed(c, PipelineEvent("resumed"), 1, DoneIn(events), "running")
  /\ UNCHANGED <<registered, controls>>

\* The awaited stage came back with a status other than 'failed'.
StageCompleted(c) ==
  /\ pc[c] = "executing"
  /\ Proceed(c, StageEvent("stage_completed", at[c]), at[c] + 1,
             done[c] \cup {at[c]}, status)
  /\ UNCHANGED <<registered, controls>>

\* The awaited stage failed, or its handler threw (executeStage catches it).
StageFailed(c) ==
  /\ pc[c] = "executing"
  /\ PublishTwo(StageEvent("stage_failed", at[c]), PipelineEvent("failed"))
  /\ status' = "failed"
  /\ Return(c, "failed")
  /\ UNCHANGED <<registered, controls>>

\* pause() and cancel() check nothing either: they write, then publish.
Pause ==
  /\ controls < MaxControls
  /\ controls' = controls + 1
  /\ status' = "paused"
  /\ Publish(PipelineEvent("paused"))
  /\ UNCHANGED <<pc, at, done, result, launches, registered>>

Cancel ==
  /\ controls < MaxControls
  /\ controls' = controls + 1
  /\ status' = "cancelled"
  /\ Publish(PipelineEvent("cancelled"))
  /\ UNCHANGED <<pc, at, done, result, launches, registered>>

\* registry.register(): a stage id that is registered already is refused.
Register(k) ==
  /\ k \notin registered
  /\ registered' = registered \cup {k}
  /\ UNCHANGED <<events, recent, status, pc, at, done, result, launches, controls>>

Tick ==
  /\ recent # {}
  /\ recent' = {}
  /\ UNCHANGED <<events, status, pc, at, done, result, launches, registered, controls>>

Next ==
  \/ \E c \in Calls :
       \/ RunAgain(c) \/ RunStopped(c) \/ Run(c)
       \/ Resume(c)
       \/ StageCompleted(c) \/ StageFailed(c)
  \/ Pause
  \/ Cancel
  \/ \E k \in Stages : Register(k)
  \/ Tick

Spec == Init /\ [][Next]_vars

\* Every handler settles sooner or later: its promise resolves or rejects.
Fairness == \A c \in Calls : WF_vars(StageCompleted(c) \/ StageFailed(c))

FairSpec == Spec /\ Fairness

-----------------------------------------------------------------------------
(* The type invariant: each variable holds what its declaration says. *)
TypeOK ==
  /\ events \in Seq(Event)
  /\ recent \in SUBSET Event
  /\ status \in Statuses
  /\ pc \in [Calls -> {"new", "executing", "returned"}]
  /\ at \in [Calls -> 0 .. NumStages]
  /\ done \in [Calls -> SUBSET Stages]
  /\ result \in [Calls -> Statuses]
  /\ launches \in [Stages -> Nat]
  /\ registered \in SUBSET Stages
  /\ controls \in Nat

(* Stages run in the order of the definition, whatever calls overlap and   *)
(* whatever events the dispatcher drops: a stage that was launched finds a *)
(* result of every earlier stage on the aggregate.                         *)
StagesInOrder ==
  \A k \in Stages : launches[k] > 0 => \A j \in 1 .. (k - 1) : j \in DoneIn(events)

(* A pipeline is reported completed only when the aggregate holds a result *)
(* of every stage, although a loop decides it from a set of stage ids it   *)
(* read before its awaits.                                                 *)
CompletedCoversAllStages ==
  Logged(events, PipelineEvent("completed")) => DoneIn(events) = Stages

(* run() starts a pipeline at most once: the log never holds two started   *)
(* events, even when pause, cancel and resume came before the first run.   *)
StartedOnce ==
  \A i, j \in 1 .. Len(events) :
    events[i] = PipelineEvent("started") /\ events[j] = PipelineEvent("started")
      => i = j

(* The status projected from the log never leaves a terminal status,       *)
(* although resume, pause and cancel are accepted in every status.         *)
ProjectionFinal ==
  [][DerivedStatus(events) \in TerminalStatuses
       => DerivedStatus(events)' = DerivedStatus(events)]_vars

(* No stage is launched while the pipeline is paused or cancelled: a loop  *)
(* whose await ends after a pause or a cancel stops before the next stage. *)
StopStopsLaunches ==
  [][(\E k \in Stages : launches'[k] # launches[k])
       => status' \notin StoppedStatuses]_vars

(* When no two calls overlap, a stage's handler is invoked at most once in *)
(* the life of the execution, across pauses, failures and resumes.         *)
ExecutedAtMostOnce == \A k \in Stages : launches[k] <= 1

(* The calls of run() and resume() that do not overlap make the coordinator *)
(* a conveyor: StagedPipeline, with the stages that have a result on the   *)
(* aggregate as resolved and the terminal projected status as verdict.     *)
Conveyor == INSTANCE StagedPipeline WITH
  resolved <- DoneIn(events),
  running <- {at[c] : c \in {b \in Calls : pc[b] = "executing"}},
  verdict <- IF DerivedStatus(events) \in TerminalStatuses
             THEN DerivedStatus(events) ELSE "open"

ImplementsStagedPipeline == Conveyor!Spec

(* Once its handlers settle, every call to run() or resume() returns.      *)
CallsReturn == \A c \in Calls : pc[c] = "executing" ~> pc[c] = "returned"

-----------------------------------------------------------------------------
(* Two claims of the repository the code does not keep. *)

(* spec/runtime/ATLAS-RUNTIME-005-PIPELINE.md, section 5 asks for          *)
(* 'consistencia entre estados y eventos': a pipeline whose status record  *)
(* says completed is one whose events say so.                              *)
StatesAgreeWithEvents ==
  status = "completed" => DerivedStatus(events) = "completed"

(* packages/runtime/tests/architecture/pipeline-engine.test.ts, line 276:  *)
(* 'supports pause and resume without re-running completed stages'.        *)
CompletedStagesNotRerun ==
  [][\A k \in Stages : Logged(events, StageEvent("stage_completed", k))
       => launches'[k] = launches[k]]_vars
=============================================================================
