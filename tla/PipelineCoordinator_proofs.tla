---------------------- MODULE PipelineCoordinator_proofs ----------------------
(***************************************************************************)
(* Proofs about PipelineCoordinator for every number of stages, every set  *)
(* of calls, overlapping or not, and any number of pauses and cancels.     *)
(*                                                                         *)
(* The safety invariants are not inductive: that a loop may call the       *)
(* pipeline completed rests on what the loop remembers of the log it read  *)
(* before its awaits.  LoopsKnowTheLog says that memory is never ahead of  *)
(* the log, and RecentIsLogged that the dispatcher drops only what the log *)
(* holds already.                                                          *)
(***************************************************************************)
EXTENDS PipelineCoordinator, WellFoundedInduction, TLAPS

RecentIsLogged == \A e \in recent : Logged(events, e)

LoopsKnowTheLog ==
  \A c \in Calls : pc[c] = "executing" =>
    /\ at[c] \in Stages
    /\ done[c] \subseteq DoneIn(events)
    /\ \A j \in 1 .. (at[c] - 1) : j \in done[c]

IInv ==
  /\ TypeOK
  /\ RecentIsLogged
  /\ LoopsKnowTheLog
  /\ StagesInOrder
  /\ CompletedCoversAllStages
  /\ StartedOnce

-----------------------------------------------------------------------------
(* How a log grows. *)

Extends(old, new) ==
  /\ Len(old) <= Len(new)
  /\ \A i \in 1 .. Len(old) : new[i] = old[i]

OnlyOnce(log, e) ==
  \A i, j \in 1 .. Len(log) : log[i] = e /\ log[j] = e => i = j

(* Recording an event keeps the log a log, and adds that event at most:    *)
(* recordOnAggregate of the dispatcher.                                    *)
LEMMA RecordFacts ==
  ASSUME NEW log \in Seq(Event), NEW e \in Event,
         e \in recent => Logged(log, e)
  PROVE  /\ Record(log, e) \in Seq(Event)
         /\ Extends(log, Record(log, e))
         /\ \A f \in Event : Logged(Record(log, e), f) <=> Logged(log, f) \/ f = e
<1>1. CASE e \in recent
  BY <1>1 DEF Record, Extends, Logged
<1>2. CASE e \notin recent
  <2>1. Record(log, e) = Append(log, e)
    BY <1>2 DEF Record
  <2>2. /\ Append(log, e) \in Seq(Event)
        /\ Len(Append(log, e)) = Len(log) + 1
        /\ \A i \in 1 .. Len(log) : Append(log, e)[i] = log[i]
        /\ Append(log, e)[Len(log) + 1] = e
        /\ Len(log) \in Nat
    OBVIOUS
  <2>3. Extends(log, Append(log, e))
    BY <2>2 DEF Extends
  <2>4. ASSUME NEW f \in Event
        PROVE  Logged(Append(log, e), f) <=> Logged(log, f) \/ f = e
    <3>1. ASSUME Logged(Append(log, e), f) PROVE Logged(log, f) \/ f = e
      BY <2>2, <3>1 DEF Logged
    <3>2. ASSUME Logged(log, f) \/ f = e PROVE Logged(Append(log, e), f)
      BY <2>2, <3>2 DEF Logged
    <3> QED BY <3>1, <3>2
  <2> QED BY <2>1, <2>2, <2>3, <2>4
<1> QED BY <1>1, <1>2

(* Recording an event leaves it once in the log if it was not there, and   *)
(* leaves the multiplicity of every other event alone.                     *)
LEMMA RecordOnlyOnce ==
  ASSUME NEW log \in Seq(Event), NEW e \in Event, NEW f \in Event,
         OnlyOnce(log, f),
         e = f => ~Logged(log, f)
  PROVE  OnlyOnce(Record(log, e), f)
<1>1. CASE e \in recent
  BY <1>1 DEF Record
<1>2. CASE e \notin recent
  <2>1. Record(log, e) = Append(log, e)
    BY <1>2 DEF Record
  <2>2. /\ Len(Append(log, e)) = Len(log) + 1
        /\ \A i \in 1 .. Len(log) : Append(log, e)[i] = log[i]
        /\ Append(log, e)[Len(log) + 1] = e
        /\ Len(log) \in Nat
    OBVIOUS
  <2> QED BY <2>1, <2>2 DEF OnlyOnce, Logged
<1> QED BY <1>1, <1>2

LEMMA ExtendsTransitive ==
  ASSUME NEW a \in Seq(Event), NEW b \in Seq(Event), NEW c \in Seq(Event),
         Extends(a, b), Extends(b, c)
  PROVE  Extends(a, c)
<1>1. Len(a) \in Nat /\ Len(b) \in Nat /\ Len(c) \in Nat
  OBVIOUS
<1> QED BY <1>1 DEF Extends

(* The stages with a result never lose it.                                 *)
LEMMA DoneGrows ==
  ASSUME NEW old, NEW new,
         \A f \in Event : Logged(old, f) => Logged(new, f)
  PROVE  DoneIn(old) \subseteq DoneIn(new)
<1>1. \A k \in Stages, t \in ResultTypes : StageEvent(t, k) \in Event
  BY DEF StageEvent, Event, EventTypes, ResultTypes, Stages
<1> QED BY <1>1 DEF DoneIn

LEMMA EventsTyped ==
  /\ \A t \in EventTypes : PipelineEvent(t) \in Event
  /\ \A t \in EventTypes, k \in Stages : StageEvent(t, k) \in Event
BY NumStagesAssumption DEF PipelineEvent, StageEvent, Event, Stages

-----------------------------------------------------------------------------
(* Publishing one event or two: what the log holds afterwards. *)

PublishedOnly(S) ==
  /\ events' \in Seq(Event)
  /\ recent' \in SUBSET Event
  /\ RecentIsLogged'
  /\ Extends(events, events')
  /\ \A f \in Event : Logged(events', f) <=> Logged(events, f) \/ f \in S

LEMMA PublishFacts ==
  ASSUME TypeOK, RecentIsLogged, NEW e \in Event, Publish(e)
  PROVE  PublishedOnly({e})
<1>1. e \in recent => Logged(events, e)
  BY DEF RecentIsLogged
<1>2. /\ events' \in Seq(Event)
      /\ Extends(events, events')
      /\ \A f \in Event : Logged(events', f) <=> Logged(events, f) \/ f = e
  BY <1>1, RecordFacts DEF Publish, TypeOK
<1>3. recent' = recent \cup {e} /\ recent' \in SUBSET Event
  BY DEF Publish, TypeOK
<1>4. \A f \in recent' : Logged(events', f)
  BY <1>2, <1>3 DEF RecentIsLogged, TypeOK
<1> QED BY <1>2, <1>3, <1>4 DEF PublishedOnly, RecentIsLogged

LEMMA PublishTwoFacts ==
  ASSUME TypeOK, RecentIsLogged, NEW e \in Event, NEW f \in Event, PublishTwo(e, f)
  PROVE  PublishedOnly({e, f})
<1> DEFINE mid == Record(events, e)
<1>1. e \in recent => Logged(events, e)
  BY DEF RecentIsLogged
<1>2. /\ mid \in Seq(Event)
      /\ Extends(events, mid)
      /\ \A g \in Event : Logged(mid, g) <=> Logged(events, g) \/ g = e
  BY <1>1, RecordFacts DEF TypeOK
<1>3. f \in recent => Logged(mid, f)
  BY <1>2 DEF RecentIsLogged
<1>4. events' = Record(mid, f) /\ recent' = recent \cup {e, f}
  BY DEF PublishTwo
<1> HIDE DEF mid
<1>5. /\ events' \in Seq(Event)
      /\ Extends(mid, events')
      /\ \A g \in Event : Logged(events', g) <=> Logged(mid, g) \/ g = f
  BY <1>2, <1>3, <1>4, RecordFacts
<1>6. Extends(events, events')
  BY <1>2, <1>5, ExtendsTransitive DEF TypeOK
<1>7. \A g \in Event : Logged(events', g) <=> Logged(events, g) \/ g \in {e, f}
  BY <1>2, <1>5
<1>8. \A g \in recent' : Logged(events', g)
  BY <1>4, <1>7 DEF RecentIsLogged, TypeOK
<1> QED BY <1>4, <1>5, <1>6, <1>7, <1>8 DEF PublishedOnly, RecentIsLogged, TypeOK

-----------------------------------------------------------------------------
(* What a step may do to the log and to the loops, as far as the           *)
(* invariants on them go.                                                  *)

(* A step that publishes the events of S, none of them started unless the  *)
(* pipeline was not started, keeps StartedOnce.                            *)
LEMMA StartedOnceKept ==
  ASSUME TypeOK, RecentIsLogged, StartedOnce,
         NEW e \in Event, NEW f \in Event,
         Publish(e) \/ PublishTwo(e, f),
         e = PipelineEvent("started") => ~AlreadyStarted,
         f # PipelineEvent("started")
  PROVE  StartedOnce'
<1> DEFINE g == PipelineEvent("started")
<1>1. g \in Event
  BY EventsTyped DEF EventTypes
<1>2. OnlyOnce(events, g)
  BY DEF StartedOnce, OnlyOnce
<1>3. OnlyOnce(Record(events, e), g)
  BY <1>1, <1>2, RecordOnlyOnce DEF TypeOK, AlreadyStarted
<1>4. Record(events, e) \in Seq(Event)
  BY RecordFacts DEF TypeOK, RecentIsLogged
<1>5. OnlyOnce(Record(Record(events, e), f), g)
  BY <1>1, <1>3, <1>4, RecordOnlyOnce
<1>6. OnlyOnce(events', g)
  BY <1>3, <1>5 DEF Publish, PublishTwo
<1> QED BY <1>6 DEF StartedOnce, OnlyOnce

(* The events a call publishes itself when it goes on: the started, the    *)
(* resumed or the stage-completed event.                                   *)
Announcement(e, d) ==
  /\ e \in Event
  /\ e # PipelineEvent("completed")
  /\ e = PipelineEvent("started") => ~AlreadyStarted
  /\ \A k \in d : k \in DoneIn(events) \/ e = StageEvent("stage_completed", k)

(* The loop from position i on, for a call that knows of a result of every *)
(* stage before i, keeps the invariant.                                    *)
LEMMA ProceedKeepsInvariant ==
  ASSUME IInv, NEW c \in Calls, NEW e, NEW i \in 1 .. (NumStages + 1),
         NEW d \in SUBSET Stages, NEW s \in Statuses,
         Announcement(e, d),
         \A j \in 1 .. (i - 1) : j \in d,
         Proceed(c, e, i, d, s),
         UNCHANGED <<registered, controls>>
  PROVE  IInv'
<1> USE NumStagesAssumption
<1>e. e \in Event
  BY DEF Announcement
<1>t. /\ PipelineEvent("completed") \in Event
      /\ PipelineEvent("failed") \in Event
      /\ \A k \in Stages, t \in EventTypes : StageEvent(t, k) \in Event
      /\ PipelineEvent("completed") # PipelineEvent("started")
      /\ PipelineEvent("failed") # PipelineEvent("started")
      /\ PipelineEvent("failed") # PipelineEvent("completed")
      /\ \A k \in Stages : /\ StageEvent("stage_started", k) # PipelineEvent("started")
                           /\ StageEvent("stage_started", k) # PipelineEvent("completed")
  <2>1. /\ PipelineEvent("completed") \in Event
        /\ PipelineEvent("failed") \in Event
        /\ \A k \in Stages, t \in EventTypes : StageEvent(t, k) \in Event
    BY EventsTyped DEF EventTypes
  <2>2. /\ PipelineEvent("completed") # PipelineEvent("started")
        /\ PipelineEvent("failed") # PipelineEvent("started")
        /\ PipelineEvent("failed") # PipelineEvent("completed")
    BY DEF PipelineEvent
  <2>3. \A k \in Stages : /\ StageEvent("stage_started", k) # PipelineEvent("started")
                         /\ StageEvent("stage_started", k) # PipelineEvent("completed")
    BY DEF PipelineEvent, StageEvent, Stages
  <2> QED BY <2>1, <2>2, <2>3
<1>d. ASSUME NEW S, PublishedOnly(S), e \in S
      PROVE  DoneIn(events) \subseteq DoneIn(events') /\ d \subseteq DoneIn(events')
  <2>1. DoneIn(events) \subseteq DoneIn(events')
    BY <1>d, DoneGrows DEF PublishedOnly
  <2>2. \A k \in d : e = StageEvent("stage_completed", k) => k \in DoneIn(events')
    BY <1>d, <1>e DEF PublishedOnly, DoneIn, ResultTypes
  <2> QED BY <2>1, <2>2 DEF Announcement
<1>1. CASE StopLoop(c, e, i, d, s)
  <2>1. PublishedOnly({e})
    BY <1>1, <1>e, PublishFacts DEF StopLoop, IInv
  <2>2. TypeOK'
    BY <1>1, <2>1 DEF StopLoop, Return, IInv, TypeOK, PublishedOnly
  <2>3. StartedOnce'
    BY <1>1, <1>e, <1>t, StartedOnceKept DEF StopLoop, IInv, Announcement
  <2>4. LoopsKnowTheLog' /\ StagesInOrder'
    BY <1>1, <2>1, <1>d DEF StopLoop, Return, IInv, TypeOK, LoopsKnowTheLog, StagesInOrder
  <2>5. CompletedCoversAllStages'
    BY <2>1, <1>d, <1>e, <1>t DEF IInv, CompletedCoversAllStages, PublishedOnly, Announcement, DoneIn
  <2> QED BY <2>1, <2>2, <2>3, <2>4, <2>5 DEF IInv, PublishedOnly
<1>2. CASE FinishLoop(c, e, i, d, s)
  <2>1. PublishedOnly({e, PipelineEvent("completed")})
    BY <1>2, <1>e, <1>t, PublishTwoFacts DEF FinishLoop, IInv
  <2>2. TypeOK'
    BY <1>2, <2>1 DEF FinishLoop, Return, IInv, TypeOK, PublishedOnly, Statuses
  <2>3. StartedOnce'
    BY <1>2, <1>e, <1>t, StartedOnceKept DEF FinishLoop, IInv, Announcement
  <2>4. LoopsKnowTheLog' /\ StagesInOrder'
    BY <1>2, <2>1, <1>d DEF FinishLoop, Return, IInv, TypeOK, LoopsKnowTheLog, StagesInOrder
  <2>5. Stages \subseteq d
    BY <1>2 DEF FinishLoop, Todo, Stages
  <2>6. CompletedCoversAllStages'
    BY <2>1, <2>5, <1>d DEF CompletedCoversAllStages, DoneIn
  <2> QED BY <2>1, <2>2, <2>3, <2>4, <2>6 DEF IInv, PublishedOnly
<1>3. CASE FailUnregistered(c, e, i, d, s)
  <2>1. PublishedOnly({e, PipelineEvent("failed")})
    BY <1>3, <1>e, <1>t, PublishTwoFacts DEF FailUnregistered, IInv
  <2>2. TypeOK'
    BY <1>3, <2>1 DEF FailUnregistered, Return, IInv, TypeOK, PublishedOnly, Statuses
  <2>3. StartedOnce'
    BY <1>3, <1>e, <1>t, StartedOnceKept DEF FailUnregistered, IInv, Announcement
  <2>4. LoopsKnowTheLog' /\ StagesInOrder'
    BY <1>3, <2>1, <1>d DEF FailUnregistered, Return, IInv, TypeOK, LoopsKnowTheLog, StagesInOrder
  <2>5. CompletedCoversAllStages'
    BY <2>1, <1>d, <1>e, <1>t DEF IInv, CompletedCoversAllStages, PublishedOnly, Announcement, DoneIn
  <2> QED BY <2>1, <2>2, <2>3, <2>4, <2>5 DEF IInv, PublishedOnly
<1>4. CASE LaunchStage(c, e, i, d, s)
  <2>1. PICK k \in registered : /\ IsNext(k, i, d)
                               /\ PublishTwo(e, StageEvent("stage_started", k))
                               /\ Await(c, k, d)
    BY <1>4 DEF LaunchStage
  <2>2. k \in Stages /\ \A j \in 1 .. (k - 1) : j \in d
    BY <2>1 DEF IsNext, Todo, Stages
  <2>3. PublishedOnly({e, StageEvent("stage_started", k)})
    BY <2>1, <2>2, <1>e, <1>t, PublishTwoFacts DEF IInv, EventTypes
  <2>4. TypeOK'
    <3>1. /\ events' \in Seq(Event)
          /\ recent' \in SUBSET Event
          /\ status' \in Statuses
      BY <1>4, <2>3 DEF LaunchStage, PublishedOnly
    <3>2. /\ pc' \in [Calls -> {"new", "executing", "returned"}]
          /\ at' \in [Calls -> 0 .. NumStages]
          /\ done' \in [Calls -> SUBSET Stages]
          /\ result' \in [Calls -> Statuses]
      BY <2>1, <2>2 DEF Await, IInv, TypeOK, Stages
    <3>3. launches' \in [Stages -> Nat]
      BY <2>1, <2>2 DEF Await, IInv, TypeOK
    <3> QED BY <3>1, <3>2, <3>3 DEF IInv, TypeOK
  <2>5. StartedOnce'
    BY <2>1, <2>2, <1>e, <1>t, StartedOnceKept DEF IInv, Announcement, EventTypes
  <2>6. DoneIn(events) \subseteq DoneIn(events') /\ d \subseteq DoneIn(events')
    BY <2>3, <1>d
  <2>7. LoopsKnowTheLog'
    BY <2>1, <2>2, <2>6 DEF Await, IInv, TypeOK, LoopsKnowTheLog
  <2>8. StagesInOrder'
    BY <2>1, <2>2, <2>6 DEF Await, IInv, TypeOK, StagesInOrder
  <2>9. CompletedCoversAllStages'
    BY <2>2, <2>3, <2>6, <1>e, <1>t DEF IInv, CompletedCoversAllStages, PublishedOnly, Announcement, DoneIn
  <2> QED BY <2>3, <2>4, <2>5, <2>7, <2>8, <2>9 DEF IInv, PublishedOnly
<1> QED BY <1>1, <1>2, <1>3, <1>4 DEF Proceed
-----------------------------------------------------------------------------
(* The projection of the log: derivePipelineStatus. *)

HasTerminal(log) == \E i \in 1 .. Len(log) : IsTerminal(log[i])

(* A log with a terminal event has a first one, the one the projection     *)
(* returns.                                                                *)
LEMMA FirstTerminalExists ==
  ASSUME NEW log \in Seq(Event), HasTerminal(log)
  PROVE  /\ FirstTerminal(log) \in 1 .. Len(log)
         /\ IsTerminal(log[FirstTerminal(log)])
         /\ \A j \in 1 .. (FirstTerminal(log) - 1) : ~IsTerminal(log[j])
<1> DEFINE T == {i \in 1 .. Len(log) : IsTerminal(log[i])}
<1>1. T # {} /\ T \subseteq Nat
  BY DEF HasTerminal
<1>2. PICK x \in T : \A y \in T : ~(<<y, x>> \in OpToRel(<, Nat))
  BY <1>1, NatLessThanWellFounded, WFMin, Zenon
<1>3. \A y \in T : ~(y < x)
  BY <1>1, <1>2 DEF OpToRel
<1>4. /\ x \in 1 .. Len(log)
      /\ IsTerminal(log[x])
      /\ \A j \in 1 .. (x - 1) : ~IsTerminal(log[j])
  BY <1>3
<1> QED BY <1>4 DEF FirstTerminal

Verdict(log) == IF DerivedStatus(log) \in TerminalStatuses THEN DerivedStatus(log) ELSE "open"

LEMMA VerdictMeaning ==
  ASSUME NEW log \in Seq(Event)
  PROVE  /\ DerivedStatus(log) \in Statuses
         /\ HasTerminal(log) => /\ DerivedStatus(log) = log[FirstTerminal(log)].type
                                /\ Verdict(log) = log[FirstTerminal(log)].type
                                /\ Verdict(log) \in TerminalStatuses
         /\ ~HasTerminal(log) => /\ DerivedStatus(log) \notin TerminalStatuses
                                 /\ Verdict(log) = "open"
<1>1. CASE HasTerminal(log)
  BY <1>1, FirstTerminalExists DEF DerivedStatus, Verdict, HasTerminal, IsTerminal, TerminalStatuses, Statuses
<1>2. CASE ~HasTerminal(log)
  BY <1>2 DEF DerivedStatus, Verdict, HasTerminal, TerminalStatuses, Statuses
<1> QED BY <1>1, <1>2

(* The first terminal event of a log is that of every longer log.          *)
LEMMA FirstTerminalStable ==
  ASSUME NEW old \in Seq(Event), NEW new \in Seq(Event), Extends(old, new), HasTerminal(old)
  PROVE  /\ HasTerminal(new)
         /\ new[FirstTerminal(new)] = old[FirstTerminal(old)]
<1> DEFINE i == FirstTerminal(old)
           j == FirstTerminal(new)
<1>1. /\ i \in 1 .. Len(old)
      /\ IsTerminal(old[i])
      /\ \A k \in 1 .. (i - 1) : ~IsTerminal(old[k])
  BY FirstTerminalExists
<1>2. Len(old) \in Nat /\ Len(new) \in Nat /\ Len(old) <= Len(new)
  BY DEF Extends
<1>3. i \in 1 .. Len(new) /\ new[i] = old[i]
  BY <1>1, <1>2 DEF Extends
<1>4. HasTerminal(new)
  BY <1>1, <1>3 DEF HasTerminal
<1>5. /\ j \in 1 .. Len(new)
      /\ IsTerminal(new[j])
      /\ \A k \in 1 .. (j - 1) : ~IsTerminal(new[k])
  BY <1>4, FirstTerminalExists
<1> HIDE DEF i, j
<1>6. ~(i < j)
  BY <1>1, <1>2, <1>3, <1>5
<1>7. ~(j < i)
  <2>1. SUFFICES ASSUME j < i PROVE FALSE
    OBVIOUS
  <2>2. j \in 1 .. (i - 1) /\ j \in 1 .. Len(old)
    BY <1>1, <1>2, <1>5, <2>1
  <2>3. new[j] = old[j]
    BY <2>2 DEF Extends
  <2> QED BY <1>1, <1>5, <2>2, <2>3
<1>8. i = j
  BY <1>1, <1>2, <1>5, <1>6, <1>7
<1> QED BY <1>3, <1>4, <1>8 DEF i, j

(* A terminal projection does not change as the log grows.                 *)
LEMMA DerivedStatusStable ==
  ASSUME NEW old \in Seq(Event), NEW new \in Seq(Event), Extends(old, new),
         DerivedStatus(old) \in TerminalStatuses
  PROVE  DerivedStatus(new) = DerivedStatus(old)
<1>1. HasTerminal(old)
  BY VerdictMeaning
<1>2. HasTerminal(new) /\ new[FirstTerminal(new)] = old[FirstTerminal(old)]
  BY <1>1, FirstTerminalStable
<1> QED BY <1>1, <1>2, VerdictMeaning

-----------------------------------------------------------------------------
(* The invariant. *)

LEMMA InitInvariant == Init => IInv
<1> SUFFICES ASSUME Init PROVE IInv
  OBVIOUS
<1> USE NumStagesAssumption
<1>1. TypeOK
  BY DEF Init, TypeOK, Statuses, Stages, Event
<1>2. \A e : ~Logged(events, e)
  BY DEF Init, Logged
<1>3. RecentIsLogged /\ LoopsKnowTheLog /\ StagesInOrder /\ StartedOnce
  BY DEF Init, RecentIsLogged, LoopsKnowTheLog, StagesInOrder, StartedOnce
<1>4. CompletedCoversAllStages
  BY <1>2 DEF CompletedCoversAllStages
<1> QED BY <1>1, <1>3, <1>4 DEF IInv

(* run() and resume() announce themselves with nothing done but what the   *)
(* log says is done; a stage that comes back adds itself.                  *)
LEMMA Announcements ==
  ASSUME IInv
  PROVE  /\ ~AlreadyStarted => Announcement(PipelineEvent("started"), DoneIn(events))
         /\ Announcement(PipelineEvent("resumed"), DoneIn(events))
         /\ \A c \in Calls : pc[c] = "executing" =>
              Announcement(StageEvent("stage_completed", at[c]), done[c] \cup {at[c]})
<1>1. /\ PipelineEvent("started") \in Event
      /\ PipelineEvent("resumed") \in Event
      /\ \A k \in Stages : StageEvent("stage_completed", k) \in Event
  BY EventsTyped DEF EventTypes
<1>2. /\ PipelineEvent("started") # PipelineEvent("completed")
      /\ PipelineEvent("resumed") # PipelineEvent("completed")
      /\ PipelineEvent("resumed") # PipelineEvent("started")
      /\ \A k : /\ StageEvent("stage_completed", k) # PipelineEvent("completed")
               /\ StageEvent("stage_completed", k) # PipelineEvent("started")
  BY DEF PipelineEvent, StageEvent
<1> QED BY <1>1, <1>2 DEF Announcement, IInv, LoopsKnowTheLog

(* Pausing and cancelling publish one event and touch no loop.             *)
LEMMA ControlKeepsInvariant ==
  ASSUME IInv, NEW t \in {"paused", "cancelled"},
         Publish(PipelineEvent(t)), status' = t, controls' = controls + 1,
         UNCHANGED <<pc, at, done, result, launches, registered>>
  PROVE  IInv'
<1> DEFINE e == PipelineEvent(t)
<1>1. e \in Event /\ e # PipelineEvent("started") /\ e # PipelineEvent("completed")
      /\ PipelineEvent("completed") \in Event
  BY EventsTyped DEF EventTypes, PipelineEvent
<1>2. PublishedOnly({e})
  BY <1>1, PublishFacts DEF IInv
<1>3. DoneIn(events) \subseteq DoneIn(events')
  BY <1>2, DoneGrows DEF PublishedOnly
<1>4. TypeOK'
  BY <1>2 DEF IInv, TypeOK, PublishedOnly, Statuses
<1>5. StartedOnce'
  BY <1>1, StartedOnceKept DEF IInv
<1>6. LoopsKnowTheLog' /\ StagesInOrder'
  BY <1>3 DEF IInv, TypeOK, LoopsKnowTheLog, StagesInOrder
<1>7. CompletedCoversAllStages'
  BY <1>1, <1>2, <1>3 DEF IInv, CompletedCoversAllStages, PublishedOnly, DoneIn
<1> QED BY <1>2, <1>4, <1>5, <1>6, <1>7 DEF IInv, PublishedOnly

(* A step that leaves the log and the loops alone keeps the invariant.     *)
LEMMA QuietStepKeepsInvariant ==
  ASSUME IInv, UNCHANGED <<events, at, done, launches>>,
         recent' \in SUBSET recent, TypeOK',
         \A c \in Calls : pc'[c] = "executing" => pc[c] = "executing"
  PROVE  IInv'
<1>1. DoneIn(events') = DoneIn(events)
  OBVIOUS
<1> QED BY <1>1 DEF IInv, RecentIsLogged, LoopsKnowTheLog, StagesInOrder,
                    CompletedCoversAllStages, StartedOnce, Logged

LEMMA StepInvariant == IInv /\ [Next]_vars => IInv'
<1> SUFFICES ASSUME IInv, [Next]_vars PROVE IInv'
  OBVIOUS
<1> USE NumStagesAssumption
<1>d. DoneIn(events) \in SUBSET Stages /\ DerivedStatus(events) \in Statuses
  BY VerdictMeaning DEF DoneIn, IInv, TypeOK
<1>1. ASSUME NEW c \in Calls, RunAgain(c) PROVE IInv'
  <2>1. TypeOK'
    BY <1>1, <1>d DEF RunAgain, Return, IInv, TypeOK
  <2> QED BY <1>1, <2>1, QuietStepKeepsInvariant DEF RunAgain, Return, IInv, TypeOK
<1>2. ASSUME NEW c \in Calls, RunStopped(c) PROVE IInv'
  <2>1. TypeOK'
    BY <1>2, <1>d DEF RunStopped, Return, IInv, TypeOK
  <2> QED BY <1>2, <2>1, QuietStepKeepsInvariant DEF RunStopped, Return, IInv, TypeOK
<1>3. ASSUME NEW c \in Calls, Run(c) PROVE IInv'
  BY <1>3, <1>d, Announcements, ProceedKeepsInvariant DEF Run, Statuses
<1>4. ASSUME NEW c \in Calls, Resume(c) PROVE IInv'
  BY <1>4, <1>d, Announcements, ProceedKeepsInvariant DEF Resume, Statuses
<1>5. ASSUME NEW c \in Calls, StageCompleted(c) PROVE IInv'
  <2> DEFINE e == StageEvent("stage_completed", at[c])
             i == at[c] + 1
             d == done[c] \cup {at[c]}
  <2>1. pc[c] = "executing"
    BY <1>5 DEF StageCompleted
  <2>2. /\ at[c] \in Stages
        /\ d \in SUBSET Stages
        /\ \A j \in 1 .. (at[c] - 1) : j \in done[c]
    BY <2>1 DEF IInv, TypeOK, LoopsKnowTheLog
  <2>3. i \in 1 .. (NumStages + 1) /\ \A j \in 1 .. (i - 1) : j \in d
    BY <2>2 DEF Stages
  <2>4. status \in Statuses
    BY DEF IInv, TypeOK
  <2>5. Announcement(e, d)
    BY <2>1, Announcements
  <2>6. Proceed(c, e, i, d, status) /\ UNCHANGED <<registered, controls>>
    BY <1>5 DEF StageCompleted
  <2> HIDE DEF e, i, d
  <2> QED BY <2>2, <2>3, <2>4, <2>5, <2>6, ProceedKeepsInvariant
<1>6. ASSUME NEW c \in Calls, StageFailed(c) PROVE IInv'
  <2> DEFINE e == StageEvent("stage_failed", at[c])
             f == PipelineEvent("failed")
  <2>1. at[c] \in Stages
    BY <1>6 DEF StageFailed, IInv, LoopsKnowTheLog
  <2>2. e \in Event /\ f \in Event /\ PipelineEvent("completed") \in Event
    BY <2>1, EventsTyped DEF EventTypes
  <2>3. /\ e # PipelineEvent("started") /\ e # PipelineEvent("completed")
        /\ f # PipelineEvent("started") /\ f # PipelineEvent("completed")
    BY DEF PipelineEvent, StageEvent
  <2>4. PublishedOnly({e, f})
    BY <1>6, <2>2, PublishTwoFacts DEF StageFailed, IInv
  <2>5. DoneIn(events) \subseteq DoneIn(events')
    BY <2>4, DoneGrows DEF PublishedOnly
  <2>6. TypeOK'
    BY <1>6, <2>4 DEF StageFailed, Return, IInv, TypeOK, PublishedOnly, Statuses
  <2>7. StartedOnce'
    BY <1>6, <2>2, <2>3, StartedOnceKept DEF StageFailed, IInv
  <2>8. LoopsKnowTheLog' /\ StagesInOrder'
    BY <1>6, <2>5 DEF StageFailed, Return, IInv, TypeOK, LoopsKnowTheLog, StagesInOrder
  <2>9. CompletedCoversAllStages'
    BY <2>2, <2>3, <2>4, <2>5 DEF IInv, CompletedCoversAllStages, PublishedOnly, DoneIn
  <2> QED BY <2>4, <2>6, <2>7, <2>8, <2>9 DEF IInv, PublishedOnly
<1>7. CASE Pause
  BY <1>7, ControlKeepsInvariant DEF Pause
<1>8. CASE Cancel
  BY <1>8, ControlKeepsInvariant DEF Cancel
<1>9. ASSUME NEW k \in Stages, Register(k) PROVE IInv'
  <2>1. TypeOK'
    BY <1>9 DEF Register, IInv, TypeOK
  <2> QED BY <1>9, <2>1, QuietStepKeepsInvariant DEF Register
<1>10. CASE Tick
  <2>1. TypeOK'
    BY <1>10 DEF Tick, IInv, TypeOK
  <2> QED BY <1>10, <2>1, QuietStepKeepsInvariant DEF Tick
<1>11. CASE UNCHANGED vars
  <2>1. TypeOK'
    BY <1>11 DEF vars, IInv, TypeOK
  <2> QED BY <1>11, <2>1, QuietStepKeepsInvariant DEF vars
<1> QED BY <1>1, <1>2, <1>3, <1>4, <1>5, <1>6, <1>7, <1>8, <1>9, <1>10, <1>11 DEF Next

(* The inductive invariant holds of every reachable state.                 *)
THEOREM Invariance == Spec => []IInv
BY InitInvariant, StepInvariant, PTL DEF Spec

(* The variables keep their types.                                         *)
THEOREM TypeCorrect == Spec => []TypeOK
<1>1. IInv => TypeOK
  BY DEF IInv
<1> QED BY <1>1, Invariance, PTL

(* Stages run in the order of the definition, however many calls overlap.  *)
THEOREM OrderedStages == Spec => []StagesInOrder
<1>1. IInv => StagesInOrder
  BY DEF IInv
<1> QED BY <1>1, Invariance, PTL

(* A completed pipeline has a result of each of its stages.                *)
THEOREM CompletionIsComplete == Spec => []CompletedCoversAllStages
<1>1. IInv => CompletedCoversAllStages
  BY DEF IInv
<1> QED BY <1>1, Invariance, PTL

(* run() starts a pipeline at most once.                                   *)
THEOREM OneStart == Spec => []StartedOnce
<1>1. IInv => StartedOnce
  BY DEF IInv
<1> QED BY <1>1, Invariance, PTL

-----------------------------------------------------------------------------
(* What a step may do. *)

(* A step publishes nothing, one event or two.                             *)
Publishes ==
  \/ UNCHANGED events
  \/ \E e \in Event : Publish(e)
  \/ \E e, f \in Event : PublishTwo(e, f)

LEMMA ProceedPublishes ==
  ASSUME NEW c \in Calls, NEW e \in Event, NEW i, NEW d, NEW s,
         registered \in SUBSET Stages, Proceed(c, e, i, d, s)
  PROVE  Publishes
<1>1. /\ PipelineEvent("completed") \in Event
      /\ PipelineEvent("failed") \in Event
      /\ \A k \in Stages : StageEvent("stage_started", k) \in Event
  BY EventsTyped DEF EventTypes
<1>2. CASE StopLoop(c, e, i, d, s)
  BY <1>2 DEF StopLoop, Publishes
<1>3. CASE FinishLoop(c, e, i, d, s)
  BY <1>1, <1>3 DEF FinishLoop, Publishes
<1>4. CASE FailUnregistered(c, e, i, d, s)
  BY <1>1, <1>4 DEF FailUnregistered, Publishes
<1>5. CASE LaunchStage(c, e, i, d, s)
  BY <1>1, <1>5 DEF LaunchStage, Publishes
<1> QED BY <1>2, <1>3, <1>4, <1>5 DEF Proceed

(* The log only grows.                                                     *)
LEMMA LogGrows == IInv /\ [Next]_vars => Extends(events, events')
<1> SUFFICES ASSUME IInv, [Next]_vars PROVE Extends(events, events')
  OBVIOUS
<1>1. /\ \A t \in {"started", "resumed", "paused", "cancelled", "failed"} :
           PipelineEvent(t) \in Event
      /\ \A k \in Stages : /\ StageEvent("stage_completed", k) \in Event
                          /\ StageEvent("stage_failed", k) \in Event
  BY EventsTyped DEF EventTypes
<1>2. registered \in SUBSET Stages /\ events \in Seq(Event)
  BY DEF IInv, TypeOK
<1>3. Publishes
  <2>1. ASSUME NEW c \in Calls, Run(c) PROVE Publishes
    BY <1>1, <1>2, <2>1, ProceedPublishes DEF Run
  <2>2. ASSUME NEW c \in Calls, Resume(c) PROVE Publishes
    BY <1>1, <1>2, <2>2, ProceedPublishes DEF Resume
  <2>3. ASSUME NEW c \in Calls, pc[c] = "executing" PROVE at[c] \in Stages
    BY <2>3 DEF IInv, LoopsKnowTheLog
  <2>4. ASSUME NEW c \in Calls, StageCompleted(c) PROVE Publishes
    <3>1. StageEvent("stage_completed", at[c]) \in Event
      BY <1>1, <2>3, <2>4 DEF StageCompleted
    <3>2. Proceed(c, StageEvent("stage_completed", at[c]), at[c] + 1,
                  done[c] \cup {at[c]}, status)
      BY <2>4 DEF StageCompleted
    <3> QED BY <1>2, <3>1, <3>2, ProceedPublishes
  <2>5. ASSUME NEW c \in Calls, StageFailed(c) PROVE Publishes
    BY <1>1, <2>3, <2>5 DEF StageFailed, Publishes
  <2>6. ASSUME Pause \/ Cancel PROVE Publishes
    BY <1>1, <2>6 DEF Pause, Cancel, Publishes
  <2>7. ASSUME NEW c \in Calls, RunAgain(c) \/ RunStopped(c) PROVE Publishes
    BY <2>7 DEF RunAgain, RunStopped, Publishes
  <2>8. ASSUME (\E k \in Stages : Register(k)) \/ Tick \/ UNCHANGED vars PROVE Publishes
    BY <2>8 DEF Register, Tick, vars, Publishes
  <2> QED BY <2>1, <2>2, <2>4, <2>5, <2>6, <2>7, <2>8 DEF Next
<1>4. CASE UNCHANGED events
  BY <1>4 DEF Extends
<1>5. CASE \E e \in Event : Publish(e)
  BY <1>5, PublishFacts DEF IInv, PublishedOnly
<1>6. CASE \E e, f \in Event : PublishTwo(e, f)
  BY <1>6, PublishTwoFacts DEF IInv, PublishedOnly
<1> QED BY <1>3, <1>4, <1>5, <1>6 DEF Publishes

(* The status projected from the log never leaves a terminal status.       *)
THEOREM TerminalProjectionStays == Spec => ProjectionFinal
<1>1. ASSUME IInv, [Next]_vars
      PROVE  [DerivedStatus(events) \in TerminalStatuses
                => DerivedStatus(events)' = DerivedStatus(events)]_vars
  <2>1. IInv' /\ Extends(events, events')
    BY <1>1, StepInvariant, LogGrows
  <2>2. events \in Seq(Event) /\ events' \in Seq(Event)
    BY <1>1, <2>1 DEF IInv, TypeOK
  <2>3. DerivedStatus(events)' = DerivedStatus(events')
    BY DEF DerivedStatus, LastControl, FirstTerminal, IsControl, IsTerminal
  <2> QED BY <2>1, <2>2, <2>3, DerivedStatusStable
<1> QED BY <1>1, Invariance, PTL DEF Spec, ProjectionFinal

(* No stage is launched while the pipeline is paused or cancelled.         *)
THEOREM PausedPipelinesLaunchNothing == Spec => StopStopsLaunches
<1>1. ASSUME [Next]_vars
      PROVE  [(\E k \in Stages : launches'[k] # launches[k])
                => status' \notin StoppedStatuses]_vars
  <2>1. ASSUME NEW c \in Calls, NEW e, NEW i, NEW d, NEW s, Proceed(c, e, i, d, s)
        PROVE  UNCHANGED launches \/ status' \notin StoppedStatuses
    BY <2>1 DEF Proceed, StopLoop, FinishLoop, FailUnregistered, LaunchStage, Return, Stopped
  <2>2. UNCHANGED launches \/ status' \notin StoppedStatuses
    <3>1. ASSUME NEW c \in Calls, Run(c) \/ Resume(c) \/ StageCompleted(c)
          PROVE  UNCHANGED launches \/ status' \notin StoppedStatuses
      <4>1. PICK e, i, d, s : Proceed(c, e, i, d, s)
        BY <3>1 DEF Run, Resume, StageCompleted
      <4> QED BY <2>1, <4>1
    <3>2. ASSUME NEW c \in Calls, RunAgain(c) \/ RunStopped(c) \/ StageFailed(c)
          PROVE  UNCHANGED launches
      BY <3>2 DEF RunAgain, RunStopped, StageFailed, Return
    <3>3. ASSUME Pause \/ Cancel \/ (\E k \in Stages : Register(k)) \/ Tick \/ UNCHANGED vars
          PROVE  UNCHANGED launches
      BY <3>3 DEF Pause, Cancel, Register, Tick, vars
    <3> QED BY <1>1, <3>1, <3>2, <3>3 DEF Next
  <2> QED BY <2>2
<1> QED BY <1>1, PTL DEF Spec, StopStopsLaunches
-----------------------------------------------------------------------------
(***************************************************************************)
(* When no two calls of run() or resume() overlap: a stage is executed at  *)
(* most once, and the coordinator implements the conveyor of               *)
(* StagedPipeline.  Without overlap a loop remembers exactly what the log  *)
(* says: that is LoopIsCurrent, which overlapping calls break.             *)
(***************************************************************************)
OneLoop ==
  \A b, c \in Calls : pc[b] = "executing" /\ pc[c] = "executing" => b = c

LoopIsCurrent ==
  \A c \in Calls : pc[c] = "executing" =>
    done[c] = DoneIn(events) /\ at[c] \notin done[c]

LaunchedIsDoneOrRunning ==
  \A k \in Stages : launches[k] > 0 =>
    k \in DoneIn(events) \/ \E c \in Calls : pc[c] = "executing" /\ at[c] = k

SerialInv ==
  /\ OneLoop
  /\ LoopIsCurrent
  /\ LaunchedIsDoneOrRunning
  /\ ExecutedAtMostOnce

-----------------------------------------------------------------------------
(* The set of stages with a result, and the verdict, after a publication.  *)

ResultsOf(S) == {k \in Stages : \E t \in ResultTypes : StageEvent(t, k) \in S}

LEMMA DoneAfter ==
  ASSUME NEW S, PublishedOnly(S)
  PROVE  DoneIn(events') = DoneIn(events) \cup ResultsOf(S)
<1>1. \A k \in Stages, t \in ResultTypes : StageEvent(t, k) \in Event
  BY EventsTyped DEF ResultTypes, EventTypes
<1>2. ASSUME NEW k \in Stages
      PROVE  k \in DoneIn(events') <=> k \in DoneIn(events) \/ k \in ResultsOf(S)
  BY <1>1 DEF PublishedOnly, DoneIn, ResultsOf
<1>3. /\ DoneIn(events') \subseteq Stages
      /\ DoneIn(events) \subseteq Stages
      /\ ResultsOf(S) \subseteq Stages
  BY DEF DoneIn, ResultsOf
<1> QED BY <1>2, <1>3

Judged(v, e) == IF v = "open" /\ IsTerminal(e) THEN e.type ELSE v

(* Recording an event decides an open verdict if the event is terminal,    *)
(* and changes no verdict otherwise.                                       *)
LEMMA VerdictOfRecord ==
  ASSUME NEW log \in Seq(Event), NEW e \in Event, e \in recent => Logged(log, e)
  PROVE  Verdict(Record(log, e)) = Judged(Verdict(log), e)
<1> DEFINE new == Record(log, e)
<1>1. new \in Seq(Event) /\ Extends(log, new)
  BY RecordFacts
<1>2. CASE HasTerminal(log)
  <2>1. Verdict(log) \in TerminalStatuses /\ Verdict(new) = Verdict(log)
    BY <1>1, <1>2, FirstTerminalStable, VerdictMeaning
  <2> QED BY <2>1 DEF Judged, TerminalStatuses
<1>3. CASE ~HasTerminal(log)
  <2>1. Verdict(log) = "open"
    BY <1>3, VerdictMeaning
  <2>2. CASE e \in recent
    <3>1. new = log
      BY <2>2 DEF Record
    <3>2. ~IsTerminal(e)
      BY <1>3, <2>2 DEF Logged, HasTerminal
    <3> QED BY <2>1, <3>1, <3>2 DEF Judged
  <2>3. CASE e \notin recent
    <3>1. new = Append(log, e)
      BY <2>3 DEF Record
    <3>2. /\ Len(new) = Len(log) + 1
          /\ \A i \in 1 .. Len(log) : new[i] = log[i]
          /\ new[Len(log) + 1] = e
          /\ Len(log) \in Nat
      BY <3>1
    <3>3. CASE IsTerminal(e)
      <4>1. HasTerminal(new)
        BY <3>2, <3>3 DEF HasTerminal
      <4>2. /\ FirstTerminal(new) \in 1 .. Len(new)
            /\ IsTerminal(new[FirstTerminal(new)])
        BY <1>1, <4>1, FirstTerminalExists
      <4>3. new[FirstTerminal(new)] = e
        BY <1>3, <3>2, <4>2 DEF HasTerminal
      <4>4. Verdict(new) = e.type
        BY <1>1, <4>1, <4>3, VerdictMeaning
      <4> QED BY <2>1, <3>3, <4>4 DEF Judged
    <3>4. CASE ~IsTerminal(e)
      <4>1. ~HasTerminal(new)
        BY <1>3, <3>2, <3>4 DEF HasTerminal
      <4> QED BY <1>1, <2>1, <3>4, <4>1, VerdictMeaning DEF Judged
    <3> QED BY <3>3, <3>4
  <2> QED BY <2>2, <2>3
<1> QED BY <1>2, <1>3

LEMMA VerdictAfterOne ==
  ASSUME TypeOK, RecentIsLogged, NEW e \in Event, Publish(e)
  PROVE  Verdict(events') = Judged(Verdict(events), e)
<1>1. e \in recent => Logged(events, e)
  BY DEF RecentIsLogged
<1>2. events \in Seq(Event) /\ events' = Record(events, e)
  BY DEF TypeOK, Publish
<1> QED BY <1>1, <1>2, VerdictOfRecord

LEMMA VerdictAfterTwo ==
  ASSUME TypeOK, RecentIsLogged, NEW e \in Event, NEW f \in Event, PublishTwo(e, f)
  PROVE  Verdict(events') = Judged(Judged(Verdict(events), e), f)
<1> DEFINE mid == Record(events, e)
<1>1. e \in recent => Logged(events, e)
  BY DEF RecentIsLogged
<1>2. events \in Seq(Event) /\ events' = Record(mid, f)
  BY DEF TypeOK, PublishTwo
<1>3. /\ mid \in Seq(Event)
      /\ f \in recent => Logged(mid, f)
  BY <1>1, <1>2, RecordFacts DEF RecentIsLogged
<1>4. Verdict(mid) = Judged(Verdict(events), e)
  BY <1>1, <1>2, VerdictOfRecord
<1> HIDE DEF mid
<1>5. Verdict(events') = Judged(Verdict(mid), f)
  BY <1>2, <1>3, VerdictOfRecord
<1> QED BY <1>4, <1>5

-----------------------------------------------------------------------------
(* The loop from one await to the next, as the conveyor sees it. *)

\* d is what is done once e is published.
DoneWith(e, d) == d = DoneIn(events) \cup ResultsOf({e})

Awaited == {at[c] : c \in {b \in Calls : pc[b] = "executing"}}

Outcome(d) ==
  /\ DoneIn(events') = d
  /\ \/ /\ Awaited' = {}
        /\ \/ Verdict(events') = Verdict(events)
           \/ /\ Verdict(events) = "open"
              /\ \/ Verdict(events') = "failed"
                 \/ Verdict(events') = "completed" /\ d = Stages
     \/ /\ \E k \in Conveyor!Following(d) : Awaited' = {k}
        /\ Verdict(events') = Verdict(events)

(* A loop that knows a result of every stage before its position looks at  *)
(* the stages without one in order, and has them all when none is left.    *)
LEMMA NextStage ==
  ASSUME NEW i \in 1 .. (NumStages + 1), NEW d \in SUBSET Stages,
         \A j \in 1 .. (i - 1) : j \in d
  PROVE  /\ Todo(i, d) = {} => d = Stages
         /\ \A k : IsNext(k, i, d) =>
              k \in Stages /\ k \notin d /\ \A j \in 1 .. (k - 1) : j \in d
<1> USE NumStagesAssumption
<1>1. ASSUME Todo(i, d) = {} PROVE d = Stages
  <2>1. ASSUME NEW j \in Stages PROVE j \in d
    <3>1. CASE j >= i
      BY <1>1, <2>1, <3>1 DEF Todo
    <3>2. CASE ~(j >= i)
      BY <2>1, <3>2 DEF Stages
    <3> QED BY <3>1, <3>2
  <2> QED BY <2>1
<1>2. ASSUME NEW k, IsNext(k, i, d)
      PROVE  k \in Stages /\ k \notin d /\ \A j \in 1 .. (k - 1) : j \in d
  <2>1. k \in Stages /\ k \notin d
    BY <1>2 DEF IsNext, Todo
  <2>2. ASSUME NEW j \in 1 .. (k - 1) PROVE j \in d
    BY <1>2, <2>1 DEF IsNext, Todo, Stages
  <2> QED BY <2>1, <2>2
<1> QED BY <1>1, <1>2

LEMMA ProceedSerially ==
  ASSUME IInv, SerialInv, NEW c \in Calls, NEW e \in Event,
         NEW i \in 1 .. (NumStages + 1), NEW d \in SUBSET Stages, NEW s,
         \A j \in 1 .. (i - 1) : j \in d,
         ~IsTerminal(e),
         DoneWith(e, d),
         \A b \in Calls : pc[b] = "executing" => b = c,
         \A k \in Stages : launches[k] > 0 => k \in d,
         Proceed(c, e, i, d, s)
  PROVE  SerialInv' /\ Outcome(d)
<1> USE NumStagesAssumption
<1>1. /\ TypeOK
      /\ RecentIsLogged
      /\ pc \in [Calls -> {"new", "executing", "returned"}]
      /\ at \in [Calls -> 0 .. NumStages]
      /\ done \in [Calls -> SUBSET Stages]
      /\ launches \in [Stages -> Nat]
      /\ registered \in SUBSET Stages
      /\ d \in SUBSET Stages
  BY DEF IInv, TypeOK, DoneIn, ResultsOf
<1>n. /\ Todo(i, d) = {} => d = Stages
      /\ \A k : IsNext(k, i, d) =>
           k \in Stages /\ k \notin d /\ \A j \in 1 .. (k - 1) : j \in d
  BY NextStage
<1>2. /\ PipelineEvent("completed") \in Event
      /\ PipelineEvent("failed") \in Event
      /\ \A k \in Stages : StageEvent("stage_started", k) \in Event
  BY EventsTyped DEF EventTypes
<1>3. \A f \in Event : f.type \notin ResultTypes => ResultsOf({e, f}) = ResultsOf({e})
  BY DEF ResultsOf, StageEvent
<1>4. ASSUME Return(c, s) \/ Return(c, "completed") \/ Return(c, "failed"),
             DoneIn(events') = d
      PROVE  SerialInv' /\ Awaited' = {}
  <2>1. /\ \A b \in Calls : pc'[b] # "executing"
        /\ UNCHANGED launches
    BY <1>1, <1>4 DEF Return
  <2>2. OneLoop' /\ LoopIsCurrent' /\ Awaited' = {}
    BY <2>1 DEF OneLoop, LoopIsCurrent, Awaited
  <2>3. LaunchedIsDoneOrRunning' /\ ExecutedAtMostOnce'
    BY <2>1, <1>4 DEF LaunchedIsDoneOrRunning, SerialInv, ExecutedAtMostOnce
  <2> QED BY <2>2, <2>3 DEF SerialInv
<1>5. CASE StopLoop(c, e, i, d, s)
  <2>1. DoneIn(events') = d
    BY <1>1, <1>5, PublishFacts, DoneAfter DEF StopLoop, DoneWith
  <2>2. Verdict(events') = Verdict(events)
    BY <1>1, <1>5, VerdictAfterOne DEF StopLoop, Judged
  <2> QED BY <1>4, <1>5, <2>1, <2>2 DEF StopLoop, Outcome
<1>6. CASE FinishLoop(c, e, i, d, s)
  <2> DEFINE f == PipelineEvent("completed")
  <2>1. f.type = "completed" /\ IsTerminal(f)
    BY DEF PipelineEvent, IsTerminal, TerminalStatuses
  <2>2. DoneIn(events') = d
    <3>1. PublishedOnly({e, f})
      BY <1>1, <1>2, <1>6, PublishTwoFacts DEF FinishLoop
    <3> QED BY <1>2, <1>3, <2>1, <3>1, DoneAfter DEF ResultTypes, DoneWith
  <2>3. Verdict(events') = Judged(Verdict(events), f)
    BY <1>1, <1>2, <1>6, VerdictAfterTwo DEF FinishLoop, Judged
  <2>4. d = Stages
    BY <1>6, <1>n DEF FinishLoop
  <2> QED BY <1>4, <1>6, <2>1, <2>2, <2>3, <2>4 DEF FinishLoop, Outcome, Judged
<1>7. CASE FailUnregistered(c, e, i, d, s)
  <2> DEFINE f == PipelineEvent("failed")
  <2>1. f.type = "failed" /\ IsTerminal(f)
    BY DEF PipelineEvent, IsTerminal, TerminalStatuses
  <2>2. DoneIn(events') = d
    <3>1. PublishedOnly({e, f})
      BY <1>1, <1>2, <1>7, PublishTwoFacts DEF FailUnregistered
    <3> QED BY <1>2, <1>3, <2>1, <3>1, DoneAfter DEF ResultTypes, DoneWith
  <2>3. Verdict(events') = Judged(Verdict(events), f)
    BY <1>1, <1>2, <1>7, VerdictAfterTwo DEF FailUnregistered, Judged
  <2> QED BY <1>4, <1>7, <2>1, <2>2, <2>3 DEF FailUnregistered, Outcome, Judged
<1>8. CASE LaunchStage(c, e, i, d, s)
  <2>1. PICK k \in registered : /\ IsNext(k, i, d)
                               /\ PublishTwo(e, StageEvent("stage_started", k))
                               /\ Await(c, k, d)
    BY <1>8 DEF LaunchStage
  <2> DEFINE f == StageEvent("stage_started", k)
  <2>2. /\ k \in Stages
        /\ k \notin d
        /\ \A j \in 1 .. (k - 1) : j \in d
    BY <2>1, <1>n
  <2>3. f \in Event /\ f.type = "stage_started" /\ ~IsTerminal(f)
    BY <1>2, <2>2 DEF StageEvent, IsTerminal, TerminalStatuses
  <2>4. DoneIn(events') = d
    <3>1. PublishedOnly({e, f})
      BY <1>1, <2>1, <2>3, PublishTwoFacts
    <3> QED BY <1>3, <2>3, <3>1, DoneAfter DEF ResultTypes, DoneWith
  <2>5. Verdict(events') = Verdict(events)
    BY <1>1, <2>1, <2>3, VerdictAfterTwo DEF Judged
  <2>6. /\ \A b \in Calls : pc'[b] = "executing" <=> b = c
        /\ at'[c] = k
        /\ done'[c] = d
        /\ launches' = [launches EXCEPT ![k] = @ + 1]
    BY <1>1, <2>1 DEF Await
  <2>7. k \in Conveyor!Following(d) /\ Awaited' = {k}
    BY <2>2, <2>6 DEF Conveyor!Following, Conveyor!Stages, Stages, Awaited
  <2>8. OneLoop' /\ LoopIsCurrent'
    BY <2>2, <2>4, <2>6 DEF OneLoop, LoopIsCurrent
  <2>9. LaunchedIsDoneOrRunning'
    BY <1>1, <2>2, <2>4, <2>6 DEF LaunchedIsDoneOrRunning
  <2>10. ExecutedAtMostOnce'
    <3>1. launches[k] \in Nat /\ ~(launches[k] > 0)
      <4>1. launches[k] \in Nat
        BY <1>1, <2>2
      <4> QED BY <2>2, <4>1, Zenon
    <3>2. \A n \in Nat : ~(n > 0) => n + 1 <= 1
      OBVIOUS
    <3> QED BY <1>1, <2>6, <3>1, <3>2 DEF ExecutedAtMostOnce, SerialInv
  <2> QED BY <2>4, <2>5, <2>7, <2>8, <2>9, <2>10 DEF SerialInv, Outcome
<1> QED BY <1>5, <1>6, <1>7, <1>8 DEF Proceed

-----------------------------------------------------------------------------
(* The steps of the coordinator as steps of the conveyor. *)

ConveyorStep == [Conveyor!Next]_(Conveyor!vars)

(* The refinement mapping, before and after a step.                        *)
LEMMA Mapping ==
  ASSUME NEW r, NEW w, NEW v,
         r = DoneIn(events'), w = Awaited', v = Verdict(events')
  PROVE  /\ (DoneIn(events))' = r
         /\ ({at[c] : c \in {b \in Calls : pc[b] = "executing"}})' = w
         /\ (IF DerivedStatus(events) \in TerminalStatuses
             THEN DerivedStatus(events) ELSE "open")' = v
BY DEF Awaited, Verdict

LEMMA Stutter ==
  ASSUME DoneIn(events') = DoneIn(events), Awaited' = Awaited,
         Verdict(events') = Verdict(events)
  PROVE  UNCHANGED Conveyor!vars
BY Mapping DEF Conveyor!vars, Awaited, Verdict

(* What a loop does up to its next await or its return is one step.        *)
LEMMA LoopStep ==
  ASSUME NEW d, Outcome(d),
         \/ Awaited = {} /\ d = DoneIn(events)
         \/ \E k \in Awaited : Awaited = {k} /\ d = DoneIn(events) \cup {k}
  PROVE  ConveyorStep
<1>1. CASE Awaited = {} /\ d = DoneIn(events) /\ Awaited' = {}
  <2>1. CASE Verdict(events') = Verdict(events)
    BY <1>1, <2>1, Stutter DEF Outcome, ConveyorStep
  <2>2. CASE /\ Verdict(events) = "open"
             /\ \/ Verdict(events') = "failed"
                \/ Verdict(events') = "completed" /\ d = Stages
    <3>1. Conveyor!Close
      BY <1>1, <2>2, Mapping
      DEF Outcome, Conveyor!Close, Conveyor!Decide, Conveyor!Stages, Stages, Awaited, Verdict
    <3> QED BY <3>1 DEF ConveyorStep, Conveyor!Next
  <2>3. \A k : Awaited' # {k}
    BY <1>1
  <2> QED BY <1>1, <2>1, <2>2, <2>3 DEF Outcome
<1>2. CASE Awaited = {} /\ d = DoneIn(events) /\ Awaited' # {}
  <2>1. Conveyor!Launch
    BY <1>2, Mapping DEF Outcome, Conveyor!Launch, Awaited, Verdict
  <2> QED BY <2>1 DEF ConveyorStep, Conveyor!Next
<1>3. CASE \E k \in Awaited : Awaited = {k} /\ d = DoneIn(events) \cup {k}
  <2>1. Conveyor!Resolve
    BY <1>3, Mapping
    DEF Outcome, Conveyor!Resolve, Conveyor!Decide, Conveyor!Stages, Stages, Awaited, Verdict
  <2> QED BY <2>1 DEF ConveyorStep, Conveyor!Next
<1> QED BY <1>1, <1>2, <1>3

-----------------------------------------------------------------------------
(* The invariant and the refinement, step by step. *)

LEMMA SerialInit ==
  ASSUME Init
  PROVE  SerialInv /\ Conveyor!Init
<1>1. DoneIn(events) = {} /\ ~HasTerminal(events) /\ events \in Seq(Event)
  BY DEF Init, DoneIn, Logged, HasTerminal
<1>2. SerialInv
  BY DEF Init, SerialInv, OneLoop, LoopIsCurrent, LaunchedIsDoneOrRunning, ExecutedAtMostOnce
<1>3. Verdict(events) = "open"
  BY <1>1, VerdictMeaning
<1>4. {at[c] : c \in {b \in Calls : pc[b] = "executing"}} = {}
  BY DEF Init
<1> QED BY <1>1, <1>2, <1>3, <1>4 DEF Conveyor!Init, Verdict

(* A step that adds no result, launches nothing and moves no loop.         *)
LEMMA QuietSerially ==
  ASSUME SerialInv, DoneIn(events') = DoneIn(events), UNCHANGED <<at, done, launches>>,
         \A c \in Calls : pc'[c] = "executing" <=> pc[c] = "executing"
  PROVE  SerialInv' /\ Awaited' = Awaited
<1>1. OneLoop' /\ LoopIsCurrent' /\ LaunchedIsDoneOrRunning' /\ ExecutedAtMostOnce'
  BY DEF SerialInv, OneLoop, LoopIsCurrent, LaunchedIsDoneOrRunning, ExecutedAtMostOnce
<1>2. Awaited' = Awaited
  BY DEF Awaited
<1> QED BY <1>1, <1>2 DEF SerialInv

LEMMA SerialStep ==
  ASSUME ~Overlap, IInv, SerialInv, [Next]_vars
  PROVE  SerialInv' /\ ConveyorStep
<1> USE NumStagesAssumption
<1>1. /\ TypeOK
      /\ RecentIsLogged
      /\ pc \in [Calls -> {"new", "executing", "returned"}]
      /\ DoneIn(events) \in SUBSET Stages
      /\ DoneIn(events) \subseteq Stages
  BY DEF IInv, TypeOK, DoneIn
<1>2. /\ \A t \in {"started", "resumed", "paused", "cancelled", "failed"} :
           PipelineEvent(t) \in Event /\ PipelineEvent(t).type = t
      /\ \A t \in ResultTypes, k \in Stages :
           StageEvent(t, k) \in Event /\ StageEvent(t, k).type = t
  BY EventsTyped DEF EventTypes, ResultTypes, PipelineEvent, StageEvent
<1>3. ASSUME NEW f \in Event, f.type \notin ResultTypes PROVE ResultsOf({f}) = {}
  BY <1>3 DEF ResultsOf, StageEvent
<1>4. ASSUME NEW c \in Calls, NEW f \in Event, f.type \in {"started", "resumed"}, MayCall(c),
             Proceed(c, f, 1, DoneIn(events), "running")
      PROVE  SerialInv' /\ ConveyorStep
  <2> DEFINE d == DoneIn(events)
             i == 1
  <2>1. \A b \in Calls : pc[b] # "executing"
    BY <1>4 DEF MayCall
  <2>2. Awaited = {} /\ \A k \in Stages : launches[k] > 0 => k \in d
    BY <2>1 DEF Awaited, SerialInv, LaunchedIsDoneOrRunning
  <2>3. ~IsTerminal(f) /\ DoneWith(f, d)
    BY <1>3, <1>4 DEF IsTerminal, TerminalStatuses, ResultTypes, DoneWith
  <2>4. i \in 1 .. (NumStages + 1) /\ \A j \in 1 .. (i - 1) : j \in d
    OBVIOUS
  <2>5. d \in SUBSET Stages /\ d = DoneIn(events) /\ Proceed(c, f, i, d, "running")
    BY <1>1, <1>4
  <2> HIDE DEF d, i
  <2>6. SerialInv' /\ Outcome(d)
    BY <2>1, <2>2, <2>3, <2>4, <2>5, ProceedSerially
  <2> QED BY <2>2, <2>5, <2>6, LoopStep
<1>5. ASSUME NEW c \in Calls, Run(c) \/ Resume(c) PROVE SerialInv' /\ ConveyorStep
  BY <1>2, <1>4, <1>5 DEF Run, Resume
<1>6. ASSUME NEW c \in Calls, pc[c] = "executing"
      PROVE  /\ at[c] \in Stages
             /\ done[c] = DoneIn(events)
             /\ \A b \in Calls : pc[b] = "executing" => b = c
             /\ Awaited = {at[c]}
             /\ \A j \in 1 .. (at[c] - 1) : j \in done[c]
             /\ \A k \in Stages : launches[k] > 0 => k \in done[c] \/ k = at[c]
  <2>1. \A b \in Calls : pc[b] = "executing" => b = c
    BY <1>6 DEF SerialInv, OneLoop
  <2>2. Awaited = {at[c]}
    BY <1>6, <2>1 DEF Awaited
  <2>3. /\ at[c] \in Stages
        /\ done[c] = DoneIn(events)
        /\ \A j \in 1 .. (at[c] - 1) : j \in done[c]
    BY <1>6 DEF IInv, LoopsKnowTheLog, SerialInv, LoopIsCurrent
  <2>4. \A k \in Stages : launches[k] > 0 => k \in done[c] \/ k = at[c]
    BY <2>1, <2>3 DEF SerialInv, LaunchedIsDoneOrRunning
  <2> QED BY <2>1, <2>2, <2>3, <2>4
<1>7. ASSUME NEW c \in Calls, StageCompleted(c) PROVE SerialInv' /\ ConveyorStep
  <2> DEFINE e == StageEvent("stage_completed", at[c])
             d == done[c] \cup {at[c]}
             i == at[c] + 1
  <2>1. pc[c] = "executing" /\ Proceed(c, e, i, d, status)
    BY <1>7 DEF StageCompleted
  <2>2. /\ at[c] \in Stages
        /\ done[c] = DoneIn(events)
        /\ \A b \in Calls : pc[b] = "executing" => b = c
        /\ Awaited = {at[c]}
        /\ \A j \in 1 .. (at[c] - 1) : j \in done[c]
        /\ \A k \in Stages : launches[k] > 0 => k \in d
    BY <1>6, <2>1
  <2>3. d \in SUBSET Stages /\ d = DoneIn(events) \cup {at[c]}
    BY <1>1, <2>2
  <2>4. i \in 1 .. (NumStages + 1) /\ \A j \in 1 .. (i - 1) : j \in d
    BY <2>2 DEF Stages
  <2>5. e \in Event /\ ~IsTerminal(e) /\ DoneWith(e, d)
    <3>1. e \in Event /\ e.type = "stage_completed"
      BY <1>2, <2>2 DEF ResultTypes
    <3>2. ResultsOf({e}) = {at[c]}
      BY <2>2 DEF ResultsOf, StageEvent, ResultTypes
    <3> QED BY <2>3, <3>1, <3>2 DEF IsTerminal, TerminalStatuses, DoneWith
  <2> HIDE DEF e, d, i
  <2>6. SerialInv' /\ Outcome(d)
    BY <2>1, <2>2, <2>3, <2>4, <2>5, ProceedSerially
  <2> QED BY <2>2, <2>3, <2>6, LoopStep
<1>8. ASSUME NEW c \in Calls, StageFailed(c) PROVE SerialInv' /\ ConveyorStep
  <2> DEFINE e == StageEvent("stage_failed", at[c])
             f == PipelineEvent("failed")
             d == done[c] \cup {at[c]}
  <2>1. pc[c] = "executing" /\ PublishTwo(e, f) /\ Return(c, "failed")
    BY <1>8 DEF StageFailed
  <2>2. /\ at[c] \in Stages
        /\ done[c] = DoneIn(events)
        /\ \A b \in Calls : pc[b] = "executing" => b = c
        /\ Awaited = {at[c]}
        /\ \A k \in Stages : launches[k] > 0 => k \in d
    BY <1>6, <2>1
  <2>3. /\ e \in Event /\ e.type = "stage_failed" /\ ~IsTerminal(e)
        /\ f \in Event /\ f.type = "failed" /\ IsTerminal(f)
    BY <1>2, <2>2 DEF ResultTypes, IsTerminal, TerminalStatuses
  <2>4. DoneIn(events') = d
    <3>1. PublishedOnly({e, f})
      BY <1>1, <2>1, <2>3, PublishTwoFacts
    <3>2. ResultsOf({e, f}) = {at[c]}
      BY <2>2 DEF ResultsOf, StageEvent, PipelineEvent, ResultTypes
    <3> QED BY <2>2, <3>1, <3>2, DoneAfter
  <2>5. Verdict(events') = Judged(Verdict(events), f)
    BY <1>1, <2>1, <2>3, VerdictAfterTwo DEF Judged
  <2>6. (\A b \in Calls : pc'[b] # "executing") /\ UNCHANGED launches
    BY <1>1, <2>1, <2>2 DEF Return
  <2>7. SerialInv'
    BY <2>2, <2>4, <2>6 DEF SerialInv, OneLoop, LoopIsCurrent, LaunchedIsDoneOrRunning,
                            ExecutedAtMostOnce
  <2>8. Outcome(d)
    BY <2>3, <2>4, <2>5, <2>6 DEF Outcome, Judged, Awaited
  <2> QED BY <2>2, <2>7, <2>8, LoopStep
<1>9. ASSUME NEW t \in {"paused", "cancelled"}, Publish(PipelineEvent(t)),
             UNCHANGED <<pc, at, done, launches>>
      PROVE  SerialInv' /\ ConveyorStep
  <2> DEFINE e == PipelineEvent(t)
  <2>1. e \in Event /\ e.type = t /\ e.type \notin ResultTypes
    BY <1>2 DEF ResultTypes
  <2>2. DoneIn(events') = DoneIn(events)
    BY <1>1, <1>3, <1>9, <2>1, PublishFacts, DoneAfter
  <2>3. SerialInv' /\ Awaited' = Awaited
    BY <1>9, <2>2, QuietSerially
  <2>4. Verdict(events') = Judged(Verdict(events), e)
    BY <1>1, <1>9, <2>1, VerdictAfterOne
  <2>5. CASE Verdict(events') = Verdict(events)
    BY <2>2, <2>3, <2>5, Stutter DEF ConveyorStep
  <2>6. CASE Verdict(events) = "open" /\ Verdict(events') = "cancelled"
    <3>1. Conveyor!Cancel
      BY <2>2, <2>3, <2>6, Mapping DEF Conveyor!Cancel, Awaited, Verdict
    <3> QED BY <2>3, <3>1 DEF ConveyorStep, Conveyor!Next
  <2> QED BY <2>1, <2>4, <2>5, <2>6 DEF Judged, IsTerminal, TerminalStatuses
<1>10. ASSUME UNCHANGED <<events, at, done, launches>>,
              \A c \in Calls : pc'[c] = "executing" <=> pc[c] = "executing"
       PROVE  SerialInv' /\ ConveyorStep
  <2>1. SerialInv' /\ Awaited' = Awaited /\ DoneIn(events') = DoneIn(events)
    BY <1>10, QuietSerially
  <2>2. Verdict(events') = Verdict(events)
    BY <1>10
  <2> QED BY <2>1, <2>2, Stutter DEF ConveyorStep
<1>11. ASSUME NEW c \in Calls, RunAgain(c) \/ RunStopped(c) PROVE SerialInv' /\ ConveyorStep
  BY <1>1, <1>10, <1>11 DEF RunAgain, RunStopped, MayCall, Return
<1>12. CASE Pause \/ Cancel
  BY <1>9, <1>12 DEF Pause, Cancel
<1>13. CASE (\E k \in Stages : Register(k)) \/ Tick \/ UNCHANGED vars
  BY <1>10, <1>13 DEF Register, Tick, vars
<1> QED BY <1>5, <1>7, <1>8, <1>11, <1>12, <1>13 DEF Next

(* Without overlapping calls a stage is executed at most once.             *)
THEOREM AtMostOneExecution ==
  ASSUME ~Overlap
  PROVE  Spec => []ExecutedAtMostOnce
<1>1. Init => SerialInv
  BY SerialInit
<1>2. IInv /\ SerialInv /\ [Next]_vars => SerialInv'
  BY SerialStep
<1>3. SerialInv => ExecutedAtMostOnce
  BY DEF SerialInv
<1> QED BY <1>1, <1>2, <1>3, Invariance, PTL DEF Spec

(* Without overlapping calls the coordinator implements StagedPipeline:    *)
(* stages one by one, in order, each once, and one verdict.                *)
THEOREM Refinement ==
  ASSUME ~Overlap
  PROVE  Spec => ImplementsStagedPipeline
<1>1. Init => SerialInv /\ Conveyor!Init
  BY SerialInit
<1>2. IInv /\ SerialInv /\ [Next]_vars => SerialInv' /\ [Conveyor!Next]_(Conveyor!vars)
  BY SerialStep DEF ConveyorStep
<1> QED BY <1>1, <1>2, Invariance, PTL DEF Spec, ImplementsStagedPipeline, Conveyor!Spec
=============================================================================
