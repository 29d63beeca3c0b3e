--------------------------- MODULE MemorySession ---------------------------
(***************************************************************************)
(* The sessions of the memory engine: each operation runs in a session     *)
(* that records what the operation does, and a registry keeps the sessions *)
(* for the engine's own validation.                                        *)
(*                                                                         *)
(* An operation is a list of stretches between two awaits: what it records *)
(* in each, and what it records when the provider it awaits fails.  The    *)
(* engine has one session at a time: an operation begun while another one  *)
(* is awaited throws (see MemoryEngine for what that does to callers).     *)
(*                                                                         *)
(* Abstracted: ids, payloads and latencies; the clock does not go back.    *)
(***************************************************************************)
EXTENDS Naturals, Sequences, FiniteSets

CONSTANTS
  MaxSessions,  \* bound on the sessions of one engine
  MaxTime       \* bound on the readings of the clock

ASSUME SessionBounds == MaxSessions \in Nat /\ MaxTime \in Nat

VARIABLES
  active,     \* the sessions under way: none or one
  completed,  \* the sessions the registry has registered, in order
  operation,  \* the operation of the active session, and its next stretch
  clock,      \* what the session clock reads
  refused     \* operations begun while another one was awaited

sessionVars == <<active, completed, operation, clock, refused>>

Operations == {"store", "retrieve", "search", "update", "delete"}
Statuses == {"created", "initialized", "running", "completed", "failed", "disposed"}
Counters == {"validation", "storage", "index", "retrieval"}

\* MEMORY_SESSION_TRANSITIONS
Allowed ==
  [created |-> {"initialized"}, initialized |-> {"running"}, running |-> {"completed", "failed"},
   completed |-> {"disposed"}, failed |-> {"disposed"}, disposed |-> {}]

\* What the operations record in the stretches after their first await, when
\* it answers: the calls of scope.record... in MemoryEngine.
Writing == << <<"validation", "storage">>, <<"storage">>, <<"index">> >>
Reading == << <<"retrieval">> >>
Stretches(name) == IF name \in {"retrieve", "search"} THEN Reading ELSE Writing

\* What is recorded before the first await.
Opening(name) == IF name \in {"retrieve", "search"} THEN <<"validation", "retrieval">> ELSE <<"validation">>

-----------------------------------------------------------------------------
\* createMemorySession
NewSession(now) ==
  [status |-> "created", revision |-> 1, createdAt |-> now, errors |-> 0,
   operations |-> <<>>, diagnostics |-> <<>>, lifecycle |-> <<>>,
   counters |-> [k \in Counters |-> 0]]

\* evolveSession
Evolved(s) == [s EXCEPT !.revision = @ + 1]

\* initialize-, start-, complete-, fail- and disposeMemorySession
Moved(s, to, now) ==
  [Evolved(s) EXCEPT !.status = to, !.errors = IF to = "failed" THEN @ + 1 ELSE @,
                     !.lifecycle = Append(@, [from |-> s.status, to |-> to, at |-> now])]

\* Mutant: what is recorded is not counted.
Counted_Never(s, kind) == s.counters

\* incrementOperationCounter
Counted(s, kind) == [s.counters EXCEPT ![kind] = @ + 1]

\* recordMemoryOperation
Operated(s, kind, now) ==
  [Evolved(s) EXCEPT !.operations = Append(@, [kind |-> kind, at |-> now]), !.counters = Counted(s, kind)]

\* recordMemorySessionDiagnostic
Diagnosed(s, now) == [Evolved(s) EXCEPT !.diagnostics = Append(@, [at |-> now])]

\* The operations of one stretch (there are at most two) ...
Recorded(s, kinds, now) ==
  IF Len(kinds) = 2 THEN Operated(Operated(s, kinds[1], now), kinds[2], now) ELSE Operated(s, kinds[1], now)

Session == CHOOSE s \in active : TRUE

\* ... and how the operation ends: withMemorySession, finalizeTerminal.
Closed(s, how, now) == Moved(Moved(s, how, now), "disposed", now)

SessionInit ==
  /\ active = {}
  /\ completed = <<>>
  /\ operation = [name |-> "store", next |-> 0]
  /\ clock = 0
  /\ refused = 0

Finish(s, how) ==
  /\ completed' = Append(completed, Closed(s, how, clock))
  /\ active' = {}
  /\ UNCHANGED operation

-----------------------------------------------------------------------------
MayBegin == active = {}

\* beginExecution, and the operation up to its first await: a request that is
\* not valid fails at once with its issues (recordWarning) or without.
Begin ==
  /\ MayBegin
  /\ Len(completed) < MaxSessions
  /\ \E name \in Operations, valid \in BOOLEAN :
       LET running == Moved(Moved(NewSession(clock), "initialized", clock), "running", clock)
       IN  IF valid
           THEN /\ active' = active \cup {Recorded(running, Opening(name), clock)}
                /\ operation' = [name |-> name, next |-> 1]
                /\ UNCHANGED completed
           ELSE Finish(Diagnosed(Recorded(running, <<"validation">>, clock), clock), "failed")
  /\ UNCHANGED <<clock, refused>>

\* beginExecution throws; the session of the other operation is untouched.
BeginRefused ==
  /\ ~MayBegin
  /\ refused < 1
  /\ refused' = refused + 1
  /\ UNCHANGED <<active, completed, operation, clock>>

\* recordProviderLatency, of the operations that measure.
Timed(s, now) ==
  IF operation.name \in {"update", "delete"} THEN s ELSE Diagnosed(Evolved(s), now)

\* What was awaited answers: the next stretch, or the end.
Answered ==
  /\ active # {}
  /\ LET kinds == Stretches(operation.name)
         s == Timed(Recorded(Session, kinds[operation.next], clock), clock)
     IN  IF operation.next = Len(kinds)
         THEN Finish(s, "completed")
         ELSE /\ active' = {s}
              /\ operation' = [operation EXCEPT !.next = @ + 1]
              /\ UNCHANGED completed
  /\ UNCHANGED <<clock, refused>>

\* It fails, or what is read is not there: the operation notes it, and
\* withMemorySession notes it again.
ProviderFails ==
  /\ active # {}
  /\ operation.name \in {"retrieve", "search"} \/ operation.next > 1
  /\ Finish(Diagnosed(Diagnosed(Session, clock), clock), "failed")
  /\ UNCHANGED <<clock, refused>>

\* The record is inconsistent, noted twice as well, or its check throws, which
\* withMemorySession notes before it throws to the caller.
CheckFails ==
  /\ active # {}
  /\ operation.name \in {"store", "update", "delete"} /\ operation.next = 1
  /\ \/ Finish(Diagnosed(Diagnosed(Timed(Operated(Session, "validation", clock), clock), clock), clock), "failed")
     \/ Finish(Diagnosed(Session, clock), "failed")
  /\ UNCHANGED <<clock, refused>>

\* What is awaited takes its time.
Tick ==
  /\ active # {}
  /\ clock < MaxTime
  /\ clock' = clock + 1
  /\ UNCHANGED <<active, completed, operation, refused>>

SessionNext == Begin \/ BeginRefused \/ Answered \/ ProviderFails \/ CheckFails \/ Tick

-----------------------------------------------------------------------------
\* The engine's own validation of the sessions under way and registered.
Sessions == active \cup {completed[i] : i \in DOMAIN completed}

\* validateMemorySession
LifecycleConnected(s) ==
  \A i \in 2 .. Len(s.lifecycle) : s.lifecycle[i - 1].to = s.lifecycle[i].from

\* validateSessionRevisionMonotonic
RevisionMonotonic(s) == s.revision >= 1 + Len(s.lifecycle)

\* validateSessionHistoriesAppendOnly
InOrder(history) == \A i \in 2 .. Len(history) : history[i - 1].at <= history[i].at
HistoriesAppendOnly(s) == InOrder(s.operations) /\ InOrder(s.diagnostics) /\ InOrder(s.lifecycle)

\* validateSessionFinalState
FinalState(s) ==
  /\ s.status \notin {"completed", "failed"}
  /\ s.status = "disposed" => s.lifecycle # <<>>
  /\ s.lifecycle # <<>> => s.lifecycle[Len(s.lifecycle)].to = s.status

\* validateSessionOperationsByState
OperationsByState(s) ==
  s.operations # <<>> => \E i \in DOMAIN s.lifecycle : s.lifecycle[i].to = "running"

\* validateSessionStatisticsCoherence: computeMemorySessionStatistics copies
\* the counters, so that they are compared with themselves.
Statistics(s) == s.counters
StatisticsCoherent(s) == Statistics(s) = s.counters

\* validateRegisteredMemorySessions
RegisteredSessionsValid ==
  \A s \in Sessions :
    /\ LifecycleConnected(s) /\ RevisionMonotonic(s) /\ HistoriesAppendOnly(s)
    /\ FinalState(s) /\ OperationsByState(s) /\ StatisticsCoherent(s)

-----------------------------------------------------------------------------
\* What the validation does not see: each counter is the number of operations
\* recorded, and a registered session without an error has recorded every step
\* of its operation, as many storage results as requests, and an index update
\* for each write; one with an error is not counted as completed.
CountersCount(s) ==
  \A k \in Counters : s.counters[k] = Cardinality({i \in DOMAIN s.operations : s.operations[i].kind = k})

\* assertTransition never throws.
TransitionsAllowed(s) ==
  \A i \in DOMAIN s.lifecycle : s.lifecycle[i].to \in Allowed[s.lifecycle[i].from]

StepsAreTold(s) ==
  LET went(to) == \E k \in DOMAIN s.lifecycle : s.lifecycle[k].to = to
  IN  /\ s.status = "disposed"
      /\ s.errors = 0 <=> went("completed")
      /\ went("completed") => s.counters["storage"] = 2 * s.counters["index"]
                              /\ s.counters["index"] + s.counters["retrieval"] > 0

\* Whatever fails and whatever is begun while another operation is awaited,
\* the engine's validation finds nothing wrong with its sessions, one is under
\* way at most, and each tells all that its operation did and nothing else.
SessionsAreTrue ==
  /\ RegisteredSessionsValid
  /\ \A s, t \in active : s = t
  /\ \A s \in Sessions : TransitionsAllowed(s) /\ CountersCount(s)
  /\ \A i \in DOMAIN completed : StepsAreTold(completed[i])
=============================================================================
