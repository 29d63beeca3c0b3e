-------------------------- MODULE ChatSessionStore --------------------------
(***************************************************************************)
(* The conversation of one workspace in the web server: the SessionStore   *)
(* of apps/web, the chat turns of packages/cli that run on its sessions,   *)
(* and the file conversation.json they are persisted to.                   *)
(*                                                                         *)
(* A request asks the store for the workspace's session, runs a turn on it *)
(* and persists that session.  Between the two, only the call to the LLM   *)
(* gives the thread back to other requests: everything else a request      *)
(* awaits settles in microtasks, so that a request without an LLM is one   *)
(* step.  A request keeps the session object it was given, also when       *)
(* saving the LLM settings has taken it out of the map in the meantime.    *)
(*                                                                         *)
(* Abstracted: an exchange, its messages and the workspace's records are   *)
(* the request that made it; conversation and session ids, timestamps,     *)
(* activity.  The branch of #persistDeterministicConversation for a        *)
(* workspace without a session is not reached from the server's routes,    *)
(* which all call getOrCreate first.  A write of the file happens whole or *)
(* not at all.  promised, written and calm are history variables.          *)
(***************************************************************************)
EXTENDS Naturals, Sequences

CONSTANTS
  Requests,   \* the HTTP requests; each also names the session it creates
  Nobody,     \* no request
  MaxResets,  \* bound on how often the LLM settings are saved
  MaxFaults   \* bound on failed writes and restarts together

ASSUME NobodyAssumption == Nobody \notin Requests
ASSUME BoundsAssumption == MaxResets \in Nat /\ MaxFaults \in Nat

Exchanges == Seq(Requests)
Session == [llm : BOOLEAN, turns : Nat, history : Exchanges, last : Requests \cup {Nobody}]
Blank == [llm |-> FALSE, turns |-> 0, history |-> <<>>, last |-> Nobody]
Conversation == [turns : Nat, history : Exchanges, last : Requests \cup {Nobody},
                 shown : Exchanges]

VARIABLES
  file,          \* conversation.json; shown is its field deterministicHistory
  configured,    \* do the LLM settings in force make a client an LLM client?
  session,       \* session[s]: the ChatSessionState that request s created
  current,       \* the session the map #sessions holds, or Nobody
  deterministic, \* the exchanges in the map #deterministicHistory
  bootstrapped,  \* has #bootstrapWorkspace read the file?
  pc,            \* pc[r]: "new", "asking" the LLM, or "done"
  uses,          \* uses[r]: the session an asking request works on
  promised,      \* the exchanges answered so far, oldest first
  written,       \* what was promised when the file was last written
  calm,          \* have the settings never been saved in the middle of a turn,
                 \* nor a conversation changed mode?
  resets, faults

bounds == <<resets, faults>>
memory == <<session, current, deterministic, bootstrapped>>
vars == <<file, configured, memory, pc, uses, promised, written, calm, bounds>>

Elements(s) == {s[i] : i \in 1 .. Len(s)}

Init ==
  /\ file = [turns |-> 0, history |-> <<>>, last |-> Nobody, shown |-> <<>>]
  /\ configured \in BOOLEAN
  /\ session = [r \in Requests |-> Blank]
  /\ current = Nobody
  /\ deterministic = <<>>
  /\ bootstrapped = FALSE
  /\ pc = [r \in Requests |-> "new"]
  /\ uses = [r \in Requests |-> Nobody]
  /\ promised = <<>>
  /\ written = <<>>
  /\ calm = TRUE
  /\ resets = 0
  /\ faults = 0

-----------------------------------------------------------------------------
(* getOrCreate. *)

\* Mutant: the history is restored together with the exchanges shown.
Restored_BothHistories ==
  [llm |-> configured, turns |-> file.turns, history |-> file.history \o file.shown,
   last |-> file.last]

\* Mutant: the last turn is not restored.
Restored_NoLastTurn ==
  [llm |-> configured, turns |-> file.turns, history |-> file.history, last |-> Nobody]

\* A new client with the settings in force; #applyPersistedConversation.
Restored ==
  [llm |-> configured, turns |-> file.turns, history |-> file.history, last |-> file.last]

Given(r) == IF current # Nobody THEN current ELSE r
GivenState(r) == IF current # Nobody THEN session[current] ELSE Restored

\* Mutant: the exchanges of before a restart are not read.
Bootstrapped_Empty == deterministic

\* #bootstrapWorkspace reads the exchanges shown when it runs for the first time.
Bootstrapped == IF bootstrapped THEN deterministic ELSE file.shown

\* What a request that is given its session and makes it s leaves in memory,
\* d being the exchanges in #deterministicHistory.
Keep(r, s, d) ==
  /\ session' = [session EXCEPT ![Given(r)] = s]
  /\ current' = Given(r)
  /\ deterministic' = d
  /\ bootstrapped' = TRUE

Counted(s) == [llm |-> s.llm, turns |-> s.turns + 1, history |-> s.history, last |-> s.last]

Settled(r) == pc' = [pc EXCEPT ![r] = "done"] /\ uses' = [uses EXCEPT ![r] = Nobody]

-----------------------------------------------------------------------------
(* persistSession and writePersistedConversation. *)

\* The LLM history hides the deterministic one; an empty one changes nothing.
Visible(history, d) ==
  IF history # <<>> THEN history ELSE IF d # <<>> THEN d ELSE file.shown

Persisted(s, d) ==
  [turns |-> s.turns, history |-> s.history, last |-> s.last, shown |-> Visible(s.history, d)]

\* A write that fails is swallowed: the request is answered all the same.
Write(s, d) ==
  \/ /\ file' = Persisted(s, d)
     /\ written' = promised'
     /\ UNCHANGED faults
  \/ /\ faults < MaxFaults
     /\ faults' = faults + 1
     /\ UNCHANGED <<file, written>>

-----------------------------------------------------------------------------
(* The requests. *)

\* GET of the history, the activity, the documents: only the session is made.
Visit(r) ==
  /\ pc[r] = "new"
  /\ Keep(r, GivenState(r), Bootstrapped)
  /\ Settled(r)
  /\ UNCHANGED <<file, configured, promised, written, calm, bounds>>

\* executeLlmChatTurn up to the call of the LLM.
Ask(r) ==
  /\ pc[r] = "new"
  /\ GivenState(r).llm
  /\ Keep(r, Counted(GivenState(r)), Bootstrapped)
  /\ pc' = [pc EXCEPT ![r] = "asking"]
  /\ uses' = [uses EXCEPT ![r] = Given(r)]
  /\ UNCHANGED <<file, configured, promised, written, calm, bounds>>

\* recordTurnMessages and lastTurn, on the session the request was given.
Recorded(s, r) ==
  [llm |-> s.llm, turns |-> s.turns, history |-> Append(s.history, r), last |-> r]

Answered(r) ==
  LET s == Recorded(session[uses[r]], r) IN
  /\ pc[r] = "asking"
  /\ session' = [session EXCEPT ![uses[r]] = s]
  /\ Settled(r)
  /\ promised' = Append(promised, r)
  /\ Write(s, deterministic)
  /\ UNCHANGED <<configured, current, deterministic, bootstrapped, calm, resets>>

\* The LLM call throws: the turn stays counted and nothing else is kept of it.
AskFails(r) ==
  /\ pc[r] = "asking"
  /\ Settled(r)
  /\ UNCHANGED <<file, configured, memory, promised, written, calm, bounds>>

\* executeDeterministicChatTurn and recordDeterministicExchange.
Converse(r) ==
  LET s == Counted(GivenState(r))
      d == Append(Bootstrapped, r) IN
  /\ pc[r] = "new"
  /\ ~GivenState(r).llm
  /\ Keep(r, s, d)
  /\ Settled(r)
  /\ promised' = Append(promised, r)
  /\ Write(s, d)
  /\ UNCHANGED <<configured, calm, resets>>

ConverseFails(r) ==
  /\ pc[r] = "new"
  /\ ~GivenState(r).llm
  /\ Keep(r, Counted(GivenState(r)), Bootstrapped)
  /\ Settled(r)
  /\ UNCHANGED <<file, configured, promised, written, calm, bounds>>

\* POST of a correction: whatever applyCorrection answers, the session is persisted.
Correct(r) ==
  /\ pc[r] = "new"
  /\ Keep(r, GivenState(r), Bootstrapped)
  /\ Settled(r)
  /\ UNCHANGED <<configured, promised, calm, resets>>
  /\ Write(GivenState(r), Bootstrapped)

-----------------------------------------------------------------------------
Asking == {r \in Requests : pc[r] = "asking"}

\* resetLlmClients, after the settings were saved or deleted: the map is
\* cleared, #deterministicHistory stays.
ResetLlmClients ==
  /\ resets < MaxResets
  /\ resets' = resets + 1
  /\ configured' \in BOOLEAN
  /\ current' = Nobody
  /\ calm' = (calm /\ Asking = {} /\ (configured' = configured \/ promised = <<>>))
  /\ promised' = IF configured THEN written ELSE promised
  /\ UNCHANGED <<file, session, deterministic, bootstrapped, pc, uses, written, faults>>

\* The server stops and is started again.
Restart ==
  /\ faults < MaxFaults
  /\ faults' = faults + 1
  /\ session' = [r \in Requests |-> Blank]
  /\ current' = Nobody
  /\ deterministic' = <<>>
  /\ bootstrapped' = FALSE
  /\ pc' = [r \in Requests |-> IF pc[r] = "asking" THEN "done" ELSE pc[r]]
  /\ uses' = [r \in Requests |-> Nobody]
  /\ promised' = written
  /\ UNCHANGED <<file, configured, written, calm, resets>>

Next ==
  \/ \E r \in Requests :
       \/ Visit(r)
       \/ Ask(r) \/ Answered(r) \/ AskFails(r)
       \/ Converse(r) \/ ConverseFails(r)
       \/ Correct(r)
  \/ ResetLlmClients
  \/ Restart

Spec == Init /\ [][Next]_vars

-----------------------------------------------------------------------------
(* The conversation survives: as long as the settings are not saved in the *)
(* middle of a turn and the workspace stays with or without an LLM, the    *)
(* file shows every answered exchange, in the order of the answers, across *)
(* overlapping turns, failed turns and writes, restarts and saved settings; *)
(* only what a failed write left in memory may be missing.                 *)
ConversationKept == calm => file.shown = written

NoRepeats(s) == \A i, j \in 1 .. Len(s) : s[i] = s[j] => i = j

(* No exchange is recorded twice, in the file or in a session, whatever is *)
(* restored from the file and whatever turns are under way meanwhile.      *)
NoExchangeTwice ==
  /\ NoRepeats(file.shown) /\ NoRepeats(deterministic)
  /\ \A r \in Requests : NoRepeats(session[r].history)

LastOf(h) == IF h = <<>> THEN Nobody ELSE h[Len(h)]

(* A correction, which is applied to lastTurn, applies to the exchange the *)
(* history ends with, in every session and after every restart.            *)
LastTurnEndsHistory ==
  /\ file.last = LastOf(file.history)
  /\ \A r \in Requests : session[r].last = LastOf(session[r].history)

-----------------------------------------------------------------------------
(* The comment of resetLlmClients, apps/web/src/session-store.ts, line 473: *)
(* 'Conversations are rebuilt from their persisted history, as after a     *)
(* restart.'  An answered exchange that was written is in that history.    *)
RebuiltFromHistory == Elements(written) \subseteq Elements(file.shown)
=============================================================================
