------------------------------ MODULE ToolLoop ------------------------------
(***************************************************************************)
(* The turns of one chat session with an LLM: the tool loop of             *)
(* packages/llm, which calls the provider and the tools it asks for until  *)
(* an answer comes or the budget is used up, and the history of            *)
(* packages/cli, from whose last turns each loop starts and to which each  *)
(* turn is appended when its loop ends.                                    *)
(*                                                                         *)
(* Turns of a session overlap: a turn gives the thread back while it       *)
(* awaits the context package, the provider or a tool.  An action is what  *)
(* runs between two awaits.  A request to the provider is the window of    *)
(* the history, the user's message and the turn's own messages.  A history *)
(* that fits the window is handed over itself, not copied: what other      *)
(* turns record while the context is built is in the window too.           *)
(*                                                                         *)
(* Abstracted: of a message its role, of an assistant message how many     *)
(* tools it calls, of a tool message which of these calls it answers.  An  *)
(* unknown tool and a tool that throws are answered as well, with an       *)
(* error, so a tool's outcome makes no difference.  The reason why the     *)
(* provider stopped makes none either, only the calls do.                  *)
(***************************************************************************)
EXTENDS Naturals, Sequences

CONSTANTS
  Turns,        \* the turns of the session
  Window,       \* DEFAULT_HISTORY_WINDOW_TURNS
  MaxTurns,     \* budget.maxTurns: calls of the provider in a turn
  MaxTokens,    \* the values budget.maxTotalTokens may have
  NoLimit,      \* stands for a budget without maxTotalTokens
  MaxUsage,     \* bound on the tokens one call of the provider takes
  MaxCalls      \* bound on the tools one message calls

ASSUME WindowAssumption == Window \in Nat \ {0}
ASSUME BoundsAssumption == {MaxTurns, MaxUsage, MaxCalls} \subseteq Nat
ASSUME TokensAssumption == MaxTokens \subseteq Nat /\ NoLimit \notin MaxTokens

Message == [role : {"user", "assistant", "tool"}, calls : 0 .. MaxCalls, call : 0 .. MaxCalls]
User == [role |-> "user", calls |-> 0, call |-> 0]
Assistant(n) == [role |-> "assistant", calls |-> n, call |-> 0]
Tool(k) == [role |-> "tool", calls |-> 0, call |-> k]

VARIABLES
  history,     \* session.history
  boundaries,  \* session.turnBoundaries
  limit,       \* budget.maxTotalTokens, or NoLimit
  pc,          \* pc[t]: "new", "building" the context package, "calling" the
               \* provider, "executing" a tool,
               \* "answered", "exceeded" (success false) or "failed" (it threw)
  loop         \* loop[t]: the variables of t's loop while it runs

vars == <<history, boundaries, limit, pc, loop>>

\* Whether the window is the session's own array, the window when it is not,
\* the messages after the user's, the tokens and the provider calls the
\* budget tracker has counted.
Loop == [shared : BOOLEAN, window : Seq(Message), transcript : Seq(Message),
         tokens : Nat, calls : 0 .. MaxTurns]
NewLoop(s, w) == [shared |-> s, window |-> w, transcript |-> <<>>, tokens |-> 0, calls |-> 0]
Idle == NewLoop(FALSE, <<>>)

Init ==
  /\ history = <<>>
  /\ boundaries = <<>>
  /\ limit \in MaxTokens \cup {NoLimit}
  /\ pc = [t \in Turns |-> "new"]
  /\ loop = [t \in Turns |-> Idle]

-----------------------------------------------------------------------------
From(s, n) == SubSeq(s, n, Len(s))

\* Mutant: the last Window messages instead of the last Window turns.
RecentTurns_Messages ==
  IF Len(history) <= Window
  THEN NewLoop(TRUE, <<>>)
  ELSE NewLoop(FALSE, From(history, Len(history) - Window + 1))

\* selectRecentTurns
RecentTurns ==
  IF Len(boundaries) <= Window
  THEN NewLoop(TRUE, <<>>)
  ELSE NewLoop(FALSE, From(history, boundaries[Len(boundaries) - Window + 1] + 1))

\* recordTurnMessages
Record(messages) ==
  /\ boundaries' = Append(boundaries, Len(history))
  /\ history' = history \o messages

-----------------------------------------------------------------------------
TurnsUsedUp(n) == n >= MaxTurns

TokensUsedUp(n) == limit # NoLimit /\ n > limit

\* The loop of t is over, with the messages ms of the turn: executeLlmChatTurn
\* appends them to the history.
Finish(t, ms, outcome) ==
  /\ pc' = [pc EXCEPT ![t] = outcome]
  /\ loop' = [loop EXCEPT ![t] = Idle]
  /\ Record(<<User>> \o ms)

GoOn(t, l, step) ==
  /\ pc' = [pc EXCEPT ![t] = step]
  /\ loop' = [loop EXCEPT ![t] = l]
  /\ UNCHANGED <<history, boundaries>>

\* The head of the loop.
Again(t, l) ==
  IF TurnsUsedUp(l.calls) THEN Finish(t, l.transcript, "exceeded") ELSE GoOn(t, l, "calling")

\* executeLlmChatTurn up to the context package.
Select(t) ==
  /\ pc[t] = "new"
  /\ GoOn(t, RecentTurns, "building")
  /\ UNCHANGED limit

\* runToolLoop is called: it copies the history it is given.
Start(t) ==
  LET l == loop[t] IN
  /\ pc[t] = "building"
  /\ Again(t, IF l.shared THEN NewLoop(FALSE, history) ELSE l)
  /\ UNCHANGED limit

\* The tokens a call takes matter only to a budget that limits them.
Usage == IF limit = NoLimit THEN {0} ELSE 0 .. MaxUsage

Answered(l, message) == [l EXCEPT !.transcript = Append(@, message)]

\* The provider's answer is consumed: n tool calls, u tokens.
Consumed(l, n, u) ==
  [Answered(l, Assistant(n)) EXCEPT !.tokens = @ + u, !.calls = @ + 1]

\* The tokens are used up: the loop is left before the tools are called.
BudgetExceeded(t, n, u) ==
  LET l == Consumed(loop[t], n, u) IN
  /\ pc[t] = "calling"
  /\ TokensUsedUp(l.tokens)
  /\ Finish(t, l.transcript, "exceeded")
  /\ UNCHANGED limit

ToolsCalled(t, n, u) ==
  LET l == Consumed(loop[t], n, u) IN
  /\ pc[t] = "calling"
  /\ ~TokensUsedUp(l.tokens)
  /\ n > 0
  /\ GoOn(t, l, "executing")
  /\ UNCHANGED limit

FinalAnswer(t, u) ==
  LET l == Consumed(loop[t], 0, u) IN
  /\ pc[t] = "calling"
  /\ ~TokensUsedUp(l.tokens)
  /\ Finish(t, l.transcript, "answered")
  /\ UNCHANGED limit

\* The context or the provider fails, the turn's promise is rejected: what
\* the turn has done is not recorded.
TurnFails(t) ==
  /\ pc[t] \in {"building", "calling"}
  /\ GoOn(t, Idle, "failed")
  /\ UNCHANGED limit

\* The tool calls of the last assistant message, and how many were answered.
LastAssistant(ms) ==
  CHOOSE i \in 1 .. Len(ms) : /\ ms[i].role = "assistant"
                              /\ \A j \in (i + 1) .. Len(ms) : ms[j].role = "tool"
ToolCalls(ms) == ms[LastAssistant(ms)].calls
Executed(ms) == Len(ms) - LastAssistant(ms)

MoreTools(ms) == Executed(ms) < ToolCalls(ms)

\* A tool settles: its result, or its error, is the answer to its call.
ToolSettles(t) ==
  LET l == Answered(loop[t], Tool(Executed(loop[t].transcript) + 1)) IN
  /\ pc[t] = "executing"
  /\ IF MoreTools(l.transcript) THEN GoOn(t, l, "executing") ELSE Again(t, l)
  /\ UNCHANGED limit

Next ==
  \E t \in Turns :
    \/ Select(t)
    \/ Start(t)
    \/ \E u \in Usage :
         \/ FinalAnswer(t, u)
         \/ \E n \in 0 .. MaxCalls : BudgetExceeded(t, n, u) \/ ToolsCalled(t, n, u)
    \/ TurnFails(t)
    \/ ToolSettles(t)

Spec == Init /\ [][Next]_vars

-----------------------------------------------------------------------------
Request(t) == loop[t].window \o <<User>> \o loop[t].transcript

\* Each tool result follows the message that made the call.
ResultsHaveCalls(ms) ==
  \A i \in 1 .. Len(ms) : ms[i].role = "tool" =>
    /\ ms[i].call < i
    /\ ms[i - ms[i].call].role = "assistant"
    /\ ms[i].call <= ms[i - ms[i].call].calls

\* Each call has its result.
CallsHaveResults(ms) ==
  \A i \in 1 .. Len(ms) : \A k \in 1 .. ms[i].calls :
    i + k <= Len(ms) /\ ms[i + k] = Tool(k)

(* The type invariant: each variable holds what its declaration says.      *)
TypeOK ==
  /\ history \in Seq(Message)
  /\ boundaries \in Seq(Nat)
  /\ limit \in MaxTokens \cup {NoLimit}
  /\ pc \in [Turns -> {"new", "building", "calling", "executing", "answered", "exceeded", "failed"}]
  /\ loop \in [Turns -> Loop]

(* Each tool result comes after its call, and a request starts with a      *)
(* message of the user: the window never cuts a turn.                      *)
NoResultWithoutCall ==
  /\ ResultsHaveCalls(history)
  /\ \A t \in Turns : pc[t] = "calling" => /\ ResultsHaveCalls(Request(t))
                                           /\ Request(t)[1] = User

(* Each tool call is followed by its result, in this turn's messages and   *)
(* in those of earlier ones.                                               *)
NoCallWithoutResult ==
  /\ CallsHaveResults(history)
  /\ \A t \in Turns : pc[t] = "calling" => CallsHaveResults(Request(t))

(* Whatever turns overlap, fail or use up their budget, the provider is    *)
(* never sent a tool result without its call, nor, with a budget that only *)
(* counts turns, a call without its result.                                *)
RequestsAreWhole ==
  /\ NoResultWithoutCall
  /\ limit = NoLimit => NoCallWithoutResult
=============================================================================
