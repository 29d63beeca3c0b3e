----------------------------- MODULE LlmProviders -----------------------------
(***************************************************************************)
(* One completion of an LLM over HTTP, by the Anthropic or by the OpenAI-  *)
(* compatible provider: a transient answer is waited out and the request   *)
(* is sent again, a few times, unless the server asks to wait too long.    *)
(*                                                                         *)
(* Abstracted: the messages; a status is the number, a delay is in seconds.*)
(***************************************************************************)
EXTENDS Naturals

CONSTANTS
  Statuses,    \* of answers that are not ok
  Hints,       \* the delays that a server asks for, in seconds
  NoHint,      \* no retry-after header, no retryDelay in the body
  MaxAttempts, \* MAX_ATTEMPTS
  MaxDelay     \* MAX_RETRY_DELAY_MS

ASSUME ProviderBounds ==
  Statuses \cup Hints \subseteq Nat /\ NoHint \notin Hints /\ MaxAttempts \in Nat \ {0} /\ MaxDelay \in Nat
\* The doubling delays; the proof system knows nothing of powers.
ASSUME DoublingAssumption == \A n \in 0 .. MaxAttempts : 2 ^ n \in Nat

VARIABLES
  completion,  \* [provider, pc, attempt, the delay it sleeps]
  now,         \* the time since the first request was sent
  notBefore    \* history: the time before which the server asked for no request

providerVars == <<completion, now, notBefore>>

\* RETRYABLE_STATUSES of the two providers
RetryableStatuses(provider) == IF provider = "anthropic" THEN {429, 503, 529} ELSE {429, 503}

ProvidersInit ==
  /\ \E provider \in {"anthropic", "openai-compatible"} :
       completion = [provider |-> provider, pc |-> "sent", attempt |-> 1, delay |-> 0]
  /\ now = 0 /\ notBefore = 0

\* Only the OpenAI-compatible servers put a hint in the body; it comes first.
Hint(inBody, header) == IF inBody # NoHint THEN inBody ELSE header

\* Mutant: the longest delay instead of no retry.
RetryDelay_Capped(hint, attempt) ==
  LET delay == IF hint # NoHint THEN hint ELSE 2 ^ (attempt - 1)
  IN  IF delay <= MaxDelay THEN delay ELSE MaxDelay

\* resolveRetryDelayMs; NoHint stands for undefined.
RetryDelay(hint, attempt) ==
  LET delay == IF hint # NoHint THEN hint ELSE 2 ^ (attempt - 1)
  IN  IF delay <= MaxDelay THEN delay ELSE NoHint

Retries(status, hint) ==
  /\ status \in RetryableStatuses(completion.provider)
  /\ completion.attempt < MaxAttempts
  /\ RetryDelay(hint, completion.attempt) # NoHint

Succeed ==
  /\ completion.pc = "sent"
  /\ completion' = [completion EXCEPT !.pc = "completed"]
  /\ UNCHANGED <<now, notBefore>>

Refuse ==
  /\ completion.pc = "sent"
  /\ \E status \in Statuses, header \in Hints \cup {NoHint}, inBody \in Hints \cup {NoHint} :
       LET hint == Hint(inBody, header) IN
       /\ completion.provider = "anthropic" => inBody = NoHint
       /\ notBefore' = IF hint = NoHint THEN now ELSE now + hint
       /\ completion' = IF Retries(status, hint)
                        THEN [completion EXCEPT !.pc = "sleeping",
                                !.delay = RetryDelay(hint, completion.attempt)]
                        ELSE [completion EXCEPT !.pc = "rejected"]
  /\ UNCHANGED now

\* fetch rejects: it is not tried again.
Unreachable ==
  /\ completion.pc = "sent"
  /\ completion' = [completion EXCEPT !.pc = "rejected"]
  /\ UNCHANGED <<now, notBefore>>

\* A timer may be late by a second.
Wake ==
  /\ completion.pc = "sleeping"
  /\ \E late \in {0, 1} : now' = now + completion.delay + late
  /\ completion' = [completion EXCEPT !.pc = "sent", !.attempt = @ + 1, !.delay = 0]
  /\ UNCHANGED notBefore

ProvidersNext == Succeed \/ Refuse \/ Unreachable \/ Wake

-----------------------------------------------------------------------------
\* A request is never sent before the time the server asked for, and a turn is
\* not held up for longer than its retries may wait, timers that are late by a
\* second included.
RetriesKeepTheTimes ==
  /\ completion.pc = "sent" => now >= notBefore
  /\ now <= (MaxAttempts - 1) * (MaxDelay + 1)
  /\ completion.attempt <= MaxAttempts
=============================================================================
