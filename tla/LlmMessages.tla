----------------------------- MODULE LlmMessages -----------------------------
(***************************************************************************)
(* The conversation of a tool loop as it crosses the wire: each provider   *)
(* turns the messages that Atlas keeps into the messages of its API, and   *)
(* what its API answers into a message to keep.  The APIs want to see      *)
(* again what they answered: the calls of tools as they made them, with    *)
(* what they attached to them, and after them the result of each.          *)
(*                                                                         *)
(* Abstracted: a text is empty, blank or words; of the arguments of a call *)
(* only whether they are an object matters, a name goes with an id.        *)
(***************************************************************************)
EXTENDS Lists

CONSTANTS
  CallIds,     \* ids of calls of tools
  NoCall,      \* stands for an id or an attachment that is not there
  MaxBlocks,   \* bound on the blocks or calls of an answer
  MaxAnswers   \* bound on the answers of a conversation

ASSUME WireBounds == NoCall \notin CallIds /\ {MaxBlocks, MaxAnswers} \subseteq Nat

VARIABLES
  api,    \* the provider: "anthropic" or "openai-compatible"
  kept,   \* messages of the tool loop
  given   \* history: the answers of the API

wireVars == <<api, kept, given>>

Texts_Given == {"", "blank", "words"}

\* What the APIs may answer: blocks of Anthropic, calls of the others; an
\* Anthropic block may lack its id, a call may have an attachment.
Blocks == [type : {"text"}, text : Texts_Given]
            \cup [type : {"tool_use"}, id : CallIds \cup {NoCall}]
            \cup [type : {"thinking"}]
Calls_Given == [id : CallIds, arguments : {"object", "unparsable"}, extra : {NoCall, "signature"}]

Kept(role, text, calls, of) == [role |-> role, text |-> text, calls |-> calls, of |-> of]
Asked == Kept("user", "words", <<>>, NoCall)

WireInit ==
  /\ api \in {"anthropic", "openai-compatible"}
  /\ kept = <<Kept("system", "words", <<>>, NoCall), Asked>>
  /\ given = <<>>

-----------------------------------------------------------------------------
System(messages) == Picked(messages, {i \in DOMAIN messages : messages[i].role = "system"})
Conversation(messages) == Picked(messages, {i \in DOMAIN messages : messages[i].role # "system"})

Wired(role, content) == [role |-> role, content |-> content]
TextBlock(text) == [type |-> "text", text |-> text]
ToolUse(call) == [type |-> "tool_use", id |-> call.id]

AnthropicBlocks(m) ==
  (IF m.text = "words" THEN <<TextBlock(m.text)>> ELSE <<>>)
    \o [i \in DOMAIN m.calls |-> ToolUse(m.calls[i])]

\* splitMessages of the Anthropic provider: the system goes beside the rest.
AnthropicMessage(m) ==
  CASE m.role = "user" -> Wired("user", <<TextBlock(m.text)>>)
    [] m.role = "assistant" ->
         Wired("assistant", IF m.calls = <<>> THEN <<TextBlock(m.text)>> ELSE AnthropicBlocks(m))
    [] m.role = "tool" -> Wired("user", <<[type |-> "tool_result", of |-> m.of]>>)

AnthropicMessages(messages) ==
  LET shown == Conversation(messages) IN [i \in DOMAIN shown |-> AnthropicMessage(shown[i])]

\* mapMessages of the OpenAI-compatible one
OpenAiMessage(m) ==
  [role |-> m.role, of |-> m.of, calls |-> m.calls,
   text |-> IF m.calls # <<>> /\ m.text # "words" THEN "" ELSE m.text]
OpenAiMessages(messages) == [i \in DOMAIN messages |-> OpenAiMessage(messages[i])]

-----------------------------------------------------------------------------
Selected(s, type) == Picked(s, {i \in DOMAIN s : s[i].type = type})

\* join, of texts of which only whether they are empty or blank matters
JoinedTexts(texts) ==
  LET values == {texts[i].text : i \in DOMAIN texts}
  IN  IF "words" \in values THEN "words"
      ELSE IF texts = <<>> \/ (Len(texts) = 1 /\ values = {""}) THEN "" ELSE "blank"

\* mapAnthropicResponse: the texts in one, the calls that have an id.
AnthropicAnswer(content) ==
  LET uses == Picked(content, {i \in DOMAIN content : content[i].type = "tool_use" /\ content[i].id # NoCall})
      calls == [i \in DOMAIN uses |-> [id |-> uses[i].id, arguments |-> "object", extra |-> NoCall]]
  IN  Kept("assistant", JoinedTexts(Selected(content, "text")), calls, NoCall)

\* Mutant: what the provider attached to a call is not kept.
OpenAiCall_NoExtra(call) == [call EXCEPT !.extra = NoCall]

\* mapToolCalls, parseToolArguments: what cannot be parsed becomes {}.
OpenAiCall(call) == IF call.arguments = "object" THEN call ELSE [call EXCEPT !.arguments = "none"]
OpenAiAnswer(body) ==
  Kept("assistant", body.text, [i \in DOMAIN body.calls |-> OpenAiCall(body.calls[i])], NoCall)

\* The tool loop executes the calls one after the other; an answer without
\* calls ends the turn, and the next one has a message of the user.
Results(m) ==
  IF m.calls = <<>> THEN <<Asked>>
  ELSE [i \in DOMAIN m.calls |-> Kept("tool", "words", <<>>, m.calls[i].id)]

Take(body, m) ==
  /\ Len(given) < MaxAnswers
  /\ given' = Append(given, body)
  /\ kept' = kept \o <<m>> \o Results(m)
  /\ UNCHANGED api

\* Each call of an answer has an id of its own.
Distinct(calls) == \A i, j \in DOMAIN calls : calls[i].id = calls[j].id => calls[i].id = NoCall \/ i = j

AnthropicAnswers ==
  /\ api = "anthropic"
  /\ \E n \in 0 .. MaxBlocks : \E content \in [1 .. n -> Blocks] :
       /\ Distinct(Selected(content, "tool_use"))
       /\ Take(content, AnthropicAnswer(content))

OpenAiAnswers ==
  /\ api = "openai-compatible"
  /\ \E n \in 0 .. MaxBlocks : \E body \in [text : Texts_Given, calls : [1 .. n -> Calls_Given]] :
       /\ Distinct(body.calls)
       /\ Take(body, OpenAiAnswer(body))

WireNext == AnthropicAnswers \/ OpenAiAnswers

-----------------------------------------------------------------------------
\* What follows the i-th answer in a request, up to the next one.
Answer_Positions(sent) == {p \in DOMAIN sent : sent[p].role = "assistant"}
Answer_Position(sent, i) ==
  LET P == Answer_Positions(sent) IN Arranged(P, {p \in P \X P : p[1] < p[2]})[i]
Following(sent, i) ==
  SubSeq(sent, Answer_Position(sent, i) + 1,
         IF i = Len(given) THEN Len(sent) ELSE Answer_Position(sent, i + 1) - 1)

\* The calls of an answer that can be executed and echoed: those with an id.
CallsMade(content) ==
  Picked(content, {i \in DOMAIN content : content[i].type = "tool_use" /\ content[i].id # NoCall})
IdsOf(calls) == [k \in DOMAIN calls |-> calls[k].id]

\* The next request to Anthropic begins with the user, shows every answer once
\* with the calls it made in their order and no empty text beside them, and
\* after them their results, each in place.
AnthropicSeesItsCalls ==
  LET sent == AnthropicMessages(kept)
  IN  /\ sent[1].role = "user" /\ Len(System(kept)) = 1
      /\ Cardinality(Answer_Positions(sent)) = Len(given)
      /\ \A i \in DOMAIN given :
           LET echoed == sent[Answer_Position(sent, i)].content
               made == CallsMade(given[i])
               follows == Following(sent, i)
           IN  /\ Selected(echoed, "tool_use") = made
               /\ made # <<>> =>
                    /\ \A b \in DOMAIN echoed : echoed[b].type = "text" => echoed[b].text = "words"
                    /\ [k \in DOMAIN follows |-> follows[k].content[1].of] = IdsOf(made)
               /\ made = <<>> => Len(follows) = 1 /\ follows[1].content[1].type = "text"
               /\ TextBlock("words") \in {given[i][b] : b \in DOMAIN given[i]}
                    => TextBlock("words") \in {echoed[b] : b \in DOMAIN echoed}

\* The next request to another API shows every answer with its calls and what
\* was attached to each, their arguments too where they could be parsed, and
\* after them their results, each in place.
OthersSeeTheirCalls ==
  LET sent == OpenAiMessages(kept)
  IN  /\ Cardinality(Answer_Positions(sent)) = Len(given)
      /\ \A i \in DOMAIN given :
           LET echoed == sent[Answer_Position(sent, i)]
               follows == Following(sent, i)
           IN  /\ IdsOf(echoed.calls) = IdsOf(given[i].calls)
               /\ \A k \in DOMAIN echoed.calls :
                    \/ echoed.calls[k] = given[i].calls[k]
                    \/ given[i].calls[k].arguments = "unparsable"
                       /\ echoed.calls[k].extra = given[i].calls[k].extra
               /\ echoed.text # given[i].text => echoed.calls # <<>> /\ given[i].text = "blank"
               /\ IF echoed.calls = <<>> THEN Len(follows) = 1 /\ follows[1].role = "user"
                  ELSE [k \in DOMAIN follows |-> follows[k].of] = IdsOf(echoed.calls)

AnswersAreEchoed == IF api = "anthropic" THEN AnthropicSeesItsCalls ELSE OthersSeeTheirCalls
=============================================================================
