------------------------------ MODULE WebChat ------------------------------
(***************************************************************************)
(* The chat page of the web client and the server's conversations behind   *)
(* it.  A page sends a request, remembers nothing of it but what its       *)
(* closure holds, and goes on: while the answer is on its way the user can *)
(* leave the page, switch the workspace, retry or correct, and answers     *)
(* arrive in any order, fail or are lost after the server has done its     *)
(* part.                                                                   *)
(*                                                                         *)
(* Abstracted: texts, metrics and the reasoning animation; a goal and its  *)
(* exchange are the number of the turn.  The server serves a request in    *)
(* one step (ChatSessionStore is about what happens inside), in LLM mode.  *)
(***************************************************************************)
EXTENDS WebWorkspaces, Sequences, Functions

CONSTANTS
  MaxTurns,    \* bound on the goals and corrections sent
  MaxFaults,   \* bound on requests that fail or whose answer is lost
  MaxSwitches  \* bound on changes of workspace and page

ASSUME ChatBounds == MaxTurns \in Nat /\ MaxFaults \in Nat /\ MaxSwitches \in Nat

VARIABLES
  page,         \* AppState and the chat page's own state and controls
  chatCalls,    \* the requests whose answer has not been handled
  stored,       \* stored[w]: the turns of the conversation of w
  corrections,  \* the corrections recorded: of which turn, and which was meant
  sent,         \* goals and corrections sent
  chatFaults,
  switches,
  disturbed     \* history: the user acted while an answer was awaited, or sent
                \* a goal with the correction panel open

chatVars == <<page, chatCalls, stored, corrections, sent, chatFaults, switches, disturbed>>

Turns == 1 .. MaxTurns
Message(kind, turn, of) == [kind |-> kind, turn |-> turn, of |-> of]
Call(kind, of, turn, meant) ==
  [kind |-> kind, of |-> of, turn |-> turn, meant |-> meant, result |-> "awaited", turns |-> <<>>]
Results(kind) == {c \in chatCalls : c.kind = kind}

\* AppState as the page is mounted on another route than the chat.
ChatInit ==
  /\ \E w \in Workspaces :
       page = [route |-> "other", active |-> w, messages |-> <<>>, chatLoading |-> FALSE,
               historyLoading |-> FALSE, loadedFor |-> None, canCorrect |-> FALSE,
               correctable |-> None, failedGoal |-> None, composer |-> TRUE, panel |-> None]
  /\ chatCalls = {}
  /\ stored = [w \in Workspaces |-> <<>>]
  /\ corrections = {}
  /\ sent = 0
  /\ chatFaults = 0
  /\ switches = 0
  /\ disturbed = FALSE

-----------------------------------------------------------------------------
\* replaceLastLoadingMessage, removeLastErrorMessage
WithoutLast(messages, kind) ==
  IF messages # <<>> /\ messages[Len(messages)].kind = kind
  THEN SubSeq(messages, 1, Len(messages) - 1)
  ELSE messages

ReplaceLoading(messages, m) == Append(WithoutLast(messages, "loading"), m)

\* mapHistoryMessagesToUi: each exchange is a message of the user and one of the assistant.
Shown(turns, of) ==
  [i \in 1 .. 2 * Len(turns) |->
     Message(IF i % 2 = 1 THEN "user" ELSE "assistant", turns[(i + 1) \div 2], of)]

LastOf(turns) == IF turns = <<>> THEN None ELSE turns[Len(turns)]

\* preloadHistory up to its await: a history that is being loaded, of
\* whatever workspace, is waited for.
NeedsHistory(p) == p.loadedFor # p.active /\ ~p.historyLoading

\* renderChat: new controls, and the history when it is another workspace's.
Rendered(p) ==
  [p EXCEPT !.composer = TRUE, !.panel = None, !.historyLoading = @ \/ NeedsHistory(p)]

HistoryCalls(p) == IF NeedsHistory(p) THEN {Call("history", p.active, None, None)} ELSE {}

Arrive(p) ==
  IF p.route = "chat"
  THEN page' = Rendered(p) /\ chatCalls' = chatCalls \cup HistoryCalls(p)
  ELSE page' = [p EXCEPT !.composer = TRUE, !.panel = None] /\ UNCHANGED chatCalls

Acts == disturbed' = (disturbed \/ chatCalls # {})

-----------------------------------------------------------------------------
\* submitChatMessage up to its await; a retry shows no message of the user.
SubmitMessage(isRetry) ==
  LET turn == sent + 1
      before == WithoutLast(page.messages, "error")
      mine == IF isRetry THEN <<>> ELSE <<Message("user", turn, page.active)>>
  IN  /\ sent < MaxTurns
      /\ sent' = turn
      /\ page' = [page EXCEPT !.chatLoading = TRUE, !.failedGoal = None, !.composer = FALSE,
                              !.messages = before \o mine \o <<Message("loading", turn, page.active)>>]
      /\ chatCalls' = chatCalls \cup {Call("chat", page.active, turn, None)}
      /\ disturbed' = (disturbed \/ chatCalls # {} \/ page.panel # None)
      /\ UNCHANGED <<stored, corrections, chatFaults, switches>>

Send == page.route = "chat" /\ page.composer /\ SubmitMessage(FALSE)

\* renderMessageElement: the buttons of an answer or an error that is painted.
Painted(kind) ==
  IF page.route = "chat" /\ ~page.historyLoading
  THEN {m \in Range(page.messages) : m.kind = kind}
  ELSE {}

\* retryFailedMessage
Retry ==
  /\ page.failedGoal # None
  /\ Painted("error") # {}
  /\ SubmitMessage(TRUE)

\* The correction panel of the last answer.
OpenPanel ==
  /\ page.canCorrect /\ page.panel = None
  /\ \E m \in Painted("assistant") : m.turn = page.correctable
  /\ page' = [page EXCEPT !.panel = page.correctable]
  /\ Acts
  /\ UNCHANGED <<chatCalls, stored, corrections, sent, chatFaults, switches>>

ClosePanel ==
  /\ page.panel # None
  /\ page' = [page EXCEPT !.panel = None]
  /\ UNCHANGED <<chatCalls, stored, corrections, sent, chatFaults, switches, disturbed>>

\* submitCorrection: to the workspace that is active now.
Correct ==
  /\ page.panel # None
  /\ sent < MaxTurns
  /\ sent' = sent + 1
  /\ chatCalls' = chatCalls \cup {Call("correct", page.active, sent + 1, page.panel)}
  /\ Acts
  /\ UNCHANGED <<page, stored, corrections, chatFaults, switches>>

\* Mutant: the messages stay.
Cleared_KeepsMessages(p, w) == [p EXCEPT !.active = w, !.canCorrect = FALSE, !.failedGoal = None]

\* setActiveWorkspace with resetChat
Cleared(p, w) ==
  [p EXCEPT !.active = w, !.messages = <<>>, !.loadedFor = None, !.canCorrect = FALSE, !.failedGoal = None]

\* switchWorkspace, confirmed where there is a draft: the chat page is rendered
\* by the subscriber, by the switch, and its history reloaded: one request.
SwitchWorkspace ==
  /\ switches < MaxSwitches
  /\ switches' = switches + 1
  /\ \E w \in Workspaces \ {page.active} : Arrive(Cleared(page, w))
  /\ Acts
  /\ UNCHANGED <<stored, corrections, sent, chatFaults>>

\* setRoute, which renders the page
SetRoute ==
  /\ switches < MaxSwitches
  /\ switches' = switches + 1
  /\ \E r \in {"chat", "other"} \ {page.route} : Arrive([page EXCEPT !.route = r])
  /\ Acts
  /\ UNCHANGED <<stored, corrections, sent, chatFaults>>

-----------------------------------------------------------------------------
\* recordDeterministicExchange, persistSession
Kept(turns, turn) == Append(turns, turn)

Answered(c, result, turns) ==
  chatCalls' = (chatCalls \ {c}) \cup {[c EXCEPT !.result = result, !.turns = turns]}

\* POST /api/chat, POST /api/correct and GET /api/history
ServeChat(c) ==
  /\ c.result = "awaited"
  /\ \/ c.kind = "chat" /\ stored' = [stored EXCEPT ![c.of] = Kept(@, c.turn)] /\ UNCHANGED corrections
     \/ /\ c.kind = "correct"
        /\ corrections' = corrections \cup
             (IF stored[c.of] = <<>> THEN {} ELSE {[of |-> c.of, turn |-> LastOf(stored[c.of]), meant |-> c.meant]})
        /\ UNCHANGED stored
     \/ c.kind = "history" /\ UNCHANGED <<stored, corrections>>
  /\ \/ Answered(c, "ok", stored[c.of]) /\ UNCHANGED chatFaults
     \/ /\ chatFaults < MaxFaults  \* the answer is lost
        /\ chatFaults' = chatFaults + 1
        /\ Answered(c, "failed", <<>>)
  /\ UNCHANGED <<page, sent, switches, disturbed>>

\* The request fails before the server has done anything.
FailChat(c) ==
  /\ c.result = "awaited"
  /\ chatFaults < MaxFaults
  /\ chatFaults' = chatFaults + 1
  /\ Answered(c, "failed", <<>>)
  /\ UNCHANGED <<page, stored, corrections, sent, switches, disturbed>>

\* submitChatMessage after its await, with its finally: the answer goes to the
\* messages of whatever workspace is shown.
ChatAnswered(c) ==
  /\ c.kind = "chat"
  /\ page' = IF c.result = "ok"
             THEN [page EXCEPT !.messages = ReplaceLoading(@, Message("assistant", c.turn, c.of)),
                               !.chatLoading = FALSE, !.canCorrect = TRUE, !.correctable = c.turn,
                               !.loadedFor = c.of, !.composer = TRUE]
             ELSE [page EXCEPT !.messages = ReplaceLoading(@, Message("error", c.turn, c.of)),
                               !.chatLoading = FALSE, !.canCorrect = FALSE, !.failedGoal = c.turn,
                               !.composer = TRUE]

\* Mutant: a history that cannot be loaded leaves the page loading.
HistoryEnds_OnlyIfLoaded(p, c) ==
  IF c.result = "ok" THEN [p EXCEPT !.historyLoading = FALSE, !.loadedFor = c.of] ELSE p

\* The finally of preloadHistory.
HistoryEnds(p, c) == [p EXCEPT !.historyLoading = FALSE, !.loadedFor = c.of]

\* preloadHistory after its await, of the workspace it was asked for.
HistoryAnswered(c) ==
  /\ c.kind = "history"
  /\ page' = IF c.result = "ok"
             THEN HistoryEnds([page EXCEPT !.messages = Shown(c.turns, c.of), !.canCorrect = c.turns # <<>>,
                                           !.correctable = LastOf(c.turns), !.failedGoal = None], c)
             ELSE HistoryEnds(page, c)

\* submitCorrection after its await; the panel that sent it is hidden, which
\* is not the one of a page rendered since.
CorrectAnswered(c) ==
  /\ c.kind = "correct"
  /\ \E panel \in {page.panel, None} :
       page' = IF c.result = "ok"
               THEN [page EXCEPT !.messages = Append(@, Message("system", c.turn, c.of)),
                                 !.canCorrect = FALSE, !.panel = panel]
               ELSE [page EXCEPT !.messages = Append(@, Message("error", c.turn, c.of)), !.panel = panel]

HandleChat(c) ==
  /\ c.result # "awaited"
  /\ ChatAnswered(c) \/ HistoryAnswered(c) \/ CorrectAnswered(c)
  /\ chatCalls' = chatCalls \ {c}
  /\ UNCHANGED <<stored, corrections, sent, chatFaults, switches, disturbed>>

ChatNext ==
  \/ Send \/ Retry \/ OpenPanel \/ ClosePanel \/ Correct \/ SwitchWorkspace \/ SetRoute
  \/ \E c \in chatCalls : ServeChat(c) \/ FailChat(c) \/ HandleChat(c)

-----------------------------------------------------------------------------
\* The turns are numbered as they were sent: the answers are those of the
\* turns, each once and in order.
IsAnswer(m) == m.kind = "assistant"
Answers(messages) == {i \in DOMAIN messages : IsAnswer(messages[i])}
Ascending(turns) == \A i, j \in DOMAIN turns : i < j => turns[i] < turns[j]
Shows(messages, turns) ==
  /\ {messages[i].turn : i \in Answers(messages)} = Range(turns)
  /\ \A i, j \in Answers(messages) : i < j => messages[i].turn < messages[j].turn
  /\ Ascending(turns)

\* Whatever the user does and whichever answers are late, lost or fail, an
\* answer on the page is a turn of the conversation that the server keeps for
\* the workspace it was asked in, and the page waits only for what is on its
\* way: no control stays disabled and no page loading after its answer.
ShownIsStored ==
  /\ \A m \in Range(page.messages) : IsAnswer(m) => m.turn \in Range(stored[m.of])
  /\ page.chatLoading \/ ~page.composer => Results("chat") # {}
  /\ page.historyLoading => Results("history") # {}

\* As long as the user waits for each answer before going on, the page shows
\* the active workspace and nothing else, no message is left loading, a
\* correction is recorded of the turn it was meant for, and without a failure
\* the page shows exactly the turns of the conversation.
UndisturbedPage ==
  ~disturbed =>
    /\ \A m \in Range(page.messages) : m.of = page.active
    /\ \A x \in corrections : x.turn = x.meant
    /\ chatCalls = {} => \A m \in Range(page.messages) : m.kind # "loading"
    /\ chatCalls = {} /\ chatFaults = 0 /\ page.loadedFor = page.active =>
         Shows(page.messages, stored[page.active])

\* The page says that the workspace it shows is not mixed with others: each
\* message is of the active one.
OnlyOfActive == \A m \in Range(page.messages) : m.of = page.active
=============================================================================
