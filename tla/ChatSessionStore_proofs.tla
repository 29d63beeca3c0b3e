----------------------- MODULE ChatSessionStore_proofs -----------------------
(***************************************************************************)
(* Proofs about ChatSessionStore, for any number of requests, saved        *)
(* settings, failed writes and restarts: no exchange is kept twice, the    *)
(* last turn is the one the history ends with, and the conversation is     *)
(* kept while the settings leave it alone.                                 *)
(***************************************************************************)
EXTENDS ChatSessionStore, TLAPS

Types ==
  /\ file \in Conversation
  /\ configured \in BOOLEAN
  /\ session \in [Requests -> Session]
  /\ current \in Requests \cup {Nobody}
  /\ deterministic \in Exchanges
  /\ bootstrapped \in BOOLEAN
  /\ pc \in [Requests -> {"new", "asking", "done"}]
  /\ uses \in [Requests -> Requests \cup {Nobody}]
  /\ promised \in Exchanges /\ written \in Exchanges
  /\ calm \in BOOLEAN

(* A request that is asking the LLM works on a session.                    *)
AskingUses == \A r \in Requests : pc[r] = "asking" => uses[r] \in Requests

(* Exchanges of requests that are over, each once.                         *)
Old(s, p) == NoRepeats(s) /\ \A i \in 1 .. Len(s) : p[s[i]] = "done"

HistoriesAreOld ==
  /\ Old(file.shown, pc) /\ Old(file.history, pc) /\ Old(deterministic, pc)
  /\ \A r \in Requests : Old(session[r].history, pc)

(* The conversation is kept in the file and in one of three places: with   *)
(* an LLM in the session in use, without one in #deterministicHistory, and *)
(* before either is there in the file alone.                               *)
ConversationIsThere ==
  calm =>
    /\ file.shown = written
    /\ promised = <<>> => written = <<>>
    /\ current # Nobody => session[current].llm = configured
    /\ \A r \in Requests : pc[r] = "asking" => uses[r] = current /\ configured
    /\ ~bootstrapped => current = Nobody /\ promised = written /\ deterministic = <<>>
    /\ IF configured
       THEN /\ file.history = written
            /\ written = <<>> => deterministic = <<>>
            /\ IF current = Nobody THEN promised = written ELSE session[current].history = promised
       ELSE /\ file.history = <<>>
            /\ current # Nobody => session[current].history = <<>>
            /\ bootstrapped => deterministic = promised

StoreInv ==
  Types /\ AskingUses /\ HistoriesAreOld /\ LastTurnEndsHistory /\ ConversationIsThere

-----------------------------------------------------------------------------
LEMMA OldStays ==
  ASSUME NEW s \in Exchanges, NEW p, NEW q, Old(s, p),
         \A r \in Requests : p[r] = "done" => q[r] = "done"
  PROVE  Old(s, q)
<1>1. \A i \in 1 .. Len(s) : s[i] \in Requests
  BY DEF Exchanges
<1> QED BY <1>1 DEF Old

LEMMA OldAppended ==
  ASSUME NEW s \in Exchanges, NEW p, NEW q, Old(s, p), NEW r \in Requests, p[r] # "done", q[r] = "done",
         \A t \in Requests : p[t] = "done" => q[t] = "done"
  PROVE  Append(s, r) \in Exchanges /\ Old(Append(s, r), q) /\ LastOf(Append(s, r)) = r /\ Append(s, r) # <<>>
<1>1. PICK a : a = Append(s, r)
  OBVIOUS
<1>2. /\ a \in Exchanges /\ Len(a) = Len(s) + 1 /\ Len(s) \in Nat
      /\ \A i \in 1 .. Len(s) : a[i] = s[i] /\ s[i] \in Requests
      /\ a[Len(s) + 1] = r
  BY <1>1 DEF Exchanges
<1>3. \A i \in 1 .. Len(s) : a[i] # r /\ q[a[i]] = "done"
  BY <1>2 DEF Old
<1>4. NoRepeats(a)
  BY <1>2, <1>3 DEF Old, NoRepeats
<1>5. \A i \in 1 .. Len(a) : q[a[i]] = "done"
  BY <1>2, <1>3
<1>6. a # <<>> /\ LastOf(a) = r
  BY <1>2 DEF LastOf
<1> QED BY <1>1, <1>2, <1>4, <1>5, <1>6 DEF Old

LEMMA StoreInitially == Init => StoreInv
<1> SUFFICES ASSUME Init PROVE StoreInv
  OBVIOUS
<1>1. Types
  <2>1. <<>> \in Exchanges
    BY DEF Exchanges
  <2>2. Blank \in Session
    BY <2>1 DEF Blank, Session
  <2>3. [turns |-> 0, history |-> <<>>, last |-> Nobody, shown |-> <<>>] \in Conversation
    BY <2>1 DEF Conversation
  <2> QED BY <2>1, <2>2, <2>3 DEF Init, Types
<1>2. AskingUses
  BY DEF Init, AskingUses
<1>3. Old(<<>>, pc)
  BY DEF Old, NoRepeats
<1>4. HistoriesAreOld
  BY <1>3 DEF Init, HistoriesAreOld, Blank
<1>5. LastTurnEndsHistory
  BY DEF Init, LastTurnEndsHistory, LastOf, Blank
<1>6. ConversationIsThere
  BY DEF Init, ConversationIsThere
<1> QED BY <1>1, <1>2, <1>4, <1>5, <1>6 DEF StoreInv
-----------------------------------------------------------------------------
(* The session and the exchanges that a request is given.                  *)
LEMMA GivenFacts ==
  ASSUME StoreInv, NEW r \in Requests
  PROVE  /\ Given(r) \in Requests /\ Given(r) # Nobody /\ GivenState(r) \in Session
         /\ Bootstrapped \in Exchanges
         /\ Old(GivenState(r).history, pc) /\ Old(Bootstrapped, pc)
         /\ GivenState(r).last = LastOf(GivenState(r).history)
<1>1. r # Nobody /\ Given(r) \in Requests /\ Given(r) # Nobody
  BY NobodyAssumption DEF StoreInv, Types, Given
<1>2. Restored \in Session /\ Restored.history = file.history /\ Restored.last = file.last
  BY DEF StoreInv, Types, Restored, Session, Conversation
<1>3. CASE current = Nobody
  BY <1>1, <1>2, <1>3 DEF GivenState, Bootstrapped, StoreInv, Types, HistoriesAreOld, LastTurnEndsHistory, Conversation
<1>4. CASE current # Nobody
  BY <1>1, <1>4 DEF GivenState, Bootstrapped, StoreInv, Types, HistoriesAreOld, LastTurnEndsHistory, Conversation
<1> QED BY <1>3, <1>4

(* While the settings leave the conversation alone, they are the promised  *)
(* ones.                                                                   *)
LEMMA GivenConversation ==
  ASSUME StoreInv, calm, NEW r \in Requests
  PROVE  /\ GivenState(r).llm = configured
         /\ configured => GivenState(r).history = promised /\ (written = <<>> => Bootstrapped = <<>>)
         /\ ~configured => GivenState(r).history = <<>> /\ Bootstrapped = promised
<1>1. Restored.history = file.history /\ Restored.llm = configured
  BY DEF Restored
<1> QED BY <1>1 DEF GivenState, Bootstrapped, StoreInv, ConversationIsThere

(* A request is given its session and leaves the conversation as it was.   *)
LEMMA KeepSteps ==
  ASSUME StoreInv, NEW r \in Requests, pc[r] = "new", NEW s \in Session,
         s.llm = GivenState(r).llm, s.history = GivenState(r).history, s.last = GivenState(r).last,
         Keep(r, s, Bootstrapped), UNCHANGED <<file, configured, promised, written, calm>>,
         \/ Settled(r)
         \/ /\ GivenState(r).llm
            /\ pc' = [pc EXCEPT ![r] = "asking"] /\ uses' = [uses EXCEPT ![r] = Given(r)]
  PROVE  StoreInv'
<1>1. /\ session' = [session EXCEPT ![Given(r)] = s] /\ current' = Given(r)
      /\ deterministic' = Bootstrapped /\ bootstrapped' = TRUE
  BY DEF Keep
<1>2. Types'
  BY <1>1, GivenFacts DEF StoreInv, Types, Settled
<1>3. AskingUses'
  BY GivenFacts DEF StoreInv, Types, AskingUses, Settled
<1>4. \A q \in Requests : pc[q] = "done" => pc'[q] = "done"
  BY DEF StoreInv, Types, Settled
<1>5. HistoriesAreOld'
  <2>1. Old(file'.shown, pc') /\ Old(file'.history, pc') /\ Old(deterministic', pc')
    BY <1>1, <1>4, OldStays, GivenFacts DEF StoreInv, Types, HistoriesAreOld, Conversation
  <2>2. ASSUME NEW q \in Requests PROVE Old(session'[q].history, pc')
    <3>1. session'[q] = IF q = Given(r) THEN s ELSE session[q]
      BY <1>1 DEF StoreInv, Types
    <3>2. Old(session'[q].history, pc) /\ session'[q].history \in Exchanges
      BY <3>1, GivenFacts DEF StoreInv, Types, HistoriesAreOld, Session
    <3> QED BY <1>4, <3>2, OldStays
  <2> QED BY <2>1, <2>2 DEF HistoriesAreOld
<1>6. LastTurnEndsHistory'
  BY <1>1, GivenFacts DEF StoreInv, Types, LastTurnEndsHistory
<1>7. ConversationIsThere'
  <2> SUFFICES ASSUME calm' PROVE ConversationIsThere'
    BY DEF ConversationIsThere
  <2>1. calm /\ current' # Nobody /\ session'[current'] = s
    BY <1>1, GivenFacts DEF StoreInv, Types
  <2>2. \A q \in Requests : pc'[q] = "asking" => uses'[q] = current' /\ configured'
    <3>1. ASSUME NEW q \in Requests, pc'[q] = "asking", q # r PROVE uses'[q] = current'
      <4>1. pc[q] = "asking" /\ uses'[q] = uses[q]
        BY <3>1 DEF StoreInv, Types, Settled
      <4>2. uses[q] = current /\ current # Nobody
        BY <2>1, <4>1, NobodyAssumption DEF StoreInv, AskingUses, ConversationIsThere
      <4> QED BY <1>1, <4>1, <4>2 DEF Given
    <3>2. pc'[r] = "asking" => uses'[r] = current'
      BY <1>1 DEF StoreInv, Types, Settled
    <3>3. \A q \in Requests : pc'[q] = "asking" => configured
      <4>1. pc'[r] = "asking" => configured
        BY <2>1, GivenConversation DEF StoreInv, Types, Settled
      <4>2. \A q \in Requests \ {r} : pc'[q] = "asking" => pc[q] = "asking"
        BY DEF StoreInv, Types, Settled
      <4> QED BY <2>1, <4>1, <4>2 DEF StoreInv, ConversationIsThere
    <3> QED BY <3>1, <3>2, <3>3
  <2> QED BY <1>1, <2>1, <2>2, GivenConversation DEF StoreInv, ConversationIsThere
<1> QED BY <1>2, <1>3, <1>5, <1>6, <1>7 DEF StoreInv

(* A write of the file that succeeds: it shows what was promised.          *)
LEMMA WriteFacts ==
  ASSUME StoreInv, NEW s \in Session, NEW d \in Exchanges, NEW p, file' = Persisted(s, d),
         Old(s.history, p), Old(d, p), Old(file.shown, p), s.last = LastOf(s.history)
  PROVE  /\ file' \in Conversation
         /\ Old(file'.shown, p) /\ Old(file'.history, p)
         /\ file'.last = LastOf(file'.history) /\ file'.history = s.history
         /\ s.history # <<>> => file'.shown = s.history
         /\ s.history = <<>> => file'.shown = IF d # <<>> THEN d ELSE file.shown
<1>1. PICK v : v = Visible(s.history, d)
  OBVIOUS
<1>2. v \in Exchanges /\ Old(v, p)
  BY <1>1 DEF Visible, StoreInv, Types, Conversation, Session
<1>3. /\ file' \in Conversation /\ file'.shown = v /\ file'.history = s.history
      /\ file'.last = s.last
  BY <1>1, <1>2 DEF Persisted, Conversation, Session
<1> QED BY <1>1, <1>2, <1>3 DEF Visible

(* The answer of the LLM, recorded in the session that the request used.   *)
LEMMA AnsweredSteps ==
  ASSUME StoreInv, NEW r \in Requests, Answered(r)
  PROVE  StoreInv'
<1>1. PICK u, s : u = uses[r] /\ s = Recorded(session[uses[r]], r)
  OBVIOUS
<1>2. /\ pc[r] = "asking" /\ session' = [session EXCEPT ![u] = s] /\ Settled(r)
      /\ promised' = Append(promised, r) /\ Write(s, deterministic)
      /\ UNCHANGED <<configured, current, deterministic, bootstrapped, calm, resets>>
  BY <1>1 DEF Answered
<1>3. u \in Requests /\ session[u] \in Session /\ session[u].history \in Exchanges
  BY <1>1, <1>2 DEF StoreInv, Types, AskingUses, Session
<1>4. \A q \in Requests : pc[q] = "done" => pc'[q] = "done"
  BY <1>2 DEF StoreInv, Types, Settled
<1>5. pc'[r] = "done" /\ pc[r] # "done"
  BY <1>2 DEF StoreInv, Types, Settled
<1>6. PICK h : h = Append(session[u].history, r)
  OBVIOUS
<1>7. h \in Exchanges /\ Old(h, pc') /\ LastOf(h) = r /\ h # <<>>
  BY <1>3, <1>4, <1>5, <1>6, OldAppended DEF StoreInv, HistoriesAreOld
<1>8. s \in Session /\ s.history = h /\ s.last = r /\ s.llm = session[u].llm
  BY <1>1, <1>3, <1>6, <1>7 DEF Recorded, Session
<1>9. /\ promised' \in Exchanges /\ promised' # <<>>
  BY <1>2 DEF StoreInv, Types, Exchanges
<1>10. /\ Old(file.shown, pc') /\ Old(file.history, pc') /\ Old(deterministic, pc')
       /\ deterministic \in Exchanges
  BY <1>4, OldStays DEF StoreInv, Types, HistoriesAreOld, Conversation
<1>11. /\ file' \in Conversation /\ Old(file'.shown, pc') /\ Old(file'.history, pc')
       /\ file'.last = LastOf(file'.history)
       /\ \/ file' = file /\ written' = written
          \/ file'.shown = h /\ file'.history = h /\ written' = promised'
  <2>1. CASE file' = Persisted(s, deterministic) /\ written' = promised'
    BY <1>7, <1>8, <1>10, <2>1, WriteFacts
  <2>2. CASE file' = file /\ written' = written
    BY <1>10, <2>2 DEF StoreInv, Types, LastTurnEndsHistory
  <2> QED BY <1>2, <2>1, <2>2 DEF Write
<1>12. \A q \in Requests : session'[q] = IF q = u THEN s ELSE session[q]
  BY <1>2 DEF StoreInv, Types
<1>13. Types'
  BY <1>2, <1>8, <1>9, <1>11 DEF StoreInv, Types, Settled
<1>14. AskingUses'
  BY <1>2 DEF StoreInv, Types, AskingUses, Settled
<1>15. HistoriesAreOld'
  <2>1. ASSUME NEW q \in Requests PROVE Old(session'[q].history, pc')
    <3>1. Old(session[q].history, pc) /\ session[q].history \in Exchanges
      BY DEF StoreInv, Types, HistoriesAreOld, Session
    <3>2. Old(session[q].history, pc')
      BY <1>4, <3>1, OldStays
    <3> QED BY <1>7, <1>8, <1>12, <3>2
  <2> QED BY <1>2, <1>10, <1>11, <2>1 DEF HistoriesAreOld
<1>16. LastTurnEndsHistory'
  BY <1>7, <1>8, <1>11, <1>12 DEF StoreInv, LastTurnEndsHistory
<1>17. ConversationIsThere'
  <2> SUFFICES ASSUME calm PROVE ConversationIsThere'
    BY <1>2 DEF ConversationIsThere
  <2>1. u = current /\ configured /\ current # Nobody
    BY <1>1, <1>2, <1>3, NobodyAssumption DEF StoreInv, ConversationIsThere
  <2>2. h = promised' /\ session'[current] = s
    BY <1>2, <1>3, <1>6, <1>12, <2>1 DEF StoreInv, ConversationIsThere
  <2>3. \A q \in Requests : pc'[q] = "asking" => uses'[q] = current /\ configured
    BY <1>2, <2>1 DEF StoreInv, Types, ConversationIsThere, Settled
  <2>4. file'.shown = written' /\ file'.history = written' /\ (written' = <<>> => deterministic = <<>>)
    BY <1>9, <1>11, <2>1, <2>2 DEF StoreInv, ConversationIsThere
  <2>5. bootstrapped /\ session[u].llm = configured
    BY <2>1 DEF StoreInv, Types, ConversationIsThere
  <2> QED BY <1>2, <1>8, <1>9, <2>1, <2>2, <2>3, <2>4, <2>5 DEF ConversationIsThere
<1> QED BY <1>13, <1>14, <1>15, <1>16, <1>17 DEF StoreInv

(* A request without the LLM: it is given its session, and the file is     *)
(* written, or the write fails.                                            *)
LEMMA WrittenSteps ==
  ASSUME StoreInv, NEW r \in Requests, pc[r] = "new", NEW s \in Session, NEW d \in Exchanges,
         s.llm = GivenState(r).llm, s.history = GivenState(r).history, s.last = GivenState(r).last,
         Keep(r, s, d), Settled(r), Write(s, d), UNCHANGED <<configured, calm>>,
         Old(d, pc'), promised' \in Exchanges, promised' = <<>> => promised = <<>>,
         calm => IF configured THEN d = Bootstrapped /\ promised' = promised ELSE d = promised'
  PROVE  StoreInv'
<1>1. /\ session' = [session EXCEPT ![Given(r)] = s] /\ current' = Given(r)
      /\ deterministic' = d /\ bootstrapped' = TRUE
  BY DEF Keep
<1>2. \A q \in Requests : pc[q] = "done" => pc'[q] = "done"
  BY DEF StoreInv, Types, Settled
<1>3. \A q \in Requests : session'[q] = IF q = Given(r) THEN s ELSE session[q]
  BY <1>1 DEF StoreInv, Types
<1>4. /\ Old(file.shown, pc') /\ Old(file.history, pc') /\ Old(s.history, pc') /\ s.history \in Exchanges
  BY <1>2, OldStays, GivenFacts DEF StoreInv, Types, HistoriesAreOld, Conversation, Session
<1>5. s.last = LastOf(s.history)
  BY GivenFacts
<1>6. /\ file' \in Conversation /\ Old(file'.shown, pc') /\ Old(file'.history, pc')
      /\ file'.last = LastOf(file'.history)
      /\ \/ file' = file /\ written' = written
         \/ /\ written' = promised' /\ file'.history = s.history
            /\ s.history # <<>> => file'.shown = s.history
            /\ s.history = <<>> => file'.shown = IF d # <<>> THEN d ELSE file.shown
  <2>1. CASE file' = Persisted(s, d) /\ written' = promised'
    BY <1>4, <1>5, <2>1, WriteFacts
  <2>2. CASE file' = file /\ written' = written
    BY <1>4, <2>2 DEF StoreInv, Types, LastTurnEndsHistory
  <2> QED BY <2>1, <2>2 DEF Write
<1>7. Types'
  BY <1>1, <1>6, GivenFacts DEF StoreInv, Types, Settled
<1>8. AskingUses'
  BY DEF StoreInv, Types, AskingUses, Settled
<1>9. HistoriesAreOld'
  <2>1. ASSUME NEW q \in Requests PROVE Old(session'[q].history, pc')
    <3>1. Old(session[q].history, pc) /\ session[q].history \in Exchanges
      BY DEF StoreInv, Types, HistoriesAreOld, Session
    <3>2. Old(session[q].history, pc')
      BY <1>2, <3>1, OldStays
    <3> QED BY <1>3, <1>4, <3>2
  <2> QED BY <1>1, <1>6, <2>1 DEF HistoriesAreOld
<1>10. LastTurnEndsHistory'
  BY <1>3, <1>5, <1>6 DEF StoreInv, LastTurnEndsHistory
<1>11. ConversationIsThere'
  <2> SUFFICES ASSUME calm PROVE ConversationIsThere'
    BY DEF ConversationIsThere
  <2>1. /\ s.llm = configured
        /\ configured => s.history = promised /\ (written = <<>> => d = <<>>) /\ promised' = promised
        /\ ~configured => s.history = <<>> /\ d = promised'
    BY GivenConversation
  <2>2. /\ file.shown = written /\ (promised = <<>> => written = <<>>)
        /\ configured => file.history = written
        /\ ~configured => file.history = <<>>
    BY DEF StoreInv, ConversationIsThere
  <2>3. current' # Nobody /\ session'[current'] = s
    BY <1>1, <1>3, GivenFacts
  <2>4. \A q \in Requests : pc'[q] = "asking" => uses'[q] = current' /\ configured
    <3>1. ASSUME NEW q \in Requests, pc'[q] = "asking" PROVE uses'[q] = current' /\ configured
      <4>1. pc[q] = "asking" /\ uses'[q] = uses[q]
        BY <3>1 DEF StoreInv, Types, Settled
      <4>2. uses[q] = current /\ current # Nobody /\ configured
        BY <4>1, NobodyAssumption DEF StoreInv, AskingUses, ConversationIsThere
      <4> QED BY <1>1, <4>1, <4>2 DEF Given
    <3> QED BY <3>1
  <2>5. /\ file'.shown = written' /\ (promised' = <<>> => written' = <<>>)
        /\ configured => file'.history = written' /\ (written' = <<>> => d = <<>>)
        /\ ~configured => file'.history = <<>>
    BY <1>6, <2>1, <2>2
  <2> QED BY <1>1, <2>1, <2>3, <2>4, <2>5 DEF ConversationIsThere
<1> QED BY <1>7, <1>8, <1>9, <1>10, <1>11 DEF StoreInv

LEMMA ConverseSteps ==
  ASSUME StoreInv, NEW r \in Requests, Converse(r)
  PROVE  StoreInv'
<1>1. PICK s, d : s = Counted(GivenState(r)) /\ d = Append(Bootstrapped, r)
  OBVIOUS
<1>2. /\ pc[r] = "new" /\ ~GivenState(r).llm /\ Keep(r, s, d) /\ Settled(r) /\ Write(s, d)
      /\ promised' = Append(promised, r) /\ UNCHANGED <<configured, calm, resets>>
  BY <1>1 DEF Converse
<1>3. /\ s \in Session /\ s.llm = GivenState(r).llm /\ s.history = GivenState(r).history
      /\ s.last = GivenState(r).last
  BY <1>1, GivenFacts DEF Counted, Session
<1>4. /\ \A q \in Requests : pc[q] = "done" => pc'[q] = "done"
      /\ pc[r] # "done" /\ pc'[r] = "done"
  BY <1>2 DEF StoreInv, Types, Settled
<1>5. d \in Exchanges /\ Old(d, pc')
  BY <1>1, <1>4, OldAppended, GivenFacts
<1>6. promised' \in Exchanges /\ promised' # <<>>
  BY <1>2 DEF StoreInv, Types, Exchanges
<1>7. calm => ~configured /\ d = promised'
  BY <1>1, <1>2, GivenConversation
<1> QED BY <1>2, <1>3, <1>5, <1>6, <1>7, WrittenSteps

LEMMA CorrectSteps ==
  ASSUME StoreInv, NEW r \in Requests, Correct(r)
  PROVE  StoreInv'
<1>1. PICK s, d : s = GivenState(r) /\ d = Bootstrapped
  OBVIOUS
<1>2. /\ pc[r] = "new" /\ Keep(r, s, d) /\ Settled(r) /\ Write(s, d)
      /\ UNCHANGED <<configured, promised, calm, resets>>
  BY <1>1 DEF Correct
<1>3. \A q \in Requests : pc[q] = "done" => pc'[q] = "done"
  BY <1>2 DEF StoreInv, Types, Settled
<1>4. d \in Exchanges /\ Old(d, pc') /\ s \in Session
  BY <1>1, <1>3, OldStays, GivenFacts
<1>5. promised' \in Exchanges
  BY <1>2 DEF StoreInv, Types
<1>6. calm => IF configured THEN d = Bootstrapped /\ promised' = promised ELSE d = promised'
  BY <1>1, <1>2, GivenConversation
<1> QED BY <1>1, <1>2, <1>4, <1>5, <1>6, WrittenSteps

LEMMA VisitSteps ==
  ASSUME StoreInv, NEW r \in Requests, Visit(r) \/ Ask(r) \/ ConverseFails(r)
  PROVE  StoreInv'
<1>1. PICK s : s = Counted(GivenState(r))
  OBVIOUS
<1>2. /\ s \in Session /\ s.llm = GivenState(r).llm /\ s.history = GivenState(r).history
      /\ s.last = GivenState(r).last
  BY <1>1, GivenFacts DEF Counted, Session
<1>3. CASE Visit(r)
  BY <1>3, GivenFacts, KeepSteps DEF Visit
<1>4. CASE Ask(r)
  BY <1>1, <1>2, <1>4, KeepSteps DEF Ask
<1>5. CASE ConverseFails(r)
  BY <1>1, <1>2, <1>5, KeepSteps DEF ConverseFails
<1> QED BY <1>3, <1>4, <1>5

LEMMA AskFailsSteps ==
  ASSUME StoreInv, NEW r \in Requests, AskFails(r)
  PROVE  StoreInv'
<1>1. Settled(r) /\ UNCHANGED <<file, configured, memory, promised, written, calm, bounds>>
  BY DEF AskFails
<1>2. \A q \in Requests : pc[q] = "done" => pc'[q] = "done"
  BY <1>1 DEF StoreInv, Types, Settled
<1>3. Types' /\ AskingUses'
  BY <1>1 DEF StoreInv, Types, AskingUses, Settled, memory
<1>4. HistoriesAreOld'
  BY <1>1, <1>2, OldStays DEF StoreInv, Types, HistoriesAreOld, memory, Conversation, Session
<1>5. LastTurnEndsHistory'
  BY <1>1 DEF StoreInv, LastTurnEndsHistory, memory
<1>6. ConversationIsThere'
  <2>1. \A q \in Requests : pc'[q] = "asking" => pc[q] = "asking" /\ uses'[q] = uses[q]
    BY <1>1 DEF StoreInv, Types, Settled
  <2> QED BY <1>1, <2>1 DEF StoreInv, ConversationIsThere, memory
<1> QED BY <1>3, <1>4, <1>5, <1>6 DEF StoreInv

LEMMA ResetSteps ==
  ASSUME StoreInv, ResetLlmClients
  PROVE  StoreInv'
<1>1. /\ current' = Nobody /\ configured' \in BOOLEAN
      /\ calm' = (calm /\ Asking = {} /\ (configured' = configured \/ promised = <<>>))
      /\ promised' = IF configured THEN written ELSE promised
      /\ UNCHANGED <<file, session, deterministic, bootstrapped, pc, uses, written>>
  BY DEF ResetLlmClients
<1>2. Types' /\ AskingUses'
  BY <1>1 DEF StoreInv, Types, AskingUses
<1>3. HistoriesAreOld' /\ LastTurnEndsHistory'
  BY <1>1 DEF StoreInv, HistoriesAreOld, LastTurnEndsHistory
<1>4. ConversationIsThere'
  <2> SUFFICES ASSUME calm' PROVE ConversationIsThere'
    BY DEF ConversationIsThere
  <2>1. calm /\ \A q \in Requests : pc'[q] # "asking"
    BY <1>1 DEF Asking
  <2>2. promised' = <<>> => written' = <<>>
    BY <1>1, <2>1 DEF StoreInv, ConversationIsThere
  <2>3. CASE configured' = configured
    BY <1>1, <2>1, <2>2, <2>3 DEF StoreInv, ConversationIsThere
  <2>4. CASE configured' # configured /\ promised = <<>>
    <3>1. written = <<>> /\ promised' = <<>> /\ deterministic = <<>> /\ file.history = <<>>
      BY <1>1, <2>1, <2>4 DEF StoreInv, ConversationIsThere
    <3> QED BY <1>1, <2>1, <3>1 DEF StoreInv, ConversationIsThere
  <2> QED BY <1>1, <2>3, <2>4
<1> QED BY <1>2, <1>3, <1>4 DEF StoreInv

LEMMA RestartSteps ==
  ASSUME StoreInv, Restart
  PROVE  StoreInv'
<1>1. /\ session' = [r \in Requests |-> Blank] /\ current' = Nobody
      /\ deterministic' = <<>> /\ bootstrapped' = FALSE
      /\ pc' = [r \in Requests |-> IF pc[r] = "asking" THEN "done" ELSE pc[r]]
      /\ uses' = [r \in Requests |-> Nobody]
      /\ promised' = written /\ UNCHANGED <<file, configured, written, calm>>
  BY DEF Restart
<1>2. /\ <<>> \in Exchanges /\ Blank \in Session /\ Blank.history = <<>> /\ Blank.last = Nobody
      /\ Old(<<>>, pc')
  BY DEF Exchanges, Blank, Session, Old, NoRepeats
<1>3. \A r \in Requests : pc'[r] \in {"new", "done"} /\ (pc[r] = "done" => pc'[r] = "done")
  BY <1>1 DEF StoreInv, Types
<1>4. Types' /\ AskingUses'
  BY <1>1, <1>2, <1>3 DEF StoreInv, Types, AskingUses
<1>5. HistoriesAreOld'
  BY <1>1, <1>2, <1>3, OldStays DEF StoreInv, Types, HistoriesAreOld, Conversation
<1>6. LastTurnEndsHistory'
  BY <1>1, <1>2 DEF StoreInv, LastTurnEndsHistory, LastOf
<1>7. ConversationIsThere'
  BY <1>1, <1>3 DEF StoreInv, ConversationIsThere
<1> QED BY <1>4, <1>5, <1>6, <1>7 DEF StoreInv

LEMMA StoreStutters == ASSUME StoreInv, UNCHANGED vars PROVE StoreInv'
  BY DEF vars, memory, StoreInv, Types, AskingUses, HistoriesAreOld, LastTurnEndsHistory,
         ConversationIsThere
-----------------------------------------------------------------------------
THEOREM StoreInvariant == Spec => []StoreInv
<1>1. StoreInv /\ [Next]_vars => StoreInv'
  BY VisitSteps, AnsweredSteps, AskFailsSteps, ConverseSteps, CorrectSteps, ResetSteps,
     RestartSteps, StoreStutters DEF Next
<1> QED BY <1>1, StoreInitially, PTL DEF Spec

(* The conversation survives overlapping turns, failed turns and writes,   *)
(* restarts and saved settings: SessionStore of apps/web.                  *)
THEOREM ConversationSurvives == Spec => []ConversationKept
<1>1. StoreInv => ConversationKept
  BY DEF StoreInv, ConversationIsThere, ConversationKept
<1> QED BY <1>1, StoreInvariant, PTL

(* No exchange is recorded twice: recordTurnMessages,                      *)
(* recordDeterministicExchange and what they find restored.                *)
THEOREM NothingTwice == Spec => []NoExchangeTwice
<1>1. StoreInv => NoExchangeTwice
  BY DEF StoreInv, HistoriesAreOld, Old, NoExchangeTwice
<1> QED BY <1>1, StoreInvariant, PTL

(* A correction finds, in lastTurn, the exchange the history ends with.    *)
THEOREM LastTurnIsLast == Spec => []LastTurnEndsHistory
<1>1. StoreInv => LastTurnEndsHistory
  BY DEF StoreInv
<1> QED BY <1>1, StoreInvariant, PTL
=============================================================================
