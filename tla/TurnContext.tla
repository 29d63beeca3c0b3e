----------------------------- MODULE TurnContext -----------------------------
(***************************************************************************)
(* The context package of a turn of the chat: AtlasContextBuilder searches *)
(* the memory for the goal and for each of its longer words, one query     *)
(* after the other, and tells the LLM that what it found is the current    *)
(* ground truth.  Other turns and pages change the memory meanwhile.       *)
(*                                                                         *)
(* Abstracted: a text is the set of the words that normalizeForSearch      *)
(* finds in it, so that what is cut from a long snippet makes no           *)
(* difference.  No two records have the same time.                         *)
(***************************************************************************)
EXTENDS Lists

CONSTANTS
  RecordIds,    \* ids of records
  Words,        \* of goals and records
  LongWords,    \* the ones that are long enough and no stop words
  GoalLength,   \* bound on the words of a goal
  Clients,      \* the clients of the organizational memory
  ContextLimit, \* KNOWLEDGE_CONTEXT_RECORD_LIMIT
  MaxChanges    \* bound on changes of the memory, before and during the building

ASSUME ContextBounds ==
  LongWords \subseteq Words /\ {GoalLength, ContextLimit, MaxChanges} \subseteq Nat \ {0}

VARIABLES
  memory,   \* of each record the words and the time; time 0 when it is not there
  changes,  \* the clock of the memory
  goal,     \* its words
  building, \* the variables of AtlasContextBuilder.build and of the search
  touched,  \* history: the records changed while the context was built
  lost,     \* history: a search failed
  gone      \* history: a record that was found went before it was read

contextVars == <<memory, changes, goal, building, touched, lost, gone>>

NoRecord == [words |-> {}, at |-> 0]
Present == {r \in RecordIds : memory[r].at > 0}

NoBuild == [pc |-> "new", queries |-> <<>>, items |-> <<>>, found |-> <<>>, named |-> {}, sources |-> {}]

ContextInit ==
  /\ memory = [r \in RecordIds |-> NoRecord]
  /\ changes = 0
  /\ goal \in UNION {[1 .. n -> Words] : n \in 1 .. GoalLength}
  /\ building = NoBuild
  /\ touched = {} /\ lost = FALSE /\ gone = FALSE

-----------------------------------------------------------------------------
\* store, update and delete of the memory engine, by whoever uses it
Change(r) ==
  /\ changes < MaxChanges
  /\ changes' = changes + 1
  /\ \E ws \in SUBSET Words :
       memory' = [memory EXCEPT ![r] = [words |-> ws, at |-> changes + 1]]
  /\ touched' = IF building.pc = "new" THEN touched ELSE touched \cup {r}
  /\ UNCHANGED <<goal, building, lost, gone>>

Delete_Record(r) ==
  /\ changes < MaxChanges /\ r \in Present
  /\ changes' = changes + 1
  /\ memory' = [memory EXCEPT ![r] = NoRecord]
  /\ touched' = IF building.pc = "new" THEN touched ELSE touched \cup {r}
  /\ UNCHANGED <<goal, building, lost, gone>>

\* scoreRecord: a word that the query repeats counts again.
Score(r, query) == Cardinality({i \in DOMAIN query : query[i] \in memory[r].words})

\* Mutant: the newest first, whatever their scores.
Outranks_Newest(query, r, s) == memory[r].at > memory[s].at

\* rankCandidates
Outranks(query, r, s) ==
  \/ Score(r, query) > Score(s, query)
  \/ Score(r, query) = Score(s, query) /\ memory[r].at > memory[s].at
Ranked(query) == Arranged(Present, {p \in Present \X Present : Outranks(query, p[1], p[2])})

Limited(s) == IF Len(s) > ContextLimit THEN SubSeq(s, 1, ContextLimit) ELSE s
Relevant(query, s) == Picked(s, {i \in DOMAIN s : Score(s[i], query) > 0})

\* runRetrievalPipeline: without a match it selects what there is.
Selected_Items(query) ==
  Limited(IF Relevant(query, Ranked(query)) = <<>> THEN Ranked(query)
          ELSE Relevant(query, Ranked(query)))

\* searchContentViaRetrieval: of these, the ones that match.
Matched(query) == Relevant(query, Selected_Items(query))

\* buildKnowledgePrefetchQueries: a Set, in the order in which it was filled.
Tokens(ws) ==
  Picked(ws, {i \in DOMAIN ws : ws[i] \in LongWords /\ \A j \in 1 .. i - 1 : ws[j] # ws[i]})
PrefetchQueries(ws) ==
  IF Tokens(ws) = ws /\ Len(ws) = 1 THEN <<ws>>
  ELSE <<ws>> \o [i \in DOMAIN Tokens(ws) |-> <<Tokens(ws)[i]>>]

Start_Build ==
  /\ building.pc = "new"
  /\ building' = [NoBuild EXCEPT !.pc = "searching", !.queries = PrefetchQueries(goal)]
  /\ UNCHANGED <<memory, changes, goal, touched, lost, gone>>

\* memoryEngine.search, or its failure, which counts as no match.
SearchNext ==
  /\ building.pc = "searching" /\ building.queries # <<>>
  /\ \/ /\ building' = [building EXCEPT !.pc = "resolving", !.queries = Tail(@),
                          !.items = Matched(Head(building.queries))]
        /\ UNCHANGED lost
     \/ /\ building' = [building EXCEPT !.queries = Tail(@)]
        /\ lost' = TRUE
  /\ UNCHANGED <<memory, changes, goal, touched, gone>>

\* recordsById.set: a record that is there keeps its place.
Put(found, entry) ==
  IF \E i \in DOMAIN found : found[i].id = entry.id
  THEN [i \in DOMAIN found |-> IF found[i].id = entry.id THEN entry ELSE found[i]]
  ELSE Append(found, entry)

\* resolveRecordsFromItems: the record as it is now, if it is still there.
ResolveNext ==
  /\ building.pc = "resolving"
  /\ IF building.items = <<>> THEN building' = [building EXCEPT !.pc = "searching"] /\ UNCHANGED gone
     ELSE LET r == Head(building.items)
          IN  /\ building' = [building EXCEPT !.items = Tail(@),
                   !.found = IF r \in Present THEN Put(@, [id |-> r, words |-> memory[r].words]) ELSE @]
              /\ gone' = (gone \/ r \notin Present)
  /\ UNCHANGED <<memory, changes, goal, touched, lost>>

\* prefetchOrganizationalContext: the clients that can be evaluated; without
\* one, the clients that the goal names.
OrganizationalSources(named, evaluated) == IF evaluated # {} THEN evaluated ELSE named

\* Clients are named by an organizational goal, which may give a percentage.
Finish_Build ==
  /\ building.pc = "searching" /\ building.queries = <<>>
  /\ \E named \in SUBSET Clients : \E evaluated \in SUBSET named :
       building' = [building EXCEPT !.pc = "built", !.named = named,
                      !.sources = OrganizationalSources(named, evaluated)]
  /\ UNCHANGED <<memory, changes, goal, touched, lost, gone>>

ContextNext ==
  \/ \E r \in RecordIds : Change(r) \/ Delete_Record(r)
  \/ Start_Build \/ SearchNext \/ ResolveNext \/ Finish_Build

-----------------------------------------------------------------------------
\* buildKnowledgeContextBlock
Block == Limited(building.found)
Listed_Ids == {Block[i].id : i \in DOMAIN Block}

\* The ground truth that the LLM is told: no record is listed twice; a record
\* that matches the goal and did not change while the context was built is
\* left out only from a full block, or after a search failed or a record that
\* was found went before it was read; in a memory that did not change the
\* block is the best records in their order; and a goal that names a client
\* gets organizational context.
ContextIsGroundTruth ==
  building.pc = "built" =>
    /\ \A i, j \in DOMAIN Block : Block[i].id = Block[j].id => i = j
    /\ \A r \in Present \ (touched \cup Listed_Ids) :
         \/ Score(r, goal) = 0
         \/ Len(Block) = ContextLimit \/ lost \/ gone
    /\ touched = {} /\ ~lost =>
         /\ \A i \in DOMAIN Block : Score(Block[i].id, goal) > 0
         /\ \A i \in DOMAIN Block : \A r \in Present \ {Block[j].id : j \in 1 .. i} :
              Score(r, goal) < Score(Block[i].id, goal)
              \/ /\ Score(r, goal) = Score(Block[i].id, goal)
                 /\ memory[r].at < memory[Block[i].id].at
    /\ building.named # {} => building.sources # {}
=============================================================================
