----------------------------- MODULE WebActivity -----------------------------
(***************************************************************************)
(* The activity of a workspace: the log that the session store keeps and   *)
(* writes to activity.json, the operational results of governance that a   *)
(* reading merges into it, and the two pages that show it, the activity    *)
(* page and the home page.                                                 *)
(*                                                                         *)
(* Abstracted: what an event says.  An event is a number, which is its     *)
(* time as well, and a kind.  The conversations on the home page are       *)
(* loaded and shown along with its events, and left out.                   *)
(***************************************************************************)
EXTENDS WebWorkspaces, Lists

CONSTANTS
  Kinds,       \* of events
  MaxKept,     \* MAX_ACTIVITY_EVENTS
  MaxShown,    \* the limit of a reading
  MaxClock,    \* bound on events
  MaxTrouble   \* bound on failures, restarts and what the user does, together

ASSUME ActivityBounds ==
  MaxKept \in Nat \ {0} /\ MaxShown \in 1 .. MaxKept /\ MaxClock \in Nat /\ MaxTrouble \in Nat

VARIABLES
  events,     \* history: all events; those of governance are records of the memory
  log,        \* #activityLog
  opened,     \* #bootstrappedWorkspaces
  saved,      \* activity.json of each workspace
  forgotten,  \* history: the events that a restart lost
  clock,
  at,         \* the route and the active workspace
  activity,   \* pageState of the activity page
  home,       \* homeState
  asks,       \* the readings whose answer has not been handled
  trouble,
  crossed,    \* history: the activity page asked while it was loading
  misplaced   \* history: homeState was of another workspace when it took its last answer

activityServer == <<events, log, opened, saved, forgotten, clock>>
activityVars == <<activityServer, at, activity, home, asks, trouble, crossed, misplaced>>

Elements(s) == {s[i] : i \in DOMAIN s}
First(s, n) == IF Len(s) > n THEN SubSeq(s, 1, n) ELSE s
ByTime(S) == Arranged(S, {p \in S \X S : p[1].id > p[2].id})
GovernanceResults(w) == {e \in events : e.of = w /\ e.result}

Reading(page, w, filter) ==
  [page |-> page, of |-> w, filter |-> filter, answer |-> "awaited", derived |-> {}, by |-> 0, items |-> <<>>]

ActivityInit ==
  /\ events = {} /\ forgotten = {} /\ clock = 0
  /\ log = [w \in Workspaces |-> <<>>]
  /\ saved = [w \in Workspaces |-> <<>>]
  /\ opened = {}
  /\ \E w \in Workspaces :
       /\ at = [route |-> "other", active |-> w]
       /\ activity = [of |-> w, filter |-> "all", loading |-> TRUE, items |-> {}]
       /\ home = [of |-> w, loading |-> TRUE, items |-> {}, error |-> FALSE]
  /\ asks = {} /\ trouble = 0 /\ crossed = FALSE /\ misplaced = FALSE

-----------------------------------------------------------------------------
\* #bootstrapWorkspace
Log(w) == IF w \in opened THEN log[w] ELSE saved[w]
Opened(w) == opened' = opened \cup {w}

\* #appendActivity: the new event first, the oldest left out.
Appended(kept, e) == First(<<e>> \o kept, MaxKept)

Happens(w, kind, result, e) ==
  /\ clock < MaxClock
  /\ clock' = clock + 1
  /\ e = [id |-> clock + 1, of |-> w, kind |-> kind, result |-> result]
  /\ events' = events \cup {e}

Trouble == trouble < MaxTrouble /\ trouble' = trouble + 1

\* recordConversationActivity and the others; a write that fails is not told.
Record(w) ==
  \E kind \in Kinds :
    LET e == [id |-> clock + 1, of |-> w, kind |-> kind, result |-> FALSE]
        kept == Appended(Log(w), e)
    IN  /\ Happens(w, kind, FALSE, e)
        /\ log' = [log EXCEPT ![w] = kept]
        /\ Opened(w)
        /\ \/ saved' = [saved EXCEPT ![w] = kept] /\ UNCHANGED trouble
           \/ Trouble /\ UNCHANGED saved
        /\ UNCHANGED <<forgotten, at, activity, home, asks, crossed, misplaced>>

\* An operational result of governance, in the memory of the workspace.
StoreResult(w) ==
  /\ \E kind \in Kinds :
       Happens(w, kind, TRUE, [id |-> clock + 1, of |-> w, kind |-> kind, result |-> TRUE])
  /\ Opened(w)
  /\ log' = [log EXCEPT ![w] = Log(w)]
  /\ UNCHANGED <<saved, forgotten, at, activity, home, asks, trouble, crossed, misplaced>>

Failed(S) == {[c EXCEPT !.answer = "failed"] : c \in S}
Unanswered == {c \in asks : c.answer \notin {"ok", "failed"}}
Unwritten(w) == {e \in Elements(Log(w)) : ~e.result} \ Elements(saved[w])

\* The server starts again; when it stopped in the middle of writing the file
\* of workspace torn, the file is not readable and counts as empty.
Restart_Activity ==
  /\ Trouble
  /\ \E torn \in Workspaces \cup {None} :
       /\ forgotten' = forgotten \cup (UNION {Unwritten(w) : w \in Workspaces})
            \cup (IF torn = None THEN {} ELSE {e \in events : e.of = torn /\ ~e.result})
       /\ saved' = [w \in Workspaces |-> IF w = torn THEN <<>> ELSE saved[w]]
  /\ opened' = {}
  /\ log' = [w \in Workspaces |-> <<>>]
  /\ asks' = (asks \ Unanswered) \cup Failed(Unanswered)
  /\ UNCHANGED <<events, clock, at, activity, home, crossed, misplaced>>

\* deriveGovernanceActivityEvents: the results, read before the log is.
Derive(c) ==
  /\ c.answer = "awaited"
  /\ asks' = (asks \ {c}) \cup {[c EXCEPT !.answer = "derived", !.derived = GovernanceResults(c.of)]}
  /\ Opened(c.of)
  /\ log' = [log EXCEPT ![c.of] = Log(c.of)]
  /\ UNCHANGED <<events, saved, forgotten, clock, at, activity, home, trouble, crossed, misplaced>>

\* Mutant: the results go before the log, whatever their time.
Merged_InFront(derived, kept) == ByTime(derived \ Elements(kept)) \o kept

\* #mergeGovernanceActivity: the log is sorted again, and not cut.
Merged(derived, kept) == ByTime(derived \cup Elements(kept))

\* mapActivityEventsToProduct
Selected(kept, filter) ==
  First(ByTime({e \in Elements(kept) : filter \in {"all", e.kind}}), MaxShown)

Answer(c) ==
  /\ c.answer = "derived"
  /\ log' = [log EXCEPT ![c.of] = Merged(c.derived, @)]
  /\ asks' = (asks \ {c}) \cup
       {[c EXCEPT !.answer = "ok", !.by = clock, !.items = Selected(log'[c.of], c.filter)]}
  /\ UNCHANGED <<events, opened, saved, forgotten, clock, at, activity, home, trouble, crossed, misplaced>>

FailReading(c) ==
  /\ c \in Unanswered
  /\ Trouble
  /\ asks' = (asks \ {c}) \cup Failed({c})
  /\ UNCHANGED <<activityServer, at, activity, home, crossed, misplaced>>

-----------------------------------------------------------------------------
\* renderActivity: the page of another workspace is forgotten; a page that is
\* loaded is shown as it is.
Reset(page, w) ==
  IF page.of # w THEN [of |-> w, filter |-> "all", loading |-> TRUE, items |-> {}] ELSE page

Asks(page) == {Reading("activity", page.of, page.filter)}
Crosses(S) == crossed' = (crossed \/ \E c \in asks : c.page = "activity" /\ S # {})

\* loadHomeData up to its await: a first loading is shown as such.
HomeLoads(h, w) ==
  IF h.of = w /\ (h.items # {} \/ h.error) THEN h
  ELSE [h EXCEPT !.of = w, !.loading = TRUE, !.error = FALSE]

\* renderCurrentRoute
Arrives(to) ==
  /\ at' = to
  /\ LET page == IF to.route = "activity" THEN Reset(activity, to.active) ELSE activity
         asked == IF to.route = "activity" /\ page.loading THEN Asks(page)
                  ELSE IF to.route = "home" THEN {Reading("home", to.active, "all")} ELSE {}
     IN  /\ activity' = page
         /\ asks' = asks \cup asked
         /\ Crosses({c \in asked : c.page = "activity"})
  /\ IF to.route = "home" THEN home' = HomeLoads(home, to.active) ELSE UNCHANGED home

\* setRoute, switchWorkspace, and the home page at a change of the state
GoTo_Activity ==
  /\ Trouble
  /\ \E r \in {"home", "activity", "other"}, w \in Workspaces :
       /\ r # at.route \/ w # at.active \/ r = "home"
       /\ r = at.route \/ w = at.active
       /\ Arrives([route |-> r, active |-> w])
  /\ UNCHANGED <<activityServer, misplaced>>

SetFilter ==
  /\ Trouble
  /\ at.route = "activity"
  /\ \E filter \in (Kinds \cup {"all"}) \ {activity.filter} :
       LET page == [activity EXCEPT !.filter = filter, !.loading = TRUE, !.of = at.active]
       IN  activity' = page /\ asks' = asks \cup Asks(page) /\ Crosses(Asks(page))
  /\ UNCHANGED <<activityServer, at, home, misplaced>>

\* The button of the error panel on the home page.
RetryHome ==
  /\ Trouble
  /\ at.route = "home" /\ home.error
  /\ home' = [home EXCEPT !.loading = TRUE, !.error = FALSE]
  /\ asks' = asks \cup {Reading("home", at.active, "all")}
  /\ UNCHANGED <<activityServer, at, activity, crossed, misplaced>>

\* loadActivity after its await: whatever workspace and filter it was for.
ActivityAnswered(c) ==
  /\ c.page = "activity"
  /\ activity' = [activity EXCEPT !.loading = FALSE, !.items = Elements(c.items)]
  /\ UNCHANGED <<home, misplaced>>

\* Mutant: the answer is taken for the active workspace.
Meant_Always(c) == TRUE

\* loadHomeData: an answer for a workspace that is not active any more is dropped.
Meant(c) == c.of = at.active

\* An answer does not take back an error that is shown.
HomeAnswered(c) ==
  /\ c.page = "home"
  /\ home' = IF ~Meant(c) THEN home
             ELSE IF c.answer = "ok" THEN [home EXCEPT !.loading = FALSE, !.items = Elements(c.items)]
             ELSE [home EXCEPT !.loading = FALSE, !.items = {}, !.error = TRUE]
  /\ misplaced' = IF Meant(c) THEN home.of # at.active ELSE misplaced
  /\ UNCHANGED activity

HandleReading(c) ==
  /\ c \notin Unanswered
  /\ ActivityAnswered(c) \/ HomeAnswered(c)
  /\ asks' = asks \ {c}
  /\ UNCHANGED <<activityServer, at, trouble, crossed>>

ActivityNext ==
  \/ \E w \in Workspaces : Record(w) \/ StoreResult(w)
  \/ Restart_Activity \/ GoTo_Activity \/ SetFilter \/ RetryHome
  \/ \E c \in asks : Derive(c) \/ Answer(c) \/ FailReading(c) \/ HandleReading(c)

-----------------------------------------------------------------------------
\* A reading answers with the newest events of the workspace, those of the log
\* and those of governance, in the order of their times: an event that it
\* leaves out is older than a full answer, or was cut because the log holds
\* as many newer ones, or is one that a restart lost before it was written.
ReadingIsNewest ==
  \A c \in asks : c.answer = "ok" =>
    LET known == {e \in events : e.of = c.of /\ e.id <= c.by}
    IN  /\ \A i, j \in DOMAIN c.items : i < j => c.items[i].id > c.items[j].id
        /\ Elements(c.items) \subseteq known
        /\ \A e \in known \ (Elements(c.items) \cup forgotten) :
             \/ c.filter \notin {"all", e.kind}
             \/ e.result /\ e \notin c.derived
             \/ Len(c.items) = MaxShown /\ \A i \in DOMAIN c.items : c.items[i].id > e.id
             \/ Cardinality({x \in known : x.id > e.id}) >= MaxKept

\* The home page shows the active workspace, however late an answer is, unless
\* it took it while away from the page and for another workspace than it had
\* shown last; it waits only for one that is on its way.  So does the activity
\* page, which shows what was asked of it unless it asked while it was loading.
ActivityPagesSettle ==
  /\ at.route = "home" =>
       /\ home.of = at.active
       /\ IF home.loading THEN \E c \in asks : c.page = "home" /\ c.of = at.active
          ELSE misplaced \/ \A e \in home.items : e.of = at.active
  /\ at.route = "activity" =>
       /\ activity.of = at.active
       /\ activity.loading => \E c \in asks : c.page = "activity"
       /\ ~crossed /\ ~activity.loading =>
            \A e \in activity.items : e.of = at.active /\ activity.filter \in {"all", e.kind}
=============================================================================
