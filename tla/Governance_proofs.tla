-------------------------- MODULE Governance_proofs --------------------------
(***************************************************************************)
(* Proofs about Governance and the organizational memory below it, for any *)
(* numbers of calls, requests, policies and decisions: what was replaced   *)
(* is told, feedback tells the truth, and a governed action has had its    *)
(* authority.                                                              *)
(*                                                                         *)
(* OrgInv is about the memory, GovInv about the requests.  OrgInv says     *)
(* nothing of the faults, which both count.                                *)
(***************************************************************************)
EXTENDS Governance, WellFoundedInduction, TLAPS

Contents == Value \cup Approver \cup Verdict
Records == [revision : Nat \ {0}, content : Contents]
Steps == {"new", "ended", "version", "entity", "decision", "links",
          "correcting", "applied", "recorded"}
Jobs == [step : Steps, entity : Ids \cup {None}, content : Contents \cup {Malformed, None},
         found : Records \cup {None}, correction : BOOLEAN]
Triple(e, r) == [entity |-> e, revision |-> r.revision, content |-> r.content]

OrgTypes ==
  /\ current \in [Ids -> Records \cup {None}]
  /\ \A e \in Ids : current[e] # None => current[e].content \in ContentOf(e)
  /\ versions \subseteq past
  /\ past \subseteq [entity : Ids, revision : Nat \ {0}, content : Contents]
  /\ \A e \in Ids : current[e] # None => Triple(e, current[e]) \in past
  /\ job \in [Calls -> Jobs]
  /\ overlapped \in BOOLEAN

(* What the fields of a call mean at each of its steps.                    *)
JobFits(j) ==
  /\ j.step \in {"version", "entity"} =>
       /\ j.entity \in Entities
       /\ j.content \in ContentOf(j.entity) \cup {Malformed}
       /\ j.found # None => Triple(j.entity, j.found) \in past
       /\ j.correction => j.entity = Warranty
  /\ j.step = "version" => j.entity \in Policies /\ j.found # None
  /\ j.step = "decision" => j.entity \in Decisions /\ j.content \in Verdict
  /\ j.step = "correcting" => j.content \in Value

JobsFit == \A c \in Calls : JobFits(job[c])

(* Revision n of policy e is in the history.                               *)
Told(e, n) == \E v \in versions : v.entity = e /\ v.revision = n

(* Every revision before the current one is told, and every one before the *)
(* revision that an upsert has found, that one itself once it was stored.  *)
HistoryIsTold ==
  /\ \A e \in Policies : current[e] # None =>
       \A n \in 1 .. current[e].revision - 1 : Told(e, n)
  /\ \A c \in Calls : Upserting(c) /\ job[c].entity \in Policies /\ job[c].found # None =>
       /\ \A n \in 1 .. job[c].found.revision - 1 : Told(job[c].entity, n)
       /\ job[c].step = "entity" => Told(job[c].entity, job[c].found.revision)

(* As long as no two calls were at work on one policy: an upsert knows the *)
(* current record and has stored it, once it is past its version; and what *)
(* was current before is among the versions.                               *)
Undisturbed ==
  /\ \A c, d \in Calls : Upserting(c) /\ Upserting(d) /\ c # d => job[c].entity # job[d].entity
  /\ \A c \in Calls : Upserting(c) =>
       /\ job[c].found = current[job[c].entity]
       /\ job[c].step = "entity" /\ job[c].entity \in Policies /\ job[c].found # None
            => Triple(job[c].entity, job[c].found) \in versions
  /\ \A p \in past : p.entity \in Policies =>
       /\ current[p.entity] # None
       /\ \/ p.revision < current[p.entity].revision /\ p \in versions
          \/ p = Triple(p.entity, current[p.entity])

(* A correction is about to be answered, or was: its days are in the past. *)
InPast(x) == \E p \in past : p.entity = Warranty /\ p.content = x
FeedbackFits ==
  /\ \A c \in Calls : job[c].step \in {"applied", "recorded"} =>
       job[c].content = None \/ overlapped \/ InPast(job[c].content)
  /\ \A f \in feedback : f.days = None \/ overlapped \/ InPast(f.days)

(* The journal lists the decisions that there are.                         *)
JournalFits ==
  /\ journal \in Seq(Decisions)
  /\ \A d \in Decisions : current[d] # None <=> \E i \in DOMAIN journal : journal[i] = d

(* The discount policy and the rule are there from the start.              *)
RulesExist == \A e \in Entities \ {Warranty} : current[e] # None

OrgInv ==
  /\ OrgTypes /\ JobsFit /\ HistoryIsTold /\ FeedbackFits /\ JournalFits /\ RulesExist
  /\ ~overlapped => Undisturbed

-----------------------------------------------------------------------------
LEMMA Sets ==
  /\ Policies \subseteq Ids /\ Entities \subseteq Ids /\ Decisions \subseteq Ids
  /\ Warranty \in Policies /\ Rule \notin Policies /\ Rule \in Entities
  /\ Discounts \in Policies /\ Discounts # Warranty
  /\ \A d \in Decisions : d \notin Entities /\ d \notin Policies
BY EntitiesAssumption, DiscountsAssumption DEF Ids, Entities

LEMMA ContentTypes ==
  /\ \A e \in Ids : ContentOf(e) \subseteq Contents
  /\ \A e \in Policies : ContentOf(e) = Value
  /\ ContentOf(Rule) = Approver
  /\ \A d \in Decisions : ContentOf(d) = Verdict
BY Sets DEF ContentOf, Contents, Entities

LEMMA NoneIsNoRecord == None \notin Records
<1>1. Records \subseteq [revision : Nat, content : Value \cup Approver \cup Verdict]
  BY DEF Records, Contents
<1> QED BY <1>1, RecordAssumption

LEMMA OrgInitially ==
  ASSUME OrgInit
  PROVE  OrgInv
<1> USE Sets, ContentTypes
<1>1. /\ \A e \in Ids : current[e] = None \/ current[e] \in [revision : {1}, content : Value \cup Approver]
      /\ \A e \in Entities \ {Warranty} : current[e] # None /\ current[e].content \in ContentOf(e)
      /\ \A e \in Ids : e \notin Entities \ {Warranty} => current[e] = None
      /\ current \in [Ids -> {None} \cup [revision : {1}, content : Value \cup Approver]]
  BY DEF OrgInit
<1>2. [revision : {1}, content : Value \cup Approver] \subseteq Records
  BY DEF Records, Contents
<1>3. current \in [Ids -> Records \cup {None}]
  BY <1>1, <1>2
<1>4. \A e \in Ids : current[e] # None => e \in Entities \ {Warranty} /\ current[e].revision = 1
                                          /\ current[e].content \in ContentOf(e)
  BY <1>1
<1>5. past = {Triple(e, current[e]) : e \in Entities \ {Warranty}}
  <2>1. \A e \in Entities \ {Warranty} :
          Triple(e, current[e]) = [entity |-> e, revision |-> 1, content |-> current[e].content]
    BY <1>1, <1>4 DEF Triple
  <2> QED BY <2>1 DEF OrgInit
<1>6. OrgTypes
  <2>1. past \subseteq [entity : Ids, revision : Nat \ {0}, content : Contents]
    BY <1>1, <1>4, <1>5 DEF Triple
  <2>2. job \in [Calls -> Jobs]
    BY DEF OrgInit, Idle, Work, Jobs, Steps
  <2> QED BY <1>3, <1>4, <1>5, <2>1, <2>2 DEF OrgTypes, OrgInit
<1>7. \A c \in Calls : job[c].step = "new"
  BY DEF OrgInit, Idle, Work
<1>8. JobsFit /\ FeedbackFits
  BY <1>7 DEF JobsFit, JobFits, FeedbackFits, OrgInit
<1>9. HistoryIsTold
  <2>1. \A e \in Policies : current[e] # None => 1 .. current[e].revision - 1 = {}
    BY <1>4
  <2> QED BY <2>1, <1>7 DEF HistoryIsTold, Upserting
<1>10. JournalFits
  BY <1>1 DEF JournalFits, OrgInit
<1>11. Undisturbed
  <2>1. \A p \in past : current[p.entity] # None /\ p = Triple(p.entity, current[p.entity])
    BY <1>1, <1>5 DEF Triple
  <2> QED BY <1>7, <2>1 DEF Undisturbed, Upserting
<1> QED BY <1>1, <1>6, <1>8, <1>9, <1>10, <1>11 DEF OrgInv, RulesExist
-----------------------------------------------------------------------------
(* What holds of the past goes on holding: nothing is taken out of it.     *)
LEMMA PastGrows ==
  ASSUME past \subseteq past'
  PROVE  /\ \A j : JobFits(j) => JobFits(j)'
         /\ \A x : InPast(x) => InPast(x)'
BY DEF JobFits, InPast

(* Put: the record is current from now on, or it was overtaken.            *)
LEMMA PutFacts ==
  ASSUME OrgTypes, NEW e \in Ids, NEW r \in Records, r.content \in ContentOf(e), Put(e, r)
  PROVE  /\ current' \in [Ids -> Records \cup {None}]
         /\ \A d \in Ids : current'[d] # None => current'[d].content \in ContentOf(d)
         /\ \A d \in Ids \ {e} : current'[d] = current[d]
         /\ past \subseteq past' /\ past' \subseteq past \cup {Triple(e, r)}
         /\ past' \subseteq [entity : Ids, revision : Nat \ {0}, content : Contents]
         /\ \A d \in Ids : current'[d] # None => Triple(d, current'[d]) \in past'
         /\ \/ current'[e] = r /\ Triple(e, r) \in past'
            \/ /\ UNCHANGED <<current, past>> /\ current[e] # None
               /\ r.revision <= current[e].revision
<1>1. PICK tie \in BOOLEAN :
        IF Replaces(r, current[e], tie)
        THEN /\ current' = [current EXCEPT ![e] = r]
             /\ past' = past \cup {[entity |-> e, revision |-> r.revision, content |-> r.content]}
        ELSE UNCHANGED <<current, past>>
  BY DEF Put
<1>2. CASE Replaces(r, current[e], tie)
  <2>1. current' = [current EXCEPT ![e] = r] /\ past' = past \cup {Triple(e, r)}
    BY <1>1, <1>2 DEF Triple
  <2>2. Triple(e, r) \in [entity : Ids, revision : Nat \ {0}, content : Contents]
    BY DEF Records, Triple
  <2>3. current'[e] = r /\ \A d \in Ids \ {e} : current'[d] = current[d]
    BY <2>1 DEF OrgTypes
  <2> QED BY <2>1, <2>2, <2>3 DEF OrgTypes
<1>3. CASE ~Replaces(r, current[e], tie)
  <2>1. UNCHANGED <<current, past>>
    BY <1>1, <1>3
  <2>2. current[e] # None /\ r.revision \in Nat /\ current[e].revision \in Nat
        /\ ~(r.revision > current[e].revision)
    BY <1>3 DEF Replaces, OrgTypes, Records
  <2>3. r.revision <= current[e].revision
    BY <2>2
  <2> QED BY <2>1, <2>2, <2>3 DEF OrgTypes
<1> QED BY <1>2, <1>3

(* Written: the call ends or takes its next step.                          *)
LEMMA WrittenFacts ==
  ASSUME OrgTypes, NEW c \in Calls, NEW to \in Steps, Written(c, to)
  PROVE  /\ job' \in [Calls -> Jobs]
         /\ \A d \in Calls \ {c} : job'[d] = job[d]
         /\ \/ job'[c].step = "ended"
            \/ /\ job'[c].step = to
               /\ job'[c].entity = job[c].entity /\ job'[c].content = job[c].content
               /\ job'[c].found = job[c].found /\ job'[c].correction = job[c].correction
<1>1. \/ job' = [job EXCEPT ![c] = Idle("ended")]
      \/ job' = [job EXCEPT ![c].step = to]
  BY DEF Written, End, Go
<1>2. Idle("ended") \in Jobs /\ Idle("ended").step = "ended"
  BY DEF Idle, Work, Jobs, Steps
<1>3. CASE job' = [job EXCEPT ![c] = Idle("ended")]
  BY <1>2, <1>3 DEF OrgTypes
<1>4. CASE job' = [job EXCEPT ![c].step = to]
  BY <1>4 DEF OrgTypes, Jobs
<1> QED BY <1>1, <1>3, <1>4

(* A step that leaves the records alone and takes a call out of an upsert, *)
(* or to a step outside one, keeps all that is said of the history.        *)
LEMMA RecordsUntouched ==
  ASSUME OrgInv, NEW c \in Calls,
         UNCHANGED <<current, versions, journal, past, overlapped>>,
         job' \in [Calls -> Jobs],
         \A d \in Calls \ {c} : job'[d] = job[d],
         job'[c].step \notin {"version", "entity"},
         JobFits(job'[c]),
         job'[c].step \in {"applied", "recorded"} =>
           job'[c].content = None \/ overlapped \/ InPast(job'[c].content),
         \A f \in feedback' : f \in feedback \/ f.days = None \/ overlapped \/ InPast(f.days)
  PROVE  OrgInv'
<1>1. OrgTypes'
  BY DEF OrgInv, OrgTypes, ContentOf, Triple
<1>2. \A j : JobFits(j)' <=> JobFits(j)
  BY DEF JobFits
<1>3. JobsFit'
  BY <1>2 DEF OrgInv, JobsFit
<1>4. \A d \in Calls : Upserting(d)' => d # c /\ Upserting(d) /\ job'[d] = job[d]
  BY DEF Upserting
<1>5. \A e, n : Told(e, n)' <=> Told(e, n)
  BY DEF Told
<1>6. HistoryIsTold'
  BY <1>4, <1>5 DEF OrgInv, HistoryIsTold
<1>7. FeedbackFits'
  BY DEF OrgInv, FeedbackFits, InPast
<1>8. JournalFits' /\ RulesExist'
  BY DEF OrgInv, JournalFits, RulesExist
<1>9. ~overlapped => Undisturbed'
  <2> SUFFICES ASSUME ~overlapped PROVE Undisturbed'
    OBVIOUS
  <2>1. Undisturbed
    BY DEF OrgInv
  <2> QED BY <1>4, <2>1 DEF Undisturbed, Triple
<1> QED BY <1>1, <1>3, <1>6, <1>7, <1>8, <1>9 DEF OrgInv
-----------------------------------------------------------------------------
LEMMA EndKeeps ==
  ASSUME OrgInv, NEW c \in Calls, End(c),
         UNCHANGED <<current, versions, journal, feedback, past, overlapped>>
  PROVE  OrgInv'
<1>1. Idle("ended") \in Jobs /\ Idle("ended").step = "ended"
  BY DEF Idle, Work, Jobs, Steps
<1>2. /\ job' \in [Calls -> Jobs] /\ job'[c].step = "ended"
      /\ \A d \in Calls \ {c} : job'[d] = job[d]
  BY <1>1 DEF End, OrgInv, OrgTypes
<1> QED BY <1>2, RecordsUntouched DEF JobFits

LEMMA CorrectKeeps ==
  ASSUME OrgInv, NEW c \in Calls, Correct(c)
  PROVE  OrgInv'
<1>1. PICK x \in Value \cup {None} :
        LET same == current[Warranty] # None /\ current[Warranty].content = x
        IN  Start(c, Work(IF x = None \/ same THEN "recorded" ELSE "correcting", Warranty, x, TRUE))
  BY DEF Correct
<1> DEFINE same == current[Warranty] # None /\ current[Warranty].content = x
           step == IF x = None \/ same THEN "recorded" ELSE "correcting"
           j == Work(step, Warranty, x, TRUE)
<1>2. job' = [job EXCEPT ![c] = j]
  BY <1>1 DEF Start
<1>3. j \in Jobs /\ j.step = step /\ j.content = x
  BY Sets DEF Work, Jobs, Steps, Contents
<1>4. job' \in [Calls -> Jobs] /\ job'[c] = j /\ \A d \in Calls \ {c} : job'[d] = job[d]
  BY <1>2, <1>3 DEF OrgInv, OrgTypes
<1>5. step = "recorded" => x = None \/ InPast(x)
  <2> SUFFICES ASSUME same PROVE InPast(x)
    OBVIOUS
  <2>1. Triple(Warranty, current[Warranty]) \in past
    BY Sets DEF OrgInv, OrgTypes
  <2> QED BY <2>1 DEF InPast, Triple
<1>6. JobFits(j)
  BY <1>3 DEF JobFits
<1> HIDE DEF j, step
<1> QED BY <1>3, <1>4, <1>5, <1>6, RecordsUntouched DEF Correct, step

LEMMA DecideKeeps ==
  ASSUME OrgInv, NEW c \in Calls, Decide(c)
  PROVE  OrgInv'
<1>1. PICK d \in Decisions, x \in Verdict : job' = [job EXCEPT ![c] = Work("decision", d, x, FALSE)]
  BY DEF Decide, Start
<1> DEFINE j == Work("decision", d, x, FALSE)
<1>2. j \in Jobs /\ j.step = "decision" /\ j.entity = d /\ j.content = x
  BY Sets DEF Work, Jobs, Steps, Contents
<1>3. job' \in [Calls -> Jobs] /\ job'[c] = j /\ \A e \in Calls \ {c} : job'[e] = job[e]
  BY <1>1, <1>2 DEF OrgInv, OrgTypes
<1>4. JobFits(j)
  BY <1>2 DEF JobFits
<1> HIDE DEF j
<1> QED BY <1>2, <1>3, <1>4, RecordsUntouched DEF Decide

(* The feedback record says what the call did.                             *)
LEMMA StoreFeedbackKeeps ==
  ASSUME OrgInv, NEW c \in Calls, StoreFeedback(c)
  PROVE  OrgInv'
<1>1. /\ job' \in [Calls -> Jobs] /\ job'[c].step = "ended"
      /\ \A d \in Calls \ {c} : job'[d] = job[d]
  BY WrittenFacts DEF StoreFeedback, OrgInv, Steps
<1>2. job[c].content = None \/ overlapped \/ InPast(job[c].content)
  BY DEF StoreFeedback, OrgInv, FeedbackFits
<1>3. \A f \in feedback' : f \in feedback \/ f.days = None \/ overlapped \/ InPast(f.days)
  BY <1>2 DEF StoreFeedback
<1> QED BY <1>1, <1>3, RecordsUntouched DEF StoreFeedback, JobFits

LEMMA LinkDecisionKeeps ==
  ASSUME OrgInv, NEW c \in Calls, LinkDecision(c)
  PROVE  OrgInv'
<1>1. /\ job' \in [Calls -> Jobs] /\ job'[c].step = "ended"
      /\ \A d \in Calls \ {c} : job'[d] = job[d]
  BY WrittenFacts DEF LinkDecision, OrgInv, Steps
<1> QED BY <1>1, RecordsUntouched DEF LinkDecision, JobFits

-----------------------------------------------------------------------------
(* An upsert that begins knows the current record; another one at work on  *)
(* the same policy is noted.                                               *)
LEMMA ReadKeeps ==
  ASSUME OrgInv, NEW c \in Calls, ~Upserting(c), NEW e \in Entities,
         NEW x \in ContentOf(e) \cup {Malformed}, NEW correction \in BOOLEAN,
         correction => e = Warranty,
         ReadForUpsert(c, e, x, correction)
  PROVE  OrgInv'
<1> DEFINE j == [Work(AfterRead(e, current[e]), e, x, correction) EXCEPT !.found = current[e]]
<1>1. /\ job' = [job EXCEPT ![c] = j]
      /\ overlapped' = (overlapped \/ \E d \in Calls \ {c} : Upserting(d) /\ job[d].entity = e)
      /\ UNCHANGED <<current, versions, links, journal, feedback, past>>
  BY DEF ReadForUpsert
<1>2. e \in Ids /\ current[e] \in Records \cup {None}
  BY Sets DEF OrgInv, OrgTypes
<1>3. /\ j \in Jobs /\ j.step \in {"version", "entity"} /\ j.entity = e /\ j.content = x
      /\ j.found = current[e] /\ j.correction = correction
      /\ j.step = "version" <=> e \in Policies /\ current[e] # None
  BY <1>2, ContentTypes DEF Work, AfterRead, Jobs, Steps
<1>4. job' \in [Calls -> Jobs] /\ job'[c] = j /\ \A d \in Calls \ {c} : job'[d] = job[d]
  BY <1>1, <1>3 DEF OrgInv, OrgTypes
<1> HIDE DEF j
<1>5. OrgTypes'
  BY <1>1, <1>4 DEF OrgInv, OrgTypes, ContentOf, Triple
<1>6. JobsFit'
  <2>1. JobFits(j)
    BY <1>2, <1>3 DEF JobFits, OrgInv, OrgTypes
  <2>2. \A k : JobFits(k)' <=> JobFits(k)
    BY <1>1 DEF JobFits
  <2> QED BY <1>4, <2>1, <2>2 DEF OrgInv, JobsFit
<1>7. HistoryIsTold'
  <2>1. \A f, n : Told(f, n)' <=> Told(f, n)
    BY <1>1 DEF Told
  <2>2. e \in Policies /\ current[e] # None => \A n \in 1 .. current[e].revision - 1 : Told(e, n)
    BY DEF OrgInv, HistoryIsTold
  <2>3. \A d \in Calls \ {c} : Upserting(d)' <=> Upserting(d)
    BY <1>4 DEF Upserting
  <2> QED BY <1>1, <1>3, <1>4, <2>1, <2>2, <2>3 DEF OrgInv, HistoryIsTold
<1>8. FeedbackFits'
  BY <1>1, <1>3, <1>4 DEF OrgInv, FeedbackFits, InPast
<1>9. JournalFits' /\ RulesExist'
  BY <1>1 DEF OrgInv, JournalFits, RulesExist
<1>10. ~overlapped' => Undisturbed'
  <2> SUFFICES ASSUME ~overlapped' PROVE Undisturbed'
    OBVIOUS
  <2>1. Undisturbed /\ \A d \in Calls \ {c} : Upserting(d) => job[d].entity # e
    BY <1>1 DEF OrgInv
  <2>2. \A d \in Calls \ {c} : Upserting(d)' <=> Upserting(d)
    BY <1>4 DEF Upserting
  <2> QED BY <1>1, <1>3, <1>4, <2>1, <2>2 DEF Undisturbed, Triple
<1> QED BY <1>5, <1>6, <1>7, <1>8, <1>9, <1>10 DEF OrgInv
-----------------------------------------------------------------------------
(* The version of what the upsert has found is stored, or one of the same  *)
(* revision stays; versions of other revisions are left alone.             *)
LEMMA StoreVersionKeeps ==
  ASSUME OrgInv, NEW c \in Calls, StoreVersion(c)
  PROVE  OrgInv'
<1>0. PICK e, r : e = job[c].entity /\ r = job[c].found
  OBVIOUS
<1> DEFINE same == {v \in versions : v.entity = e /\ v.revision = r.revision}
<1>1. /\ job[c].step = "version" /\ e \in Policies /\ r # None /\ Triple(e, r) \in past
      /\ Upserting(c)
  BY <1>0 DEF StoreVersion, OrgInv, JobsFit, JobFits, Upserting
<1>2. UNCHANGED <<current, journal, feedback, past, overlapped>>
  BY DEF StoreVersion
<1>3. /\ job' \in [Calls -> Jobs] /\ \A d \in Calls \ {c} : job'[d] = job[d]
      /\ \/ job'[c].step = "ended"
         \/ /\ job'[c].step = "entity"
            /\ job'[c].entity = e /\ job'[c].content = job[c].content
            /\ job'[c].found = r /\ job'[c].correction = job[c].correction
  BY <1>0, WrittenFacts DEF StoreVersion, OrgInv, Steps
<1>4. \/ versions' = (versions \ same) \cup {Triple(e, r)}
      \/ same # {} /\ versions' = versions
  BY <1>0 DEF StoreVersion, PutVersion, Triple
<1>5. versions' \subseteq past
  BY <1>1, <1>4 DEF OrgInv, OrgTypes
<1>6. \E v \in versions' : v.entity = e /\ v.revision = r.revision
  <2>1. CASE versions' = (versions \ same) \cup {Triple(e, r)}
    <3>1. Triple(e, r) \in versions'
      BY <2>1
    <3> QED BY <3>1 DEF Triple
  <2>2. CASE same # {} /\ versions' = versions
    BY <2>2
  <2> QED BY <1>4, <2>1, <2>2
<1>7. \A f, n : Told(f, n) => Told(f, n)'
  <2> SUFFICES ASSUME NEW f, NEW n, Told(f, n) PROVE \E v \in versions' : v.entity = f /\ v.revision = n
    BY DEF Told
  <2>1. PICK v \in versions : v.entity = f /\ v.revision = n
    BY DEF Told
  <2>2. v \in versions' \/ v \in same
    BY <1>4
  <2> QED BY <1>6, <2>1, <2>2
<1>8. OrgTypes'
  BY <1>2, <1>3, <1>5 DEF OrgInv, OrgTypes, ContentOf, Triple
<1>9. JobsFit'
  <2>1. \A k : JobFits(k)' <=> JobFits(k)
    BY <1>2 DEF JobFits
  <2>2. JobFits(job'[c])
    BY <1>0, <1>3 DEF OrgInv, JobsFit, JobFits, StoreVersion
  <2> QED BY <1>3, <2>1, <2>2 DEF OrgInv, JobsFit
<1>10. HistoryIsTold'
  <2>1. \A d \in Calls : Upserting(d)' =>
          /\ Upserting(d) /\ job'[d].entity = job[d].entity /\ job'[d].found = job[d].found
          /\ d # c => job'[d].step = job[d].step
    BY <1>0, <1>1, <1>3 DEF Upserting
  <2>2. Told(e, r.revision)'
    BY <1>6 DEF Told
  <2> QED BY <1>0, <1>2, <1>3, <1>7, <2>1, <2>2 DEF OrgInv, HistoryIsTold
<1>11. FeedbackFits'
  BY <1>2, <1>3 DEF OrgInv, FeedbackFits, InPast
<1>12. JournalFits' /\ RulesExist'
  BY <1>2 DEF OrgInv, JournalFits, RulesExist
<1>13. ASSUME ~overlapped PROVE Undisturbed'
  <2>1. Undisturbed
    BY <1>13 DEF OrgInv
  <2>2. r = current[e] /\ current[e] # None
    BY <1>0, <1>1, <2>1 DEF Undisturbed
  <2>3. \A v \in versions : v \in same => v = Triple(e, r)
    <3> SUFFICES ASSUME NEW v \in versions, v \in same PROVE v = Triple(e, r)
      OBVIOUS
    <3>1. v \in past /\ v.entity = e /\ v.revision = r.revision
      BY DEF OrgInv, OrgTypes
    <3>2. v.revision \in Nat
      BY <3>1 DEF OrgInv, OrgTypes
    <3>3. ~(v.revision < current[v.entity].revision)
      BY <2>2, <3>1, <3>2
    <3> QED BY <1>1, <2>1, <2>2, <3>1, <3>3 DEF Undisturbed
  <2>4. Triple(e, r) \in versions' /\ versions \subseteq versions'
    BY <1>4, <2>3
  <2>5. \A d \in Calls : Upserting(d)' =>
          /\ Upserting(d) /\ job'[d].entity = job[d].entity /\ job'[d].found = job[d].found
          /\ d # c => job'[d].step = job[d].step
    BY <1>0, <1>1, <1>3 DEF Upserting
  <2>6. \A d \in Calls : Upserting(d)' =>
          /\ job'[d].found = current[job'[d].entity]
          /\ job'[d].step = "entity" /\ job'[d].entity \in Policies /\ job'[d].found # None
               => Triple(job'[d].entity, job'[d].found) \in versions'
    <3> SUFFICES ASSUME NEW d \in Calls, Upserting(d)'
                 PROVE  /\ job'[d].found = current[job'[d].entity]
                        /\ job'[d].step = "entity" /\ job'[d].entity \in Policies /\ job'[d].found # None
                             => Triple(job'[d].entity, job'[d].found) \in versions'
      OBVIOUS
    <3>1. CASE d = c
      BY <1>0, <2>1, <2>4, <2>5, <3>1 DEF Undisturbed
    <3>2. CASE d # c
      BY <2>1, <2>4, <2>5, <3>2 DEF Undisturbed
    <3> QED BY <3>1, <3>2
  <2>7. \A p \in past : p.entity \in Policies =>
          /\ current[p.entity] # None
          /\ \/ p.revision < current[p.entity].revision /\ p \in versions'
             \/ p = Triple(p.entity, current[p.entity])
    BY <2>1, <2>4 DEF Undisturbed
  <2>8. \A d, f \in Calls : Upserting(d)' /\ Upserting(f)' /\ d # f => job'[d].entity # job'[f].entity
    BY <2>1, <2>5 DEF Undisturbed
  <2> QED BY <1>2, <2>6, <2>7, <2>8 DEF Undisturbed, Triple
<1> QED BY <1>2, <1>8, <1>9, <1>10, <1>11, <1>12, <1>13 DEF OrgInv
-----------------------------------------------------------------------------
(* The record an upsert stores: of a revision that is new to the policy.   *)
LEMMA SuccessorFacts ==
  ASSUME OrgInv, NEW c \in Calls, job[c].step = "entity", job[c].content # Malformed
  PROVE  LET s == Successor(job[c].entity, job[c].found, job[c].content)
         IN  /\ s \in Records /\ s.content = job[c].content
             /\ s.content \in ContentOf(job[c].entity)
             /\ job[c].entity \in Policies /\ job[c].found # None => s.revision = job[c].found.revision + 1
             /\ job[c].found = None => s.revision = 1
<1>1. /\ job[c].entity \in Ids /\ job[c].content \in ContentOf(job[c].entity)
      /\ job[c].content \in Contents
  BY Sets, ContentTypes DEF OrgInv, JobsFit, JobFits
<1>2. job[c].found # None => job[c].found.revision \in Nat
  BY DEF OrgInv, OrgTypes, Jobs, Records
<1> QED BY <1>1, <1>2 DEF Successor, Records

LEMMA StoreEntityKeeps ==
  ASSUME OrgInv, NEW c \in Calls, StoreEntity(c)
  PROVE  OrgInv'
<1>0. PICK e, r, s : /\ e = job[c].entity /\ r = job[c].found
                     /\ s = Successor(job[c].entity, job[c].found, job[c].content)
  OBVIOUS
<1>1. /\ job[c].step = "entity" /\ e \in Entities /\ e \in Ids /\ Upserting(c)
      /\ r # None => Triple(e, r) \in past /\ r.revision \in Nat
      /\ job[c].correction => e = Warranty
  BY <1>0, Sets DEF StoreEntity, OrgInv, OrgTypes, Jobs, Records, JobsFit, JobFits, Upserting
<1>2. /\ s \in Records /\ s.content = job[c].content /\ s.content \in ContentOf(e)
      /\ e \in Policies /\ r # None => s.revision = r.revision + 1
      /\ r = None => s.revision = 1
  BY <1>0, SuccessorFacts DEF StoreEntity
<1>3. UNCHANGED <<versions, journal, feedback, overlapped>> /\ Put(e, s)
  BY <1>0 DEF StoreEntity
<1>4. /\ job' \in [Calls -> Jobs] /\ \A d \in Calls \ {c} : job'[d] = job[d]
      /\ \/ job'[c].step = "ended"
         \/ /\ job'[c].step = "applied" /\ job'[c].content = s.content /\ job[c].correction
  <2>1. job[c].correction \in BOOLEAN
    BY DEF OrgInv, OrgTypes, Jobs
  <2>2. CASE job[c].correction
    <3>1. Written(c, "applied")
      BY <2>2 DEF StoreEntity
    <3> QED BY <3>1, <1>2, <2>2, WrittenFacts DEF OrgInv, Steps
  <2>3. CASE ~job[c].correction
    <3>1. Written(c, "ended")
      BY <2>3 DEF StoreEntity
    <3> QED BY <3>1, WrittenFacts DEF OrgInv, Steps
  <2> QED BY <2>1, <2>2, <2>3
<1>5. /\ current' \in [Ids -> Records \cup {None}]
      /\ \A d \in Ids : current'[d] # None => current'[d].content \in ContentOf(d)
      /\ \A d \in Ids \ {e} : current'[d] = current[d]
      /\ past \subseteq past' /\ past' \subseteq past \cup {Triple(e, s)}
      /\ past' \subseteq [entity : Ids, revision : Nat \ {0}, content : Contents]
      /\ \A d \in Ids : current'[d] # None => Triple(d, current'[d]) \in past'
      /\ \/ current'[e] = s /\ Triple(e, s) \in past'
         \/ /\ UNCHANGED <<current, past>> /\ current[e] # None
            /\ s.revision <= current[e].revision
  BY <1>1, <1>2, <1>3, PutFacts DEF OrgInv
<1>6. OrgTypes'
  BY <1>3, <1>4, <1>5 DEF OrgInv, OrgTypes, ContentOf, Triple
<1>7. JobsFit'
  <2>1. \A d \in Calls \ {c} : JobFits(job[d])'
    BY <1>4, <1>5, PastGrows DEF OrgInv, JobsFit, JobFits
  <2> QED BY <1>4, <2>1 DEF JobsFit, JobFits
<1>8. \A d \in Calls : Upserting(d)' => d # c /\ Upserting(d) /\ job'[d] = job[d]
  BY <1>4 DEF Upserting
<1>9. HistoryIsTold'
  <2>1. \A f, n : Told(f, n)' <=> Told(f, n)
    BY <1>3 DEF Told
  <2>2. ASSUME e \in Policies, current'[e] = s, NEW n \in 1 .. s.revision - 1
        PROVE  Told(e, n)
    <3>1. CASE r = None
      BY <1>2, <2>2, <3>1
    <3>2. CASE r # None
      <4>1. n \in 1 .. r.revision - 1 \/ n = r.revision
        BY <1>1, <1>2, <2>2, <3>2
      <4> QED BY <1>0, <1>1, <2>2, <3>2, <4>1 DEF OrgInv, HistoryIsTold
    <3> QED BY <3>1, <3>2
  <2>3. \A f \in Policies : current'[f] # None => \A n \in 1 .. current'[f].revision - 1 : Told(f, n)
    <3> SUFFICES ASSUME NEW f \in Policies, current'[f] # None
                 PROVE  \A n \in 1 .. current'[f].revision - 1 : Told(f, n)
      OBVIOUS
    <3>1. CASE current'[f] = current[f]
      BY <3>1 DEF OrgInv, HistoryIsTold
    <3>2. CASE f = e /\ current'[e] = s
      BY <2>2, <3>2
    <3> QED BY <1>5, <3>1, <3>2, Sets
  <2> QED BY <1>8, <2>1, <2>3 DEF OrgInv, HistoryIsTold
<1>10. ~overlapped /\ e \in Policies =>
         Undisturbed /\ r = current[e] /\ current'[e] = s /\ Triple(e, s) \in past'
  <2> SUFFICES ASSUME ~overlapped, e \in Policies
               PROVE  Undisturbed /\ r = current[e] /\ current'[e] = s /\ Triple(e, s) \in past'
    OBVIOUS
  <2>1. Undisturbed /\ r = current[e]
    BY <1>0, <1>1 DEF OrgInv, Undisturbed
  <2>2. current[e] # None => ~(s.revision <= current[e].revision)
    BY <1>1, <1>2, <2>1
  <2> QED BY <1>5, <2>1, <2>2
<1>11. FeedbackFits'
  <2>1. job'[c].step = "applied" => overlapped \/ \E p \in past' : p.entity = Warranty /\ p.content = s.content
    <3> SUFFICES ASSUME job'[c].step = "applied", ~overlapped
                 PROVE  \E p \in past' : p.entity = Warranty /\ p.content = s.content
      OBVIOUS
    <3>1. e = Warranty /\ e \in Policies
      BY <1>1, <1>4, Sets
    <3>2. Triple(e, s) \in past'
      BY <1>10, <3>1
    <3> QED BY <3>1, <3>2 DEF Triple
  <2>2. \A x : (\E p \in past : p.entity = Warranty /\ p.content = x)
            => \E p \in past' : p.entity = Warranty /\ p.content = x
    BY <1>5
  <2>3. \A d \in Calls : job'[d].step \in {"applied", "recorded"} =>
          job'[d].content = None \/ overlapped'
          \/ \E p \in past' : p.entity = Warranty /\ p.content = job'[d].content
    <3> SUFFICES ASSUME NEW d \in Calls, job'[d].step \in {"applied", "recorded"}
                 PROVE  job'[d].content = None \/ overlapped'
                        \/ \E p \in past' : p.entity = Warranty /\ p.content = job'[d].content
      OBVIOUS
    <3>1. CASE d = c
      BY <1>3, <1>4, <2>1, <3>1
    <3>2. CASE d # c
      <4>1. job'[d] = job[d]
        BY <1>4, <3>2
      <4>2. job[d].content = None \/ overlapped
            \/ \E p \in past : p.entity = Warranty /\ p.content = job[d].content
        BY <4>1 DEF OrgInv, FeedbackFits, InPast
      <4> QED BY <1>3, <2>2, <4>1, <4>2
    <3> QED BY <3>1, <3>2
  <2>4. \A f \in feedback' : f.days = None \/ overlapped'
          \/ \E p \in past' : p.entity = Warranty /\ p.content = f.days
    BY <1>3, <2>2 DEF OrgInv, FeedbackFits, InPast
  <2> QED BY <2>3, <2>4 DEF FeedbackFits, InPast
<1>12. JournalFits' /\ RulesExist'
  BY <1>1, <1>2, <1>3, <1>5, Sets, NoneIsNoRecord DEF OrgInv, JournalFits, RulesExist
<1>13. ASSUME ~overlapped PROVE Undisturbed'
  <2>1. Undisturbed
    BY <1>13 DEF OrgInv
  <2>2. \A d \in Calls : Upserting(d)' => job[d].entity # e /\ job[d].entity \in Entities
    BY <1>0, <1>1, <1>8, <2>1 DEF Undisturbed, OrgInv, JobsFit, JobFits, Upserting
  <2>3. \A d \in Calls : Upserting(d)' => current'[job'[d].entity] = current[job[d].entity]
    BY <1>5, <1>8, <2>2, Sets
  <2>4. \A d \in Calls : Upserting(d)' =>
          /\ job'[d].found = current'[job'[d].entity]
          /\ job'[d].step = "entity" /\ job'[d].entity \in Policies /\ job'[d].found # None
               => Triple(job'[d].entity, job'[d].found) \in versions'
    BY <1>3, <1>8, <2>1, <2>3 DEF Undisturbed
  <2>5. ASSUME NEW p \in past', p.entity \in Policies
        PROVE  /\ current'[p.entity] # None
               /\ \/ p.revision < current'[p.entity].revision /\ p \in versions
                  \/ p = Triple(p.entity, current'[p.entity])
    <3>1. CASE p.entity = e
      <4>1. r = current[e] /\ current'[e] = s /\ s # None
        BY <1>2, <1>10, <1>13, <2>5, <3>1, NoneIsNoRecord
      <4>2. CASE p = Triple(e, s)
        BY <3>1, <4>1, <4>2
      <4>3. CASE p \in past
        <5>1. r # None /\ ((p.revision < r.revision /\ p \in versions) \/ p = Triple(e, r))
          BY <2>1, <2>5, <3>1, <4>1, <4>3 DEF Undisturbed
        <5>2. Triple(e, r) \in versions /\ s.revision = r.revision + 1
          BY <1>0, <1>1, <1>2, <2>1, <2>5, <3>1, <5>1 DEF Undisturbed
        <5>3. p.revision \in Nat /\ r.revision \in Nat
          BY <1>1, <1>5, <2>5, <5>1
        <5>4. p \in versions /\ p.revision <= r.revision
          <6>1. p = Triple(e, r) => p.revision = r.revision /\ p \in versions
            BY <5>2 DEF Triple
          <6> QED BY <5>1, <5>3, <6>1
        <5> QED BY <3>1, <4>1, <5>2, <5>3, <5>4
      <4> QED BY <1>5, <2>5, <4>2, <4>3
    <3>2. CASE p.entity # e
      <4>1. p \in past
        BY <1>5, <2>5, <3>2 DEF Triple
      <4>2. current'[p.entity] = current[p.entity]
        BY <1>5, <2>5, <3>2, Sets
      <4> QED BY <2>1, <2>5, <4>1, <4>2 DEF Undisturbed
    <3> QED BY <3>1, <3>2
  <2>6. \A d, f \in Calls : Upserting(d)' /\ Upserting(f)' /\ d # f => job'[d].entity # job'[f].entity
    BY <1>8, <2>1 DEF Undisturbed
  <2> QED BY <1>3, <2>4, <2>5, <2>6 DEF Undisturbed, Triple
<1> QED BY <1>3, <1>6, <1>7, <1>9, <1>11, <1>12, <1>13 DEF OrgInv
-----------------------------------------------------------------------------
LEMMA StoreDecisionKeeps ==
  ASSUME OrgInv, NEW c \in Calls, StoreDecision(c)
  PROVE  OrgInv'
<1>0. PICK e, s : e = job[c].entity /\ s = [revision |-> 1, content |-> job[c].content]
  OBVIOUS
<1>1. /\ job[c].step = "decision" /\ e \in Decisions /\ e \in Ids /\ e \notin Entities
      /\ s \in Records /\ s.content \in ContentOf(e)
  <2>1. job[c].step = "decision" /\ e \in Decisions /\ job[c].content \in Verdict
    BY <1>0 DEF StoreDecision, OrgInv, JobsFit, JobFits
  <2> QED BY <1>0, <2>1, Sets, ContentTypes DEF Records, Contents
<1>2. UNCHANGED <<versions, feedback, overlapped>> /\ Put(e, s)
      /\ journal' = IF current[e] = None THEN Append(journal, e) ELSE journal
  BY <1>0 DEF StoreDecision
<1>3. /\ job' \in [Calls -> Jobs] /\ \A d \in Calls \ {c} : job'[d] = job[d]
      /\ job'[c].step \in {"ended", "links"}
  BY WrittenFacts DEF StoreDecision, OrgInv, Steps
<1>4. /\ current' \in [Ids -> Records \cup {None}]
      /\ \A d \in Ids : current'[d] # None => current'[d].content \in ContentOf(d)
      /\ \A d \in Ids \ {e} : current'[d] = current[d]
      /\ past \subseteq past' /\ past' \subseteq past \cup {Triple(e, s)}
      /\ past' \subseteq [entity : Ids, revision : Nat \ {0}, content : Contents]
      /\ \A d \in Ids : current'[d] # None => Triple(d, current'[d]) \in past'
      /\ current'[e] # None
  BY <1>1, <1>2, PutFacts, NoneIsNoRecord DEF OrgInv
<1>5. \A f \in Entities : f \in Ids /\ f # e /\ current'[f] = current[f]
  BY <1>1, <1>4, Sets
<1>6. OrgTypes'
  BY <1>2, <1>3, <1>4 DEF OrgInv, OrgTypes, ContentOf, Triple
<1>7. JobsFit'
  <2>1. \A d \in Calls \ {c} : JobFits(job[d])'
    BY <1>3, <1>4, PastGrows DEF OrgInv, JobsFit, JobFits
  <2> QED BY <1>3, <2>1 DEF JobsFit, JobFits
<1>8. \A d \in Calls : Upserting(d)' => d # c /\ Upserting(d) /\ job'[d] = job[d]
  BY <1>3 DEF Upserting
<1>9. HistoryIsTold'
  <2>1. \A f, n : Told(f, n)' <=> Told(f, n)
    BY <1>2 DEF Told
  <2> QED BY <1>5, <1>8, <2>1 DEF OrgInv, HistoryIsTold, Entities
<1>10. FeedbackFits'
  <2>1. \A x : InPast(x) => InPast(x)'
    BY <1>4, PastGrows
  <2>2. \A d \in Calls : job'[d].step \in {"applied", "recorded"} => job'[d] = job[d]
    BY <1>3
  <2>3. /\ feedback' = feedback /\ overlapped' = overlapped
        /\ \A d \in Calls : job[d].step \in {"applied", "recorded"}
             => job[d].content = None \/ overlapped \/ InPast(job[d].content)
        /\ \A f \in feedback : f.days = None \/ overlapped \/ InPast(f.days)
    BY <1>2 DEF OrgInv, FeedbackFits
  <2>4. ASSUME NEW d \in Calls, job'[d].step \in {"applied", "recorded"}
        PROVE  \/ job'[d].content = None \/ overlapped'
               \/ \E p \in past' : p.entity = Warranty /\ p.content = job'[d].content
    <3>1. job[d].content = None \/ overlapped \/ InPast(job[d].content)
      BY <2>2, <2>3, <2>4
    <3>2. job'[d] = job[d] /\ (InPast(job[d].content) =>
            \E p \in past' : p.entity = Warranty /\ p.content = job[d].content)
      BY <2>1, <2>2, <2>4 DEF InPast
    <3> QED BY <2>3, <3>1, <3>2
  <2>5. \A f \in feedback' : \/ f.days = None \/ overlapped'
                              \/ \E p \in past' : p.entity = Warranty /\ p.content = f.days
    BY <2>1, <2>3 DEF InPast
  <2> QED BY <2>4, <2>5 DEF FeedbackFits, InPast
<1>11. JournalFits'
  <2>1. CASE current[e] = None
    <3>1. journal' = Append(journal, e) /\ journal \in Seq(Decisions)
      BY <1>2, <2>1 DEF OrgInv, JournalFits
    <3>2. /\ journal' \in Seq(Decisions)
          /\ DOMAIN journal = 1 .. Len(journal) /\ DOMAIN journal' = 1 .. Len(journal) + 1
          /\ \A i \in 1 .. Len(journal) : journal'[i] = journal[i]
          /\ journal'[Len(journal) + 1] = e /\ Len(journal) \in Nat
      BY <1>1, <3>1
    <3>3. \A d \in Decisions : (\E i \in DOMAIN journal' : journal'[i] = d)
                               <=> d = e \/ \E i \in DOMAIN journal : journal[i] = d
      BY <3>2
    <3> QED BY <1>4, <3>2, <3>3, Sets DEF OrgInv, JournalFits
  <2>2. CASE current[e] # None
    <3>1. journal' = journal
      BY <1>2, <2>2
    <3> QED BY <1>4, <2>2, <3>1, Sets DEF OrgInv, JournalFits
  <2> QED BY <2>1, <2>2
<1>12. RulesExist'
  BY <1>5 DEF OrgInv, RulesExist
<1>13. ASSUME ~overlapped PROVE Undisturbed'
  <2>1. Undisturbed
    BY <1>13 DEF OrgInv
  <2>2. \A d \in Calls : Upserting(d)' => job[d].entity \in Entities
    BY <1>8 DEF OrgInv, JobsFit, JobFits, Upserting
  <2>3. \A d \in Calls : Upserting(d)' =>
          /\ job'[d].found = current'[job'[d].entity]
          /\ job'[d].step = "entity" /\ job'[d].entity \in Policies /\ job'[d].found # None
               => Triple(job'[d].entity, job'[d].found) \in versions'
    BY <1>2, <1>5, <1>8, <2>1, <2>2 DEF Undisturbed
  <2>4. \A p \in past' : p.entity \in Policies =>
          /\ current'[p.entity] # None
          /\ \/ p.revision < current'[p.entity].revision /\ p \in versions
             \/ p = Triple(p.entity, current'[p.entity])
    <3> SUFFICES ASSUME NEW p \in past', p.entity \in Policies
                 PROVE  /\ current'[p.entity] # None
                        /\ \/ p.revision < current'[p.entity].revision /\ p \in versions
                           \/ p = Triple(p.entity, current'[p.entity])
      OBVIOUS
    <3>1. p.entity \in Entities
      BY DEF Entities
    <3>2. p \in past
      BY <1>4, <1>5, <3>1 DEF Triple
    <3> QED BY <1>5, <2>1, <3>1, <3>2 DEF Undisturbed
  <2>5. \A d, f \in Calls : Upserting(d)' /\ Upserting(f)' /\ d # f => job'[d].entity # job'[f].entity
    BY <1>8, <2>1 DEF Undisturbed
  <2> QED BY <1>2, <2>3, <2>4, <2>5 DEF Undisturbed, Triple
<1> QED BY <1>2, <1>6, <1>7, <1>9, <1>10, <1>11, <1>12, <1>13 DEF OrgInv

LEMMA OrgStepKeeps ==
  ASSUME OrgInv, OrgNext
  PROVE  OrgInv'
<1>1. PICK c \in Calls :
        \/ Upsert(c) \/ StoreVersion(c) \/ StoreEntity(c) \/ ContentRefused(c)
        \/ Correct(c) \/ ApplyCorrection(c) \/ StoreFeedback(c)
        \/ Decide(c) \/ StoreDecision(c) \/ LinkDecision(c) \/ LinkToUnknown(c)
        \/ WriteRefused(c)
  BY DEF OrgNext
<1>2. CASE Upsert(c)
  <2>1. PICK e \in Entities : \E x \in ContentOf(e) \cup {Malformed} : ReadForUpsert(c, e, x, FALSE)
    BY <1>2 DEF Upsert
  <2>2. PICK x \in ContentOf(e) \cup {Malformed} : ReadForUpsert(c, e, x, FALSE)
    BY <2>1
  <2>3. ~Upserting(c)
    BY <1>2 DEF Upsert, Upserting
  <2> QED BY <2>2, <2>3, ReadKeeps
<1>3. CASE ApplyCorrection(c)
  <2>1. ~Upserting(c) /\ job[c].content \in Value
    BY <1>3 DEF ApplyCorrection, Upserting, OrgInv, JobsFit, JobFits
  <2> QED BY <1>3, <2>1, Sets, ContentTypes, ReadKeeps DEF ApplyCorrection, Entities
<1>4. CASE ContentRefused(c) \/ LinkToUnknown(c) \/ WriteRefused(c)
  BY <1>4, EndKeeps DEF ContentRefused, LinkToUnknown, WriteRefused
<1> QED BY <1>1, <1>2, <1>3, <1>4, StoreVersionKeeps, StoreEntityKeeps, CorrectKeeps,
           StoreFeedbackKeeps, DecideKeeps, StoreDecisionKeeps, LinkDecisionKeeps

(* The steps of requests change none of what OrgInv is about.              *)
LEMMA OrgStutters ==
  ASSUME OrgInv, UNCHANGED <<current, versions, journal, feedback, job, past, overlapped>>
  PROVE  OrgInv'
<1>1. \A f, n : Told(f, n)' <=> Told(f, n)
  BY DEF Told
<1>2. \A d \in Calls : Upserting(d)' <=> Upserting(d)
  BY DEF Upserting
<1>3. OrgTypes' /\ RulesExist' /\ JournalFits'
  BY DEF OrgInv, OrgTypes, RulesExist, JournalFits, ContentOf, Triple
<1>4. JobsFit' /\ FeedbackFits'
  BY DEF OrgInv, JobsFit, JobFits, FeedbackFits, InPast, Triple
<1>5. HistoryIsTold'
  BY <1>1, <1>2 DEF OrgInv, HistoryIsTold
<1>6. ~overlapped => Undisturbed'
  BY <1>2 DEF OrgInv, Undisturbed, Triple
<1> QED BY <1>3, <1>4, <1>5, <1>6 DEF OrgInv
-----------------------------------------------------------------------------
(* The first of the greatest values of a sequence of numbers.              *)
LEMMA FirstGreatest ==
  ASSUME NEW n \in Nat \ {0}, NEW f, \A i \in 1 .. n : f[i] \in Nat
  PROVE  \E i \in 1 .. n : /\ \A k \in 1 .. n : f[k] <= f[i]
                           /\ \A k \in 1 .. i - 1 : f[k] < f[i]
<1> DEFINE Greatest(i, m) == \A k \in 1 .. m : f[k] <= f[i]
           S == {m \in 1 .. n : \A i \in 1 .. m : ~Greatest(i, m)}
           T == {i \in 1 .. n : Greatest(i, n)}
<1>1. S = {}
  <2> SUFFICES ASSUME S # {} PROVE FALSE
    OBVIOUS
  <2>1. S \subseteq Nat
    OBVIOUS
  <2>2. PICK x \in S : \A y \in S : ~(<<y, x>> \in OpToRel(<, Nat))
    BY <2>1, NatLessThanWellFounded, WFMin, Zenon
  <2>3. \A y \in S : ~(y < x)
    BY <2>1, <2>2 DEF OpToRel
  <2>4. x \in 1 .. n /\ \A i \in 1 .. x : ~Greatest(i, x)
    OBVIOUS
  <2>5. x # 1
    <3>1. Greatest(1, 1)
      OBVIOUS
    <3> QED BY <2>4, <3>1
  <2>6. x - 1 \in 1 .. n /\ x - 1 \notin S
    <3>1. x - 1 \in 1 .. n /\ x - 1 < x
      BY <2>4, <2>5
    <3> HIDE DEF S
    <3> QED BY <2>3, <3>1
  <2>7. PICK i \in 1 .. x - 1 : Greatest(i, x - 1)
    BY <2>6
  <2>8. \A k \in 1 .. x : k \in 1 .. x - 1 \/ k = x
    BY <2>4
  <2>9. i \in 1 .. x /\ x \in 1 .. x /\ f[i] \in Nat /\ f[x] \in Nat
    BY <2>4, <2>7
  <2>10. CASE f[x] <= f[i]
    BY <2>4, <2>7, <2>8, <2>9, <2>10
  <2>11. CASE f[i] < f[x]
    <3>1. \A k \in 1 .. x - 1 : f[k] \in Nat /\ f[k] <= f[i]
      BY <2>4, <2>7
    <3>2. \A k \in 1 .. x - 1 : f[k] <= f[x]
      <4> SUFFICES ASSUME NEW k \in 1 .. x - 1 PROVE f[k] <= f[x]
        OBVIOUS
      <4>1. f[k] \in Nat /\ f[i] \in Nat /\ f[x] \in Nat /\ f[k] <= f[i] /\ f[i] < f[x]
        BY <2>9, <2>11, <3>1
      <4> QED BY <4>1
    <3>3. Greatest(x, x)
      <4>1. f[x] <= f[x]
        BY <2>9
      <4> QED BY <2>8, <3>2, <4>1
    <3> QED BY <2>4, <2>9, <3>3
  <2> QED BY <2>9, <2>10, <2>11
<1>2. T # {} /\ T \subseteq Nat
  BY <1>1
<1>3. PICK x \in T : \A y \in T : ~(<<y, x>> \in OpToRel(<, Nat))
  BY <1>2, NatLessThanWellFounded, WFMin, Zenon
<1>4. \A y \in T : ~(y < x)
  BY <1>2, <1>3 DEF OpToRel
<1>5. x \in 1 .. n /\ Greatest(x, n)
  OBVIOUS
<1>6. \A k \in 1 .. x - 1 : f[k] < f[x]
  <2> SUFFICES ASSUME NEW k \in 1 .. x - 1, ~(f[k] < f[x]) PROVE FALSE
    OBVIOUS
  <2>1. k \in 1 .. n /\ k < x /\ f[k] \in Nat /\ f[x] \in Nat
    BY <1>5
  <2>2. f[k] = f[x]
    BY <1>5, <2>1
  <2>3. Greatest(k, n)
    BY <1>5, <2>2
  <2> QED BY <1>4, <2>1, <2>3
<1> QED BY <1>5, <1>6

(* resolveDecisionsForClient puts a decision in front that is there and    *)
(* that none is later than.                                                *)
LEMMA LatestIsLast ==
  ASSUME OrgInv, journal # <<>>
  PROVE  /\ Latest \in Decisions /\ current[Latest] # None
         /\ \A d \in Decisions : current[d] # None => current[d].content.at <= current[Latest].content.at
<1> DEFINE n == Len(journal)
           f == [i \in 1 .. n |-> current[journal[i]].content.at]
<1>1. /\ journal \in Seq(Decisions) /\ DOMAIN journal = 1 .. n /\ n \in Nat \ {0}
      /\ \A i \in 1 .. n : journal[i] \in Decisions
  BY DEF OrgInv, JournalFits
<1>2. \A i \in 1 .. n : current[journal[i]] # None
  BY <1>1 DEF OrgInv, JournalFits
<1>3. \A i \in 1 .. n : current[journal[i]].content \in Verdict
  BY <1>1, <1>2, Sets, ContentTypes DEF OrgInv, OrgTypes
<1>4. \A i \in 1 .. n : f[i] \in Nat
  BY <1>3, NumbersAssumption DEF Verdict
<1> HIDE DEF n
<1>5. \E i \in 1 .. n : /\ \A k \in 1 .. n : f[k] <= f[i]
                        /\ \A k \in 1 .. i - 1 : f[k] < f[i]
  <2> HIDE DEF f
  <2>1. n \in Nat \ {0}
    BY <1>1
  <2> QED BY <2>1, <1>4, FirstGreatest
<1> DEFINE At(i) == current[journal[i]].content.at
           Last(i) == /\ \A k \in DOMAIN journal : At(k) <= At(i)
                      /\ \A k \in 1 .. i - 1 : At(k) < At(i)
<1>6. \E i \in DOMAIN journal : Last(i)
  <2>1. PICK i \in 1 .. n : /\ \A k \in 1 .. n : f[k] <= f[i]
                            /\ \A k \in 1 .. i - 1 : f[k] < f[i]
    BY <1>5
  <2>2. \A k \in 1 .. n : f[k] = At(k)
    OBVIOUS
  <2>3. \A k \in 1 .. i - 1 : k \in 1 .. n
    BY <1>1, <2>1
  <2> QED BY <1>1, <2>1, <2>2, <2>3
<1>7. PICK l \in DOMAIN journal : Last(l) /\ Latest = journal[l]
  <2>1. Latest = journal[CHOOSE k \in DOMAIN journal : Last(k)]
    BY DEF Latest
  <2>2. PICK j : j \in DOMAIN journal /\ Last(j)
    BY <1>6
  <2>3. (CHOOSE k \in DOMAIN journal : Last(k)) \in DOMAIN journal
        /\ Last(CHOOSE k \in DOMAIN journal : Last(k))
    <3> HIDE DEF Last
    <3> QED BY <2>2
  <2> QED BY <2>1, <2>3
<1>8. \A d \in Decisions : current[d] # None => \E i \in DOMAIN journal : journal[i] = d
  BY DEF OrgInv, JournalFits
<1> QED BY <1>1, <1>2, <1>7, <1>8
-----------------------------------------------------------------------------
(* The requests.  What is said of one of them is a formula of the request, *)
(* so that a step of another one can be seen to leave it alone.            *)
Stages == {"new", "rule", "decision", "allowed", "blocked", "acted", "persisted", "answered", "failed"}

GovTypes ==
  /\ stage \in [Requests -> Stages]
  /\ asked \in [Requests -> Nat]
  /\ role \in [Requests -> Roles \cup {None}]
  /\ DOMAIN begun = Requests /\ DOMAIN quiet = Requests

(* How far the closure of a request has come at each of its stages.        *)
ResultsOf(r) == {x \in results : x.request = r}
ClosureFits(r) ==
  /\ stage[r] \in {"new", "rule", "decision", "allowed", "blocked"} => r \notin actions /\ ResultsOf(r) = {}
  /\ stage[r] = "acted" => r \in actions /\ ResultsOf(r) = {}
  /\ stage[r] = "persisted" => ResultsOf(r) # {}
  /\ stage[r] = "answered" => r \in events
  /\ r \in events => ResultsOf(r) # {}
  /\ \A x \in ResultsOf(r) : x = [request |-> r, executed |-> r \in actions]

(* The authority that a request has had so far.                            *)
Covered(p) ==
  \/ \E l \in past : l.entity = Discounts /\ p <= l.content.value
  \/ \E d, q \in past : d.entity \in Decisions /\ q.entity = Rule /\ IsApproval(d.content, p, q.content.role)
AuthorityFits(r) ==
  /\ stage[r] = "decision" => \E q \in past : q.entity = Rule /\ q.content.role = role[r]
  /\ stage[r] = "allowed" \/ r \in actions => Covered(asked[r])

(* What the records as they were call for, and what a request that nothing *)
(* disturbed has made of it.                                               *)
Within(org, p) == p <= org[Discounts].content.value
Right(org, p) == Within(org, p) \/ \E x \in LastWords(org) : IsApproval(x, p, org[Rule].content.role)
Wrong(org, p) ==
  ~Within(org, p) /\ (LastWords(org) = {} \/ \E x \in LastWords(org) : ~IsApproval(x, p, org[Rule].content.role))
VerdictFits(r) ==
  /\ stage[r] = "new" => begun[r] = None
  /\ quiet[r] /\ begun[r] # None =>
       /\ stage[r] \in {"rule", "decision"} => begun[r] = current /\ ~Within(begun[r], asked[r])
       /\ stage[r] = "decision" => role[r] = begun[r][Rule].content.role
       /\ stage[r] = "allowed" \/ r \in actions => Right(begun[r], asked[r])
       /\ stage[r] = "blocked" \/ [request |-> r, executed |-> FALSE] \in results => Wrong(begun[r], asked[r])

RequestFits(r) == ClosureFits(r) /\ AuthorityFits(r) /\ VerdictFits(r)

GovInv ==
  /\ OrgInv
  /\ GovTypes
  /\ events \subseteq Requests /\ actions \subseteq Requests
  /\ \A x \in results : x.request \in Requests
  /\ \A r \in Requests : RequestFits(r)

LEMMA GovInitially == Init => GovInv
<1> SUFFICES ASSUME Init PROVE GovInv
  OBVIOUS
<1>1. OrgInv
  BY OrgInitially DEF Init
<1> QED BY <1>1 DEF Init, GovInv, GovTypes, Stages, RequestFits, ClosureFits, AuthorityFits,
           VerdictFits, ResultsOf

(* A step of one request is none of another's: with the records, their     *)
(* past and what belongs to r unchanged, what is said of r still holds.    *)
LEMMA OthersStay ==
  ASSUME NEW r \in Requests, RequestFits(r),
         UNCHANGED <<current, past>>,
         stage'[r] = stage[r], asked'[r] = asked[r], role'[r] = role[r],
         begun'[r] = begun[r], quiet'[r] = quiet[r],
         r \in actions' <=> r \in actions, r \in events' <=> r \in events,
         ResultsOf(r)' = ResultsOf(r)
  PROVE  RequestFits(r)'
<1>1. ClosureFits(r)'
  BY DEF RequestFits, ClosureFits
<1>2. AuthorityFits(r)'
  BY DEF RequestFits, AuthorityFits, Covered
<1>3. [request |-> r, executed |-> FALSE] \in results' <=> [request |-> r, executed |-> FALSE] \in results
  <2>1. \A y : [request |-> r, executed |-> y].request = r
    OBVIOUS
  <2> QED BY <2>1 DEF ResultsOf
<1>4. VerdictFits(r)'
  <2>1. \A org, p : /\ Within(org, p)' <=> Within(org, p)
                    /\ Right(org, p)' <=> Right(org, p)
                    /\ Wrong(org, p)' <=> Wrong(org, p)
    BY DEF Within, Right, Wrong, LastWords
  <2>2. /\ stage[r] = "new" => begun[r] = None
        /\ begun'[r] = begun[r] /\ stage'[r] = stage[r]
    BY DEF RequestFits, VerdictFits
  <2>3. quiet[r] /\ begun[r] # None =>
          /\ stage[r] \in {"rule", "decision"} => begun[r] = current /\ ~Within(begun[r], asked[r])
          /\ stage[r] = "decision" => role[r] = begun[r][Rule].content.role
          /\ stage[r] = "allowed" \/ r \in actions => Right(begun[r], asked[r])
          /\ stage[r] = "blocked" \/ [request |-> r, executed |-> FALSE] \in results =>
               Wrong(begun[r], asked[r])
    BY DEF RequestFits, VerdictFits
  <2> QED BY <1>3, <2>1, <2>2, <2>3 DEF VerdictFits
<1> QED BY <1>1, <1>2, <1>4 DEF RequestFits

LEMMA EvaluateKeeps ==
  ASSUME GovInv, NEW r \in Requests, Evaluate(r)
  PROVE  GovInv'
<1>1. PICK p \in Numbers : /\ asked' = [asked EXCEPT ![r] = p]
                           /\ stage' = [stage EXCEPT ![r] = IF Autonomous(p) THEN "allowed" ELSE "rule"]
  BY DEF Evaluate, Move
<1>2. /\ stage[r] = "new" /\ begun' = [begun EXCEPT ![r] = current]
      /\ UNCHANGED <<role, actions, results, events, quiet, orgVars>>
  BY DEF Evaluate
<1>3. OrgInv'
  BY <1>2, OrgStutters DEF orgVars, GovInv
<1>4. /\ stage'[r] = (IF Autonomous(p) THEN "allowed" ELSE "rule") /\ asked'[r] = p /\ begun'[r] = current
      /\ \A q \in Requests \ {r} : stage'[q] = stage[q] /\ asked'[q] = asked[q] /\ begun'[q] = begun[q]
      /\ GovTypes'
  BY <1>1, <1>2, NumbersAssumption DEF GovInv, GovTypes, Stages
<1>5. \A q \in Requests \ {r} : RequestFits(q)'
  BY <1>2, <1>4, OthersStay DEF orgVars, GovInv, ResultsOf
<1>6. ClosureFits(r)'
  BY <1>2, <1>4 DEF GovInv, RequestFits, ClosureFits, ResultsOf
<1>7. AuthorityFits(r)'
  <2>1. r \notin actions
    BY <1>2 DEF GovInv, RequestFits, ClosureFits
  <2>2. Autonomous(p) => Covered(p)
    <3>1. Triple(Discounts, current[Discounts]) \in past
      BY Sets DEF GovInv, OrgInv, OrgTypes, RulesExist, Entities
    <3> QED BY <3>1 DEF Autonomous, Covered, Triple
  <2> QED BY <1>2, <1>4, <2>1, <2>2 DEF AuthorityFits, Covered, orgVars
<1>8. VerdictFits(r)'
  <2>1. r \notin actions /\ ResultsOf(r) = {}
    BY <1>2 DEF GovInv, RequestFits, ClosureFits
  <2>2. [request |-> r, executed |-> FALSE] \notin results
    <3>1. [request |-> r, executed |-> FALSE].request = r
      OBVIOUS
    <3> QED BY <2>1, <3>1 DEF ResultsOf
  <2> QED BY <1>2, <1>4, <2>1, <2>2 DEF VerdictFits, Autonomous, Within, Right, LastWords, orgVars
<1> QED BY <1>2, <1>3, <1>4, <1>5, <1>6, <1>7, <1>8 DEF GovInv, RequestFits

LEMMA ReadRuleKeeps ==
  ASSUME GovInv, NEW r \in Requests, ReadRule(r)
  PROVE  GovInv'
<1>1. /\ stage[r] = "rule" /\ role' = [role EXCEPT ![r] = current[Rule].content.role]
      /\ stage' = [stage EXCEPT ![r] = "decision"]
      /\ UNCHANGED <<asked, actions, results, events, begun, quiet, orgVars>>
  BY DEF ReadRule, Move
<1>2. OrgInv'
  BY <1>1, OrgStutters DEF orgVars, GovInv
<1>3. Triple(Rule, current[Rule]) \in past /\ current[Rule].content.role \in Roles
  <2>1. Rule \in Ids /\ current[Rule] # None
    BY Sets, EntitiesAssumption DEF GovInv, OrgInv, RulesExist
  <2>2. current[Rule].content \in Approver
    BY <2>1, ContentTypes DEF GovInv, OrgInv, OrgTypes
  <2> QED BY <2>1, <2>2 DEF GovInv, OrgInv, OrgTypes, Approver
<1>4. /\ stage'[r] = "decision" /\ role'[r] = current[Rule].content.role
      /\ \A q \in Requests \ {r} : stage'[q] = stage[q] /\ role'[q] = role[q]
      /\ GovTypes'
  BY <1>1, <1>3 DEF GovInv, GovTypes, Stages
<1>5. \A q \in Requests \ {r} : RequestFits(q)'
  BY <1>1, <1>4, OthersStay DEF orgVars, GovInv, ResultsOf
<1>6. ClosureFits(r)'
  BY <1>1, <1>4 DEF GovInv, RequestFits, ClosureFits, ResultsOf
<1>7. AuthorityFits(r)'
  <2>1. r \notin actions
    BY <1>1 DEF GovInv, RequestFits, ClosureFits
  <2> QED BY <1>1, <1>3, <1>4, <2>1 DEF AuthorityFits, Triple, orgVars
<1>8. VerdictFits(r)'
  <2>1. VerdictFits(r) /\ r \notin actions /\ ResultsOf(r) = {}
    BY <1>1 DEF GovInv, RequestFits, ClosureFits
  <2>2. [request |-> r, executed |-> FALSE] \notin results
    <3>1. [request |-> r, executed |-> FALSE].request = r
      OBVIOUS
    <3> QED BY <2>1, <3>1 DEF ResultsOf
  <2> QED BY <1>1, <1>4, <2>1, <2>2 DEF VerdictFits, Within, orgVars
<1> QED BY <1>1, <1>2, <1>4, <1>5, <1>6, <1>7, <1>8 DEF GovInv, RequestFits

LEMMA ReadDecisionKeeps ==
  ASSUME GovInv, NEW r \in Requests, ReadDecision(r)
  PROVE  GovInv'
<1> DEFINE x == current[Latest].content
           yes == journal # <<>> /\ Approves(x, asked[r], role[r])
<1>1. /\ stage[r] = "decision" /\ stage' = [stage EXCEPT ![r] = IF yes THEN "allowed" ELSE "blocked"]
      /\ UNCHANGED <<asked, role, actions, results, events, begun, quiet, orgVars>>
  BY DEF ReadDecision, Move
<1>2. OrgInv'
  BY <1>1, OrgStutters DEF orgVars, GovInv
<1>3. /\ stage'[r] = (IF yes THEN "allowed" ELSE "blocked")
      /\ \A q \in Requests \ {r} : stage'[q] = stage[q]
      /\ GovTypes'
  BY <1>1 DEF GovInv, GovTypes, Stages
<1>4. \A q \in Requests \ {r} : RequestFits(q)'
  BY <1>1, <1>3, OthersStay DEF orgVars, GovInv, ResultsOf
<1>5. ClosureFits(r)'
  BY <1>1, <1>3 DEF GovInv, RequestFits, ClosureFits, ResultsOf
<1>6. journal # <<>> => /\ Latest \in Decisions /\ current[Latest] # None
                        /\ Triple(Latest, current[Latest]) \in past
                        /\ x \in LastWords(current)
  <2> SUFFICES ASSUME journal # <<>>
               PROVE  /\ Latest \in Decisions /\ current[Latest] # None
                      /\ Triple(Latest, current[Latest]) \in past
                      /\ x \in LastWords(current)
    OBVIOUS
  <2>1. /\ Latest \in Decisions /\ current[Latest] # None
        /\ \A d \in Decisions : current[d] # None => current[d].content.at <= current[Latest].content.at
    BY LatestIsLast DEF GovInv
  <2>2. Triple(Latest, current[Latest]) \in past
    BY <2>1, Sets DEF GovInv, OrgInv, OrgTypes
  <2> HIDE DEF Latest
  <2> QED BY <2>1, <2>2 DEF LastWords
<1>7. journal = <<>> => LastWords(current) = {}
  BY DEF LastWords, GovInv, OrgInv, JournalFits
<1>8. \A p, needed : Approves(x, p, needed) <=> IsApproval(x, p, needed)
  BY DEF Approves, IsApproval
<1>9. r \notin actions /\ ResultsOf(r) = {}
  BY <1>1 DEF GovInv, RequestFits, ClosureFits
<1> HIDE DEF x
<1>10. AuthorityFits(r)'
  <2>1. PICK q \in past : q.entity = Rule /\ q.content.role = role[r]
    BY <1>1 DEF GovInv, RequestFits, AuthorityFits
  <2>2. ASSUME yes PROVE Covered(asked[r])
    <3>1. PICK d \in past : d.entity \in Decisions /\ d.content = x
      BY <1>6, <2>2 DEF Triple, x
    <3>2. IsApproval(d.content, asked[r], q.content.role)
      BY <1>8, <2>1, <2>2, <3>1
    <3> QED BY <2>1, <3>1, <3>2 DEF Covered
  <2> QED BY <1>1, <1>3, <1>9, <2>2 DEF AuthorityFits, Covered, orgVars
<1>11. VerdictFits(r)'
  <2>1. ASSUME quiet[r], begun[r] # None
        PROVE  IF yes THEN Right(begun[r], asked[r]) ELSE Wrong(begun[r], asked[r])
    <3>1. begun[r] = current /\ ~Within(begun[r], asked[r]) /\ role[r] = current[Rule].content.role
      BY <1>1, <2>1 DEF GovInv, RequestFits, VerdictFits
    <3> QED BY <1>6, <1>7, <1>8, <3>1 DEF Right, Wrong
  <2>2. [request |-> r, executed |-> FALSE] \notin results
    <3>1. [request |-> r, executed |-> FALSE].request = r
      OBVIOUS
    <3> QED BY <1>9, <3>1 DEF ResultsOf
  <2>3. /\ stage'[r] = "allowed" => yes
        /\ stage'[r] = "blocked" => ~yes
        /\ stage'[r] \notin {"new", "rule", "decision"}
    BY <1>3
  <2>4. quiet'[r] = quiet[r] /\ begun'[r] = begun[r] /\ asked'[r] = asked[r] /\ actions' = actions /\ results' = results
    BY <1>1
  <2>5. /\ Right(begun[r], asked[r])' <=> Right(begun[r], asked[r])
        /\ Wrong(begun[r], asked[r])' <=> Wrong(begun[r], asked[r])
    BY <2>4 DEF Right, Wrong, Within, LastWords
  <2> HIDE DEF yes
  <2> QED BY <1>9, <2>1, <2>2, <2>3, <2>4, <2>5 DEF VerdictFits
<1> QED BY <1>1, <1>2, <1>3, <1>4, <1>5, <1>10, <1>11 DEF GovInv, RequestFits

(* The steps after the verdict touch no record and no history.             *)
LEMMA ClosureKeeps ==
  ASSUME GovInv, NEW r \in Requests, NEW to \in Stages \ {"new", "rule", "decision", "allowed", "blocked"},
         stage' = [stage EXCEPT ![r] = to],
         UNCHANGED <<asked, role, begun, quiet>>,
         UNCHANGED <<current, versions, journal, feedback, job, past, overlapped>>,
         actions \subseteq actions', actions' \subseteq actions \cup {r}, r \in actions' => Covered(asked[r]),
         events \subseteq events', events' \subseteq events \cup {r},
         results \subseteq results', \A x \in results' \ results : x.request = r,
         ClosureFits(r)',
         quiet[r] /\ begun[r] # None =>
           /\ r \in actions' => Right(begun[r], asked[r])
           /\ [request |-> r, executed |-> FALSE] \in results' => Wrong(begun[r], asked[r])
  PROVE  GovInv'
<1>1. OrgInv'
  BY OrgStutters DEF GovInv
<1>2. /\ stage'[r] = to /\ \A q \in Requests \ {r} : stage'[q] = stage[q]
      /\ GovTypes'
  BY DEF GovInv, GovTypes
<1>3. \A q \in Requests \ {r} : RequestFits(q)'
  BY <1>2, OthersStay DEF GovInv, ResultsOf
<1>4. AuthorityFits(r)'
  BY <1>2 DEF AuthorityFits, Covered
<1>5. VerdictFits(r)'
  <2>1. /\ Right(begun[r], asked[r])' <=> Right(begun[r], asked[r])
        /\ Wrong(begun[r], asked[r])' <=> Wrong(begun[r], asked[r])
    BY DEF Right, Wrong, Within, LastWords
  <2>2. stage'[r] \notin {"new", "rule", "decision", "allowed", "blocked"}
    BY <1>2
  <2> QED BY <2>1, <2>2 DEF VerdictFits
<1> QED BY <1>1, <1>2, <1>3, <1>4, <1>5 DEF GovInv, RequestFits

LEMMA ActKeeps ==
  ASSUME GovInv, NEW r \in Requests, Act(r)
  PROVE  GovInv'
<1>1. PICK to \in {"acted", "failed"} : stage' = [stage EXCEPT ![r] = to]
  BY DEF Act, Move
<1>2. /\ stage[r] = "allowed" /\ actions' = actions \cup {r}
      /\ UNCHANGED <<asked, role, results, events, begun, quiet>>
      /\ UNCHANGED <<current, versions, journal, feedback, job, past, overlapped>>
  BY DEF Act
<1>3. stage'[r] = to
  BY <1>1 DEF GovInv, GovTypes
<1>4. RequestFits(r) /\ ResultsOf(r) = {} /\ r \notin events
  BY <1>2 DEF GovInv, RequestFits, ClosureFits
<1>5. ClosureFits(r)'
  BY <1>2, <1>3, <1>4 DEF ClosureFits, ResultsOf
<1>6. Covered(asked[r])
  BY <1>2, <1>4 DEF RequestFits, AuthorityFits
<1>7. quiet[r] /\ begun[r] # None =>
        /\ Right(begun[r], asked[r])
        /\ [request |-> r, executed |-> FALSE] \in results' => Wrong(begun[r], asked[r])
  BY <1>2, <1>4 DEF RequestFits, VerdictFits
<1> QED BY <1>1, <1>2, <1>5, <1>6, <1>7, ClosureKeeps DEF Stages

LEMMA PersistKeeps ==
  ASSUME GovInv, NEW r \in Requests, Persist(r)
  PROVE  GovInv'
<1>1. PICK to \in {"persisted", "failed"} : stage' = [stage EXCEPT ![r] = to]
  BY DEF Persist, Move
<1>2. /\ stage[r] \in {"acted", "blocked"}
      /\ results' = results \cup {[request |-> r, executed |-> stage[r] = "acted"]}
      /\ UNCHANGED <<asked, role, actions, events, begun, quiet>>
      /\ UNCHANGED <<current, versions, journal, feedback, job, past, overlapped>>
  BY DEF Persist, ResultOf
<1>3. stage'[r] = to
  BY <1>1 DEF GovInv, GovTypes
<1>4. RequestFits(r) /\ ResultsOf(r) = {} /\ (r \in actions <=> stage[r] = "acted")
  BY <1>2 DEF GovInv, RequestFits, ClosureFits
<1>5. ResultsOf(r)' = {[request |-> r, executed |-> stage[r] = "acted"]}
  BY <1>2, <1>4 DEF ResultsOf
<1>6. ClosureFits(r)'
  BY <1>2, <1>3, <1>4, <1>5 DEF ClosureFits
<1>7. r \in actions => Covered(asked[r])
  BY <1>4 DEF RequestFits, AuthorityFits
<1>8. quiet[r] /\ begun[r] # None =>
        /\ r \in actions => Right(begun[r], asked[r])
        /\ [request |-> r, executed |-> FALSE] \in results' => Wrong(begun[r], asked[r])
  <2>1. [request |-> r, executed |-> FALSE] \in results' => stage[r] = "blocked"
    <3>1. [request |-> r, executed |-> FALSE].request = r
          /\ [request |-> r, executed |-> FALSE] # [request |-> r, executed |-> TRUE]
      OBVIOUS
    <3>2. [request |-> r, executed |-> FALSE] \notin results
      BY <1>4, <3>1 DEF ResultsOf
    <3> QED BY <1>2, <3>1, <3>2
  <2> QED BY <1>4, <2>1 DEF RequestFits, VerdictFits
<1>9. results \subseteq results' /\ \A x \in results' \ results : x.request = r
  BY <1>2
<1>10. /\ UNCHANGED <<asked, role, begun, quiet, actions, events>>
       /\ UNCHANGED <<current, versions, journal, feedback, job, past, overlapped>>
  BY <1>2
<1>11. to \in Stages \ {"new", "rule", "decision", "allowed", "blocked"}
  BY DEF Stages
<1> QED BY <1>1, <1>6, <1>7, <1>8, <1>9, <1>10, <1>11, ClosureKeeps

LEMMA StoreRefusedKeeps ==
  ASSUME GovInv, NEW r \in Requests, StoreRefused(r)
  PROVE  GovInv'
<1>1. /\ stage[r] \in {"allowed", "acted", "blocked"} /\ stage' = [stage EXCEPT ![r] = "failed"]
      /\ UNCHANGED <<asked, role, actions, results, events, begun, quiet>>
      /\ UNCHANGED <<current, versions, journal, feedback, job, past, overlapped>>
  BY DEF StoreRefused, Move
<1>2. stage'[r] = "failed" /\ RequestFits(r)
  BY <1>1 DEF GovInv, GovTypes
<1>3. ClosureFits(r)'
  BY <1>1, <1>2 DEF RequestFits, ClosureFits, ResultsOf
<1>4. r \in actions => Covered(asked[r])
  BY <1>2 DEF RequestFits, AuthorityFits
<1>5. quiet[r] /\ begun[r] # None =>
        /\ r \in actions => Right(begun[r], asked[r])
        /\ [request |-> r, executed |-> FALSE] \in results => Wrong(begun[r], asked[r])
  BY <1>2 DEF RequestFits, VerdictFits
<1> QED BY <1>1, <1>3, <1>4, <1>5, ClosureKeeps DEF Stages

LEMMA PublishKeeps ==
  ASSUME GovInv, NEW r \in Requests, Publish(r)
  PROVE  GovInv'
<1>1. PICK to \in {"answered", "failed"} : stage' = [stage EXCEPT ![r] = to]
  BY DEF Publish, Move
<1>2. /\ stage[r] = "persisted" /\ events' = events \cup {r}
      /\ UNCHANGED <<asked, role, actions, results, begun, quiet, orgVars>>
  BY DEF Publish
<1>3. stage'[r] = to /\ RequestFits(r)
  BY <1>1 DEF GovInv, GovTypes
<1>4. ClosureFits(r)'
  BY <1>2, <1>3 DEF RequestFits, ClosureFits, ResultsOf
<1>5. r \in actions => Covered(asked[r])
  BY <1>3 DEF RequestFits, AuthorityFits
<1>6. quiet[r] /\ begun[r] # None =>
        /\ r \in actions => Right(begun[r], asked[r])
        /\ [request |-> r, executed |-> FALSE] \in results => Wrong(begun[r], asked[r])
  BY <1>3 DEF RequestFits, VerdictFits
<1> QED BY <1>1, <1>2, <1>4, <1>5, <1>6, ClosureKeeps DEF Stages, orgVars

(* The memory changes under the requests: what they have read stays in its *)
(* past, and those it disturbs are noted.                                  *)
LEMMA OrgStepGrows ==
  ASSUME OrgInv, OrgNext
  PROVE  past \subseteq past'
<1>1. PICK c \in Calls :
        \/ Upsert(c) \/ StoreVersion(c) \/ StoreEntity(c) \/ ContentRefused(c)
        \/ Correct(c) \/ ApplyCorrection(c) \/ StoreFeedback(c)
        \/ Decide(c) \/ StoreDecision(c) \/ LinkDecision(c) \/ LinkToUnknown(c)
        \/ WriteRefused(c)
  BY DEF OrgNext
<1>2. \A e, s : Put(e, s) => past \subseteq past'
  BY DEF Put
<1>3. StoreEntity(c) \/ StoreDecision(c) => past \subseteq past'
  BY <1>2 DEF StoreEntity, StoreDecision
<1>4. Upsert(c) \/ ApplyCorrection(c) => past' = past
  BY DEF Upsert, ApplyCorrection, ReadForUpsert
<1> QED BY <1>1, <1>3, <1>4 DEF StoreVersion, ContentRefused, Correct, StoreFeedback, Decide,
           LinkDecision, LinkToUnknown, WriteRefused

LEMMA OrgStepKeepsRequests ==
  ASSUME GovInv, OrgStep
  PROVE  GovInv'
<1>1. /\ OrgInv' /\ past \subseteq past'
      /\ UNCHANGED <<stage, asked, role, actions, results, events, begun>>
      /\ quiet' = [r \in Requests |-> quiet[r] /\ (Authorizing(r) => current' = current)]
  BY OrgStepKeeps, OrgStepGrows DEF OrgStep, GovInv
<1>2. ASSUME NEW r \in Requests PROVE RequestFits(r)'
  <2>1. RequestFits(r)
    BY DEF GovInv
  <2>2. ClosureFits(r)'
    BY <1>1, <2>1 DEF RequestFits, ClosureFits, ResultsOf
  <2>3. Covered(asked[r]) => Covered(asked[r])'
    BY <1>1 DEF Covered
  <2>4. AuthorityFits(r)'
    BY <1>1, <2>1, <2>3 DEF RequestFits, AuthorityFits
  <2>5. quiet'[r] => quiet[r] /\ (stage[r] \in {"rule", "decision"} => current' = current)
    BY <1>1 DEF Authorizing
  <2>6. VerdictFits(r)'
    BY <1>1, <2>1, <2>5 DEF RequestFits, VerdictFits, Right, Wrong, Within, LastWords
  <2> QED BY <2>2, <2>4, <2>6 DEF RequestFits
<1> QED BY <1>1, <1>2 DEF GovInv, GovTypes

LEMMA GovStepKeeps ==
  ASSUME GovInv, [Next]_vars
  PROVE  GovInv'
<1>1. CASE Next
  BY <1>1, OrgStepKeepsRequests, EvaluateKeeps, ReadRuleKeeps, ReadDecisionKeeps, ActKeeps,
     PersistKeeps, StoreRefusedKeeps, PublishKeeps DEF Next
<1>2. CASE UNCHANGED vars
  <2>1. OrgInv'
    BY <1>2, OrgStutters DEF GovInv, vars
  <2>2. \A r \in Requests : RequestFits(r)'
    BY <1>2, OthersStay DEF GovInv, vars, ResultsOf
  <2> QED BY <1>2, <2>1, <2>2 DEF GovInv, GovTypes, vars
<1> QED BY <1>1, <1>2

LEMMA GovAlways == Spec => []GovInv
BY GovInitially, GovStepKeeps, PTL DEF Spec
-----------------------------------------------------------------------------
(* upsertEntity: the history of a policy has each of its revisions, with a *)
(* content the policy had at it, whatever overlaps or fails.               *)
THEOREM HistoryIsComplete == Spec => []AuditTrail
<1>1. GovInv => AuditTrail
  <2> SUFFICES ASSUME GovInv, NEW e \in Policies, current[e] # None, NEW n \in 1 .. current[e].revision - 1
               PROVE  \E v \in versions :
                        /\ v.entity = e /\ v.revision = n
                        /\ [entity |-> e, revision |-> n, content |-> v.content] \in past
    BY DEF AuditTrail
  <2>1. PICK v \in versions : v.entity = e /\ v.revision = n
    BY DEF GovInv, OrgInv, HistoryIsTold, Told
  <2>2. v \in past /\ v \in [entity : Ids, revision : Nat \ {0}, content : Contents]
    BY DEF GovInv, OrgInv, OrgTypes
  <2>3. v = [entity |-> e, revision |-> n, content |-> v.content]
    BY <2>1, <2>2
  <2> QED BY <2>1, <2>2, <2>3
<1> QED BY <1>1, GovAlways, PTL

(* Calls on one policy one after the other lose nothing, at whichever of   *)
(* their writes they fail.                                                 *)
THEOREM NothingLostInTurn == Spec => []NothingReplacedIsLost
<1>1. GovInv => NothingReplacedIsLost
  BY DEF GovInv, OrgInv, Undisturbed, NothingReplacedIsLost, Triple
<1> QED BY <1>1, GovAlways, PTL

(* recordFeedbackCorrection: an answered correction is in the past of the  *)
(* policy.                                                                 *)
THEOREM FeedbackIsTrue == Spec => []FeedbackTellsTruth
<1>1. GovInv => FeedbackTellsTruth
  BY DEF GovInv, OrgInv, FeedbackFits, InPast, FeedbackTellsTruth
<1> QED BY <1>1, GovAlways, PTL

(* GovernanceModule.execute: an action was within a limit the policy has   *)
(* had or approved as the rule has asked, whatever changes meanwhile.      *)
THEOREM ActionsHaveAuthority == Spec => []NoActionWithoutAuthority
<1>1. GovInv => NoActionWithoutAuthority
  BY DEF GovInv, RequestFits, AuthorityFits, Covered, NoActionWithoutAuthority
<1> QED BY <1>1, GovAlways, PTL

(* The verdict on a request that nothing disturbed is the one that the     *)
(* records called for when it began.                                       *)
THEOREM VerdictIsRight == Spec => []VerdictMatchesRecords
<1>1. GovInv => VerdictMatchesRecords
  BY DEF GovInv, RequestFits, VerdictFits, Right, Wrong, Within, VerdictMatchesRecords
<1> QED BY <1>1, GovAlways, PTL

(* persistActionOperationalResult and bus.publish come in this order,      *)
(* whatever write fails and whichever handler throws.                      *)
THEOREM ClosureInOrder == Spec => []ClosureOrder
<1>1. GovInv => ClosureOrder
  <2> SUFFICES ASSUME GovInv PROVE ClosureOrder
    OBVIOUS
  <2>1. \A r \in events : \E x \in results : x.request = r
    BY DEF GovInv, RequestFits, ClosureFits, ResultsOf
  <2>2. \A x \in results : x.executed <=> x.request \in actions
    <3> SUFFICES ASSUME NEW x \in results PROVE x.executed <=> x.request \in actions
      OBVIOUS
    <3>1. PICK r \in Requests : r = x.request
      BY DEF GovInv
    <3>2. x = [request |-> r, executed |-> r \in actions]
      BY <3>1 DEF GovInv, RequestFits, ClosureFits, ResultsOf
    <3>3. x.executed = (r \in actions)
      BY <3>2, Zenon
    <3> QED BY <3>1, <3>3, Zenon
  <2>3. \A r \in Requests : stage[r] = "answered" => r \in events
    BY DEF GovInv, RequestFits, ClosureFits
  <2> QED BY <2>1, <2>2, <2>3 DEF ClosureOrder
<1> QED BY <1>1, GovAlways, PTL
=============================================================================
