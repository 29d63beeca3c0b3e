----------------------------- MODULE OrgMemory -----------------------------
(***************************************************************************)
(* The organizational memory of packages/sdk: policies with their audited  *)
(* versions, other entities, decisions and their links, and the feedback   *)
(* corrections that change the warranty policy.                            *)
(*                                                                         *)
(* Nothing is overwritten in the memory below: each write stores a record, *)
(* and readers keep of the records of one entity the one of the highest    *)
(* revision, then of the latest millisecond, then of the greatest random   *)
(* id.  The module keeps that record for each entity.  A few calls take     *)
(* less than a millisecond, so that of two records of one revision either  *)
(* may be the one that readers keep.                                       *)
(*                                                                         *)
(* A call is a sequence of reads and writes of the memory with an await    *)
(* between each; an action is what runs between two awaits.  Calls overlap *)
(* where a caller makes them overlap (Promise.all) or where a provider     *)
(* really waits.  A write fails when the engine is busy with another call  *)
(* (nothing is stored) or when the file cannot be written (the engine's    *)
(* map, which readers see, keeps the record: see MemoryEngine).            *)
(*                                                                         *)
(* Abstracted: one client, one subject of decisions, one policy code per   *)
(* policy.  The content of a policy is a value, of a rule a role.         *)
(***************************************************************************)
EXTENDS Naturals, Sequences

CONSTANTS
  Calls,       \* calls of upsertEntity, recordDecision, recordFeedbackCorrection
  Policies,    \* entities of a policy type, whose revisions are audited
  Warranty,    \* the policy that feedback corrects
  Rule,        \* the approval rule: an entity that is not audited
  Decisions,   \* ids of decisions
  Numbers,     \* contents of policies
  Roles,       \* contents of the rule, and who decides
  Dates,       \* values of decidedAt
  Malformed,   \* a content that fails its schema's assertion
  None,        \* no record
  MaxFaults    \* bound on the writes that fail

ASSUME NumbersAssumption == Numbers \subseteq Nat /\ Dates \subseteq Nat /\ MaxFaults \in Nat
ASSUME EntitiesAssumption ==
  Warranty \in Policies /\ Rule \notin Policies /\ Decisions \cap (Policies \cup {Rule}) = {}
ASSUME NoneAssumption == None \notin Roles /\ None # Malformed

Entities == Policies \cup {Rule}
Verdict == [approved : BOOLEAN, percent : Numbers, by : Roles, at : Dates]
Value == [value : Numbers]
Approver == [role : Roles]
ContentOf(e) ==
  IF e \in Policies THEN Value ELSE IF e = Rule THEN Approver ELSE Verdict
Ids == Entities \cup Decisions

ASSUME RecordAssumption == None \notin [revision : Nat, content : Value \cup Approver \cup Verdict]

VARIABLES
  current,   \* current[e]: the record readers resolve e to, or None
  versions,  \* the Version records that readers see
  links,     \* the decisions whose relationships were stored
  journal,   \* the decisions in the order in which they were first stored
  feedback,  \* the feedback records
  job,       \* job[c]: what call c does next, its arguments, what it has read
  faults,    \* writes that failed so far
  past,      \* history: every [entity, revision, content] that was current
  overlapped \* history: two calls have been at work on one policy

orgVars == <<current, versions, links, journal, feedback, job, faults, past, overlapped>>

\* A call about to take a step, on an entity with a content; what it has found
\* there; whether it is a correction.
Work(step, e, x, correction) ==
  [step |-> step, entity |-> e, content |-> x, found |-> None, correction |-> correction]
Idle(step) == Work(step, None, None, FALSE)

\* The workspace starts with a discount policy and its approval rule
\* (org/fixtures.ts); the warranty policy and the decisions are to come.
OrgInit ==
  /\ current \in [Ids -> {None} \cup [revision : {1}, content : Value \cup Approver]]
  /\ \A e \in Ids : IF e \in Entities \ {Warranty}
                    THEN current[e] # None /\ current[e].content \in ContentOf(e)
                    ELSE current[e] = None
  /\ versions = {}
  /\ links = {}
  /\ journal = <<>>
  /\ feedback = {}
  /\ job = [c \in Calls |-> Idle("new")]
  /\ faults = 0
  /\ past = {[entity |-> e, revision |-> 1, content |-> current[e].content] :
               e \in Entities \ {Warranty}}
  /\ overlapped = FALSE

-----------------------------------------------------------------------------
\* Mutant: the record stored first stays.
Replaces_First(new, old, tie) == old = None

\* shouldReplaceEntityRecord: of two records of one revision either may win.
Replaces(new, old, tie) ==
  \/ old = None
  \/ new.revision > old.revision
  \/ new.revision = old.revision /\ tie

\* storeContent of a record of entity e, and what readers resolve e to.
Put(e, r) ==
  \E tie \in BOOLEAN :
    IF Replaces(r, current[e], tie)
    THEN /\ current' = [current EXCEPT ![e] = r]
         /\ past' = past \cup {[entity |-> e, revision |-> r.revision, content |-> r.content]}
    ELSE UNCHANGED <<current, past>>

\* storeEntityVersion: the versions of one revision share one id.
PutVersion(e, n, x) ==
  LET same == {v \in versions : v.entity = e /\ v.revision = n}
  IN  \/ versions' = (versions \ same) \cup {[entity |-> e, revision |-> n, content |-> x]}
      \/ same # {} /\ UNCHANGED versions

Start(c, work) == job[c].step = "new" /\ job' = [job EXCEPT ![c] = work]
Go(c, to) == job' = [job EXCEPT ![c].step = to]
End(c) == job' = [job EXCEPT ![c] = Idle("ended")]

\* How a write ends: the call goes on, or the file could not be written and
\* the call fails while the engine's map keeps what was to be stored.
Written(c, to) ==
  \/ (IF to = "ended" THEN End(c) ELSE Go(c, to)) /\ UNCHANGED faults
  \/ faults < MaxFaults /\ faults' = faults + 1 /\ End(c)

\* The engine is busy: nothing is written, and the call fails.
WriteRefused(c) ==
  /\ job[c].step \in {"version", "entity", "decision", "links", "applied", "recorded"}
  /\ faults < MaxFaults
  /\ faults' = faults + 1
  /\ End(c)
  /\ UNCHANGED <<current, versions, links, journal, feedback, past, overlapped>>

-----------------------------------------------------------------------------
\* Mutant: the revision is not counted up.
Successor_SameRevision(e, found, x) == [revision |-> 1, content |-> x]

\* The record an upsert stores: policies count revisions, others do not.
Successor(e, found, x) ==
  [revision |-> IF found = None \/ e \notin Policies THEN 1 ELSE found.revision + 1, content |-> x]

\* Mutant: the entity is stored before its version.
AfterRead_EntityFirst(e, found) == "entity"

\* What an upsert does after it has read the entity.
AfterRead(e, found) == IF e \in Policies /\ found # None THEN "version" ELSE "entity"

Upserting(c) == job[c].step \in {"version", "entity"}

\* upsertEntity up to its first write.
ReadForUpsert(c, e, x, correction) ==
  /\ job' = [job EXCEPT ![c] = [Work(AfterRead(e, current[e]), e, x, correction) EXCEPT !.found = current[e]]]
  /\ overlapped' = (overlapped \/ \E d \in Calls \ {c} : Upserting(d) /\ job[d].entity = e)
  /\ UNCHANGED <<current, versions, links, journal, feedback, faults, past>>

Upsert(c) ==
  /\ job[c].step = "new"
  /\ \E e \in Entities : \E x \in ContentOf(e) \cup {Malformed} : ReadForUpsert(c, e, x, FALSE)

StoreVersion(c) ==
  /\ job[c].step = "version"
  /\ PutVersion(job[c].entity, job[c].found.revision, job[c].found.content)
  /\ Written(c, "entity")
  /\ UNCHANGED <<current, links, journal, feedback, past, overlapped>>

\* storeEntity asserts the schema of the content, after the version was stored.
StoreEntity(c) ==
  /\ job[c].step = "entity"
  /\ job[c].content # Malformed
  /\ Put(job[c].entity, Successor(job[c].entity, job[c].found, job[c].content))
  /\ Written(c, IF job[c].correction THEN "applied" ELSE "ended")
  /\ UNCHANGED <<versions, links, journal, feedback, overlapped>>

ContentRefused(c) ==
  /\ job[c].step = "entity"
  /\ job[c].content = Malformed
  /\ End(c)
  /\ UNCHANGED <<current, versions, links, journal, feedback, faults, past, overlapped>>

-----------------------------------------------------------------------------
\* recordFeedbackCorrection: x is the number of days the text asks for, or
\* None.  A correction to the current value changes nothing.
Correct(c) ==
  /\ \E x \in Value \cup {None} :
       LET same == current[Warranty] # None /\ current[Warranty].content = x
       IN  Start(c, Work(IF x = None \/ same THEN "recorded" ELSE "correcting", Warranty, x, TRUE))
  /\ UNCHANGED <<current, versions, links, journal, feedback, faults, past, overlapped>>

\* The upsert of the correction reads the policy again.
ApplyCorrection(c) ==
  /\ job[c].step = "correcting"
  /\ ReadForUpsert(c, Warranty, job[c].content, TRUE)

StoreFeedback(c) ==
  /\ job[c].step \in {"applied", "recorded"}
  /\ feedback' = feedback \cup {[call |-> c, days |-> job[c].content, applied |-> job[c].step = "applied"]}
  /\ Written(c, "ended")
  /\ UNCHANGED <<current, versions, links, journal, past, overlapped>>

-----------------------------------------------------------------------------
\* recordDecision checks the content before its first write.
Decide(c) ==
  /\ \E d \in Decisions, x \in Verdict : Start(c, Work("decision", d, x, FALSE))
  /\ UNCHANGED <<current, versions, links, journal, feedback, faults, past, overlapped>>

StoreDecision(c) ==
  /\ job[c].step = "decision"
  /\ LET d == job[c].entity
     IN  /\ Put(d, [revision |-> 1, content |-> job[c].content])
         /\ journal' = IF current[d] = None THEN Append(journal, d) ELSE journal
  /\ Written(c, "links")
  /\ UNCHANGED <<versions, links, feedback, overlapped>>

\* linkEntities, for the entity the decision resolves and the evidence it
\* cites: an unknown one ends the call, and the decision stays.
LinkDecision(c) ==
  /\ job[c].step = "links"
  /\ links' = links \cup {job[c].entity}
  /\ Written(c, "ended")
  /\ UNCHANGED <<current, versions, journal, feedback, past, overlapped>>

LinkToUnknown(c) ==
  /\ job[c].step = "links"
  /\ End(c)
  /\ UNCHANGED <<current, versions, links, journal, feedback, faults, past, overlapped>>

-----------------------------------------------------------------------------
OrgNext ==
  \E c \in Calls :
    \/ Upsert(c) \/ StoreVersion(c) \/ StoreEntity(c) \/ ContentRefused(c)
    \/ Correct(c) \/ ApplyCorrection(c) \/ StoreFeedback(c)
    \/ Decide(c) \/ StoreDecision(c) \/ LinkDecision(c) \/ LinkToUnknown(c)
    \/ WriteRefused(c)

OrgSpec == OrgInit /\ [][OrgNext]_orgVars

-----------------------------------------------------------------------------
\* History tells of every revision before the current one, with a content the
\* policy had at that revision, whatever overlaps or fails.
AuditTrail ==
  \A e \in Policies : current[e] # None =>
    \A n \in 1 .. current[e].revision - 1 :
      \E v \in versions :
        v.entity = e /\ v.revision = n /\ [entity |-> e, revision |-> n, content |-> v.content] \in past

\* Unless two calls were at work on one policy at a time, every content it
\* ever had is its current one or in its history ("La version anterior queda
\* en el historial auditado", org-llm-tools.ts), whatever fails in between.
NothingReplacedIsLost ==
  \/ overlapped
  \/ \A p \in past : p.entity \in Policies =>
       \/ current[p.entity].revision = p.revision /\ current[p.entity].content = p.content
       \/ p \in versions

\* A correction that was answered has its number of days in the policy's
\* past, applied or found there, unless another call was at work on the policy:
\* two calls that create it in one millisecond both succeed, and one is lost.
FeedbackTellsTruth ==
  \A f \in feedback : f.days = None \/ overlapped
                      \/ \E p \in past : p.entity = Warranty /\ p.content = f.days
=============================================================================
