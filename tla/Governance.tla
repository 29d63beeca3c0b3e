----------------------------- MODULE Governance -----------------------------
(***************************************************************************)
(* Governed actions over the organizational memory: GovernanceModule       *)
(* (packages/sdk) authorizes a discount from the current policy, its       *)
(* approval rule and the latest decision, executes it, stores the result   *)
(* and publishes an event, in this order, with an await between each; the  *)
(* calls of OrgMemory change what it reads meanwhile.                      *)
(*                                                                         *)
(* The event bus delivers synchronously: a handler that throws makes the   *)
(* request fail after everything was stored.                               *)
(***************************************************************************)
EXTENDS OrgMemory

CONSTANTS
  Requests,   \* calls of GovernanceModule.execute
  Discounts   \* the policy that limits discounts

ASSUME DiscountsAssumption == Discounts \in Policies \ {Warranty}

VARIABLES
  stage,     \* stage[r]: what request r does next
  asked,     \* asked[r]: the percentage it asks for
  role,      \* role[r]: the role whose approval it needs
  actions,   \* the requests whose action was stored
  results,   \* the operational results stored
  events,    \* the events published
  begun,     \* history: the records that were current when r began, or None
  quiet      \* history: nothing r reads has changed since it began

vars == <<current, versions, links, journal, feedback, job, faults, past, overlapped,
          stage, asked, role, actions, results, events, begun, quiet>>

Init ==
  /\ OrgInit
  /\ stage = [r \in Requests |-> "new"]
  /\ asked = [r \in Requests |-> 0]
  /\ role = [r \in Requests |-> None]
  /\ actions = {}
  /\ results = {}
  /\ events = {}
  /\ begun = [r \in Requests |-> None]
  /\ quiet = [r \in Requests |-> TRUE]

-----------------------------------------------------------------------------
\* Mutant: the decision recorded first.
Latest_First == journal[1]

\* resolveDecisionsForClient sorts by decidedAt and keeps the order of equals.
Latest ==
  LET At(i) == current[journal[i]].content.at
      latest == CHOOSE i \in DOMAIN journal :
                  /\ \A k \in DOMAIN journal : At(k) <= At(i)
                  /\ \A k \in 1 .. i - 1 : At(k) < At(i)
  IN  journal[latest]

\* Mutant: the approval of any percentage is good enough.
Approves_AnyPercent(x, p, needed) == x.approved /\ x.by = needed

\* What authorizeRecordApprovedDiscount asks of the latest decision.
Approves(x, p, needed) ==
  /\ x.approved
  /\ x.percent = p
  /\ x.by = needed

\* evaluateDiscountRequest
Autonomous(p) == p <= current[Discounts].content.value

Move(r, to) == stage' = [stage EXCEPT ![r] = to]

\* evaluateDiscountRequest: the client, its links and the policy.
Evaluate(r) ==
  /\ stage[r] = "new"
  /\ \E p \in Numbers :
       /\ asked' = [asked EXCEPT ![r] = p]
       /\ Move(r, IF Autonomous(p) THEN "allowed" ELSE "rule")
  /\ begun' = [begun EXCEPT ![r] = current]
  /\ UNCHANGED <<role, actions, results, events, quiet, orgVars>>

\* evaluateDiscountRequest: the approval rule.
ReadRule(r) ==
  /\ stage[r] = "rule"
  /\ role' = [role EXCEPT ![r] = current[Rule].content.role]
  /\ Move(r, "decision")
  /\ UNCHANGED <<asked, actions, results, events, begun, quiet, orgVars>>

\* authorizeRecordApprovedDiscount: the decision.
ReadDecision(r) ==
  /\ stage[r] = "decision"
  /\ Move(r, IF journal # <<>> /\ Approves(current[Latest].content, asked[r], role[r])
             THEN "allowed" ELSE "blocked")
  /\ UNCHANGED <<asked, role, actions, results, events, begun, quiet, orgVars>>

\* executeInternalAction
Act(r) ==
  /\ stage[r] = "allowed"
  /\ actions' = actions \cup {r}
  /\ \/ Move(r, "acted") /\ UNCHANGED faults
     \/ faults < MaxFaults /\ faults' = faults + 1 /\ Move(r, "failed")
  /\ UNCHANGED <<asked, role, results, events, begun, quiet>>
  /\ UNCHANGED <<current, versions, links, journal, feedback, job, past, overlapped>>

\* Mutant: the result says executed whatever the verdict was.
ResultOf_AlwaysExecuted(r) == [request |-> r, executed |-> TRUE]

\* buildExecutedOperationalResult, buildBlockedOperationalResult
ResultOf(r) == [request |-> r, executed |-> stage[r] = "acted"]

\* persistActionOperationalResult
Persist(r) ==
  /\ stage[r] \in {"acted", "blocked"}
  /\ results' = results \cup {ResultOf(r)}
  /\ \/ Move(r, "persisted") /\ UNCHANGED faults
     \/ faults < MaxFaults /\ faults' = faults + 1 /\ Move(r, "failed")
  /\ UNCHANGED <<asked, role, actions, events, begun, quiet>>
  /\ UNCHANGED <<current, versions, links, journal, feedback, job, past, overlapped>>

\* The engine is busy: the action or the result is not stored.
StoreRefused(r) ==
  /\ stage[r] \in {"allowed", "acted", "blocked"}
  /\ faults < MaxFaults
  /\ faults' = faults + 1
  /\ Move(r, "failed")
  /\ UNCHANGED <<asked, role, actions, results, events, begun, quiet>>
  /\ UNCHANGED <<current, versions, links, journal, feedback, job, past, overlapped>>

\* bus.publish: a handler may throw.
Publish(r) ==
  /\ stage[r] = "persisted"
  /\ events' = events \cup {r}
  /\ Move(r, "answered") \/ Move(r, "failed")
  /\ UNCHANGED <<asked, role, actions, results, begun, quiet, orgVars>>

Authorizing(r) == stage[r] \in {"rule", "decision"}

\* A step of OrgMemory, and whom it disturbs.
OrgStep ==
  /\ OrgNext
  /\ quiet' = [r \in Requests |-> quiet[r] /\ (Authorizing(r) => current' = current)]
  /\ UNCHANGED <<stage, asked, role, actions, results, events, begun>>

Next ==
  \/ OrgStep
  \/ \E r \in Requests :
       \/ Evaluate(r) \/ ReadRule(r) \/ ReadDecision(r)
       \/ Act(r) \/ Persist(r) \/ StoreRefused(r) \/ Publish(r)

Spec == Init /\ [][Next]_vars
-----------------------------------------------------------------------------
\* What the records must say for a decision to authorize a percentage.
IsApproval(x, p, needed) == x.approved /\ <<x.percent, x.by>> = <<p, needed>>

\* Whatever changes while a request is authorized, an action was covered by a
\* limit the policy has had, or by an approval of this very percentage by a
\* role that the rule has named.
NoActionWithoutAuthority ==
  \A r \in actions :
    \/ \E p \in past : p.entity = Discounts /\ asked[r] <= p.content.value
    \/ \E p, q \in past : p.entity \in Decisions /\ q.entity = Rule
                          /\ IsApproval(p.content, asked[r], q.content.role)

\* The decisions of the latest date among those recorded in org.
LastWords(org) ==
  {org[d].content : d \in {e \in Decisions : org[e] # None /\
     \A f \in Decisions : org[f] # None => org[f].content.at <= org[e].content.at}}

\* When nothing changed during its authorization, the verdict on a request is
\* the one its workspace's records call for: an executed one was within the
\* limit or approved by a decision none is later than, a blocked one was
\* neither within the limit nor approved by all such decisions.
VerdictMatchesRecords ==
  \A r \in Requests : quiet[r] /\ begun[r] # None =>
    LET within == asked[r] <= begun[r][Discounts].content.value
        approves(x) == IsApproval(x, asked[r], begun[r][Rule].content.role)
        words == LastWords(begun[r])
    IN  /\ r \in actions => within \/ \E x \in words : approves(x)
        /\ [request |-> r, executed |-> FALSE] \in results =>
             ~within /\ (words = {} \/ \E x \in words : ~approves(x))

\* The closure order of GovernanceModule: no event without its result, no
\* result that says executed without its action nor blocked with it, one
\* result for each request, and an answer only to a request that went all the
\* way, whatever write fails and whichever handler throws.
ClosureOrder ==
  /\ \A r \in events : \E x \in results : x.request = r
  /\ \A x \in results : x.executed <=> x.request \in actions
  /\ \A r \in Requests : stage[r] = "answered" => r \in events
=============================================================================
