--------------------------- MODULE StagedPipeline ---------------------------
(***************************************************************************)
(* What a pipeline promises to whoever runs its calls one at a time: a     *)
(* conveyor.  The stages run one by one, in the order of the definition    *)
(* and each of them once, and the verdict on the pipeline is given once.   *)
(***************************************************************************)
EXTENDS Naturals

CONSTANT NumStages

Stages == 1 .. NumStages

VARIABLES
  resolved,  \* the stages whose result is known
  running,   \* the stage whose handler is running, if any
  verdict    \* "open" until the pipeline has completed, failed or been cancelled

vars == <<resolved, running, verdict>>

Init ==
  /\ resolved = {}
  /\ running = {}
  /\ verdict = "open"

\* The one stage that may run once those of S are resolved.
Following(S) == {k \in Stages \ S : \A j \in 1 .. (k - 1) : j \in S}

Decide ==
  /\ verdict = "open"
  /\ \/ verdict' = "failed"
     \/ verdict' = "completed" /\ resolved' = Stages

Launch ==
  /\ running = {}
  /\ \E k \in Following(resolved) : running' = {k}
  /\ UNCHANGED <<resolved, verdict>>

Resolve ==
  /\ \E k \in running : resolved' = resolved \cup {k}
  /\ \/ \E k \in Following(resolved') : running' = {k} /\ UNCHANGED verdict
     \/ running' = {} /\ (Decide \/ UNCHANGED verdict)

\* Nothing is left to run, or the next stage is not there to be run.
Close ==
  /\ running = {}
  /\ Decide
  /\ UNCHANGED <<resolved, running>>

Cancel ==
  /\ verdict = "open"
  /\ verdict' = "cancelled"
  /\ UNCHANGED <<resolved, running>>

Next == Launch \/ Resolve \/ Close \/ Cancel

Spec == Init /\ [][Next]_vars
=============================================================================
