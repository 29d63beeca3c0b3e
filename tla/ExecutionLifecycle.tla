------------------------- MODULE ExecutionLifecycle -------------------------
(***************************************************************************)
(* What the lifecycle manager promises of each execution: it starts when   *)
(* it is created, anew when it is created again, and moves through the     *)
(* stages of its lifecycle in their order; it may only stop for a while    *)
(* between running and completing.                                         *)
(***************************************************************************)
CONSTANTS Executions, Unset

VARIABLE stage

Stages == {"created", "initialized", "prepared", "running", "waiting", "resumed",
           "completing", "completed", "archived"}

Init == stage = [e \in Executions |-> Unset]

Create(e) == stage' = [stage EXCEPT ![e] = "created"]

Move(e, from, to) == stage[e] = from /\ stage' = [stage EXCEPT ![e] = to]

Prepare(e) == Move(e, "created", "initialized") \/ Move(e, "initialized", "prepared")

Run(e) == Move(e, "prepared", "running") \/ Move(e, "resumed", "running")

Interrupt(e) == Move(e, "running", "waiting") \/ Move(e, "waiting", "resumed")

Close(e) ==
  \/ Move(e, "running", "completing") \/ Move(e, "resumed", "completing")
  \/ Move(e, "completing", "completed")
  \/ Move(e, "completed", "archived")

Next == \E e \in Executions : Create(e) \/ Prepare(e) \/ Run(e) \/ Interrupt(e) \/ Close(e)

Spec == Init /\ [][Next]_stage
=============================================================================
