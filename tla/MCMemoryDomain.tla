--------------------------- MODULE MCMemoryDomain ---------------------------
(* What stands on the memory engine, side by side: its sessions, the entity  *)
(* repositories, and the context of a turn, which is searched in it.  They   *)
(* share the storage provider and no state of these modules, so that one     *)
(* behaviour moves one of them.                                              *)
EXTENDS MemorySession, MemoryRepositories, TurnContext, TLC

VARIABLE part

\* Goals differ only where the context is built.
Init ==
  /\ part \in {"sessions", "repositories", "context"}
  /\ SessionInit /\ RepositoryInit /\ ContextInit
  /\ part # "context" => goal = <<"long">>

Sessions_Step == part = "sessions" /\ SessionNext /\ UNCHANGED <<part, repositoryVars, contextVars>>
Repositories_Step == part = "repositories" /\ RepositoryNext /\ UNCHANGED <<part, sessionVars, contextVars>>
Context_Step == part = "context" /\ ContextNext /\ UNCHANGED <<part, sessionVars, repositoryVars>>

Next == Sessions_Step \/ Repositories_Step \/ Context_Step
Spec == Init /\ [][Next]_<<part, sessionVars, repositoryVars, contextVars>>

Same == Permutations(Callers) \cup Permutations(Contents) \cup Permutations(RecordIds)
=============================================================================
