---------------------------- MODULE MCGovernance ----------------------------
(* Governance, with OrgMemory below it, on small instances. *)
EXTENDS Governance, TLC

CONSTANTS c1, c2, r1, r2, warranty, discounts, rule, d1, d2, sales, finance

\* Calls, decisions and roles differ by name only, and the run checks
\* invariants.
Symmetry == Permutations(Calls) \cup Permutations(Decisions) \cup Permutations(Roles)
=============================================================================
