------------------------- MODULE MCChatSessionStore -------------------------
(* ChatSessionStore on small instances.  Requests differ by name only, and *)
(* its runs check invariants, so that permuting them is a sound symmetry.  *)
EXTENDS ChatSessionStore, TLC

CONSTANTS r1, r2, r3, r4

RequestSymmetry == Permutations(Requests)
=============================================================================
