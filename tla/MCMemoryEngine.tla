--------------------------- MODULE MCMemoryEngine ---------------------------
(* MemoryEngine on small instances. *)
EXTENDS MemoryEngine

CONSTANTS a, b, r1, r2
=============================================================================
