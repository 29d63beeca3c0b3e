------------------------ MODULE MCPipelineCoordinator ------------------------
(* PipelineCoordinator on small instances. *)
EXTENDS PipelineCoordinator

CONSTANTS c1, c2, c3
=============================================================================
