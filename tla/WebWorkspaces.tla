--------------------------- MODULE WebWorkspaces ---------------------------
(* What the pages of the web client share.                                 *)
EXTENDS Naturals

CONSTANTS
  Workspaces,  \* the brands
  None         \* no workspace, no turn, no answer

ASSUME NoneIsNoWorkspace == None \notin Workspaces
=============================================================================
