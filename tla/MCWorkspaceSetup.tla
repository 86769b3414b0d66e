-------------------------- MODULE MCWorkspaceSetup --------------------------
(***************************************************************************)
(* Constants for WorkspaceSetup: an interactive stage and one that is not. *)
(***************************************************************************)
EXTENDS WorkspaceSetup

TwoStages == {"product_definition", "technical_review"}
=============================================================================
