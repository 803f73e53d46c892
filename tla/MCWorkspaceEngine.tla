-------------------------- MODULE MCWorkspaceEngine --------------------------
(***************************************************************************)
(* WorkspaceEngine on small instances: one or two documents, which the     *)
(* configurations name.                                                    *)
(***************************************************************************)
EXTENDS WorkspaceEngine
=============================================================================
