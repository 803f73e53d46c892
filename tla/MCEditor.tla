------------------------------ MODULE MCEditor ------------------------------
(* EditorDiagnostics with one document. *)
EXTENDS EditorDiagnostics
CONSTANT d1
MCDoc == {d1}
=============================================================================
