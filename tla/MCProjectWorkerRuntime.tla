----------------------- MODULE MCProjectWorkerRuntime -----------------------
(***************************************************************************)
(* ProjectWorkerRuntime on small instances: one document whose text differs *)
(* between two source sets.                                                 *)
(***************************************************************************)
EXTENDS ProjectWorkerRuntime

MCSources == {[d \in Docs |-> 1], [d \in Docs |-> 2]}
=============================================================================
