---------------------------- MODULE MCWasmMemory ----------------------------
(* WasmMemory in a word of six bits, with layouts at the boundaries of the *)
(* two size classes, of the alignments and of the address space.           *)
EXTENDS WasmMemory
MCLayouts ==
    {[bytes |-> 0, alignment |-> 8], [bytes |-> 4, alignment |-> 1], [bytes |-> 5, alignment |-> 4],
     [bytes |-> 9, alignment |-> 1], [bytes |-> 3, alignment |-> 32], [bytes |-> 58, alignment |-> 2]}
(* Layouts whose size leaves less than a header below the end of the word. *)
MCHugeLayouts == {[bytes |-> 4, alignment |-> 1], [bytes |-> 62, alignment |-> 2]}
=============================================================================
