----------------------------- MODULE MCHashMap -----------------------------
(* Keys whose probe runs collide at some widths, wrap round, or do both. *)
EXTENDS HashMap
MCKey == 1 .. 6
MCHash == <<3, 7, 11, 4, 17, 6>>
=============================================================================
