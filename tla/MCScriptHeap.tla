---------------------------- MODULE MCScriptHeap ----------------------------
(* The heap for TLC: objects are interchangeable. *)
EXTENDS ScriptHeap, TLC

Interchangeable == Permutations(Values)
=============================================================================
