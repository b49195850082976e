-------------------------- MODULE MCEventDispatch --------------------------
(* EventDispatch for TLC: two chips wired in a ring, or one wired to itself. *)
EXTENDS EventDispatch, TLC
CONSTANTS c1, c2
Ring == (c1 :> c2) @@ (c2 :> c1)
Loop == (c1 :> c1)
=============================================================================
