-------------------------- MODULE MCChipLifecycle --------------------------
(* ChipLifecycle on a small server, for TLC. *)
EXTENDS ChipLifecycle, TLC
Sym == Permutations(Chips) \cup Permutations(Players) \cup Permutations(Scripts)
=============================================================================
