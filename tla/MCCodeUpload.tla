---------------------------- MODULE MCCodeUpload ----------------------------
(* CodeUpload with scripts of one and of two chunks, for TLC. *)
EXTENDS CodeUpload, TLC
CONSTANTS one, two
MCScripts == {one, two}
MCChunks == (one :> 1) @@ (two :> 2)
=============================================================================
