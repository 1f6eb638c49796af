------------------------------ MODULE MCChunks ------------------------------
(* Chunks on a map of two by two, as far as MCChunks.cfg bounds it. *)
EXTENDS Chunks
=============================================================================
