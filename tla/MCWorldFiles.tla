---------------------------- MODULE MCWorldFiles ----------------------------
(* Small instances of WorldFiles for TLC. *)
EXTENDS WorldFiles, TLC

\* The slots of the world list are alike.
Slots == Permutations(Worlds)
=============================================================================
