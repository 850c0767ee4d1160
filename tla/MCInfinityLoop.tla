---------------------------- MODULE MCInfinityLoop ----------------------------
(***************************************************************************)
(* InfinityLoop for TLC.                                                   *)
(***************************************************************************)
EXTENDS InfinityLoop, TLC

Symmetry == Permutations(Runs) \cup Permutations(Triggers)
=============================================================================
