------------------------- MODULE MCMasterplanGenesis -------------------------
(***************************************************************************)
(* MasterplanGenesis for TLC.                                              *)
(***************************************************************************)
EXTENDS MasterplanGenesis, TLC

Symmetry == Permutations(Workers)
=============================================================================
