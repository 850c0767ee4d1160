-------------------------- MODULE MCStrategyLayer --------------------------
(***************************************************************************)
(* StrategyLayer for model checking: tasks are interchangeable, and so are *)
(* strategies.                                                             *)
(***************************************************************************)
EXTENDS StrategyLayer, TLC

Symmetry == Permutations(Tasks) \cup Permutations(Strategies)
=============================================================================
