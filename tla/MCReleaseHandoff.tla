-------------------------- MODULE MCReleaseHandoff --------------------------
(***************************************************************************)
(* ReleaseHandoff for TLC: requests to start are interchangeable.          *)
(***************************************************************************)
EXTENDS ReleaseHandoff, TLC

Symmetry == Permutations(Starters)
=============================================================================
