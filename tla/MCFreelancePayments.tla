------------------------ MODULE MCFreelancePayments ------------------------
(***************************************************************************)
(* FreelancePayments for TLC: threads and refund keys are interchangeable  *)
(* in the run that checks safety.                                          *)
(***************************************************************************)
EXTENDS FreelancePayments, TLC

Symmetry == Permutations(Threads) \cup Permutations(RefundKeys)
=============================================================================
