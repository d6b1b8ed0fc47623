---------------------------- MODULE MCMacFilter ----------------------------
(***************************************************************************)
(* TLC instance of MacFilter.                                              *)
(***************************************************************************)
EXTENDS MacFilter, TLC

\* The addresses are interchangeable: no action compares them but for equality.
MacSymmetry == Permutations(Mac)
=============================================================================
