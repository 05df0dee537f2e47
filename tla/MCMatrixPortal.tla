---------------------------- MODULE MCMatrixPortal ----------------------------
(* A small instance of MatrixPortal. *)
EXTENDS MatrixPortal, TLC

CONSTANTS m1, m2

Symmetry == Permutations(Msgs)
=============================================================================
