------------------------------ MODULE MCDialog ------------------------------
(***************************************************************************)
(* Instances of Dialog for TLC.                                            *)
(***************************************************************************)
EXTENDS Dialog, TLC

Symmetry == Permutations(Workers)
=============================================================================
