------------------------------ MODULE MCChecks ------------------------------
(* The symmetry of CheckRunner. *)
EXTENDS CheckRunner, TLC

Symmetric == Permutations(Check)
=============================================================================
