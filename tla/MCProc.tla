------------------------------- MODULE MCProc -------------------------------
(* Proc with model values for the processors.                        *)
EXTENDS Proc, TLC

Symmetry == Permutations(CPU)
=============================================================================
