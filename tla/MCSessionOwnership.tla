------------------------- MODULE MCSessionOwnership -------------------------
(* One or two connections of an account, two maps and the world thread.    *)
EXTENDS SessionOwnership, TLC

CONSTANTS m1, m2, s1, s2

(* The map threads run the same code and nothing orders the maps.          *)
Symmetry == Permutations(Maps)
=============================================================================
