----------------------------- MODULE MCRouting ------------------------------
(* Two children that may be exchanged for each other.                      *)
EXTENDS Routing, TLC

CONSTANTS c1, c2
MCChild == {c1, c2}

Symmetry == Permutations(MCChild)
=============================================================================
