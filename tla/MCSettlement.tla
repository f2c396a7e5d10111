----------------------------- MODULE MCSettlement -----------------------------
EXTENDS Reports, TLC

Symmetry == Permutations(Order)
=============================================================================
