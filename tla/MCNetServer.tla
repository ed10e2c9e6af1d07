---------------------------- MODULE MCNetServer ----------------------------
EXTENDS NetServer, TLC
CONSTANTS s1, s2, w1, w2, w3
Symmetry == Permutations(Workers)
=============================================================================
