---------------------------- MODULE MCMemory ----------------------------
EXTENDS Memory, TLC
WorkerSymmetry == Permutations(Workers)
=============================================================================
