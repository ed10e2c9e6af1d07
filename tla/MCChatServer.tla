---------------------------- MODULE MCChatServer ----------------------------
EXTENDS ChatServer, TLC
CONSTANTS s1, s2, s3, acc1, acc2, u1, u2, u3, w1, w2
\* s1 and s3 are sessions of one client.
MCAccountOf == (s1 :> acc1) @@ (s2 :> acc2) @@ (s3 :> acc1)
Symmetry == Permutations({w1, w2}) \cup Permutations({u1, u2, u3})
=============================================================================
