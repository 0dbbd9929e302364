---------------------------- MODULE MCCodexTurn ----------------------------
EXTENDS CodexTurn, TLC
CONSTANTS c1, c2, c3, c4, r1, r2, q1
ClientSymmetry == Permutations(Clients)
=============================================================================
