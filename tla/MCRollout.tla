------------------------------ MODULE MCRollout ------------------------------
(* An instance of Rollout for TLC.                                          *)
EXTENDS Rollout, TLC
CONSTANTS j1, j2
Alike == Permutations(Project)
=============================================================================
