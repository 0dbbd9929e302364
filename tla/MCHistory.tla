------------------------------ MODULE MCHistory ------------------------------
(* An instance of History for TLC.  Messages are interchangeable.           *)
EXTENDS History

CONSTANTS c1, c2

Alike == Permutations(Clients)
=============================================================================
