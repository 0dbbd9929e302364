---------------------------- MODULE MCSupervisor ----------------------------
(* Instances of Supervisor for TLC.  Client ids are interchangeable; each  *)
(* request has a role of its own (r1 a tool call, r2 a question, r3 a call  *)
(* whose payload the reply path cannot decode).                            *)
EXTENDS Supervisor, TLC

CONSTANTS c1, c2, c3, r1, r2, r3

ClientSymmetry  == Permutations(Clients)
=============================================================================
