---------------------------- MODULE MCAgentUpdate ----------------------------
(* An instance of AgentUpdate for TLC.                                      *)
EXTENDS AgentUpdate, TLC
=============================================================================
