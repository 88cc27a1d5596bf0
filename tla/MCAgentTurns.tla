---------------------------- MODULE MCAgentTurns ----------------------------
(* Instances of AgentTurns: one or two turns of any mode. *)
EXTENDS AgentTurns
=============================================================================
