---------------------------- MODULE MCAgentTurn ----------------------------
(* Small instances of AgentTurn. *)
EXTENDS AgentTurn, TLC

CONSTANTS a, b, r, w, none
=============================================================================
