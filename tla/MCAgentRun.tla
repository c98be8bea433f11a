----------------------------- MODULE MCAgentRun -----------------------------
(* AgentRun and Drain on small instances: each cfg says what it is for. *)
EXTENDS Drain
=============================================================================
