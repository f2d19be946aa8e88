-------------------------- MODULE MCAgentMessages --------------------------
(* Instance of AgentMessages for TLC.  No symmetry: it checks liveness.    *)
EXTENDS AgentMessages
=============================================================================
