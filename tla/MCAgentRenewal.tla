--------------------------- MODULE MCAgentRenewal ----------------------------
(* AgentRenewal on a small instance.                                        *)
EXTENDS AgentRenewal
=============================================================================
