---------------------------- MODULE MCAgentProcess ----------------------------
(* An instance of AgentProcess for TLC. *)
EXTENDS AgentProcess, TLC

CONSTANTS a1, a2, a3

\* Two agents on the port of the packages, one on that of the launch agent.
MCPort == a1 :> 80 @@ a2 :> 80 @@ a3 :> 16925
=============================================================================
