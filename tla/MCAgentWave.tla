---------------------------- MODULE MCAgentWave ----------------------------
(* AgentWave for TLC: three agents in the first wave, then the challenge.   *)
EXTENDS AgentWave

CONSTANTS ap, ar, dodo, sr
ThreeAgents == <<ar, ap, dodo>>
=============================================================================
