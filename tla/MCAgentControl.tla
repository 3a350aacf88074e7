---------------------------- MODULE MCAgentControl ----------------------------
(* Instances of AgentControl for TLC. *)
EXTENDS AgentControl, TLC

CONSTANTS p1, p2, research_agent, ai_sdr

OneRequest == {p1}
TwoRequests == {p1, p2}
BothAgents == {research_agent, ai_sdr}
OneAgent == {ai_sdr}

\* The two agents are alike.
Symmetry == Permutations(BothAgents)
==============================================================================
