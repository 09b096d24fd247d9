------------------------------ MODULE MCAgents ------------------------------
(* TLC instance of Agents. *)
EXTENDS Agents, TLC

Symmetry == Permutations(Clients) \cup Permutations(AgentIds) \cup Permutations(Contents)
=============================================================================
