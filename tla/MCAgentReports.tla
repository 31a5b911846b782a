---------------------------- MODULE MCAgentReports ----------------------------
(* AgentReports with interchangeable network names. *)
EXTENDS AgentReports, TLC

NameSymmetry == Permutations(Interfaces) \cup Permutations(LANs)
=============================================================================
