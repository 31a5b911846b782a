--------------------------- MODULE MCAgentEnrollment ---------------------------
(* Symmetric instances of AgentEnrollment for TLC's safety runs. *)
EXTENDS AgentEnrollment, TLC

RowSymmetry == Permutations(Devices) \cup Permutations(Enrollments)
               \cup Permutations(Identities) \cup Permutations(Requests)
               \cup Permutations(Admins)
=============================================================================
