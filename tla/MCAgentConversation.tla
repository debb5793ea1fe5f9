------------------------ MODULE MCAgentConversation ------------------------
(* Small instances of AgentConversation for TLC. *)
EXTENDS AgentConversation, TLC

\* Requests and action ids are interchangeable.
Symmetry == Permutations(Req) \cup Permutations(Action)
=============================================================================
