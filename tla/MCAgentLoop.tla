---------------------------- MODULE MCAgentLoop ----------------------------
(***************************************************************************)
(* AgentLoop for TLC: reading belongs to the same group as writing.        *)
(***************************************************************************)
EXTENDS AgentLoop

MCWritesOf == [t \in Tool |-> IF t \in ReadOnly THEN Tool \ ReadOnly ELSE {}]
=============================================================================
