-------------------------- MODULE MCPromptVersions --------------------------
(* Small instances of PromptVersions for TLC. *)
EXTENDS PromptVersions, TLC

\* Requests and the values of a field are interchangeable.
Symmetry == Permutations(Req) \cup Permutations(Value)
=============================================================================
