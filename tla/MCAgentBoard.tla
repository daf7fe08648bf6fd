----------------------------- MODULE MCAgentBoard -----------------------------
(* AgentBoard on small sets. *)
EXTENDS AgentBoard, TLC

Symmetry == Permutations(Kids)

=============================================================================
