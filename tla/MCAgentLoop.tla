---------------------------- MODULE MCAgentLoop ----------------------------
(***************************************************************************)
(* Instances of AgentLoop for TLC; call ids are model values.              *)
(***************************************************************************)
EXTENDS AgentLoop, TLC

Symmetry == Permutations(CallIds)
=============================================================================
