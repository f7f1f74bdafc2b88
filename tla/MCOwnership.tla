---------------------------- MODULE MCOwnership ----------------------------
(***************************************************************************)
(* Instances of Ownership for TLC; nodes and requests are model values.    *)
(***************************************************************************)
EXTENDS Ownership, TLC

Symmetry == Permutations(Nodes) \cup Permutations(Messages)
=============================================================================
