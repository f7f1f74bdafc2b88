--------------------------- MODULE MCSessionFiles ---------------------------
(***************************************************************************)
(* Instances of SessionFiles for TLC: one relative path, and an absolute   *)
(* one whose key is that of the relative one.                                *)
(***************************************************************************)
EXTENDS SessionFiles, TLC

CONSTANTS rel, abs

MCRel == {rel}
MCAbs == {abs}
MCStrip == [p \in {rel, abs} |-> rel]

Symmetry == Permutations(Names) \cup Permutations(Attachers)
=============================================================================
