----------------------------- MODULE MCSession -----------------------------
(***************************************************************************)
(* Instances of Session for TLC. Identities are model values; the safety   *)
(* runs use symmetry, which no definition of Session breaks.               *)
(***************************************************************************)
EXTENDS Session, TLC

Symmetry == Permutations(Turns) \cup Permutations(Msgs) \cup
            Permutations(Cancels) \cup Permutations(Teardowns) \cup
            Permutations(Procs) \cup Permutations(Sandboxes)
=============================================================================
