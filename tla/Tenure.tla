------------------------------- MODULE Tenure -------------------------------
(***************************************************************************)
(* What the cluster promises of one session: at any time at most one node  *)
(* is its tenant, and it changes hands only by passing through nobody.     *)
(***************************************************************************)
CONSTANTS Nodes, NoNode
VARIABLE tenant

Init == tenant = NoNode

Take(n) == tenant = NoNode /\ tenant' = n
Leave   == tenant # NoNode /\ tenant' = NoNode

Next == Leave \/ \E n \in Nodes : Take(n)
Spec == Init /\ [][Next]_tenant
=============================================================================
