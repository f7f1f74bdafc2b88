----------------------------- MODULE TurnContext -----------------------------
(***************************************************************************)
(* The context a turn runs under (controller/turn.go). A cancel, the turn  *)
(* timeout, a DELETE and the controller's Close end it; every remote call  *)
(* of the turn is given it and is expected to return soon afterwards.      *)
(***************************************************************************)
VARIABLE ctx

ContextInit == ctx = "live"

Ended == ctx = "ended"

EndContext == ctx = "live" /\ ctx' = "ended"

=============================================================================
