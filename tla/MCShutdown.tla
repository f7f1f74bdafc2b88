----------------------------- MODULE MCShutdown -----------------------------
(***************************************************************************)
(* Instances of Shutdown for TLC; the client is a model value.             *)
(***************************************************************************)
EXTENDS Shutdown

\* An event can leave the replay buffer, and the client's channel fill up.
\* The subscriber's stream and a turn, with a consumer that may stop draining
\* and close; a turn with one event more; a stream that is cut; and all the rest
\* a node does.
MCMixes == {{"stream", "message", "stall", "close"},
            {"stream", "message", "delta"}, {"stream", "cut"},
            {"message", "create", "relay", "background", "sweep", "lapse"}}

ASSUME BoundsReachCaps == BufCap < MaxSeq /\ OutCap < MaxSeq
=============================================================================
