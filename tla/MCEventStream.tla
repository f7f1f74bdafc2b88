--------------------------- MODULE MCEventStream ---------------------------
(***************************************************************************)
(* Instances of EventStream for TLC; clients are model values.             *)
(***************************************************************************)
EXTENDS EventStream

\* The module's bounds allow a replay to overflow the buffer and a channel.
ASSUME BoundsReachCaps == MaxSeq > BufCap /\ MaxSeq > ChanCap
=============================================================================
