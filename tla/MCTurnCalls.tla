------------------------------ MODULE MCTurnCalls ------------------------------
\* One server in auto mode, two shell calls that share a call id.
EXTENDS TurnCalls

MCTransports == [s \in Servers |-> <<"streamable", "sse">>]
MCIndexes == {-1, 0, 1}
MCFileOf == [k \in Calls |-> CHOOSE f \in Files : TRUE]
=============================================================================
