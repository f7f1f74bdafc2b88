------------------------------ MODULE ToolResults ------------------------------
(***************************************************************************)
(* The meeting point of an agent loop that waits for the result of an      *)
(* external tool call and the client that posts it (Session.waiters and    *)
(* Session.pending, controller/session.go). Each action is one critical    *)
(* section of Session.mu or one branch of the waiter's select. The loop    *)
(* waits for one call at a time. A result carries the turn that ran when   *)
(* it was posted, 0 for none, which the code does not record.              *)
(***************************************************************************)
EXTENDS Integers, FiniteSets

CONSTANTS
  CallIds,   \* ids of tool calls; providers choose them and may reuse them
  ToolCap,   \* pendingToolResultsCap
  MaxTurns   \* bound: turns

ASSUME ToolAssumption == ToolCap \in Nat \ {0} /\ MaxTurns \in Nat

VARIABLES
  pending,   \* results nobody waited for, one per call id
  waiters,   \* call ids the loop waits for
  slot,      \* the waiter's buffered channel: at most one result
  strays     \* history: results the loop took in another turn than they came in

toolVars == <<pending, waiters, slot, strays>>

Results == [call : CallIds, during : 0..MaxTurns]

ToolTypes ==
  /\ pending \subseteq Results /\ waiters \subseteq CallIds
  /\ slot \subseteq Results
  /\ strays \subseteq [call : CallIds, during : 0..MaxTurns, turn : 1..MaxTurns]

ToolInit == pending = {} /\ waiters = {} /\ slot = {} /\ strays = {}

Parked(c) == \E r \in pending : r.call = c

\* AddToolResult: to the waiter if there is one, else into the buffer, where a
\* new result of a call replaces the old one; a full buffer refuses new calls.
AddToolResult(c, t) ==
  LET result == [call |-> c, during |-> t] IN
  /\ \/ /\ c \in waiters
        /\ waiters' = waiters \ {c} /\ slot' = {result} /\ UNCHANGED pending
     \/ /\ c \notin waiters
        /\ Parked(c) \/ Cardinality(pending) < ToolCap
        /\ pending' = {r \in pending : r.call # c} \cup {result}
        /\ UNCHANGED <<waiters, slot>>
  /\ UNCHANGED strays

Take(r, t) ==
  strays' = strays \cup ({[call |-> r.call, during |-> r.during, turn |-> t]}
                          \ {[call |-> r.call, during |-> t, turn |-> t]})

\* WaitToolResult finds the result already there ...
TakeParked(c, t) ==
  /\ \E r \in pending :
       r.call = c /\ Take(r, t) /\ pending' = pending \ {r}
  /\ UNCHANGED <<waiters, slot>>

\* ... or registers its channel in the same critical section.
AwaitResult(c) ==
  /\ ~Parked(c)
  /\ waiters' = waiters \cup {c} /\ slot' = {}
  /\ UNCHANGED <<pending, strays>>

\* The select: a result came, ...
ReceiveResult(t) ==
  /\ \E r \in slot : Take(r, t)
  /\ slot' = {}
  /\ UNCHANGED <<pending, waiters>>

\* Fault: the waiter stays registered after its timeout.
GiveUpKeepsWaiter(c) == slot' = {} /\ UNCHANGED <<pending, waiters, strays>>

\* ... or the context ended: what lies in the channel by then is dropped.
GiveUp(c) ==
  /\ waiters' = waiters \ {c} /\ slot' = {}
  /\ UNCHANGED <<pending, strays>>

\* finishTurn drops what nobody claimed.
ClearResults == pending' = {} /\ UNCHANGED <<waiters, slot, strays>>

\* The session leaves the memory of its node.
ForgetResults == pending' = {} /\ waiters' = {} /\ slot' = {} /\ UNCHANGED strays

=============================================================================
