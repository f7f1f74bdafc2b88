------------------------------ MODULE EventHub ------------------------------
(***************************************************************************)
(* The event hub of one session (controller/hub.go): it numbers the        *)
(* session's events, keeps the latest of them for replay, tracks the       *)
(* running turn and fans out to subscriber channels. Every operation is    *)
(* one critical section of eventHub.mu. A payload is never looked at, so   *)
(* an event is its number, its name and its turn.                          *)
(***************************************************************************)
EXTENDS Integers, Sequences

CONSTANTS
  Chans,     \* subscriber channels
  BufCap,    \* hubBufferCap
  ChanCap,   \* hubSubscriberCap
  MaxSeq     \* bound: events published in a behaviour

ASSUME HubAssumption ==
  /\ BufCap \in Nat \ {0} /\ ChanCap \in Nat \ {0} /\ MaxSeq \in Nat

VARIABLES
  seq,          \* number of the last event
  buf,          \* the replay buffer
  currentTurn,  \* the running turn, 0 when idle
  subs,         \* the channels subscribed
  chan,         \* what each channel holds
  closed,       \* the channels closed
  next          \* history: the event each channel's reader is due next

hubVars == <<seq, buf, currentTurn, subs, chan, closed, next>>

Turns  == 1..MaxSeq
Names  == {"turn_started", "delta", "turn_finished"}
Events == [seq : 1..MaxSeq, name : Names, turn : Turns]

HubTypes ==
  /\ seq \in 0..MaxSeq
  /\ buf \in Seq(Events)
  /\ currentTurn \in Turns \cup {0}
  /\ subs \subseteq Chans /\ closed \subseteq Chans
  /\ chan \in [Chans -> Seq(Events)]
  /\ next \in [Chans -> 1..(MaxSeq + 1)]

HubInit ==
  /\ seq = 0 /\ buf = <<>> /\ currentTurn = 0
  /\ subs = {} /\ closed = {}
  /\ chan = [c \in Chans |-> <<>>]
  /\ next = [c \in Chans |-> 1]

\* h.buf[len(h.buf)-hubBufferCap:]
Trim(b) == IF Len(b) > BufCap
           THEN SubSeq(b, Len(b) - BufCap + 1, Len(b)) ELSE b

\* Fault: an event a full channel cannot take is skipped for it.
PublishSkips(t, name) ==
  LET ev   == [seq |-> seq + 1, name |-> name, turn |-> t]
      fits == {c \in subs : Len(chan[c]) < ChanCap}
  IN /\ seq < MaxSeq
     /\ seq' = seq + 1
     /\ buf' = Trim(Append(buf, ev))
     /\ currentTurn' = CASE name = "turn_started" -> t
                         [] name = "turn_finished" -> 0
                         [] OTHER -> currentTurn
     /\ chan' = [c \in Chans |-> IF c \in fits THEN Append(chan[c], ev)
                                               ELSE chan[c]]
     /\ UNCHANGED <<subs, closed, next>>

\* eventHub.publish: a channel that is full is dropped and closed.
Publish(t, name) ==
  LET ev   == [seq |-> seq + 1, name |-> name, turn |-> t]
      fits == {c \in subs : Len(chan[c]) < ChanCap}
  IN /\ seq < MaxSeq
     /\ seq' = seq + 1
     /\ buf' = Trim(Append(buf, ev))
     /\ currentTurn' = CASE name = "turn_started" -> t
                         [] name = "turn_finished" -> 0
                         [] OTHER -> currentTurn
     /\ chan' = [c \in Chans |-> IF c \in fits THEN Append(chan[c], ev)
                                               ELSE chan[c]]
     /\ subs' = fits
     /\ closed' = closed \cup (subs \ fits)
     /\ UNCHANGED next

\* The backlog subscribe returns, collected from the start of the buffer.
After(n) ==
  LET kept[i \in 0..Len(buf)] ==
        IF i = 0 THEN <<>>
        ELSE IF buf[i].seq > n THEN Append(kept[i - 1], buf[i]) ELSE kept[i - 1]
  IN kept[Len(buf)]

\* eventHub.subscribe makes a fresh channel.
Subscribe(c) ==
  /\ c \notin subs
  /\ subs' = subs \cup {c}
  /\ closed' = closed \ {c}
  /\ chan' = [chan EXCEPT ![c] = <<>>]
  /\ next' = [next EXCEPT ![c] = seq + 1]
  /\ UNCHANGED <<seq, buf, currentTurn>>

\* The subscriber takes the next event from its channel; a closed channel
\* still yields what it holds.
Receive(c) ==
  /\ chan[c] # <<>>
  /\ chan' = [chan EXCEPT ![c] = Tail(@)]
  /\ next' = [next EXCEPT ![c] = @ + 1]
  /\ UNCHANGED <<seq, buf, currentTurn, subs, closed>>

\* eventHub.unsubscribe.
Unsubscribe(c) ==
  /\ subs' = subs \ {c}
  /\ closed' = closed \cup ({c} \cap subs)
  /\ UNCHANGED <<seq, buf, currentTurn, chan, next>>

\* eventHub.closeAll.
CloseAll ==
  /\ subs' = {}
  /\ closed' = closed \cup subs
  /\ UNCHANGED <<seq, buf, currentTurn, chan, next>>

HubNext ==
  \/ \E t \in Turns, name \in Names : Publish(t, name)
  \/ \E c \in Chans : Subscribe(c) \/ Receive(c) \/ Unsubscribe(c)
  \/ CloseAll

HubSpec == HubInit /\ [][HubNext]_hubVars

-----------------------------------------------------------------------------
\* The replay buffer is the window of the latest events: no hole, no event
\* out of order, never more than hubBufferCap (publish).
BufferWindow ==
  /\ Len(buf) <= BufCap
  /\ Len(buf) = seq \/ Len(buf) = BufCap
  /\ \A i \in 1..Len(buf) : buf[i].seq = seq - Len(buf) + i

\* A channel holds consecutive events starting with the one its reader is due,
\* and as long as it is subscribed it has missed nothing: a slow subscriber is
\* cut off, never skipped (publish, subscribe).
ChannelGapless ==
  \A c \in Chans :
    /\ Len(chan[c]) <= ChanCap
    /\ \A i \in 1..Len(chan[c]) : chan[c][i].seq = next[c] + i - 1
    /\ c \in subs => next[c] + Len(chan[c]) = seq + 1
    /\ next[c] + Len(chan[c]) <= seq + 1

\* Neither the replay buffer nor any channel skips or repeats an event.
HubIsGapless == BufferWindow /\ ChannelGapless

=============================================================================
