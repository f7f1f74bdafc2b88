-------------------------- MODULE EventStreamProofs --------------------------
(***************************************************************************)
(* What holds of the event hub and of the event stream, for any number of  *)
(* clients and any capacities: first what each of the hub's operations     *)
(* keeps, then what subscribe collects, then how a stream's step uses the  *)
(* hub, and last what every client is still to get.                        *)
(***************************************************************************)
EXTENDS EventStream, SequenceTheorems, WellFoundedInduction, TLAPS

\* The hub's own invariant: its types, and the two halves of HubIsGapless.
HubInv == HubTypes /\ BufferWindow /\ ChannelGapless

USE HubAssumption

-----------------------------------------------------------------------------
(* Induction *)

\* The natural numbers are well-ordered by <.
LEMMA LeastElement ==
  ASSUME NEW T, T \subseteq Nat, T # {}
  PROVE  \E x \in T : \A y \in T : x <= y
<1> DEFINE R == {p \in Nat \X Nat : p[1] < p[2]}
<1>1. IsWellFoundedOn(R, Nat)
  BY NatLessThanWellFounded DEF OpToRel
<1>2. \A x, y \in Nat : <<x, y>> \in R <=> x < y
  OBVIOUS
<1> HIDE DEF R
<1>3. PICK x \in T : \A y \in T : ~(<<y, x>> \in R)
  BY <1>1, WFMin
<1>4. ASSUME NEW y \in T PROVE x <= y
  <2>1. x \in Nat /\ y \in Nat /\ ~(y < x)
    BY <1>2, <1>3
  <2> QED BY <2>1
<1> QED BY <1>4

\* Induction over an initial segment of the natural numbers, as a statement
\* about the set of those that have the property.
LEMMA Induction ==
  ASSUME NEW N \in Nat, NEW T \in SUBSET (0..N), 0 \in T,
         \A i \in 1..N : i - 1 \in T => i \in T
  PROVE  T = 0..N
<1> SUFFICES ASSUME (0..N) \ T # {} PROVE FALSE
  OBVIOUS
<1> DEFINE U == (0..N) \ T
<1>0. U \subseteq Nat /\ U # {}
  OBVIOUS
<1> HIDE DEF U
<1>1. PICK x \in U : \A y \in U : x <= y
  BY <1>0, LeastElement
<1> USE DEF U
<1>2. x \in 1..N /\ x - 1 \in 0..N
  BY <1>1
<1>3. x - 1 \in T
  BY <1>1, <1>2
<1> QED BY <1>1, <1>2, <1>3

-----------------------------------------------------------------------------
(* Sequences *)

\* Appending one element leaves the others where they are.
LEMMA AppendFacts ==
  ASSUME NEW S, NEW s \in Seq(S), NEW e \in S
  PROVE  /\ Append(s, e) \in Seq(S)
         /\ Len(Append(s, e)) = Len(s) + 1
         /\ \A i \in 1..Len(s) : Append(s, e)[i] = s[i]
         /\ Append(s, e)[Len(s) + 1] = e
OBVIOUS

\* Taking the head off moves every other element one place up.
LEMMA TailFacts ==
  ASSUME NEW S, NEW s \in Seq(S), s # <<>>
  PROVE  /\ Tail(s) \in Seq(S)
         /\ Len(Tail(s)) = Len(s) - 1
         /\ Len(s) >= 1
         /\ \A i \in 1..(Len(s) - 1) : Tail(s)[i] = s[i + 1]
OBVIOUS

\* Taking the head off the front of two sequences.
LEMMA ConcatFacts ==
  ASSUME NEW S, NEW p \in Seq(S), NEW q \in Seq(S), p # <<>>
  PROVE  /\ p \o q \in Seq(S) /\ p \o q # <<>> /\ Head(p \o q) = Head(p)
         /\ Tail(p \o q) = Tail(p) \o q
<1>1. /\ p \o q \in Seq(S) /\ Len(p \o q) = Len(p) + Len(q) /\ Len(p) >= 1
      /\ Len(p) \in Nat /\ Len(q) \in Nat
      /\ \A i \in 1..Len(p) : (p \o q)[i] = p[i]
      /\ \A i \in 1..Len(q) : (p \o q)[Len(p) + i] = q[i]
  OBVIOUS
<1>2. /\ p \o q # <<>> /\ Head(p \o q) = Head(p)
  BY <1>1
<1>3. /\ Tail(p \o q) \in Seq(S) /\ Len(Tail(p \o q)) = Len(p) + Len(q) - 1
      /\ \A i \in 1..(Len(p) + Len(q) - 1) : Tail(p \o q)[i] = (p \o q)[i + 1]
  BY <1>1, <1>2, TailFacts
<1>4. /\ Tail(p) \in Seq(S) /\ Len(Tail(p)) = Len(p) - 1
      /\ \A i \in 1..(Len(p) - 1) : Tail(p)[i] = p[i + 1]
  BY TailFacts
<1>5. /\ Tail(p) \o q \in Seq(S) /\ Len(Tail(p) \o q) = Len(p) - 1 + Len(q)
      /\ \A i \in 1..(Len(p) - 1) : (Tail(p) \o q)[i] = Tail(p)[i]
      /\ \A i \in 1..Len(q) : (Tail(p) \o q)[Len(p) - 1 + i] = q[i]
  BY <1>4
<1> DEFINE r == p \o q
           u == Tail(p) \o q
           v == Tail(p \o q)
<1> HIDE DEF r, u, v
<1>6. ASSUME NEW i \in 1..(Len(p) + Len(q) - 1) PROVE v[i] = u[i]
  <2>1. CASE i <= Len(p) - 1
    <3>1. i \in 1..(Len(p) - 1) /\ i + 1 \in 1..Len(p)
      BY <1>1, <2>1
    <3>2. v[i] = r[i + 1] /\ r[i + 1] = p[i + 1] /\ u[i] = Tail(p)[i]
      BY <1>1, <1>3, <1>5, <3>1 DEF r, u, v
    <3> QED BY <1>4, <3>1, <3>2
  <2>2. CASE i > Len(p) - 1
    <3> DEFINE j == i - (Len(p) - 1)
    <3>1. j \in 1..Len(q) /\ Len(p) - 1 + j = i /\ Len(p) + j = i + 1
      BY <1>1, <2>2
    <3> HIDE DEF j
    <3>2. r[i + 1] = q[j] /\ u[i] = q[j]
      <4>1. (p \o q)[Len(p) + j] = q[j] /\ (Tail(p) \o q)[Len(p) - 1 + j] = q[j]
        BY <1>1, <1>5, <3>1
      <4> QED BY <3>1, <4>1 DEF r, u
    <3>3. v[i] = r[i + 1]
      BY <1>3 DEF r, v
    <3> QED BY <3>2, <3>3
  <2> QED BY <1>1, <2>1, <2>2
<1>7. v = u
  <2>1. v \in Seq(S) /\ u \in Seq(S) /\ Len(v) = Len(p) + Len(q) - 1 /\ Len(u) = Len(v)
    BY <1>1, <1>3, <1>5 DEF u, v
  <2> QED BY <1>6, <2>1, SeqEqual
<1> QED BY <1>1, <1>2, <1>7 DEF u, v

\* An element appended to the second of two sequences is the last of both.
LEMMA ConcatAppend ==
  ASSUME NEW S, NEW p \in Seq(S), NEW q \in Seq(S), NEW e \in S
  PROVE  p \o Append(q, e) = Append(p \o q, e) /\ p \o q \in Seq(S)
<1> DEFINE u == p \o Append(q, e)
           v == Append(p \o q, e)
<1>1. /\ Append(q, e) \in Seq(S) /\ Len(Append(q, e)) = Len(q) + 1
      /\ \A i \in 1..Len(q) : Append(q, e)[i] = q[i]
      /\ Append(q, e)[Len(q) + 1] = e
      /\ Len(p) \in Nat /\ Len(q) \in Nat
  BY AppendFacts
<1>2. /\ p \o q \in Seq(S) /\ Len(p \o q) = Len(p) + Len(q)
      /\ \A i \in 1..Len(p) : (p \o q)[i] = p[i]
      /\ \A i \in 1..Len(q) : (p \o q)[Len(p) + i] = q[i]
  OBVIOUS
<1>3. /\ u \in Seq(S) /\ Len(u) = Len(p) + Len(q) + 1
      /\ \A i \in 1..Len(p) : u[i] = p[i]
      /\ \A i \in 1..(Len(q) + 1) : u[Len(p) + i] = Append(q, e)[i]
  BY <1>1
<1>4. /\ v \in Seq(S) /\ Len(v) = Len(p) + Len(q) + 1
      /\ \A i \in 1..(Len(p) + Len(q)) : v[i] = (p \o q)[i]
      /\ v[Len(p) + Len(q) + 1] = e
  BY <1>1, <1>2, AppendFacts
<1> HIDE DEF u, v
<1>5. ASSUME NEW i \in 1..(Len(p) + Len(q) + 1) PROVE u[i] = v[i]
  <2>1. CASE i \in 1..Len(p)
    <3>1. i \in 1..(Len(p) + Len(q))
      BY <1>1, <2>1
    <3>2. u[i] = p[i] /\ v[i] = (p \o q)[i] /\ (p \o q)[i] = p[i]
      BY <1>2, <1>3, <1>4, <2>1, <3>1
    <3> QED BY <3>2
  <2>2. CASE i > Len(p)
    <3> DEFINE j == i - Len(p)
    <3>1. j \in 1..(Len(q) + 1) /\ i = Len(p) + j
      BY <1>1, <2>2
    <3> HIDE DEF j
    <3>2. CASE j = Len(q) + 1
      <4>1. i = Len(p) + Len(q) + 1
        BY <1>1, <3>1, <3>2
      <4> QED BY <1>1, <1>3, <1>4, <3>1, <3>2, <4>1
    <3>3. CASE j \in 1..Len(q)
      <4>1. i \in 1..(Len(p) + Len(q))
        BY <1>1, <3>1, <3>3
      <4> QED BY <1>1, <1>2, <1>3, <1>4, <3>1, <3>3, <4>1
    <3> QED BY <1>1, <3>1, <3>2, <3>3
  <2> QED BY <1>1, <2>1, <2>2
<1>6. u = v
  BY <1>3, <1>4, <1>5, SeqEqual
<1> QED BY <1>2, <1>6 DEF u, v

\* The buffer is cut by exactly the excess, from its old end (hub.go:55-57).
LEMMA TrimFacts ==
  ASSUME NEW S, NEW b \in Seq(S), Len(b) <= BufCap + 1
  PROVE  /\ Trim(b) \in Seq(S)
         /\ Len(b) <= BufCap => Trim(b) = b
         /\ Len(b) = BufCap + 1 =>
              /\ Len(Trim(b)) = BufCap
              /\ \A i \in 1..BufCap : Trim(b)[i] = b[i + 1]
<1>1. CASE Len(b) <= BufCap
  BY <1>1 DEF Trim
<1>2. CASE Len(b) = BufCap + 1
  <2>1. Trim(b) = SubSeq(b, 2, Len(b))
    BY <1>2 DEF Trim
  <2> QED BY <1>2, <2>1
<1> QED BY <1>1, <1>2

-----------------------------------------------------------------------------
(* Publishing *)

\* The buffer of a hub that publishes one more event.
LEMMA PublishBuffer ==
  ASSUME HubInv, NEW t \in Turns, NEW name \in Names, Publish(t, name)
  PROVE  buf' \in Seq(Events) /\ BufferWindow'
<1> DEFINE ev == [seq |-> seq + 1, name |-> name, turn |-> t]
           b  == Append(buf, ev)
<1>1. /\ buf \in Seq(Events) /\ Len(buf) \in Nat /\ seq \in 0..MaxSeq
      /\ seq < MaxSeq
      /\ seq' = seq + 1 /\ buf' = Trim(b)
  BY DEF HubInv, HubTypes, Publish
<1>2. ev \in Events
  BY <1>1 DEF Events
<1>3. /\ b \in Seq(Events) /\ Len(b) = Len(buf) + 1
      /\ \A i \in 1..Len(buf) : b[i] = buf[i]
      /\ b[Len(buf) + 1] = ev
  BY <1>1, <1>2, AppendFacts
<1>4. /\ Len(buf) <= BufCap /\ (Len(buf) = seq \/ Len(buf) = BufCap)
      /\ \A i \in 1..Len(buf) : buf[i].seq = seq - Len(buf) + i
  BY DEF HubInv, BufferWindow
<1>5. \A i \in 1..Len(b) : b[i].seq = seq + 1 - Len(b) + i
  <2> TAKE i \in 1..Len(b)
  <2>1. CASE i \in 1..Len(buf)
    BY <1>1, <1>3, <1>4, <2>1
  <2>2. CASE i = Len(buf) + 1
    BY <1>1, <1>3, <2>2
  <2> QED BY <1>1, <1>3, <2>1, <2>2
<1>6. Len(b) <= BufCap + 1
  BY <1>1, <1>3, <1>4
<1> HIDE DEF b
<1>7. CASE Len(b) <= BufCap
  <2>1. Trim(b) = b
    BY <1>3, <1>6, <1>7, TrimFacts
  <2> QED BY <1>1, <1>3, <1>4, <1>5, <1>7, <2>1 DEF BufferWindow
<1>8. CASE Len(b) = BufCap + 1
  <2>1. /\ Trim(b) \in Seq(Events) /\ Len(Trim(b)) = BufCap
        /\ \A i \in 1..BufCap : Trim(b)[i] = b[i + 1]
    BY <1>3, <1>6, <1>8, TrimFacts
  <2>2. \A i \in 1..BufCap : Trim(b)[i].seq = seq + 1 - BufCap + i
    <3> TAKE i \in 1..BufCap
    <3>1. i + 1 \in 1..Len(b) /\ Trim(b)[i] = b[i + 1]
      BY <1>8, <2>1
    <3> QED BY <1>1, <1>5, <1>8, <3>1
  <2> QED BY <1>1, <2>1, <2>2 DEF BufferWindow
<1> QED BY <1>1, <1>3, <1>6, <1>7, <1>8

\* The channels of a hub that publishes one more event.
LEMMA PublishChannels ==
  ASSUME HubInv, NEW t \in Turns, NEW name \in Names, Publish(t, name)
  PROVE  chan' \in [Chans -> Seq(Events)] /\ ChannelGapless'
<1> DEFINE ev   == [seq |-> seq + 1, name |-> name, turn |-> t]
           fits == {c \in subs : Len(chan[c]) < ChanCap}
<1>1. /\ seq \in 0..MaxSeq /\ seq < MaxSeq
      /\ seq' = seq + 1 /\ subs' = fits /\ next' = next
      /\ chan' = [c \in Chans |-> IF c \in fits THEN Append(chan[c], ev)
                                                ELSE chan[c]]
      /\ chan \in [Chans -> Seq(Events)]
      /\ next \in [Chans -> 1..(MaxSeq + 1)] /\ subs \subseteq Chans
  BY DEF HubInv, HubTypes, Publish
<1>2. ev \in Events
  BY <1>1 DEF Events
<1> SUFFICES ASSUME NEW c \in Chans
             PROVE  /\ chan'[c] \in Seq(Events)
                    /\ Len(chan'[c]) <= ChanCap
                    /\ \A i \in 1..Len(chan'[c]) :
                         chan'[c][i].seq = next'[c] + i - 1
                    /\ c \in subs' => next'[c] + Len(chan'[c]) = seq' + 1
                    /\ next'[c] + Len(chan'[c]) <= seq' + 1
  BY <1>1 DEF ChannelGapless
<1>3. /\ Len(chan[c]) <= ChanCap /\ chan[c] \in Seq(Events)
      /\ Len(chan[c]) \in Nat /\ next[c] \in Nat
      /\ \A i \in 1..Len(chan[c]) : chan[c][i].seq = next[c] + i - 1
      /\ c \in subs => next[c] + Len(chan[c]) = seq + 1
      /\ next[c] + Len(chan[c]) <= seq + 1
  BY <1>1 DEF HubInv, ChannelGapless
<1>4. CASE c \in fits
  <2>1. chan'[c] = Append(chan[c], ev)
    BY <1>1, <1>4
  <2>2. /\ chan'[c] \in Seq(Events) /\ Len(chan'[c]) = Len(chan[c]) + 1
        /\ \A i \in 1..Len(chan[c]) : chan'[c][i] = chan[c][i]
        /\ chan'[c][Len(chan[c]) + 1] = ev
    BY <1>2, <1>3, <2>1, AppendFacts
  <2>3. c \in subs /\ Len(chan[c]) < ChanCap
    BY <1>4
  <2>4. \A i \in 1..Len(chan'[c]) : chan'[c][i].seq = next'[c] + i - 1
    <3> TAKE i \in 1..Len(chan'[c])
    <3>1. CASE i \in 1..Len(chan[c])
      BY <1>1, <1>3, <2>2, <3>1
    <3>2. CASE i = Len(chan[c]) + 1
      BY <1>1, <1>3, <2>2, <2>3, <3>2
    <3> QED BY <1>3, <2>2, <3>1, <3>2
  <2> QED BY SMTT(30), <1>1, <1>3, <2>2, <2>3, <2>4
<1>5. CASE c \notin fits
  <2>1. chan'[c] = chan[c] /\ c \notin subs' /\ next'[c] = next[c]
    BY <1>1, <1>5
  <2> QED BY <1>1, <1>3, <2>1
<1> QED BY <1>4, <1>5

\* Publishing keeps the hub's invariant.
LEMMA PublishKeeps ==
  ASSUME HubInv, NEW t \in Turns, NEW name \in Names, Publish(t, name)
  PROVE  HubInv'
<1>1. buf' \in Seq(Events) /\ BufferWindow'
  BY PublishBuffer
<1>2. chan' \in [Chans -> Seq(Events)] /\ ChannelGapless'
  BY PublishChannels
<1>3. currentTurn' \in Turns \cup {0}
  BY DEF HubInv, HubTypes, Publish
<1>4. /\ seq' \in 0..MaxSeq /\ subs' \subseteq Chans /\ closed' \subseteq Chans
      /\ next' \in [Chans -> 1..(MaxSeq + 1)]
  BY DEF HubInv, HubTypes, Publish
<1> QED BY <1>1, <1>2, <1>3, <1>4 DEF HubInv, HubTypes

-----------------------------------------------------------------------------
(* Subscribers *)

\* A fresh channel is due the event after the latest.
LEMMA SubscribeKeeps ==
  ASSUME HubInv, NEW c \in Chans, Subscribe(c)
  PROVE  HubInv'
<1>1. HubTypes'
  BY DEF HubInv, HubTypes, Subscribe
<1>2. BufferWindow'
  BY DEF HubInv, BufferWindow, Subscribe
<1>3. ChannelGapless'
  <2> SUFFICES ASSUME NEW d \in Chans
               PROVE  /\ Len(chan'[d]) <= ChanCap
                      /\ \A i \in 1..Len(chan'[d]) :
                           chan'[d][i].seq = next'[d] + i - 1
                      /\ d \in subs' => next'[d] + Len(chan'[d]) = seq' + 1
                      /\ next'[d] + Len(chan'[d]) <= seq' + 1
    BY DEF ChannelGapless
  <2>1. CASE d = c
    <3>1. chan'[d] = <<>> /\ next'[d] = seq + 1 /\ seq' = seq
      BY <2>1 DEF HubInv, HubTypes, Subscribe
    <3>2. seq \in Nat
      BY DEF HubInv, HubTypes
    <3> QED BY <3>1, <3>2
  <2>2. CASE d # c
    <3>1. /\ chan'[d] = chan[d] /\ next'[d] = next[d] /\ seq' = seq
          /\ d \in subs' => d \in subs
      BY <2>2 DEF HubInv, HubTypes, Subscribe
    <3> QED BY <3>1 DEF HubInv, ChannelGapless
  <2> QED BY <2>1, <2>2
<1> QED BY <1>1, <1>2, <1>3 DEF HubInv

\* The reader takes the event it is due.
LEMMA ReceiveKeeps ==
  ASSUME HubInv, NEW c \in Chans, Receive(c)
  PROVE  HubInv'
<1>1. /\ chan[c] \in Seq(Events) /\ chan[c] # <<>>
      /\ chan' = [chan EXCEPT ![c] = Tail(chan[c])]
      /\ next' = [next EXCEPT ![c] = next[c] + 1]
      /\ seq' = seq /\ buf' = buf /\ currentTurn' = currentTurn
      /\ subs' = subs /\ closed' = closed
      /\ seq \in 0..MaxSeq /\ next[c] \in 1..(MaxSeq + 1)
      /\ chan \in [Chans -> Seq(Events)] /\ next \in [Chans -> 1..(MaxSeq + 1)]
  BY DEF HubInv, HubTypes, Receive
<1>2. /\ Tail(chan[c]) \in Seq(Events) /\ Len(Tail(chan[c])) = Len(chan[c]) - 1
      /\ Len(chan[c]) >= 1 /\ Len(chan[c]) \in Nat
      /\ \A i \in 1..(Len(chan[c]) - 1) : Tail(chan[c])[i] = chan[c][i + 1]
  BY <1>1, TailFacts
<1>3. /\ Len(chan[c]) <= ChanCap
      /\ \A i \in 1..Len(chan[c]) : chan[c][i].seq = next[c] + i - 1
      /\ c \in subs => next[c] + Len(chan[c]) = seq + 1
      /\ next[c] + Len(chan[c]) <= seq + 1
  BY DEF HubInv, ChannelGapless
<1>4. HubTypes'
  <2>1. chan' \in [Chans -> Seq(Events)]
    BY <1>1, <1>2
  <2>2. next' \in [Chans -> 1..(MaxSeq + 1)]
    BY <1>1, <1>2, <1>3
  <2> QED BY <1>1, <2>1, <2>2 DEF HubInv, HubTypes
<1>5. BufferWindow'
  BY <1>1 DEF HubInv, BufferWindow
<1>6. ChannelGapless'
  <2> SUFFICES ASSUME NEW d \in Chans
               PROVE  /\ Len(chan'[d]) <= ChanCap
                      /\ \A i \in 1..Len(chan'[d]) :
                           chan'[d][i].seq = next'[d] + i - 1
                      /\ d \in subs' => next'[d] + Len(chan'[d]) = seq' + 1
                      /\ next'[d] + Len(chan'[d]) <= seq' + 1
    BY DEF ChannelGapless
  <2>1. CASE d = c
    <3>1. chan'[d] = Tail(chan[c]) /\ next'[d] = next[c] + 1
      BY <1>1, <2>1
    <3>2. \A i \in 1..(Len(chan[c]) - 1) :
             Tail(chan[c])[i].seq = next[c] + 1 + i - 1
      BY <1>1, <1>2, <1>3
    <3>3. \A i \in 1..Len(chan'[d]) : chan'[d][i].seq = next'[d] + i - 1
      BY <1>2, <3>1, <3>2
    <3>4. /\ d \in subs' => next'[d] + Len(chan'[d]) = seq' + 1
          /\ next'[d] + Len(chan'[d]) <= seq' + 1
          /\ Len(chan'[d]) <= ChanCap
      BY <1>1, <1>2, <1>3, <2>1, <3>1
    <3> QED BY <3>3, <3>4
  <2>2. CASE d # c
    <3>1. /\ chan'[d] = chan[d] /\ next'[d] = next[d]
      BY <1>1, <2>2
    <3> QED BY <1>1, <3>1 DEF HubInv, ChannelGapless
  <2> QED BY <2>1, <2>2
<1> QED BY <1>4, <1>5, <1>6 DEF HubInv

\* Dropping channels changes no window.
LEMMA DropKeeps ==
  ASSUME HubInv, (\E c \in Chans : Unsubscribe(c)) \/ CloseAll
  PROVE  HubInv'
<1>1. /\ seq' = seq /\ buf' = buf /\ currentTurn' = currentTurn
      /\ chan' = chan /\ next' = next
      /\ subs' \subseteq subs /\ closed' \subseteq Chans
  BY DEF HubInv, HubTypes, Unsubscribe, CloseAll
<1>2. HubTypes'
  BY <1>1 DEF HubInv, HubTypes
<1>3. BufferWindow'
  BY <1>1 DEF HubInv, BufferWindow
<1>4. ChannelGapless'
  BY <1>1 DEF HubInv, ChannelGapless
<1> QED BY <1>2, <1>3, <1>4 DEF HubInv

-----------------------------------------------------------------------------
(* The theorems *)

\* A fresh hub.
LEMMA HubInitHolds == HubInit => HubInv
<1> SUFFICES ASSUME HubInit PROVE HubInv
  OBVIOUS
<1>1. HubTypes
  BY DEF HubInit, HubTypes
<1>2. BufferWindow
  BY DEF HubInit, BufferWindow
<1>3. ChannelGapless
  <2> SUFFICES ASSUME NEW c \in Chans
               PROVE  /\ Len(chan[c]) <= ChanCap
                      /\ \A i \in 1..Len(chan[c]) : chan[c][i].seq = next[c] + i - 1
                      /\ c \in subs => next[c] + Len(chan[c]) = seq + 1
                      /\ next[c] + Len(chan[c]) <= seq + 1
    BY DEF ChannelGapless
  <2>1. chan[c] = <<>> /\ next[c] = 1 /\ seq = 0
    BY DEF HubInit
  <2> QED BY <2>1
<1> QED BY <1>1, <1>2, <1>3 DEF HubInv

\* Every operation of the hub keeps its invariant.
LEMMA HubStep == HubInv /\ [HubNext]_hubVars => HubInv'
<1> SUFFICES ASSUME HubInv, [HubNext]_hubVars PROVE HubInv'
  OBVIOUS
<1>1. CASE \E t \in Turns, name \in Names : Publish(t, name)
  BY <1>1, PublishKeeps
<1>2. CASE \E c \in Chans : Subscribe(c)
  BY <1>2, SubscribeKeeps
<1>3. CASE \E c \in Chans : Receive(c)
  BY <1>3, ReceiveKeeps
<1>4. CASE (\E c \in Chans : Unsubscribe(c)) \/ CloseAll
  BY <1>4, DropKeeps
<1>5. CASE UNCHANGED hubVars
  <2>1. HubTypes'
    BY <1>5 DEF HubInv, HubTypes, hubVars
  <2>2. BufferWindow'
    BY <1>5 DEF HubInv, BufferWindow, hubVars
  <2>3. ChannelGapless'
    BY <1>5 DEF HubInv, ChannelGapless, hubVars
  <2> QED BY <2>1, <2>2, <2>3 DEF HubInv
<1> QED BY <1>1, <1>2, <1>3, <1>4, <1>5 DEF HubNext

\* The hub's invariant holds in every reachable state.
THEOREM HubInvariance == HubSpec => []HubInv
<1>1. HubInit => HubInv
  BY HubInitHolds
<1>2. HubInv /\ [HubNext]_hubVars => HubInv'
  BY HubStep
<1> QED BY <1>1, <1>2, PTL DEF HubSpec

-----------------------------------------------------------------------------
(* Collecting *)

\* Collecting from a sequence whose wanted elements are its last ones.
LEMMA FilterIsSuffix ==
  ASSUME NEW S, NEW b \in Seq(S), NEW m \in 0..Len(b), NEW n,
         \A i \in 1..Len(b) : b[i].seq > n <=> i > m
  PROVE  LET kept[i \in 0..Len(b)] ==
               IF i = 0 THEN <<>>
               ELSE IF b[i].seq > n THEN Append(kept[i - 1], b[i]) ELSE kept[i - 1]
         IN  kept[Len(b)] = SubSeq(b, m + 1, Len(b))
<1> DEFINE F(g) == [i \in 0..Len(b) |->
                      IF i = 0 THEN <<>>
                      ELSE IF b[i].seq > n THEN Append(g[i - 1], b[i]) ELSE g[i - 1]]
           kept == CHOOSE g : g = F(g)
           w == [i \in 0..Len(b) |-> SubSeq(b, m + 1, i)]
<1>1. \A i \in 0..Len(b) : i <= m => SubSeq(b, m + 1, i) = <<>>
  BY SubSeqEmpty
<1>2. \A i \in 1..Len(b) : i > m => SubSeq(b, m + 1, i) = Append(SubSeq(b, m + 1, i - 1), b[i])
  <2> TAKE i \in 1..Len(b)
  <2> HAVE i > m
  <2>1. SubSeq(b, m + 1, i) = SubSeq(b, m + 1, i - 1) \o <<b[i]>>
    BY SubSeqRecursiveSecond
  <2>2. SubSeq(b, m + 1, i - 1) \in Seq(S) /\ b[i] \in S
    BY SubSeqProperties
  <2> QED BY <2>1, <2>2, AppendIsConcat
<1>3. \A i \in 1..Len(b) : w[i] = IF b[i].seq > n THEN Append(w[i - 1], b[i]) ELSE w[i - 1]
  <2> TAKE i \in 1..Len(b)
  <2>1. i \in 0..Len(b) /\ i - 1 \in 0..Len(b)
    OBVIOUS
  <2>2. CASE i > m
    BY <1>2, <2>1, <2>2
  <2>3. CASE ~(i > m)
    BY <1>1, <2>1, <2>3
  <2> QED BY <2>2, <2>3
<1>4. w = F(w)
  <2>1. w[0] = <<>>
    BY <1>1
  <2>2. w = [i \in 0..Len(b) |-> w[i]]
    OBVIOUS
  <2> HIDE DEF w
  <2>3. \A i \in 0..Len(b) :
           w[i] = IF i = 0 THEN <<>>
                  ELSE IF b[i].seq > n THEN Append(w[i - 1], b[i]) ELSE w[i - 1]
    BY <1>3, <2>1
  <2> QED BY <2>2, <2>3
<1> HIDE DEF w
<1>5. kept = F(kept)
  BY <1>4
<1> HIDE DEF kept
<1>6. {i \in 0..Len(b) : kept[i] = w[i]} = 0..Len(b)
  <2> DEFINE T == {i \in 0..Len(b) : kept[i] = w[i]}
  <2>1. 0 \in T
    BY <1>4, <1>5
  <2>2. ASSUME NEW i \in 1..Len(b), i - 1 \in T PROVE i \in T
    <3>1. kept[i] = IF b[i].seq > n THEN Append(kept[i - 1], b[i]) ELSE kept[i - 1]
      <4>1. i \in 0..Len(b) /\ i # 0
        OBVIOUS
      <4> QED BY <1>5, <4>1
    <3> QED BY <1>3, <2>2, <3>1
  <2>3. T \in SUBSET (0..Len(b)) /\ Len(b) \in Nat
    OBVIOUS
  <2> HIDE DEF T
  <2>4. T = 0..Len(b)
    BY <2>1, <2>2, <2>3, Induction
  <2> QED BY <2>4 DEF T
<1>7. kept[Len(b)] = SubSeq(b, m + 1, Len(b))
  <2>1. Len(b) \in 0..Len(b)
    OBVIOUS
  <2>2. kept[Len(b)] = w[Len(b)]
    BY <1>6, <2>1
  <2> QED BY <2>1, <2>2 DEF w
<1> QED BY <1>7 DEF kept

-----------------------------------------------------------------------------
(* The backlog *)

\* What subscribe collects: the newest events of the buffer, from the first
\* one behind n.
LEMMA AfterFacts ==
  ASSUME HubInv, NEW n \in Nat
  PROVE  \E k \in 0..Len(buf) :
           /\ After(n) \in Seq(Events) /\ Len(After(n)) = k
           /\ \A i \in 1..k : After(n)[i] = buf[Len(buf) - k + i]
           /\ n >= seq => k = 0
           /\ n < seq => k <= seq - n /\ (k = Len(buf) \/ k = seq - n)
<1>1. /\ buf \in Seq(Events) /\ Len(buf) \in Nat /\ seq \in Nat
      /\ \A i \in 1..Len(buf) : buf[i].seq = seq - Len(buf) + i
  BY DEF HubInv, HubTypes, BufferWindow
<1>2. \E m \in 0..Len(buf) :
        /\ \A i \in 1..Len(buf) : buf[i].seq > n <=> i > m
        /\ n >= seq => m = Len(buf)
        /\ n < seq => Len(buf) - m <= seq - n /\ (m = 0 \/ Len(buf) - m = seq - n)
  <2>1. CASE n >= seq
    <3>1. \A i \in 1..Len(buf) : ~(buf[i].seq > n) /\ ~(i > Len(buf))
      BY <1>1, <2>1
    <3> QED BY <1>1, <2>1, <3>1
  <2>2. CASE n < seq /\ seq - n >= Len(buf)
    <3>1. \A i \in 1..Len(buf) : buf[i].seq > n /\ i > 0
      BY <1>1, <2>2
    <3> QED BY <1>1, <2>2, <3>1
  <2>3. CASE n < seq /\ seq - n < Len(buf)
    <3> DEFINE m == Len(buf) - (seq - n)
    <3>1. m \in 0..Len(buf) /\ Len(buf) - m = seq - n
      BY <1>1, <2>3
    <3>2. \A i \in 1..Len(buf) : buf[i].seq > n <=> i > m
      BY <1>1, <2>3
    <3> HIDE DEF m
    <3> QED BY <1>1, <2>3, <3>1, <3>2
  <2> QED BY <1>1, <2>1, <2>2, <2>3
<1>3. PICK m \in 0..Len(buf) :
        /\ \A i \in 1..Len(buf) : buf[i].seq > n <=> i > m
        /\ n >= seq => m = Len(buf)
        /\ n < seq => Len(buf) - m <= seq - n /\ (m = 0 \/ Len(buf) - m = seq - n)
  BY <1>2
<1>4. After(n) = SubSeq(buf, m + 1, Len(buf))
  BY <1>1, <1>3, FilterIsSuffix DEF After
<1> DEFINE k == Len(buf) - m
<1>5. /\ SubSeq(buf, m + 1, Len(buf)) \in Seq(Events)
      /\ Len(SubSeq(buf, m + 1, Len(buf))) = k
      /\ \A i \in 1..k : SubSeq(buf, m + 1, Len(buf))[i] = buf[m + i]
  BY <1>1, <1>3, SubSeqProperties
<1>6. k \in 0..Len(buf) /\ m = Len(buf) - k
  BY <1>1, <1>3
<1>7. /\ n >= seq => k = 0
      /\ n < seq => k <= seq - n /\ (k = Len(buf) \/ k = seq - n)
  BY <1>1, <1>3
<1> HIDE DEF k
<1> QED BY <1>4, <1>5, <1>6, <1>7

-----------------------------------------------------------------------------
(* Events that open and close turns *)

\* One more event on the way.
LEMMA LeadsFurther ==
  ASSUME NEW p \in Seq(Events), NEW ev \in Events, NEW seen, NEW t, LeadsTo(seen, p, t)
  PROVE  LeadsTo(seen, Append(p, ev), IF ev.name = "delta" THEN t ELSE Shown(ev))
<1> DEFINE q == Append(p, ev)
           u == IF ev.name = "delta" THEN t ELSE Shown(ev)
<1>1. /\ Len(q) = Len(p) + 1 /\ Len(p) \in Nat
      /\ \A i \in 1..Len(p) : q[i] = p[i]
      /\ q[Len(p) + 1] = ev
  BY AppendFacts
<1> HIDE DEF q
<1>2. ASSUME NEW i \in 1..Len(q), q[i].name # "delta",
             \A j \in 1..Len(q) : j > i => q[j].name = "delta"
      PROVE  Shown(q[i]) = u
  <2>1. CASE i = Len(p) + 1
    BY <1>1, <1>2, <2>1
  <2>2. CASE i \in 1..Len(p)
    <3>1. ev.name = "delta"
      <4>1. Len(p) + 1 \in 1..Len(q) /\ Len(p) + 1 > i
        BY <1>1, <2>2
      <4> QED BY <1>1, <1>2, <4>1
    <3>2. \A j \in 1..Len(p) : j > i => p[j].name = "delta"
      <4>1. \A j \in 1..Len(p) : j \in 1..Len(q)
        BY <1>1
      <4> QED BY <1>1, <1>2, <4>1
    <3>3. Shown(p[i]) = t
      BY <1>1, <1>2, <2>2, <3>2 DEF LeadsTo
    <3> QED BY <1>1, <2>2, <3>1, <3>3
  <2> QED BY <1>1, <1>2, <2>1, <2>2
<1>3. ASSUME \A i \in 1..Len(q) : q[i].name = "delta"
      PROVE  seen = u
  <2>1. \A i \in 1..Len(p) : i \in 1..Len(q)
    BY <1>1
  <2>2. Len(p) + 1 \in 1..Len(q)
    BY <1>1
  <2>3. ev.name = "delta"
    BY <1>1, <1>3, <2>2
  <2> QED BY <1>1, <1>3, <2>1, <2>3 DEF LeadsTo
<1> HIDE DEF u
<1>4. LeadsTo(seen, q, u)
  BY <1>2, <1>3 DEF LeadsTo
<1> QED BY <1>4 DEF q, u

\* The first event has been seen.
LEMMA LeadsOn ==
  ASSUME NEW p \in Seq(Events), p # <<>>, NEW seen, NEW t, LeadsTo(seen, p, t)
  PROVE  LeadsTo(IF Head(p).name = "delta" THEN seen ELSE Shown(Head(p)), Tail(p), t)
<1> DEFINE q == Tail(p)
           now == IF Head(p).name = "delta" THEN seen ELSE Shown(Head(p))
<1>1. /\ Len(q) = Len(p) - 1 /\ Len(p) \in Nat /\ Len(p) >= 1
      /\ \A i \in 1..(Len(p) - 1) : q[i] = p[i + 1]
  BY TailFacts
<1>2. Head(p) = p[1]
  OBVIOUS
<1> HIDE DEF q
<1>3. ASSUME NEW i \in 1..Len(q), q[i].name # "delta",
             \A j \in 1..Len(q) : j > i => q[j].name = "delta"
      PROVE  Shown(q[i]) = t
  <2>1. i + 1 \in 1..Len(p) /\ q[i] = p[i + 1]
    BY <1>1
  <2>2. ASSUME NEW j \in 1..Len(p), j > i + 1 PROVE p[j].name = "delta"
    <3>1. j - 1 \in 1..Len(q) /\ j - 1 > i /\ q[j - 1] = p[j]
      BY <1>1, <2>2
    <3> QED BY <1>3, <3>1
  <2> QED BY <1>3, <2>1, <2>2 DEF LeadsTo
<1>4. ASSUME \A i \in 1..Len(q) : q[i].name = "delta"
      PROVE  now = t
  <2>1. ASSUME NEW j \in 1..Len(p), j > 1 PROVE p[j].name = "delta"
    <3>1. j - 1 \in 1..Len(q) /\ q[j - 1] = p[j]
      BY <1>1, <2>1
    <3> QED BY <1>4, <3>1
  <2>2. 1 \in 1..Len(p)
    BY <1>1
  <2>3. CASE p[1].name = "delta"
    <3>1. \A j \in 1..Len(p) : p[j].name = "delta"
      <4> TAKE j \in 1..Len(p)
      <4>1. CASE j = 1 BY <2>3, <4>1
      <4>2. CASE j > 1 BY <2>1, <4>2
      <4> QED BY <1>1, <4>1, <4>2
    <3> QED BY <1>2, <2>3, <3>1 DEF LeadsTo
  <2>4. CASE p[1].name # "delta"
    BY <1>2, <2>1, <2>2, <2>4 DEF LeadsTo
  <2> QED BY <2>3, <2>4
<1> HIDE DEF now
<1>5. LeadsTo(now, q, t)
  BY <1>3, <1>4 DEF LeadsTo
<1> QED BY <1>5 DEF q, now

\* Who sees where all events lead need only take the newest.
LEMMA LeadsSooner ==
  ASSUME NEW p \in Seq(Events), NEW q \in Seq(Events), Len(q) <= Len(p),
         \A i \in 1..Len(q) : q[i] = p[Len(p) - Len(q) + i],
         NEW t, LeadsTo(t, p, t)
  PROVE  LeadsTo(t, q, t)
<1> SUFFICES ASSUME NEW i \in 1..Len(q), q[i].name # "delta",
                    \A j \in 1..Len(q) : j > i => q[j].name = "delta"
             PROVE  Shown(q[i]) = t
  BY DEF LeadsTo
<1> DEFINE skip == Len(p) - Len(q)
<1>1. skip \in Nat /\ Len(p) = skip + Len(q) /\ Len(q) \in Nat
  OBVIOUS
<1>2. \A j \in 1..Len(q) : q[j] = p[skip + j]
  OBVIOUS
<1> HIDE DEF skip
<1>3. skip + i \in 1..Len(p) /\ q[i] = p[skip + i]
  BY <1>1, <1>2
<1>4. ASSUME NEW j \in 1..Len(p), j > skip + i PROVE p[j].name = "delta"
  <2>1. j - skip \in 1..Len(q) /\ j - skip > i
    BY <1>1, <1>4
  <2>2. p[j] = q[j - skip]
    BY <1>1, <1>2, <2>1
  <2> QED BY <2>1, <2>2
<1> QED BY <1>3, <1>4 DEF LeadsTo

\* A turn's events: the turn a started event opens is numbered by its seq.
LEMMA PublishEventIsPublish ==
  ASSUME HubInv, PublishEvent
  PROVE  \E t \in Turns, name \in Names : Publish(t, name)
<1>1. CASE Publish(seq + 1, "turn_started")
  <2>1. seq \in 0..MaxSeq /\ seq < MaxSeq
    BY <1>1 DEF HubInv, HubTypes, Publish
  <2>2. seq + 1 \in Turns
    BY <2>1, HubAssumption DEF Turns
  <2> QED BY <1>1, <2>2 DEF Names
<1>2. CASE currentTurn # 0
           /\ \E name \in {"delta", "turn_finished"} : Publish(currentTurn, name)
  <2>1. currentTurn \in Turns
    BY <1>2 DEF HubInv, HubTypes
  <2> QED BY <1>2, <2>1 DEF Names
<1> QED BY <1>1, <1>2 DEF PublishEvent

\* Every step of the stream is a step of the hub or leaves it alone.
LEMMA StreamStepIsHubStep == HubInv /\ [Next]_vars => [HubNext]_hubVars
<1> SUFFICES ASSUME HubInv, [Next]_vars PROVE [HubNext]_hubVars
  OBVIOUS
<1>1. CASE PublishEvent
  BY <1>1, PublishEventIsPublish DEF HubNext
<1>2. CASE Evict
  BY <1>2 DEF Evict, HubNext
<1>3. CASE \E c \in Clients : HandleSubscribe(c)
  BY <1>3 DEF HandleSubscribe, HubNext, Clients
<1>4. CASE \E c \in Clients : WriteLive(c)
  BY <1>4 DEF WriteLive, HubNext, Clients
<1>5. CASE \E c \in Clients : Break(c)
  BY <1>5 DEF Break, HubNext, Clients
<1>6. CASE \E c \in Clients : \/ Connect(c) \/ WriteSync(c) \/ WriteBacklog(c)
                              \/ BacklogDone(c) \/ HandlerEnds(c)
  BY <1>6 DEF Connect, WriteSync, WriteBacklog, BacklogDone, HandlerEnds
<1>7. CASE UNCHANGED vars
  BY <1>7 DEF vars
<1> QED BY <1>1, <1>2, <1>3, <1>4, <1>5, <1>6, <1>7 DEF Next, HandlerNext

\* Connections, breaks, evictions and turns drive the hub only through the
\* operations hub.go offers, in states where each may be called.
THEOREM StreamImplementsHub == Spec => HubSpec
<1>1. Init => HubInit /\ HubInv
  BY HubInitHolds DEF Init
<1>2. HubInv /\ [Next]_vars => HubInv'
  BY StreamStepIsHubStep, HubStep
<1>3. HubInv /\ [Next]_vars => [HubNext]_hubVars
  BY StreamStepIsHubStep
<1> QED BY <1>1, <1>2, <1>3, PTL DEF Spec, HubSpec

\* publish trims the replay buffer to the window of the latest events, for
\* every capacity and however many events the turns publish.
THEOREM BufferIsWindow == Spec => []BufferWindow
<1>1. HubInv => BufferWindow
  BY DEF HubInv
<1> QED BY <1>1, StreamImplementsHub, HubInvariance, PTL

\* A subscriber's channel never skips an event, for any number of subscribers
\* and any channel capacity: publish drops a slow one instead.
THEOREM ChannelNeverSkips == Spec => []ChannelGapless
<1>1. HubInv => ChannelGapless
  BY DEF HubInv
<1> QED BY <1>1, StreamImplementsHub, HubInvariance, PTL

\* The replay buffer and the channels of the live stream together skip no event
\* (hub.publish, hub.subscribe), whatever the handlers and evictions do.
THEOREM HubHasNoGaps == Spec => []HubIsGapless
<1>1. HubInv => HubIsGapless
  BY DEF HubInv, HubIsGapless
<1> QED BY <1>1, StreamImplementsHub, HubInvariance, PTL

-----------------------------------------------------------------------------
(* What each client is still to get *)

\* What the stream's own invariant says of the hub.
LEMMA HubPart == StreamInv => HubInv
BY DEF StreamInv, TypeOK, HubIsGapless, HubInv

\* A step of one client is no step of another.
LEMMA OthersKeep ==
  ASSUME StreamInv, NEW c \in Clients, NEW d \in Clients, d # c,
         Connect(c) \/ HandlerNext(c) \/ Break(c)
  PROVE  Joins(d)' /\ Resumes(d)' /\ Catches(d)'
<1>1. /\ conn' \in [Clients -> {"off", "loaded", "sync", "backlog", "live"}]
      /\ conn'[d] = conn[d] /\ backlog'[d] = backlog[d] /\ sync'[d] = sync[d]
      /\ last'[d] = last[d] /\ view'[d] = view[d] /\ got'[d] = got[d]
      /\ lost'[d] = lost[d] /\ chan'[d] = chan[d] /\ next'[d] = next[d]
      /\ seq' = seq /\ currentTurn' = currentTurn
      /\ d \in subs' => d \in subs
  <2> USE DEF StreamInv, TypeOK, HubTypes, Clients
  <2>1. CASE Connect(c) BY <2>1 DEF Connect, hubVars
  <2>2. CASE HandleSubscribe(c) BY <2>2 DEF HandleSubscribe, Subscribe
  <2>3. CASE WriteSync(c) BY <2>3 DEF WriteSync, hubVars
  <2>4. CASE WriteBacklog(c) BY <2>4 DEF WriteBacklog, Deliver, hubVars
  <2>5. CASE BacklogDone(c) BY <2>5 DEF BacklogDone, hubVars
  <2>6. CASE WriteLive(c) BY <2>6 DEF WriteLive, Deliver, Receive
  <2>7. CASE HandlerEnds(c) BY <2>7 DEF HandlerEnds, hubVars
  <2>8. CASE Break(c) BY <2>8 DEF Break, Unsubscribe
  <2> QED BY <2>1, <2>2, <2>3, <2>4, <2>5, <2>6, <2>7, <2>8 DEF HandlerNext
<1>2. Joins(d) /\ Resumes(d) /\ Catches(d)
  BY DEF StreamInv
<1>3. Joins(d)'
  BY <1>1, <1>2 DEF Joins, Connected, Due
<1>4. Resumes(d)'
  BY <1>1, <1>2 DEF Resumes, Connected, Due
<1>5. Catches(d)'
  BY <1>1, <1>2 DEF Catches, Connected, Sees, Pending
<1> QED BY <1>3, <1>4, <1>5

\* The handler subscribes: the backlog reaches up to the first event the
\* channel will get, and leads to the current turn.
LEMMA SubscribeJoins ==
  ASSUME StreamInv, NEW c \in Clients, HandleSubscribe(c)
  PROVE  Joins(c)' /\ Resumes(c)' /\ Catches(c)'
<1>1. /\ conn'[c] = "sync" /\ backlog'[c] = After(last[c])
      /\ sync'[c] = [turn |-> currentTurn, seq |-> seq]
      /\ lost'[c] = lost[c] \cup ((last[c] + 1)..(seq - Len(buf)))
      /\ next'[c] = seq + 1 /\ chan'[c] = <<>>
      /\ last' = last /\ view' = view /\ got' = got
      /\ seq' = seq /\ currentTurn' = currentTurn
  BY DEF HandleSubscribe, Subscribe, StreamInv, TypeOK, HubTypes, Clients
<1>2. last[c] \in Nat /\ seq \in Nat /\ buf \in Seq(Events) /\ Len(buf) \in Nat
  BY StreamAssumption, HubAssumption DEF StreamInv, TypeOK, HubTypes
<1>3. PICK k \in 0..Len(buf) :
        /\ After(last[c]) \in Seq(Events) /\ Len(After(last[c])) = k
        /\ \A i \in 1..k : After(last[c])[i] = buf[Len(buf) - k + i]
        /\ last[c] >= seq => k = 0
        /\ last[c] < seq => k <= seq - last[c] /\ (k = Len(buf) \/ k = seq - last[c])
  BY <1>2, HubPart, AfterFacts
<1>4. \A i \in 1..Len(buf) : buf[i].seq = seq - Len(buf) + i
  BY DEF StreamInv, HubIsGapless, BufferWindow
<1>5. Due(c)' = seq + 1 - k
  <2>1. next'[c] = seq + 1 /\ Len(backlog'[c]) = k
    BY <1>1, <1>3
  <2>2. Due(c)' = next'[c] - Len(backlog'[c])
    BY DEF Due
  <2> QED BY <1>2, <2>1, <2>2
<1>6. Joins(c)'
  <2>1. ASSUME NEW i \in 1..Len(backlog'[c]) PROVE backlog'[c][i].seq = Due(c)' + i - 1
    <3>1. i \in 1..k /\ backlog'[c][i] = buf[Len(buf) - k + i]
      BY <1>1, <1>3
    <3>2. Len(buf) - k + i \in 1..Len(buf)
      BY <1>2, <3>1
    <3> QED BY <1>2, <1>4, <1>5, <3>1, <3>2
  <2> QED BY <1>1, <2>1 DEF Joins
<1>7. Resumes(c)'
  <2> SUFFICES ASSUME c \in IdClients
               PROVE  /\ last'[c] <= seq' /\ got'[c] \subseteq 1..last'[c]
                      /\ 1..last'[c] \subseteq got'[c] \cup lost'[c]
                      /\ last'[c] < Due(c)'
                      /\ (last'[c] + 1)..(Due(c)' - 1) \subseteq lost'[c]
    BY DEF Resumes
  <2>1. last[c] <= seq /\ got[c] \subseteq 1..last[c] /\ 1..last[c] \subseteq got[c] \cup lost[c]
    BY DEF StreamInv, Resumes
  <2>2. CASE k = seq - last[c]
    <3>1. Due(c)' = last[c] + 1
      BY <1>2, <1>5, <2>2
    <3>2. (last[c] + 1)..(Due(c)' - 1) = {}
      BY <1>2, <3>1
    <3> QED BY <1>1, <1>2, <2>1, <3>1, <3>2
  <2>3. CASE last[c] < seq /\ k = Len(buf) /\ k <= seq - last[c]
    BY <1>1, <1>2, <1>5, <2>1, <2>3
  <2> QED BY <1>2, <1>3, <2>1, <2>2, <2>3
<1>8. Catches(c)'
  <2>1. Pending(c)' = After(last[c])
    <3>1. After(last[c]) \o <<>> = After(last[c])
      BY <1>3, ConcatEmptySeq
    <3> QED BY <1>1, <3>1 DEF Pending
  <2>2. Sees(c)' = currentTurn
    BY <1>1 DEF Sees
  <2>3. LeadsTo(currentTurn, buf, currentTurn)
    BY DEF StreamInv
  <2>4. LeadsTo(currentTurn, After(last[c]), currentTurn)
    BY <1>2, <1>3, <2>3, LeadsSooner
  <2> QED BY <1>1, <2>1, <2>2, <2>4 DEF Catches
<1> QED BY <1>6, <1>7, <1>8

\* The handler connects, writes the sync frame, is done with the backlog,
\* returns or loses its connection.
LEMMA QuietKeeps ==
  ASSUME StreamInv, NEW c \in Clients,
         \/ Connect(c) \/ WriteSync(c) \/ BacklogDone(c) \/ HandlerEnds(c) \/ Break(c)
  PROVE  Joins(c)' /\ Resumes(c)' /\ Catches(c)'
<1>0. Joins(c) /\ Resumes(c) /\ Catches(c)
  BY DEF StreamInv
<1>1. CASE Connect(c) \/ HandlerEnds(c) \/ Break(c)
  <2>1. /\ conn'[c] \in {"off", "loaded"}
        /\ last' = last /\ got' = got /\ lost' = lost /\ seq' = seq
    BY <1>1 DEF Connect, HandlerEnds, Break, Unsubscribe, hubVars, StreamInv, TypeOK
  <2> QED BY <1>0, <2>1 DEF Joins, Resumes, Catches, Connected
<1>2. CASE WriteSync(c)
  <2>1. /\ conn[c] = "sync" /\ conn'[c] = "backlog" /\ view'[c] = sync[c].turn
        /\ c \in IdClients => last'[c] = last[c]
        /\ UNCHANGED <<hubVars, backlog, got, lost>>
    BY <1>2 DEF WriteSync, StreamInv, TypeOK, IdClients
  <2>2. Joins(c)'
    BY <1>0, <2>1 DEF Joins, Connected, Due, hubVars
  <2>3. Resumes(c)'
    BY <1>0, <2>1 DEF Resumes, Connected, Due, hubVars
  <2>4. Catches(c)'
    BY <1>0, <2>1 DEF Catches, Connected, Sees, Pending, hubVars
  <2> QED BY <2>2, <2>3, <2>4
<1>3. CASE BacklogDone(c)
  <2>1. /\ conn[c] = "backlog" /\ conn'[c] = "live" /\ backlog[c] = <<>>
        /\ UNCHANGED <<hubVars, backlog, sync, last, view, got, lost>>
    BY <1>3 DEF BacklogDone, StreamInv, TypeOK
  <2>2. Joins(c)'
    BY <1>0, <2>1 DEF Joins, Connected, Due, hubVars
  <2>3. Resumes(c)'
    BY <1>0, <2>1 DEF Resumes, Connected, Due, hubVars
  <2>4. Catches(c)'
    BY <1>0, <2>1 DEF Catches, Connected, Sees, Pending, hubVars
  <2> QED BY <2>2, <2>3, <2>4
<1> QED BY <1>1, <1>2, <1>3

\* The client takes the event it is due, which leaves the rest.
LEMMA DeliverKeeps ==
  ASSUME StreamInv, NEW c \in Clients, WriteBacklog(c) \/ WriteLive(c)
  PROVE  Joins(c)' /\ Resumes(c)' /\ Catches(c)'
<1>0. Joins(c) /\ Resumes(c) /\ Catches(c) /\ Connected(c)
  BY DEF StreamInv, WriteBacklog, WriteLive, Connected
<1>1. /\ backlog[c] \in Seq(Events) /\ chan[c] \in Seq(Events) /\ next[c] \in Nat
      /\ Len(backlog[c]) \in Nat /\ seq \in Nat /\ last[c] \in Nat
  BY HubAssumption, StreamAssumption DEF StreamInv, TypeOK, HubTypes, Clients
<1> DEFINE ev == Head(Pending(c))
<1>2. /\ ev \in Events /\ ev.seq = Due(c) /\ Pending(c) # <<>> /\ Pending(c) \in Seq(Events)
      /\ Pending(c)' = Tail(Pending(c)) /\ Due(c)' = Due(c) + 1 /\ Due(c) <= seq
      /\ Deliver(c, ev) /\ conn' = conn /\ conn[c] # "sync"
      /\ UNCHANGED <<seq, currentTurn, subs, lost>>
      /\ Joins(c)'
  <2>1. CASE WriteBacklog(c)
    <3>1. /\ conn[c] = "backlog" /\ backlog[c] # <<>> /\ Deliver(c, Head(backlog[c]))
          /\ backlog'[c] = Tail(backlog[c]) /\ UNCHANGED <<hubVars, conn, sync, lost>>
      BY <2>1 DEF WriteBacklog, StreamInv, TypeOK
    <3>2. /\ Head(backlog[c]) = backlog[c][1] /\ Head(backlog[c]) \in Events
          /\ Tail(backlog[c]) \in Seq(Events) /\ Len(Tail(backlog[c])) = Len(backlog[c]) - 1
          /\ Len(backlog[c]) >= 1
          /\ \A i \in 1..(Len(backlog[c]) - 1) : Tail(backlog[c])[i] = backlog[c][i + 1]
      BY <1>1, <3>1, TailFacts
    <3>3. backlog[c][1].seq = Due(c)
      BY <1>0, <1>1, <3>2 DEF Joins, Due
    <3>4. /\ Pending(c) # <<>> /\ Head(Pending(c)) = Head(backlog[c])
          /\ Pending(c) \in Seq(Events)
          /\ Tail(Pending(c)) = Tail(backlog[c]) \o chan[c]
      <4>1. /\ backlog[c] \o chan[c] # <<>> /\ backlog[c] \o chan[c] \in Seq(Events)
            /\ Head(backlog[c] \o chan[c]) = Head(backlog[c])
            /\ Tail(backlog[c] \o chan[c]) = Tail(backlog[c]) \o chan[c]
        <5> DEFINE p == backlog[c]
                   q == chan[c]
        <5>1. p \in Seq(Events) /\ q \in Seq(Events) /\ p # <<>>
          BY <1>1, <3>1
        <5> HIDE DEF Events, p, q
        <5>2. /\ p \o q # <<>> /\ p \o q \in Seq(Events) /\ Head(p \o q) = Head(p)
              /\ Tail(p \o q) = Tail(p) \o q
          BY <5>1, ConcatFacts
        <5> QED BY <5>2 DEF p, q
      <4> QED BY <4>1 DEF Pending
    <3>5. Due(c)' = Due(c) + 1
      BY <1>1, <3>1, <3>2 DEF Due, hubVars
    <3>6. Joins(c)'
      <4>1. ASSUME NEW i \in 1..Len(backlog'[c]) PROVE backlog'[c][i].seq = Due(c)' + i - 1
        <5>1. i + 1 \in 1..Len(backlog[c]) /\ backlog'[c][i] = backlog[c][i + 1]
          BY <1>1, <3>1, <3>2
        <5>2. backlog[c][i + 1].seq = Due(c) + (i + 1) - 1
          BY <1>0, <5>1 DEF Joins
        <5> QED BY <1>1, <3>5, <5>1, <5>2 DEF Due
      <4> QED BY <3>1, <4>1 DEF Joins
    <3>7. Due(c) <= seq
      <4>1. next[c] <= seq + 1
        BY <1>1 DEF StreamInv, HubIsGapless, ChannelGapless, Clients
      <4> QED BY <1>1, <3>2, <4>1 DEF Due
    <3> QED BY <3>1, <3>2, <3>3, <3>4, <3>5, <3>6, <3>7 DEF Pending, hubVars
  <2>2. CASE WriteLive(c)
    <3>1. /\ conn[c] = "live" /\ chan[c] # <<>> /\ Deliver(c, Head(chan[c]))
          /\ chan'[c] = Tail(chan[c]) /\ next'[c] = next[c] + 1
          /\ UNCHANGED <<seq, currentTurn, subs, conn, backlog, sync, lost>>
      BY <2>2 DEF WriteLive, Receive, StreamInv, TypeOK, HubTypes, Clients
    <3>2. backlog[c] = <<>>
      BY <1>0, <3>1 DEF Joins
    <3>3. Pending(c) = chan[c] /\ Pending(c)' = Tail(chan[c])
      BY <1>1, <3>1, <3>2 DEF Pending
    <3>4. Due(c) = next[c] /\ Due(c)' = next[c] + 1
      BY <1>1, <3>1, <3>2 DEF Due
    <3>5. Head(chan[c]) = chan[c][1] /\ Head(chan[c]) \in Events /\ 1 \in 1..Len(chan[c])
      BY <1>1, <3>1
    <3>6. chan[c][1].seq = next[c] /\ next[c] <= seq
      BY <1>1, <3>5 DEF StreamInv, HubIsGapless, ChannelGapless, Clients
    <3>7. Joins(c)'
      BY <3>1, <3>2 DEF Joins
    <3> QED BY <1>1, <3>1, <3>3, <3>4, <3>5, <3>6, <3>7
  <2> QED BY <2>1, <2>2
<1>3. /\ last'[c] = ev.seq /\ got'[c] = got[c] \cup {ev.seq}
      /\ view'[c] = CASE ev.name = "turn_started" -> ev.turn
                      [] ev.name = "turn_finished" -> 0
                      [] OTHER -> view[c]
  BY <1>2 DEF Deliver, StreamInv, TypeOK
<1> HIDE DEF ev
<1>4. Resumes(c)'
  <2> SUFFICES ASSUME c \in IdClients
               PROVE  /\ last'[c] <= seq' /\ got'[c] \subseteq 1..last'[c]
                      /\ 1..last'[c] \subseteq got'[c] \cup lost'[c]
                      /\ last'[c] < Due(c)'
                      /\ (last'[c] + 1)..(Due(c)' - 1) \subseteq lost'[c]
    BY DEF Resumes
  <2>1. /\ last[c] < Due(c) /\ got[c] \subseteq 1..last[c]
        /\ 1..last[c] \subseteq got[c] \cup lost[c]
        /\ (last[c] + 1)..(Due(c) - 1) \subseteq lost[c]
    BY <1>0 DEF Resumes
  <2>2. Due(c) \in Int
    BY <1>1 DEF Due
  <2>3. last'[c] = Due(c) /\ got'[c] = got[c] \cup {Due(c)} /\ lost' = lost /\ seq' = seq
    BY <1>2, <1>3
  <2>4. got'[c] \subseteq 1..last'[c] /\ last'[c] < Due(c)' /\ last'[c] <= seq'
    BY <1>1, <1>2, <2>1, <2>2, <2>3
  <2>5. 1..last'[c] \subseteq got'[c] \cup lost'[c]
    BY <1>1, <2>1, <2>2, <2>3
  <2>6. (last'[c] + 1)..(Due(c)' - 1) = {}
    BY <1>2, <2>2, <2>3
  <2> QED BY <2>4, <2>5, <2>6
<1>5. Catches(c)'
  <2> SUFFICES ASSUME c \in subs PROVE LeadsTo(Sees(c)', Pending(c)', currentTurn)
    BY <1>2 DEF Catches
  <2>1. LeadsTo(view[c], Pending(c), currentTurn)
    BY <1>0, <1>2 DEF Catches, Sees
  <2>2. LeadsTo(IF ev.name = "delta" THEN view[c] ELSE Shown(ev), Tail(Pending(c)), currentTurn)
    BY <1>2, <2>1, LeadsOn DEF ev
  <2>3. Sees(c)' = IF ev.name = "delta" THEN view[c] ELSE Shown(ev)
    BY <1>2, <1>3 DEF Sees, Shown, Events, Names
  <2> QED BY <1>2, <2>2, <2>3
<1> QED BY <1>2, <1>4, <1>5

\* One more event for every subscriber that can take it; a slow one is cut off.
LEMMA PublishAppends ==
  ASSUME StreamInv, NEW c \in Clients, NEW t \in Turns, NEW name \in Names, Publish(t, name),
         UNCHANGED streamVars
  PROVE  Joins(c)' /\ Resumes(c)'
<1>1. /\ next' = next /\ seq' = seq + 1 /\ seq \in Nat
      /\ last[c] \in Nat
  BY HubAssumption, StreamAssumption DEF StreamInv, TypeOK, HubTypes, Publish
<1>2. UNCHANGED <<conn, backlog, last, got, lost>>
  BY DEF streamVars
<1>3. Joins(c) /\ Resumes(c)
  BY DEF StreamInv
<1>4. Joins(c)'
  BY <1>1, <1>2, <1>3 DEF Joins, Connected, Due
<1>5. Resumes(c)'
  <2> SUFFICES ASSUME c \in IdClients
               PROVE  /\ last'[c] <= seq' /\ got'[c] \subseteq 1..last'[c]
                      /\ 1..last'[c] \subseteq got'[c] \cup lost'[c]
                      /\ Connected(c)' =>
                           /\ last'[c] < Due(c)'
                           /\ (last'[c] + 1)..(Due(c)' - 1) \subseteq lost'[c]
    BY DEF Resumes
  <2>1. Due(c)' = Due(c) /\ Connected(c)' = Connected(c)
    BY <1>1, <1>2 DEF Due, Connected
  <2>2. last[c] <= seq' 
    BY <1>1, <1>3 DEF Resumes
  <2> QED BY <1>2, <1>3, <2>1, <2>2 DEF Resumes
<1> QED BY <1>4, <1>5

\* The turn that runs once an event is published.
LEMMA PublishedTurn ==
  ASSUME PublishEvent, HubInv
  PROVE  \E ev \in Events :
           /\ ev.seq = seq + 1
           /\ Publish(ev.turn, ev.name)
           /\ currentTurn' = IF ev.name = "delta" THEN currentTurn ELSE Shown(ev)
           /\ buf' = Trim(Append(buf, ev))
           /\ \A c \in subs' : chan'[c] = Append(chan[c], ev)
           /\ subs' \subseteq subs
<1>1. PICK t \in Turns, name \in Names : Publish(t, name)
  BY PublishEventIsPublish
<1> DEFINE ev == [seq |-> seq + 1, name |-> name, turn |-> t]
           fits == {c \in subs : Len(chan[c]) < ChanCap}
<1>2. /\ seq \in Nat /\ seq < MaxSeq /\ MaxSeq \in Nat /\ subs \subseteq Chans
  BY <1>1, HubAssumption DEF HubInv, HubTypes, Publish
<1>3. ev \in Events /\ ev.seq = seq + 1 /\ ev.name = name /\ ev.turn = t
  BY <1>2 DEF Events
<1>4. /\ buf' = Trim(Append(buf, ev)) /\ subs' = fits
      /\ chan' = [c \in Chans |-> IF c \in fits THEN Append(chan[c], ev) ELSE chan[c]]
      /\ currentTurn' = CASE name = "turn_started" -> t
                          [] name = "turn_finished" -> 0
                          [] OTHER -> currentTurn
  BY <1>1 DEF Publish
<1>5. currentTurn' = IF ev.name = "delta" THEN currentTurn ELSE Shown(ev)
  BY <1>3, <1>4 DEF Names, Shown
<1>6. subs' \subseteq subs /\ \A c \in subs' : chan'[c] = Append(chan[c], ev)
  BY <1>2, <1>4
<1> HIDE DEF ev
<1> QED BY <1>1, <1>3, <1>4, <1>5, <1>6

\* Every client is led to the turn that runs now, and so is who starts from
\* the buffer.
LEMMA PublishLeads ==
  ASSUME StreamInv, PublishEvent
  PROVE  /\ LeadsTo(currentTurn', buf', currentTurn')
         /\ \A c \in Clients : Catches(c)'
<1>0. HubInv
  BY HubPart
<1>1. PICK ev \in Events :
        /\ ev.seq = seq + 1
        /\ Publish(ev.turn, ev.name)
        /\ currentTurn' = IF ev.name = "delta" THEN currentTurn ELSE Shown(ev)
        /\ buf' = Trim(Append(buf, ev))
        /\ \A c \in subs' : chan'[c] = Append(chan[c], ev)
        /\ subs' \subseteq subs
  BY <1>0, PublishedTurn
<1>2. LeadsTo(currentTurn', buf', currentTurn')
  <2> DEFINE b == Append(buf, ev)
  <2>1. buf \in Seq(Events) /\ Len(buf) <= BufCap /\ LeadsTo(currentTurn, buf, currentTurn)
    BY DEF StreamInv, TypeOK, HubTypes, HubIsGapless, BufferWindow
  <2>2. b \in Seq(Events) /\ Len(b) <= BufCap + 1 /\ Len(b) \in Nat
    BY <1>1, <2>1
  <2>3. LeadsTo(currentTurn, b, currentTurn')
    BY <1>1, <2>1, LeadsFurther
  <2>4. LeadsTo(currentTurn', b, currentTurn')
    <3>1. CASE currentTurn' = currentTurn
      BY <2>3, <3>1
    <3>2. CASE ev.name # "delta"
      <4>1. Len(b) \in 1..Len(b) /\ b[Len(b)].name # "delta"
        BY <1>1, <2>1, <3>2
      <4> HIDE DEF b
      <4>2. ~ \A i \in 1..Len(b) : b[i].name = "delta"
        BY <4>1
      <4> QED BY <2>3, <4>2 DEF LeadsTo
    <3> QED BY <1>1, <3>1, <3>2
  <2> HIDE DEF b
  <2>5. CASE Len(b) <= BufCap
    BY <1>1, <2>2, <2>4, <2>5, TrimFacts DEF b
  <2>6. CASE Len(b) = BufCap + 1
    <3>1. /\ buf' \in Seq(Events) /\ Len(buf') = BufCap
          /\ \A i \in 1..BufCap : buf'[i] = b[i + 1]
      BY <1>1, <2>2, <2>6, TrimFacts DEF b
    <3>2. Len(buf') <= Len(b) /\ \A i \in 1..Len(buf') : buf'[i] = b[Len(b) - Len(buf') + i]
      BY <2>2, <2>6, <3>1
    <3> QED BY <2>2, <2>4, <3>1, <3>2, LeadsSooner
  <2> QED BY <2>2, <2>5, <2>6
<1>3. ASSUME NEW c \in Clients PROVE Catches(c)'
  <2> SUFFICES ASSUME Connected(c)', c \in subs'
               PROVE  LeadsTo(Sees(c)', Pending(c)', currentTurn')
    BY DEF Catches
  <2>1. UNCHANGED <<conn, backlog, sync, view>>
    BY DEF PublishEvent, streamVars
  <2>2. LeadsTo(Sees(c), Pending(c), currentTurn)
    BY <1>1, <2>1 DEF StreamInv, Catches, Connected
  <2>3. backlog[c] \in Seq(Events) /\ chan[c] \in Seq(Events)
    BY DEF StreamInv, TypeOK, HubTypes, Clients
  <2>4. Pending(c) \in Seq(Events) /\ Pending(c)' = Append(Pending(c), ev)
    <3>1. Pending(c)' = backlog[c] \o Append(chan[c], ev)
      BY <1>1, <2>1 DEF Pending
    <3>2. /\ backlog[c] \o Append(chan[c], ev) = Append(backlog[c] \o chan[c], ev)
          /\ backlog[c] \o chan[c] \in Seq(Events)
      <4> HIDE DEF Events
      <4> QED BY <1>1, <2>3, ConcatAppend
    <3> QED BY <3>1, <3>2 DEF Pending
  <2>5. Sees(c)' = Sees(c)
    BY <2>1 DEF Sees
  <2>6. LeadsTo(Sees(c), Append(Pending(c), ev), currentTurn')
    BY <1>1, <2>2, <2>4, LeadsFurther
  <2> QED BY <2>4, <2>5, <2>6
<1> QED BY <1>2, <1>3

\* Publishing keeps what each client is still to get.
LEMMA PublishEventKeeps ==
  ASSUME StreamInv, PublishEvent
  PROVE  /\ LeadsTo(currentTurn', buf', currentTurn')
         /\ \A c \in Clients : Joins(c)' /\ Resumes(c)' /\ Catches(c)'
<1>1. \E t \in Turns, name \in Names : Publish(t, name)
  BY HubPart, PublishEventIsPublish
<1>2. UNCHANGED streamVars
  BY DEF PublishEvent
<1> QED BY <1>1, <1>2, PublishAppends, PublishLeads

\* Evicting the session drops every subscriber and changes nothing else.
LEMMA EvictKeeps ==
  ASSUME StreamInv, Evict
  PROVE  \A c \in Clients : Joins(c)' /\ Resumes(c)' /\ Catches(c)'
<1> TAKE c \in Clients
<1>1. /\ Joins(c) /\ Resumes(c)
      /\ UNCHANGED <<seq, next, conn, backlog, last, got, lost>> /\ subs' = {}
  BY DEF StreamInv, Evict, CloseAll
<1>2. Joins(c)'
  BY <1>1 DEF Joins, Connected, Due
<1>3. Resumes(c)'
  BY <1>1 DEF Resumes, Connected, Due
<1>4. Catches(c)'
  BY <1>1 DEF Catches
<1> QED BY <1>2, <1>3, <1>4


\* The event a client is due next, as a number.
LEMMA DueType ==
  ASSUME StreamInv, NEW c \in Clients
  PROVE  Due(c) \in Int /\ last[c] \in Nat
<1>1. /\ next[c] \in Nat /\ backlog[c] \in Seq(Events) /\ last[c] \in Nat
  BY HubAssumption, StreamAssumption DEF StreamInv, TypeOK, HubTypes, Clients
<1>2. Len(backlog[c]) \in Nat
  BY <1>1
<1> QED BY <1>1, <1>2 DEF Due

\* Backlog and channel together are numbered from there on.
LEMMA PendingSeqs ==
  ASSUME StreamInv, NEW c \in Clients, Connected(c), NEW i \in DOMAIN Pending(c)
  PROVE  i \in Nat /\ i >= 1 /\ Pending(c)[i].seq = Due(c) + i - 1
<1> DEFINE p == backlog[c]
           q == chan[c]
<1>1. p \in Seq(Events) /\ q \in Seq(Events) /\ next[c] \in Nat
  BY HubAssumption DEF StreamInv, TypeOK, HubTypes, Clients
<1>2. /\ \A n \in 1..Len(p) : p[n].seq = Due(c) + n - 1
      /\ \A n \in 1..Len(q) : q[n].seq = next[c] + n - 1
      /\ Due(c) = next[c] - Len(p)
  BY DEF StreamInv, Joins, HubIsGapless, ChannelGapless, Clients, Due
<1> HIDE DEF p, q
<1>3. /\ p \o q \in Seq(Events) /\ Len(p \o q) = Len(p) + Len(q)
      /\ Len(p) \in Nat /\ Len(q) \in Nat
      /\ \A n \in 1..Len(p) : (p \o q)[n] = p[n]
      /\ \A n \in 1..Len(q) : (p \o q)[Len(p) + n] = q[n]
  <2> HIDE DEF Events
  <2> QED BY <1>1
<1>4. i \in 1..(Len(p) + Len(q)) /\ Pending(c)[i] = (p \o q)[i]
  <2>1. Pending(c) = p \o q
    BY DEF Pending, p, q
  <2>2. DOMAIN (p \o q) = 1..(Len(p) + Len(q))
    BY <1>3
  <2> QED BY <2>1, <2>2
<1>5. CASE i \in 1..Len(p)
  BY <1>2, <1>3, <1>4, <1>5
<1>6. CASE i > Len(p)
  <2> DEFINE n == i - Len(p)
  <2>1. n \in 1..Len(q) /\ i = Len(p) + n
    BY <1>3, <1>4, <1>6
  <2> HIDE DEF n
  <2>2. (p \o q)[i] = q[n] /\ q[n].seq = next[c] + n - 1
    BY <1>2, <1>3, <2>1
  <2> QED BY <1>1, <1>2, <1>3, <1>4, <2>1, <2>2
<1> QED BY <1>3, <1>4, <1>5, <1>6


-----------------------------------------------------------------------------
(* Types *)

\* An event's number, name and turn.
LEMMA EventTypes ==
  ASSUME NEW ev \in Events
  PROVE  /\ ev.seq \in 1..MaxSeq /\ ev.seq \in 0..(MaxSeq + MaxStale)
         /\ ev.name \in Names /\ ev.turn \in Turns
BY HubAssumption, StreamAssumption DEF Events

\* Every step keeps the types of the handlers and of the clients.
LEMMA TypesKeep ==
  ASSUME StreamInv, [Next]_vars
  PROVE  TypeOK'
<1>0. HubTypes'
  BY HubPart, StreamStepIsHubStep, HubStep DEF HubInv
<1>1. /\ HubTypes
      /\ conn \in [Clients -> {"off", "loaded", "sync", "backlog", "live"}]
      /\ backlog \in [Clients -> Seq(Events)]
      /\ sync \in [Clients -> [turn : Turns \cup {0}, seq : 0..MaxSeq]]
      /\ last \in [Clients -> 0..(MaxSeq + MaxStale)]
      /\ view \in [Clients -> Turns \cup {0}]
      /\ got \in [Clients -> SUBSET (1..MaxSeq)]
      /\ lost \in [Clients -> SUBSET (1..MaxSeq)]
      /\ retired \in BOOLEAN /\ breaks \in 0..MaxBreaks
  BY DEF StreamInv, TypeOK
<1> DEFINE Typed ==
      /\ conn \in [Clients -> {"off", "loaded", "sync", "backlog", "live"}]
      /\ backlog \in [Clients -> Seq(Events)]
      /\ sync \in [Clients -> [turn : Turns \cup {0}, seq : 0..MaxSeq]]
      /\ last \in [Clients -> 0..(MaxSeq + MaxStale)]
      /\ view \in [Clients -> Turns \cup {0}]
      /\ got \in [Clients -> SUBSET (1..MaxSeq)]
      /\ lost \in [Clients -> SUBSET (1..MaxSeq)]
      /\ retired \in BOOLEAN /\ breaks \in 0..MaxBreaks
<1> HIDE DEF Events, Turns
<1>2. ASSUME PublishEvent \/ UNCHANGED vars PROVE Typed'
  BY <1>1, <1>2 DEF PublishEvent, streamVars, vars
<1>3. ASSUME Evict PROVE Typed'
  BY <1>1, <1>3 DEF Evict
<1>4. ASSUME NEW c \in Clients, Connect(c) \/ BacklogDone(c) \/ HandlerEnds(c)
      PROVE  Typed'
  BY <1>1, <1>4 DEF Connect, BacklogDone, HandlerEnds
<1>5. ASSUME NEW c \in Clients, HandleSubscribe(c)
      PROVE  Typed'
  <2>1. After(last[c]) \in Seq(Events)
    <3>1. last[c] \in Nat
      BY <1>1, HubAssumption, StreamAssumption
    <3> QED BY <3>1, HubPart, AfterFacts
  <2>2. (last[c] + 1)..(seq - Len(buf)) \subseteq 1..MaxSeq
    <3>1. last[c] \in Nat /\ seq \in 0..MaxSeq /\ Len(buf) \in Nat
      BY <1>1, HubAssumption, StreamAssumption DEF HubTypes
    <3> QED BY <3>1, HubAssumption
  <2>3. [turn |-> currentTurn, seq |-> seq] \in [turn : Turns \cup {0}, seq : 0..MaxSeq]
    BY <1>1 DEF HubTypes
  <2>4. /\ conn' = [conn EXCEPT ![c] = "sync"]
        /\ backlog' = [backlog EXCEPT ![c] = After(last[c])]
        /\ sync' = [sync EXCEPT ![c] = [turn |-> currentTurn, seq |-> seq]]
        /\ lost' = [lost EXCEPT ![c] = lost[c] \cup ((last[c] + 1)..(seq - Len(buf)))]
        /\ UNCHANGED <<last, view, got, retired, breaks>>
    BY <1>5 DEF HandleSubscribe
  <2>5. backlog' \in [Clients -> Seq(Events)]
    BY <1>1, <2>1, <2>4
  <2>6. sync' \in [Clients -> [turn : Turns \cup {0}, seq : 0..MaxSeq]]
    BY <1>1, <2>3, <2>4
  <2>7. lost' \in [Clients -> SUBSET (1..MaxSeq)]
    BY <1>1, <2>2, <2>4
  <2> QED BY <1>1, <2>4, <2>5, <2>6, <2>7
<1>6. ASSUME NEW c \in Clients, WriteSync(c)
      PROVE  Typed'
  <2>1. sync[c].turn \in Turns \cup {0} /\ sync[c].seq \in 0..(MaxSeq + MaxStale)
    BY <1>1, HubAssumption, StreamAssumption
  <2>2. view' \in [Clients -> Turns \cup {0}] /\ last' \in [Clients -> 0..(MaxSeq + MaxStale)]
    BY <1>1, <1>6, <2>1 DEF WriteSync
  <2> QED BY <1>1, <1>6, <2>2 DEF WriteSync
<1>7. ASSUME NEW c \in Clients, NEW ev \in Events, Deliver(c, ev)
      PROVE  /\ last' \in [Clients -> 0..(MaxSeq + MaxStale)]
             /\ got' \in [Clients -> SUBSET (1..MaxSeq)]
             /\ view' \in [Clients -> Turns \cup {0}]
  <2>1. /\ ev.seq \in 1..MaxSeq /\ ev.seq \in 0..(MaxSeq + MaxStale)
        /\ ev.name \in Names /\ ev.turn \in Turns
    BY EventTypes
  <2> QED BY <1>1, <1>7, <2>1 DEF Deliver
<1>8. ASSUME NEW c \in Clients, WriteBacklog(c)
      PROVE  Typed'
  <2>1. Head(backlog[c]) \in Events /\ Tail(backlog[c]) \in Seq(Events)
    BY <1>1, <1>8 DEF WriteBacklog
  <2>2. backlog' \in [Clients -> Seq(Events)]
    BY <1>1, <1>8, <2>1 DEF WriteBacklog
  <2> QED BY <1>1, <1>7, <1>8, <2>1, <2>2 DEF WriteBacklog
<1>9. ASSUME NEW c \in Clients, WriteLive(c)
      PROVE  Typed'
  <2>1. Head(chan[c]) \in Events
    BY <1>1, <1>9 DEF WriteLive, HubTypes, Clients
  <2> QED BY <1>1, <1>7, <1>9, <2>1 DEF WriteLive
<1>10. ASSUME NEW c \in Clients, Break(c)
       PROVE  Typed'
  <2>1. breaks + 1 \in 0..MaxBreaks
    BY <1>1, <1>10, StreamAssumption DEF Break
  <2> QED BY <1>1, <1>10, <2>1 DEF Break
<1>11. Typed'
  BY <1>2, <1>3, <1>4, <1>5, <1>6, <1>8, <1>9, <1>10 DEF Next, HandlerNext
<1> QED BY <1>0, <1>11 DEF TypeOK

-----------------------------------------------------------------------------
(* The theorems about the stream *)

\* Nobody is connected at first.
LEMMA StreamInitHolds == Init => StreamInv
<1> SUFFICES ASSUME Init PROVE StreamInv
  OBVIOUS
<1>1. HubInv
  BY HubInitHolds DEF Init
<1>2. TypeOK
  <2>1. /\ sync \in [Clients -> [turn : Turns \cup {0}, seq : 0..MaxSeq]]
        /\ last \in [Clients -> 0..(MaxSeq + MaxStale)]
        /\ breaks \in 0..MaxBreaks
    BY HubAssumption, StreamAssumption DEF Init
  <2>2. /\ conn \in [Clients -> {"off", "loaded", "sync", "backlog", "live"}]
        /\ view \in [Clients -> Turns \cup {0}] /\ retired \in BOOLEAN
        /\ got \in [Clients -> SUBSET (1..MaxSeq)] /\ lost \in [Clients -> SUBSET (1..MaxSeq)]
    BY DEF Init
  <2>3. backlog \in [Clients -> Seq(Events)]
    <3> HIDE DEF Events
    <3>1. <<>> \in Seq(Events)
      OBVIOUS
    <3> QED BY <3>1 DEF Init
  <2> QED BY <1>1, <2>1, <2>2, <2>3 DEF TypeOK, HubInv
<1>3. LeadsTo(currentTurn, buf, currentTurn)
  BY DEF Init, HubInit, LeadsTo
<1>4. ASSUME NEW c \in Clients PROVE Joins(c) /\ Resumes(c) /\ Catches(c)
  <2>1. /\ conn[c] = "off" /\ (c \in IdClients => last[c] = 0)
        /\ got[c] = {} /\ lost[c] = {} /\ seq = 0
    BY DEF Init, HubInit
  <2>2. ~Connected(c) /\ conn[c] # "live"
    BY <2>1 DEF Connected
  <2>3. Resumes(c)
    BY <2>1, <2>2 DEF Resumes
  <2> QED BY <2>2, <2>3 DEF Joins, Catches
<1> QED BY <1>1, <1>2, <1>3, <1>4 DEF StreamInv, HubInv, HubIsGapless

\* Every step of the stream keeps its invariant.
LEMMA StreamStep == StreamInv /\ [Next]_vars => StreamInv'
<1> SUFFICES ASSUME StreamInv, [Next]_vars PROVE StreamInv'
  OBVIOUS
<1>1. TypeOK' /\ HubIsGapless'
  BY TypesKeep, HubPart, StreamStepIsHubStep, HubStep DEF HubInv, HubIsGapless
<1>2. CASE PublishEvent
  BY <1>1, <1>2, PublishEventKeeps DEF StreamInv
<1>3. ASSUME LeadsTo(currentTurn', buf', currentTurn') = LeadsTo(currentTurn, buf, currentTurn),
             \A c \in Clients : Joins(c)' /\ Resumes(c)' /\ Catches(c)'
      PROVE  StreamInv'
  BY <1>1, <1>3 DEF StreamInv
<1>4. CASE Evict
  <2>1. buf' = buf /\ currentTurn' = currentTurn
    BY <1>4 DEF Evict, CloseAll
  <2> QED BY <1>3, <1>4, <2>1, EvictKeeps
<1>5. ASSUME NEW c \in Clients, Connect(c) \/ HandlerNext(c) \/ Break(c)
      PROVE  StreamInv'
  <2>1. Joins(c)' /\ Resumes(c)' /\ Catches(c)'
    BY <1>5, SubscribeJoins, QuietKeeps, DeliverKeeps DEF HandlerNext
  <2>2. \A d \in Clients : d # c => Joins(d)' /\ Resumes(d)' /\ Catches(d)'
    BY <1>5, OthersKeep
  <2>3. buf' = buf /\ currentTurn' = currentTurn
    BY <1>5 DEF Connect, HandlerNext, HandleSubscribe, Subscribe, WriteSync, WriteBacklog,
                BacklogDone, WriteLive, Receive, HandlerEnds, Break, Unsubscribe, hubVars
  <2> QED BY <1>3, <2>1, <2>2, <2>3
<1>6. CASE UNCHANGED vars
  <2>1. UNCHANGED <<hubVars, streamVars>>
    BY <1>6 DEF vars
  <2>2. \A c \in Clients : Joins(c)' /\ Resumes(c)' /\ Catches(c)'
    <3> TAKE c \in Clients
    <3>1. Joins(c) /\ Resumes(c) /\ Catches(c)
      BY DEF StreamInv
    <3>2. Joins(c)'
      BY <2>1, <3>1 DEF Joins, Connected, Due, hubVars, streamVars
    <3>3. Resumes(c)'
      BY <2>1, <3>1 DEF Resumes, Connected, Due, hubVars, streamVars
    <3>4. Catches(c)'
      BY <2>1, <3>1 DEF Catches, Connected, Sees, Pending, hubVars, streamVars
    <3> QED BY <3>2, <3>3, <3>4
  <2>3. buf' = buf /\ currentTurn' = currentTurn
    BY <2>1 DEF hubVars
  <2> QED BY <1>3, <2>2, <2>3
<1> QED BY <1>2, <1>4, <1>5, <1>6 DEF Next

\* Where every client stands, in every reachable state: its backlog joins its
\* channel, its resume point accounts for every event before it, and what is on
\* its way leads it to the running turn.
THEOREM StreamInvariance == Spec => []StreamInv
<1>1. Init => StreamInv
  BY StreamInitHolds
<1>2. StreamInv /\ [Next]_vars => StreamInv'
  BY StreamStep
<1> QED BY <1>1, <1>2, PTL DEF Spec

\* Every variable of the hub, the handlers and the clients keeps its type.
THEOREM StreamTypes == Spec => []TypeOK
<1>1. StreamInv => TypeOK
  BY DEF StreamInv
<1> QED BY <1>1, StreamInvariance, PTL

\* What a connected client is still to get, backlog and channel together, is
\* numbered without hole or overlap, for any number of clients and any capacity:
\* subscribe takes both in one critical section (hub.go:76-91).
THEOREM StreamHasNoGap == Spec => []StreamGapless
<1>1. StreamInv => StreamGapless
  <2> SUFFICES ASSUME StreamInv, NEW c \in Clients, Connected(c),
                      NEW i \in DOMAIN Pending(c), NEW j \in DOMAIN Pending(c), j = i + 1
               PROVE  Pending(c)[j].seq = Pending(c)[i].seq + 1
    BY DEF StreamGapless
  <2>1. \A n \in DOMAIN Pending(c) : n \in Nat /\ Pending(c)[n].seq = Due(c) + n - 1
    BY PendingSeqs
  <2>2. Due(c) \in Int
    BY DueType
  <2> QED BY <2>1, <2>2
<1> QED BY <1>1, StreamInvariance, PTL

\* A client that resumes by the last id it saw gets no event twice and misses
\* none but those that had left the replay buffer when it came back, however
\* often it is cut off, breaks or reconnects.
THEOREM EveryEventOnce == Spec => []ExactlyOnce
<1>1. StreamInv => NothingTwice
  <2> SUFFICES ASSUME StreamInv, NEW c \in IdClients, Connected(c), NEW i \in DOMAIN Pending(c)
               PROVE  Pending(c)[i].seq \notin got[c]
    BY DEF NothingTwice
  <2>1. c \in Clients
    BY DEF IdClients
  <2>2. i \in Nat /\ i >= 1 /\ Pending(c)[i].seq = Due(c) + i - 1
    BY <2>1, PendingSeqs
  <2>3. last[c] < Due(c) /\ got[c] \subseteq 1..last[c]
    BY <2>1 DEF StreamInv, Resumes
  <2>4. Due(c) \in Int /\ last[c] \in Int
    BY <2>1, DueType
  <2> QED BY <2>2, <2>3, <2>4
<1>2. StreamInv => NothingMissed
  BY DEF StreamInv, Resumes, NothingMissed, IdClients
<1> QED BY <1>1, <1>2, StreamInvariance, PTL DEF ExactlyOnce

\* A client that has taken everything on its way shows the turn the hub runs:
\* the sync frame's turn and the replayed events agree in the end, from whatever
\* resume point it came.
THEOREM ViewIsRight == Spec => []ViewAgrees
<1>1. StreamInv => ViewAgrees
  <2> SUFFICES ASSUME StreamInv, NEW c \in Clients, conn[c] = "live", c \in subs,
                      Pending(c) = <<>>
               PROVE  view[c] = currentTurn
    BY DEF ViewAgrees
  <2>1. LeadsTo(view[c], Pending(c), currentTurn)
    BY DEF StreamInv, Catches, Connected, Sees
  <2>2. \A i \in 1..Len(Pending(c)) : Pending(c)[i].name = "delta"
    OBVIOUS
  <2> QED BY <2>1, <2>2 DEF LeadsTo
<1> QED BY <1>1, StreamInvariance, PTL


=============================================================================
