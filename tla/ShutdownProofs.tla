---------------------------- MODULE ShutdownProofs ----------------------------
(***************************************************************************)
(* What TLAPS proves of Shutdown for any number of events and any mix of   *)
(* requests, turns, sweeps and failures: a node whose requests ended in    *)
(* time stops in good order, and the subscriber of an event stream is told *)
(* the truth and gets what it is owed.                                     *)
(***************************************************************************)
EXTENDS Shutdown, SequenceTheorems, FiniteSetTheorems, WellFoundedInduction, TLAPS

-----------------------------------------------------------------------------
(* Lines on the wire *)

WireLines == [kind : {"id", "data", "blank", "torn"}, ev : Int]

\* A set of numbers moved by d has as many of them.
LEMMA ShiftedSet ==
  ASSUME NEW S \in SUBSET Int, IsFiniteSet(S), NEW d \in Int, NEW T \in SUBSET Int,
         \A j \in Int : j \in T <=> j + d \in S
  PROVE  IsFiniteSet(T) /\ Cardinality(T) = Cardinality(S)
<1>1. PICK f : f = [j \in S |-> j - d]
  OBVIOUS
<1>2. \A j \in S : f[j] = j - d /\ f[j] \in T
  <2> TAKE j \in S
  <2>1. j \in Int /\ j - d \in Int /\ (j - d) + d = j
    OBVIOUS
  <2> QED BY <1>1, <2>1
<1>3. f \in [S -> T]
  BY <1>1, <1>2
<1>4. \A x, y \in S : f[x] = f[y] => x = y
  <2> TAKE x, y \in S
  <2>1. x \in Int /\ y \in Int /\ f[x] = x - d /\ f[y] = y - d
    BY <1>2
  <2> QED BY <2>1
<1>5. \A t \in T : \E x \in S : f[x] = t
  <2> TAKE t \in T
  <2>1. t \in Int /\ t + d \in S /\ (t + d) - d = t
    OBVIOUS
  <2> QED BY <1>2, <2>1
<1>6. f \in Bijection(S, T)
  BY <1>3, <1>4, <1>5 DEF Bijection, Injection, Surjection, IsInjective
<1> QED BY <1>6, FS_Bijection DEF ExistsBijection

\* The data lines are finitely many, and one less behind each of them.
LEMMA UnreadFacts ==
  ASSUME NEW w \in Seq(WireLines), NEW i \in Nat \ {0}
  PROVE  /\ DataFrom(w, i) \in SUBSET Int /\ IsFiniteSet(DataFrom(w, i))
         /\ Unread(w, i) \in Nat
         /\ Unread(w, i) <= Unread(w, 1)
         /\ i > Len(w) => Unread(w, i) = 0
         /\ i <= Len(w) => Unread(w, i) = Unread(w, i + 1)
                                          + (IF w[i].kind = "data" THEN 1 ELSE 0)
<1>1. Len(w) \in Nat
  OBVIOUS
<1>2. \A k \in Nat : DataFrom(w, k) \in SUBSET Int /\ IsFiniteSet(DataFrom(w, k))
                     /\ Cardinality(DataFrom(w, k)) \in Nat
  <2> TAKE k \in Nat
  <2>1. IsFiniteSet(k..Len(w))
    BY <1>1, FS_Interval
  <2>2. DataFrom(w, k) \in SUBSET (k..Len(w))
    BY DEF DataFrom
  <2>3. IsFiniteSet(DataFrom(w, k))
    BY <2>1, <2>2, FS_Subset
  <2>4. k..Len(w) \subseteq Int
    BY <1>1
  <2> QED BY <2>2, <2>3, <2>4, FS_CardinalityType
<1>3. i > Len(w) => Unread(w, i) = 0
  <2> HAVE i > Len(w)
  <2>1. DataFrom(w, i) = {}
    BY <1>1 DEF DataFrom
  <2> QED BY <2>1, FS_EmptySet DEF Unread
<1>4. i <= Len(w) => Unread(w, i) = Unread(w, i + 1) + (IF w[i].kind = "data" THEN 1 ELSE 0)
  <2> HAVE i <= Len(w)
  <2>1. \A j : j \in i..Len(w) <=> j \in (i + 1)..Len(w) \/ j = i
    BY <1>1
  <2>2. i \notin (i + 1)..Len(w) /\ i + 1 \in Nat
    BY <1>1
  <2>3. CASE w[i].kind = "data"
    <3>1. DataFrom(w, i) = DataFrom(w, i + 1) \cup {i} /\ i \notin DataFrom(w, i + 1)
      BY <2>1, <2>2, <2>3 DEF DataFrom
    <3>2. Cardinality(DataFrom(w, i)) = Cardinality(DataFrom(w, i + 1)) + 1
      BY <1>2, <2>2, <3>1, FS_AddElement
    <3> QED BY <2>3, <3>2 DEF Unread
  <2>4. CASE w[i].kind # "data"
    <3>1. DataFrom(w, i) = DataFrom(w, i + 1)
      BY <2>1, <2>4 DEF DataFrom
    <3>2. Unread(w, i + 1) \in Nat
      BY <1>2, <2>2 DEF Unread
    <3> QED BY <2>4, <3>1, <3>2 DEF Unread
  <2> QED BY <2>3, <2>4
<1>5. Unread(w, i) <= Unread(w, 1)
  <2>1. DataFrom(w, i) \in SUBSET DataFrom(w, 1)
    <3>1. \A j \in i..Len(w) : j \in 1..Len(w)
      BY <1>1
    <3> QED BY <3>1 DEF DataFrom
  <2>2. IsFiniteSet(DataFrom(w, 1))
    BY <1>2
  <2> QED BY <2>1, <2>2, FS_Subset DEF Unread
<1> QED BY <1>2, <1>3, <1>4, <1>5 DEF Unread

\* A line is read.
LEMMA TailUnread ==
  ASSUME NEW w \in Seq(WireLines), w # <<>>
  PROVE  /\ Tail(w) \in Seq(WireLines) /\ Len(Tail(w)) = Len(w) - 1
         /\ \A i \in 1..Len(Tail(w)) : Tail(w)[i] = w[i + 1]
         /\ \A i \in Nat \ {0} : Unread(Tail(w), i) = Unread(w, i + 1)
<1>1. /\ Tail(w) \in Seq(WireLines) /\ Len(Tail(w)) = Len(w) - 1 /\ Len(w) \in Nat
      /\ \A i \in 1..Len(Tail(w)) : Tail(w)[i] = w[i + 1]
  BY HeadTailProperties
<1>2. ASSUME NEW i \in Nat \ {0}
      PROVE  Unread(Tail(w), i) = Unread(w, i + 1)
  <2>1. \A j \in Int : j \in i..Len(Tail(w)) <=> j + 1 \in (i + 1)..Len(w)
    BY <1>1
  <2>2. \A j \in i..Len(Tail(w)) : j \in 1..Len(Tail(w))
    BY <1>1
  <2>3. \A j \in Int : j \in DataFrom(Tail(w), i) <=> j + 1 \in DataFrom(w, i + 1)
    BY <1>1, <2>1, <2>2 DEF DataFrom
  <2>4. /\ DataFrom(w, i + 1) \in SUBSET Int /\ IsFiniteSet(DataFrom(w, i + 1))
        /\ DataFrom(Tail(w), i) \in SUBSET Int
    <3>1. i + 1 \in Nat \ {0}
      OBVIOUS
    <3> QED BY <1>1, <3>1, UnreadFacts
  <2>5. PICK S, T : S = DataFrom(w, i + 1) /\ T = DataFrom(Tail(w), i)
    OBVIOUS
  <2>6. /\ S \in SUBSET Int /\ IsFiniteSet(S) /\ T \in SUBSET Int
        /\ \A j \in Int : j \in T <=> j + 1 \in S
    BY <2>3, <2>4, <2>5
  <2>7. PICK d \in Int : d = 1
    OBVIOUS
  <2>8. \A j \in Int : j \in T <=> j + d \in S
    BY <2>6, <2>7, Zenon
  <2>9. Cardinality(T) = Cardinality(S)
    BY <2>6, <2>8, ShiftedSet
  <2> QED BY <2>5, <2>9 DEF Unread
<1> QED BY <1>1, <1>2

\* The wire v is w and the frame of an event behind it.
Framed(w, ev, v) ==
  \E p \in Nat :
    /\ v \in Seq(WireLines) /\ p \in {Len(w) + 1, Len(w) + 2}
    /\ Len(v) = p + 1 /\ \A i \in 1..Len(w) : v[i] = w[i]
    /\ v[p] = Line("data", ev) /\ v[p + 1] = Line("blank", ev)
    /\ p = Len(w) + 2 => v[p - 1] = Line("id", ev)
    /\ \A i \in 1..Len(w) : Unread(v, i) = Unread(w, i) + 1
    /\ Unread(v, 1) = Unread(w, 1) + 1 /\ Unread(v, p) = 1

\* A frame is written.
LEMMA LinesUnread ==
  ASSUME NEW w \in Seq(WireLines), NEW ev \in Nat, NEW v, v = w \o Lines(ev)
  PROVE  Framed(w, ev, v)
<1>1. Len(w) \in Nat
  OBVIOUS
<1>2. \E p \in Nat :
        /\ v \in Seq(WireLines) /\ p \in {Len(w) + 1, Len(w) + 2}
        /\ Len(v) = p + 1 /\ \A i \in 1..Len(w) : v[i] = w[i]
        /\ v[p] = Line("data", ev) /\ v[p + 1] = Line("blank", ev)
        /\ p = Len(w) + 2 => v[p - 1] = Line("id", ev)
  <2>1. Line("data", ev) \in WireLines /\ Line("blank", ev) \in WireLines
        /\ Line("id", ev) \in WireLines
    BY DEF Line, WireLines
  <2>2. PICK d, b, l : d = Line("data", ev) /\ b = Line("blank", ev) /\ l = Line("id", ev)
    OBVIOUS
  <2>3. d \in WireLines /\ b \in WireLines /\ l \in WireLines
    BY <2>1, <2>2
  <2> HIDE DEF WireLines
  <2>4. CASE ev = 0
    <3>1. v = w \o (<<>> \o <<d, b>>)
      BY <2>2, <2>4 DEF Lines
    <3>2. /\ v \in Seq(WireLines) /\ Len(v) = Len(w) + 2
          /\ v[Len(w) + 1] = d /\ v[Len(w) + 2] = b
          /\ \A i \in 1..Len(w) : v[i] = w[i]
      BY <2>3, <3>1
    <3>3. Len(w) + 1 \in Nat /\ (Len(w) + 1) + 1 = Len(w) + 2 /\ Len(w) + 1 # Len(w) + 2
      BY <1>1
    <3> QED BY <2>2, <3>2, <3>3
  <2>5. CASE ev # 0
    <3>1. v = w \o (<<l>> \o <<d, b>>)
      BY <2>2, <2>5 DEF Lines
    <3>2. /\ v \in Seq(WireLines) /\ Len(v) = Len(w) + 3
          /\ v[Len(w) + 1] = l /\ v[Len(w) + 2] = d /\ v[Len(w) + 3] = b
          /\ \A i \in 1..Len(w) : v[i] = w[i]
      BY <2>3, <3>1
    <3>3. Len(w) + 2 \in Nat /\ (Len(w) + 2) + 1 = Len(w) + 3 /\ (Len(w) + 2) - 1 = Len(w) + 1
      BY <1>1
    <3> QED BY <2>2, <3>2, <3>3
  <2> QED BY <2>4, <2>5
<1>3. PICK p \in Nat :
        /\ v \in Seq(WireLines) /\ p \in {Len(w) + 1, Len(w) + 2}
        /\ Len(v) = p + 1 /\ \A i \in 1..Len(w) : v[i] = w[i]
        /\ v[p] = Line("data", ev) /\ v[p + 1] = Line("blank", ev)
        /\ p = Len(w) + 2 => v[p - 1] = Line("id", ev)
  BY <1>2
<1>4. /\ v[p].kind = "data" /\ v[p + 1].kind # "data"
      /\ p = Len(w) + 2 => v[p - 1].kind # "data"
  BY <1>3 DEF Line
<1>5. ASSUME NEW i \in Nat \ {0}, i <= Len(w) + 1
      PROVE  Unread(v, i) = Unread(w, i) + 1
  <2>1. /\ \A j \in i..Len(v) : j \in i..Len(w) \/ j = p \/ j = p + 1 \/ (p = Len(w) + 2 /\ j = p - 1)
        /\ \A j \in i..Len(w) : j \in i..Len(v) /\ j \in 1..Len(w) /\ j # p
        /\ p \in i..Len(v)
    BY <1>1, <1>3, <1>5
  <2>2. DataFrom(v, i) = DataFrom(w, i) \cup {p} /\ p \notin DataFrom(w, i)
    BY <1>3, <1>4, <2>1 DEF DataFrom
  <2>3. IsFiniteSet(DataFrom(w, i))
    BY UnreadFacts
  <2> QED BY <2>2, <2>3, FS_AddElement DEF Unread
<1>6. Unread(v, p) = 1
  <2>1. /\ \A j \in p..Len(v) : j = p \/ j = p + 1
        /\ p \in p..Len(v)
    BY <1>1, <1>3
  <2>2. DataFrom(v, p) = {p}
    BY <1>4, <2>1 DEF DataFrom
  <2> QED BY <2>2, FS_Singleton DEF Unread
<1>7. \A i \in 1..Len(w) : i \in Nat \ {0} /\ i <= Len(w) + 1
  BY <1>1
<1>8. 1 \in Nat \ {0} /\ 1 <= Len(w) + 1
  BY <1>1
<1> QED BY <1>3, <1>5, <1>6, <1>7, <1>8 DEF Framed

\* The wire v is the first n lines of w and perhaps a torn one.
CutAt(w, n, torn, v) ==
  /\ v \in Seq(WireLines) /\ Len(v) = n + (IF torn THEN 1 ELSE 0)
  /\ \A i \in 1..n : v[i] = w[i]
  /\ torn => v[n + 1] = Line("torn", Torn)
  /\ \A i \in 1..(n + 1) : Unread(w, i) = Unread(v, i) + Unread(w, n + 1)

\* What a connection that breaks after n lines of w leaves of it.
Kept(w, n, torn) == SubSeq(w, 1, n) \o (IF torn THEN <<Line("torn", Torn)>> ELSE <<>>)

\* The data lines of a piece of the wire.
Frames(rest) == Cardinality({i \in DOMAIN rest : rest[i].kind = "data"})

\* The connection breaks after n lines.
LEMMA CutUnread ==
  ASSUME NEW w \in Seq(WireLines), NEW n \in 0..Len(w), NEW torn \in BOOLEAN,
         NEW v, v = Kept(w, n, torn),
         NEW rest, rest = SubSeq(w, n + 1, Len(w))
  PROVE  CutAt(w, n, torn, v) /\ Frames(rest) = Unread(w, n + 1)
<1>0. v = SubSeq(w, 1, n) \o (IF torn THEN <<Line("torn", Torn)>> ELSE <<>>)
  BY DEF Kept
<1>1. Len(w) \in Nat /\ n \in Nat /\ n <= Len(w) /\ \A i \in 1..Len(w) : w[i] \in WireLines
  OBVIOUS
<1>2. PICK h : h = SubSeq(w, 1, n)
  OBVIOUS
<1>3. /\ h \in Seq(WireLines) /\ Len(h) = n /\ \A i \in 1..n : h[i] = w[i]
  <2>1. /\ h \in Seq(WireLines) /\ Len(h) = IF 1 <= n THEN n - 1 + 1 ELSE 0
        /\ \A i \in 1..(n - 1 + 1) : h[i] = w[1 + i - 1]
    BY <1>1, <1>2, SubSeqProperties
  <2> QED BY <1>1, <2>1
<1>4. PICK t : t = Line("torn", Torn)
  OBVIOUS
<1>5. t \in WireLines /\ t.kind = "torn"
  BY <1>4 DEF Line, WireLines, Torn
<1>6. /\ v \in Seq(WireLines) /\ Len(v) = n + (IF torn THEN 1 ELSE 0)
      /\ \A i \in 1..n : v[i] = w[i]
      /\ torn => v[n + 1] = t
  <2> HIDE DEF WireLines
  <2>1. CASE torn
    <3>1. v = h \o <<t>>
      BY <1>0, <1>2, <1>4, <2>1
    <3>2. v = Append(h, t)
      BY <1>3, <1>5, <3>1, AppendIsConcat
    <3>3. /\ v \in Seq(WireLines) /\ Len(v) = Len(h) + 1
          /\ \A i \in 1..Len(h) : v[i] = h[i]
          /\ v[Len(h) + 1] = t
      BY <1>3, <1>5, <3>2, AppendProperties
    <3> QED BY <1>3, <2>1, <3>3
  <2>2. CASE ~torn
    <3>1. v = h \o <<>>
      BY <1>0, <1>2, <2>2
    <3>2. v = h
      BY <1>3, <3>1, ConcatEmptySeq
    <3> QED BY <1>1, <1>3, <2>2, <3>2
  <2> QED BY <2>1, <2>2
<1>7. ASSUME NEW i \in 1..(n + 1)
      PROVE  Unread(w, i) = Unread(v, i) + Unread(w, n + 1)
  <2>1. /\ \A j \in i..Len(w) : j \in i..n \/ j \in (n + 1)..Len(w)
        /\ \A j \in i..n : j \in i..Len(w) /\ j \in i..Len(v) /\ j \in 1..n /\ j \notin (n + 1)..Len(w)
        /\ \A j \in (n + 1)..Len(w) : j \in i..Len(w)
        /\ \A j \in i..Len(v) : j \in i..n \/ (torn /\ j = n + 1)
    BY <1>1, <1>6
  <2>2. /\ DataFrom(w, i) = DataFrom(v, i) \cup DataFrom(w, n + 1)
        /\ DataFrom(v, i) \cap DataFrom(w, n + 1) = {}
    <3>1. \A j : j \in DataFrom(v, i) <=> j \in i..n /\ w[j].kind = "data"
      BY <1>5, <1>6, <2>1 DEF DataFrom
    <3> QED BY <2>1, <3>1 DEF DataFrom
  <2>3. /\ IsFiniteSet(DataFrom(v, i)) /\ IsFiniteSet(DataFrom(w, n + 1))
        /\ Unread(v, i) \in Nat /\ Unread(w, n + 1) \in Nat
    <3>1. i \in Nat \ {0} /\ n + 1 \in Nat \ {0}
      BY <1>1
    <3> QED BY <1>6, <3>1, UnreadFacts
  <2>4. PICK S, T : S = DataFrom(v, i) /\ T = DataFrom(w, n + 1)
    OBVIOUS
  <2>5. Cardinality(S \cup T) = Cardinality(S) + Cardinality(T) - Cardinality(S \cap T)
    BY <2>3, <2>4, FS_Union
  <2>6. Cardinality(S \cap T) = 0
    BY <2>2, <2>4, FS_EmptySet
  <2> QED BY <2>2, <2>3, <2>4, <2>5, <2>6 DEF Unread
<1>8. Cardinality({i \in DOMAIN rest : rest[i].kind = "data"}) = Unread(w, n + 1)
  <2>1. /\ DOMAIN rest = 1..(Len(w) - n)
        /\ \A i \in 1..(Len(w) - n) : rest[i] = w[n + i]
    <3>1. \A i \in (n + 1)..Len(w) : w[i] \in WireLines
      BY <1>1
    <3>2. /\ rest \in Seq(WireLines)
          /\ Len(rest) = IF n + 1 <= Len(w) THEN Len(w) - (n + 1) + 1 ELSE 0
          /\ \A i \in 1..(Len(w) - (n + 1) + 1) : rest[i] = w[(n + 1) + i - 1]
      BY <1>1, <3>1, SubSeqProperties
    <3>3. Len(rest) = Len(w) - n /\ DOMAIN rest = 1..Len(rest)
      BY <1>1, <3>2
    <3>4. Len(w) - (n + 1) + 1 = Len(w) - n /\ \A i \in 1..(Len(w) - n) : (n + 1) + i - 1 = n + i
      BY <1>1
    <3> QED BY <3>2, <3>3, <3>4
  <2> DEFINE T == {i \in DOMAIN rest : rest[i].kind = "data"}
  <2>2. \A j \in Int : j \in 1..(Len(w) - n) <=> j + n \in (n + 1)..Len(w)
    BY <1>1
  <2>3. \A j \in Int : j \in T <=> j + n \in DataFrom(w, n + 1)
    <3> TAKE j \in Int
    <3>1. j + n = n + j
      BY <1>1
    <3> QED BY <2>1, <2>2, <3>1 DEF DataFrom
  <2>4. T \in SUBSET Int
    BY <1>1, <2>1
  <2>5. DataFrom(w, n + 1) \in SUBSET Int /\ IsFiniteSet(DataFrom(w, n + 1))
    <3>1. n + 1 \in Nat \ {0}
      BY <1>1
    <3> QED BY <3>1, UnreadFacts
  <2> HIDE DEF T
  <2>6. PICK S : S = DataFrom(w, n + 1)
    OBVIOUS
  <2>7. /\ S \in SUBSET Int /\ IsFiniteSet(S) /\ n \in Int
        /\ \A j \in Int : j \in T <=> j + n \in S
    BY <1>1, <2>3, <2>5, <2>6
  <2>8. Cardinality(T) = Cardinality(S)
    BY <2>4, <2>7, ShiftedSet
  <2> QED BY <2>6, <2>8 DEF T, Unread
<1> QED BY <1>4, <1>6, <1>7, <1>8 DEF CutAt, Frames

-----------------------------------------------------------------------------
(* The reader of the stream *)

\* Types and bounds that the steps below rest on.
LEMMA ReaderFacts ==
  ASSUME ReaderInv
  PROVE  /\ wire \in Seq(WireLines) /\ Len(wire) \in Nat /\ DOMAIN wire = 1..Len(wire)
         /\ sent \in Seq(Nat) /\ Len(sent) \in Nat
         /\ Got \in Seq(Int) /\ Len(Got) \in Nat /\ DOMAIN Got = 1..Len(Got)
         /\ \A i \in Nat \ {0} : Unread(wire, i) \in Nat
         /\ \A i \in 1..Len(wire) : wire[i].kind = "data" =>
              /\ Len(sent) - Unread(wire, i) + 1 \in 1..Len(sent)
              /\ wire[i].ev = sent[Len(sent) - Unread(wire, i) + 1] /\ wire[i].ev \in Nat
         /\ \A k \in 1..Len(Got) : Got[k] = sent[k]
         /\ Len(Got) + Unread(wire, 1) <= Len(sent)
<1>1. /\ wire \in Seq(WireLines) /\ Len(wire) \in Nat /\ DOMAIN wire = 1..Len(wire)
      /\ sent \in Seq(Nat) /\ Len(sent) \in Nat
      /\ taken \in Seq(Int) /\ out \in Seq(Int)
  BY DEF ReaderInv, ReaderTypes, WireLines
<1>2. Got \in Seq(Int) /\ Len(Got) \in Nat /\ DOMAIN Got = 1..Len(Got)
  BY <1>1 DEF Got
<1>3. \A i \in Nat \ {0} : Unread(wire, i) \in Nat /\ Unread(wire, i) <= Unread(wire, 1)
  BY <1>1, UnreadFacts
<1>4. Len(Got) + Unread(wire, 1) <= Len(sent)
  BY DEF ReaderInv, SentIsAccounted
<1>5. ASSUME NEW i \in 1..Len(wire), wire[i].kind = "data"
      PROVE  /\ Len(sent) - Unread(wire, i) + 1 \in 1..Len(sent)
             /\ wire[i].ev = sent[Len(sent) - Unread(wire, i) + 1] /\ wire[i].ev \in Nat
  <2>1. i \in Nat \ {0} /\ i + 1 \in Nat \ {0} /\ i <= Len(wire)
    BY <1>1
  <2>2. Unread(wire, i) = Unread(wire, i + 1) + 1
    BY <1>1, <1>5, <2>1, UnreadFacts
  <2>3. Unread(wire, i) \in Nat /\ Unread(wire, i) >= 1 /\ Unread(wire, i) <= Len(sent)
    <3>1. /\ Unread(wire, i + 1) \in Nat /\ Unread(wire, i) \in Nat /\ Unread(wire, 1) \in Nat
          /\ Unread(wire, i) <= Unread(wire, 1)
      BY <1>3, <2>1
    <3>2. Len(sent) \in Nat /\ Len(Got) \in Nat /\ Len(Got) + Unread(wire, 1) <= Len(sent)
      BY <1>1, <1>2, <1>4
    <3> QED BY <2>2, <3>1, <3>2
  <2>4. Len(sent) - Unread(wire, i) + 1 \in 1..Len(sent)
    BY <1>1, <2>3
  <2>5. wire[i].ev = sent[Len(sent) - Unread(wire, i) + 1]
    BY <1>1, <1>5 DEF ReaderInv, SentIsAccounted
  <2> QED BY <1>1, <2>4, <2>5
<1>6. \A k \in 1..Len(Got) : Got[k] = sent[k]
  BY <1>2 DEF ReaderInv, SentIsAccounted
<1> QED BY <1>1, <1>2, <1>3, <1>4, <1>5, <1>6

\* The reader's body is opened.
LEMMA OpenReads ==
  ASSUME ReaderInv, OpenBody
  PROVE  ReaderInv'
<1>1. /\ body = "none" /\ body' = "open" /\ reader = "off" /\ reader' = "read"
      /\ frame = EmptyFrame /\ frame' = frame
      /\ UNCHANGED <<wire, cause, err, out, closing, taken, sent>>
  BY DEF OpenBody, ReaderInv, ReaderTypes, FrameWhole
<1>2. Reading /\ Reading' /\ ~Early /\ ~Early' /\ ~Pending /\ ~Pending' /\ Got' = Got
  BY <1>1 DEF Reading, Early, Pending, EmptyFrame, Got
<1>3. ReaderTypes'
  BY <1>1 DEF ReaderInv, ReaderTypes
<1>4. WireWhole'
  BY <1>1, <1>2 DEF ReaderInv, WireWhole
<1>5. FrameWhole'
  BY <1>1, <1>2 DEF FrameWhole, EmptyFrame
<1>6. SentIsAccounted'
  BY <1>1, <1>2 DEF ReaderInv, SentIsAccounted
<1>7. CauseIsRight'
  BY <1>1, <1>2 DEF ReaderInv, CauseIsRight
<1> QED BY <1>3, <1>4, <1>5, <1>6, <1>7 DEF ReaderInv

\* A frame is written.
LEMMA WriteReads ==
  ASSUME ReaderInv, NEW ev \in Nat, WriteFrame(ev)
  PROVE  ReaderInv'
<1>1. /\ body = "open" /\ wire' = wire \o Lines(ev) /\ sent' = Append(sent, ev)
      /\ UNCHANGED <<body, frame, reader, cause, err, out, closing, taken>>
  BY DEF WriteFrame
<1>2. Got' = Got /\ (Reading' <=> Reading) /\ (Pending' <=> Pending) /\ ~Early /\ ~Early'
  BY <1>1 DEF Reading, Early, Pending, Got
<1>3. /\ wire \in Seq(WireLines) /\ Len(wire) \in Nat /\ DOMAIN wire = 1..Len(wire)
      /\ sent \in Seq(Nat) /\ Len(sent) \in Nat /\ Len(Got) \in Nat
      /\ \A i \in Nat \ {0} : Unread(wire, i) \in Nat
      /\ \A i \in 1..Len(wire) : wire[i].kind = "data" =>
           /\ Len(sent) - Unread(wire, i) + 1 \in 1..Len(sent)
           /\ wire[i].ev = sent[Len(sent) - Unread(wire, i) + 1]
      /\ Len(Got) + Unread(wire, 1) <= Len(sent)
  BY ReaderFacts
<1>4. PICK p \in Nat :
        /\ wire' \in Seq(WireLines) /\ p \in {Len(wire) + 1, Len(wire) + 2}
        /\ Len(wire') = p + 1 /\ \A i \in 1..Len(wire) : wire'[i] = wire[i]
        /\ wire'[p] = Line("data", ev) /\ wire'[p + 1] = Line("blank", ev)
        /\ p = Len(wire) + 2 => wire'[p - 1] = Line("id", ev)
        /\ \A i \in 1..Len(wire) : Unread(wire', i) = Unread(wire, i) + 1
        /\ Unread(wire', 1) = Unread(wire, 1) + 1 /\ Unread(wire', p) = 1
  <2>1. wire \in Seq(WireLines)
    BY <1>3
  <2>2. Framed(wire, ev, wire')
    BY <1>1, <2>1, LinesUnread
  <2> QED BY <2>2 DEF Framed
<1>5. /\ sent' \in Seq(Nat) /\ Len(sent') = Len(sent) + 1 /\ sent'[Len(sent) + 1] = ev
      /\ \A k \in 1..Len(sent) : sent'[k] = sent[k]
  BY <1>1, <1>3
<1>6. /\ DOMAIN wire' = 1..(p + 1)
      /\ \A i \in 1..(p + 1) : \/ i \in 1..Len(wire)
                               \/ i = p \/ i = p + 1
                               \/ i = p - 1 /\ p = Len(wire) + 2
      /\ Line("data", ev).kind = "data" /\ Line("data", ev).ev = ev
      /\ Line("blank", ev).kind = "blank" /\ Line("id", ev).kind = "id"
      /\ Line("id", ev).ev = ev
  <2>1. Len(wire) \in Nat /\ (p = Len(wire) + 1 \/ p = Len(wire) + 2)
    BY <1>3, <1>4
  <2>2. \A i \in 1..(p + 1) : \/ i \in 1..Len(wire)
                              \/ i = p \/ i = p + 1
                              \/ i = p - 1 /\ p = Len(wire) + 2
    BY <2>1
  <2>3. DOMAIN wire' = 1..(p + 1)
    BY <1>4
  <2> QED BY <2>2, <2>3 DEF Line
<1>7. ReaderTypes'
  BY <1>1, <1>4, <1>5 DEF ReaderInv, ReaderTypes, WireLines
<1>8. WireWhole'
  <2> SUFFICES ASSUME NEW i \in 1..(p + 1)
               PROVE  /\ wire'[i].kind = "torn" => wire'[i].ev = Torn
                      /\ i = p + 1 => wire'[i].kind = "blank"
                      /\ i # p + 1 => Follows(wire'[i].kind, wire'[i].ev, wire'[i + 1])
    BY <1>4, <1>6 DEF WireWhole
  <2>1. CASE i \in 1..Len(wire) /\ i # Len(wire)
    <3>0. Len(wire) \in Nat /\ (p = Len(wire) + 1 \/ p = Len(wire) + 2)
      BY <1>3, <1>4
    <3>1. i + 1 \in 1..Len(wire) /\ i # p + 1
      BY <2>1, <3>0
    <3> QED BY <1>3, <1>4, <2>1, <3>1 DEF ReaderInv, WireWhole
  <2>2. CASE i \in 1..Len(wire) /\ i = Len(wire)
    <3>1. wire'[i].kind = "blank"
      BY <1>2, <1>3, <1>4, <2>2 DEF ReaderInv, WireWhole
    <3> QED BY <1>3, <1>4, <2>2, <3>1 DEF Follows
  <2>3. CASE i = p
    BY <1>4, <1>6, <2>3 DEF Follows
  <2>4. CASE i = p + 1
    BY <1>4, <1>6, <2>4
  <2>5. CASE i = p - 1 /\ p = Len(wire) + 2
    <3>1. i + 1 = p /\ i # p + 1
      BY <2>5
    <3> QED BY <1>4, <1>6, <2>5, <3>1 DEF Follows
  <2> QED BY <1>6, <2>1, <2>2, <2>3, <2>4, <2>5
<1>9. FrameWhole'
  <2>1. ASSUME reader = "read", frame # EmptyFrame
        PROVE  wire # <<>> /\ wire' # <<>> /\ wire'[1] = wire[1]
    <3>1. wire # <<>>
      BY <1>2, <2>1 DEF ReaderInv, FrameWhole
    <3>2. 1 \in 1..Len(wire)
      BY <1>3, <3>1
    <3>3. wire' # <<>>
      BY <1>3, <1>4
    <3> QED BY <1>4, <3>1, <3>2, <3>3
  <2>2. reader # "last"
    BY <1>1 DEF ReaderInv, FrameWhole
  <2> QED BY <1>1, <1>2, <2>1, <2>2 DEF ReaderInv, FrameWhole
<1>10. SentIsAccounted'
  <2>1. \A k \in DOMAIN Got' : Got'[k] = sent'[k]
    <3>1. \A k \in 1..Len(Got) : k \in 1..Len(sent)
      BY <1>3
    <3> QED BY <1>2, <1>5, <3>1, ReaderFacts
  <2>2. ASSUME NEW i \in DOMAIN wire', wire'[i].kind = "data"
        PROVE  wire'[i].ev = sent'[Len(sent') - Unread(wire', i) + 1]
    <3>1. CASE i \in 1..Len(wire)
      <4>1. Len(sent') - Unread(wire', i) + 1 = Len(sent) - Unread(wire, i) + 1
        <5>1. Unread(wire', i) = Unread(wire, i) + 1 /\ Unread(wire, i) \in Nat
          BY <1>3, <1>4, <3>1
        <5>2. Len(sent') = Len(sent) + 1 /\ Len(sent) \in Nat
          BY <1>3, <1>5
        <5> QED BY <5>1, <5>2
      <4> QED BY <1>3, <1>4, <1>5, <2>2, <3>1, <4>1
    <3>2. CASE i = p
      <4>1. Len(sent') - Unread(wire', i) + 1 = Len(sent) + 1
        BY <1>3, <1>4, <1>5, <3>2
      <4> QED BY <1>4, <1>5, <1>6, <3>2, <4>1
    <3>3. i = p + 1 => wire'[i].kind = "blank"
      BY <1>4, <1>6
    <3>4. i = p - 1 /\ p = Len(wire) + 2 => wire'[i].kind = "id"
      BY <1>4, <1>6
    <3> QED BY <1>6, <2>2, <3>1, <3>2, <3>3, <3>4
  <2>3. /\ Len(Got) + Unread(wire', 1) <= Len(sent')
        /\ Reading => Len(Got) + (IF Pending THEN 1 ELSE 0) + Unread(wire', 1) = Len(sent')
    <3>1. /\ Unread(wire, 1) \in Nat
          /\ Reading => Len(Got) + (IF Pending THEN 1 ELSE 0) + Unread(wire, 1) = Len(sent)
      BY <1>3 DEF ReaderInv, SentIsAccounted
    <3>2. Unread(wire', 1) = Unread(wire, 1) + 1 /\ Len(sent') = Len(sent) + 1
          /\ Len(Got) + Unread(wire, 1) <= Len(sent)
          /\ Len(Got) \in Nat /\ Len(sent) \in Nat
      BY <1>3, <1>4, <1>5
    <3>3. CASE Pending
      BY <3>1, <3>2, <3>3
    <3>4. CASE ~Pending
      BY <3>1, <3>2, <3>4
    <3> QED BY <3>3, <3>4
  <2>4. Pending => frame.data[1] = sent'[Len(Got) + 1]
    <3> HAVE Pending
    <3>1. frame.data[1] = sent[Len(Got) + 1]
      BY DEF ReaderInv, SentIsAccounted
    <3>2. Len(Got) + 1 \in 1..Len(sent)
      <4>1. Len(Got) + 1 + Unread(wire, 1) = Len(sent) /\ Unread(wire, 1) \in Nat
        BY <1>3 DEF ReaderInv, SentIsAccounted, Pending
      <4> QED BY <1>3, <4>1
    <3> QED BY <1>5, <3>1, <3>2
  <2> QED BY <1>1, <1>2, <2>1, <2>2, <2>3, <2>4 DEF SentIsAccounted
<1>11. CauseIsRight'
  BY <1>1, <1>2 DEF ReaderInv, CauseIsRight
<1> QED BY <1>7, <1>8, <1>9, <1>10, <1>11 DEF ReaderInv

\* The body ends where the peer has nothing more to write.
LEMMA EndReads ==
  ASSUME ReaderInv, EndBody
  PROVE  ReaderInv'
<1>1. /\ body = "open" /\ body' = "eof"
      /\ UNCHANGED <<wire, frame, reader, cause, err, out, closing, taken, sent>>
  BY DEF EndBody
<1>2. Got' = Got /\ (Reading' <=> Reading) /\ (Pending' <=> Pending) /\ ~Early /\ ~Early'
  BY <1>1 DEF Reading, Early, Pending, Got
<1>3. ReaderTypes'
  BY <1>1 DEF ReaderInv, ReaderTypes
<1>4. WireWhole' /\ FrameWhole'
  BY <1>1, <1>2 DEF ReaderInv, WireWhole, FrameWhole
<1>5. SentIsAccounted' /\ CauseIsRight'
  BY <1>1, <1>2 DEF ReaderInv, SentIsAccounted, CauseIsRight
<1> QED BY <1>3, <1>4, <1>5 DEF ReaderInv

\* The connection breaks, or the peer closes it early.
LEMMA CutReads ==
  ASSUME ReaderInv, NEW how \in {"cut", "broken"}, CutBody(how)
  PROVE  ReaderInv'
<1>1. PICK n \in 0..Len(wire), torn \in BOOLEAN :
        /\ torn => n < Len(wire) /\ wire[n + 1].kind = "data"
        /\ LET rest == SubSeq(wire, n + 1, Len(wire))
               gone == {i \in DOMAIN rest : rest[i].kind = "data"}
           IN /\ wire' = Cut(n, torn)
              /\ sent' = SubSeq(sent, 1, Len(sent) - Cardinality(gone))
  BY DEF CutBody
<1>2. /\ body = "open" /\ body' = how
      /\ UNCHANGED <<frame, reader, cause, err, out, closing, taken>>
  BY DEF CutBody
<1>3. Got' = Got /\ (Reading' <=> Reading) /\ (Pending' <=> Pending) /\ ~Early /\ Early'
  BY <1>2 DEF Reading, Early, Pending, Got
<1>4. /\ wire \in Seq(WireLines) /\ Len(wire) \in Nat /\ DOMAIN wire = 1..Len(wire)
      /\ sent \in Seq(Nat) /\ Len(sent) \in Nat /\ Len(Got) \in Nat
      /\ \A i \in Nat \ {0} : Unread(wire, i) \in Nat
      /\ \A i \in 1..Len(wire) : wire[i].kind = "data" =>
           wire[i].ev = sent[Len(sent) - Unread(wire, i) + 1]
      /\ Len(Got) + Unread(wire, 1) <= Len(sent)
      /\ \A k \in 1..Len(Got) : Got[k] = sent[k] /\ DOMAIN Got = 1..Len(Got)
  BY ReaderFacts
<1>nat. /\ n \in Nat /\ n <= Len(wire) /\ Len(wire) \in Nat /\ Len(sent) \in Nat
        /\ Len(Got) \in Nat /\ Len(Got) + Unread(wire, 1) <= Len(sent)
  <2>1. Len(wire) \in Nat
    BY <1>4
  <2> QED BY <1>4, <2>1
<1>5. CutAt(wire, n, torn, wire') /\ sent' = SubSeq(sent, 1, Len(sent) - Unread(wire, n + 1))
  <2>1. PICK rest : rest = SubSeq(wire, n + 1, Len(wire))
    OBVIOUS
  <2>2. wire' = Kept(wire, n, torn) /\ sent' = SubSeq(sent, 1, Len(sent) - Frames(rest))
    BY <1>1, <2>1 DEF Cut, Kept, Frames
  <2>3. wire \in Seq(WireLines)
    BY <1>4
  <2>4. CutAt(wire, n, torn, wire') /\ Frames(rest) = Unread(wire, n + 1)
    BY <2>1, <2>2, <2>3, CutUnread
  <2> QED BY <2>2, <2>4
<1>6. /\ wire' \in Seq(WireLines) /\ Len(wire') = n + (IF torn THEN 1 ELSE 0)
      /\ \A i \in 1..n : wire'[i] = wire[i]
      /\ torn => wire'[n + 1] = Line("torn", Torn)
      /\ \A i \in 1..(n + 1) : Unread(wire, i) = Unread(wire', i) + Unread(wire, n + 1)
  BY <1>5 DEF CutAt
<1>7. /\ n \in Nat /\ n <= Len(wire) /\ DOMAIN wire' = 1..Len(wire') /\ Len(wire') \in Nat
      /\ \A i \in 1..Len(wire') : i \in 1..n \/ (torn /\ i = n + 1)
      /\ \A i \in 1..n : i \in 1..Len(wire) /\ i \in 1..(n + 1)
  BY <1>4, <1>6
<1>8. Line("torn", Torn).kind = "torn" /\ Line("torn", Torn).ev = Torn
  BY DEF Line
<1>9. PICK g : g = Unread(wire, n + 1)
  OBVIOUS
<1>10. /\ g \in Nat /\ g <= Len(sent) - Len(Got)
       /\ Unread(wire, 1) = Unread(wire', 1) + g /\ Unread(wire', 1) \in Nat
  <2>1. n + 1 \in Nat \ {0} /\ 1 \in Nat \ {0} /\ 1 \in 1..(n + 1)
    BY <1>7
  <2>2. Unread(wire', 1) \in Nat /\ Unread(wire, n + 1) \in Nat
    BY <1>4, <1>6, <2>1, UnreadFacts
  <2>3. Unread(wire, 1) = Unread(wire', 1) + Unread(wire, n + 1)
    BY <1>6, <2>1
  <2> QED BY <1>nat, <1>9, <2>2, <2>3
<1>11. /\ sent' \in Seq(Nat) /\ Len(sent') = Len(sent) - g
       /\ \A k \in 1..(Len(sent) - g) : sent'[k] = sent[k]
  <2>0. Len(sent) \in Nat /\ Len(Got) \in Nat /\ g \in Nat /\ g <= Len(sent) - Len(Got)
    BY <1>nat, <1>10
  <2>1. \A k \in 1..(Len(sent) - g) : sent[k] \in Nat
    <3>1. \A k \in 1..(Len(sent) - g) : k \in 1..Len(sent)
      BY <2>0
    <3>2. sent \in Seq(Nat)
      BY <1>4
    <3> QED BY <3>1, <3>2
  <2>2. /\ sent' \in Seq(Nat)
        /\ Len(sent') = IF 1 <= Len(sent) - g THEN Len(sent) - g - 1 + 1 ELSE 0
        /\ \A k \in 1..(Len(sent) - g - 1 + 1) : sent'[k] = sent[1 + k - 1]
    <3>1. sent' = SubSeq(sent, 1, Len(sent) - g)
      BY <1>5, <1>9
    <3>2. 1 \in Int /\ Len(sent) - g \in Int
      BY <2>0
    <3>3. \A k \in 1..(Len(sent) - g) : sent[k] \in Nat
      BY <2>1
    <3> QED BY <3>1, <3>2, <3>3, SubSeqProperties
  <2>3. Len(sent) - g \in Nat
    BY <2>0
  <2>4. \A k \in 1..(Len(sent) - g) : sent'[k] = sent[k]
    <3>1. \A k \in 1..(Len(sent) - g) : 1 + k - 1 = k /\ k \in 1..(Len(sent) - g - 1 + 1)
      BY <2>0
    <3> QED BY <2>2, <3>1
  <2> QED BY <2>0, <2>2, <2>3, <2>4
<1>len. Len(sent') = Len(sent) - g
  BY <1>11
<1>12. ReaderTypes'
  BY <1>2, <1>6, <1>11 DEF ReaderInv, ReaderTypes, WireLines
<1>13. WireWhole'
  <2> SUFFICES ASSUME NEW i \in 1..Len(wire')
               PROVE  /\ wire'[i].kind = "torn" => wire'[i].ev = Torn
                      /\ i # Len(wire') => Follows(wire'[i].kind, wire'[i].ev, wire'[i + 1])
    BY <1>3, <1>7 DEF WireWhole
  <2>1. CASE i \in 1..n
    <3>1. wire[i].kind = "torn" => wire[i].ev = Torn
      BY <1>4, <1>7, <2>1 DEF ReaderInv, WireWhole
    <3>2. ASSUME i # Len(wire')
          PROVE  Follows(wire'[i].kind, wire'[i].ev, wire'[i + 1])
      <4>1. i # Len(wire) /\ i + 1 \in 1..Len(wire')
        <5>1. i \in Nat /\ 1 <= i /\ i <= n /\ n <= Len(wire) /\ Len(wire) \in Nat /\ n \in Nat
          BY <1>nat, <2>1
        <5>2. Len(wire') \in Nat /\ i \in 1..Len(wire') /\ n <= Len(wire')
          BY <1>nat, <1>6, <1>7
        <5>3. i # n => i # Len(wire)
          BY <5>1
        <5>4. ~torn => Len(wire') = n
          BY <1>6, <1>nat
        <5>5. torn => n < Len(wire)
          BY <1>1
        <5> QED BY <3>2, <5>1, <5>2, <5>3, <5>4, <5>5
      <4>2. Follows(wire[i].kind, wire[i].ev, wire[i + 1])
        BY <1>4, <1>7, <2>1, <4>1 DEF ReaderInv, WireWhole
      <4>3. CASE i + 1 \in 1..n
        BY <1>6, <2>1, <4>2, <4>3
      <4>4. CASE torn /\ i = n
        <5>1. wire[i + 1].kind = "data"
          <6>1. wire[n + 1].kind = "data" /\ i + 1 = n + 1
            BY <1>1, <4>4
          <6> QED BY <6>1
        <5> QED BY <1>6, <2>1, <4>2, <4>4, <5>1 DEF Follows
      <4>5. torn /\ i + 1 = n + 1 => i = n
        BY <1>7, <2>1
      <4> QED BY <1>7, <4>1, <4>3, <4>4, <4>5
    <3> QED BY <1>6, <2>1, <3>1, <3>2
  <2>2. CASE torn /\ i = n + 1
    BY <1>6, <1>8, <2>2
  <2> QED BY <1>7, <2>1, <2>2
<1>14. FrameWhole'
  <2>1. ASSUME reader = "read", frame # EmptyFrame, wire' # <<>>
        PROVE  IF frame.data # <<>> THEN Follows("data", 0, wire'[1])
                                    ELSE Follows("id", frame.id[1], wire'[1])
    <3>1. /\ wire # <<>>
          /\ IF frame.data # <<>> THEN Follows("data", 0, wire[1])
                                  ELSE Follows("id", frame.id[1], wire[1])
      BY <1>3, <2>1 DEF ReaderInv, FrameWhole
    <3>2. CASE n = 0
      <4>1. torn
        <5>1. Len(wire') = 0 => wire' = <<>>
          BY <1>6
        <5> QED BY <1>6, <2>1, <3>2, <5>1
      <4>2. wire[1].kind = "data" /\ wire'[1] = Line("torn", Torn)
        <5>1. wire[n + 1].kind = "data" /\ wire'[n + 1] = Line("torn", Torn)
          BY <1>1, <1>6, <4>1
        <5>2. n + 1 = 1
          BY <3>2
        <5> QED BY <5>1, <5>2
      <4> QED BY <3>1, <4>2 DEF Follows
    <3>3. CASE n # 0
      <4>1. 1 \in 1..n
        BY <1>7, <3>3
      <4> QED BY <1>6, <3>1, <4>1
    <3> QED BY <3>2, <3>3
  <2>2. reader # "last"
    BY <1>2 DEF ReaderInv, FrameWhole
  <2> QED BY <1>2, <1>3, <2>1, <2>2 DEF ReaderInv, FrameWhole
<1>15. SentIsAccounted'
  <2>1. \A k \in DOMAIN Got' : Got'[k] = sent'[k]
    <3>1. \A k \in 1..Len(Got) : k \in 1..(Len(sent) - g)
      <4>1. Len(Got) <= Len(sent) - g /\ Len(Got) \in Nat /\ Len(sent) \in Nat /\ g \in Nat
        BY <1>nat, <1>10
      <4> QED BY <4>1
    <3>2. \A k \in 1..Len(Got) : Got[k] = sent[k] /\ DOMAIN Got = 1..Len(Got)
      BY <1>4
    <3>3. \A k \in 1..Len(Got) : Got[k] = sent'[k]
      BY <1>11, <3>1, <3>2
    <3>4. DOMAIN Got = 1..Len(Got)
      BY ReaderFacts
    <3> QED BY <1>3, <3>3, <3>4
  <2>2. ASSUME NEW i \in DOMAIN wire', wire'[i].kind = "data"
        PROVE  wire'[i].ev = sent'[Len(sent') - Unread(wire', i) + 1]
    <3>1. i \in 1..n /\ wire'[i] = wire[i] /\ i \in Nat \ {0} /\ i <= Len(wire')
      BY <1>6, <1>7, <1>8, <2>2
    <3>2. wire[i].ev = sent[Len(sent) - Unread(wire, i) + 1]
      BY <1>4, <1>7, <2>2, <3>1
    <3>3. Unread(wire, i) = Unread(wire', i) + g
      BY <1>6, <1>7, <1>9, <3>1
    <3>4. Unread(wire', i) \in Nat /\ Unread(wire', i) >= 1 /\ Unread(wire', i) <= Unread(wire', 1)
      <4>1. i + 1 \in Nat \ {0}
        BY <3>1
      <4>2. Unread(wire', i + 1) \in Nat /\ Unread(wire', i) \in Nat
            /\ Unread(wire', i) <= Unread(wire', 1)
        BY <1>6, <3>1, <4>1, UnreadFacts
      <4>3. Unread(wire', i) = Unread(wire', i + 1) + 1
        BY <1>6, <2>2, <3>1, UnreadFacts
      <4> QED BY <4>2, <4>3
    <3>5. /\ Len(sent') - Unread(wire', i) + 1 = Len(sent) - Unread(wire, i) + 1
          /\ Len(sent') - Unread(wire', i) + 1 \in 1..(Len(sent) - g)
      <4>1. PICK u, v \in Nat : u = Unread(wire', i) /\ v = Unread(wire', 1)
        BY <1>10, <3>4
      <4>2. u >= 1 /\ u <= v /\ Unread(wire, i) = u + g
        BY <3>3, <3>4, <4>1
      <4>3. /\ Len(sent) \in Nat /\ g \in Nat /\ Len(Got) \in Nat
            /\ Len(Got) + (v + g) <= Len(sent) /\ Len(sent') = Len(sent) - g
        BY <1>nat, <1>10, <1>len, <4>1
      <4>4. /\ Len(sent) - g - u + 1 = Len(sent) - (u + g) + 1
            /\ Len(sent) - g - u + 1 \in 1..(Len(sent) - g)
        BY <4>2, <4>3
      <4> QED BY <4>1, <4>2, <4>3, <4>4
    <3> QED BY <1>11, <3>1, <3>2, <3>5
  <2>3. Len(Got) + Unread(wire', 1) <= Len(sent')
    BY <1>nat, <1>10, <1>11
  <2>4. Reading => Len(Got) + (IF Pending THEN 1 ELSE 0) + Unread(wire', 1) = Len(sent')
    <3> HAVE Reading
    <3>1. Len(Got) + (IF Pending THEN 1 ELSE 0) + Unread(wire, 1) = Len(sent)
      BY DEF ReaderInv, SentIsAccounted
    <3>2. /\ Len(sent) \in Nat /\ g \in Nat /\ Len(Got) \in Nat /\ Unread(wire', 1) \in Nat
          /\ Unread(wire, 1) = Unread(wire', 1) + g /\ Len(sent') = Len(sent) - g
      BY <1>nat, <1>10, <1>len
    <3>3. PICK p \in {0, 1} : p = IF Pending THEN 1 ELSE 0
      OBVIOUS
    <3>4. Len(Got) + p + Unread(wire', 1) = Len(sent')
      BY <3>1, <3>2, <3>3
    <3> QED BY <3>3, <3>4
  <2>5. Pending => frame.data[1] = sent'[Len(Got) + 1]
    <3> HAVE Pending
    <3>1. frame.data[1] = sent[Len(Got) + 1]
      BY DEF ReaderInv, SentIsAccounted
    <3>2. Len(Got) + 1 + Unread(wire', 1) = Len(sent) - g
      BY <1>len, <2>4 DEF Pending
    <3>3. Len(Got) + 1 \in 1..(Len(sent) - g)
      BY <1>nat, <1>10, <3>2
    <3> QED BY <1>11, <3>1, <3>3
  <2> QED BY <1>2, <1>3, <2>1, <2>2, <2>3, <2>4, <2>5 DEF SentIsAccounted
<1>16. CauseIsRight'
  BY <1>2, <1>3 DEF ReaderInv, CauseIsRight
<1> QED BY <1>12, <1>13, <1>14, <1>15, <1>16 DEF ReaderInv

\* A line is read.
LEMMA LineReads ==
  ASSUME ReaderInv, ReadLine
  PROVE  ReaderInv'
<1>1. PICK h : h = Head(wire)
  OBVIOUS
<1>2. /\ reader = "read" /\ wire # <<>> /\ h.kind # "torn"
      /\ wire' = Tail(wire) /\ frame' = Fold(h)
      /\ reader' = (IF h.kind = "blank" THEN "dispatch" ELSE "read")
      /\ UNCHANGED <<body, cause, err, out, closing, taken, sent>>
  BY <1>1 DEF ReadLine
<1>3. /\ wire \in Seq(WireLines) /\ Len(wire) \in Nat /\ DOMAIN wire = 1..Len(wire)
      /\ sent \in Seq(Nat) /\ Len(sent) \in Nat /\ Len(Got) \in Nat
      /\ \A i \in 1..Len(wire) : wire[i].kind = "data" =>
           /\ wire[i].ev = sent[Len(sent) - Unread(wire, i) + 1] /\ wire[i].ev \in Nat
      /\ Len(Got) + Unread(wire, 1) <= Len(sent)
  BY ReaderFacts
<1>nat. /\ Len(wire) \in Nat /\ Len(sent) \in Nat /\ Len(Got) \in Nat
        /\ Unread(wire, 1) \in Nat /\ Len(Got) + Unread(wire, 1) <= Len(sent)
        /\ wire \in Seq(WireLines)
  <2>1. 1 \in Nat \ {0}
    OBVIOUS
  <2> QED BY <2>1, ReaderFacts
<1>4. /\ 1 \in 1..Len(wire) /\ h = wire[1] /\ h.kind \in {"id", "data", "blank", "torn"}
      /\ h.ev \in Int
  <2>1. 1 \in 1..Len(wire) /\ h = wire[1] /\ h \in WireLines
    BY <1>1, <1>2, <1>nat
  <2> QED BY <2>1 DEF WireLines
<1>5. /\ wire' \in Seq(WireLines) /\ Len(wire') = Len(wire) - 1 /\ DOMAIN wire' = 1..(Len(wire) - 1)
      /\ \A i \in 1..(Len(wire) - 1) : wire'[i] = wire[i + 1] /\ i + 1 \in 1..Len(wire)
      /\ \A i \in Nat \ {0} : Unread(wire', i) = Unread(wire, i + 1)
  <2>1. /\ wire' \in Seq(WireLines) /\ Len(wire') = Len(wire) - 1
        /\ \A i \in 1..Len(wire') : wire'[i] = wire[i + 1]
        /\ \A i \in Nat \ {0} : Unread(wire', i) = Unread(wire, i + 1)
    BY <1>2, <1>nat, TailUnread
  <2>2. \A i \in 1..(Len(wire) - 1) : i + 1 \in 1..Len(wire)
    BY <1>nat
  <2>3. DOMAIN wire' = 1..Len(wire')
    BY <2>1
  <2> QED BY <2>1, <2>2, <2>3
<1>6. /\ Unread(wire, 1) = Unread(wire', 1) + (IF h.kind = "data" THEN 1 ELSE 0)
      /\ Unread(wire', 1) \in Nat
  <2>0. 1 \in Nat \ {0}
    OBVIOUS
  <2>1. Unread(wire', 1) = Unread(wire, 1 + 1) /\ Unread(wire', 1) \in Nat
    BY <1>5, <2>0, UnreadFacts
  <2>2. 1 <= Len(wire)
    BY <1>nat, <1>4
  <2>3. Unread(wire, 1) = Unread(wire, 1 + 1) + (IF wire[1].kind = "data" THEN 1 ELSE 0)
    BY <1>nat, <2>0, <2>2, UnreadFacts
  <2> QED BY <1>4, <2>1, <2>3
<1>7. /\ Got' = Got /\ Reading /\ Reading' /\ (Early' <=> Early)
  BY <1>2 DEF Reading, Early, Got
<1>8. /\ frame \in [id : Seq(Int), data : Seq(Int)] /\ frame.data # <<Torn>>
      /\ frame # EmptyFrame =>
           IF frame.data # <<>> THEN h.kind = "blank" ELSE h = Line("data", frame.id[1])
      /\ Len(frame.data) <= 1
  <2>1. frame \in [id : Seq(Int), data : Seq(Int)] /\ Len(frame.data) <= 1
    BY <1>7 DEF ReaderInv, ReaderTypes, FrameWhole
  <2>2. frame.data # <<Torn>>
    BY <1>2 DEF ReaderInv, FrameWhole
  <2>3. ASSUME frame # EmptyFrame
        PROVE  IF frame.data # <<>> THEN Follows("data", 0, h) ELSE Follows("id", frame.id[1], h)
    BY <1>2, <1>4, <2>3 DEF ReaderInv, FrameWhole
  <2>4. Line("torn", Torn).kind = "torn"
    BY DEF Line
  <2>5. ASSUME frame # EmptyFrame
        PROVE  IF frame.data # <<>> THEN h.kind = "blank" ELSE h = Line("data", frame.id[1])
    BY <1>2, <2>3, <2>4, <2>5 DEF Follows
  <2> QED BY <2>1, <2>2, <2>5
<1>9. frame # EmptyFrame <=> frame.id # <<>> \/ frame.data # <<>>
  BY <1>8 DEF EmptyFrame
<1>10. Len(wire) = 1 => h.kind = "blank" \/ Early
  BY <1>3, <1>4 DEF ReaderInv, WireWhole
<1>11. wire' # <<>> => Follows(h.kind, h.ev, wire'[1])
  <2> HAVE wire' # <<>>
  <2>1. Len(wire') # 0 /\ Len(wire') = Len(wire) - 1
    <3>1. wire' \in Seq(WireLines)
      BY <1>5
    <3>2. Len(wire') # 0
      BY <3>1, EmptySeq
    <3> QED BY <1>5, <3>2
  <2>2. 1 \in 1..(Len(wire) - 1) /\ 1 # Len(wire)
    BY <1>nat, <1>4, <2>1
  <2>3. wire'[1] = wire[1 + 1]
    BY <1>5, <2>2
  <2> QED BY <1>3, <1>4, <2>2, <2>3 DEF ReaderInv, WireWhole
<1>12. wire' = <<>> => Len(wire) = 1
  <2>1. Len(wire') = Len(wire) - 1
    BY <1>5
  <2> QED BY <1>nat, <2>1
<1>13. WireWhole'
  <2> SUFFICES ASSUME NEW i \in 1..(Len(wire) - 1)
               PROVE  /\ wire'[i].kind = "torn" => wire'[i].ev = Torn
                      /\ IF i = Len(wire) - 1 THEN wire'[i].kind = "blank" \/ Early
                         ELSE Follows(wire'[i].kind, wire'[i].ev, wire'[i + 1])
    BY <1>5, <1>7 DEF WireWhole
  <2>1. /\ i + 1 \in 1..Len(wire) /\ wire'[i] = wire[i + 1]
        /\ (i = Len(wire) - 1 <=> i + 1 = Len(wire))
    <3>1. i = Len(wire) - 1 <=> i + 1 = Len(wire)
      BY <1>nat
    <3> QED BY <1>5, <3>1
  <2>2. i # Len(wire) - 1 => i + 1 \in 1..(Len(wire) - 1) /\ wire'[i + 1] = wire[(i + 1) + 1]
    <3> HAVE i # Len(wire) - 1
    <3>1. i + 1 \in 1..(Len(wire) - 1)
      BY <1>3
    <3> QED BY <1>5, <3>1
  <2> QED BY <1>3, <2>1, <2>2 DEF ReaderInv, WireWhole
<1>14. \A k \in DOMAIN Got' : Got'[k] = sent'[k]
  BY <1>2, <1>7 DEF ReaderInv, SentIsAccounted
<1>15. \A i \in DOMAIN wire' : wire'[i].kind = "data" =>
         wire'[i].ev = sent'[Len(sent') - Unread(wire', i) + 1]
  <2> TAKE i \in DOMAIN wire'
  <2>1. i + 1 \in 1..Len(wire) /\ wire'[i] = wire[i + 1] /\ Unread(wire', i) = Unread(wire, i + 1)
    <3>1. i \in 1..(Len(wire) - 1)
      BY <1>5
    <3>2. i \in Nat \ {0}
      BY <1>nat, <3>1
    <3> QED BY <1>5, <3>1, <3>2
  <2> QED BY <1>2, <1>3, <2>1
<1>16. CauseIsRight'
  BY <1>2, <1>7 DEF ReaderInv, CauseIsRight
<1>17. Len(Got) + (IF Pending THEN 1 ELSE 0) + Unread(wire, 1) = Len(sent)
  BY <1>7 DEF ReaderInv, SentIsAccounted
<1>18. CASE h.kind = "id"
  <2>1. frame = EmptyFrame
    BY <1>8, <1>18 DEF Line
  <2>2. frame' = [id |-> <<h.ev>>, data |-> <<>>] /\ reader' = "read"
    BY <1>2, <1>18, <2>1 DEF Fold, EmptyFrame
  <2>3. ~Pending /\ ~Pending'
    BY <2>1, <2>2 DEF Pending, EmptyFrame
  <2>4. ReaderTypes'
    <3>1. frame' \in [id : Seq(Int), data : Seq(Int)]
      <4>1. <<h.ev>> \in Seq(Int) /\ <<>> \in Seq(Int)
        BY <1>4
      <4> QED BY <2>2, <4>1
    <3>2. wire' \in Seq([kind : {"id", "data", "blank", "torn"}, ev : Int])
      BY <1>5 DEF WireLines
    <3> QED BY <1>2, <2>2, <3>1, <3>2 DEF ReaderInv, ReaderTypes
  <2>5. FrameWhole'
    <3>2. frame'.data = <<>> /\ frame'.id[1] = h.ev
      BY <2>2
    <3>3. wire' # <<>> => Follows("id", h.ev, wire'[1])
      BY <1>11, <1>18
    <3>4. Len(frame'.data) <= 1 /\ frame'.data # <<Torn>> /\ reader' = "read"
      BY <2>2, <3>2
    <3>5. wire' # <<>> => Follows("id", frame'.id[1], wire'[1])
      BY <3>2, <3>3
    <3>6. wire' = <<>> => Early'
      BY <1>7, <1>10, <1>12, <1>18
    <3> QED BY <2>3, <3>2, <3>4, <3>5, <3>6 DEF FrameWhole
  <2>6. SentIsAccounted'
    BY <1>2, <1>3, <1>6, <1>7, <1>14, <1>15, <1>17, <1>18, <2>3 DEF SentIsAccounted
  <2> QED BY <1>13, <1>16, <2>4, <2>5, <2>6 DEF ReaderInv
<1>19. CASE h.kind = "data"
  <2>1. frame.data = <<>>
    BY <1>8, <1>9, <1>19
  <2>2. h.ev \in Nat /\ h.ev = sent[Len(sent) - Unread(wire, 1) + 1]
    BY <1>3, <1>4, <1>19
  <2>3. /\ frame'.id = frame.id /\ frame'.data = <<h.ev>> /\ reader' = "read"
        /\ frame' \in [id : Seq(Int), data : Seq(Int)]
    <3>1. Append(frame.data, h.ev) = <<h.ev>>
      BY <2>1
    <3>2. frame' = [frame EXCEPT !.data = <<h.ev>>]
      BY <1>2, <1>19, <3>1 DEF Fold
    <3>3. frame \in [id : Seq(Int), data : Seq(Int)] /\ <<h.ev>> \in Seq(Int) /\ reader' = "read"
      BY <1>2, <1>4, <1>8, <1>19
    <3> QED BY <3>2, <3>3
  <2>4. ~Pending /\ Pending'
    BY <1>7, <2>1, <2>2, <2>3 DEF Pending, Torn
  <2>5. ReaderTypes'
    BY <1>2, <1>5, <2>3 DEF ReaderInv, ReaderTypes, WireLines
  <2>6. FrameWhole'
    <3>1. frame.id # <<>> => frame.id[1] = h.ev
      BY <1>8, <1>9, <2>1 DEF Line
    <3>2. wire' # <<>> => Follows("data", 0, wire'[1])
      BY <1>11, <1>19 DEF Follows
    <3>3. wire' = <<>> => Early
      BY <1>10, <1>12, <1>19
    <3>4. frame'.data # <<Torn>> /\ frame'.data[1] = h.ev /\ Len(frame'.data) <= 1
          /\ frame'.data # <<>>
      BY <2>2, <2>3 DEF Torn
    <3> QED BY <1>7, <2>3, <3>1, <3>2, <3>3, <3>4 DEF FrameWhole
  <2>7. SentIsAccounted'
    <3>1. Len(Got) + Unread(wire, 1) = Len(sent)
      BY <1>3, <1>17, <2>4
    <3>2. /\ Len(Got) + 1 + Unread(wire', 1) = Len(sent)
          /\ Len(sent) - Unread(wire, 1) + 1 = Len(Got) + 1
      BY <1>3, <1>6, <1>19, <3>1
    <3>3. frame'.data[1] = sent[Len(Got) + 1]
      BY <2>2, <2>3, <3>2
    <3>4. Len(Got) + Unread(wire', 1) <= Len(sent)
      BY <1>3, <1>6, <3>2
    <3> QED BY <1>2, <1>7, <1>14, <1>15, <2>4, <3>2, <3>3, <3>4 DEF SentIsAccounted
  <2> QED BY <1>13, <1>16, <2>5, <2>6, <2>7 DEF ReaderInv
<1>20. CASE h.kind = "blank"
  <2>1. frame' = frame /\ reader' = "dispatch"
    BY <1>2, <1>20 DEF Fold
  <2>2. Pending' <=> Pending
    BY <1>7, <2>1 DEF Pending
  <2>3. ReaderTypes'
    BY <1>2, <1>5, <2>1 DEF ReaderInv, ReaderTypes, WireLines
  <2>4. FrameWhole'
    BY <1>2, <1>7, <1>8, <2>1, <2>2 DEF ReaderInv, FrameWhole
  <2>5. SentIsAccounted'
    <3>1. Unread(wire', 1) = Unread(wire, 1)
      BY <1>6, <1>20
    <3> QED BY <1>2, <1>7, <1>14, <1>15, <2>1, <2>2, <3>1 DEF ReaderInv, SentIsAccounted
  <2> QED BY <1>13, <1>16, <2>3, <2>4, <2>5 DEF ReaderInv
<1> QED BY <1>2, <1>4, <1>18, <1>19, <1>20

\* The reader gives up: what it leaves behind no longer has to add up.
LEMMA GivesUp ==
  ASSUME ReaderInv, Reading, reader # "off", reader' = "finish",
         UNCHANGED <<wire, body, err, out, closing, taken, sent>>,
         frame' \in [id : Seq(Int), data : Seq(Int)],
         cause' = "ours" => closing = "closed",
         cause' = "nil" => \/ closing = "closed"
                           \/ Len(Got) = Len(sent) /\ body \in {"eof", "cut"}
  PROVE  ReaderInv'
<1>1. Got' = Got /\ ~Reading' /\ ~Pending' /\ (Early' <=> Early)
  BY DEF Got, Reading, Pending, Early
<1>2. ReaderTypes'
  BY DEF ReaderInv, ReaderTypes
<1>3. WireWhole'
  BY <1>1 DEF ReaderInv, WireWhole
<1>4. FrameWhole'
  BY <1>1 DEF FrameWhole
<1>5. SentIsAccounted'
  BY <1>1 DEF ReaderInv, SentIsAccounted
<1>6. CauseIsRight'
  BY <1>1 DEF ReaderInv, CauseIsRight
<1> QED BY <1>2, <1>3, <1>4, <1>5, <1>6 DEF ReaderInv

\* The reader's frame and what is unread, where the frame is about to go.
LEMMA FrameFacts ==
  ASSUME ReaderInv, Reading
  PROVE  /\ frame \in [id : Seq(Int), data : Seq(Int)] /\ Len(frame.data) \in {0, 1}
         /\ Len(frame.data) = 0 <=> frame.data = <<>>
         /\ EmptyFrame \in [id : Seq(Int), data : Seq(Int)]
         /\ Len(Got) + (IF Pending THEN 1 ELSE 0) + Unread(wire, 1) = Len(sent)
         /\ Len(Got) \in Nat /\ Len(sent) \in Nat /\ Unread(wire, 1) \in Nat
         /\ wire = <<>> => Unread(wire, 1) = 0
         /\ reader = "last" => wire = <<>> /\ body \in {"eof", "cut"}
         /\ cause = "nil"
<1>1. frame \in [id : Seq(Int), data : Seq(Int)] /\ Len(frame.data) <= 1
  BY DEF ReaderInv, ReaderTypes, FrameWhole
<1>2. Len(frame.data) \in {0, 1} /\ (Len(frame.data) = 0 <=> frame.data = <<>>)
  <2>1. PICK s : s = frame.data
    OBVIOUS
  <2>2. s \in Seq(Int) /\ Len(s) <= 1
    BY <1>1, <2>1
  <2>3. (s = <<>> => Len(s) = 0) /\ (s # <<>> => Len(s) \in Nat \ {0})
    BY <2>2, EmptySeq
  <2>4. Len(s) \in {0, 1} /\ (Len(s) = 0 <=> s = <<>>)
    <3>1. CASE s = <<>>
      BY <2>3, <3>1
    <3>2. CASE s # <<>>
      <4>1. Len(s) \in Nat /\ Len(s) # 0 /\ Len(s) <= 1
        BY <2>2, <2>3, <3>2
      <4>2. Len(s) = 1
        BY <4>1
      <4> QED BY <3>2, <4>2
    <3> QED BY <3>1, <3>2
  <2> QED BY <2>1, <2>4
<1>3. EmptyFrame \in [id : Seq(Int), data : Seq(Int)]
  BY DEF EmptyFrame
<1>4. Len(Got) + (IF Pending THEN 1 ELSE 0) + Unread(wire, 1) = Len(sent)
  BY DEF ReaderInv, SentIsAccounted
<1>5. Len(Got) \in Nat /\ Len(sent) \in Nat /\ Unread(wire, 1) \in Nat
  <2>1. 1 \in Nat \ {0}
    OBVIOUS
  <2> QED BY <2>1, ReaderFacts
<1>6. wire = <<>> => Unread(wire, 1) = 0
  <2> HAVE wire = <<>>
  <2>1. DataFrom(wire, 1) = {}
    BY DEF DataFrom
  <2> QED BY <2>1, FS_EmptySet DEF Unread
<1>7. (reader = "last" => wire = <<>> /\ body \in {"eof", "cut"}) /\ cause = "nil"
  BY DEF ReaderInv, FrameWhole, CauseIsRight
<1> QED BY <1>1, <1>2, <1>3, <1>4, <1>5, <1>6, <1>7

\* The body has ended.
LEMMA EndOfBodyReads ==
  ASSUME ReaderInv, ReadEnd
  PROVE  ReaderInv'
<1>1. /\ reader = "read" /\ body \in {"eof", "cut"} /\ OnlyTorn /\ wire' = <<>>
      /\ frame' = (IF wire = <<>> THEN frame ELSE Fold(wire[1]))
      /\ reader' = "last"
      /\ UNCHANGED <<body, cause, err, out, closing, taken, sent>>
  BY DEF ReadEnd
<1>2. Got' = Got /\ Reading /\ Reading' /\ (Early' <=> Early)
  BY <1>1 DEF Got, Reading, Early
<1>3. /\ wire \in Seq(WireLines) /\ DOMAIN wire = 1..Len(wire)
      /\ frame \in [id : Seq(Int), data : Seq(Int)]
      /\ \A k \in DOMAIN Got : Got[k] = sent[k]
  BY <1>2, ReaderFacts, FrameFacts
<1>4. /\ Len(Got) + (IF Pending THEN 1 ELSE 0) + Unread(wire, 1) = Len(sent)
      /\ Len(Got) \in Nat /\ Len(sent) \in Nat /\ cause = "nil"
  BY <1>2, FrameFacts
<1>5. Unread(wire, 1) = 0 /\ Unread(wire', 1) = 0
  <2>1. DataFrom(wire, 1) = {}
    BY <1>1, <1>3 DEF DataFrom, OnlyTorn
  <2>2. DataFrom(wire', 1) = {}
    BY <1>1 DEF DataFrom
  <2> QED BY <2>1, <2>2, FS_EmptySet DEF Unread
<1>6. ASSUME wire # <<>>
      PROVE  /\ frame'.data = <<Torn>> /\ frame' \in [id : Seq(Int), data : Seq(Int)]
             /\ ~Pending
  <2>1. 1 \in 1..Len(wire)
    BY <1>3, <1>6
  <2>2. wire[1].kind = "torn" /\ wire[1].ev = Torn
    BY <1>1, <1>3, <2>1 DEF OnlyTorn, ReaderInv, WireWhole
  <2>3. frame.data = <<>>
    <3>1. frame # EmptyFrame /\ frame.data # <<>> => Follows("data", 0, wire[1])
      BY <1>1, <1>6 DEF ReaderInv, FrameWhole
    <3>2. frame.data # <<>> => frame # EmptyFrame
      BY DEF EmptyFrame
    <3> QED BY <2>2, <3>1, <3>2 DEF Follows
  <2>4. frame' = [frame EXCEPT !.data = <<Torn>>]
    <3>1. Append(frame.data, Torn) = <<Torn>>
      BY <2>3
    <3> QED BY <1>1, <1>6, <2>2, <3>1 DEF Fold
  <2>5. <<Torn>> \in Seq(Int)
    BY DEF Torn
  <2> QED BY <1>3, <2>3, <2>4, <2>5 DEF Pending
<1>7. /\ frame' \in [id : Seq(Int), data : Seq(Int)] /\ Len(frame'.data) <= 1
      /\ (Pending' <=> Pending) /\ (Pending => frame' = frame)
  <2>1. CASE wire = <<>>
    BY <1>1, <1>2, <1>3, <2>1 DEF ReaderInv, FrameWhole, Pending
  <2>2. CASE wire # <<>>
    <3>1. frame'.data = <<Torn>>
      BY <1>6, <2>2
    <3>2. Len(<<Torn>>) = 1 /\ <<Torn>>[1] = Torn
      OBVIOUS
    <3> QED BY <1>6, <2>2, <3>1, <3>2 DEF Pending
  <2> QED BY <2>1, <2>2
<1>8. ReaderTypes'
  BY <1>1, <1>7 DEF ReaderInv, ReaderTypes
<1>9. WireWhole'
  BY <1>1 DEF WireWhole
<1>10. FrameWhole'
  BY <1>1, <1>7 DEF ReaderInv, FrameWhole
<1>11. SentIsAccounted'
  <2>1. DOMAIN wire' = {}
    BY <1>1
  <2>2. Len(Got) + Unread(wire', 1) <= Len(sent)
    BY <1>4, <1>5
  <2>3. Len(Got) + (IF Pending THEN 1 ELSE 0) + Unread(wire', 1) = Len(sent)
    BY <1>4, <1>5
  <2>4. Pending => frame'.data[1] = sent[Len(Got) + 1]
    BY <1>7 DEF ReaderInv, SentIsAccounted
  <2> QED BY <1>1, <1>2, <1>3, <1>7, <2>1, <2>2, <2>3, <2>4 DEF SentIsAccounted
<1>12. CauseIsRight'
  BY <1>1, <1>2 DEF ReaderInv, CauseIsRight
<1> QED BY <1>8, <1>9, <1>10, <1>11, <1>12 DEF ReaderInv

\* The reader has dispatched a frame, and reads on.
LEMMA ReadsOn ==
  ASSUME ReaderInv, reader = "dispatch", reader' = "read", frame' = EmptyFrame,
         UNCHANGED <<wire, body, cause, err, closing, taken, sent>>,
         out' \in Seq(Int), \A k \in DOMAIN Got' : Got'[k] = sent[k],
         Len(Got') = Len(Got) + (IF Pending THEN 1 ELSE 0)
  PROVE  ReaderInv'
<1>1. Reading /\ Reading' /\ ~Pending' /\ (Early' <=> Early)
  BY DEF Reading, Pending, Early, EmptyFrame
<1>2. /\ Len(Got) + (IF Pending THEN 1 ELSE 0) + Unread(wire, 1) = Len(sent)
      /\ Len(Got) \in Nat /\ Len(sent) \in Nat /\ Unread(wire, 1) \in Nat
      /\ EmptyFrame \in [id : Seq(Int), data : Seq(Int)]
  BY <1>1, FrameFacts
<1>3. ReaderTypes'
  BY <1>2 DEF ReaderInv, ReaderTypes
<1>4. WireWhole'
  BY <1>1 DEF ReaderInv, WireWhole
<1>5. FrameWhole'
  BY <1>1 DEF FrameWhole, EmptyFrame
<1>6. SentIsAccounted'
  <2>1. Len(Got') + Unread(wire, 1) = Len(sent) /\ Len(Got') \in Nat
    BY <1>2
  <2>2. /\ Len(Got') + Unread(wire, 1) <= Len(sent)
        /\ Len(Got') + 0 + Unread(wire, 1) = Len(sent)
    BY <1>2, <2>1
  <2> QED BY <1>1, <2>2 DEF ReaderInv, SentIsAccounted
<1>7. CauseIsRight'
  BY <1>1 DEF ReaderInv, CauseIsRight
<1> QED BY <1>3, <1>4, <1>5, <1>6, <1>7 DEF ReaderInv

\* A frame without data is dropped.
LEMMA NothingReads ==
  ASSUME ReaderInv, DispatchNothing
  PROVE  ReaderInv'
<1>1. /\ reader \in {"dispatch", "last"} /\ frame.data = <<>> /\ reader' = Resumed
      /\ frame' = EmptyFrame
      /\ UNCHANGED <<wire, body, cause, err, out, closing, taken, sent>>
  BY DEF DispatchNothing
<1>2. Reading /\ ~Pending /\ Got' = Got
  BY <1>1 DEF Reading, Pending, Got
<1>3. /\ Len(Got) + (IF Pending THEN 1 ELSE 0) + Unread(wire, 1) = Len(sent)
      /\ Len(Got) \in Nat /\ Len(sent) \in Nat /\ Unread(wire, 1) \in Nat
      /\ wire = <<>> => Unread(wire, 1) = 0
      /\ reader = "last" => wire = <<>> /\ body \in {"eof", "cut"}
      /\ EmptyFrame \in [id : Seq(Int), data : Seq(Int)]
      /\ cause = "nil"
  BY <1>2, FrameFacts
<1>4. CASE reader = "last"
  <2>1. Len(Got) = Len(sent)
    BY <1>2, <1>3, <1>4
  <2>2. reader' = "finish" /\ reader # "off" /\ cause' = "nil"
    BY <1>1, <1>3, <1>4 DEF Resumed
  <2> QED BY <1>1, <1>2, <1>3, <1>4, <2>1, <2>2, GivesUp
<1>5. CASE reader = "dispatch"
  <2>1. reader' = "read"
    BY <1>1, <1>5 DEF Resumed
  <2>2. Len(Got') = Len(Got) + (IF Pending THEN 1 ELSE 0)
    BY <1>2, <1>3
  <2>3. out' \in Seq(Int) /\ \A k \in DOMAIN Got' : Got'[k] = sent[k]
    BY <1>1, <1>2 DEF ReaderInv, ReaderTypes, SentIsAccounted
  <2> QED BY <1>1, <1>5, <2>1, <2>2, <2>3, ReadsOn
<1> QED BY <1>1, <1>4, <1>5

\* An event goes out to the consumer.
LEMMA SendReads ==
  ASSUME ReaderInv, Send
  PROVE  ReaderInv'
<1>1. PICK x : x = IF frame.id = <<>> THEN frame.data[1] ELSE frame.id[1]
  OBVIOUS
<1>2. /\ reader \in {"dispatch", "last"} /\ Len(frame.data) = 1 /\ frame.data[1] # Torn
      /\ out' = Append(out, x) /\ reader' = Resumed /\ frame' = EmptyFrame
      /\ UNCHANGED <<wire, body, cause, err, closing, taken, sent>>
  BY <1>1 DEF Send
<1>3. Reading
  BY <1>2 DEF Reading
<1>4. /\ Len(Got) + (IF Pending THEN 1 ELSE 0) + Unread(wire, 1) = Len(sent)
      /\ Len(Got) \in Nat /\ Len(sent) \in Nat /\ Unread(wire, 1) \in Nat
      /\ wire = <<>> => Unread(wire, 1) = 0
      /\ reader = "last" => wire = <<>> /\ body \in {"eof", "cut"}
      /\ EmptyFrame \in [id : Seq(Int), data : Seq(Int)]
      /\ cause = "nil"
      /\ (Len(frame.data) = 0 <=> frame.data = <<>>)
  BY <1>3, FrameFacts
<1>5. Pending
  <2>1. frame.data # <<>>
    BY <1>2, <1>4
  <2> QED BY <1>2, <1>3, <2>1 DEF Pending
<1>6. x = sent[Len(Got) + 1]
  BY <1>1, <1>5 DEF ReaderInv, FrameWhole, SentIsAccounted
<1>7. Len(Got) + 1 + Unread(wire, 1) = Len(sent)
  BY <1>4, <1>5
<1>8. x \in Int
  <2>1. Len(Got) + 1 \in 1..Len(sent)
    BY <1>4, <1>7
  <2>2. sent \in Seq(Nat)
    BY ReaderFacts
  <2> QED BY <1>6, <2>1, <2>2
<1>9. taken \in Seq(Int) /\ out \in Seq(Int)
  BY DEF ReaderInv, ReaderTypes
<1>10. /\ out' \in Seq(Int) /\ Got' = Append(Got, x)
  <2>1. PICK t, o : t = taken /\ o = out
    OBVIOUS
  <2>2. t \in Seq(Int) /\ o \in Seq(Int)
    BY <1>9, <2>1
  <2>3. Append(o, x) \in Seq(Int) /\ t \o Append(o, x) = Append(t \o o, x)
    BY <1>8, <2>2
  <2> QED BY <1>2, <2>1, <2>3 DEF Got
<1>11. /\ Len(Got') = Len(Got) + 1 /\ \A k \in DOMAIN Got' : Got'[k] = sent[k]
  <2>1. Got \in Seq(Int) /\ \A k \in 1..Len(Got) : Got[k] = sent[k]
    BY ReaderFacts
  <2>2. /\ Len(Got') = Len(Got) + 1 /\ DOMAIN Got' = 1..(Len(Got) + 1)
        /\ Got'[Len(Got) + 1] = x /\ \A k \in 1..Len(Got) : Got'[k] = Got[k]
    BY <1>8, <1>10, <2>1
  <2>3. \A k \in 1..(Len(Got) + 1) : k \in 1..Len(Got) \/ k = Len(Got) + 1
    BY <1>4
  <2> QED BY <1>6, <2>1, <2>2, <2>3
<1>12. CASE reader = "dispatch"
  <2>1. reader' = "read"
    BY <1>2, <1>12 DEF Resumed
  <2>2. Len(Got') = Len(Got) + (IF Pending THEN 1 ELSE 0)
    BY <1>5, <1>11
  <2> QED BY <1>2, <1>10, <1>11, <1>12, <2>1, <2>2, ReadsOn
<1>13. CASE reader = "last"
  <2>1. Len(Got) + 1 = Len(sent) /\ wire = <<>> /\ body \in {"eof", "cut"}
    BY <1>4, <1>7, <1>13
  <2>2. reader' = "finish" /\ ~Reading' /\ ~Pending' /\ (Early' <=> Early)
    BY <1>2, <1>13 DEF Resumed, Reading, Pending, Early
  <2>3. ReaderTypes'
    BY <1>2, <1>4, <1>10, <1>13, <2>2 DEF ReaderInv, ReaderTypes
  <2>4. WireWhole'
    BY <1>2, <2>1 DEF WireWhole
  <2>5. FrameWhole'
    BY <2>2 DEF FrameWhole
  <2>6. SentIsAccounted'
    <3>1. Len(Got') + Unread(wire', 1) <= Len(sent')
      <4>1. Len(Got') = Len(sent) /\ Unread(wire, 1) = 0
        BY <1>4, <1>11, <2>1
      <4> QED BY <1>2, <1>4, <4>1
    <3>2. wire' = <<>>
      BY <1>2, <2>1
    <3> QED BY <1>2, <1>11, <2>2, <3>1, <3>2 DEF SentIsAccounted
  <2>7. CauseIsRight'
    <3>1. Len(Got') = Len(sent)
      BY <1>11, <2>1
    <3> QED BY <1>2, <1>4, <2>1, <2>2, <3>1 DEF ReaderInv, CauseIsRight
  <2> QED BY <2>3, <2>4, <2>5, <2>6, <2>7 DEF ReaderInv
<1> QED BY <1>2, <1>12, <1>13

\* The reader gives up, with the error it met or because of Close.
LEMMA FailReads ==
  ASSUME ReaderInv, ReadFails \/ DispatchMalformed \/ Abandon
  PROVE  ReaderInv'
<1>1. /\ reader \in {"read", "dispatch", "last"} /\ reader' = "finish"
      /\ UNCHANGED <<wire, body, err, out, closing, taken, sent>>
      /\ frame' \in {frame, EmptyFrame}
      /\ cause' = "ours" => closing = "closed"
      /\ cause' = "nil" => closing = "closed"
  BY DEF ReadFails, DispatchMalformed, Abandon
<1>2. Reading /\ reader # "off"
  BY <1>1 DEF Reading
<1>3. frame' \in [id : Seq(Int), data : Seq(Int)]
  BY <1>1, <1>2, FrameFacts
<1> QED BY <1>1, <1>2, <1>3, GivesUp

\* The reader finishes.
LEMMA FinishReads ==
  ASSUME ReaderInv, Finish \/ CloseEvents
  PROVE  ReaderInv'
<1>1. /\ reader \in {"finish", "finished"} /\ reader' \in {"finished", "done"}
      /\ UNCHANGED <<wire, body, frame, cause, out, closing, taken, sent>>
      /\ \/ reader = "finish" /\ err' = (IF closing = "no" THEN cause ELSE "nil")
         \/ reader = "finished" /\ err' = err
  BY DEF Finish, CloseEvents
<1>2. Got' = Got /\ ~Reading /\ ~Reading' /\ ~Pending /\ ~Pending' /\ (Early' <=> Early)
  BY <1>1 DEF Got, Reading, Pending, Early
<1>3. ReaderTypes'
  BY <1>1 DEF ReaderInv, ReaderTypes
<1>4. WireWhole'
  BY <1>1, <1>2 DEF ReaderInv, WireWhole
<1>5. FrameWhole'
  BY <1>1, <1>2 DEF FrameWhole
<1>6. SentIsAccounted'
  BY <1>1, <1>2 DEF ReaderInv, SentIsAccounted
<1>7. CauseIsRight'
  BY <1>1, <1>2 DEF ReaderInv, CauseIsRight
<1> QED BY <1>3, <1>4, <1>5, <1>6, <1>7 DEF ReaderInv

\* The consumer receives an event, stalls or closes the stream.
LEMMA ConsumerReads ==
  ASSUME ReaderInv, Take \/ Stall \/ Close
  PROVE  ReaderInv'
<1>1. /\ UNCHANGED <<wire, body, frame, reader, cause, err, sent>>
      /\ \/ UNCHANGED closing
         \/ closing = "no" /\ closing' = "marked"
         \/ closing = "marked" /\ closing' = "closed"
  BY DEF Take, Stall, Close
<1>2. taken \in Seq(Int) /\ out \in Seq(Int)
  BY DEF ReaderInv, ReaderTypes
<1>3. taken' \in Seq(Int) /\ out' \in Seq(Int) /\ Got' = Got
  <2>1. CASE Take
    <3>1. PICK t, o : t = taken /\ o = out
      OBVIOUS
    <3>2. /\ t \in Seq(Int) /\ o \in Seq(Int) /\ o # <<>>
          /\ out' = Tail(o) /\ taken' = Append(t, Head(o))
      BY <1>2, <2>1, <3>1 DEF Take
    <3>3. /\ Head(o) \in Int /\ Tail(o) \in Seq(Int) /\ Append(t, Head(o)) \in Seq(Int)
          /\ Append(t, Head(o)) \o Tail(o) = t \o o
      BY <3>2
    <3> QED BY <3>1, <3>2, <3>3 DEF Got
  <2>2. CASE Stall \/ Close
    BY <1>2, <2>2 DEF Stall, Close, Got
  <2> QED BY <2>1, <2>2
<1>4. (Reading' <=> Reading) /\ (Pending' <=> Pending) /\ (Early' <=> Early)
  BY <1>1 DEF Reading, Pending, Early
<1>5. ReaderTypes'
  BY <1>1, <1>3 DEF ReaderInv, ReaderTypes, Closings
<1>6. WireWhole' /\ FrameWhole'
  BY <1>1, <1>4 DEF ReaderInv, WireWhole, FrameWhole
<1>7. SentIsAccounted'
  BY <1>1, <1>3, <1>4 DEF ReaderInv, SentIsAccounted
<1>8. CauseIsRight'
  BY <1>1, <1>3, <1>4 DEF ReaderInv, CauseIsRight
<1> QED BY <1>5, <1>6, <1>7, <1>8 DEF ReaderInv

\* Every step of the reader, its consumer and the network keeps ReaderInv; the
\* events written are numbers of the hub's.
LEMMA ReaderStays ==
  ASSUME ReaderInv,
         \/ OpenBody \/ EndBody \/ CutBody("cut") \/ CutBody("broken")
         \/ (\E ev \in Nat : WriteFrame(ev))
         \/ ReaderStep \/ Take \/ Stall \/ Close
         \/ UNCHANGED readerVars
  PROVE  ReaderInv'
<1>1. CASE OpenBody
  BY <1>1, OpenReads
<1>2. CASE EndBody
  BY <1>2, EndReads
<1>3. CASE CutBody("cut") \/ CutBody("broken")
  BY <1>3, CutReads
<1>4. CASE \E ev \in Nat : WriteFrame(ev)
  BY <1>4, WriteReads
<1>5. CASE ReaderStep
  BY <1>5, LineReads, EndOfBodyReads, FailReads, NothingReads, SendReads, FinishReads
     DEF ReaderStep
<1>6. CASE Take \/ Stall \/ Close
  BY <1>6, ConsumerReads
<1>7. CASE UNCHANGED readerVars
  <2>1. UNCHANGED <<wire, body, frame, reader, cause, err, out, closing, taken, sent>>
    BY <1>7 DEF readerVars
  <2>2. /\ Got' = Got /\ (Reading' <=> Reading) /\ (Pending' <=> Pending)
        /\ (Early' <=> Early)
    BY <2>1 DEF Got, Reading, Pending, Early
  <2>3. ReaderTypes'
    BY <2>1 DEF ReaderInv, ReaderTypes
  <2>4. WireWhole' /\ FrameWhole'
    BY <2>1, <2>2 DEF ReaderInv, WireWhole, FrameWhole
  <2>5. SentIsAccounted' /\ CauseIsRight'
    BY <2>1, <2>2 DEF ReaderInv, SentIsAccounted, CauseIsRight
  <2> QED BY <2>3, <2>4, <2>5 DEF ReaderInv
<1> QED BY <1>1, <1>2, <1>3, <1>4, <1>5, <1>6, <1>7

LEMMA ReaderStarts ==
  ASSUME ReaderInit
  PROVE  ReaderInv
<1>1. Got = <<>> /\ ~Pending /\ DOMAIN wire = {} /\ Len(wire) = 0
  BY DEF ReaderInit, Got, Pending, EmptyFrame
<1>2. Unread(wire, 1) = 0
  <2>1. DataFrom(wire, 1) = {}
    BY <1>1 DEF DataFrom
  <2> QED BY <2>1, FS_EmptySet DEF Unread
<1>3. ReaderTypes
  BY DEF ReaderInit, ReaderTypes, EmptyFrame, Closings
<1>4. WireWhole /\ FrameWhole /\ CauseIsRight
  BY <1>1 DEF ReaderInit, WireWhole, FrameWhole, CauseIsRight, Reading, EmptyFrame
<1>5. SentIsAccounted
  BY <1>1, <1>2 DEF ReaderInit, SentIsAccounted
<1> QED BY <1>3, <1>4, <1>5 DEF ReaderInv

\* The reader's promise to its consumer is what ReaderInv says of its end.
LEMMA ReaderIsHonest ==
  ASSUME ReaderInv
  PROVE  StreamIsHonest
<1>1. /\ Got \in Seq(Int) /\ Len(Got) \in Nat /\ sent \in Seq(Nat) /\ Len(sent) \in Nat
      /\ \A k \in 1..Len(Got) : Got[k] = sent[k]
  BY ReaderFacts
<1>2. Len(Got) <= Len(sent)
  <2>1. 1 \in Nat \ {0}
    OBVIOUS
  <2>2. Len(Got) + Unread(wire, 1) <= Len(sent) /\ Unread(wire, 1) \in Nat
    BY <2>1, ReaderFacts
  <2> QED BY <1>1, <2>2
<1>3. IsPrefix(Got, sent)
  <2>1. SubSeq(Got, 1, Len(Got)) = SubSeq(sent, 1, Len(Got))
    BY <1>1, <1>2
  <2> QED BY <1>2, <2>1 DEF IsPrefix
<1>4. ASSUME reader = "done", err = "nil", closing = "no"
      PROVE  Got = sent /\ body # "broken"
  <2>1. Len(Got) = Len(sent) /\ body \in {"eof", "cut"}
    BY <1>4 DEF ReaderInv, CauseIsRight, Reading
  <2>2. Got = sent
    <3>1. PICK g, s : g = Got /\ s = sent
      OBVIOUS
    <3>2. g \in Seq(Int) /\ s \in Seq(Int) /\ Len(g) = Len(s) /\ \A k \in 1..Len(g) : g[k] = s[k]
      BY <1>1, <2>1, <3>1
    <3> QED BY <3>1, <3>2
  <2> QED BY <2>1, <2>2
<1>5. err # "ours"
  BY DEF ReaderInv, CauseIsRight
<1> QED BY <1>3, <1>4, <1>5 DEF StreamIsHonest, DeliversWhatWasSent, EndIsTold, Got

-----------------------------------------------------------------------------
(* Induction *)

\* The natural numbers are well-ordered by <.
LEMMA LeastElement ==
  ASSUME NEW T, T \subseteq Nat, T # {}
  PROVE  \E x \in T : \A y \in T : x <= y
<1> DEFINE R == {p \in Nat \X Nat : p[1] < p[2]}
<1>1. IsWellFoundedOn(R, Nat)
  BY NatLessThanWellFounded DEF OpToRel
<1>2. \A x, y \in Nat : <<x, y>> \in R <=> x < y
  OBVIOUS
<1> HIDE DEF R
<1>3. PICK x \in T : \A y \in T : ~(<<y, x>> \in R)
  BY <1>1, WFMin
<1>4. ASSUME NEW y \in T PROVE x <= y
  <2>1. x \in Nat /\ y \in Nat /\ ~(y < x)
    BY <1>2, <1>3
  <2> QED BY <2>1
<1> QED BY <1>4

\* A property of 0 that passes on from i - 1 to i holds up to N.
LEMMA Induction ==
  ASSUME NEW N \in Nat, NEW T \in SUBSET (0..N), 0 \in T,
         \A i \in 1..N : i - 1 \in T => i \in T
  PROVE  T = 0..N
<1> SUFFICES ASSUME (0..N) \ T # {} PROVE FALSE
  OBVIOUS
<1> DEFINE U == (0..N) \ T
<1>0. U \subseteq Nat /\ U # {}
  OBVIOUS
<1> HIDE DEF U
<1>1. PICK x \in U : \A y \in U : x <= y
  BY <1>0, LeastElement
<1> USE DEF U
<1>2. x \in 1..N /\ x - 1 \in 0..N
  BY <1>1
<1>3. x - 1 \in T
  BY <1>1, <1>2
<1> QED BY <1>1, <1>2, <1>3

-----------------------------------------------------------------------------
(* The hub, as the handler of the stream uses it *)

\* A subscriber that names no event gets all that is buffered.
LEMMA AfterIsAll ==
  ASSUME HubTypes
  PROVE  After(0) = buf
<1> DEFINE F(g) == [i \in 0..Len(buf) |->
                      IF i = 0 THEN <<>>
                      ELSE IF buf[i].seq > 0 THEN Append(g[i - 1], buf[i]) ELSE g[i - 1]]
           kept == CHOOSE g : g = F(g)
           w == [i \in 0..Len(buf) |-> SubSeq(buf, 1, i)]
<1>1. buf \in Seq(Events) /\ Len(buf) \in Nat
  BY DEF HubTypes
<1>2. \A i \in 1..Len(buf) : buf[i] \in Events /\ buf[i].seq > 0
  <2>1. \A e \in Events : e.seq > 0
    BY HubAssumption DEF Events
  <2> QED BY <1>1, <2>1
<1>3. \A i \in 1..Len(buf) : SubSeq(buf, 1, i) = Append(SubSeq(buf, 1, i - 1), buf[i])
  <2> TAKE i \in 1..Len(buf)
  <2>1. SubSeq(buf, 1, i) = SubSeq(buf, 1, i - 1) \o <<buf[i]>>
    BY <1>1, SubSeqRecursiveSecond
  <2>2. SubSeq(buf, 1, i - 1) \in Seq(Events)
    BY <1>1, SubSeqProperties
  <2> QED BY <1>2, <2>1, <2>2, AppendIsConcat
<1>4. w[0] = <<>> /\ \A i \in 1..Len(buf) : w[i] = Append(w[i - 1], buf[i])
  <2>1. SubSeq(buf, 1, 0) = <<>>
    BY <1>1, SubSeqEmpty
  <2>2. \A i \in 1..Len(buf) : i \in 0..Len(buf) /\ i - 1 \in 0..Len(buf)
    BY <1>1
  <2> QED BY <1>1, <1>3, <2>1, <2>2
<1>5. w = F(w)
  <2>1. w = [i \in 0..Len(buf) |-> w[i]]
    OBVIOUS
  <2> HIDE DEF w
  <2>2. \A i \in 0..Len(buf) :
           w[i] = IF i = 0 THEN <<>>
                  ELSE IF buf[i].seq > 0 THEN Append(w[i - 1], buf[i]) ELSE w[i - 1]
    <3>1. \A i \in 0..Len(buf) : i = 0 \/ i \in 1..Len(buf)
      BY <1>1
    <3> QED BY <1>2, <1>4, <3>1
  <2> QED BY <2>1, <2>2
<1>6. w[Len(buf)] = buf
  BY <1>1, SubSeqFull
<1> HIDE DEF w
<1>7. kept = F(kept)
  BY <1>5
<1> HIDE DEF kept
<1>8. kept[0] = <<>> /\ \A i \in 1..Len(buf) : kept[i] = Append(kept[i - 1], buf[i])
  <2>1. 0 \in 0..Len(buf) /\ \A i \in 1..Len(buf) : i \in 0..Len(buf) /\ i # 0
    BY <1>1
  <2> QED BY <1>2, <1>7, <2>1
<1>9. {i \in 0..Len(buf) : kept[i] = w[i]} = 0..Len(buf)
  <2> DEFINE T == {i \in 0..Len(buf) : kept[i] = w[i]}
  <2>1. 0 \in T
    BY <1>1, <1>4, <1>8
  <2>2. \A i \in 1..Len(buf) : i - 1 \in T => i \in T
    <3>1. \A i \in 1..Len(buf) : i \in 0..Len(buf)
      BY <1>1
    <3> QED BY <1>4, <1>8, <3>1
  <2>3. T \in SUBSET (0..Len(buf))
    OBVIOUS
  <2> HIDE DEF T
  <2>4. T = 0..Len(buf)
    BY <1>1, <2>1, <2>2, <2>3, Induction
  <2> QED BY <2>4 DEF T
<1>10. kept[Len(buf)] = buf
  <2>1. Len(buf) \in 0..Len(buf)
    BY <1>1
  <2> QED BY <1>6, <1>9, <2>1
<1> QED BY <1>10 DEF After, kept

\* An event is published; the subscriber's channel takes it or is dropped.
LEMMA PublishView ==
  ASSUME HubView, NEW t \in Turns, NEW name \in Names, Publish(t, name)
  PROVE  /\ HubTypes' /\ \A c \in Chans : next'[c] + Len(chan'[c]) <= seq' + 1
         /\ seq' = seq + 1 /\ next' = next /\ closed \subseteq closed'
         /\ name = "turn_started" => currentTurn' = t
         /\ name = "delta" => currentTurn' = currentTurn
         /\ \A c \in Chans :
              \/ /\ c \in subs /\ c \in subs' /\ (c \in closed' => c \in closed)
                 /\ \E ev \in Events : ev.seq = seq + 1 /\ chan'[c] = Append(chan[c], ev)
              \/ c \notin subs' /\ chan'[c] = chan[c]
         /\ \E ev \in Events : ev.seq = seq + 1 /\ buf' = Trim(Append(buf, ev))
<1> USE HubAssumption
<1>1. PICK ev : ev = [seq |-> seq + 1, name |-> name, turn |-> t]
  OBVIOUS
<1>2. PICK fits : fits = {c \in subs : Len(chan[c]) < ChanCap}
  OBVIOUS
<1>3. /\ seq < MaxSeq /\ seq' = seq + 1 /\ buf' = Trim(Append(buf, ev))
      /\ currentTurn' = CASE name = "turn_started" -> t
                          [] name = "turn_finished" -> 0
                          [] OTHER -> currentTurn
      /\ chan' = [c \in Chans |-> IF c \in fits THEN Append(chan[c], ev) ELSE chan[c]]
      /\ subs' = fits /\ closed' = closed \cup (subs \ fits) /\ next' = next
  BY <1>1, <1>2 DEF Publish
<1>4. /\ seq \in 0..MaxSeq /\ buf \in Seq(Events) /\ currentTurn \in Turns \cup {0}
      /\ subs \subseteq Chans /\ closed \subseteq Chans
      /\ chan \in [Chans -> Seq(Events)] /\ next \in [Chans -> 1..(MaxSeq + 1)]
      /\ \A c \in Chans : next[c] + Len(chan[c]) <= seq + 1
  BY DEF HubView, HubTypes
<1>5. ev \in Events /\ ev.seq = seq + 1 /\ seq + 1 \in 1..MaxSeq
  <2>1. seq + 1 \in 1..MaxSeq
    BY <1>3, <1>4
  <2> QED BY <1>1, <2>1 DEF Events, Turns
<1>6. \A c \in Chans : /\ Append(chan[c], ev) \in Seq(Events)
                       /\ Len(Append(chan[c], ev)) = Len(chan[c]) + 1
                       /\ chan[c] \in Seq(Events) /\ Len(chan[c]) \in Nat
  <2> TAKE c \in Chans
  <2>1. PICK s : s = chan[c]
    OBVIOUS
  <2>2. s \in Seq(Events)
    BY <1>4, <2>1
  <2>3. Append(s, ev) \in Seq(Events) /\ Len(Append(s, ev)) = Len(s) + 1 /\ Len(s) \in Nat
    BY <1>5, <2>2
  <2> QED BY <2>1, <2>2, <2>3
<1>7. chan' \in [Chans -> Seq(Events)]
  BY <1>3, <1>6
<1>8. buf' \in Seq(Events)
  <2>1. PICK b : b = Append(buf, ev)
    OBVIOUS
  <2>2. b \in Seq(Events) /\ Len(b) \in Nat
    BY <1>4, <1>5, <2>1
  <2>3. CASE Len(b) > BufCap
    <3>1. \A i \in (Len(b) - BufCap + 1)..Len(b) : b[i] \in Events
      <4>1. \A i \in (Len(b) - BufCap + 1)..Len(b) : i \in 1..Len(b)
        BY <2>2, <2>3
      <4> QED BY <2>2, <4>1
    <3>2. Len(b) - BufCap + 1 \in Int /\ Len(b) \in Int
      BY <2>2
    <3>3. SubSeq(b, Len(b) - BufCap + 1, Len(b)) \in Seq(Events)
      BY <3>1, <3>2, SubSeqProperties
    <3> QED BY <1>3, <2>1, <2>3, <3>3 DEF Trim
  <2>4. CASE ~(Len(b) > BufCap)
    BY <1>3, <2>1, <2>2, <2>4 DEF Trim
  <2> QED BY <2>3, <2>4
<1>9. HubTypes'
  <2>1. currentTurn' \in Turns \cup {0}
    BY <1>3, <1>4 DEF Names
  <2>2. seq' \in 0..MaxSeq
    BY <1>3, <1>4
  <2>3. subs' \subseteq Chans /\ closed' \subseteq Chans
    BY <1>2, <1>3, <1>4
  <2> QED BY <1>3, <1>4, <1>7, <1>8, <2>1, <2>2, <2>3 DEF HubTypes
<1>10. ASSUME NEW c \in Chans
       PROVE  next'[c] + Len(chan'[c]) <= seq' + 1
  <2>1. /\ next[c] + Len(chan[c]) <= seq + 1 /\ Len(chan[c]) \in Nat
        /\ next[c] \in Nat /\ seq \in Nat
    BY <1>4, <1>6
  <2>2. Len(chan'[c]) \in {Len(chan[c]), Len(chan[c]) + 1}
    BY <1>3, <1>6
  <2> QED BY <1>3, <2>1, <2>2
<1>11. ASSUME NEW c \in Chans
       PROVE  \/ /\ c \in subs /\ c \in subs' /\ (c \in closed' => c \in closed)
                 /\ \E e \in Events : e.seq = seq + 1 /\ chan'[c] = Append(chan[c], e)
              \/ c \notin subs' /\ chan'[c] = chan[c]
  BY <1>2, <1>3, <1>5
<1>12. closed \subseteq closed' /\ (name = "turn_started" => currentTurn' = t)
       /\ (name = "delta" => currentTurn' = currentTurn)
  BY <1>3
<1> QED BY <1>3, <1>5, <1>9, <1>10, <1>11, <1>12

\* The turn's part of HubView.
TurnKnown == turn \in {"starting", "built", "refused", "running"} => currentTurn # 0

\* Neither the hub nor the backlog is touched.
LEMMA ViewQuiet ==
  ASSUME HubView, UNCHANGED <<hubVars, backlog>>,
         turn' \in {"starting", "built", "refused", "running"} =>
           turn \in {"starting", "built", "refused", "running"}
  PROVE  HubView'
BY DEF HubView, HubTypes, hubVars

\* A step of the stream's handler.
LEMMA StreamViews ==
  ASSUME HubView, StreamStep
  PROVE  HubView'
<1> USE HubAssumption, ShutdownAssumption DEF StreamOnly, turnVars
<1>1. /\ seq \in 0..MaxSeq /\ buf \in Seq(Events) /\ currentTurn \in Turns \cup {0}
      /\ subs \subseteq Chans /\ closed \subseteq Chans
      /\ chan \in [Chans -> Seq(Events)] /\ next \in [Chans -> 1..(MaxSeq + 1)]
      /\ backlog \in Seq(Events)
  BY DEF HubView, HubTypes
<1>2. Client \in Chans
  OBVIOUS
<1>3. CASE StreamSubscribes
  <2>1. /\ chan' = [chan EXCEPT ![Client] = <<>>] /\ next' = [next EXCEPT ![Client] = seq + 1]
        /\ UNCHANGED <<seq, buf, currentTurn, turn>> /\ backlog' = buf
        /\ subs' \subseteq Chans /\ closed' \subseteq Chans
    <3>1. After(0) = buf
      BY AfterIsAll DEF HubView
    <3> QED BY <1>1, <1>3, <3>1 DEF StreamSubscribes, Subscribe
  <2>2. chan' \in [Chans -> Seq(Events)]
    BY <1>1, <2>1
  <2>3. next' \in [Chans -> 1..(MaxSeq + 1)]
    <3>1. seq + 1 \in 1..(MaxSeq + 1)
      BY <1>1
    <3> QED BY <1>1, <2>1, <3>1
  <2>4. ASSUME NEW c \in Chans
        PROVE  next'[c] + Len(chan'[c]) <= seq' + 1
    <3>1. c = Client
      OBVIOUS
    <3>2. chan'[c] = <<>> /\ next'[c] = seq + 1
      BY <1>1, <2>1, <3>1
    <3>3. seq + 1 + 0 <= seq + 1
      BY <1>1
    <3> QED BY <2>1, <3>2, <3>3
  <2> QED BY <1>1, <2>1, <2>2, <2>3, <2>4 DEF HubView, HubTypes
<1>4. CASE StreamWrites
  <2>1. UNCHANGED turn
    BY <1>4 DEF StreamWrites
  <2>2. CASE UNCHANGED <<hubVars, backlog>>
    BY <2>1, <2>2, ViewQuiet
  <2>3. CASE backlog # <<>> /\ backlog' = Tail(backlog) /\ UNCHANGED hubVars
    <3>1. backlog' \in Seq(Events)
      BY <1>1, <2>3
    <3> QED BY <2>1, <2>3, <3>1 DEF HubView, HubTypes, hubVars
  <2>4. CASE Receive(Client) /\ UNCHANGED backlog
    <3>1. PICK s : s = chan[Client]
      OBVIOUS
    <3>2. /\ s # <<>> /\ chan' = [chan EXCEPT ![Client] = Tail(s)]
          /\ next' = [next EXCEPT ![Client] = next[Client] + 1]
          /\ UNCHANGED <<seq, buf, currentTurn, subs, closed, backlog>>
      BY <2>4, <3>1 DEF Receive
    <3>3. s \in Seq(Events)
      BY <1>1, <3>1
    <3>4. Tail(s) \in Seq(Events) /\ Len(Tail(s)) = Len(s) - 1 /\ Len(s) \in Nat /\ Len(s) >= 1
      BY <3>2, <3>3
    <3>5. next[Client] + Len(s) <= seq + 1 /\ next[Client] \in 1..(MaxSeq + 1) /\ seq \in 0..MaxSeq
      BY <1>1, <3>1 DEF HubView
    <3>6. next[Client] + 1 \in 1..(MaxSeq + 1) /\ next[Client] + 1 + Len(Tail(s)) <= seq + 1
      BY <3>4, <3>5
    <3>7. chan' \in [Chans -> Seq(Events)] /\ next' \in [Chans -> 1..(MaxSeq + 1)]
      BY <1>1, <3>2, <3>4, <3>6
    <3>8. ASSUME NEW c \in Chans
          PROVE  next'[c] + Len(chan'[c]) <= seq' + 1
      <4>1. c = Client
        OBVIOUS
      <4>2. chan'[c] = Tail(s) /\ next'[c] = next[Client] + 1
        BY <1>1, <3>2, <4>1
      <4> QED BY <3>2, <3>6, <4>2
    <3> QED BY <2>1, <3>2, <3>7, <3>8 DEF HubView, HubTypes
  <2> QED BY <1>4, <2>2, <2>3, <2>4 DEF StreamWrites
<1>5. CASE StreamReturns
  BY <1>5, ViewQuiet DEF StreamReturns
<1>6. CASE StreamGone
  BY <1>6 DEF StreamGone, Unsubscribe, HubView, HubTypes
<1> QED BY <1>3, <1>4, <1>5, <1>6 DEF StreamStep

\* A step of the turn, which publishes what it does.
LEMMA TurnViews ==
  ASSUME HubView, TurnStep
  PROVE  HubView'
<1> USE HubAssumption DEF TurnOnly, httpVars, turnVars
<1>1. ASSUME NEW t \in Turns, NEW name \in Names, Publish(t, name), UNCHANGED backlog,
             TurnKnown'
      PROVE  HubView'
  <2>1. HubTypes' /\ \A c \in Chans : next'[c] + Len(chan'[c]) <= seq' + 1
    BY <1>1, PublishView
  <2> QED BY <1>1, <2>1 DEF HubView, TurnKnown
<1>2. ASSUME NEW drains, StartTurn(drains), UNCHANGED backlog
      PROVE  HubView'
  <2>1. seq + 1 \in Turns /\ seq + 1 # 0
    BY <1>2 DEF StartTurn, HubView, HubTypes, Turns
  <2>2. Publish(seq + 1, "turn_started") /\ "turn_started" \in Names
    BY <1>2 DEF StartTurn, Names
  <2>3. currentTurn' = seq + 1
    BY <2>2 DEF Publish
  <2> QED BY <1>1, <1>2, <2>1, <2>2, <2>3 DEF TurnKnown
<1>3. turn \in {"starting", "built", "refused", "running"} => currentTurn \in Turns
  BY DEF HubView, HubTypes
<1>4. CASE MessageArrives
  <2>1. CASE StartTurn(FALSE)
    BY <1>2, <1>4, <2>1 DEF MessageArrives
  <2>2. CASE UNCHANGED <<hubVars, turnVars>>
    BY <1>4, <2>2, ViewQuiet DEF MessageArrives
  <2> QED BY <1>4, <2>1, <2>2 DEF MessageArrives
<1>5. CASE Drain
  BY <1>2, <1>5 DEF Drain
<1>6. CASE BackgroundExits \/ EnsureSandbox \/ Attach \/ FinishTurn
  BY <1>6, ViewQuiet DEF BackgroundExits, EnsureSandbox, Attach, FinishTurn
<1>7. CASE ReleaseRefused \/ TurnEnds
  <2>1. currentTurn \in Turns /\ Publish(currentTurn, "turn_finished") /\ turn' = "finishing"
        /\ UNCHANGED backlog /\ "turn_finished" \in Names
    BY <1>3, <1>7 DEF ReleaseRefused, TurnEnds, Names
  <2> QED BY <1>1, <2>1 DEF TurnKnown
<1>8. CASE TurnSpeaks
  <2>1. /\ currentTurn \in Turns /\ Publish(currentTurn, "delta") /\ UNCHANGED <<turn, backlog>>
        /\ "delta" \in Names /\ turn = "running"
    BY <1>3, <1>8 DEF TurnSpeaks, Names
  <2>2. currentTurn' = currentTurn
    BY <2>1 DEF Publish
  <2> QED BY <1>1, <2>1, <2>2 DEF TurnKnown, HubView
<1> QED BY <1>4, <1>5, <1>6, <1>7, <1>8 DEF TurnStep

LEMMA ViewStays ==
  ASSUME HubView, [Next]_vars
  PROVE  HubView'
<1> USE DEF httpVars, turnVars, ctrlVars, mainVars, MainOnly, Node
<1>1. CASE Signal \/ LeaseLapses \/ Arrive \/ NetworkCuts \/ RelayEnds \/ CreateSession
           \/ Reap \/ Reaped
  BY <1>1, ViewQuiet DEF Signal, LeaseLapses, Arrive, NetworkCuts, RelayEnds, CreateSession,
     Reap, Reaped
<1>2. CASE CloseSubscribers
  BY <1>2 DEF CloseSubscribers, CloseAll, HubView, HubTypes
<1>3. CASE ShutdownReturns \/ ShutdownTimesOut \/ StopSweeper \/ Closing \/ Revoke \/ Exit
  BY <1>3, ViewQuiet DEF ShutdownReturns, ShutdownTimesOut, StopSweeper, Closing, Revoke, Exit,
     CancelSession, CloseSession, ReleaseClosed
<1>4. CASE ClientStep \/ Receives \/ Closes \/ StopsTaking \/ UNCHANGED vars
  BY <1>4, ViewQuiet DEF ClientStep, Receives, Closes, StopsTaking, vars
<1> QED BY <1>1, <1>2, <1>3, <1>4, StreamViews, TurnViews DEF Next, MainStep

\* What the handler of the stream writes is a number of the hub's, so that a
\* step of the node is one the reader can trust.
LEMMA StepReads ==
  ASSUME HubView, ReaderInv, [Next]_vars
  PROVE  ReaderInv'
<1> DEFINE R == \/ OpenBody \/ EndBody \/ CutBody("cut") \/ CutBody("broken")
                \/ (\E ev \in Nat : WriteFrame(ev))
                \/ ReaderStep \/ Take \/ Stall \/ Close
                \/ UNCHANGED readerVars
<1>1. CASE StreamStep
  <2>1. ASSUME StreamSubscribes \/ StreamReturns \/ StreamGone
        PROVE  R
    BY <2>1 DEF StreamSubscribes, StreamReturns, StreamGone
  <2>2. ASSUME StreamWrites
        PROVE  R
    <3>1. 0 \in Nat
      OBVIOUS
    <3>2. backlog # <<>> => Head(backlog).seq \in Nat
      <4>1. backlog \in Seq(Events)
        BY DEF HubView
      <4>2. backlog # <<>> => Head(backlog) \in Events
        BY <4>1
      <4> QED BY <4>2, HubAssumption DEF Events
    <3>3. chan[Client] # <<>> => Head(chan[Client]).seq \in Nat
      <4>1. chan[Client] \in Seq(Events)
        BY ShutdownAssumption DEF HubView, HubTypes
      <4>2. chan[Client] # <<>> => Head(chan[Client]) \in Events
        BY <4>1
      <4> QED BY <4>2, HubAssumption DEF Events
    <3> QED BY <2>2, <3>1, <3>2, <3>3 DEF StreamWrites
  <2>3. R
    BY <1>1, <2>1, <2>2 DEF StreamStep
  <2> QED BY <2>3, ReaderStays
<1>2. CASE Signal \/ LeaseLapses \/ Arrive \/ RelayEnds \/ CreateSession \/ TurnStep
           \/ Reap \/ Reaped
  BY <1>2, ReaderStays DEF Signal, LeaseLapses, Arrive, RelayEnds, CreateSession, Reap, Reaped,
     TurnStep, MessageArrives, Drain, BackgroundExits, EnsureSandbox, Attach, ReleaseRefused,
     TurnSpeaks, TurnEnds, FinishTurn, TurnOnly
<1>3. CASE NetworkCuts
  BY <1>3, ReaderStays DEF NetworkCuts
<1>4. CASE MainStep
  BY <1>4, ReaderStays DEF MainStep, CloseSubscribers, ShutdownReturns, ShutdownTimesOut,
     StopSweeper, Closing, Revoke, Exit, CancelSession, CloseSession, ReleaseClosed
<1>5. CASE ClientStep \/ Receives \/ Closes \/ StopsTaking \/ UNCHANGED vars
  BY <1>5, ReaderStays DEF ClientStep, Receives, Closes, StopsTaking, vars
<1> QED BY <1>1, <1>2, <1>3, <1>4, <1>5 DEF Next

\* However the node's steps, the reader's and the network's interleave, what was
\* sent is out, in the reader's frame or still in the lines it reads (stream.go,
\* Stream.run; sse.go, handleSessionEvents).
THEOREM ReaderInvariance == Spec => [](HubView /\ ReaderInv)
<1>1. Init => HubView /\ ReaderInv
  <2> SUFFICES ASSUME Init PROVE HubView /\ ReaderInv
    OBVIOUS
  <2>1. HubView
    BY HubAssumption DEF Init, HubInit, HubView, HubTypes, Turns
  <2>2. ReaderInv
    BY ReaderStarts DEF Init
  <2> QED BY <2>1, <2>2
<1>2. HubView /\ ReaderInv /\ [Next]_vars => (HubView /\ ReaderInv)'
  BY ViewStays, StepReads
<1> QED BY <1>1, <1>2, PTL DEF Spec

\* The consumer of an event stream gets what was written, in order and without
\* hole or repeat, all of it when the stream ends without an error, and is told
\* when it broke, wherever a cut, the end of the body or its own Close meets the
\* reader (stream.go, Stream.run and finish).
THEOREM StreamTellsTheTruth == Spec => []StreamIsHonest
BY ReaderInvariance, ReaderIsHonest, PTL

-----------------------------------------------------------------------------
(* The farewell *)

\* Types of what the handler of the stream works on.
LEMMA HandlerFacts ==
  ASSUME HubView
  PROVE  /\ Client \in Chans /\ \A c \in Chans : c = Client
         /\ seq \in Nat /\ next[Client] \in Nat /\ Written \in Int
         /\ chan[Client] \in Seq(Events) /\ Len(chan[Client]) \in Nat
         /\ DOMAIN chan[Client] = 1..Len(chan[Client])
         /\ backlog \in Seq(Events) /\ Len(backlog) \in Nat
         /\ DOMAIN backlog = 1..Len(backlog)
         /\ next[Client] + Len(chan[Client]) <= seq + 1
         /\ Written = next[Client] - 1 - Len(backlog)
         /\ buf \in Seq(Events) /\ Len(buf) \in Nat /\ DOMAIN buf = 1..Len(buf)
<1>1. Client \in Chans /\ \A c \in Chans : c = Client
  BY ShutdownAssumption
<1>2. seq \in Nat /\ next[Client] \in Nat
  BY <1>1, HubAssumption DEF HubView, HubTypes
<1>3. chan[Client] \in Seq(Events) /\ backlog \in Seq(Events) /\ buf \in Seq(Events)
  BY <1>1 DEF HubView, HubTypes
<1>4. /\ Len(chan[Client]) \in Nat /\ DOMAIN chan[Client] = 1..Len(chan[Client])
      /\ Len(backlog) \in Nat /\ DOMAIN backlog = 1..Len(backlog)
      /\ Len(buf) \in Nat /\ DOMAIN buf = 1..Len(buf)
  <2>1. \A s \in Seq(Events) : Len(s) \in Nat /\ DOMAIN s = 1..Len(s)
    OBVIOUS
  <2> QED BY <1>3, <2>1
<1>5. next[Client] + Len(chan[Client]) <= seq + 1
  BY <1>1 DEF HubView
<1>6. Written \in Int
  BY <1>2, <1>4 DEF Written
<1> QED BY <1>1, <1>2, <1>3, <1>4, <1>5, <1>6 DEF Written

\* The buffer stays the window of the latest events.
LEMMA WindowMoves ==
  ASSUME buf \in Seq(Events), seq \in Nat, BufferWindow, NEW ev \in Events,
         ev.seq = seq + 1, seq' = seq + 1, buf' = Trim(Append(buf, ev))
  PROVE  BufferWindow'
<1> USE HubAssumption
<1>1. PICK b : b = Append(buf, ev)
  OBVIOUS
<1>2. /\ b \in Seq(Events) /\ Len(b) = Len(buf) + 1 /\ Len(buf) \in Nat
      /\ \A i \in 1..Len(buf) : b[i] = buf[i]
      /\ b[Len(buf) + 1] = ev
  BY <1>1
<1>3. /\ Len(buf) <= BufCap /\ (Len(buf) = seq \/ Len(buf) = BufCap)
      /\ \A i \in 1..Len(buf) : buf[i].seq = seq - Len(buf) + i
  BY DEF BufferWindow
<1>len. /\ Len(buf) \in Nat /\ Len(b) = Len(buf) + 1 /\ Len(buf) <= BufCap
        /\ (Len(buf) = seq \/ Len(buf) = BufCap)
  BY <1>2, <1>3
<1>4. \A i \in 1..Len(b) : b[i].seq = seq + 1 - Len(b) + i
  <2> TAKE i \in 1..Len(b)
  <2>1. CASE i \in 1..Len(buf)
    <3>1. b[i].seq = seq - Len(buf) + i
      BY <1>2, <1>3, <2>1
    <3> QED BY <1>len, <2>1, <3>1
  <2>2. CASE i = Len(buf) + 1
    <3>1. b[i].seq = seq + 1
      BY <1>2, <2>2
    <3> QED BY <1>len, <2>2, <3>1
  <2> QED BY <1>len, <2>1, <2>2
<1>5. CASE Len(b) <= BufCap
  <2>1. buf' = b
    BY <1>1, <1>len, <1>5 DEF Trim
  <2>2. Len(b) = seq + 1 /\ Len(b) <= BufCap
    BY <1>len, <1>5
  <2> QED BY <1>4, <2>1, <2>2 DEF BufferWindow
<1>6. CASE Len(b) > BufCap
  <2>1. Len(b) = BufCap + 1 /\ Len(b) - BufCap + 1 = 2
    BY <1>len, <1>6
  <2>2. buf' = SubSeq(b, 2, Len(b))
    BY <1>1, <1>6, <2>1 DEF Trim
  <2>3. /\ Len(buf') = BufCap /\ \A i \in 1..BufCap : buf'[i] = b[i + 1]
    BY <1>2, <2>1, <2>2
  <2>4. \A i \in 1..BufCap : buf'[i].seq = seq + 1 - BufCap + i
    <3> TAKE i \in 1..BufCap
    <3>1. i + 1 \in 1..Len(b)
      BY <2>1
    <3>2. buf'[i].seq = seq + 1 - Len(b) + (i + 1)
      BY <1>4, <2>3, <3>1
    <3> QED BY <2>1, <3>2
  <2> QED BY <2>3, <2>4 DEF BufferWindow
<1> QED BY <1>len, <1>5, <1>6

\* Neither the handler nor its channel is touched.
LEMMA FarewellQuiet ==
  ASSUME FarewellInv, UNCHANGED <<hubVars, backlog, body, sent, owed>>,
         stream' = stream \/ (stream = "idle" /\ stream' = "loaded"),
         stage' \in {"serving", "kicking"} => stage \in {"serving", "kicking"}
  PROVE  FarewellInv'
<1>1. UNCHANGED <<seq, buf, subs, closed, chan, next, backlog, body, sent, owed>>
  BY DEF hubVars
<1>2. Written' = Written
  BY <1>1 DEF Written
<1>3. ChannelGoesOn'
  BY <1>1 DEF FarewellInv, ChannelGoesOn
<1>4. BacklogGoesOn'
  BY <1>1, <1>2 DEF FarewellInv, BacklogGoesOn, BufferWindow
<1>5. WrittenSoFar'
  BY <1>1, <1>2 DEF FarewellInv, WrittenSoFar
<1>6. OwedComes'
  BY <1>1 DEF FarewellInv, OwedComes
<1> QED BY <1>3, <1>4, <1>5, <1>6 DEF FarewellInv

\* An event is published.
LEMMA PublishFarewell ==
  ASSUME HubView, FarewellInv, NEW t \in Turns, NEW name \in Names, Publish(t, name),
         UNCHANGED <<backlog, stream, body, sent, owed, stage>>
  PROVE  FarewellInv'
<1>1. /\ seq' = seq + 1 /\ next' = next /\ closed \subseteq closed'
      /\ \/ /\ Client \in subs /\ Client \in subs' /\ (Client \in closed' => Client \in closed)
            /\ \E ev \in Events : ev.seq = seq + 1 /\ chan'[Client] = Append(chan[Client], ev)
         \/ Client \notin subs' /\ chan'[Client] = chan[Client]
  BY PublishView, HandlerFacts
<1>2. BufferWindow'
  <2>1. PICK ev \in Events : ev.seq = seq + 1 /\ buf' = Trim(Append(buf, ev))
    BY PublishView
  <2> QED BY <1>1, <2>1, WindowMoves, HandlerFacts DEF FarewellInv, BacklogGoesOn
<1>3. Written' = Written
  BY <1>1 DEF Written
<1>4. BacklogGoesOn' /\ WrittenSoFar'
  BY <1>2, <1>3 DEF FarewellInv, BacklogGoesOn, WrittenSoFar
<1>5. CASE Client \notin subs' /\ chan'[Client] = chan[Client]
  <2>1. ChannelGoesOn'
    BY <1>1, <1>5 DEF FarewellInv, ChannelGoesOn
  <2>2. OwedComes'
    BY <1>1, <1>5 DEF FarewellInv, OwedComes
  <2> QED BY <1>4, <2>1, <2>2 DEF FarewellInv
<1>6. ASSUME Client \in subs, Client \in subs', Client \in closed' => Client \in closed,
             NEW ev \in Events, ev.seq = seq + 1, chan'[Client] = Append(chan[Client], ev)
      PROVE  FarewellInv'
  <2>1. PICK s : s = chan[Client]
    OBVIOUS
  <2>2. s \in Seq(Events) /\ seq \in Nat /\ next[Client] \in Nat /\ DOMAIN s = 1..Len(s)
    BY <2>1, HandlerFacts
  <2>3. /\ Len(Append(s, ev)) = Len(s) + 1 /\ Len(s) \in Nat
        /\ \A i \in 1..Len(s) : Append(s, ev)[i] = s[i]
        /\ Append(s, ev)[Len(s) + 1] = ev
        /\ DOMAIN Append(s, ev) = 1..(Len(s) + 1)
    BY <2>2
  <2>4. next[Client] + Len(s) = seq + 1 /\ Len(s) \in Nat /\ Client \notin closed
        /\ stream \in {"sync", "backlog", "live"}
    BY <1>6, <2>1, <2>3 DEF FarewellInv, ChannelGoesOn
  <2>5. \A i \in DOMAIN chan'[Client] : chan'[Client][i].seq = next'[Client] + i - 1
    <3> TAKE i \in DOMAIN chan'[Client]
    <3>1. i \in 1..(Len(s) + 1)
      BY <1>6, <2>1, <2>3
    <3>2. CASE i \in 1..Len(s)
      <4>1. s[i].seq = next[Client] + i - 1
        BY <2>1, <2>2, <3>2 DEF FarewellInv, ChannelGoesOn
      <4> QED BY <1>1, <1>6, <2>1, <2>3, <3>2, <4>1
    <3>3. CASE i = Len(s) + 1
      <4>1. chan'[Client][i].seq = seq + 1
        BY <1>6, <2>1, <2>3, <3>3
      <4>2. seq + 1 = next[Client] + i - 1
        BY <2>2, <2>4, <3>3
      <4> QED BY <1>1, <4>1, <4>2
    <3>4. i \in 1..Len(s) \/ i = Len(s) + 1
      BY <2>4, <3>1
    <3> QED BY <3>2, <3>3, <3>4
  <2>6. next'[Client] + Len(chan'[Client]) = seq' + 1
    <3>1. Len(chan'[Client]) = Len(s) + 1 /\ next' = next
      BY <1>1, <1>6, <2>1, <2>3
    <3> QED BY <1>1, <2>2, <2>4, <3>1
  <2>7. ChannelGoesOn'
    BY <1>6, <2>4, <2>5, <2>6 DEF ChannelGoesOn
  <2>8. OwedComes'
    <3>1. owed = 0 /\ body # "eof"
      BY <1>6, <2>4 DEF FarewellInv, OwedComes
    <3> QED BY <3>1 DEF OwedComes
  <2> QED BY <1>4, <2>7, <2>8 DEF FarewellInv
<1> QED BY <1>1, <1>5, <1>6

\* The handler subscribes: its backlog is what the buffer holds.
LEMMA SubscribeFarewell ==
  ASSUME HubView, FarewellInv, StreamSubscribes
  PROVE  FarewellInv'
<1>1. /\ stream = "loaded" /\ stream' = "sync" /\ body = "none" /\ body' = "open"
      /\ UNCHANGED <<seq, buf, sent, owed, stage>> /\ backlog' = buf
      /\ subs' = subs \cup {Client} /\ closed' = closed \ {Client}
      /\ chan' = [chan EXCEPT ![Client] = <<>>] /\ next' = [next EXCEPT ![Client] = seq + 1]
  <2>1. After(0) = buf
    BY AfterIsAll DEF HubView
  <2> QED BY <2>1 DEF StreamSubscribes, Subscribe, OpenBody, StreamOnly, mainVars
<1>2. chan'[Client] = <<>> /\ next'[Client] = seq + 1
  BY <1>1, HandlerFacts DEF HubView, HubTypes
<1>3. /\ Len(buf) <= BufCap /\ (Len(buf) = seq \/ Len(buf) = BufCap)
      /\ \A i \in 1..Len(buf) : buf[i].seq = seq - Len(buf) + i
      /\ BufferWindow
  BY DEF FarewellInv, BacklogGoesOn, BufferWindow
<1>4. seq \in Nat /\ Len(buf) \in Nat /\ DOMAIN buf = 1..Len(buf) /\ Len(buf) <= seq
  <2>1. seq \in Nat /\ Len(buf) \in Nat /\ DOMAIN buf = 1..Len(buf)
    BY HandlerFacts
  <2>2. Len(buf) <= seq
    <3>1. CASE Len(buf) = 0
      BY <2>1, <3>1
    <3>2. CASE Len(buf) # 0
      <4>1. 1 \in 1..Len(buf)
        BY <2>1, <3>2
      <4>2. buf[1].seq = seq - Len(buf) + 1 /\ buf[1] \in Events
        BY <1>3, <4>1, HandlerFacts
      <4>3. buf[1].seq \in Nat /\ buf[1].seq >= 1
        BY <4>2, HubAssumption DEF Events
      <4> QED BY <2>1, <4>2, <4>3
    <3> QED BY <3>1, <3>2
  <2> QED BY <2>1, <2>2
<1>5. Written' = seq - Len(buf)
  BY <1>1, <1>2, <1>4 DEF Written
<1>6. ChannelGoesOn'
  <2>1. Len(<<>>) = 0 /\ DOMAIN <<>> = {}
    OBVIOUS
  <2>2. next'[Client] + Len(chan'[Client]) = seq' + 1
    BY <1>1, <1>2, <1>4, <2>1
  <2> QED BY <1>1, <1>2, <2>1, <2>2 DEF ChannelGoesOn
<1>7. BacklogGoesOn'
  <2>1. BufferWindow'
    BY <1>1, <1>3 DEF BufferWindow
  <2>2. seq - Len(buf) >= 0
    BY <1>4
  <2> QED BY <1>1, <1>3, <1>4, <1>5, <2>1, <2>2 DEF BacklogGoesOn
<1>8. WrittenSoFar'
  <2>1. sent = <<>>
    BY <1>1 DEF FarewellInv, WrittenSoFar
  <2>2. seq - Len(buf) = 0 \/ Len(buf) >= BufCap
    <3>1. Len(buf) = seq \/ Len(buf) = BufCap
      BY <1>3
    <3>2. seq \in Nat /\ Len(buf) \in Nat /\ BufCap \in Nat
      BY <1>4, HubAssumption
    <3> QED BY <3>1, <3>2
  <2> QED BY <1>1, <1>5, <2>1, <2>2 DEF WrittenSoFar
<1>9. OwedComes'
  BY <1>1 DEF FarewellInv, OwedComes
<1> QED BY <1>6, <1>7, <1>8, <1>9 DEF FarewellInv

\* The handler writes the sync frame.
LEMMA SyncFarewell ==
  ASSUME HubView, FarewellInv, stream = "sync", stream' = "backlog", WriteFrame(0),
         UNCHANGED <<hubVars, backlog, owed, stage>>
  PROVE  FarewellInv'
<1>1. /\ UNCHANGED <<seq, buf, subs, closed, chan, next, backlog, owed, stage, body>>
      /\ body = "open" /\ sent' = Append(sent, 0)
  BY DEF WriteFrame, hubVars
<1>2. Written' = Written
  BY <1>1 DEF Written
<1>3. sent = <<>> /\ (Written = 0 \/ Len(backlog) >= BufCap)
  BY <1>1 DEF FarewellInv, WrittenSoFar
<1>4. sent' = <<0>>
  BY <1>1, <1>3
<1>5. ChannelGoesOn'
  BY <1>1 DEF FarewellInv, ChannelGoesOn
<1>6. BacklogGoesOn'
  BY <1>1, <1>2 DEF FarewellInv, BacklogGoesOn, BufferWindow
<1>7. WrittenSoFar'
  <2>1. Len(sent') = 1 /\ sent' # <<>> /\ sent'[1] = 0
    BY <1>4
  <2>2. 2..Len(sent') = {}
    BY <2>1
  <2>3. Len(sent') - 1 = 0 /\ Len(backlog) \in Nat
    BY <2>1, HandlerFacts
  <2>4. Len(sent') - 1 = Written' \/ Len(sent') - 1 + Len(backlog') >= BufCap
    <3>1. CASE Written = 0
      BY <1>2, <2>3, <3>1
    <3>2. CASE Len(backlog) >= BufCap
      BY <1>1, <2>3, <3>2, HubAssumption
    <3> QED BY <1>3, <3>1, <3>2
  <2> QED BY <1>1, <2>1, <2>2, <2>4 DEF WrittenSoFar
<1>8. OwedComes'
  BY <1>1 DEF FarewellInv, OwedComes
<1> QED BY <1>5, <1>6, <1>7, <1>8 DEF FarewellInv

\* The next event is written behind what the handler has sent.
LEMMA WritesNext ==
  ASSUME HubView, ReaderInv, FarewellInv, stream \in {"backlog", "live"}, stream' = stream,
         Written' = Written + 1, WriteFrame(Written + 1),
         Len(backlog) + Len(sent) = Len(backlog') + Len(sent') \/ Len(backlog) = 0,
         backlog' \in Seq(Events)
  PROVE  WrittenSoFar'
<1>1. /\ body = "open" /\ body' = "open" /\ sent' = Append(sent, Written + 1)
  BY DEF WriteFrame
<1>2. /\ sent # <<>> /\ sent[1] = 0
      /\ \A k \in 2..Len(sent) : sent[k] = Written - Len(sent) + k
      /\ Len(sent) - 1 = Written \/ Len(sent) - 1 + Len(backlog) >= BufCap
  BY <1>1 DEF FarewellInv, WrittenSoFar
<1>3. sent \in Seq(Nat) /\ Len(sent) \in Nat /\ Written \in Int
  BY ReaderFacts, HandlerFacts
<1>4. PICK s, n : s = sent /\ n = Written + 1
  OBVIOUS
<1>5. s \in Seq(Nat) /\ n \in Int /\ s # <<>>
  BY <1>2, <1>3, <1>4
<1>6. /\ Len(Append(s, n)) = Len(s) + 1 /\ Len(s) \in Nat /\ Len(s) >= 1
      /\ \A k \in 1..Len(s) : Append(s, n)[k] = s[k]
      /\ Append(s, n)[Len(s) + 1] = n
  <2>1. Len(s) \in Nat \ {0}
    BY <1>5, EmptySeq
  <2>2. /\ Len(Append(s, n)) = Len(s) + 1
        /\ \A k \in 1..Len(s) : Append(s, n)[k] = s[k]
        /\ Append(s, n)[Len(s) + 1] = n
    <3>1. s \in Seq(Int)
      BY <1>5
    <3> QED BY <1>5, <3>1, AppendProperties
  <2> QED BY <2>1, <2>2
<1>len. Len(sent') = Len(sent) + 1 /\ Len(sent) \in Nat /\ Len(sent) >= 1 /\ Written \in Int
  BY <1>1, <1>3, <1>4, <1>6
<1>7. sent' # <<>> /\ sent'[1] = 0
  <2>1. Len(<<>>) = 0
    OBVIOUS
  <2>2. 1 \in 1..Len(s)
    BY <1>6
  <2> QED BY <1>1, <1>2, <1>4, <1>6, <1>len, <2>1, <2>2
<1>8. \A k \in 2..Len(sent') : sent'[k] = Written' - Len(sent') + k
  <2> TAKE k \in 2..Len(sent')
  <2>1. CASE k = Len(sent) + 1
    <3>1. sent'[k] = Written + 1
      BY <1>1, <1>4, <1>6, <2>1
    <3> QED BY <1>len, <2>1, <3>1
  <2>2. CASE k \in 2..Len(sent)
    <3>1. sent'[k] = sent[k]
      <4>1. k \in 1..Len(s)
        BY <1>4, <2>2
      <4> QED BY <1>1, <1>4, <1>6, <4>1
    <3>2. sent[k] = Written - Len(sent) + k
      BY <1>2, <2>2
    <3> QED BY <1>len, <2>2, <3>1, <3>2
  <2>3. k = Len(sent) + 1 \/ k \in 2..Len(sent)
    BY <1>len
  <2> QED BY <2>1, <2>2, <2>3
<1>9. Len(sent') - 1 = Written' \/ Len(sent') - 1 + Len(backlog') >= BufCap
  <2>1. Len(sent) - 1 = Written \/ Len(sent) - 1 + Len(backlog) >= BufCap
    BY <1>2
  <2>2. Len(backlog) \in Nat /\ Len(backlog') \in Nat /\ BufCap \in Nat
    BY HandlerFacts, HubAssumption
  <2> QED BY <1>len, <2>1, <2>2
<1> QED BY <1>1, <1>7, <1>8, <1>9 DEF WrittenSoFar

\* The handler writes an event of its backlog.
LEMMA BacklogFarewell ==
  ASSUME HubView, ReaderInv, FarewellInv, stream = "backlog", stream' = stream,
         backlog # <<>>, WriteFrame(Head(backlog).seq), backlog' = Tail(backlog),
         UNCHANGED <<hubVars, owed, stage>>
  PROVE  FarewellInv'
<1>1. UNCHANGED <<seq, buf, subs, closed, chan, next, owed, stage, stream, body>> /\ body = "open"
  BY DEF WriteFrame, hubVars
<1>2. /\ backlog \in Seq(Events) /\ Len(backlog) \in Nat /\ next[Client] \in Nat
      /\ Written \in Int /\ DOMAIN backlog = 1..Len(backlog)
      /\ Written = next[Client] - 1 - Len(backlog)
  BY HandlerFacts
<1>3. PICK b : b = backlog
  OBVIOUS
<1>4. /\ Tail(b) \in Seq(Events) /\ Len(Tail(b)) = Len(b) - 1 /\ Len(b) \in Nat /\ Len(b) >= 1
      /\ Head(b) = b[1] /\ \A i \in 1..(Len(b) - 1) : Tail(b)[i] = b[i + 1]
      /\ DOMAIN Tail(b) = 1..(Len(b) - 1)
  <2>1. b \in Seq(Events) /\ b # <<>>
    BY <1>2, <1>3
  <2> QED BY <2>1
<1>len. /\ Len(backlog') = Len(backlog) - 1 /\ Len(backlog) \in Nat /\ Len(backlog) >= 1
        /\ next[Client] \in Nat /\ Written \in Int
        /\ Written = next[Client] - 1 - Len(backlog)
  BY <1>2, <1>3, <1>4
<1>5. Written' = Written + 1
  <2>1. Written' = next[Client] - 1 - Len(backlog')
    BY <1>1 DEF Written
  <2> QED BY <1>len, <2>1
<1>add. \A i \in Int : Written + (i + 1) = (Written + 1) + i
  <2>1. PICK w \in Int : w = Written
    BY <1>len
  <2>2. \A i \in Int : w + (i + 1) = (w + 1) + i
    OBVIOUS
  <2> QED BY <2>1, <2>2, Zenon
<1>6. \A i \in 1..Len(backlog) : backlog[i].seq = Written + i
  BY <1>2 DEF FarewellInv, BacklogGoesOn
<1>7. Head(backlog).seq = Written + 1
  <2>1. 1 \in 1..Len(backlog)
    BY <1>len
  <2> QED BY <1>3, <1>4, <1>6, <2>1
<1>8. ChannelGoesOn'
  BY <1>1 DEF FarewellInv, ChannelGoesOn
<1>9. BacklogGoesOn'
  <2>1. BufferWindow'
    BY <1>1 DEF FarewellInv, BacklogGoesOn, BufferWindow
  <2>2. Written' >= 0
    <3>1. Written >= 0
      BY DEF FarewellInv, BacklogGoesOn
    <3> QED BY <1>len, <1>5, <3>1
  <2>3. \A i \in DOMAIN backlog' : backlog'[i].seq = Written' + i
    <3> TAKE i \in DOMAIN backlog'
    <3>1. i \in 1..(Len(b) - 1) /\ backlog'[i] = b[i + 1]
      BY <1>3, <1>4
    <3>2. i + 1 \in 1..Len(b)
      BY <1>4, <3>1
    <3>3. backlog'[i].seq = Written + (i + 1)
      BY <1>3, <1>6, <3>1, <3>2
    <3>4. i \in Int
      BY <3>1
    <3>5. Written + (i + 1) = (Written + 1) + i
      BY <1>add, <3>4, Zenon
    <3> QED BY <1>5, <3>3, <3>5
  <2>4. stream' # "live"
    OBVIOUS
  <2> QED BY <2>1, <2>2, <2>3, <2>4 DEF BacklogGoesOn
<1>10. WrittenSoFar'
  <2>1. WriteFrame(Written + 1) /\ stream \in {"backlog", "live"}
    BY <1>7
  <2>2. backlog' \in Seq(Events)
    BY <1>3, <1>4
  <2>3. Len(backlog) + Len(sent) = Len(backlog') + Len(sent')
    <3>1. Len(sent') = Len(sent) + 1 /\ Len(sent) \in Nat
      <4>1. sent \in Seq(Nat) /\ sent' = Append(sent, Head(backlog).seq)
        BY ReaderFacts DEF WriteFrame
      <4> QED BY <4>1
    <3> QED BY <1>len, <3>1
  <2> QED BY <1>5, <2>1, <2>2, <2>3, WritesNext
<1>11. OwedComes'
  BY <1>1 DEF FarewellInv, OwedComes
<1> QED BY <1>8, <1>9, <1>10, <1>11 DEF FarewellInv

\* The backlog is written.
LEMMA LiveFarewell ==
  ASSUME FarewellInv, stream = "backlog", backlog = <<>>, stream' = "live",
         UNCHANGED <<hubVars, readerVars, backlog, owed, stage>>
  PROVE  FarewellInv'
<1>1. UNCHANGED <<seq, buf, subs, closed, chan, next, backlog, owed, stage, body, sent>>
  BY DEF hubVars, readerVars
<1>2. Written' = Written
  BY <1>1 DEF Written
<1>3. ChannelGoesOn'
  BY <1>1 DEF FarewellInv, ChannelGoesOn
<1>4. BacklogGoesOn'
  BY <1>1 DEF FarewellInv, BacklogGoesOn, BufferWindow
<1>5. WrittenSoFar'
  BY <1>1, <1>2 DEF FarewellInv, WrittenSoFar
<1>6. OwedComes'
  BY <1>1 DEF FarewellInv, OwedComes
<1> QED BY <1>3, <1>4, <1>5, <1>6 DEF FarewellInv

\* The handler writes an event it received.
LEMMA ReceiveFarewell ==
  ASSUME HubView, ReaderInv, FarewellInv, stream = "live", stream' = stream,
         Receive(Client), WriteFrame(Head(chan[Client]).seq),
         UNCHANGED <<backlog, owed, stage>>
  PROVE  FarewellInv'
<1>1. PICK s : s = chan[Client]
  OBVIOUS
<1>2. /\ s # <<>> /\ chan' = [chan EXCEPT ![Client] = Tail(s)]
      /\ next' = [next EXCEPT ![Client] = next[Client] + 1]
      /\ UNCHANGED <<seq, buf, currentTurn, subs, closed, backlog, owed, stage, body>>
      /\ body = "open"
  BY <1>1 DEF Receive, WriteFrame
<1>3. s \in Seq(Events)
  BY <1>1, HandlerFacts
<1>4. /\ Tail(s) \in Seq(Events) /\ Len(Tail(s)) = Len(s) - 1 /\ Len(s) \in Nat /\ Len(s) >= 1
      /\ Head(s) = s[1] /\ \A i \in 1..(Len(s) - 1) : Tail(s)[i] = s[i + 1]
      /\ DOMAIN Tail(s) = 1..(Len(s) - 1) /\ DOMAIN s = 1..Len(s)
  BY <1>2, <1>3
<1>5. chan'[Client] = Tail(s) /\ next'[Client] = next[Client] + 1
  BY <1>2, HandlerFacts DEF HubView, HubTypes
<1>len. /\ Len(chan'[Client]) = Len(s) - 1 /\ Len(s) \in Nat /\ Len(s) >= 1
        /\ next[Client] \in Nat /\ next'[Client] = next[Client] + 1 /\ seq \in Nat
        /\ Written \in Int /\ Len(backlog) \in Nat
        /\ Written = next[Client] - 1 - Len(backlog)
  BY <1>4, <1>5, HandlerFacts
<1>end. next'[Client] + Len(chan'[Client]) - 1 = next[Client] + Len(s) - 1
  <2>1. /\ Len(chan'[Client]) = Len(s) - 1 /\ next'[Client] = next[Client] + 1
        /\ Len(s) \in Nat /\ next[Client] \in Nat
    BY <1>len
  <2> QED BY <2>1
<1>add. \A i \in Int : next[Client] + (i + 1) - 1 = next'[Client] + i - 1
  <2>1. PICK n \in Nat : n = next[Client] /\ next'[Client] = n + 1
    BY <1>len
  <2>2. \A i \in Int : n + (i + 1) - 1 = n + 1 + i - 1
    OBVIOUS
  <2> QED BY <2>1, <2>2, Zenon
<1>6. backlog = <<>> /\ Len(backlog) = 0
  BY DEF FarewellInv, BacklogGoesOn
<1>7. Written' = Written + 1 /\ Written + 1 = next[Client]
  <2>1. Written' = next'[Client] - 1 - Len(backlog)
    BY <1>2 DEF Written
  <2> QED BY <1>len, <1>6, <2>1
<1>8. \A i \in 1..Len(s) : s[i].seq = next[Client] + i - 1
  BY <1>1, <1>4 DEF FarewellInv, ChannelGoesOn
<1>9. Head(chan[Client]).seq = Written + 1
  <2>1. 1 \in 1..Len(s)
    BY <1>len
  <2>2. s[1].seq = next[Client] + 1 - 1
    BY <1>8, <2>1
  <2>3. s[1].seq = next[Client]
    BY <1>len, <2>2
  <2> QED BY <1>1, <1>4, <1>7, <2>3
<1>10. ChannelGoesOn'
  <2>1. \A i \in DOMAIN chan'[Client] : chan'[Client][i].seq = next'[Client] + i - 1
    <3> TAKE i \in DOMAIN chan'[Client]
    <3>1. i \in 1..(Len(s) - 1) /\ chan'[Client][i] = s[i + 1]
      BY <1>4, <1>5
    <3>2. i + 1 \in 1..Len(s)
      BY <1>len, <3>1
    <3>3. chan'[Client][i].seq = next[Client] + (i + 1) - 1
      BY <1>8, <3>1, <3>2
    <3>4. i \in Int
      BY <3>1
    <3> QED BY <1>add, <3>3, <3>4, Zenon
  <2>2. ASSUME Client \in subs'
        PROVE  /\ Client \notin closed' /\ stream' \in {"sync", "backlog", "live"}
               /\ next'[Client] + Len(chan'[Client]) = seq' + 1
    <3>1. Client \notin closed /\ next[Client] + Len(s) = seq + 1
      BY <1>1, <1>2, <2>2 DEF FarewellInv, ChannelGoesOn
    <3>2. next'[Client] + Len(chan'[Client]) = seq + 1
      BY <1>len, <3>1
    <3> QED BY <1>2, <3>1, <3>2
  <2> QED BY <2>1, <2>2 DEF ChannelGoesOn
<1>11. BacklogGoesOn'
  <2>1. BufferWindow'
    BY <1>2 DEF FarewellInv, BacklogGoesOn, BufferWindow
  <2> QED BY <1>2, <1>6, <2>1 DEF BacklogGoesOn
<1>12. WrittenSoFar'
  <2>1. WriteFrame(Written + 1) /\ stream \in {"backlog", "live"}
    BY <1>9
  <2>2. backlog' \in Seq(Events)
    BY <1>2, HandlerFacts
  <2> QED BY <1>6, <1>7, <2>1, <2>2, WritesNext
<1>13. OwedComes'
  <2>1. ASSUME owed' # 0
        PROVE  Client \notin subs' /\ owed' = next'[Client] + Len(chan'[Client]) - 1
    <3>1. Client \notin subs /\ owed = next[Client] + Len(s) - 1
      BY <1>1, <1>2, <2>1 DEF FarewellInv, OwedComes
    <3> QED BY <1>2, <1>end, <3>1, Zenon
  <2> QED BY <1>2, <2>1 DEF FarewellInv, OwedComes
<1> QED BY <1>10, <1>11, <1>12, <1>13 DEF FarewellInv

\* A step of the stream's handler.
LEMMA StreamFarewell ==
  ASSUME HubView, ReaderInv, FarewellInv, StreamStep
  PROVE  FarewellInv'
<1>1. CASE StreamSubscribes
  BY <1>1, SubscribeFarewell
<1>2. CASE StreamWrites
  <2>1. UNCHANGED <<owed, stage>>
    BY <1>2 DEF StreamWrites, StreamOnly, mainVars
  <2>2. \/ /\ stream = "sync" /\ stream' = "backlog" /\ WriteFrame(0)
           /\ UNCHANGED <<hubVars, backlog>>
        \/ /\ stream = "backlog" /\ backlog # <<>> /\ WriteFrame(Head(backlog).seq)
           /\ backlog' = Tail(backlog) /\ UNCHANGED <<hubVars, stream>>
        \/ /\ stream = "backlog" /\ backlog = <<>> /\ stream' = "live"
           /\ UNCHANGED <<hubVars, readerVars, backlog>>
        \/ /\ stream = "live" /\ Receive(Client) /\ WriteFrame(Head(chan[Client]).seq)
           /\ UNCHANGED <<stream, backlog>>
    BY <1>2 DEF StreamWrites
  <2> QED BY <2>1, <2>2, SyncFarewell, BacklogFarewell, LiveFarewell, ReceiveFarewell
<1>3. CASE StreamReturns
  <2>1. /\ stream = "live" /\ chan[Client] = <<>> /\ Client \in closed /\ stream' = "over"
        /\ body = "open" /\ body' = "eof"
        /\ UNCHANGED <<seq, buf, subs, closed, chan, next, backlog, owed, stage, sent>>
    BY <1>3 DEF StreamReturns, EndBody, StreamOnly, mainVars, hubVars
  <2>2. Written' = Written
    BY <2>1 DEF Written
  <2>3. ChannelGoesOn'
    BY <2>1 DEF FarewellInv, ChannelGoesOn
  <2>4. BacklogGoesOn' /\ WrittenSoFar'
    BY <2>1, <2>2 DEF FarewellInv, BacklogGoesOn, WrittenSoFar, BufferWindow
  <2>5. OwedComes'
    BY <2>1 DEF FarewellInv, OwedComes, BacklogGoesOn
  <2> QED BY <2>3, <2>4, <2>5 DEF FarewellInv
<1>4. CASE StreamGone
  <2>1. /\ stream \in {"sync", "backlog", "live"} /\ stream' = "over"
        /\ subs' = subs \ {Client}
        /\ UNCHANGED <<seq, buf, chan, next, backlog, owed, stage, body, sent>>
    BY <1>4 DEF StreamGone, Unsubscribe, StreamOnly, mainVars, readerVars
  <2>2. Written' = Written
    BY <2>1 DEF Written
  <2>3. ChannelGoesOn'
    BY <2>1 DEF FarewellInv, ChannelGoesOn
  <2>4. BacklogGoesOn' /\ WrittenSoFar'
    BY <2>1, <2>2 DEF FarewellInv, BacklogGoesOn, WrittenSoFar, BufferWindow
  <2>5. OwedComes'
    BY <2>1 DEF FarewellInv, OwedComes
  <2> QED BY <2>3, <2>4, <2>5 DEF FarewellInv
<1> QED BY <1>1, <1>2, <1>3, <1>4 DEF StreamStep

\* The connection breaks.
LEMMA CutFarewell ==
  ASSUME FarewellInv, NEW how \in {"cut", "broken"}, CutBody(how),
         UNCHANGED <<hubVars, backlog, stream, owed>>,
         stage' \in {"serving", "kicking"} => stage \in {"serving", "kicking"}
  PROVE  FarewellInv'
<1>1. /\ UNCHANGED <<seq, buf, subs, closed, chan, next, backlog, stream, owed>>
      /\ body' = how
  BY DEF CutBody, hubVars
<1>2. Written' = Written
  BY <1>1 DEF Written
<1>3. ChannelGoesOn' /\ BacklogGoesOn'
  BY <1>1, <1>2 DEF FarewellInv, ChannelGoesOn, BacklogGoesOn, BufferWindow
<1>4. WrittenSoFar' /\ OwedComes'
  BY <1>1 DEF FarewellInv, WrittenSoFar, OwedComes
<1> QED BY <1>3, <1>4 DEF FarewellInv

\* The subscribers are disconnected.
LEMMA KickFarewell ==
  ASSUME HubView, FarewellInv, CloseSubscribers
  PROVE  FarewellInv'
<1>1. /\ stage = "kicking" /\ stage' = "draining" /\ subs' = {}
      /\ owed' = (IF Client \in subs THEN seq ELSE owed)
      /\ UNCHANGED <<seq, buf, chan, next, backlog, stream, body, sent>>
  BY DEF CloseSubscribers, CloseAll, MainOnly, httpVars, readerVars
<1>2. Written' = Written
  BY <1>1 DEF Written
<1>3. ChannelGoesOn' /\ BacklogGoesOn' /\ WrittenSoFar'
  BY <1>1, <1>2 DEF FarewellInv, ChannelGoesOn, BacklogGoesOn, BufferWindow, WrittenSoFar
<1>4. owed = 0
  BY <1>1 DEF FarewellInv, OwedComes
<1>5. CASE Client \in subs
  <2>1. /\ stream \in {"sync", "backlog", "live"}
        /\ next[Client] + Len(chan[Client]) = seq + 1
    BY <1>5 DEF FarewellInv, ChannelGoesOn
  <2>2. seq = next[Client] + Len(chan[Client]) - 1
    <3>1. seq \in Nat /\ next[Client] \in Nat /\ Len(chan[Client]) \in Nat
      BY HandlerFacts
    <3> QED BY <2>1, <3>1
  <2>3. OwedComes'
    BY <1>1, <1>5, <2>1, <2>2 DEF FarewellInv, OwedComes
  <2> QED BY <1>3, <2>3 DEF FarewellInv
<1>6. CASE Client \notin subs
  <2>1. OwedComes'
    BY <1>1, <1>4, <1>6 DEF FarewellInv, OwedComes
  <2> QED BY <1>3, <2>1 DEF FarewellInv
<1> QED BY <1>5, <1>6

\* A step of the turn, which publishes what it does.
LEMMA TurnFarewell ==
  ASSUME HubView, FarewellInv, TurnStep
  PROVE  FarewellInv'
<1> USE DEF TurnOnly, httpVars, turnVars, mainVars, readerVars
<1>1. ASSUME NEW drains, StartTurn(drains),
             UNCHANGED <<backlog, stream, body, sent, owed, stage>>
      PROVE  FarewellInv'
  <2>1. seq + 1 \in Turns /\ Publish(seq + 1, "turn_started") /\ "turn_started" \in Names
    BY <1>1, HubAssumption DEF StartTurn, HubView, HubTypes, Turns, Names
  <2> QED BY <1>1, <2>1, PublishFarewell
<1>2. turn \in {"starting", "built", "refused", "running"} => currentTurn \in Turns
  BY DEF HubView, HubTypes
<1>3. CASE MessageArrives
  <2>1. UNCHANGED <<backlog, stream, body, sent, owed, stage>>
    BY <1>3 DEF MessageArrives
  <2>2. StartTurn(FALSE) \/ UNCHANGED hubVars
    BY <1>3 DEF MessageArrives
  <2> QED BY <1>1, <2>1, <2>2, FarewellQuiet
<1>4. CASE Drain
  BY <1>1, <1>4 DEF Drain
<1>5. CASE BackgroundExits \/ EnsureSandbox \/ Attach \/ FinishTurn
  BY <1>5, FarewellQuiet DEF BackgroundExits, EnsureSandbox, Attach, FinishTurn
<1>6. CASE ReleaseRefused \/ TurnSpeaks \/ TurnEnds
  <2>1. /\ currentTurn \in Turns
        /\ UNCHANGED <<backlog, stream, body, sent, owed, stage>>
        /\ Publish(currentTurn, "turn_finished") \/ Publish(currentTurn, "delta")
        /\ "turn_finished" \in Names /\ "delta" \in Names
    BY <1>2, <1>6 DEF ReleaseRefused, TurnSpeaks, TurnEnds, Names
  <2> QED BY <2>1, PublishFarewell
<1> QED BY <1>3, <1>4, <1>5, <1>6 DEF TurnStep

LEMMA FarewellStays ==
  ASSUME HubView, ReaderInv, FarewellInv, [Next]_vars
  PROVE  FarewellInv'
<1> USE DEF httpVars, ctrlVars, mainVars, MainOnly, Node
<1>1. CASE Arrive \/ RelayEnds \/ CreateSession \/ Reap \/ Reaped \/ Signal \/ LeaseLapses
  <2>1. /\ UNCHANGED <<hubVars, readerVars, backlog, owed>>
        /\ stream' = stream \/ (stream = "idle" /\ stream' = "loaded")
        /\ stage' \in {"serving", "kicking"} => stage \in {"serving", "kicking"}
    BY <1>1 DEF Arrive, RelayEnds, CreateSession, Reap, Reaped, Signal, LeaseLapses
  <2> QED BY <2>1, FarewellQuiet DEF readerVars
<1>2. CASE ShutdownReturns \/ ShutdownTimesOut \/ StopSweeper \/ Closing \/ Revoke
  <2>1. /\ UNCHANGED <<hubVars, readerVars, backlog, owed, stream>>
        /\ stage' \in {"serving", "kicking"} => stage \in {"serving", "kicking"}
    BY <1>2 DEF ShutdownReturns, ShutdownTimesOut, StopSweeper, Closing, Revoke,
       CancelSession, CloseSession, ReleaseClosed
  <2> QED BY <2>1, FarewellQuiet DEF readerVars
<1>3. CASE Exit
  <2>1. /\ UNCHANGED <<hubVars, backlog, owed, stream>> /\ stage' = "exited"
        /\ CutBody("broken") \/ UNCHANGED readerVars
    BY <1>3 DEF Exit
  <2> QED BY <2>1, CutFarewell, FarewellQuiet DEF readerVars
<1>4. CASE NetworkCuts
  BY <1>4, CutFarewell DEF NetworkCuts
<1>5. CASE ClientStep \/ Receives \/ Closes \/ StopsTaking \/ UNCHANGED vars
  <2>1. /\ UNCHANGED <<hubVars, backlog, owed, stream, stage>>
        /\ UNCHANGED <<body, sent>>
    BY <1>5 DEF ClientStep, Receives, Closes, StopsTaking, vars, readerVars, ReaderStep,
       ReadLine, ReadEnd, ReadFails, DispatchNothing, DispatchMalformed, Send, Abandon,
       Finish, CloseEvents, Take, Close, Stall
  <2> QED BY <2>1, FarewellQuiet
<1> QED BY <1>1, <1>2, <1>3, <1>4, <1>5, StreamFarewell, TurnFarewell, KickFarewell
    DEF Next, MainStep

LEMMA FarewellStarts == Init => FarewellInv
<1> SUFFICES ASSUME Init PROVE FarewellInv
  OBVIOUS
<1>1. /\ seq = 0 /\ buf = <<>> /\ subs = {} /\ backlog = <<>> /\ stream = "idle"
      /\ body = "none" /\ sent = <<>> /\ owed = 0 /\ chan[Client] = <<>>
  BY ShutdownAssumption DEF Init, HubInit, ReaderInit
<1>2. ChannelGoesOn
  BY <1>1 DEF ChannelGoesOn
<1>3. BacklogGoesOn
  BY <1>1, HubAssumption DEF BacklogGoesOn, BufferWindow
<1>4. WrittenSoFar /\ OwedComes
  BY <1>1 DEF WrittenSoFar, OwedComes
<1> QED BY <1>2, <1>3, <1>4 DEF FarewellInv

\* What the subscriber is owed is on its way at every moment of the shutdown:
\* buffered, in its channel, or written (hub.go, closeAll; sse.go).
THEOREM FarewellInvariance == Spec => []FarewellInv
<1>1. HubView /\ ReaderInv /\ FarewellInv /\ [Next]_vars => FarewellInv'
  BY FarewellStays
<1> QED BY <1>1, FarewellStarts, ReaderInvariance, PTL DEF Spec

\* A subscriber that the node disconnects in order to stop, and whose connection
\* holds, gets every event up to then that was still buffered when it came, and
\* no hole behind the first it got, before its stream ends without an error
\* (main.go:91-94; hub.go, closeAll; sse.go, handleSessionEvents).
THEOREM EveryoneIsToldAll == Spec => []FarewellIsWhole
<1>1. HubView /\ ReaderInv /\ FarewellInv => FarewellIsWhole
  <2> SUFFICES ASSUME HubView, ReaderInv, FarewellInv,
                      body = "eof", reader = "done", err = "nil", closing = "no",
                      NEW e \in 1..owed,
                      e > owed - BufCap \/ \E f \in Seen \ {0} : f <= e
               PROVE  e \in Seen
    BY DEF FarewellIsWhole
  <2>1. /\ owed = next[Client] + Len(chan[Client]) - 1
        /\ backlog = <<>> /\ chan[Client] = <<>>
        /\ sent # <<>> /\ sent[1] = 0
        /\ \A k \in 2..Len(sent) : sent[k] = Written - Len(sent) + k
        /\ Len(sent) - 1 = Written \/ Len(sent) - 1 + Len(backlog) >= BufCap
    BY DEF FarewellInv, WrittenSoFar, OwedComes
  <2>2. owed = Written /\ Len(backlog) = 0 /\ Written \in Int
    <3>1. Len(backlog) = 0 /\ Len(chan[Client]) = 0
      BY <2>1
    <3>2. next[Client] \in Nat /\ Written \in Int /\ Written = next[Client] - 1 - Len(backlog)
      BY HandlerFacts
    <3> QED BY <2>1, <3>1, <3>2
  <2>3. sent = Got /\ Got = taken \o out
    BY ReaderIsHonest DEF StreamIsHonest, DeliversWhatWasSent, Got
  <2>4. Seen = {sent[k] : k \in 1..Len(sent)}
    <3>1. taken \in Seq(Int) /\ out \in Seq(Int)
      BY DEF ReaderInv, ReaderTypes
    <3>2. PICK t, o, s : t = taken /\ o = out /\ s = sent
      OBVIOUS
    <3>3. t \in Seq(Int) /\ o \in Seq(Int) /\ s = t \o o
      BY <2>3, <3>1, <3>2
    <3>4. /\ Len(t) \in Nat /\ Len(o) \in Nat /\ Len(s) = Len(t) + Len(o)
          /\ DOMAIN t = 1..Len(t) /\ DOMAIN o = 1..Len(o)
          /\ \A k \in 1..Len(t) : s[k] = t[k]
          /\ \A k \in 1..Len(o) : s[Len(t) + k] = o[k]
      BY <3>3
    <3>len. Len(t) \in Nat /\ Len(o) \in Nat /\ Len(s) = Len(t) + Len(o)
      BY <3>4
    <3>5. ASSUME NEW x
          PROVE  (\E k \in 1..Len(s) : s[k] = x) <=>
                   (\E k \in 1..Len(t) : t[k] = x) \/ (\E k \in 1..Len(o) : o[k] = x)
      <4>1. \A k \in 1..Len(t) : k \in 1..Len(s)
        BY <3>len
      <4>2. \A k \in 1..Len(o) : Len(t) + k \in 1..Len(s)
        BY <3>len
      <4>3. ASSUME NEW k \in 1..Len(s), k \notin 1..Len(t)
            PROVE  \E i \in 1..Len(o) : s[k] = o[i]
        <5>1. k - Len(t) \in 1..Len(o) /\ Len(t) + (k - Len(t)) = k
          BY <3>len, <4>3
        <5> QED BY <3>4, <5>1
      <4> QED BY <3>4, <4>1, <4>2, <4>3
    <3>6. \A x : x \in Seen <=> (\E i \in 1..Len(t) : t[i] = x) \/ (\E i \in 1..Len(o) : o[i] = x)
      <4>1. Seen = {t[i] : i \in 1..Len(t)} \cup {o[i] : i \in 1..Len(o)}
        BY <3>2, <3>4, Zenon DEF Seen
      <4> HIDE DEF Seen
      <4> QED BY <4>1, Zenon
    <3>7. \A x : x \in Seen <=> \E i \in 1..Len(s) : s[i] = x
      BY <3>5, <3>6
    <3>8. \A x : x \in Seen <=> x \in {s[i] : i \in 1..Len(s)}
      BY <3>7
    <3> HIDE DEF Seen
    <3>9. Seen = {s[i] : i \in 1..Len(s)}
      BY <3>8
    <3> QED BY <3>2, <3>9
  <2>5. sent \in Seq(Nat) /\ Len(sent) \in Nat
    BY ReaderFacts
  <2>6. PICK k : k = e - Written + Len(sent)
    OBVIOUS
  <2>7. k \in Int /\ k <= Len(sent)
    BY <2>2, <2>5, <2>6
  <2>8. k >= 2
    <3>1. CASE \E f \in Seen \ {0} : f <= e
      <4>1. PICK j \in 1..Len(sent) : sent[j] # 0 /\ sent[j] <= e
        BY <2>4, <3>1
      <4>2. j # 1
        BY <2>1, <4>1
      <4>3. j \in 2..Len(sent)
        BY <2>5, <4>2
      <4>4. sent[j] = Written - Len(sent) + j /\ sent[j] <= e
        BY <2>1, <4>1, <4>3
      <4> QED BY <2>2, <2>5, <2>6, <4>3, <4>4
    <3>2. CASE e > owed - BufCap
      <4>1. Len(sent) - 1 = Written \/ Len(sent) - 1 >= BufCap
        <5>1. Len(sent) - 1 = Written \/ Len(sent) - 1 + Len(backlog) >= BufCap
          BY <2>1
        <5> QED BY <2>2, <2>5, <5>1
      <4>2. BufCap \in Nat /\ e >= 1 /\ e \in Int
        BY <2>2, HubAssumption
      <4> QED BY <2>2, <2>5, <2>6, <3>2, <4>1, <4>2
    <3> QED BY <3>1, <3>2
  <2>9. k \in 2..Len(sent) /\ k \in 1..Len(sent)
    BY <2>5, <2>7, <2>8
  <2>10. sent[k] = e
    <3>1. sent[k] = Written - Len(sent) + k
      BY <2>1, <2>9
    <3> QED BY <2>2, <2>5, <2>6, <3>1
  <2> QED BY <2>4, <2>9, <2>10
<1> QED BY <1>1, ReaderInvariance, FarewellInvariance, PTL

-----------------------------------------------------------------------------
(* Stopping *)

\* A step of the hub, the network or the client.
LEMMA StopQuiet ==
  ASSUME StopInv, UNCHANGED <<stage, failed, closer, create, message, sessions,
                              shut, holders, turn, cancelled, drained>>
  PROVE  StopInv'
BY DEF StopInv, StopTypes, HoldersLive, ClosedInOrder, AllSettled

\* A step of a request.
LEMMA RequestStops ==
  ASSUME StopInv, Arrive \/ StreamStep \/ NetworkCuts \/ RelayEnds \/ CreateSession
  PROVE  StopInv'
<1> USE DEF ctrlVars, turnVars, mainVars
<1>1. CASE Arrive
  BY <1>1 DEF Arrive, Accepting, StopInv, StopTypes, HoldersLive, ClosedInOrder, AllSettled
<1>2. CASE StreamStep \/ NetworkCuts \/ RelayEnds
  BY <1>2, StopQuiet DEF StreamStep, StreamSubscribes, StreamWrites, StreamReturns,
       StreamGone, StreamOnly, NetworkCuts, RelayEnds, httpVars
<1>3. CASE CreateSession
  BY <1>3 DEF CreateSession, StopInv, StopTypes, Stages, HoldersLive, ClosedInOrder, AllSettled
<1> QED BY <1>1, <1>2, <1>3

\* A step of the turn, or of a background process.
LEMMA TurnStops ==
  ASSUME StopInv, TurnStep
  PROVE  StopInv'
<1> USE DEF httpVars, ctrlVars, turnVars, mainVars, TurnOnly, StartTurn
<1>1. CASE MessageArrives
  BY <1>1 DEF MessageArrives, StopInv, StopTypes, Stages, HoldersLive, ClosedInOrder, AllSettled
<1>2. CASE Drain
  BY <1>2 DEF Drain, StopInv, StopTypes, HoldersLive, ClosedInOrder, AllSettled
<1>3. CASE BackgroundExits \/ TurnSpeaks
  BY <1>3, StopQuiet DEF BackgroundExits, TurnSpeaks
<1>4. CASE EnsureSandbox
  BY <1>4 DEF EnsureSandbox, StopInv, StopTypes, HoldersLive, ClosedInOrder, AllSettled
<1>5. CASE Attach
  BY <1>5 DEF Attach, StopInv, StopTypes, HoldersLive, ClosedInOrder, AllSettled
<1>6. CASE ReleaseRefused
  BY <1>6 DEF ReleaseRefused, StopInv, StopTypes, HoldersLive, ClosedInOrder, AllSettled
<1>7. CASE TurnEnds \/ FinishTurn
  BY <1>7 DEF TurnEnds, FinishTurn, StopInv, StopTypes, HoldersLive, ClosedInOrder, AllSettled
<1> QED BY <1>1, <1>2, <1>3, <1>4, <1>5, <1>6, <1>7 DEF TurnStep

\* A step of the sweeper.
LEMMA SweepStops ==
  ASSUME StopInv, Reap \/ Reaped
  PROVE  StopInv'
BY DEF Reap, Reaped, httpVars, turnVars, mainVars,
       StopInv, StopTypes, HoldersLive, ClosedInOrder, AllSettled

\* A step of main.
LEMMA MainStops ==
  ASSUME StopInv, Signal \/ LeaseLapses \/ MainStep
  PROVE  StopInv'
<1> USE DEF MainOnly, httpVars, ctrlVars, turnVars, mainVars
<1>1. CASE Signal \/ CloseSubscribers
  BY <1>1 DEF Signal, CloseSubscribers, StopInv, StopTypes, Stages, HoldersLive,
       ClosedInOrder, AllSettled
<1>2. CASE LeaseLapses
  BY <1>2, StopQuiet DEF LeaseLapses
<1>3. CASE ShutdownReturns \/ ShutdownTimesOut
  BY <1>3 DEF ShutdownReturns, ShutdownTimesOut, Settled, StopInv, StopTypes, Stages,
       HoldersLive, ClosedInOrder, AllSettled
<1>4. CASE StopSweeper
  BY <1>4 DEF StopSweeper, StopInv, StopTypes, Stages, HoldersLive, ClosedInOrder, AllSettled
<1>5. CASE Closing
  <2>1. ASSUME NEW s \in {"old", "new"}, CancelSession(s)
        PROVE  StopInv'
    <3>1. /\ stage = "closing" /\ closer = "off" /\ s \in sessions
          /\ closer' = s /\ sessions' = sessions \ {s}
          /\ cancelled' = (cancelled \/ (s = "old" /\ turn # "none"))
          /\ UNCHANGED <<stage, failed, create, message, shut, holders, turn, drained>>
      BY <2>1 DEF CancelSession
    <3>2. StopTypes' /\ ClosedInOrder'
      BY <3>1 DEF StopInv, StopTypes, ClosedInOrder
    <3>3. HoldersLive'
      BY <3>1 DEF StopInv, HoldersLive
    <3>4. AllSettled'
      BY <3>1 DEF StopInv, AllSettled, ClosedInOrder
    <3> QED BY <3>2, <3>3, <3>4 DEF StopInv
  <2>2. CASE CloseSession
    <3>1. /\ closer \in {"old", "new"} /\ shut' = shut \cup {closer}
          /\ IF closer \in holders
             THEN closer' = "releasing" /\ holders' = (holders \ {closer}) \cup {"closer"}
             ELSE closer' = "off" /\ holders' = holders
          /\ UNCHANGED <<stage, failed, create, message, sessions, turn, cancelled, drained>>
      BY <2>2 DEF CloseSession
    <3>2. StopTypes' /\ ClosedInOrder' /\ AllSettled'
      BY <3>1 DEF StopInv, StopTypes, ClosedInOrder, AllSettled
    <3>3. HoldersLive'
      BY <3>1 DEF StopInv, HoldersLive, StopTypes
    <3> QED BY <3>2, <3>3 DEF StopInv
  <2>3. CASE ReleaseClosed
    BY <2>3 DEF ReleaseClosed, StopInv, StopTypes, HoldersLive, ClosedInOrder, AllSettled
  <2> QED BY <1>5, <2>1, <2>2, <2>3 DEF Closing
<1>6. CASE Revoke \/ Exit
  BY <1>6 DEF Revoke, Exit, StopInv, StopTypes, Stages, HoldersLive, ClosedInOrder, AllSettled
<1> QED BY <1>1, <1>2, <1>3, <1>4, <1>5, <1>6 DEF MainStep

\* Whatever happens while the node stops, whoever has to release a sandbox or to
\* cancel a turn is there to do it (main.go, Controller.Close).
THEOREM StopInvariance == Spec => []StopInv
<1>1. Init => StopInv
  BY DEF Init, StopInv, StopTypes, Stages, HoldersLive, ClosedInOrder, AllSettled
<1>2. StopInv /\ [Next]_vars => StopInv'
  <2> SUFFICES ASSUME StopInv, [Next]_vars PROVE StopInv'
    OBVIOUS
  <2>1. CASE UNCHANGED vars \/ ClientStep \/ Receives \/ Closes \/ StopsTaking
    BY <2>1, StopQuiet DEF vars, ClientStep, Receives, Closes, StopsTaking, Node,
         httpVars, ctrlVars, turnVars, mainVars
  <2> QED BY <2>1, RequestStops, TurnStops, SweepStops, MainStops DEF Next
<1> QED BY <1>1, <1>2, PTL DEF Spec

\* A node whose requests all ended in time exits with no sandbox left but one a
\* turn was just building, and with every turn it gives up cancelled, however
\* the sweeper, the turns and the requests interleave (main.go:86-110).
THEOREM StopsCleanly == Spec => []StopIsClean
<1>1. StopInv => StopIsClean
  BY DEF StopInv, StopTypes, HoldersLive, ClosedInOrder, AllSettled, StopIsClean,
       ExitReleasesSandboxes, GivenUpTurnsAreCancelled
<1> QED BY <1>1, StopInvariance, PTL

=============================================================================
