---------------------------- MODULE AgentLoopProofs ----------------------------
(***************************************************************************)
(* What TLAPS proves of AgentLoop for any number of turns, calls, crashes  *)
(* and failures and any context window: a result stays in its turn, its    *)
(* waiter is live, S3 has what an idle session has in memory, and the      *)
(* history holds every turn with its own answer, trimmed no further than   *)
(* it must be.                                                             *)
(***************************************************************************)
EXTENDS AgentLoop, SequenceTheorems, FiniteSetTheorems, WellFoundedInduction, TLAPS

-----------------------------------------------------------------------------
(* Induction *)

\* The natural numbers are well-ordered by <.
LEMMA LeastElement ==
  ASSUME NEW T, T \subseteq Nat, T # {}
  PROVE  \E x \in T : \A y \in T : x <= y
<1> DEFINE R == {p \in Nat \X Nat : p[1] < p[2]}
<1>1. IsWellFoundedOn(R, Nat)
  BY NatLessThanWellFounded DEF OpToRel
<1>2. \A x, y \in Nat : <<x, y>> \in R <=> x < y
  OBVIOUS
<1> HIDE DEF R
<1>3. PICK x \in T : \A y \in T : ~(<<y, x>> \in R)
  BY <1>1, WFMin
<1>4. ASSUME NEW y \in T PROVE x <= y
  <2>1. x \in Nat /\ y \in Nat /\ ~(y < x)
    BY <1>2, <1>3
  <2> QED BY <2>1
<1> QED BY <1>4

\* Induction over an initial segment of the natural numbers, as a statement
\* about the set of those that have the property.
LEMMA Induction ==
  ASSUME NEW N \in Nat, NEW T \in SUBSET (0..N), 0 \in T,
         \A i \in 1..N : i - 1 \in T => i \in T
  PROVE  T = 0..N
<1> SUFFICES ASSUME (0..N) \ T # {} PROVE FALSE
  OBVIOUS
<1> DEFINE U == (0..N) \ T
<1>0. U \subseteq Nat /\ U # {}
  OBVIOUS
<1> HIDE DEF U
<1>1. PICK x \in U : \A y \in U : x <= y
  BY <1>0, LeastElement
<1> USE DEF U
<1>2. x \in 1..N /\ x - 1 \in 0..N
  BY <1>1
<1>3. x - 1 \in T
  BY <1>1, <1>2
<1> QED BY <1>1, <1>2, <1>3

\* A bounded set of numbers has a greatest one.
LEMMA GreatestElement ==
  ASSUME NEW N \in Nat, NEW T \in SUBSET (0..N), T # {}
  PROVE  \E x \in T : \A y \in T : y <= x
<1> DEFINE R == {i \in 0..N : N - i \in T}
<1>2. \A y \in T : N - y \in R
  <2> TAKE y \in T
  <2>1. y \in 0..N /\ N - (N - y) = y /\ N - y \in 0..N
    OBVIOUS
  <2> QED BY <2>1
<1>3. \A i \in R : i \in 0..N /\ N - i \in T
  OBVIOUS
<1> HIDE DEF R
<1>1. R \subseteq Nat /\ R # {}
  <2>1. R \subseteq Nat
    BY <1>3
  <2>2. R # {}
    BY <1>2, Zenon
  <2> QED BY <2>1, <2>2
<1>4. PICK i \in R : \A y \in R : i <= y
  BY <1>1, LeastElement
<1>5. \A y \in T : y <= N - i
  <2> TAKE y \in T
  <2>1. i <= N - y /\ y \in 0..N /\ i \in 0..N
    BY <1>2, <1>3, <1>4
  <2> QED BY <2>1
<1> QED BY <1>3, <1>4, <1>5

\* Counting down from the greatest, every number of elements is reached.
LEMMA KthLast ==
  ASSUME NEW N \in Nat, NEW U \in SUBSET (1..N), NEW k \in Nat \ {0}, k <= Cardinality(U)
  PROVE  \E i \in U : Cardinality({j \in U : j >= i}) = k
<1> DEFINE Up(i) == {j \in U : j >= i}
           c == Cardinality(U)
           T == {x \in 0..c : x = 0 \/ \E i \in U : Cardinality(Up(i)) = x}
<1>1. IsFiniteSet(U) /\ c \in Nat /\ \A x \in U : x \in Int
  <2>1. IsFiniteSet(1..N)
    BY FS_Interval
  <2>2. IsFiniteSet(U)
    BY <2>1, FS_Subset
  <2> QED BY <2>2, FS_CardinalityType
<1>2. ASSUME NEW W \in SUBSET U, W # {}
      PROVE  \E x \in W : \A y \in W : y <= x
  <2>1. W \in SUBSET (0..N)
    OBVIOUS
  <2> QED BY <1>2, <2>1, GreatestElement
<1> HIDE DEF c
<1>3. \A i \in U : \A j : j \in Up(i) <=> j \in U /\ j >= i
  OBVIOUS
<1>4. \A i \in U : IsFiniteSet(Up(i))
  BY <1>1, FS_Subset
<1>5. \A x : x \in T <=> x \in 0..c /\ (x = 0 \/ \E i \in U : Cardinality(Up(i)) = x)
  OBVIOUS
<1> HIDE DEF Up, T
<1>6. ASSUME NEW x \in 1..c, x - 1 \in T PROVE x \in T
  <2>1. CASE x = 1
    <3>1. U # {}
      BY <1>1, FS_EmptySet DEF c
    <3>2. PICK i \in U : \A y \in U : y <= i
      BY <1>2, <3>1
    <3>3. \A j : j \in Up(i) <=> j = i
      <4> TAKE j
      <4>1. ASSUME j \in U PROVE j >= i <=> j = i
        BY <1>1, <3>2, <4>1
      <4> QED BY <1>3, <4>1, Zenon
    <3>4. Up(i) = {i}
      BY <3>3
    <3>5. Cardinality(Up(i)) = 1
      BY <3>4, FS_Singleton
    <3> QED BY <1>1, <1>5, <2>1, <3>5
  <2>2. CASE x # 1
    <3>1. PICK i \in U : Cardinality(Up(i)) = x - 1
      BY <1>1, <1>5, <1>6, <2>2
    <3> DEFINE W == {j \in U : j < i}
    <3>2. W # {}
      <4>1. Up(i) # U
        BY <1>1, <3>1 DEF c
      <4>2. PICK j \in U : j \notin Up(i)
        BY <1>3, <4>1
      <4>3. j \in W
        BY <1>1, <1>3, <4>2
      <4> QED BY <4>3
    <3>3. PICK d \in W : \A y \in W : y <= d
      BY <1>2, <3>2
    <3>4. d \in U /\ d < i /\ \A y \in U : y < i => y <= d
      BY <3>3
    <3> HIDE DEF W
    <3>5. d \notin Up(i) /\ \A j : j \in Up(d) <=> j \in Up(i) \/ j = d
      <4>1. ~(d >= i) /\ d >= d
        BY <1>1, <3>4
      <4>2. ASSUME NEW j \in U PROVE j >= d <=> j >= i \/ j = d
        BY <1>1, <3>4, <4>2
      <4> QED BY <1>3, <3>4, <4>1, <4>2, Zenon
    <3>6. Up(d) = Up(i) \cup {d}
      BY <3>5
    <3>7. Cardinality(Up(d)) = x
      BY <1>4, <3>1, <3>5, <3>6, FS_AddElement
    <3> QED BY <1>1, <1>5, <3>4, <3>7
  <2> QED BY <2>1, <2>2
<1>7. 0 \in T /\ T \in SUBSET (0..c)
  BY <1>1, <1>5
<1>8. T = 0..c
  BY <1>1, <1>6, <1>7, Induction
<1>9. k \in T
  BY <1>1, <1>8 DEF c
<1>10. \E i \in U : Cardinality(Up(i)) = k
  BY <1>5, <1>9
<1> QED BY <1>10 DEF Up

-----------------------------------------------------------------------------
(* Histories *)

\* The roles, turns and kinds a message may have.
LEMMA MessageFacts ==
  ASSUME NEW m \in Messages
  PROVE  /\ m.role \in {"user", "assistant"} /\ m.turn \in Nat
         /\ m.role = "user" => m = Summary \/ (m.turn \in Turns /\ m = User(m.turn))
         /\ m.kind = "marker" => m.role = "assistant"
<1>1. CASE \E t \in Turns : m = User(t)
  BY <1>1, ToolAssumption DEF User, Turns
<1>2. CASE m = Summary
  BY <1>2 DEF Summary
<1>3. CASE \E t \in Turns, k \in {"reply", "partial", "marker"} : m = Assistant(t, k)
  BY <1>3, ToolAssumption DEF Assistant, Turns
<1> QED BY <1>1, <1>2, <1>3 DEF Messages

\* What InOrder says, by position.
LEMMA SoundFacts ==
  ASSUME NEW h, Sound(h)
  PROVE  /\ h \in Seq(Messages) /\ Len(h) \in Nat /\ DOMAIN h = 1..Len(h)
         /\ \A i \in 1..Len(h) : h[i] \in Messages
         /\ \A i \in 1..Len(h), j \in 1..Len(h) :
              j < i /\ h[i].role = "user" /\ h[j].role = "user" => h[j].turn < h[i].turn
         /\ \A i \in 1..Len(h) :
              h[i].role = "assistant" => i - 1 \in 1..Len(h) /\ h[i - 1] = User(h[i].turn)
         /\ h # <<>> => Len(h) >= 1 /\ h[1].role = "user" /\ h[Len(h)] # Summary
<1>1. h \in Seq(Messages) /\ Len(h) \in Nat /\ DOMAIN h = 1..Len(h)
  BY DEF Sound
<1>2. \A i \in 1..Len(h) : h[i] \in Messages
  BY <1>1
<1>3. \A i \in 1..Len(h), j \in 1..Len(h) :
        j < i /\ h[i].role = "user" /\ h[j].role = "user" => h[j].turn < h[i].turn
  <2> TAKE i \in 1..Len(h), j \in 1..Len(h)
  <2> HAVE j < i /\ h[i].role = "user" /\ h[j].role = "user"
  <2>1. j \in 1..(i - 1)
    OBVIOUS
  <2> QED BY <1>1, <2>1 DEF Sound, InOrder
<1>4. \A i \in 1..Len(h) :
        h[i].role = "assistant" => i > 1 /\ h[i - 1] = User(h[i].turn)
  BY <1>1 DEF Sound, InOrder
<1>5. ASSUME h # <<>>
      PROVE  Len(h) >= 1 /\ h[1].role = "user" /\ h[Len(h)] # Summary
  <2>1. 1 \in 1..Len(h)
    BY <1>1, <1>5
  <2>2. h[1].role # "assistant"
    BY <1>4, <2>1
  <2>3. h[1].role \in {"user", "assistant"}
    BY <1>2, <2>1, MessageFacts
  <2> QED BY <1>5, <2>1, <2>2, <2>3 DEF Sound
<1> QED BY <1>1, <1>2, <1>3, <1>4, <1>5


\* A message the user sends.
LEMMA UserFacts ==
  \A t : User(t).role = "user" /\ User(t).turn = t /\ User(t).kind = "text"
BY DEF User

\* A sequence with a length.
LEMMA NonEmpty ==
  ASSUME NEW s, Len(s) >= 1
  PROVE  s # <<>>
OBVIOUS

\* A history that lost its oldest turns: it ends as before, and whatever it
\* lost is older than something it holds.
Shortens(h, g) ==
  /\ Sound(g) /\ (h = <<>> <=> g = <<>>) /\ (h # <<>> => g[Len(g)] = h[Len(h)])
  /\ TurnsOf(g) \subseteq TurnsOf(h) \cup {0}
  /\ \A t \in TurnsOf(h) : t \in TurnsOf(g) \/ \E u \in TurnsOf(g) : t < u
  /\ \A t : Answered(h, t) => Answered(g, t) \/ t \in TurnsOf(h) \ TurnsOf(g)
  /\ Sealed(h) => Sealed(g)

\* Nothing lost.
LEMMA ShortensSame ==
  ASSUME NEW h, Sound(h)
  PROVE  Shortens(h, h)
BY DEF Shortens

\* What begins with a user message of a sound history is one, and lacks only
\* turns older than its own.
LEMMA SuffixFacts ==
  ASSUME NEW h, Sound(h), NEW n \in 0..(Len(h) - 1), h[n + 1].role = "user",
         NEW s, s = SubSeq(h, n + 1, Len(h))
  PROVE  Shortens(h, s) /\ Sound(s) /\ Len(s) = Len(h) - n /\ s[1] = h[n + 1]
<1>1. /\ h \in Seq(Messages) /\ Len(h) \in Nat /\ DOMAIN h = 1..Len(h)
      /\ \A i \in 1..Len(h) : h[i] \in Messages
      /\ \A i \in 1..Len(h), j \in 1..Len(h) :
           j < i /\ h[i].role = "user" /\ h[j].role = "user" => h[j].turn < h[i].turn
      /\ \A i \in 1..Len(h) :
           h[i].role = "assistant" => i - 1 \in 1..Len(h) /\ h[i - 1] = User(h[i].turn)
      /\ h # <<>> => Len(h) >= 1 /\ h[1].role = "user" /\ h[Len(h)] # Summary
  BY SoundFacts
<1>2. /\ s \in Seq(Messages) /\ Len(s) = Len(h) - n /\ DOMAIN s = 1..Len(s)
      /\ \A i \in 1..Len(s) : s[i] = h[n + i]
  <2>1. n + 1 \in 1..Len(h) /\ Len(h) \in 1..Len(h)
    BY <1>1
  <2>2. s \in Seq(Messages) /\ Len(s) = Len(h) - (n + 1) + 1
        /\ \A i \in 1..(Len(h) - (n + 1) + 1) : s[i] = h[(n + 1) + i - 1]
    BY <1>1, <2>1, SubSeqProperties
  <2>3. \A i \in 1..Len(s) : (n + 1) + i - 1 = n + i
    BY <1>1, <2>2
  <2> QED BY <1>1, <2>2, <2>3
<1>3. /\ Len(s) >= 1 /\ Len(s) \in Nat /\ s # <<>> /\ s[1] = h[n + 1] /\ s[Len(s)] = h[Len(h)]
  <2>1. Len(s) >= 1 /\ Len(s) \in Nat /\ n + Len(s) = Len(h)
    BY <1>1, <1>2
  <2>2. s[Len(s)] = h[n + Len(s)] /\ s[1] = h[n + 1]
    BY <1>2, <2>1
  <2>3. s[Len(s)] = h[Len(h)]
    BY <2>1, <2>2
  <2>4. s # <<>>
    BY <1>2, <2>1, NonEmpty, Zenon
  <2> QED BY <2>1, <2>2, <2>3, <2>4
<1>4. \A i \in 1..Len(s) : n + i \in 1..Len(h)
  BY <1>1, <1>2
<1>5. \A k \in 1..Len(h) : k > n => k - n \in 1..Len(s) /\ s[k - n] = h[k]
  <2> TAKE k \in 1..Len(h)
  <2> HAVE k > n
  <2>1. k - n \in 1..Len(s) /\ n + (k - n) = k
    BY <1>1, <1>2
  <2> QED BY <1>2, <2>1
<1>6. \A i \in 1..Len(s) :
        s[i].role = "assistant" => i - 1 \in 1..Len(s) /\ s[i - 1] = User(s[i].turn)
  <2> TAKE i \in 1..Len(s)
  <2> HAVE s[i].role = "assistant"
  <2>1. h[n + i].role = "assistant" /\ n + i \in 1..Len(h)
    BY <1>2, <1>4
  <2>2. h[n + i - 1] = User(s[i].turn)
    BY <1>1, <1>2, <2>1
  <2>3. i # 1
    BY <1>3, <2>1
  <2>4. i - 1 \in 1..Len(s) /\ n + (i - 1) = n + i - 1
    BY <2>3, <1>3
  <2>5. s[i - 1] = h[n + i - 1]
    BY <1>2, <2>4
  <2> QED BY <2>2, <2>4, <2>5
<1>7. \A i \in 1..Len(s), j \in 1..Len(s) :
        j < i /\ s[i].role = "user" /\ s[j].role = "user" => s[j].turn < s[i].turn
  <2> TAKE i \in 1..Len(s), j \in 1..Len(s)
  <2> HAVE j < i /\ s[i].role = "user" /\ s[j].role = "user"
  <2>1. n + j < n + i /\ n + i \in 1..Len(h) /\ n + j \in 1..Len(h)
    BY <1>4
  <2> QED BY <1>1, <1>2, <2>1
<1>8. Sound(s)
  <2>1. InOrder(s)
    <3> SUFFICES ASSUME NEW i \in 1..Len(s)
                 PROVE  /\ \A j \in 1..(i - 1) :
                             s[i].role = "user" /\ s[j].role = "user" => s[j].turn < s[i].turn
                        /\ s[i].role = "assistant" => i > 1 /\ s[i - 1] = User(s[i].turn)
      BY <1>2 DEF InOrder
    <3>1. \A j \in 1..(i - 1) : j \in 1..Len(s) /\ j < i
      BY <1>3
    <3>2. i - 1 \in 1..Len(s) => i > 1
      OBVIOUS
    <3> QED BY <1>6, <1>7, <3>1, <3>2
  <2>2. h # <<>>
    BY <1>1, <1>3, EmptySeq
  <2> QED BY <1>1, <1>2, <1>3, <2>1, <2>2 DEF Sound
<1>9. TurnsOf(s) = {s[i].turn : i \in 1..Len(s)} /\ TurnsOf(h) = {h[i].turn : i \in 1..Len(h)}
  BY <1>1, <1>2 DEF TurnsOf
<1>10. TurnsOf(s) \subseteq TurnsOf(h)
  BY <1>2, <1>4, <1>9
<1>11. \A i \in 1..Len(s) : s[i].turn = s[1].turn \/ s[i].turn > s[1].turn
  <2> TAKE i \in 1..Len(s)
  <2>0. \A j \in 1..Len(s) : s[j] \in Messages /\ s[j].turn \in Nat
                             /\ s[j].role \in {"user", "assistant"}
    BY <1>1, <1>2, <1>4, MessageFacts
  <2>1. 1 \in 1..Len(s) /\ s[1].role = "user"
    BY <1>3
  <2>2. \A j \in 1..Len(s) : s[j].role = "user" => s[j].turn = s[1].turn \/ s[j].turn > s[1].turn
    <3> TAKE j \in 1..Len(s)
    <3>1. j = 1 \/ 1 < j
      OBVIOUS
    <3> QED BY <1>7, <2>0, <2>1, <3>1
  <2>3. CASE s[i].role = "assistant"
    <3>1. i - 1 \in 1..Len(s) /\ s[i - 1].role = "user" /\ s[i - 1].turn = s[i].turn
      <4>1. i - 1 \in 1..Len(s) /\ s[i - 1] = User(s[i].turn)
        BY <1>6, <2>3
      <4> QED BY <4>1, UserFacts
    <3> QED BY <2>2, <3>1
  <2> QED BY <2>0, <2>2, <2>3
<1>12. \A k \in 1..Len(h) : k <= n => h[k].turn < s[1].turn
  <2> TAKE k \in 1..Len(h)
  <2> HAVE k <= n
  <2>0. n + 1 \in 1..Len(h) /\ n \in Nat
    BY <1>1
  <2>1. \A j \in 1..Len(h) : j <= n /\ h[j].role = "user" => h[j].turn < s[1].turn
    <3> TAKE j \in 1..Len(h)
    <3> HAVE j <= n /\ h[j].role = "user"
    <3>1. j < n + 1
      BY <2>0
    <3> QED BY <1>1, <1>3, <2>0, <3>1
  <2>2. CASE h[k].role = "assistant"
    <3>1. k - 1 \in 1..Len(h) /\ h[k - 1].role = "user" /\ h[k - 1].turn = h[k].turn
      <4>1. k - 1 \in 1..Len(h) /\ h[k - 1] = User(h[k].turn)
        BY <1>1, <2>2
      <4> QED BY <4>1, UserFacts
    <3>2. k - 1 <= n
      BY <2>0
    <3> QED BY <2>1, <3>1, <3>2
  <2>3. h[k].role \in {"user", "assistant"}
    BY <1>1, MessageFacts
  <2> QED BY <2>1, <2>2, <2>3
<1>13. s[1].turn \in TurnsOf(s)
  BY <1>3, <1>9
<1>14. \A t \in TurnsOf(h) : t \in TurnsOf(s) \/ t < s[1].turn
  <2> TAKE t \in TurnsOf(h)
  <2>1. PICK k \in 1..Len(h) : t = h[k].turn
    BY <1>9
  <2>2. CASE k > n
    BY <1>5, <1>9, <2>1, <2>2
  <2>3. CASE k <= n
    BY <1>12, <2>1, <2>3
  <2> QED BY <2>2, <2>3
<1>15. \A t : Answered(h, t) => Answered(s, t) \/ t \in TurnsOf(h) \ TurnsOf(s)
  <2> TAKE t
  <2> HAVE Answered(h, t)
  <2>1. PICK i \in 1..(Len(h) - 1) : h[i] = User(t) /\ h[i + 1].role = "assistant"
    BY DEF Answered
  <2>2. i \in 1..Len(h) /\ i + 1 \in 1..Len(h) /\ h[i].turn = t
    BY <1>1, <2>1 DEF User
  <2>3. CASE i > n
    <3>1. i - n \in 1..Len(s) /\ s[i - n] = h[i]
      BY <1>5, <2>2, <2>3
    <3>2. (i + 1) - n \in 1..Len(s) /\ s[(i + 1) - n] = h[i + 1]
      BY <1>5, <2>2, <2>3
    <3>3. i - n \in 1..(Len(s) - 1) /\ (i - n) + 1 = (i + 1) - n
      BY <1>3, <3>1, <3>2
    <3> QED BY <2>1, <3>1, <3>2, <3>3 DEF Answered
  <2>4. CASE i <= n
    <3>1. t < s[1].turn /\ t \in TurnsOf(h)
      BY <1>9, <1>12, <2>2, <2>4
    <3>2. t \in Nat /\ s[1].turn \in Nat
      BY <1>1, <1>3, <2>2, <1>4, MessageFacts
    <3>0. \A a \in Nat, b \in Nat, c \in Nat : a < b /\ (c = b \/ c > b) => c # a
      OBVIOUS
    <3>3. \A k \in 1..Len(s) : s[k].turn # t
      <4> TAKE k \in 1..Len(s)
      <4>1. s[k].turn \in Nat
        BY <1>1, <1>2, <1>4, MessageFacts
      <4>2. s[k].turn = s[1].turn \/ s[k].turn > s[1].turn
        BY <1>11
      <4> QED BY <3>0, <3>1, <3>2, <4>1, <4>2, Zenon
    <3>4. t \notin TurnsOf(s)
      BY <1>9, <3>3
    <3> QED BY <3>1, <3>4
  <2> QED BY <2>3, <2>4
<1>16. Sealed(h) => Sealed(s)
  BY <1>1, <1>2, <1>4 DEF Sealed
<1>17. Shortens(h, s)
  <2>1. h # <<>> /\ TurnsOf(s) \subseteq TurnsOf(h) \cup {0}
    BY <1>1, <1>10
  <2>2. \A t \in TurnsOf(h) : t \in TurnsOf(s) \/ \E u \in TurnsOf(s) : t < u
    BY <1>13, <1>14
  <2> QED BY <1>3, <1>8, <1>15, <1>16, <2>1, <2>2 DEF Shortens
<1> QED BY <1>2, <1>3, <1>8, <1>17


-----------------------------------------------------------------------------
(* TruncateToFit *)

\* The cut is at the first user message from which everything fits, or at the
\* last turn.
LEMMA CutFacts ==
  ASSUME NEW h, Sound(h)
  PROVE  /\ h = <<>> => CutFor(h) = 0
         /\ h # <<>> =>
              /\ CutFor(h) \in 0..(Len(h) - 1) /\ h[CutFor(h) + 1].role = "user"
              /\ Fits(Len(h) - CutFor(h))
              /\ \A m \in 0..(Len(h) - 1) :
                   h[m + 1].role = "user" /\ Fits(Len(h) - m) => CutFor(h) <= m
<1> DEFINE N == Len(h)
           Stop(n) == \/ N - n <= 2 \/ h[n + 1].role # "user"
                      \/ Budget > 0 /\ N - n <= Budget
           F(g) == [n \in 0..N |-> IF Stop(n) THEN n ELSE g[n + TurnLen(h, n)]]
           cutAt == CHOOSE g : g = F(g)
           S(n) == {m \in 0..(N - 1) : h[m + 1].role = "user" /\ m >= n /\ Fits(N - m)}
           Least(T) == CHOOSE m \in T : \A y \in T : m <= y
           w == [n \in 0..N |-> IF Stop(n) THEN n ELSE Least(S(n))]
<1>1. /\ N \in Nat /\ Budget \in Int
      /\ \A i \in 1..N : h[i].role \in {"user", "assistant"}
      /\ \A i \in 1..N :
           h[i].role = "assistant" => i - 1 \in 1..N /\ h[i - 1].role = "user"
      /\ h # <<>> => N >= 1 /\ h[1].role = "user"
      /\ h = <<>> => N = 0
  <2>1. /\ \A i \in 1..N : h[i].role \in {"user", "assistant"}
        /\ h # <<>> => N >= 1 /\ h[1].role = "user"
        /\ N \in Nat /\ Budget \in Int
    BY SoundFacts, MessageFacts, LoopAssumption
  <2>2. ASSUME NEW i \in 1..N, h[i].role = "assistant"
        PROVE  i - 1 \in 1..N /\ h[i - 1].role = "user"
    <3>1. i - 1 \in 1..N /\ h[i - 1] = User(h[i].turn)
      BY <2>2, SoundFacts
    <3> QED BY <3>1, UserFacts
  <2> QED BY <2>1, <2>2
<1>2. CutFor(h) = cutAt[0]
  BY DEF CutFor, Size
<1>3. \A n, m : m \in S(n) <=> m \in 0..(N - 1) /\ h[m + 1].role = "user" /\ m >= n /\ Fits(N - m)
  OBVIOUS
<1>4. \A n \in 0..N :
        /\ Stop(n) => N - n <= 2 \/ h[n + 1].role # "user" \/ (Budget > 0 /\ N - n <= Budget)
        /\ ~Stop(n) => N - n > 2 /\ h[n + 1].role = "user" /\ ~(Budget > 0 /\ N - n <= Budget)
  BY <1>1
<1>5. ASSUME NEW T \in SUBSET Nat, T # {}, NEW x \in T, \A y \in T : x <= y
      PROVE  Least(T) = x
  <2>1. Least(T) \in T /\ \A y \in T : Least(T) <= y
    BY <1>5
  <2> HIDE DEF Least
  <2>2. Least(T) <= x /\ x <= Least(T) /\ x \in Nat /\ Least(T) \in Nat
    BY <1>5, <2>1
  <2> QED BY <2>2
<1>6. \A n : S(n) \in SUBSET Nat
  BY <1>1
<1> HIDE DEF N, Least, S, Stop
<1>7. ASSUME NEW n \in 0..N, ~Stop(n)
      PROVE  /\ n + TurnLen(h, n) \in (n + 1)..(N - 1)
             /\ h[n + TurnLen(h, n) + 1].role = "user"
             /\ \A m \in 0..(N - 1) :
                  m > n /\ m < n + TurnLen(h, n) => h[m + 1].role # "user"
  <2>1. N - n > 2 /\ h[n + 1].role = "user" /\ n + 2 \in 1..N /\ n + 3 \in 1..N
    BY <1>1, <1>4, <1>7
  <2>2. CASE h[n + 2].role = "assistant"
    <3>1. TurnLen(h, n) = 2
      BY <1>1, <2>1, <2>2 DEF TurnLen, N
    <3>2. h[n + 3].role # "assistant"
      <4>1. (n + 3) - 1 = n + 2
        BY <1>1
      <4>2. h[n + 2].role # "user"
        BY <2>2
      <4> QED BY <1>1, <2>1, <4>1, <4>2
    <3>3. h[n + 3].role = "user" /\ (n + 2) + 1 = n + 3
      BY <1>1, <2>1, <3>2
    <3>4. \A m \in 0..(N - 1) : m > n /\ m < n + 2 => m + 1 = n + 2
      BY <1>1
    <3>5. n + 2 \in (n + 1)..(N - 1)
      BY <1>1, <2>1
    <3>6. \A m \in 0..(N - 1) : m > n /\ m < n + 2 => h[m + 1].role # "user"
      BY <2>2, <3>4
    <3> QED BY <3>1, <3>3, <3>5, <3>6
  <2>3. CASE h[n + 2].role # "assistant"
    <3>1. TurnLen(h, n) = 1
      BY <2>3 DEF TurnLen
    <3>2. h[n + 2].role = "user" /\ (n + 1) + 1 = n + 2
      BY <1>1, <2>1, <2>3
    <3>3. n + 1 \in (n + 1)..(N - 1) /\ \A m \in 0..(N - 1) : ~(m > n /\ m < n + 1)
      BY <1>1, <2>1
    <3> QED BY <3>1, <3>2, <3>3
  <2> QED BY <2>2, <2>3
<1>8. ASSUME NEW n \in 0..(N - 1), h[n + 1].role = "user" PROVE Stop(n) <=> Fits(N - n)
  BY <1>1, <1>4, <1>8 DEF Fits
<1>9. ASSUME NEW n \in 0..N, ~Stop(n) PROVE S(n) # {}
  <2>1. N - n > 2 /\ N >= 1 /\ N \in 1..N
    BY <1>1, <1>4, <1>9
  <2>2. CASE h[N].role = "user"
    <3>1. (N - 1) + 1 = N /\ N - 1 \in 0..(N - 1) /\ N - 1 >= n /\ Fits(N - (N - 1))
      BY <1>1, <2>1 DEF Fits
    <3> QED BY <1>3, <2>2, <3>1
  <2>3. CASE h[N].role # "user"
    <3>1. h[N - 1].role = "user"
      BY <1>1, <2>1, <2>3
    <3>2. (N - 2) + 1 = N - 1 /\ N - 2 \in 0..(N - 1) /\ N - 2 >= n /\ Fits(N - (N - 2))
      BY <1>1, <2>1 DEF Fits
    <3> QED BY <1>3, <3>1, <3>2
  <2> QED BY <2>2, <2>3
<1>10. ASSUME NEW n \in 0..N, ~Stop(n)
       PROVE  /\ Least(S(n)) \in S(n) /\ \A y \in S(n) : Least(S(n)) <= y
  <2>1. S(n) \subseteq Nat /\ S(n) # {}
    BY <1>6, <1>9, <1>10
  <2>2. PICK x \in S(n) : \A y \in S(n) : x <= y
    BY <2>1, LeastElement
  <2>3. Least(S(n)) = x
    BY <1>5, <1>6, <2>1, <2>2
  <2> QED BY <2>2, <2>3
<1>11. ASSUME NEW n \in 0..N, ~Stop(n)
       PROVE  Least(S(n)) = w[n + TurnLen(h, n)]
  <2> DEFINE x == n + TurnLen(h, n)
  <2>1. /\ x \in (n + 1)..(N - 1) /\ h[x + 1].role = "user"
        /\ \A m \in 0..(N - 1) : m > n /\ m < x => h[m + 1].role # "user"
    BY <1>7, <1>11
  <2> HIDE DEF x
  <2>2. x \in 0..N /\ x \in 0..(N - 1) /\ x > n /\ n \in 0..(N - 1)
    BY <1>1, <2>1
  <2>3. ~Fits(N - n)
    BY <1>4, <1>8, <1>11, <2>2
  <2>4. \A y \in S(n) : y \in 0..(N - 1) /\ y >= x
    <3> TAKE y \in S(n)
    <3>1. y \in 0..(N - 1) /\ h[y + 1].role = "user" /\ y >= n /\ Fits(N - y)
      BY <1>3
    <3>2. y # n
      BY <2>3, <3>1
    <3> QED BY <2>1, <2>2, <3>1, <3>2
  <2>5. CASE Stop(x)
    <3>1. x \in S(n)
      BY <1>3, <1>8, <2>1, <2>2, <2>5
    <3>2. Least(S(n)) = x
      BY <1>5, <1>6, <2>4, <3>1
    <3> QED BY <2>2, <2>5, <3>2 DEF x
  <2>6. CASE ~Stop(x)
    <3>1. \A m : m \in S(x) <=> m \in S(n)
      <4> TAKE m
      <4>1. ASSUME m \in S(x) PROVE m \in S(n)
        <5>1. m \in 0..(N - 1) /\ m >= x /\ m >= n
          BY <1>3, <2>2, <4>1
        <5> QED BY <1>3, <4>1, <5>1
      <4>2. ASSUME m \in S(n) PROVE m \in S(x)
        BY <1>3, <2>4, <4>2
      <4> QED BY <4>1, <4>2
    <3>2. S(x) = S(n)
      BY <3>1
    <3> QED BY <2>2, <2>6, <3>2 DEF x
  <2> QED BY <2>5, <2>6
<1>12. w = F(w)
  <2>1. \A n \in 0..N : w[n] = IF Stop(n) THEN n ELSE w[n + TurnLen(h, n)]
    BY <1>11
  <2>2. w = [n \in 0..N |-> w[n]]
    OBVIOUS
  <2> HIDE DEF w
  <2> QED BY <2>1, <2>2
<1>13. \A n \in 0..N : w[n] = IF Stop(n) THEN n ELSE Least(S(n))
  OBVIOUS
<1> HIDE DEF w
<1>14. \A n \in 0..N : cutAt[n] = IF Stop(n) THEN n ELSE cutAt[n + TurnLen(h, n)]
  <2>1. cutAt = F(cutAt)
    BY <1>12
  <2> HIDE DEF cutAt
  <2> QED BY <2>1
<1> HIDE DEF cutAt
<1>15. cutAt[0] = w[0]
  <2> DEFINE U == {i \in 0..N : cutAt[N - i] # w[N - i]}
  <2>1. U \subseteq Nat /\ \A i : i \in U <=> i \in 0..N /\ cutAt[N - i] # w[N - i]
    BY <1>1
  <2> HIDE DEF U
  <2>2. CASE U # {}
    <3>1. PICK i \in U : \A y \in U : i <= y
      BY <2>1, <2>2, LeastElement
    <3> DEFINE n == N - i
    <3>2. n \in 0..N /\ i \in 0..N /\ cutAt[n] # w[n]
      BY <1>1, <2>1
    <3> HIDE DEF n
    <3>3. ~Stop(n)
      BY <1>13, <1>14, <3>2
    <3> DEFINE x == n + TurnLen(h, n)
    <3>4. x \in (n + 1)..(N - 1)
      BY <1>7, <3>2, <3>3
    <3>5. cutAt[n] = cutAt[x] /\ w[n] = w[x]
      BY <1>11, <1>13, <1>14, <3>2, <3>3
    <3> HIDE DEF x
    <3>6. N - x \in 0..N /\ N - (N - x) = x /\ N - x < i
      BY <1>1, <3>2, <3>4 DEF n
    <3>7. N - x \in U
      BY <2>1, <3>2, <3>5, <3>6
    <3> QED BY <1>1, <3>1, <3>2, <3>4, <3>6, <3>7
  <2>3. CASE U = {}
    <3>1. N \in 0..N /\ N - N = 0
      BY <1>1
    <3> QED BY <2>1, <2>3, <3>1
  <2> QED BY <2>2, <2>3
<1>16. 0 \in 0..N
  BY <1>1
<1>17. CASE Stop(0)
  <2>1. CutFor(h) = 0
    BY <1>2, <1>13, <1>15, <1>16, <1>17
  <2>2. ASSUME h # <<>>
        PROVE  0 \in 0..(N - 1) /\ h[0 + 1].role = "user" /\ Fits(N - 0)
    <3>1. 0 \in 0..(N - 1) /\ h[0 + 1].role = "user"
      BY <1>1, <2>2
    <3> QED BY <1>8, <1>17, <3>1
  <2> QED BY <1>1, <2>1, <2>2 DEF N
<1>18. CASE ~Stop(0)
  <2>1. CutFor(h) \in S(0) /\ \A y \in S(0) : CutFor(h) <= y
    BY <1>2, <1>10, <1>13, <1>15, <1>16, <1>18
  <2>2. h # <<>>
    BY <1>1, <1>4, <1>16, <1>18
  <2>3. \A m \in 0..(N - 1) : m >= 0
    BY <1>1
  <2> QED BY <1>3, <2>1, <2>2, <2>3 DEF N
<1> QED BY <1>17, <1>18


\* Trimming loses whole turns from the old end, and no more of them than must go.
LEMMA TrimFacts ==
  ASSUME NEW h, Sound(h)
  PROVE  /\ Shortens(h, Trim(h))
         /\ Fits(Len(Trim(h))) /\ (h # <<>> => Trim(h)[1].role = "user")
         /\ \A i \in Users(h) : Fits(Len(h) - i + 1) => Len(Trim(h)) >= Len(h) - i + 1
<1>0. Len(h) \in Nat /\ DOMAIN h = 1..Len(h)
  BY SoundFacts
<1>1. CASE h = <<>>
  <2>1. Trim(h) = SubSeq(<<>>, 1, 0)
    BY <1>1, CutFacts DEF Trim
  <2>2. SubSeq(<<>>, 1, 0) = <<>> /\ Len(<<>>) = 0
    OBVIOUS
  <2>3. Users(h) = {}
    BY <1>0, <1>1, <2>2 DEF Users
  <2> QED BY <1>1, <2>1, <2>2, <2>3, ShortensSame DEF Fits
<1>2. CASE h # <<>>
  <2> DEFINE n == CutFor(h)
  <2>1. /\ n \in 0..(Len(h) - 1) /\ h[n + 1].role = "user"
        /\ Fits(Len(h) - n)
        /\ \A m \in 0..(Len(h) - 1) : h[m + 1].role = "user" /\ Fits(Len(h) - m) => n <= m
    BY <1>2, CutFacts
  <2>2. Trim(h) = SubSeq(h, n + 1, Len(h))
    BY DEF Trim
  <2> HIDE DEF n
  <2>3. /\ Shortens(h, Trim(h)) /\ Len(Trim(h)) = Len(h) - n /\ Trim(h)[1] = h[n + 1]
    BY <2>1, <2>2, SuffixFacts
  <2>4. ASSUME NEW i \in Users(h), Fits(Len(h) - i + 1)
        PROVE  Len(Trim(h)) >= Len(h) - i + 1
    <3>1. i \in 1..Len(h) /\ h[i].role = "user"
      BY <1>0 DEF Users
    <3>2. i - 1 \in 0..(Len(h) - 1) /\ (i - 1) + 1 = i /\ Len(h) - (i - 1) = Len(h) - i + 1
      BY <1>0, <3>1
    <3>3. n <= i - 1
      BY <2>1, <2>4, <3>1, <3>2
    <3> QED BY <1>0, <2>1, <2>3, <3>1, <3>3
  <2> QED BY <2>1, <2>3, <2>4
<1> QED BY <1>1, <1>2

-----------------------------------------------------------------------------
(* CompactMessages *)

\* The summary put before turns.
LEMMA SummaryShortens ==
  ASSUME NEW h, NEW s, Sound(h), Shortens(h, s), s # <<>>, s[1].role = "user", s[1].turn > 0
  PROVE  Shortens(h, <<Summary>> \o s)
<1> DEFINE r == <<Summary>> \o s
<1>1. /\ Sound(s) /\ s[Len(s)] = h[Len(h)] /\ h # <<>>
      /\ TurnsOf(s) \subseteq TurnsOf(h) \cup {0}
      /\ \A t \in TurnsOf(h) : t \in TurnsOf(s) \/ \E u \in TurnsOf(s) : t < u
      /\ \A t : Answered(h, t) => Answered(s, t) \/ t \in TurnsOf(h) \ TurnsOf(s)
      /\ Sealed(h) => Sealed(s)
  BY DEF Shortens
<1>2. /\ s \in Seq(Messages) /\ Len(s) \in Nat /\ DOMAIN s = 1..Len(s)
      /\ \A i \in 1..Len(s) : s[i] \in Messages
      /\ \A i \in 1..Len(s), j \in 1..Len(s) :
           j < i /\ s[i].role = "user" /\ s[j].role = "user" => s[j].turn < s[i].turn
      /\ \A i \in 1..Len(s) :
           s[i].role = "assistant" => i - 1 \in 1..Len(s) /\ s[i - 1] = User(s[i].turn)
      /\ Len(s) >= 1 /\ s[Len(s)] # Summary
  BY <1>1, SoundFacts
<1>3. Summary \in Messages /\ Summary.role = "user" /\ Summary.turn = 0 /\ Summary.kind = "summary"
  BY DEF Messages, Summary
<1>4. /\ r \in Seq(Messages) /\ Len(r) = Len(s) + 1 /\ DOMAIN r = 1..(Len(s) + 1)
      /\ r[1] = Summary /\ \A i \in 2..(Len(s) + 1) : r[i] = s[i - 1]
  <2>1. <<Summary>> \in Seq(Messages) /\ Len(<<Summary>>) = 1 /\ <<Summary>>[1] = Summary
    BY <1>3
  <2> HIDE DEF Messages
  <2>2. /\ r \in Seq(Messages) /\ Len(r) = 1 + Len(s)
        /\ r[1] = Summary /\ \A i \in 1..Len(s) : r[1 + i] = s[i]
    BY <1>2, <2>1
  <2>3. \A i \in 2..(Len(s) + 1) : i - 1 \in 1..Len(s) /\ 1 + (i - 1) = i
    BY <1>2
  <2> QED BY <1>2, <2>2, <2>3
<1> HIDE DEF r
<1>5. \A i \in 2..(Len(s) + 1) : i - 1 \in 1..Len(s)
  BY <1>2
<1>6. \A i \in 1..Len(s) : i + 1 \in 2..(Len(s) + 1) /\ r[i + 1] = s[i]
  <2> TAKE i \in 1..Len(s)
  <2>1. i + 1 \in 2..(Len(s) + 1) /\ (i + 1) - 1 = i
    BY <1>2
  <2> QED BY <1>4, <2>1
<1>7. InOrder(r)
  <2> SUFFICES ASSUME NEW i \in 1..(Len(s) + 1)
               PROVE  /\ \A j \in 1..(i - 1) :
                           r[i].role = "user" /\ r[j].role = "user" => r[j].turn < r[i].turn
                      /\ r[i].role = "assistant" => i > 1 /\ r[i - 1] = User(r[i].turn)
    BY <1>4 DEF InOrder
  <2>1. CASE i = 1
    BY <1>3, <1>4, <2>1
  <2>2. CASE i \in 2..(Len(s) + 1)
    <3>1. r[i] = s[i - 1] /\ i - 1 \in 1..Len(s) /\ r[i] \in Messages
      BY <1>2, <1>4, <1>5, <2>2
    <3>2. ASSUME NEW j \in 1..(i - 1), r[i].role = "user", r[j].role = "user"
          PROVE  r[j].turn < r[i].turn
      <4>1. CASE j = 1
        <5>1. s[1].turn = s[i - 1].turn \/ s[1].turn < s[i - 1].turn
          <6>1. i - 1 = 1 \/ 1 < i - 1
            BY <1>2, <2>2
          <6>2. 1 \in 1..Len(s)
            BY <1>2
          <6> QED BY <1>2, <3>1, <3>2, <6>1, <6>2
        <5>2. s[1].turn \in Nat /\ s[i - 1].turn \in Nat
          BY <1>2, <3>1, MessageFacts
        <5> QED BY <1>3, <1>4, <3>1, <4>1, <5>1, <5>2
      <4>2. CASE j # 1
        <5>1. j \in 2..(Len(s) + 1) /\ j - 1 \in 1..Len(s) /\ j - 1 < i - 1
          BY <1>2, <2>2, <4>2
        <5> QED BY <1>2, <1>4, <3>1, <3>2, <5>1
      <4> QED BY <4>1, <4>2
    <3>3. ASSUME r[i].role = "assistant" PROVE i > 1 /\ r[i - 1] = User(r[i].turn)
      <4>1. i - 1 - 1 \in 1..Len(s) /\ s[i - 1 - 1] = User(r[i].turn)
        BY <1>2, <3>1, <3>3
      <4>2. i - 1 \in 2..(Len(s) + 1) /\ i > 1
        BY <1>2, <2>2, <4>1
      <4> QED BY <1>4, <4>1, <4>2
    <3> QED BY <3>2, <3>3
  <2> QED BY <1>2, <2>1, <2>2
<1>8. /\ Sound(r) /\ r # <<>> /\ r[Len(r)] = h[Len(h)]
  <2>1. Len(r) \in 2..(Len(s) + 1) /\ Len(r) - 1 = Len(s) /\ Len(r) >= 1
    BY <1>2, <1>4
  <2>2. r[Len(r)] = s[Len(s)] /\ r # <<>>
    BY <1>4, <2>1, NonEmpty
  <2> QED BY <1>1, <1>2, <1>4, <1>7, <2>2 DEF Sound
<1>9. \A t : t \in TurnsOf(r) <=> t \in TurnsOf(s) \/ t = 0
  <2>1. TurnsOf(r) = {r[i].turn : i \in 1..(Len(s) + 1)} /\ TurnsOf(s) = {s[i].turn : i \in 1..Len(s)}
    BY <1>2, <1>4 DEF TurnsOf
  <2>2. \A i \in 1..(Len(s) + 1) : r[i].turn = 0 \/ r[i].turn \in TurnsOf(s)
    <3> TAKE i \in 1..(Len(s) + 1)
    <3>1. CASE i = 1
      BY <1>3, <1>4, <3>1
    <3>2. CASE i # 1
      <4>1. i \in 2..(Len(s) + 1)
        BY <1>2, <3>2
      <4> QED BY <1>4, <1>5, <2>1, <4>1
    <3> QED BY <3>1, <3>2
  <2>3. \A i \in 1..Len(s) : i + 1 \in 1..(Len(s) + 1)
    BY <1>2
  <2>4. 0 \in TurnsOf(r)
    <3>1. 1 \in 1..(Len(s) + 1)
      BY <1>2
    <3> QED BY <1>3, <1>4, <2>1, <3>1
  <2> QED BY <1>6, <2>1, <2>2, <2>3, <2>4
<1>10. \A t : Answered(h, t) => Answered(r, t) \/ t \in TurnsOf(h) \ TurnsOf(r)
  <2>1. ASSUME NEW t, Answered(s, t) PROVE Answered(r, t)
    <3>1. PICK i \in 1..(Len(s) - 1) : s[i] = User(t) /\ s[i + 1].role = "assistant"
      BY <2>1 DEF Answered
    <3>2. i \in 1..Len(s) /\ i + 1 \in 1..Len(s) /\ i + 1 \in 1..(Len(r) - 1)
      BY <1>2, <1>4
    <3>3. r[i + 1] = User(t) /\ r[(i + 1) + 1].role = "assistant"
      BY <1>6, <3>1, <3>2
    <3> QED BY <3>2, <3>3 DEF Answered
  <2>2. ASSUME NEW t, Answered(h, t) PROVE t # 0
    <3>1. PICK i \in 1..(Len(h) - 1) : h[i] = User(t) /\ h[i + 1].role = "assistant"
      BY <2>2 DEF Answered
    <3>2. i \in 1..Len(h) /\ h[i] \in Messages
      BY SoundFacts
    <3>3. h[i] # Summary /\ h[i].role = "user"
      BY <1>3, <3>1, UserFacts
    <3>4. h[i].turn \in Turns
      BY <3>2, <3>3, MessageFacts
    <3> QED BY <3>1, <3>4, UserFacts DEF Turns
  <2> QED BY <1>1, <1>9, <2>1, <2>2
<1>11. Sealed(s) => Sealed(r)
  <2> HAVE Sealed(s)
  <2> SUFFICES ASSUME NEW i \in 1..(Len(s) + 1), r[i].kind = "marker" PROVE r[i].turn \in cut
    BY <1>4 DEF Sealed
  <2>1. i # 1
    BY <1>3, <1>4
  <2>2. i \in 2..(Len(s) + 1)
    BY <1>2, <2>1
  <2> QED BY <1>2, <1>4, <1>5, <2>2 DEF Sealed
<1>12. Shortens(h, r)
  <2>1. TurnsOf(r) \subseteq TurnsOf(h) \cup {0}
    BY <1>1, <1>9
  <2>2. \A t \in TurnsOf(h) : t \in TurnsOf(r) \/ \E u \in TurnsOf(r) : t < u
    BY <1>1, <1>9
  <2> QED BY <1>1, <1>8, <1>10, <1>11, <2>1, <2>2 DEF Shortens
<1> QED BY <1>12 DEF r

\* Compaction keeps the last KeepTurns turns as they are.
LEMMA CompactShortens ==
  ASSUME NEW h, Sound(h)
  PROVE  Shortens(h, Compact(h))
<1>0. Len(h) \in Nat /\ DOMAIN h = 1..Len(h)
  BY SoundFacts
<1>1. CASE Cardinality(Users(h)) <= KeepTurns
  BY <1>1, ShortensSame DEF Compact
<1>2. CASE ~(Cardinality(Users(h)) <= KeepTurns)
  <2> DEFINE From(i) == Cardinality({j \in Users(h) : j >= i}) = KeepTurns
             i == CHOOSE i \in Users(h) : From(i)
  <2>1. /\ Users(h) \subseteq 1..Len(h) /\ KeepTurns \in Nat \ {0}
        /\ \A j \in Users(h) : h[j].role = "user"
    BY <1>0, LoopAssumption DEF Users
  <2>2. Cardinality(Users(h)) \in Nat
    <3>1. IsFiniteSet(1..Len(h))
      BY <1>0, FS_Interval
    <3>2. IsFiniteSet(Users(h))
      BY <2>1, <3>1, FS_Subset
    <3> QED BY <3>2, FS_CardinalityType
  <2>3. \E k \in Users(h) : From(k)
    <3>1. Users(h) \in SUBSET (1..Len(h)) /\ KeepTurns <= Cardinality(Users(h))
      BY <1>2, <2>1, <2>2
    <3> QED BY <1>0, <2>1, <3>1, KthLast
  <2>4. i \in Users(h) /\ From(i)
    BY <2>3
  <2>5. Compact(h) = <<Summary>> \o SubSeq(h, i, Len(h))
    BY <1>2 DEF Compact
  <2> HIDE DEF i, From
  <2>6. i # 1
    <3> SUFFICES ASSUME i = 1 PROVE FALSE
      OBVIOUS
    <3>0. \A j \in Users(h) : j >= 1
      BY <1>0, <2>1
    <3>1. {j \in Users(h) : j >= 1} = Users(h)
      <4> DEFINE W == {j \in Users(h) : j >= 1}
      <4>1. \A j : j \in W <=> j \in Users(h)
        BY <3>0
      <4> HIDE DEF W
      <4>2. W = Users(h)
        BY <4>1
      <4> QED BY <4>2 DEF W
    <3>2. From(1)
      BY <2>4 DEF From
    <3>3. Cardinality(Users(h)) = KeepTurns
      BY <3>1, <3>2 DEF From
    <3> QED BY <1>2, <2>1, <2>2, <3>3
  <2>7. /\ i - 1 \in 0..(Len(h) - 1) /\ (i - 1) + 1 = i /\ i \in 1..Len(h) /\ 1 < i
        /\ h[i].role = "user"
    BY <1>0, <2>1, <2>4, <2>6
  <2>8. PICK s : s = SubSeq(h, i, Len(h))
    OBVIOUS
  <2>9. Shortens(h, s) /\ Sound(s) /\ Len(s) = Len(h) - (i - 1) /\ s[1] = h[i]
    BY <2>7, <2>8, SuffixFacts
  <2>10. s # <<>> /\ h # <<>>
    <3>1. Len(s) >= 1 /\ Len(h) >= 1
      BY <1>0, <2>7, <2>9
    <3> QED BY <3>1, NonEmpty
  <2>11. h[i].turn > 0
    <3>1. 1 \in 1..Len(h) /\ h[1].role = "user"
      BY <1>0, <2>7, <2>10, SoundFacts
    <3>2. h[1].turn < h[i].turn
      BY <2>7, <3>1, SoundFacts
    <3>3. h[1].turn \in Nat /\ h[i].turn \in Nat
      BY <2>7, <3>1, SoundFacts, MessageFacts
    <3> QED BY <3>2, <3>3
  <2> QED BY <2>5, <2>7, <2>8, <2>9, <2>10, <2>11, SummaryShortens
<1> QED BY <1>1, <1>2


-----------------------------------------------------------------------------
(* Adding to a history *)

\* One more message.
LEMMA AppendFacts ==
  ASSUME NEW h \in Seq(Messages), NEW m \in Messages
  PROVE  /\ Append(h, m) \in Seq(Messages)
         /\ Len(Append(h, m)) = Len(h) + 1 /\ DOMAIN Append(h, m) = 1..(Len(h) + 1)
         /\ \A i \in 1..Len(h) : Append(h, m)[i] = h[i]
         /\ Append(h, m)[Len(h) + 1] = m
         /\ Len(h) \in Nat /\ Append(h, m) # <<>>
<1> HIDE DEF Messages
<1> QED OBVIOUS

\* What an added message, in its place, leaves of a history.
LEMMA Extends ==
  ASSUME NEW h, Sound(h), NEW m \in Messages, m # Summary,
         m.role = "user" => \A t \in TurnsOf(h) : t < m.turn,
         m.role = "assistant" => Awaits(h, m.turn)
  PROVE  /\ Sound(Append(h, m)) /\ Append(h, m) # <<>>
         /\ Append(h, m)[Len(Append(h, m))] = m
         /\ \A t : t \in TurnsOf(Append(h, m)) <=> t \in TurnsOf(h) \/ t = m.turn
         /\ \A t : Answered(h, t) => Answered(Append(h, m), t)
         /\ m.role = "assistant" => Answered(Append(h, m), m.turn)
         /\ Sealed(h) /\ (m.kind = "marker" => m.turn \in cut) => Sealed(Append(h, m))
<1>1. PICK r : r = Append(h, m)
  OBVIOUS
<1>2. /\ h \in Seq(Messages) /\ Len(h) \in Nat /\ DOMAIN h = 1..Len(h)
      /\ \A i \in 1..Len(h), j \in 1..Len(h) :
           j < i /\ h[i].role = "user" /\ h[j].role = "user" => h[j].turn < h[i].turn
      /\ \A i \in 1..Len(h) :
           h[i].role = "assistant" => i - 1 \in 1..Len(h) /\ h[i - 1] = User(h[i].turn)
  BY SoundFacts
<1>3. /\ r \in Seq(Messages) /\ Len(r) = Len(h) + 1 /\ DOMAIN r = 1..(Len(h) + 1)
      /\ \A i \in 1..Len(h) : r[i] = h[i]
      /\ r[Len(h) + 1] = m /\ r # <<>>
  BY <1>1, <1>2, AppendFacts
<1> HIDE <1>1
<1>4. \A t : t \in TurnsOf(h) <=> \E i \in 1..Len(h) : h[i].turn = t
  BY <1>2 DEF TurnsOf
<1>5. \A i \in 1..(Len(h) + 1) : i \in 1..Len(h) \/ i = Len(h) + 1
  BY <1>2
<1>6. ASSUME m.role = "assistant"
      PROVE  Len(h) \in 1..Len(h) /\ h[Len(h)] = User(m.turn)
  <2>1. h # <<>> /\ h[Len(h)] = User(m.turn)
    BY <1>6 DEF Awaits
  <2>2. Len(h) >= 1
    BY <2>1, SoundFacts
  <2> QED BY <1>2, <2>1, <2>2
<1>7. InOrder(r)
  <2> SUFFICES ASSUME NEW i \in 1..(Len(h) + 1)
               PROVE  /\ \A j \in 1..(i - 1) :
                           r[i].role = "user" /\ r[j].role = "user" => r[j].turn < r[i].turn
                      /\ r[i].role = "assistant" => i > 1 /\ r[i - 1] = User(r[i].turn)
    BY <1>3 DEF InOrder
  <2>1. CASE i \in 1..Len(h)
    <3>1. \A j \in 1..(i - 1) : j \in 1..Len(h) /\ j < i
      BY <1>2
    <3>2. i - 1 \in 1..Len(h) => i > 1
      BY <1>2
    <3> QED BY <1>2, <1>3, <2>1, <3>1, <3>2
  <2>2. CASE i = Len(h) + 1
    <3>1. ASSUME NEW j \in 1..(i - 1), m.role = "user" PROVE r[j].turn < r[i].turn
      <4>1. j \in 1..Len(h)
        BY <1>2, <2>2
      <4> QED BY <1>3, <1>4, <2>2, <3>1, <4>1
    <3>2. ASSUME m.role = "assistant" PROVE i > 1 /\ r[i - 1] = User(r[i].turn)
      <4>1. Len(h) \in 1..Len(h) /\ h[Len(h)] = User(m.turn)
        BY <1>6, <3>2
      <4>2. i - 1 = Len(h) /\ i > 1
        BY <1>2, <2>2, <4>1
      <4> QED BY <1>3, <2>2, <4>1, <4>2
    <3> QED BY <1>3, <2>2, <3>1, <3>2
  <2> QED BY <1>5, <2>1, <2>2
<1>8. Sound(r) /\ r[Len(r)] = m
  BY <1>3, <1>7 DEF Sound
<1>9. \A t : t \in TurnsOf(r) <=> t \in TurnsOf(h) \/ t = m.turn
  <2>1. \A t : t \in TurnsOf(r) <=> \E i \in 1..(Len(h) + 1) : r[i].turn = t
    BY <1>3 DEF TurnsOf
  <2>2. Len(h) + 1 \in 1..(Len(h) + 1) /\ \A i \in 1..Len(h) : i \in 1..(Len(h) + 1)
    BY <1>2
  <2> QED BY <1>3, <1>4, <1>5, <2>1, <2>2
<1>10. \A t : Answered(h, t) => Answered(r, t)
  <2> TAKE t
  <2> HAVE Answered(h, t)
  <2>1. PICK i \in 1..(Len(h) - 1) : h[i] = User(t) /\ h[i + 1].role = "assistant"
    BY DEF Answered
  <2>2. i \in 1..Len(h) /\ i + 1 \in 1..Len(h) /\ i \in 1..(Len(r) - 1)
    BY <1>2, <1>3
  <2> QED BY <1>3, <2>1, <2>2 DEF Answered
<1>11. m.role = "assistant" => Answered(r, m.turn)
  <2> HAVE m.role = "assistant"
  <2>1. Len(h) \in 1..Len(h) /\ h[Len(h)] = User(m.turn)
    BY <1>6
  <2>2. Len(h) \in 1..(Len(r) - 1)
    BY <1>2, <1>3, <2>1
  <2> QED BY <1>3, <2>1, <2>2 DEF Answered
<1>12. Sealed(h) /\ (m.kind = "marker" => m.turn \in cut) => Sealed(r)
  BY <1>2, <1>3, <1>5 DEF Sealed
<1>13. /\ Sound(r) /\ r # <<>> /\ r[Len(r)] = m
       /\ \A t : t \in TurnsOf(r) <=> t \in TurnsOf(h) \/ t = m.turn
       /\ \A t : Answered(h, t) => Answered(r, t)
       /\ m.role = "assistant" => Answered(r, m.turn)
       /\ Sealed(h) /\ (m.kind = "marker" => m.turn \in cut) => Sealed(r)
  BY <1>3, <1>8, <1>9, <1>10, <1>11, <1>12
<1> USE <1>1
<1> QED BY <1>1, <1>13


-----------------------------------------------------------------------------
(* Tool results and saves *)

\* The proofs are about steps: what an action does is always visible.
USE DEF vars, toolVars, dataVars, pcVars, ghostVars, Running, Goto, Save, Load,
        StartTurn, PrepareLive, Rebuild, PrepareFails, TrimHistory, WriteAhead,
        StreamReply, SaveReply, StreamCalls, StreamFails, CallAnswered, CallWaits,
        ResultArrives, WaitEnds, FailTurn, FinishTurn, PostResult, Reap, Evict,
        Crash, Adopt, Forget, ForgetResults, ClearResults

\* The calls of a message that are left.
LEMMA CallsLeft ==
  ASSUME calls \in Seq(CallIds), calls # <<>>
  PROVE  /\ Call \in CallIds /\ Tail(calls) \in Seq(CallIds)
         /\ Len(calls) > 1 => Tail(calls) # <<>>
<1>1. Head(calls) \in CallIds /\ Tail(calls) \in Seq(CallIds)
      /\ Len(Tail(calls)) = Len(calls) - 1
  BY HeadTailProperties
<1>2. Len(calls) > 1 => Len(Tail(calls)) # 0
  BY <1>1, LenProperties
<1>3. QED BY <1>1, <1>2, EmptySeq DEF Call

\* Counters, calls and results keep their types.
LEMMA LoopTypesStep ==
  ASSUME LoopInv, [Next]_vars
  PROVE  LoopTypes'
  <1> USE LoopAssumption, ToolAssumption DEF LoopInv, LoopTypes, ToolTypes, Results, Turns
  <1>1. CASE LoopStep
    <2>1. CASE PrepareLive BY <2>1
    <2>2. CASE Rebuild BY <2>2
    <2>3. CASE PrepareFails BY <2>3
    <2>4. CASE TrimHistory BY <2>4
    <2>5. CASE WriteAhead BY <2>5
    <2>6. CASE SaveReply BY <2>6
    <2>7. CASE StreamFails BY <2>7
    <2>8. CASE CallAnswered
      <3>1. strays' \subseteq [call : CallIds, during : 0..MaxTurns, turn : 1..MaxTurns]
            /\ pending' \subseteq Results
        BY <2>8 DEF TakeParked, Take
      <3>2. calls' = Tail(calls) /\ (pc' \in {"call", "wait"} => Len(calls) > 1)
            /\ turn' = turn /\ (Running' => turn > 0)
        BY <2>8 DEF NextCall
      <3>3. QED BY <2>8, <3>1, <3>2, CallsLeft DEF TakeParked
    <2>9. CASE CallWaits
      BY <2>9, CallsLeft DEF AwaitResult
    <2>10. CASE ResultArrives
      <3>1. strays' \subseteq [call : CallIds, during : 0..MaxTurns, turn : 1..MaxTurns]
        BY <2>10 DEF ReceiveResult, Take
      <3>2. calls' = Tail(calls) /\ (pc' \in {"call", "wait"} => Len(calls) > 1)
            /\ turn' = turn /\ (Running' => turn > 0)
        BY <2>10 DEF NextCall
      <3>3. QED BY <2>10, <3>1, <3>2, CallsLeft DEF ReceiveResult
    <2>11. CASE WaitEnds
      <3>1. calls' = Tail(calls) /\ (pc' \in {"call", "wait"} => Len(calls) > 1)
            /\ turn' = turn /\ (Running' => turn > 0)
        BY <2>11 DEF NextCall
      <3>2. QED BY <2>11, <3>1, CallsLeft DEF GiveUp
    <2>12. CASE FailTurn BY <2>12
    <2>13. CASE FinishTurn BY <2>13
    <2>14. ASSUME NEW o \in BOOLEAN, StreamReply(o) PROVE LoopTypes'
      BY <2>14
    <2>15. ASSUME NEW cs \in CallLists, StreamCalls(cs) PROVE LoopTypes'
      BY <2>15 DEF CallLists
    <2>16. QED
      BY <1>1, <2>1, <2>2, <2>3, <2>4, <2>5, <2>6, <2>7, <2>8, <2>9, <2>10, <2>11,
         <2>12, <2>13, <2>14, <2>15 DEF LoopStep
  <1>2. ASSUME NEW c \in CallIds, PostResult(c) PROVE LoopTypes'
    BY <1>2 DEF AddToolResult, Parked
  <1>3. CASE StartTurn BY <1>3
  <1>4. CASE Reap BY <1>4
  <1>5. CASE Evict BY <1>5
  <1>6. CASE Crash BY <1>6
  <1>7. CASE Adopt BY <1>7
  <1>8. CASE UNCHANGED vars BY <1>8 DEF Parked
  <1>9. QED BY <1>1, <1>2, <1>3, <1>4, <1>5, <1>6, <1>7, <1>8 DEF Next

\* A waiter is registered only while its call is waited for.
LEMMA WaiterIsLiveStep ==
  ASSUME LoopInv, [Next]_vars
  PROVE  WaiterIsLive'
  <1> USE LoopAssumption, ToolAssumption DEF LoopInv, WaiterIsLive, LoopTypes
  <1>1. CASE LoopStep
    <2>1. CASE PrepareLive BY <2>1
    <2>2. CASE Rebuild BY <2>2
    <2>3. CASE PrepareFails BY <2>3
    <2>4. CASE TrimHistory BY <2>4
    <2>5. CASE WriteAhead BY <2>5
    <2>6. CASE SaveReply BY <2>6
    <2>7. CASE StreamFails BY <2>7
    <2>8. CASE CallAnswered
      BY <2>8 DEF NextCall, TakeParked, Take
    <2>9. CASE CallWaits
      BY <2>9 DEF AwaitResult, Parked, Call
    <2>10. CASE ResultArrives
      BY <2>10 DEF NextCall, ReceiveResult, Take
    <2>11. CASE WaitEnds
      BY <2>11 DEF NextCall, GiveUp
    <2>12. CASE FailTurn BY <2>12
    <2>13. CASE FinishTurn BY <2>13
    <2>14. ASSUME NEW o \in BOOLEAN, StreamReply(o) PROVE WaiterIsLive'
      BY <2>14
    <2>15. ASSUME NEW cs \in CallLists, StreamCalls(cs) PROVE WaiterIsLive'
      BY <2>15 DEF CallLists
    <2>16. QED
      BY <1>1, <2>1, <2>2, <2>3, <2>4, <2>5, <2>6, <2>7, <2>8, <2>9, <2>10, <2>11,
         <2>12, <2>13, <2>14, <2>15 DEF LoopStep
  <1>2. ASSUME NEW c \in CallIds, PostResult(c) PROVE WaiterIsLive'
    <2>1. CASE c \in waiters
      <3>1. pc = "wait" /\ waiters = {Call} /\ c = Call
        BY <2>1
      <3>2. waiters' = {} /\ pc' = "wait"
        BY <1>2, <2>1, <3>1 DEF AddToolResult
      <3>3. QED BY <3>2
    <2>2. CASE c \notin waiters
      <3>1. waiters' = waiters /\ slot' = slot /\ pc' = pc /\ Call' = Call
            /\ pending' \subseteq pending \cup {[call |-> c, during |-> IF Running THEN turn ELSE 0]}
        BY <1>2, <2>2 DEF AddToolResult, Call
      <3>2. Parked(Call)' => Parked(Call) \/ c = Call
        BY <3>1 DEF Parked
      <3>3. QED BY <2>2, <3>1, <3>2
    <2>3. QED BY <2>1, <2>2
  <1>3. CASE StartTurn BY <1>3
  <1>4. CASE Reap BY <1>4
  <1>5. CASE Evict BY <1>5
  <1>6. CASE Crash BY <1>6
  <1>7. CASE Adopt BY <1>7
  <1>8. CASE UNCHANGED vars BY <1>8 DEF Parked, Call
  <1>9. QED BY <1>1, <1>2, <1>3, <1>4, <1>5, <1>6, <1>7, <1>8 DEF Next

\* No result of an earlier turn is left.
LEMMA ResultsOfTurnStep ==
  ASSUME LoopInv, [Next]_vars
  PROVE  ResultsOfTurn'
  <1> USE LoopAssumption, ToolAssumption DEF LoopInv, LoopTypes, ToolTypes, Results, WaiterIsLive, ResultsOfTurn
  <1>1. CASE LoopStep
    <2>1. CASE PrepareLive BY <2>1
    <2>2. CASE Rebuild BY <2>2
    <2>3. CASE PrepareFails BY <2>3
    <2>4. CASE TrimHistory BY <2>4
    <2>5. CASE WriteAhead BY <2>5
    <2>6. CASE SaveReply BY <2>6
    <2>7. CASE StreamFails BY <2>7
    <2>8. CASE CallAnswered
      BY <2>8 DEF NextCall, TakeParked, Take
    <2>9. CASE CallWaits
      BY <2>9 DEF AwaitResult, Parked
    <2>10. CASE ResultArrives
      BY <2>10 DEF NextCall, ReceiveResult, Take
    <2>11. CASE WaitEnds
      BY <2>11 DEF NextCall, GiveUp
    <2>12. CASE FailTurn BY <2>12
    <2>13. CASE FinishTurn BY <2>13
    <2>14. ASSUME NEW o \in BOOLEAN, StreamReply(o) PROVE ResultsOfTurn'
      BY <2>14
    <2>15. ASSUME NEW cs \in CallLists, StreamCalls(cs) PROVE ResultsOfTurn'
      BY <2>15 DEF CallLists
    <2>16. QED
      BY <1>1, <2>1, <2>2, <2>3, <2>4, <2>5, <2>6, <2>7, <2>8, <2>9, <2>10, <2>11,
         <2>12, <2>13, <2>14, <2>15 DEF LoopStep
  <1>2. ASSUME NEW c \in CallIds, PostResult(c) PROVE ResultsOfTurn'
    BY <1>2 DEF AddToolResult, Parked
  <1>3. CASE StartTurn BY <1>3
  <1>4. CASE Reap BY <1>4
  <1>5. CASE Evict BY <1>5
  <1>6. CASE Crash BY <1>6
  <1>7. CASE Adopt BY <1>7
  <1>8. CASE UNCHANGED vars BY <1>8 DEF Parked
  <1>9. QED BY <1>1, <1>2, <1>3, <1>4, <1>5, <1>6, <1>7, <1>8 DEF Next

\* Nothing taken came in another turn.
LEMMA ResultsStayInTurnStep ==
  ASSUME LoopInv, [Next]_vars
  PROVE  ResultsStayInTurn'
  <1> USE LoopAssumption, ToolAssumption DEF LoopInv, LoopTypes, ToolTypes, Results, WaiterIsLive, ResultsOfTurn, ResultsStayInTurn
  <1>1. CASE LoopStep
    <2>1. CASE PrepareLive BY <2>1
    <2>2. CASE Rebuild BY <2>2
    <2>3. CASE PrepareFails BY <2>3
    <2>4. CASE TrimHistory BY <2>4
    <2>5. CASE WriteAhead BY <2>5
    <2>6. CASE SaveReply BY <2>6
    <2>7. CASE StreamFails BY <2>7
    <2>8. CASE CallAnswered
      BY <2>8 DEF NextCall, TakeParked, Take
    <2>9. CASE CallWaits
      BY <2>9 DEF AwaitResult, Parked
    <2>10. CASE ResultArrives
      BY <2>10 DEF NextCall, ReceiveResult, Take
    <2>11. CASE WaitEnds
      BY <2>11 DEF NextCall, GiveUp
    <2>12. CASE FailTurn BY <2>12
    <2>13. CASE FinishTurn BY <2>13
    <2>14. ASSUME NEW o \in BOOLEAN, StreamReply(o) PROVE ResultsStayInTurn'
      BY <2>14
    <2>15. ASSUME NEW cs \in CallLists, StreamCalls(cs) PROVE ResultsStayInTurn'
      BY <2>15 DEF CallLists
    <2>16. QED
      BY <1>1, <2>1, <2>2, <2>3, <2>4, <2>5, <2>6, <2>7, <2>8, <2>9, <2>10, <2>11,
         <2>12, <2>13, <2>14, <2>15 DEF LoopStep
  <1>2. ASSUME NEW c \in CallIds, PostResult(c) PROVE ResultsStayInTurn'
    BY <1>2 DEF AddToolResult, Parked
  <1>3. CASE StartTurn BY <1>3
  <1>4. CASE Reap BY <1>4
  <1>5. CASE Evict BY <1>5
  <1>6. CASE Crash BY <1>6
  <1>7. CASE Adopt BY <1>7
  <1>8. CASE UNCHANGED vars BY <1>8 DEF Parked
  <1>9. QED BY <1>1, <1>2, <1>3, <1>4, <1>5, <1>6, <1>7, <1>8 DEF Next

\* Every change of the history is saved before the turn goes on.
LEMMA SavedBetweenStep ==
  ASSUME LoopInv, [Next]_vars
  PROVE  SavedBetween'
  <1> USE LoopAssumption, ToolAssumption DEF LoopInv, LoopTypes, SavedBetween
  <1>1. CASE LoopStep
    <2>1. CASE PrepareLive BY <2>1
    <2>2. CASE Rebuild BY <2>2
    <2>3. CASE PrepareFails BY <2>3
    <2>4. CASE TrimHistory BY <2>4
    <2>5. CASE WriteAhead BY <2>5
    <2>6. CASE SaveReply BY <2>6
    <2>7. CASE StreamFails BY <2>7
    <2>8. CASE CallAnswered
      BY <2>8 DEF NextCall, TakeParked, Take
    <2>9. CASE CallWaits
      BY <2>9 DEF AwaitResult, Parked
    <2>10. CASE ResultArrives
      BY <2>10 DEF NextCall, ReceiveResult, Take
    <2>11. CASE WaitEnds
      BY <2>11 DEF NextCall, GiveUp
    <2>12. CASE FailTurn BY <2>12
    <2>13. CASE FinishTurn BY <2>13
    <2>14. ASSUME NEW o \in BOOLEAN, StreamReply(o) PROVE SavedBetween'
      BY <2>14
    <2>15. ASSUME NEW cs \in CallLists, StreamCalls(cs) PROVE SavedBetween'
      BY <2>15 DEF CallLists
    <2>16. QED
      BY <1>1, <2>1, <2>2, <2>3, <2>4, <2>5, <2>6, <2>7, <2>8, <2>9, <2>10, <2>11,
         <2>12, <2>13, <2>14, <2>15 DEF LoopStep
  <1>2. ASSUME NEW c \in CallIds, PostResult(c) PROVE SavedBetween'
    BY <1>2 DEF AddToolResult, Parked
  <1>3. CASE StartTurn BY <1>3
  <1>4. CASE Reap BY <1>4
  <1>5. CASE Evict BY <1>5
  <1>6. CASE Crash BY <1>6
  <1>7. CASE Adopt BY <1>7
  <1>8. CASE UNCHANGED vars BY <1>8 DEF Parked
  <1>9. QED BY <1>1, <1>2, <1>3, <1>4, <1>5, <1>6, <1>7, <1>8 DEF Next
-----------------------------------------------------------------------------
(* The theorems *)

\* LoopInv is an invariant: the parts above, put together.
THEOREM LoopInvariance == Spec => []LoopInv
  <1>1. Init => LoopInv
    BY LoopAssumption, ToolAssumption
    DEF Init, ToolInit, LoopInv, LoopTypes, ToolTypes, Results, WaiterIsLive,
        ResultsOfTurn, ResultsStayInTurn, SavedBetween
  <1>2. LoopInv /\ [Next]_vars => LoopInv'
    BY LoopTypesStep, WaiterIsLiveStep, ResultsOfTurnStep, ResultsStayInTurnStep,
       SavedBetweenStep DEF LoopInv
  <1>3. QED BY <1>1, <1>2, PTL DEF Spec

\* However results, timeouts and cancels race, a waiter is registered only while
\* the loop waits for its call (WaitToolResult, AddToolResult).
THEOREM WaitersLive == Spec => []WaiterIsLive
  <1>1. LoopInv => WaiterIsLive
    BY DEF LoopInv
  <1>2. QED BY <1>1, LoopInvariance, PTL

\* For any number of turns and calls that share ids, no turn consumes what was
\* reported during another (finishTurn).
THEOREM ResultsKeepTheirTurn == Spec => []ResultsStayInTurn
  <1>1. LoopInv => ResultsStayInTurn
    BY DEF LoopInv
  <1>2. QED BY <1>1, LoopInvariance, PTL

\* Whatever trimming and compaction do: if no save failed, an idle session may
\* be reaped, evicted or crash without loss (saveHistory).
THEOREM IdleIsSaved == Spec => []SavedWhenIdle
  <1>1. LoopInv => SavedWhenIdle
    BY DEF LoopInv, SavedBetween, SavedWhenIdle
  <1>2. QED BY <1>1, LoopInvariance, PTL

\* A reported result goes to the call of its own turn that waits for it, or to
\* none (WaitToolResult, AddToolResult, finishTurn).
THEOREM ResultsMeetTheirCall == Spec => []ResultsFindTheirCall
  <1>1. WaiterIsLive /\ ResultsStayInTurn => ResultsFindTheirCall
    BY DEF ResultsFindTheirCall
  <1>2. QED BY <1>1, WaitersLive, ResultsKeepTheirTurn, PTL

-----------------------------------------------------------------------------
(* The history, step by step *)

\* Types that the steps below rest on.
LEMMA CounterFacts ==
  ASSUME LoopInv
  PROVE  /\ turn \in Nat /\ fails \in Nat /\ turn \in 0..MaxTurns /\ MaxTurns \in Nat
         /\ (Running => turn \in Turns)
         /\ fails = 0 /\ pc \notin {"save", "cold"} => stored = history
BY LoopAssumption, ToolAssumption DEF LoopInv, LoopTypes, Turns, SavedBetween

\* A step that leaves the histories alone.
LEMMA QuietKeeps ==
  ASSUME HistoryInv, UNCHANGED <<history, stored, asked, dropped, cut, turn, fails>>,
         pc' = pc \/ (Asking /\ Asking') \/ (pc = "finish" /\ pc' = "idle")
  PROVE  HistoryInv'
<1>1. Sound(history)' /\ Sound(stored)' /\ LatestTurnKept'
  BY DEF HistoryInv, LatestTurnKept
<1>2. /\ Asking' <=> Asking
      /\ pc' \in {"prepare", "trim", "ahead"} => pc \in {"prepare", "trim", "ahead"}
      /\ (Asking' \/ pc' = "save") <=> (Asking \/ pc = "save")
      /\ pc' = "cold" <=> pc = "cold"
  BY DEF Asking
<1>3. Asked'
  <2>1. pc' = "save" => pc = "save"
    BY <1>2 DEF Asking
  <2>2. /\ TurnsOf(history)' = TurnsOf(history) /\ TurnsOf(stored)' = TurnsOf(stored)
        /\ Awaits(history, turn)' <=> Awaits(history, turn)
        /\ Dangling(history)' <=> Dangling(history)
    BY DEF TurnsOf, Awaits, Dangling
  <2> QED BY <1>2, <2>1, <2>2 DEF HistoryInv, Asked
<1>4. Accounted'
  BY <1>2 DEF HistoryInv, Accounted, Awaits, Answered
<1>5. CutOff'
  BY <1>2 DEF HistoryInv, CutOff, Sealed, Dangling
<1> QED BY <1>1, <1>3, <1>4, <1>5 DEF HistoryInv

\* A turn begins.
LEMMA StartKeeps ==
  ASSUME LoopInv, HistoryInv, StartTurn
  PROVE  HistoryInv'
<1>0. pc = "idle" /\ pc' = "prepare" /\ turn' = turn + 1
      /\ UNCHANGED <<history, stored, asked, dropped, cut, fails>>
  OBVIOUS
<1>1. Sound(history)' /\ Sound(stored)' /\ LatestTurnKept'
  BY <1>0 DEF HistoryInv, LatestTurnKept
<1>2. ~Asking /\ ~Asking'
  BY <1>0 DEF Asking
<1>3. Asked'
  <2>1. asked \subseteq 1..turn /\ turn \in Nat
    BY CounterFacts DEF HistoryInv, Asked
  <2>2. asked' \subseteq 1..turn' /\ turn' \notin asked'
    BY <1>0, <2>1
  <2> QED BY <1>0, <1>2, <2>2 DEF HistoryInv, Asked, TurnsOf
<1>4. Accounted'
  BY <1>0, <1>2 DEF HistoryInv, Accounted, Awaits, Answered
<1>5. CutOff'
  BY <1>0, <1>2 DEF HistoryInv, CutOff, Sealed, Dangling
<1> QED BY <1>1, <1>3, <1>4, <1>5 DEF HistoryInv

\* The turn finds its history: it has it, or reads it from S3.
LEMMA LoadKeeps ==
  ASSUME LoopInv, HistoryInv, PrepareLive \/ Rebuild
  PROVE  HistoryInv'
<1>0. /\ pc = "prepare" /\ pc' = "trim" /\ history' \in {history, stored}
      /\ UNCHANGED <<stored, asked, dropped, cut, turn, fails>>
  OBVIOUS
<1>1. Sound(history)' /\ Sound(stored)' /\ LatestTurnKept'
  BY <1>0 DEF HistoryInv, LatestTurnKept
<1>2. ~Asking /\ ~Asking' /\ (fails = 0 => history' = history)
  BY <1>0, CounterFacts DEF Asking
<1>3. Asked'
  BY <1>0, <1>2 DEF HistoryInv, Asked, TurnsOf
<1>4. Accounted'
  BY <1>0, <1>2 DEF HistoryInv, Accounted, Awaits, Answered
<1>5. CutOff'
  BY <1>0, <1>2 DEF HistoryInv, CutOff, Sealed, Dangling
<1> QED BY <1>1, <1>3, <1>4, <1>5 DEF HistoryInv

\* The sandbox cannot be built.
LEMMA PrepareFailsKeeps ==
  ASSUME LoopInv, HistoryInv, PrepareFails
  PROVE  HistoryInv'
<1>0. /\ pc = "prepare" /\ pc' = "finish" /\ fails' # 0
      /\ UNCHANGED <<history, stored, asked, dropped, cut, turn>>
  BY CounterFacts
<1>1. Sound(history)' /\ Sound(stored)' /\ LatestTurnKept'
  BY <1>0 DEF HistoryInv, LatestTurnKept
<1>2. Asked'
  BY <1>0 DEF HistoryInv, Asked, TurnsOf, Asking
<1> QED BY <1>0, <1>1, <1>2 DEF HistoryInv, Accounted, CutOff

\* What is cut from a history goes to dropped, and something newer stays.
LEMMA DropKeeps ==
  ASSUME HistoryInv, asked \subseteq Nat \ {0}, NEW h, NEW g, Shortens(h, g),
         TurnsOf(h) \subseteq asked \cup {0},
         asked' = asked, dropped' = dropped \cup (TurnsOf(h) \ TurnsOf(g))
  PROVE  /\ Sound(g) /\ TurnsOf(g) \subseteq asked \cup {0} /\ LatestTurnKept'
         /\ \A t : Answered(h, t) => Answered(g, t) \/ t \in dropped'
<1>1. /\ Sound(g) /\ TurnsOf(g) \subseteq TurnsOf(h) \cup {0}
      /\ \A t \in TurnsOf(h) : t \in TurnsOf(g) \/ \E u \in TurnsOf(g) : t < u
      /\ \A t : Answered(h, t) => Answered(g, t) \/ t \in TurnsOf(h) \ TurnsOf(g)
  BY DEF Shortens
<1>2. TurnsOf(g) \subseteq asked \cup {0}
  BY <1>1
<1>3. ASSUME NEW t \in asked', t \in dropped' PROVE \E u \in asked' : u > t
  <2>1. CASE t \in dropped
    BY <1>3, <2>1 DEF HistoryInv, LatestTurnKept
  <2>2. CASE t \in TurnsOf(h) \ TurnsOf(g)
    <3>1. PICK u \in TurnsOf(g) : t < u
      BY <1>1, <2>2
    <3>2. u # 0 /\ u \in asked
      BY <1>2, <1>3, <3>1
    <3>3. u > t
      BY <1>3, <3>1, <3>2
    <3> QED BY <3>2, <3>3
  <2> QED BY <1>3, <2>1, <2>2
<1>4. \A t : Answered(h, t) => Answered(g, t) \/ t \in dropped'
  BY <1>1
<1> QED BY <1>1, <1>2, <1>3, <1>4 DEF LatestTurnKept

\* The history is trimmed to the window.
LEMMA TrimKeeps ==
  ASSUME LoopInv, HistoryInv, TrimHistory
  PROVE  HistoryInv'
<1>0. /\ pc = "trim" /\ pc' = "ahead" /\ history' = Trim(history)
      /\ dropped' = dropped \cup (TurnsOf(history) \ TurnsOf(history'))
      /\ UNCHANGED <<asked, cut, turn>>
      /\ stored' \in {stored, history'}
      /\ fails' = 0 => fails = 0 /\ stored' = history'
  <2>1. /\ fails \in Nat /\ (fails = 0 /\ pc = "trim" => stored = history)
    BY CounterFacts
  <2> QED BY <2>1
<1>1. asked \subseteq Nat \ {0} /\ TurnsOf(history) \subseteq asked \cup {0}
  BY CounterFacts DEF HistoryInv, Asked
<1>2. Shortens(history, history')
  BY <1>0, TrimFacts DEF HistoryInv
<1>3. /\ Sound(history') /\ TurnsOf(history') \subseteq asked \cup {0} /\ LatestTurnKept'
      /\ \A t : Answered(history, t) => Answered(history', t) \/ t \in dropped'
  BY <1>0, <1>1, <1>2, DropKeeps
<1>4. ~Asking /\ ~Asking'
  BY <1>0 DEF Asking
<1>5. Asked'
  <2>1. TurnsOf(history)' = TurnsOf(history') /\ TurnsOf(stored)' = TurnsOf(stored')
    BY DEF TurnsOf
  <2>2. TurnsOf(stored') \subseteq asked \cup {0}
    BY <1>0, <1>3 DEF HistoryInv, Asked
  <2>3. dropped \subseteq asked \cup {0}
    BY DEF HistoryInv, Asked
  <2>4. dropped' \subseteq asked \cup {0}
    BY <1>0, <1>1, <2>3
  <2> QED BY <1>0, <1>3, <1>4, <2>1, <2>2, <2>4 DEF HistoryInv, Asked
<1>6. Accounted'
  <2> SUFFICES ASSUME fails' = 0, NEW t \in asked'
               PROVE  Answered(history', t) \/ t \in dropped'
    BY <1>0, <1>4 DEF Accounted, Answered
  <2>1. Answered(history, t) \/ t \in dropped
    BY <1>0, <1>4 DEF HistoryInv, Accounted
  <2> QED BY <1>0, <1>3, <2>1
<1>7. CutOff'
  <2> SUFFICES ASSUME fails' = 0 PROVE Sealed(history)' /\ ~Dangling(history')
    BY <1>0 DEF CutOff, Sealed, Dangling
  <2>1. /\ Sealed(history) /\ ~Dangling(stored) /\ stored = history
    BY <1>0, <1>4, CounterFacts DEF HistoryInv, CutOff
  <2>2. Sealed(history)'
    BY <1>0, <1>2, <2>1 DEF Shortens, Sealed
  <2>3. ~Dangling(history')
    BY <1>2, <2>1 DEF Shortens, Dangling
  <2> QED BY <2>2, <2>3
<1>8. Sound(stored)'
  BY <1>0, <1>3 DEF HistoryInv
<1> QED BY <1>3, <1>5, <1>6, <1>7, <1>8 DEF HistoryInv


\* What an action that saves its new history has done.
LEMMA SaveFacts ==
  ASSUME LoopInv, Save(history')
  PROVE  stored' \in {stored, history'} /\ (fails' = 0 => fails = 0 /\ stored' = history')
<1>1. fails \in Nat
  BY CounterFacts
<1> QED BY <1>1

\* The user message goes into the history, and to S3.
LEMMA AheadKeeps ==
  ASSUME LoopInv, HistoryInv, WriteAhead
  PROVE  HistoryInv'
<1>0. /\ pc = "ahead" /\ pc' = "stream" /\ history' = Append(history, User(turn))
      /\ asked' = asked \cup {turn} /\ UNCHANGED <<dropped, cut, turn>>
      /\ stored' \in {stored, history'}
      /\ fails' = 0 => fails = 0 /\ stored' = history'
  <2>1. Save(history')
    OBVIOUS
  <2> QED BY <2>1, SaveFacts
<1>1. /\ turn \in Turns /\ turn \in Nat /\ turn # 0 /\ turn \notin asked
      /\ asked \subseteq 1..turn
      /\ TurnsOf(history) \subseteq asked \cup {0} /\ TurnsOf(stored) \subseteq asked \cup {0}
      /\ dropped \subseteq asked \cup {0}
  BY <1>0, CounterFacts, ToolAssumption DEF HistoryInv, Asked, Turns
<1>2. \A t \in asked \cup {0} : t < turn
  BY <1>1
<1>3. User(turn) \in Messages /\ User(turn) # Summary
  BY <1>1 DEF Messages, User, Summary
<1>4. /\ Sound(history') /\ history' # <<>> /\ history'[Len(history')] = User(turn)
      /\ \A t : t \in TurnsOf(history') <=> t \in TurnsOf(history) \/ t = turn
      /\ \A t : Answered(history, t) => Answered(history', t)
      /\ Sealed(history) => Sealed(history')
  <2>1. /\ User(turn).role = "user" /\ User(turn).turn = turn /\ User(turn).kind = "text"
    BY UserFacts
  <2>2. \A t \in TurnsOf(history) : t < User(turn).turn
    BY <1>1, <1>2, <2>1
  <2>3. Sound(history)
    BY DEF HistoryInv
  <2>4. PICK m : m = User(turn)
    OBVIOUS
  <2>5. /\ m \in Messages /\ m # Summary /\ m.role = "user" /\ m.turn = turn /\ m.kind = "text"
        /\ \A t \in TurnsOf(history) : t < m.turn
    BY <1>3, <2>1, <2>2, <2>4
  <2>6. /\ Sound(Append(history, m)) /\ Append(history, m) # <<>>
        /\ Append(history, m)[Len(Append(history, m))] = m
        /\ \A t : t \in TurnsOf(Append(history, m)) <=> t \in TurnsOf(history) \/ t = m.turn
        /\ \A t : Answered(history, t) => Answered(Append(history, m), t)
        /\ Sealed(history) /\ (m.kind = "marker" => m.turn \in cut) => Sealed(Append(history, m))
    BY <2>3, <2>5, Extends
  <2> QED BY <1>0, <2>4, <2>5, <2>6
<1>5. Sound(stored)'
  BY <1>0, <1>4 DEF HistoryInv
<1>6. Asking' /\ ~Asking
  BY <1>0 DEF Asking
<1>7. Asked'
  <2>1. asked' \subseteq 1..turn'
    BY <1>0, <1>1
  <2>2. TurnsOf(history') \subseteq asked' \cup {0} /\ TurnsOf(stored') \subseteq asked' \cup {0}
        /\ dropped' \subseteq asked' \cup {0}
    BY <1>0, <1>1, <1>4
  <2>3. Awaits(history, turn)'
    BY <1>0, <1>4 DEF Awaits
  <2>4. TurnsOf(history)' = TurnsOf(history') /\ TurnsOf(stored)' = TurnsOf(stored')
    BY DEF TurnsOf
  <2> QED BY <1>0, <2>1, <2>2, <2>3, <2>4 DEF Asked
<1>8. Accounted'
  <2> SUFFICES ASSUME fails' = 0, NEW t \in asked'
               PROVE  /\ Answered(history', t) \/ t \in dropped' \/ t = turn'
                      /\ Answered(history', t) \/ t \in dropped' \/ Awaits(history', t)
    BY <1>0, <1>6 DEF Accounted, Answered, Awaits
  <2>1. CASE t = turn
    BY <1>0, <1>4, <2>1 DEF Awaits
  <2>2. CASE t \in asked
    BY <1>0, <1>4, <1>6, <2>2 DEF HistoryInv, Accounted
  <2> QED BY <1>0, <2>1, <2>2
<1>9. CutOff'
  <2> SUFFICES ASSUME fails' = 0
               PROVE  Sealed(history)' /\ Sealed(stored)' /\ stored'[Len(stored')].turn = turn'
    BY <1>6 DEF CutOff
  <2>1. Sealed(history) /\ stored' = history'
    BY <1>0 DEF HistoryInv, CutOff
  <2>2. Sealed(history)' /\ Sealed(stored)'
    BY <1>0, <1>4, <2>1 DEF Sealed
  <2> QED BY <1>0, <1>4, <2>1, <2>2, UserFacts
<1>10. LatestTurnKept'
  <2> SUFFICES ASSUME NEW t \in asked', t \in dropped'
               PROVE  \E u \in asked' : u > t
    BY DEF LatestTurnKept
  <2>1. t \in asked /\ t \in dropped
    BY <1>0, <1>1
  <2>2. PICK u \in asked : u > t
    BY <2>1 DEF HistoryInv, LatestTurnKept
  <2> QED BY <1>0, <2>2
<1> QED BY <1>4, <1>5, <1>7, <1>8, <1>9, <1>10 DEF HistoryInv

\* The answer of the running turn goes behind its question.
LEMMA AnswerFacts ==
  ASSUME LoopInv, HistoryInv, Asking, NEW k \in {"reply", "partial"},
         NEW h, h = Append(history, Assistant(turn, k))
  PROVE  /\ Sound(h) /\ ~Dangling(h) /\ TurnsOf(h) \subseteq asked \cup {0}
         /\ turn \in asked /\ TurnsOf(h) = TurnsOf(history)
         /\ \A t : Answered(history, t) \/ t = turn => Answered(h, t)
         /\ Sealed(history) => Sealed(h)
<1>1. /\ turn \in Turns /\ Awaits(history, turn) /\ Sound(history)
      /\ TurnsOf(history) \subseteq asked \cup {0} /\ turn # 0
  <2>1. Running
    BY DEF Asking
  <2>2. turn \in Turns
    BY <2>1, CounterFacts
  <2>3. turn # 0
    BY <2>2, ToolAssumption DEF Turns
  <2> QED BY <2>2, <2>3 DEF HistoryInv, Asked
<1>2. PICK m : m = Assistant(turn, k)
  OBVIOUS
<1>3. /\ m \in Messages /\ m # Summary /\ m.role = "assistant" /\ m.turn = turn
      /\ m.kind # "marker"
  BY <1>1, <1>2 DEF Messages, Assistant, Summary
<1>4. /\ Sound(h) /\ h # <<>> /\ h[Len(h)] = m
      /\ \A t : t \in TurnsOf(h) <=> t \in TurnsOf(history) \/ t = m.turn
      /\ \A t : Answered(history, t) => Answered(h, t)
      /\ Answered(h, m.turn)
      /\ Sealed(history) => Sealed(h)
  <2>1. h = Append(history, m)
    BY <1>2
  <2>2. /\ Sound(Append(history, m)) /\ Append(history, m) # <<>>
        /\ Append(history, m)[Len(Append(history, m))] = m
        /\ \A t : t \in TurnsOf(Append(history, m)) <=> t \in TurnsOf(history) \/ t = m.turn
        /\ \A t : Answered(history, t) => Answered(Append(history, m), t)
        /\ Answered(Append(history, m), m.turn)
        /\ Sealed(history) => Sealed(Append(history, m))
    BY <1>1, <1>3, Extends
  <2> QED BY <2>1, <2>2
<1>5. turn \in TurnsOf(history)
  <2>1. Len(history) \in DOMAIN history /\ history[Len(history)] = User(turn)
    <3>1. Len(history) >= 1 /\ DOMAIN history = 1..Len(history) /\ Len(history) \in Nat
      BY <1>1, SoundFacts DEF Awaits
    <3> QED BY <1>1, <3>1 DEF Awaits
  <2> QED BY <2>1, UserFacts DEF TurnsOf
<1>6. TurnsOf(h) = TurnsOf(history)
  BY <1>3, <1>4, <1>5
<1> QED BY <1>1, <1>3, <1>4, <1>5, <1>6 DEF Dangling

\* The reply goes into the history, which may be compacted, before the save.
LEMMA ReplyKeeps ==
  ASSUME LoopInv, HistoryInv, NEW o \in BOOLEAN, StreamReply(o)
  PROVE  HistoryInv'
<1>1. PICK h : h = Append(history, Assistant(turn, "reply"))
  OBVIOUS
<1>2. /\ pc = "stream" /\ pc' = "save" /\ history' = (IF o THEN Compact(h) ELSE h)
      /\ dropped' = dropped \cup (TurnsOf(history) \ TurnsOf(history'))
      /\ UNCHANGED <<stored, asked, cut, turn, fails>>
  BY <1>1
<1>3. Asking /\ ~Asking'
  BY <1>2 DEF Asking
<1>4. /\ Sound(h) /\ ~Dangling(h) /\ TurnsOf(h) \subseteq asked \cup {0}
      /\ turn \in asked /\ TurnsOf(h) = TurnsOf(history)
      /\ \A t : Answered(history, t) \/ t = turn => Answered(h, t)
      /\ Sealed(history) => Sealed(h)
  BY <1>1, <1>3, AnswerFacts
<1>5. Shortens(h, history')
  BY <1>2, <1>4, ShortensSame, CompactShortens
<1>6. asked \subseteq 1..turn /\ turn \in Nat
  BY CounterFacts DEF HistoryInv, Asked
<1>7. /\ Sound(history') /\ TurnsOf(history') \subseteq asked \cup {0} /\ LatestTurnKept'
      /\ \A t : Answered(h, t) => Answered(history', t) \/ t \in dropped'
  <2>1. asked \subseteq Nat \ {0}
    BY <1>6
  <2>2. dropped' = dropped \cup (TurnsOf(h) \ TurnsOf(history'))
    BY <1>2, <1>4
  <2> QED BY <1>2, <1>4, <1>5, <2>1, <2>2, DropKeeps
<1>8. Asked'
  <2>1. TurnsOf(history)' = TurnsOf(history') /\ TurnsOf(stored)' = TurnsOf(stored)
    BY <1>2 DEF TurnsOf
  <2>2. TurnsOf(stored) \cup dropped \cup TurnsOf(history) \subseteq asked \cup {0}
    BY DEF HistoryInv, Asked
  <2>3. dropped' \subseteq asked \cup {0}
    BY <1>2, <2>2
  <2>4. ~Dangling(history)'
    BY <1>4, <1>5 DEF Shortens, Dangling
  <2> QED BY <1>2, <1>3, <1>6, <1>7, <2>1, <2>2, <2>3, <2>4 DEF Asked
<1>9. Accounted'
  <2> SUFFICES ASSUME fails' = 0, NEW t \in asked'
               PROVE  /\ Answered(history', t) \/ t \in dropped'
                      /\ Answered(stored, t) \/ t \in dropped' \/ Awaits(stored, t)
    BY <1>2, <1>3 DEF Accounted, Answered, Awaits
  <2>1. /\ Answered(history, t) \/ t \in dropped \/ t = turn
        /\ Answered(stored, t) \/ t \in dropped \/ Awaits(stored, t)
    BY <1>2 DEF HistoryInv, Accounted
  <2> QED BY <1>2, <1>4, <1>7, <2>1
<1>10. CutOff'
  <2> SUFFICES ASSUME fails' = 0
               PROVE  /\ Sealed(history)' /\ Sealed(stored)'
                      /\ Dangling(stored) => stored[Len(stored)].turn = turn
    BY <1>2 DEF CutOff, Dangling
  <2>1. /\ Sealed(history) /\ Sealed(stored)
        /\ Dangling(stored) => stored[Len(stored)].turn = turn
    BY <1>2 DEF HistoryInv, CutOff
  <2>2. Sealed(history')
    BY <1>4, <1>5, <2>1 DEF Shortens
  <2> QED BY <1>2, <2>1, <2>2 DEF Sealed
<1>11. Sound(stored)'
  BY <1>2 DEF HistoryInv
<1> QED BY <1>7, <1>8, <1>9, <1>10, <1>11 DEF HistoryInv

\* A sound history that is saved as it stands, with nobody asking any more.
LEMMA SavedKeeps ==
  ASSUME HistoryInv, ~Asking, pc # "cold", ~Asking', pc' \in {"finish", "idle"},
         history' = history, stored' \in {stored, history}, fails' = 0 => fails = 0 /\ stored' = history,
         UNCHANGED <<asked, dropped, cut, turn>>, ~Dangling(history) \/ fails' # 0
  PROVE  HistoryInv'
<1>1. Sound(history)' /\ Sound(stored)' /\ LatestTurnKept'
  BY DEF HistoryInv, LatestTurnKept
<1>2. Asked'
  <2>1. TurnsOf(history)' = TurnsOf(history) /\ TurnsOf(stored)' = TurnsOf(stored')
    BY DEF TurnsOf
  <2>2. /\ asked \subseteq 1..turn
        /\ TurnsOf(history) \cup TurnsOf(stored) \cup dropped \subseteq asked \cup {0}
    BY DEF HistoryInv, Asked
  <2> QED BY <2>1, <2>2 DEF Asked
<1>3. Accounted'
  <2> SUFFICES ASSUME fails' = 0, NEW t \in asked'
               PROVE  Answered(history, t) \/ t \in dropped
    BY DEF Accounted, Answered, Awaits
  <2> QED BY DEF HistoryInv, Accounted
<1>4. CutOff'
  <2> SUFFICES ASSUME fails' = 0 PROVE Sealed(history)' /\ ~Dangling(history)
    BY DEF CutOff, Dangling, Sealed
  <2> QED BY DEF HistoryInv, CutOff, Sealed
<1> QED BY <1>1, <1>2, <1>3, <1>4 DEF HistoryInv

\* The reply is saved, or the save fails.
LEMMA SaveReplyKeeps ==
  ASSUME LoopInv, HistoryInv, SaveReply
  PROVE  HistoryInv'
<1>1. /\ pc = "save" /\ pc' = "finish" /\ history' = history
      /\ UNCHANGED <<asked, dropped, cut, turn>>
  OBVIOUS
<1>2. stored' \in {stored, history} /\ (fails' = 0 => fails = 0 /\ stored' = history)
  <2>1. Save(history') <=> Save(history)
    BY <1>1
  <2> QED BY <1>1, <2>1, SaveFacts
<1>3. ~Asking /\ ~Asking' /\ ~Dangling(history)
  BY <1>1 DEF Asking, HistoryInv, Asked
<1> QED BY <1>1, <1>2, <1>3, SavedKeeps

\* The partial answer goes into the history, and to S3 unless that save fails.
LEMMA FailTurnKeeps ==
  ASSUME LoopInv, HistoryInv, FailTurn
  PROVE  HistoryInv'
<1>1. /\ pc = "fail" /\ pc' = "finish" /\ history' = Append(history, Assistant(turn, "partial"))
      /\ UNCHANGED <<asked, dropped, cut, turn>>
      /\ stored' \in {stored, history'} /\ (fails' = 0 => fails = 0 /\ stored' = history')
  <2>1. Save(history')
    OBVIOUS
  <2> QED BY <2>1, SaveFacts
<1>2. Asking /\ ~Asking'
  BY <1>1 DEF Asking
<1>3. /\ Sound(history') /\ ~Dangling(history') /\ TurnsOf(history') \subseteq asked \cup {0}
      /\ \A t : Answered(history, t) \/ t = turn => Answered(history', t)
      /\ Sealed(history) => Sealed(history')
  BY <1>1, <1>2, AnswerFacts
<1>4. Sound(stored)' /\ LatestTurnKept'
  BY <1>1, <1>3 DEF HistoryInv, LatestTurnKept
<1>5. Asked'
  <2>1. TurnsOf(history)' = TurnsOf(history') /\ TurnsOf(stored)' = TurnsOf(stored')
    BY DEF TurnsOf
  <2>2. asked \subseteq 1..turn /\ TurnsOf(stored) \cup dropped \subseteq asked \cup {0}
    BY DEF HistoryInv, Asked
  <2>3. TurnsOf(stored') \subseteq asked \cup {0}
    BY <1>1, <1>3, <2>2
  <2> QED BY <1>1, <1>2, <1>3, <2>1, <2>2, <2>3 DEF Asked
<1>6. Accounted'
  <2> SUFFICES ASSUME fails' = 0, NEW t \in asked'
               PROVE  Answered(history', t) \/ t \in dropped'
    BY <1>1 DEF Accounted, Answered, Awaits
  <2>1. Answered(history, t) \/ t \in dropped \/ t = turn
    BY <1>1 DEF HistoryInv, Accounted
  <2> QED BY <1>1, <1>3, <2>1
<1>7. CutOff'
  <2> SUFFICES ASSUME fails' = 0 PROVE Sealed(history)' /\ Sealed(stored)' /\ ~Dangling(stored)'
    BY DEF CutOff
  <2>1. Sealed(history)
    BY <1>1 DEF HistoryInv, CutOff
  <2> QED BY <1>1, <1>3, <2>1 DEF Sealed, Dangling
<1> QED BY <1>3, <1>4, <1>5, <1>6, <1>7 DEF HistoryInv

\* Nothing is sound.
LEMMA EmptySound == Sound(<<>>) /\ TurnsOf(<<>>) = {} /\ ~Dangling(<<>>) /\ Sealed(<<>>)
BY DEF Sound, InOrder, TurnsOf, Dangling, Sealed

\* The session leaves the memory of its node, evicted or in a crash.
LEMMA ForgetKeeps ==
  ASSUME LoopInv, HistoryInv, Evict \/ Crash
  PROVE  HistoryInv'
<1>1. /\ pc # "cold" /\ pc' = "cold" /\ history' = <<>>
      /\ UNCHANGED <<stored, asked, dropped, turn, fails>>
      /\ cut \subseteq cut' /\ (Running => turn \in cut')
  OBVIOUS
<1>2. ~Asking'
  BY <1>1 DEF Asking
<1>3. Sound(history)' /\ Sound(stored)' /\ LatestTurnKept'
  BY <1>1, EmptySound DEF HistoryInv, LatestTurnKept
<1>4. Asked'
  <2>1. TurnsOf(history)' = TurnsOf(history') /\ TurnsOf(stored)' = TurnsOf(stored)
    BY <1>1 DEF TurnsOf
  <2>2. TurnsOf(history') = {}
    BY <1>1, EmptySound
  <2> QED BY <1>1, <1>2, <2>1, <2>2 DEF HistoryInv, Asked
<1>5. Accounted'
  <2> SUFFICES ASSUME fails' = 0, NEW t \in asked'
               PROVE  Answered(stored, t) \/ t \in dropped' \/ Awaits(stored, t)
    BY <1>1 DEF Accounted, Answered, Awaits
  <2> QED BY <1>1 DEF HistoryInv, Accounted
<1>6. CutOff'
  <2> SUFFICES ASSUME fails' = 0
               PROVE  /\ Sealed(history)' /\ Sealed(stored)'
                      /\ Dangling(stored) => stored[Len(stored)].turn \in cut'
    BY <1>1 DEF CutOff, Dangling
  <2>1. /\ Sealed(stored)
        /\ Dangling(stored) => (Asking \/ pc = "save") /\ stored[Len(stored)].turn = turn
    BY <1>1 DEF HistoryInv, CutOff
  <2>2. Asking \/ pc = "save" => Running
    BY DEF Asking
  <2>3. Sealed(stored)'
    BY <1>1, <2>1 DEF Sealed
  <2>4. Sealed(history)'
    BY <1>1 DEF Sealed
  <2> QED BY <1>1, <2>1, <2>2, <2>3, <2>4
<1> QED BY <1>3, <1>4, <1>5, <1>6 DEF HistoryInv

\* The adopter seals the turn that was cut off.
LEMMA SealKeeps ==
  ASSUME LoopInv, HistoryInv, Adopt, Dangling(stored)
  PROVE  HistoryInv'
<1>1. PICK t : t = stored[Len(stored)].turn
  OBVIOUS
<1>2. PICK m : m = Assistant(t, "marker")
  OBVIOUS
<1>3. /\ pc = "cold" /\ pc' = "idle" /\ history' = Append(stored, m)
      /\ UNCHANGED <<asked, dropped, cut, turn>>
      /\ stored' \in {stored, history'} /\ (fails' = 0 => fails = 0 /\ stored' = history')
  <2>1. Save(history')
    OBVIOUS
  <2> QED BY <1>1, <1>2, <2>1, SaveFacts
<1>4. /\ Sound(stored) /\ TurnsOf(stored) \cup dropped \subseteq asked \cup {0}
      /\ asked \subseteq 1..turn
  BY DEF HistoryInv, Asked
<1>5. t \in Turns /\ stored[Len(stored)] = User(t) /\ t \in TurnsOf(stored)
  <2>1. /\ Len(stored) >= 1 /\ Len(stored) \in Nat /\ DOMAIN stored = 1..Len(stored)
        /\ stored[Len(stored)] # Summary /\ \A i \in 1..Len(stored) : stored[i] \in Messages
        /\ stored[Len(stored)].role = "user"
    BY <1>4, SoundFacts DEF Dangling
  <2>2. Len(stored) \in 1..Len(stored)
    BY <2>1
  <2> QED BY <1>1, <2>1, <2>2, MessageFacts DEF TurnsOf
<1>6. /\ m \in Messages /\ m # Summary /\ m.role = "assistant" /\ m.turn = t
      /\ m.kind = "marker" /\ Awaits(stored, t)
  BY <1>2, <1>5 DEF Messages, Assistant, Summary, Awaits, Dangling
<1>7. /\ Sound(history') /\ ~Dangling(history')
      /\ \A u : u \in TurnsOf(history') <=> u \in TurnsOf(stored)
      /\ \A u : Answered(stored, u) \/ u = t => Answered(history', u)
      /\ Sealed(stored) /\ t \in cut => Sealed(history')
  <2>1. /\ Sound(Append(stored, m)) /\ Append(stored, m) # <<>>
        /\ Append(stored, m)[Len(Append(stored, m))] = m
        /\ \A u : u \in TurnsOf(Append(stored, m)) <=> u \in TurnsOf(stored) \/ u = m.turn
        /\ \A u : Answered(stored, u) => Answered(Append(stored, m), u)
        /\ Answered(Append(stored, m), m.turn)
        /\ Sealed(stored) /\ (m.kind = "marker" => m.turn \in cut) => Sealed(Append(stored, m))
    BY <1>4, <1>6, Extends
  <2>2. ~Dangling(Append(stored, m))
    BY <1>6, <2>1 DEF Dangling
  <2> QED BY <1>3, <1>5, <1>6, <2>1, <2>2
<1>8. ~Asking'
  BY <1>3 DEF Asking
<1>9. Sound(stored)' /\ LatestTurnKept'
  BY <1>3, <1>7 DEF HistoryInv, LatestTurnKept
<1>10. Asked'
  <2>1. TurnsOf(history)' = TurnsOf(history') /\ TurnsOf(stored)' = TurnsOf(stored')
    BY DEF TurnsOf
  <2>2. TurnsOf(history') = TurnsOf(stored)
    BY <1>7
  <2> QED BY <1>3, <1>4, <1>8, <2>1, <2>2 DEF Asked
<1>11. Accounted'
  <2> SUFFICES ASSUME fails' = 0, NEW u \in asked'
               PROVE  Answered(history', u) \/ u \in dropped'
    BY <1>3 DEF Accounted, Answered, Awaits
  <2>1. Answered(stored, u) \/ u \in dropped \/ Awaits(stored, u)
    BY <1>3 DEF HistoryInv, Accounted
  <2>2. Awaits(stored, u) => u = t
    BY <1>5, UserFacts DEF Awaits
  <2> QED BY <1>3, <1>7, <2>1, <2>2
<1>12. CutOff'
  <2> SUFFICES ASSUME fails' = 0 PROVE Sealed(history)' /\ Sealed(stored)' /\ ~Dangling(stored)'
    BY DEF CutOff
  <2>1. Sealed(stored) /\ t \in cut
    BY <1>1, <1>3 DEF HistoryInv, CutOff, Asking
  <2> QED BY <1>3, <1>7, <2>1 DEF Sealed, Dangling
<1> QED BY <1>7, <1>9, <1>10, <1>11, <1>12 DEF HistoryInv

\* The adopter takes the history as it is.
LEMMA AdoptKeeps ==
  ASSUME LoopInv, HistoryInv, Adopt
  PROVE  HistoryInv'
<1>1. CASE Dangling(stored)
  BY <1>1, SealKeeps
<1>2. CASE ~Dangling(stored)
  <2>1. /\ pc = "cold" /\ pc' = "idle" /\ history' = stored
        /\ UNCHANGED <<stored, asked, dropped, cut, turn, fails>>
    BY <1>2
  <2>2. ~Asking'
    BY <2>1 DEF Asking
  <2>3. Sound(history)' /\ Sound(stored)' /\ LatestTurnKept'
    BY <2>1 DEF HistoryInv, LatestTurnKept
  <2>4. Asked'
    <3>1. TurnsOf(history)' = TurnsOf(stored) /\ TurnsOf(stored)' = TurnsOf(stored)
      BY <2>1 DEF TurnsOf
    <3> QED BY <2>1, <2>2, <3>1 DEF HistoryInv, Asked
  <2>5. Accounted'
    <3> SUFFICES ASSUME fails' = 0, NEW t \in asked'
                 PROVE  Answered(stored, t) \/ t \in dropped'
      BY <2>1 DEF Accounted, Answered, Awaits
    <3>1. Answered(stored, t) \/ t \in dropped \/ Awaits(stored, t)
      BY <2>1 DEF HistoryInv, Accounted
    <3>2. ~Awaits(stored, t)
      BY <1>2, UserFacts DEF Awaits, Dangling
    <3> QED BY <2>1, <3>1, <3>2
  <2>6. CutOff'
    BY <1>2, <2>1 DEF HistoryInv, CutOff, Sealed, Dangling
  <2> QED BY <2>3, <2>4, <2>5, <2>6 DEF HistoryInv
<1> QED BY <1>1, <1>2

\* The history keeps its turns whatever happens.
LEMMA HistoryStep ==
  ASSUME LoopInv, HistoryInv, [Next]_vars
  PROVE  HistoryInv'
<1> DEFINE Same == UNCHANGED <<history, stored, asked, dropped, cut, turn, fails>>
<1>1. ASSUME LoopStep
      PROVE  HistoryInv'
  <2>1. CASE PrepareLive \/ Rebuild
    BY <2>1, LoadKeeps
  <2>2. CASE PrepareFails
    BY <2>2, PrepareFailsKeeps
  <2>3. CASE TrimHistory
    BY <2>3, TrimKeeps
  <2>4. CASE WriteAhead
    BY <2>4, AheadKeeps
  <2>5. CASE \E o \in BOOLEAN : StreamReply(o)
    BY <2>5, ReplyKeeps
  <2>6. CASE SaveReply
    BY <2>6, SaveReplyKeeps
  <2>7. CASE FailTurn
    BY <2>7, FailTurnKeeps
  <2>8. ASSUME (\E cs \in CallLists : StreamCalls(cs)) \/ StreamFails \/ CallAnswered
               \/ CallWaits \/ ResultArrives \/ WaitEnds
        PROVE  HistoryInv'
    <3>1. Asking /\ Asking'
      BY <2>8 DEF Asking, NextCall
    <3>2. Same
      BY <2>8 DEF NextCall
    <3> QED BY <3>1, <3>2, QuietKeeps
  <2>9. CASE FinishTurn
    BY <2>9, QuietKeeps
  <2> QED BY <1>1, <2>1, <2>2, <2>3, <2>4, <2>5, <2>6, <2>7, <2>8, <2>9 DEF LoopStep
<1>2. CASE StartTurn
  BY <1>2, StartKeeps
<1>3. CASE Evict \/ Crash
  BY <1>3, ForgetKeeps
<1>4. CASE Adopt
  BY <1>4, AdoptKeeps
<1>5. CASE Reap \/ (\E c \in CallIds : PostResult(c)) \/ UNCHANGED vars
  <2>1. Same /\ pc' = pc
    BY <1>5
  <2> QED BY <2>1, QuietKeeps
<1> QED BY <1>1, <1>2, <1>3, <1>4, <1>5 DEF Next

-----------------------------------------------------------------------------
(* What the history holds *)

\* For any number of turns, crashes and failed saves and for any window, both
\* histories are sound and hold what was asked (RunTurn, adoptSession).
THEOREM HistoryInvariance == Spec => []HistoryInv
<1>1. Init => HistoryInv
  <2> SUFFICES ASSUME Init PROVE HistoryInv
    OBVIOUS
  <2>1. history = <<>> /\ stored = <<>> /\ asked = {} /\ dropped = {} /\ pc = "idle"
    BY DEF Init
  <2> QED BY <2>1, EmptySound
          DEF HistoryInv, Asked, Accounted, CutOff, LatestTurnKept, Asking
<1>2. LoopInv /\ HistoryInv /\ [Next]_vars => HistoryInv'
  BY HistoryStep
<1> QED BY <1>1, <1>2, LoopInvariance, PTL DEF Spec

\* Whatever fails or crashes, the history holds its turns once and in order, each
\* with its own answer; if no save failed, every turn asked and no marker that no
\* crash accounts for (loop.go:210-274, adopt.go).
THEOREM HistoryIsWhole == Spec => []HistoryHolds
<1>1. HistoryInv => HistoryHolds
  <2> SUFFICES ASSUME HistoryInv PROVE HistoryHolds
    OBVIOUS
  <2>1. TurnsInOrder
    BY DEF HistoryInv, Sound, TurnsInOrder
  <2>2. NothingLost
    BY DEF HistoryInv, Accounted, Asking, NothingLost
  <2>3. SealedWasCut
    BY DEF HistoryInv, CutOff, SealedWasCut
  <2> QED BY <2>1, <2>2, <2>3 DEF HistoryHolds
<1> QED BY <1>1, HistoryInvariance, PTL

\* For any window, what is trimmed or compacted away is the oldest, no more of it
\* than must go, and never the latest turn (context.go:64-152).
THEOREM TrimmingIsLeast == Spec => []TrimKeepsLatest
<1>1. HistoryInv => TrimKeepsLatest
  <2> SUFFICES ASSUME HistoryInv PROVE TrimKeepsLatest
    OBVIOUS
  <2>1. Sound(history)
    BY DEF HistoryInv
  <2>2. TrimIsLeast
    BY <2>1, TrimFacts DEF TrimIsLeast
  <2> QED BY <2>2 DEF HistoryInv, TrimKeepsLatest
<1> QED BY <1>1, HistoryInvariance, PTL


=============================================================================
