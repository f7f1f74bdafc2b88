--------------------------- MODULE PatchToolProofs ---------------------------
(***************************************************************************)
(* What TLAPS proves of apply_patch for every patch and every file.        *)
(*                                                                         *)
(* LinesAreKept: the result of a file's hunks, if they have one, has each  *)
(* old line once and in its place, or the hunks removed it. The invariant  *)
(* follows the cursor: what lies before it is accounted for, what lies     *)
(* behind it is untouched.                                                 *)
(*                                                                         *)
(* PatchesAreExact: a patch does what its text says or is rejected. The    *)
(* invariant says where in the patch that was meant the parser is, and     *)
(* where in the section in hand the applier is, and what they made of it.  *)
(***************************************************************************)
EXTENDS PatchTool, SequenceTheorems, WellFoundedInduction, TLAPS

Words    == Paths \cup {DevNull}
Sections == [from : Words, to : Paths, hunks : Seq(Lines)]
Whole    == [lines : Seq(Texts), nl : BOOLEAN]

\* The parser hands over sections made of lines.
ParseTypes ==
  /\ patch \in Seq(Lines) /\ pos \in Nat \ {0} /\ files \in Seq(Sections)
  /\ parse \in {"scan", "section", "hunk", "done"}
  /\ parse \in {"section", "hunk"} => files # <<>>

ApplyTypes ==
  /\ disk \in [Paths -> Files] /\ existing \in Whole
  /\ apply \in {"rest", "lines", "write", "over"}
  /\ at \in Nat \ {0} /\ next \in Nat \ {0}
  /\ out \in Seq(Texts) /\ src \in Seq(Nat) /\ Len(src) = Len(out)
  /\ cursor \in Nat /\ gone \subseteq Nat /\ ordered \in BOOLEAN

\* The section in hand was parsed, and a new file has no old lines.
InHand ==
  apply \in {"lines", "write"} =>
    parse = "done" /\ at \in 1..Len(files) /\ (IsNew => Old = <<>>)

Copied == \A i \in 1..Len(src) : src[i] # 0 => src[i] \in 1..Len(Old) /\ out[i] = Old[src[i]]

\* Behind the cursor nothing was copied or removed ...
Untouched ==
  /\ \A i \in 1..Len(src) : src[i] <= cursor
  /\ \A g \in gone : g <= cursor

\* ... before it each line was, exactly once.
Accounted ==
  /\ \A i \in 1..Len(src) : src[i] \notin gone
  /\ \A k \in 1..Len(Old) : k <= cursor => k \in gone \/ \E i \in 1..Len(src) : src[i] = k
  /\ gone \subseteq 1..Len(Old)

Ascends ==
  \A i, j \in 1..Len(src) : i < j /\ src[i] # 0 /\ src[j] # 0 => src[i] < src[j]

LinesInv ==
  /\ ordered => Ascends
  /\ ordered /\ apply = "lines" => Untouched /\ Accounted
  /\ ordered /\ apply = "write" => Accounted /\ \A k \in 1..Len(Old) :
                                     k \in gone \/ \E i \in 1..Len(src) : src[i] = k

PatchInv == ParseTypes /\ ApplyTypes /\ InHand /\ Copied /\ LinesInv
-----------------------------------------------------------------------------
(* Types *)

\* A function on 1..m is a sequence, an empty one if m is negative.
LEMMA SeqOn ==
  ASSUME NEW S, NEW m \in Int, NEW f, f = [i \in 1..m |-> f[i]],
         \A i \in 1..m : f[i] \in S
  PROVE  f \in Seq(S) /\ Len(f) = IF m > 0 THEN m ELSE 0
<1>1. CASE m > 0
  <2>1. f \in [1..m -> S] /\ m \in Nat
    BY <1>1
  <2> QED BY <2>1, <1>1, SeqDef, LenProperties
<1>2. CASE ~(m > 0)
  <2>1. 1..m = 1..0
    BY <1>2
  <2>2. f \in [1..0 -> S] /\ 0 \in Nat
    BY <2>1
  <2>3. f \in Seq(S) /\ DOMAIN f = {}
    BY <2>2, SeqDef
  <2>4. Len(f) \in Nat /\ 1..Len(f) = {}
    BY <2>3, LenProperties
  <2>5. Len(f) = 0
    <3>1. \A n \in Nat : n # 0 => n \in 1..n
      OBVIOUS
    <3> QED BY <3>1, <2>4, Zenon
  <2> QED BY <2>3, <2>5, <1>2
<1> QED BY <1>1, <1>2

\* The lines between the cursor and a hunk, and where they come from.
LEMMA SpanFacts ==
  ASSUME existing \in Whole, cursor \in Nat, NEW n \in Nat
  PROVE  /\ SpanLen(n) \in Int
         /\ cursor + SpanLen(n) = IF n < Len(Old) THEN n ELSE Len(Old)
         /\ Span(n) \in Seq(Texts) /\ SpanSrc(n) \in Seq(Nat)
         /\ Len(Span(n)) = Len(SpanSrc(n))
         /\ Len(SpanSrc(n)) = IF SpanLen(n) > 0 THEN SpanLen(n) ELSE 0
         /\ \A i \in 1..Len(SpanSrc(n)) :
              /\ SpanSrc(n)[i] = cursor + i /\ SpanSrc(n)[i] \in 1..Len(Old)
              /\ SpanSrc(n)[i] <= n
              /\ Span(n)[i] = Old[SpanSrc(n)[i]]
<1>1. Old \in Seq(Texts) /\ Len(Old) \in Nat
  BY LenProperties DEF Old, Whole
<1>2. /\ SpanLen(n) \in Int
      /\ cursor + SpanLen(n) = IF n < Len(Old) THEN n ELSE Len(Old)
  BY <1>1 DEF SpanLen
<1>3. \A i \in 1..SpanLen(n) : /\ cursor + i \in 1..Len(Old) /\ cursor + i <= n
                               /\ Old[cursor + i] \in Texts
  <2>1. SUFFICES ASSUME NEW i \in 1..SpanLen(n)
                 PROVE  cursor + i \in 1..Len(Old) /\ cursor + i <= n
    BY <1>1, ElementOfSeq
  <2> QED BY <1>1, <1>2
<1>4. Span(n) \in Seq(Texts) /\ Len(Span(n)) = IF SpanLen(n) > 0 THEN SpanLen(n) ELSE 0
  <2> DEFINE f == Span(n)
  <2>1. f = [i \in 1..SpanLen(n) |-> f[i]] /\ \A i \in 1..SpanLen(n) : f[i] \in Texts
    BY <1>3 DEF Span
  <2> HIDE DEF f
  <2>2. f \in Seq(Texts) /\ Len(f) = IF SpanLen(n) > 0 THEN SpanLen(n) ELSE 0
    BY <2>1, <1>2, SeqOn
  <2> QED BY <2>2 DEF f
<1>5. SpanSrc(n) \in Seq(Nat) /\ Len(SpanSrc(n)) = IF SpanLen(n) > 0 THEN SpanLen(n) ELSE 0
  <2> DEFINE f == SpanSrc(n)
  <2>1. f = [i \in 1..SpanLen(n) |-> f[i]] /\ \A i \in 1..SpanLen(n) : f[i] \in Nat
    BY <1>2 DEF SpanSrc
  <2> HIDE DEF f
  <2>2. f \in Seq(Nat) /\ Len(f) = IF SpanLen(n) > 0 THEN SpanLen(n) ELSE 0
    BY <2>1, <1>2, SeqOn
  <2> QED BY <2>2 DEF f
<1>6. \A i \in 1..Len(SpanSrc(n)) : i \in 1..SpanLen(n)
  BY <1>5, <1>2
<1> QED BY <1>2, <1>3, <1>4, <1>5, <1>6 DEF Span, SpanSrc

\* What is copied is the lines up to n, none if there are none.
LEMMA CopyIsSpan ==
  ASSUME existing \in Whole, cursor \in Nat, out \in Seq(Texts), src \in Seq(Nat),
         IsNew => Old = <<>>, NEW n \in Nat, Copy(n)
  PROVE  out' = out \o Span(n) /\ src' = src \o SpanSrc(n)
<1>1. CASE ~IsNew /\ n > cursor
  BY <1>1 DEF Copy
<1>2. CASE ~(~IsNew /\ n > cursor)
  <2>1. out' = out /\ src' = src
    BY <1>2 DEF Copy
  <2>2. /\ SpanLen(n) \in Int
        /\ cursor + SpanLen(n) = IF n < Len(Old) THEN n ELSE Len(Old)
        /\ Span(n) \in Seq(Texts) /\ SpanSrc(n) \in Seq(Nat)
        /\ Len(Span(n)) = Len(SpanSrc(n))
        /\ Len(SpanSrc(n)) = IF SpanLen(n) > 0 THEN SpanLen(n) ELSE 0
    BY SpanFacts
  <2>3. Len(Old) \in Nat /\ (IsNew => Len(Old) = 0)
    <3>1. Old \in Seq(Texts)
      BY DEF Old, Whole
    <3> QED BY <3>1, LenProperties, EmptySeq
  <2>4. ~(SpanLen(n) > 0)
    BY <1>2, <2>2, <2>3
  <2>5. Span(n) = <<>> /\ SpanSrc(n) = <<>>
    BY <2>2, <2>4, EmptySeq
  <2>6. out \o <<>> = out /\ src \o <<>> = src
    BY ConcatEmptySeq
  <2> QED BY <2>1, <2>5, <2>6
<1> QED BY <1>1, <1>2

\* Appending a sequence to another, element by element.
LEMMA Joined ==
  ASSUME NEW S, NEW s \in Seq(S), NEW t \in Seq(S)
  PROVE  /\ s \o t \in Seq(S) /\ Len(s \o t) = Len(s) + Len(t)
         /\ Len(s) \in Nat /\ Len(t) \in Nat
         /\ \A i \in 1..Len(s) : (s \o t)[i] = s[i]
         /\ \A i \in 1..Len(t) : (s \o t)[Len(s) + i] = t[i]
         /\ \A i \in 1..Len(s \o t) :
              i \in 1..Len(s) \/ \E j \in 1..Len(t) : i = Len(s) + j
<1>1. Len(s) \in Nat /\ Len(t) \in Nat
  BY LenProperties
<1>2. /\ s \o t \in Seq(S) /\ Len(s \o t) = Len(s) + Len(t)
      /\ \A i \in 1..Len(s) + Len(t) :
           (s \o t)[i] = IF i <= Len(s) THEN s[i] ELSE t[i - Len(s)]
  BY ConcatProperties
<1>3. \A i \in 1..Len(s) : (s \o t)[i] = s[i]
  BY <1>1, <1>2
<1>4. \A i \in 1..Len(t) : (s \o t)[Len(s) + i] = t[i]
  <2> SUFFICES ASSUME NEW i \in 1..Len(t) PROVE (s \o t)[Len(s) + i] = t[i]
    OBVIOUS
  <2>1. Len(s) + i \in 1..Len(s) + Len(t) /\ ~(Len(s) + i <= Len(s))
        /\ Len(s) + i - Len(s) = i
    BY <1>1
  <2> QED BY <2>1, <1>2
<1>5. \A i \in 1..Len(s \o t) : i \in 1..Len(s) \/ \E j \in 1..Len(t) : i = Len(s) + j
  <2> SUFFICES ASSUME NEW i \in 1..Len(s) + Len(t), i \notin 1..Len(s)
               PROVE  \E j \in 1..Len(t) : i = Len(s) + j
    BY <1>2
  <2>1. i - Len(s) \in 1..Len(t) /\ i = Len(s) + (i - Len(s))
    BY <1>1
  <2> QED BY <2>1
<1> QED BY <1>1, <1>2, <1>3, <1>4, <1>5

\* A line of a patch, taken apart.
LEMMA LineFacts ==
  ASSUME NEW l \in Lines
  PROVE  l.text \in Texts /\ l.text.word \in Words /\ l.start \in Nat
BY DEF Lines, Texts, Words

-----------------------------------------------------------------------------
(* Induction *)

\* The natural numbers are well-ordered by <.
LEMMA LeastElement ==
  ASSUME NEW T, T \subseteq Nat, T # {}
  PROVE  \E x \in T : \A y \in T : x <= y
<1> DEFINE R == {p \in Nat \X Nat : p[1] < p[2]}
<1>1. IsWellFoundedOn(R, Nat)
  BY NatLessThanWellFounded DEF OpToRel
<1>2. \A x, y \in Nat : <<x, y>> \in R <=> x < y
  OBVIOUS
<1> HIDE DEF R
<1>3. PICK x \in T : \A y \in T : ~(<<y, x>> \in R)
  BY <1>1, WFMin
<1>4. ASSUME NEW y \in T PROVE x <= y
  <2>1. x \in Nat /\ y \in Nat /\ ~(y < x)
    BY <1>2, <1>3
  <2> QED BY <2>1
<1> QED BY <1>4

\* Induction over an initial segment of the natural numbers, as a statement
\* about the set of those that have the property.
LEMMA Induction ==
  ASSUME NEW N \in Nat, NEW T \in SUBSET (0..N), 0 \in T,
         \A i \in 1..N : i - 1 \in T => i \in T
  PROVE  T = 0..N
<1> SUFFICES ASSUME (0..N) \ T # {} PROVE FALSE
  OBVIOUS
<1> DEFINE U == (0..N) \ T
<1>0. U \subseteq Nat /\ U # {}
  OBVIOUS
<1> HIDE DEF U
<1>1. PICK x \in U : \A y \in U : x <= y
  BY <1>0, LeastElement
<1> USE DEF U
<1>2. x \in 1..N /\ x - 1 \in 0..N
  BY <1>1
<1>3. x - 1 \in T
  BY <1>1, <1>2
<1> QED BY <1>1, <1>2, <1>3

\* The same without the places of the parts.
LEMMA JoinedAt ==
  ASSUME NEW S, NEW s \in Seq(S), NEW t \in Seq(S)
  PROVE  /\ s \o t \in Seq(S) /\ Len(s \o t) = Len(s) + Len(t)
         /\ Len(s) \in Nat /\ Len(t) \in Nat
         /\ \A i \in 1..Len(s) : (s \o t)[i] = s[i]
         /\ \A i \in 1..Len(t) : (s \o t)[Len(s) + i] = t[i]
BY ConcatProperties, LenProperties

-----------------------------------------------------------------------------
(* Sequences of sequences *)

\* What the first k of ss are when they are put behind one another.
Joins(S, ss, f) ==
  /\ f \in [0..Len(ss) -> Seq(S)] /\ f[0] = <<>>
  /\ \A k \in 1..Len(ss) : f[k] = f[k - 1] \o ss[k]

\* Such a function exists: it is extended one sequence at a time.
LEMMA JoinExists ==
  ASSUME NEW S, NEW ss \in Seq(Seq(S)) PROVE \E f : Joins(S, ss, f)
<1> DEFINE Upto(n, f) == /\ f \in [0..n -> Seq(S)] /\ f[0] = <<>>
                         /\ \A k \in 1..n : f[k] = f[k - 1] \o ss[k]
           T == {n \in 0..Len(ss) : \E f : Upto(n, f)}
<1>1. Len(ss) \in Nat /\ \A k \in 1..Len(ss) : ss[k] \in Seq(S)
  BY LenProperties, ElementOfSeq
<1>2. 0 \in T
  <2>1. [k \in 0..0 |-> <<>>] \in [0..0 -> Seq(S)]
    BY EmptySeq
  <2>2. Upto(0, [k \in 0..0 |-> <<>>])
    BY <2>1
  <2>3. 0 \in 0..Len(ss)
    BY <1>1
  <2> HIDE DEF Upto
  <2> QED BY <2>2, <2>3
<1>3. ASSUME NEW n \in 1..Len(ss), n - 1 \in T PROVE n \in T
  <2>1. PICK f : Upto(n - 1, f)
    BY <1>3
  <2> DEFINE g == [k \in 0..n |-> IF k = n THEN f[n - 1] \o ss[n] ELSE f[k]]
  <2>2. n \in Nat /\ n >= 1 /\ n - 1 \in 0..n-1 /\ \A k \in 0..n : k # n => k \in 0..n-1
    BY <1>1
  <2>3. f[n - 1] \o ss[n] \in Seq(S)
    BY <1>1, <2>1, <2>2, ConcatProperties
  <2>4. g \in [0..n -> Seq(S)]
    BY <2>1, <2>2, <2>3
  <2>5. g[0] = <<>>
    BY <2>1, <2>2
  <2>6. ASSUME NEW k \in 1..n PROVE g[k] = g[k - 1] \o ss[k]
    <3>1. k - 1 \in 0..n /\ k - 1 # n /\ k \in 0..n
      BY <2>2
    <3>2. CASE k = n
      BY <3>1, <3>2
    <3>3. CASE k # n
      <4>1. k \in 1..n-1
        BY <3>3, <2>2
      <4> QED BY <4>1, <3>1, <3>3, <2>1
    <3> QED BY <3>2, <3>3
  <2>7. Upto(n, g)
    BY <2>4, <2>5, <2>6
  <2> HIDE DEF g, Upto
  <2> QED BY <2>7
<1> HIDE DEF Upto
<1>4. T = 0..Len(ss)
  <2>1. T \in SUBSET (0..Len(ss))
    OBVIOUS
  <2> HIDE DEF T
  <2> QED BY <2>1, <1>1, <1>2, <1>3, Induction
<1>5. Len(ss) \in 0..Len(ss)
  BY <1>1
<1>6. PICK f : Upto(Len(ss), f)
  BY <1>4, <1>5
<1> QED BY <1>6 DEF Upto, Joins

\* FlattenSeq puts all of them behind one another.
LEMMA FlattenJoins ==
  ASSUME NEW S, NEW ss \in Seq(Seq(S)), NEW f, Joins(S, ss, f)
  PROVE  FlattenSeq(ss) = f[Len(ss)]
<1> DEFINE n == Len(ss)
           Flat(g) == g = [i \in 1..n |-> IF i = 1 THEN ss[i] ELSE g[i - 1] \o ss[i]]
<1>1. n \in Nat /\ \A k \in 1..n : ss[k] \in Seq(S)
  BY LenProperties, ElementOfSeq
<1>2. CASE n = 0
  <2>1. ss = <<>>
    BY <1>2, EmptySeq
  <2>2. FlattenSeq(ss) = ss
    BY <1>2 DEF FlattenSeq
  <2>3. f[n] = <<>>
    BY <1>2 DEF Joins
  <2> QED BY <2>1, <2>2, <2>3
<1>3. CASE n # 0
  <2>1. \E g : Flat(g)
    <3> DEFINE g == [i \in 1..n |-> f[i]]
    <3>1. ASSUME NEW i \in 1..n PROVE f[i] = IF i = 1 THEN ss[i] ELSE g[i - 1] \o ss[i]
      <4>1. CASE i = 1
        <5>1. f[1] = <<>> \o ss[1] /\ ss[1] \in Seq(S)
          <6>1. 1 \in 1..n /\ 1 - 1 = 0
            BY <1>1, <1>3
          <6> QED BY <6>1, <1>1 DEF Joins
        <5> QED BY <5>1, <4>1, ConcatEmptySeq
      <4>2. CASE i # 1
        <5>1. i - 1 \in 1..n
          BY <1>1, <4>2
        <5> QED BY <5>1, <4>2 DEF Joins
      <4> QED BY <4>1, <4>2
    <3>2. Flat(g)
      BY <3>1
    <3> QED BY <3>2
  <2> DEFINE h == CHOOSE g : Flat(g)
  <2>2. Flat(h)
    BY <2>1
  <2>3. FlattenSeq(ss) = h[n]
    BY <1>3 DEF FlattenSeq
  <2> HIDE DEF h
  <2> DEFINE T == {i \in 0..n : i = 0 \/ h[i] = f[i]}
  <2>4. ASSUME NEW i \in 1..n, i - 1 \in T PROVE i \in T
    <3>1. CASE i = 1
      <4>1. h[1] = ss[1]
        BY <2>2, <3>1
      <4>2. f[1] = <<>> \o ss[1] /\ ss[1] \in Seq(S)
        <5>1. 1 \in 1..n /\ 1 - 1 = 0
          BY <1>1, <1>3
        <5> QED BY <5>1, <1>1 DEF Joins
      <4> QED BY <4>1, <4>2, <3>1, ConcatEmptySeq
    <3>2. CASE i # 1
      <4>1. i - 1 # 0 /\ i \in 0..n
        BY <1>1, <3>2
      <4>2. h[i - 1] = f[i - 1]
        BY <4>1, <2>4
      <4>3. h[i] = h[i - 1] \o ss[i]
        BY <2>2, <3>2
      <4> QED BY <4>1, <4>2, <4>3 DEF Joins
    <3> QED BY <3>1, <3>2
  <2>5. T = 0..n
    <3>1. T \in SUBSET (0..n) /\ 0 \in T
      BY <1>1
    <3> HIDE DEF T
    <3> QED BY <3>1, <2>4, <1>1, Induction
  <2>6. n \in T
    BY <2>5, <1>1
  <2> QED BY <2>3, <2>6, <1>3
<1> QED BY <1>2, <1>3

\* The first k of ss, one behind the other; and how many elements they have.
Upto(S, ss)  == CHOOSE f : Joins(S, ss, f)
Cut(S, ss, k) == Len(Upto(S, ss)[k])

\* What the beginnings of a joined sequence are, up to the whole of it.
LEMMA UptoFacts ==
  ASSUME NEW S, NEW ss \in Seq(Seq(S))
  PROVE  /\ \A k \in 0..Len(ss) : Upto(S, ss)[k] \in Seq(S)
         /\ Upto(S, ss)[0] = <<>>
         /\ \A k \in 1..Len(ss) : Upto(S, ss)[k] = Upto(S, ss)[k - 1] \o ss[k]
         /\ FlattenSeq(ss) = Upto(S, ss)[Len(ss)]
         /\ FlattenSeq(ss) \in Seq(S)
<1>1. Joins(S, ss, Upto(S, ss))
  BY JoinExists DEF Upto
<1>2. FlattenSeq(ss) = Upto(S, ss)[Len(ss)]
  BY <1>1, FlattenJoins
<1>3. Len(ss) \in 0..Len(ss)
  BY LenProperties
<1> QED BY <1>1, <1>2, <1>3 DEF Joins

\* Where the elements are.
LEMMA CutFacts ==
  ASSUME NEW S, NEW ss \in Seq(Seq(S))
  PROVE  /\ \A k \in 0..Len(ss) : Cut(S, ss, k) \in Nat
         /\ Cut(S, ss, 0) = 0 /\ Len(FlattenSeq(ss)) = Cut(S, ss, Len(ss))
         /\ \A k \in 1..Len(ss) : /\ Cut(S, ss, k) = Cut(S, ss, k - 1) + Len(ss[k])
                                  /\ Len(ss[k]) \in Nat
         /\ \A k, m \in 0..Len(ss) : k <= m => Cut(S, ss, k) <= Cut(S, ss, m)
         /\ \A k \in 1..Len(ss) : \A i \in 1..Len(ss[k]) :
              FlattenSeq(ss)[Cut(S, ss, k - 1) + i] = ss[k][i]
<1> DEFINE n == Len(ss)
           f == Upto(S, ss)
           c(k) == Cut(S, ss, k)
<1>1. n \in Nat /\ \A k \in 1..n : ss[k] \in Seq(S) /\ Len(ss[k]) \in Nat
  BY LenProperties, ElementOfSeq
<1>2. /\ \A k \in 0..n : f[k] \in Seq(S)
      /\ f[0] = <<>> /\ FlattenSeq(ss) = f[n]
      /\ \A k \in 1..n : f[k] = f[k - 1] \o ss[k]
  BY UptoFacts
<1> HIDE DEF f
<1>3. \A k \in 0..n : c(k) = Len(f[k]) /\ c(k) \in Nat
  BY <1>2, LenProperties DEF Cut, f
<1>4. c(0) = 0
  BY <1>2, <1>3, EmptySeq, <1>1
<1> HIDE DEF c
<1>5. ASSUME NEW k \in 1..n
      PROVE  /\ k - 1 \in 0..n /\ k \in 0..n /\ c(k) = c(k - 1) + Len(ss[k])
             /\ \A i \in 1..c(k - 1) : f[k][i] = f[k - 1][i]
             /\ \A i \in 1..Len(ss[k]) : f[k][c(k - 1) + i] = ss[k][i]
  <2>1. k - 1 \in 0..n /\ k \in 0..n
    BY <1>1
  <2>2. f[k - 1] \in Seq(S) /\ ss[k] \in Seq(S) /\ f[k] = f[k - 1] \o ss[k]
    BY <1>1, <1>2, <2>1
  <2>3. c(k - 1) = Len(f[k - 1]) /\ c(k) = Len(f[k])
    BY <1>3, <2>1
  <2> DEFINE u == f[k - 1]
             v == ss[k]
  <2>4. u \in Seq(S) /\ v \in Seq(S) /\ f[k] = u \o v /\ c(k - 1) = Len(u)
    BY <2>2, <2>3
  <2> HIDE DEF u, v
  <2>5. /\ Len(u \o v) = Len(u) + Len(v)
        /\ \A i \in 1..Len(u) : (u \o v)[i] = u[i]
        /\ \A i \in 1..Len(v) : (u \o v)[Len(u) + i] = v[i]
    BY <2>4, JoinedAt
  <2>6. /\ c(k) = c(k - 1) + Len(v)
        /\ \A i \in 1..c(k - 1) : f[k][i] = u[i]
        /\ \A i \in 1..Len(v) : f[k][c(k - 1) + i] = v[i]
    BY <2>3, <2>4, <2>5
  <2> QED BY <2>1, <2>6 DEF u, v
<1> DEFINE T(k) == {m \in 0..n : m >= k => /\ c(k) <= c(m)
                                           /\ \A i \in 1..c(k) : f[m][i] = f[k][i]}
<1>6. ASSUME NEW k \in 0..n PROVE T(k) = 0..n
  <2>1. 0 \in T(k)
    BY <1>1, <1>4, <1>6
  <2>2. ASSUME NEW m \in 1..n, m - 1 \in T(k) PROVE m \in T(k)
    <3>1. CASE m > k
      <4>1. c(k) \in Nat /\ c(m - 1) \in Nat /\ c(m) \in Nat /\ Len(ss[m]) \in Nat
        BY <1>1, <1>3, <1>5
      <4>2. c(k) <= c(m - 1) /\ \A i \in 1..c(k) : f[m - 1][i] = f[k][i]
        BY <2>2, <3>1, <1>1
      <4>3. c(m - 1) <= c(m)
        <5>1. c(m) = c(m - 1) + Len(ss[m])
          BY <1>5
        <5> HIDE DEF c
        <5> QED BY <5>1, <4>1
      <4>4. \A i \in 1..c(k) : i \in 1..c(m - 1)
        <5> HIDE DEF c
        <5> QED BY <4>1, <4>2
      <4>5. ASSUME NEW i \in 1..c(k) PROVE f[m][i] = f[k][i]
        BY <4>2, <4>4, <1>5
      <4>6. c(k) <= c(m)
        <5> HIDE DEF c
        <5> QED BY <4>1, <4>2, <4>3
      <4> QED BY <4>5, <4>6
    <3>2. CASE m = k
      BY <3>2, <1>3, <1>5
    <3>3. CASE m < k
      BY <3>3, <1>1, <1>5
    <3> QED BY <3>1, <3>2, <3>3, <1>1, <1>6
  <2>3. T(k) \in SUBSET (0..n)
    OBVIOUS
  <2> HIDE DEF T
  <2> QED BY <2>1, <2>2, <2>3, <1>1, Induction
<1>7. \A k, m \in 0..n : k <= m => c(k) <= c(m) /\ \A i \in 1..c(k) : f[m][i] = f[k][i]
  <2> SUFFICES ASSUME NEW k \in 0..n, NEW m \in 0..n, k <= m
               PROVE  c(k) <= c(m) /\ \A i \in 1..c(k) : f[m][i] = f[k][i]
    OBVIOUS
  <2>1. m \in T(k)
    BY <1>6
  <2> QED BY <2>1
<1>8. ASSUME NEW k \in 1..n, NEW i \in 1..Len(ss[k])
      PROVE  FlattenSeq(ss)[c(k - 1) + i] = ss[k][i]
  <2>1. c(k - 1) \in Nat /\ c(k) \in Nat /\ Len(ss[k]) \in Nat /\ k \in 0..n /\ n \in 0..n
        /\ k <= n
    BY <1>1, <1>3, <1>5
  <2>2. c(k - 1) + i \in 1..c(k)
    <3> DEFINE x == c(k - 1)
               y == c(k)
               l == Len(ss[k])
    <3>1. x \in Nat /\ y \in Nat /\ l \in Nat /\ y = x + l /\ i \in 1..l
      BY <2>1, <1>5
    <3> HIDE DEF x, y, l
    <3>2. x + i \in 1..y
      BY <3>1
    <3> QED BY <3>2 DEF x, y
  <2>3. f[n][c(k - 1) + i] = f[k][c(k - 1) + i]
    BY <2>1, <2>2, <1>7
  <2> QED BY <2>3, <1>2, <1>5
<1>9. n \in 0..n /\ Len(FlattenSeq(ss)) = c(n)
  BY <1>1, <1>2, <1>3
<1> QED BY <1>1, <1>3, <1>4, <1>5, <1>7, <1>8, <1>9 DEF c

-----------------------------------------------------------------------------
(* Where the lines of a patch are *)

Secs == intent.sections
SectionsMeant == [from : Words, to : Words, hunks : Seq(Hunks)]

HunkParts(s)  == [j \in DOMAIN s.hunks |-> HunkLines(s.hunks[j])]
SectionParts  == [n \in DOMAIN Secs |-> SectionLines(Secs[n])]
WantedParts   == [n \in DOMAIN Secs |-> IF Secs[n].to = DevNull THEN <<>> ELSE <<Secs[n]>>]

\* The lines of the first j hunks and of the first n sections, and how many of
\* these are wanted.
HunkAt(s, j) == Cut(Lines, HunkParts(s), j)
SectionAt(n) == Cut(Lines, SectionParts, n)
Kept(n)      == Cut(SectionsMeant, WantedParts, n)

\* The lines a hunk is written as: its header, then its body.
LEMMA HunkLinesFacts ==
  ASSUME NEW h \in Hunks
  PROVE  /\ HunkLines(h) \in Seq(Lines) /\ Len(h.body) \in Nat
         /\ Len(HunkLines(h)) = 1 + Len(h.body)
         /\ HunkLines(h)[1].op = "@@" /\ HunkLines(h)[1].start = h.start
         /\ \A i \in 1..Len(h.body) : /\ HunkLines(h)[1 + i] = h.body[i]
                                      /\ h.body[i].op \in Ops
                                      /\ h.body[i].text \in Texts
<1> DEFINE Body  == [op : Ops, text : Texts, start : Nat]
           first == [op |-> "@@", text |-> Empty, start |-> h.start]
<1>1. h.body \in Seq(Body) /\ h.start \in Nat /\ Blank \in Paths
  BY PatchAssumption DEF Hunks
<1>2. Body \subseteq Lines
  BY DEF Lines
<1>3. h.body \in Seq(Lines)
  <2> HIDE DEF Body
  <2> QED BY <1>1, <1>2, SeqMonotonic
<1>4. first \in Lines /\ first.op = "@@" /\ first.start = h.start
  <2>1. Empty \in Texts
    BY <1>1 DEF Empty, Texts, Leads
  <2> QED BY <2>1, <1>1 DEF Lines
<1>5. ASSUME NEW i \in 1..Len(h.body)
      PROVE  h.body[i].op \in Ops /\ h.body[i].text \in Texts
  <2>1. h.body[i] \in Body
    <3> HIDE DEF Body
    <3> QED BY <1>1, ElementOfSeq
  <2> QED BY <2>1
<1> DEFINE one == <<first>>
           two == h.body
<1> HIDE DEF first, Body
<1>6. one \in Seq(Lines) /\ Len(one) = 1 /\ one[1] = first
  BY <1>4
<1>7. HunkLines(h) = one \o two /\ two \in Seq(Lines)
  BY <1>3 DEF HunkLines, first
<1> HIDE DEF one, two
<1>8. one \in Seq(Lines) /\ two \in Seq(Lines)
  BY <1>6, <1>7
<1>9. /\ one \o two \in Seq(Lines) /\ Len(one \o two) = Len(one) + Len(two)
      /\ Len(one) \in Nat /\ Len(two) \in Nat
      /\ \A i \in 1..Len(one) : (one \o two)[i] = one[i]
      /\ \A i \in 1..Len(two) : (one \o two)[Len(one) + i] = two[i]
  BY <1>8, JoinedAt
<1> QED BY <1>4, <1>5, <1>6, <1>7, <1>9 DEF two

\* Where each hunk of a section lies among the lines of its body.
LEMMA HunkLayout ==
  ASSUME NEW s \in SectionsMeant
  PROVE  /\ BodyLines(s) \in Seq(Lines) /\ Len(s.hunks) \in Nat
         /\ DOMAIN s.hunks = 1..Len(s.hunks)
         /\ Len(BodyLines(s)) = HunkAt(s, Len(s.hunks)) /\ HunkAt(s, 0) = 0
         /\ \A j \in 0..Len(s.hunks) : HunkAt(s, j) \in Nat
         /\ \A j, k \in 0..Len(s.hunks) : j <= k => HunkAt(s, j) <= HunkAt(s, k)
         /\ \A j \in 1..Len(s.hunks) :
              /\ s.hunks[j] \in Hunks /\ Len(s.hunks[j].body) \in Nat
              /\ HunkAt(s, j) = HunkAt(s, j - 1) + 1 + Len(s.hunks[j].body)
              /\ BodyLines(s)[HunkAt(s, j - 1) + 1].op = "@@"
              /\ BodyLines(s)[HunkAt(s, j - 1) + 1].start = s.hunks[j].start
              /\ \A i \in 1..Len(s.hunks[j].body) :
                   BodyLines(s)[HunkAt(s, j - 1) + 1 + i] = s.hunks[j].body[i]
<1> DEFINE H == Len(s.hunks)
           p == HunkParts(s)
<1>1. /\ s.hunks \in Seq(Hunks) /\ H \in Nat /\ DOMAIN s.hunks = 1..H
      /\ \A j \in 1..H : s.hunks[j] \in Hunks
  BY LenProperties, ElementOfSeq DEF SectionsMeant
<1>2. p \in Seq(Seq(Lines)) /\ Len(p) = H /\ \A j \in 1..H : p[j] = HunkLines(s.hunks[j])
  <2>1. \A j \in 1..H : p[j] = HunkLines(s.hunks[j])
    BY <1>1 DEF HunkParts
  <2>2. p = [j \in 1..H |-> p[j]]
    BY <1>1 DEF HunkParts
  <2>3. \A j \in 1..H : p[j] \in Seq(Lines)
    BY <2>1, <1>1, HunkLinesFacts
  <2> HIDE DEF p, H
  <2>4. p \in Seq(Seq(Lines)) /\ Len(p) = IF H > 0 THEN H ELSE 0
    BY <2>2, <2>3, <1>1, SeqOn
  <2> QED BY <2>1, <2>4, <1>1 DEF H
<1>3. BodyLines(s) = FlattenSeq(p)
  BY DEF BodyLines, HunkParts
<1>4. \A j : HunkAt(s, j) = Cut(Lines, p, j)
  BY DEF HunkAt
<1> HIDE DEF p, H
<1>5. FlattenSeq(p) \in Seq(Lines)
  BY <1>2, UptoFacts
<1>6. /\ \A k \in 0..H : Cut(Lines, p, k) \in Nat
      /\ Cut(Lines, p, 0) = 0 /\ Len(FlattenSeq(p)) = Cut(Lines, p, H)
      /\ \A k \in 1..H : Cut(Lines, p, k) = Cut(Lines, p, k - 1) + Len(p[k])
      /\ \A k, m \in 0..H : k <= m => Cut(Lines, p, k) <= Cut(Lines, p, m)
      /\ \A k \in 1..H : \A i \in 1..Len(p[k]) :
           FlattenSeq(p)[Cut(Lines, p, k - 1) + i] = p[k][i]
  <2>1. p \in Seq(Seq(Lines))
    BY <1>2
  <2>2. Cut(Lines, p, 0) = 0 /\ Len(FlattenSeq(p)) = Cut(Lines, p, Len(p))
    BY <2>1, CutFacts
  <2>4. ASSUME NEW k \in 0..Len(p), NEW m \in 0..Len(p)
        PROVE  Cut(Lines, p, k) \in Nat /\ (k <= m => Cut(Lines, p, k) <= Cut(Lines, p, m))
    BY <2>1, CutFacts
  <2>5. ASSUME NEW k \in 1..Len(p)
        PROVE  Cut(Lines, p, k) = Cut(Lines, p, k - 1) + Len(p[k]) /\ Len(p[k]) \in Nat
    BY <2>1, CutFacts
  <2>3. ASSUME NEW k \in 1..Len(p), NEW i \in 1..Len(p[k])
        PROVE  FlattenSeq(p)[Cut(Lines, p, k - 1) + i] = p[k][i]
    BY <2>1, CutFacts
  <2> QED BY <2>2, <2>3, <2>4, <2>5, <1>2
<1>7. ASSUME NEW j \in 1..H
      PROVE  /\ s.hunks[j] \in Hunks /\ Len(s.hunks[j].body) \in Nat
             /\ HunkAt(s, j) = HunkAt(s, j - 1) + 1 + Len(s.hunks[j].body)
             /\ BodyLines(s)[HunkAt(s, j - 1) + 1].op = "@@"
             /\ BodyLines(s)[HunkAt(s, j - 1) + 1].start = s.hunks[j].start
             /\ \A i \in 1..Len(s.hunks[j].body) :
                  BodyLines(s)[HunkAt(s, j - 1) + 1 + i] = s.hunks[j].body[i]
  <2> DEFINE h == s.hunks[j]
             c == HunkAt(s, j - 1)
  <2>1. h \in Hunks /\ p[j] = HunkLines(h) /\ j - 1 \in 0..H
    BY <1>1, <1>2
  <2>2. c \in Nat
    BY <2>1, <1>4, <1>6
  <2>3. /\ Len(h.body) \in Nat /\ Len(p[j]) = 1 + Len(h.body)
        /\ p[j][1].op = "@@" /\ p[j][1].start = h.start
        /\ \A i \in 1..Len(h.body) : p[j][1 + i] = h.body[i]
    BY <2>1, HunkLinesFacts
  <2>4. HunkAt(s, j) = c + Len(p[j])
        /\ \A i \in 1..Len(p[j]) : BodyLines(s)[c + i] = p[j][i]
    BY <1>3, <1>4, <1>6
  <2> HIDE DEF c, h
  <2>5. HunkAt(s, j) = c + 1 + Len(h.body) /\ 1 \in 1..Len(p[j])
    <3> DEFINE l == Len(h.body)
               m == Len(p[j])
    <3>1. c \in Nat /\ l \in Nat /\ m = 1 + l
      BY <2>2, <2>3
    <3>2. HunkAt(s, j) = c + m
      BY <2>4
    <3> HIDE DEF l, m
    <3>3. c + m = c + 1 + l /\ 1 \in 1..m
      BY <3>1
    <3> QED BY <3>2, <3>3 DEF l, m
  <2>6. ASSUME NEW i \in 1..Len(h.body) PROVE BodyLines(s)[c + 1 + i] = h.body[i]
    <3>1. 1 + i \in 1..Len(p[j]) /\ c + 1 + i = c + (1 + i)
      BY <2>2, <2>3
    <3> QED BY <3>1, <2>3, <2>4
  <2> QED BY <2>1, <2>3, <2>4, <2>5, <2>6 DEF c, h
<1>8. /\ BodyLines(s) \in Seq(Lines) /\ Len(BodyLines(s)) = HunkAt(s, H)
      /\ HunkAt(s, 0) = 0
  BY <1>3, <1>4, <1>5, <1>6
<1>9. /\ \A j \in 0..H : HunkAt(s, j) \in Nat
      /\ \A j, k \in 0..H : j <= k => HunkAt(s, j) <= HunkAt(s, k)
  BY <1>4, <1>6
<1> QED BY <1>1, <1>7, <1>8, <1>9 DEF H

\* The patch that is meant: sections, and whether a newline ends it.
LEMMA IntentFacts ==
  ASSUME intent \in Intents
  PROVE  /\ Secs \in Seq(SectionsMeant) /\ Len(Secs) \in Nat /\ intent.nl \in BOOLEAN
         /\ DOMAIN Secs = 1..Len(Secs)
         /\ \A n \in 1..Len(Secs) : Secs[n] \in SectionsMeant
<1> DEFINE M == [from : Paths \cup {DevNull}, to : Paths \cup {DevNull}, hunks : Seq(Hunks)]
<1>1. intent \in [sections : Seq(M), nl : BOOLEAN]
  BY PatchAssumption
<1>2. M = SectionsMeant
  BY DEF SectionsMeant, Words
<1> HIDE DEF M
<1>3. Secs \in Seq(SectionsMeant) /\ intent.nl \in BOOLEAN
  BY <1>1, <1>2 DEF Secs
<1> QED BY <1>3, LenProperties, ElementOfSeq

\* A section: its two headers and its hunks.
LEMMA SectionFacts ==
  ASSUME NEW s \in SectionsMeant
  PROVE  /\ SectionLines(s) \in Seq(Lines) /\ Len(BodyLines(s)) \in Nat
         /\ Len(SectionLines(s)) = 2 + Len(BodyLines(s))
         /\ SectionLines(s)[1] = Line("-", "--", s.from)
         /\ SectionLines(s)[2] = Line("+", "++", s.to)
         /\ \A q \in 1..Len(BodyLines(s)) : SectionLines(s)[2 + q] = BodyLines(s)[q]
<1> DEFINE one == <<Line("-", "--", s.from), Line("+", "++", s.to)>>
           two == BodyLines(s)
<1>1. Line("-", "--", s.from) \in Lines /\ Line("+", "++", s.to) \in Lines
  <2>1. s.from \in Words /\ s.to \in Words
    BY DEF SectionsMeant
  <2> QED BY <2>1 DEF Line, Lines, Texts, Leads, Words, Ops
<1>2. /\ one \in Seq(Lines) /\ Len(one) = 2 /\ one[1] = Line("-", "--", s.from)
      /\ one[2] = Line("+", "++", s.to)
  BY <1>1
<1>3. two \in Seq(Lines)
  BY HunkLayout
<1>4. SectionLines(s) = one \o two
  BY DEF SectionLines
<1> HIDE DEF one, two
<1>5. one \in Seq(Lines) /\ two \in Seq(Lines)
  BY <1>2, <1>3
<1>6. /\ one \o two \in Seq(Lines) /\ Len(one \o two) = Len(one) + Len(two)
      /\ Len(one) \in Nat /\ Len(two) \in Nat
      /\ \A i \in 1..Len(one) : (one \o two)[i] = one[i]
      /\ \A i \in 1..Len(two) : (one \o two)[Len(one) + i] = two[i]
  BY <1>5, JoinedAt
<1> QED BY <1>2, <1>4, <1>6 DEF two

\* Where each section lies in the patch: two header lines, then its body.
LEMMA PatchLayout ==
  ASSUME intent \in Intents, patch = Render(intent)
  PROVE  /\ patch \in Seq(Lines) /\ SectionAt(0) = 0
         /\ \A n \in 0..Len(Secs) : SectionAt(n) \in Nat
         /\ \A n, m \in 0..Len(Secs) : n <= m => SectionAt(n) <= SectionAt(m)
         /\ Len(patch) = SectionAt(Len(Secs)) + IF intent.nl THEN 1 ELSE 0
         /\ intent.nl => patch[SectionAt(Len(Secs)) + 1] = EmptyLine
         /\ \A n \in 1..Len(Secs) :
              /\ SectionAt(n) = SectionAt(n - 1) + 2 + Len(BodyLines(Secs[n]))
              /\ patch[SectionAt(n - 1) + 1] = Line("-", "--", Secs[n].from)
              /\ patch[SectionAt(n - 1) + 2] = Line("+", "++", Secs[n].to)
              /\ \A q \in 1..Len(BodyLines(Secs[n])) :
                   patch[SectionAt(n - 1) + 2 + q] = BodyLines(Secs[n])[q]
<1> DEFINE N == Len(Secs)
           p == SectionParts
           tail == IF intent.nl THEN <<EmptyLine>> ELSE <<>>
<1>1. /\ N \in Nat /\ DOMAIN Secs = 1..N /\ intent.nl \in BOOLEAN
      /\ \A n \in 1..N : Secs[n] \in SectionsMeant
  BY IntentFacts
<1>2. /\ p \in Seq(Seq(Lines)) /\ Len(p) = N
      /\ \A n \in 1..N : p[n] = SectionLines(Secs[n])
  <2>1. \A n \in 1..N : p[n] = SectionLines(Secs[n])
    BY <1>1 DEF SectionParts
  <2>2. p = [n \in 1..N |-> p[n]]
    BY <1>1 DEF SectionParts
  <2>3. \A n \in 1..N : p[n] \in Seq(Lines)
    BY <2>1, <1>1, SectionFacts
  <2> HIDE DEF p, N
  <2>4. p \in Seq(Seq(Lines)) /\ Len(p) = IF N > 0 THEN N ELSE 0
    BY <2>2, <2>3, <1>1, SeqOn
  <2> QED BY <2>1, <2>4, <1>1
<1>3. patch = FlattenSeq(p) \o tail
  BY DEF Render, SectionParts, Secs
<1>4. \A n : SectionAt(n) = Cut(Lines, p, n)
  BY DEF SectionAt
<1>5. /\ tail \in Seq(Lines) /\ Len(tail) = IF intent.nl THEN 1 ELSE 0
      /\ intent.nl => tail[1] = EmptyLine
  <2>1. EmptyLine \in Lines
    BY PatchAssumption DEF EmptyLine, Line, Lines, Texts, Leads, Ops
  <2>2. CASE intent.nl
    BY <2>1, <2>2
  <2>3. CASE ~intent.nl
    BY <2>3, EmptySeq
  <2> QED BY <2>2, <2>3
<1> HIDE DEF p, N, tail
<1>6. FlattenSeq(p) \in Seq(Lines)
  BY <1>2, UptoFacts
<1>7. /\ \A k \in 0..N : Cut(Lines, p, k) \in Nat
      /\ Cut(Lines, p, 0) = 0 /\ Len(FlattenSeq(p)) = Cut(Lines, p, N)
      /\ \A k \in 1..N : Cut(Lines, p, k) = Cut(Lines, p, k - 1) + Len(p[k])
      /\ \A k, m \in 0..N : k <= m => Cut(Lines, p, k) <= Cut(Lines, p, m)
      /\ \A k \in 1..N : \A i \in 1..Len(p[k]) :
           FlattenSeq(p)[Cut(Lines, p, k - 1) + i] = p[k][i]
  <2>0. p \in Seq(Seq(Lines))
    BY <1>2
  <2>1. /\ \A k \in 0..Len(p) : Cut(Lines, p, k) \in Nat
        /\ Cut(Lines, p, 0) = 0 /\ Len(FlattenSeq(p)) = Cut(Lines, p, Len(p))
        /\ \A k \in 1..Len(p) : /\ Cut(Lines, p, k) = Cut(Lines, p, k - 1) + Len(p[k])
                                /\ Len(p[k]) \in Nat
        /\ \A k, m \in 0..Len(p) : k <= m => Cut(Lines, p, k) <= Cut(Lines, p, m)
        /\ \A k \in 1..Len(p) : \A i \in 1..Len(p[k]) :
             FlattenSeq(p)[Cut(Lines, p, k - 1) + i] = p[k][i]
    BY <2>0, CutFacts
  <2> QED BY <2>1, <1>2
<1> DEFINE flat == FlattenSeq(p)
<1>8. flat \in Seq(Lines) /\ tail \in Seq(Lines) /\ patch = flat \o tail
      /\ Len(flat) = SectionAt(N)
  BY <1>3, <1>4, <1>5, <1>6, <1>7
<1>9. \A k \in 1..N : \A i \in 1..Len(p[k]) : flat[SectionAt(k - 1) + i] = p[k][i]
  BY <1>4, <1>7
<1>10. /\ SectionAt(0) = 0 /\ \A n \in 0..N : SectionAt(n) \in Nat
       /\ \A n, m \in 0..N : n <= m => SectionAt(n) <= SectionAt(m)
       /\ \A n \in 1..N : SectionAt(n) = SectionAt(n - 1) + Len(p[n])
  BY <1>4, <1>7
<1> HIDE DEF flat
<1>11. /\ flat \o tail \in Seq(Lines) /\ Len(flat \o tail) = Len(flat) + Len(tail)
       /\ Len(flat) \in Nat /\ Len(tail) \in Nat
       /\ \A i \in 1..Len(flat) : (flat \o tail)[i] = flat[i]
       /\ \A i \in 1..Len(tail) : (flat \o tail)[Len(flat) + i] = tail[i]
  <2>1. flat \in Seq(Lines) /\ tail \in Seq(Lines)
    BY <1>8
  <2> QED BY <2>1, JoinedAt
<1>12. /\ patch \in Seq(Lines) /\ Len(patch) = SectionAt(N) + IF intent.nl THEN 1 ELSE 0
       /\ intent.nl => patch[SectionAt(N) + 1] = EmptyLine
  <2>1. patch \in Seq(Lines) /\ Len(patch) = SectionAt(N) + Len(tail)
    BY <1>8, <1>11
  <2>2. ASSUME intent.nl PROVE patch[SectionAt(N) + 1] = EmptyLine
    <3>1. 1 \in 1..Len(tail)
      BY <1>5, <2>2
    <3> QED BY <3>1, <1>5, <1>8, <1>11, <2>2
  <2> QED BY <2>1, <2>2, <1>5
<1>13. ASSUME NEW n \in 1..N
       PROVE  /\ SectionAt(n) = SectionAt(n - 1) + 2 + Len(BodyLines(Secs[n]))
              /\ patch[SectionAt(n - 1) + 1] = Line("-", "--", Secs[n].from)
              /\ patch[SectionAt(n - 1) + 2] = Line("+", "++", Secs[n].to)
              /\ \A q \in 1..Len(BodyLines(Secs[n])) :
                   patch[SectionAt(n - 1) + 2 + q] = BodyLines(Secs[n])[q]
  <2> DEFINE a == SectionAt(n - 1)
             b == BodyLines(Secs[n])
  <2>1. n - 1 \in 0..N /\ n \in 0..N /\ n <= N /\ N \in 0..N
    BY <1>1
  <2>2. a \in Nat /\ SectionAt(n) = a + Len(p[n]) /\ SectionAt(n) <= Len(flat)
    BY <2>1, <1>8, <1>10
  <2>3. /\ Len(b) \in Nat /\ Len(p[n]) = 2 + Len(b)
        /\ p[n][1] = Line("-", "--", Secs[n].from)
        /\ p[n][2] = Line("+", "++", Secs[n].to)
        /\ \A q \in 1..Len(b) : p[n][2 + q] = b[q]
    <3>1. Secs[n] \in SectionsMeant /\ p[n] = SectionLines(Secs[n])
      BY <1>1, <1>2
    <3> QED BY <3>1, SectionFacts
  <2>4. \A i \in 1..Len(p[n]) : flat[a + i] = p[n][i]
    BY <1>9
  <2> HIDE DEF a, b
  <2>5. \A i \in 1..Len(p[n]) : patch[a + i] = p[n][i]
    <3> SUFFICES ASSUME NEW i \in 1..Len(p[n]) PROVE patch[a + i] = p[n][i]
      OBVIOUS
    <3>1. a + i \in 1..Len(flat)
      BY <2>2, <2>3, <1>11
    <3> QED BY <3>1, <2>4, <1>8, <1>11
  <2>6. SectionAt(n) = a + 2 + Len(b)
    BY <2>2, <2>3
  <2>7. 1 \in 1..Len(p[n]) /\ 2 \in 1..Len(p[n])
    BY <2>3
  <2>8. ASSUME NEW q \in 1..Len(b) PROVE patch[a + 2 + q] = b[q]
    <3>1. 2 + q \in 1..Len(p[n]) /\ a + 2 + q = a + (2 + q)
      BY <2>2, <2>3
    <3> QED BY <3>1, <2>3, <2>5
  <2> QED BY <2>3, <2>5, <2>6, <2>7, <2>8 DEF a, b
<1> QED BY <1>10, <1>12, <1>13 DEF N

\* The sections that are not deletions, in their order.
LEMMA WantedLayout ==
  ASSUME intent \in Intents
  PROVE  /\ Wanted \in Seq(SectionsMeant) /\ Kept(0) = 0 /\ Len(Wanted) = Kept(Len(Secs))
         /\ \A n \in 0..Len(Secs) : Kept(n) \in Nat /\ Kept(n) <= Len(Wanted)
         /\ \A n \in 1..Len(Secs) :
              IF Secs[n].to = DevNull THEN Kept(n) = Kept(n - 1)
              ELSE Kept(n) = Kept(n - 1) + 1 /\ Wanted[Kept(n)] = Secs[n]
<1> DEFINE N == Len(Secs)
           p == WantedParts
<1>1. /\ N \in Nat /\ DOMAIN Secs = 1..N
      /\ \A n \in 1..N : Secs[n] \in SectionsMeant
  BY IntentFacts
<1>2. /\ p \in Seq(Seq(SectionsMeant)) /\ Len(p) = N
      /\ \A n \in 1..N : p[n] = IF Secs[n].to = DevNull THEN <<>> ELSE <<Secs[n]>>
  <2>1. \A n \in 1..N : p[n] = IF Secs[n].to = DevNull THEN <<>> ELSE <<Secs[n]>>
    BY <1>1 DEF WantedParts
  <2>2. p = [n \in 1..N |-> p[n]]
    BY <1>1 DEF WantedParts
  <2>3. ASSUME NEW n \in 1..N PROVE p[n] \in Seq(SectionsMeant)
    <3>1. <<Secs[n]>> \in Seq(SectionsMeant) /\ <<>> \in Seq(SectionsMeant)
      BY <1>1, EmptySeq
    <3> QED BY <3>1, <2>1
  <2> HIDE DEF p, N
  <2>4. p \in Seq(Seq(SectionsMeant)) /\ Len(p) = IF N > 0 THEN N ELSE 0
    BY <2>2, <2>3, <1>1, SeqOn
  <2> QED BY <2>1, <2>4, <1>1
<1>3. Wanted = FlattenSeq(p)
  BY DEF Wanted, WantedParts, Secs
<1>4. \A n : Kept(n) = Cut(SectionsMeant, p, n)
  BY DEF Kept
<1> HIDE DEF p, N
<1>5. Wanted \in Seq(SectionsMeant)
  BY <1>2, <1>3, UptoFacts
<1>6. /\ \A k \in 0..N : Kept(k) \in Nat
      /\ Kept(0) = 0 /\ Len(Wanted) = Kept(N)
      /\ \A k \in 1..N : Kept(k) = Kept(k - 1) + Len(p[k])
      /\ \A k, m \in 0..N : k <= m => Kept(k) <= Kept(m)
      /\ \A k \in 1..N : \A i \in 1..Len(p[k]) : Wanted[Kept(k - 1) + i] = p[k][i]
  <2>0. p \in Seq(Seq(SectionsMeant))
    BY <1>2
  <2>1. /\ \A k \in 0..Len(p) : Cut(SectionsMeant, p, k) \in Nat
        /\ Cut(SectionsMeant, p, 0) = 0
        /\ Len(FlattenSeq(p)) = Cut(SectionsMeant, p, Len(p))
        /\ \A k \in 1..Len(p) :
             /\ Cut(SectionsMeant, p, k) = Cut(SectionsMeant, p, k - 1) + Len(p[k])
             /\ Len(p[k]) \in Nat
        /\ \A k, m \in 0..Len(p) :
             k <= m => Cut(SectionsMeant, p, k) <= Cut(SectionsMeant, p, m)
        /\ \A k \in 1..Len(p) : \A i \in 1..Len(p[k]) :
             FlattenSeq(p)[Cut(SectionsMeant, p, k - 1) + i] = p[k][i]
    BY <2>0, CutFacts
  <2> QED BY <2>1, <1>2, <1>3, <1>4
<1>7. ASSUME NEW n \in 1..N
      PROVE  IF Secs[n].to = DevNull THEN Kept(n) = Kept(n - 1)
             ELSE Kept(n) = Kept(n - 1) + 1 /\ Wanted[Kept(n)] = Secs[n]
  <2>1. n - 1 \in 0..N /\ Kept(n - 1) \in Nat
    BY <1>1, <1>6
  <2>2. CASE Secs[n].to = DevNull
    <3>1. Len(p[n]) = 0
      BY <2>2, <1>2
    <3> QED BY <3>1, <2>1, <2>2, <1>6
  <2>3. CASE Secs[n].to # DevNull
    <3>1. Len(p[n]) = 1 /\ p[n][1] = Secs[n]
      BY <2>3, <1>2
    <3>2. Kept(n) = Kept(n - 1) + 1
      BY <3>1, <1>6
    <3>3. 1 \in 1..Len(p[n])
      BY <3>1
    <3>4. Wanted[Kept(n - 1) + 1] = Secs[n]
      BY <3>1, <3>3, <1>6
    <3> QED BY <3>2, <3>4, <2>3
  <2> QED BY <2>2, <2>3
<1>8. \A n \in 0..N : Kept(n) <= Len(Wanted)
  <2>1. N \in 0..N /\ \A n \in 0..N : n <= N
    BY <1>1
  <2> QED BY <2>1, <1>6
<1> QED BY <1>5, <1>6, <1>7, <1>8 DEF N

\* The texts of the lines of a hunk that have one of ops, up to its line i.
TextParts(h, ops) ==
  [i \in DOMAIN h.body |-> IF h.body[i].op \in ops THEN <<h.body[i].text>> ELSE <<>>]
TextUpto(h, ops, i) == Upto(Texts, TextParts(h, ops))[i]
TextAt(h, ops, i)   == Cut(Texts, TextParts(h, ops), i)

\* How the texts that a set of operations selects grow along a hunk.
LEMMA TextLayout ==
  ASSUME NEW h \in Hunks, NEW ops
  PROVE  /\ TextsOf(h, ops) \in Seq(Texts) /\ Len(h.body) \in Nat
         /\ TextAt(h, ops, 0) = 0 /\ TextAt(h, ops, Len(h.body)) = Len(TextsOf(h, ops))
         /\ TextUpto(h, ops, 0) = <<>> /\ TextUpto(h, ops, Len(h.body)) = TextsOf(h, ops)
         /\ \A i \in 0..Len(h.body) :
              /\ TextAt(h, ops, i) \in Nat /\ TextAt(h, ops, i) <= Len(TextsOf(h, ops))
              /\ TextUpto(h, ops, i) \in Seq(Texts)
         /\ \A i \in 1..Len(h.body) :
              IF h.body[i].op \in ops
              THEN /\ TextAt(h, ops, i) = TextAt(h, ops, i - 1) + 1
                   /\ TextsOf(h, ops)[TextAt(h, ops, i)] = h.body[i].text
                   /\ TextUpto(h, ops, i) = Append(TextUpto(h, ops, i - 1), h.body[i].text)
              ELSE /\ TextAt(h, ops, i) = TextAt(h, ops, i - 1)
                   /\ TextUpto(h, ops, i) = TextUpto(h, ops, i - 1)
<1> DEFINE L == Len(h.body)
           p == TextParts(h, ops)
           all == TextsOf(h, ops)
<1>1. L \in Nat /\ DOMAIN h.body = 1..L /\ \A i \in 1..L : h.body[i].text \in Texts
  <2>1. \A i \in 1..L : h.body[i].text \in Texts
    BY HunkLinesFacts
  <2>2. h.body \in Seq([op : Ops, text : Texts, start : Nat])
    BY DEF Hunks
  <2> QED BY <2>1, <2>2, LenProperties
<1>2. /\ p \in Seq(Seq(Texts)) /\ Len(p) = L
      /\ \A i \in 1..L : p[i] = IF h.body[i].op \in ops THEN <<h.body[i].text>> ELSE <<>>
  <2>1. \A i \in 1..L : p[i] = IF h.body[i].op \in ops THEN <<h.body[i].text>> ELSE <<>>
    BY <1>1 DEF TextParts
  <2>2. p = [i \in 1..L |-> p[i]]
    BY <1>1 DEF TextParts
  <2>3. ASSUME NEW i \in 1..L PROVE p[i] \in Seq(Texts)
    <3>1. <<h.body[i].text>> \in Seq(Texts) /\ <<>> \in Seq(Texts)
      BY <1>1, EmptySeq
    <3> QED BY <3>1, <2>1
  <2> HIDE DEF p, L
  <2>4. p \in Seq(Seq(Texts)) /\ Len(p) = IF L > 0 THEN L ELSE 0
    BY <2>2, <2>3, <1>1, SeqOn
  <2> QED BY <2>1, <2>4, <1>1
<1>3. all = FlattenSeq(p)
  BY DEF TextsOf, TextParts
<1>4. \A i : TextAt(h, ops, i) = Cut(Texts, p, i) /\ TextUpto(h, ops, i) = Upto(Texts, p)[i]
  BY DEF TextAt, TextUpto
<1> DEFINE c(i) == TextAt(h, ops, i)
           u(i) == TextUpto(h, ops, i)
<1> HIDE DEF p, L, all, c, u
<1>5. p \in Seq(Seq(Texts))
  BY <1>2
<1>6. /\ \A k \in 0..L : u(k) \in Seq(Texts)
      /\ u(0) = <<>> /\ all = u(L) /\ all \in Seq(Texts)
      /\ \A k \in 1..L : u(k) = u(k - 1) \o p[k]
  <2>1. /\ \A k \in 0..Len(p) : Upto(Texts, p)[k] \in Seq(Texts)
        /\ Upto(Texts, p)[0] = <<>>
        /\ \A k \in 1..Len(p) : Upto(Texts, p)[k] = Upto(Texts, p)[k - 1] \o p[k]
        /\ FlattenSeq(p) = Upto(Texts, p)[Len(p)]
        /\ FlattenSeq(p) \in Seq(Texts)
    BY <1>5, UptoFacts
  <2> QED BY <2>1, <1>2, <1>3, <1>4 DEF u
<1>7. /\ \A k \in 0..L : c(k) \in Nat
      /\ c(0) = 0 /\ Len(all) = c(L)
      /\ \A k \in 1..L : c(k) = c(k - 1) + Len(p[k])
      /\ \A k, m \in 0..L : k <= m => c(k) <= c(m)
      /\ \A k \in 1..L : \A i \in 1..Len(p[k]) : all[c(k - 1) + i] = p[k][i]
  <2>1. /\ \A k \in 0..Len(p) : Cut(Texts, p, k) \in Nat
        /\ Cut(Texts, p, 0) = 0 /\ Len(FlattenSeq(p)) = Cut(Texts, p, Len(p))
        /\ \A k \in 1..Len(p) : /\ Cut(Texts, p, k) = Cut(Texts, p, k - 1) + Len(p[k])
                                /\ Len(p[k]) \in Nat
        /\ \A k, m \in 0..Len(p) : k <= m => Cut(Texts, p, k) <= Cut(Texts, p, m)
        /\ \A k \in 1..Len(p) : \A i \in 1..Len(p[k]) :
             FlattenSeq(p)[Cut(Texts, p, k - 1) + i] = p[k][i]
    BY <1>5, CutFacts
  <2> QED BY <2>1, <1>2, <1>3, <1>4 DEF c
<1>8. ASSUME NEW i \in 1..L
      PROVE  IF h.body[i].op \in ops
             THEN /\ c(i) = c(i - 1) + 1 /\ all[c(i)] = h.body[i].text
                  /\ u(i) = Append(u(i - 1), h.body[i].text)
             ELSE c(i) = c(i - 1) /\ u(i) = u(i - 1)
  <2>1. i - 1 \in 0..L
    BY <1>1
  <2>2. c(i - 1) \in Nat /\ u(i - 1) \in Seq(Texts)
    BY <2>1, <1>6, <1>7
  <2>3. CASE h.body[i].op \in ops
    <3>1. p[i] = <<h.body[i].text>> /\ Len(p[i]) = 1 /\ p[i][1] = h.body[i].text
      BY <2>3, <1>2
    <3>2. c(i) = c(i - 1) + 1
      BY <3>1, <1>7
    <3>3. 1 \in 1..Len(p[i])
      BY <3>1
    <3>4. all[c(i - 1) + 1] = h.body[i].text
      BY <3>1, <3>3, <1>7
    <3>5. u(i) = u(i - 1) \o <<h.body[i].text>>
      BY <3>1, <1>6
    <3>6. Append(u(i - 1), h.body[i].text) = u(i - 1) \o <<h.body[i].text>>
      BY <2>2, <1>1, AppendIsConcat
    <3> QED BY <2>3, <3>2, <3>4, <3>5, <3>6
  <2>4. CASE h.body[i].op \notin ops
    <3>1. p[i] = <<>> /\ Len(p[i]) = 0
      BY <2>4, <1>2
    <3>2. c(i) = c(i - 1)
      BY <3>1, <2>2, <1>7
    <3>3. u(i) = u(i - 1) \o <<>>
      BY <3>1, <1>6
    <3>4. u(i) = u(i - 1)
      BY <3>3, <2>2, ConcatEmptySeq
    <3> QED BY <3>2, <3>4, <2>4
  <2> QED BY <2>3, <2>4
<1>9. \A i \in 0..L : c(i) <= Len(all)
  <2>1. L \in 0..L /\ \A i \in 0..L : i <= L
    BY <1>1
  <2> QED BY <2>1, <1>7
<1> QED BY <1>1, <1>6, <1>7, <1>8, <1>9 DEF L, all, c, u

-----------------------------------------------------------------------------
(* The parser finds the sections again *)

\* The patch is the one that was meant.
Meant == intent \in Intents /\ patch = Render(intent)

HunksOf(n)    == Len(Secs[n].hunks)
HunkOf(n, j)  == Secs[n].hunks[j]
LinesOf(n, j) == Len(HunkOf(n, j).body)

\* The line of the patch that begins section n, and the one that begins its
\* hunk j.
SectionStart(n) == SectionAt(n - 1) + 1
HunkStart(n, j) == SectionAt(n - 1) + 2 + HunkAt(Secs[n], j - 1) + 1

\* What Regular says of hunk j of section n.
LEMMA RegularFacts ==
  ASSUME Regular, intent \in Intents, NEW n \in 1..Len(Secs)
  PROVE  /\ HunksOf(n) \in Nat \ {0} /\ Secs[n] \in SectionsMeant
         /\ \A j \in 1..HunksOf(n) :
              LET body == HunkOf(n, j).body
              IN  /\ HunkOf(n, j) \in Hunks /\ LinesOf(n, j) \in Nat
                  /\ \A i \in 1..LinesOf(n, j) :
                       /\ body[i].op = "-" /\ body[i].text.lead = "--"
                       /\ i + 1 \in 1..LinesOf(n, j)
                       /\ body[i + 1].op = "+" /\ body[i + 1].text.lead = "++"
                       => /\ i + 1 = LinesOf(n, j) =>
                               intent.nl /\ n = Len(Secs) /\ j = HunksOf(n)
                          /\ i + 2 \in 1..LinesOf(n, j) =>
                               ~(body[i + 2].op = "-" /\ body[i + 2].text.lead = "--")
                  /\ Secs[n].from # DevNull =>
                       /\ HunkOf(n, j).start > 0 /\ OldOf(HunkOf(n, j)) # <<>>
                       /\ j > 1 => EndOf(HunkOf(n, j - 1)) <= HunkOf(n, j).start
                  /\ Secs[n].to = DevNull =>
                       \A i \in 1..LinesOf(n, j) : body[i].op # "+"
<1> DEFINE s == Secs[n]
           H == HunksOf(n)
<1>1. n \in DOMAIN Secs /\ s \in SectionsMeant
  BY IntentFacts
<1>2. /\ s.hunks # <<>> /\ s.hunks \in Seq(Hunks) /\ H \in Nat /\ DOMAIN s.hunks = 1..H
      /\ \A j \in 1..H : HunkOf(n, j) \in Hunks
  <2>1. s.hunks # <<>>
    BY <1>1 DEF Regular, Usual, Secs
  <2>2. s.hunks \in Seq(Hunks)
    BY <1>1 DEF SectionsMeant
  <2> QED BY <2>1, <2>2, LenProperties, ElementOfSeq DEF HunksOf, HunkOf
<1>3. H \in Nat \ {0}
  BY <1>2, EmptySeq DEF HunksOf
<1>4. ASSUME NEW j \in 1..H
      PROVE  LET body == HunkOf(n, j).body
             IN  /\ LinesOf(n, j) \in Nat
                 /\ \A i \in 1..LinesOf(n, j) :
                       /\ body[i].op = "-" /\ body[i].text.lead = "--"
                       /\ i + 1 \in 1..LinesOf(n, j)
                       /\ body[i + 1].op = "+" /\ body[i + 1].text.lead = "++"
                       => /\ i + 1 = LinesOf(n, j) =>
                               intent.nl /\ n = Len(Secs) /\ j = HunksOf(n)
                          /\ i + 2 \in 1..LinesOf(n, j) =>
                               ~(body[i + 2].op = "-" /\ body[i + 2].text.lead = "--")
                 /\ Secs[n].from # DevNull =>
                      /\ HunkOf(n, j).start > 0 /\ OldOf(HunkOf(n, j)) # <<>>
                      /\ j > 1 => EndOf(HunkOf(n, j - 1)) <= HunkOf(n, j).start
                 /\ Secs[n].to = DevNull =>
                      \A i \in 1..LinesOf(n, j) : body[i].op # "+"
  <2> DEFINE h == HunkOf(n, j)
             L == LinesOf(n, j)
             is(i, op, lead) == i \in 1..L /\ h.body[i].op = op /\ h.body[i].text.lead = lead
  <2>1. h \in Hunks /\ h = s.hunks[j] /\ j \in DOMAIN s.hunks
    BY <1>2 DEF HunkOf
  <2>2. L \in Nat /\ DOMAIN h.body = 1..L
    <3>1. h.body \in Seq([op : Ops, text : Texts, start : Nat])
      BY <2>1 DEF Hunks
    <3> QED BY <3>1, LenProperties DEF LinesOf
  <2>3. \A i \in 1..L : is(i, "-", "--") /\ is(i + 1, "+", "++") =>
          /\ i + 1 = L => intent.nl /\ n = Len(Secs) /\ j = HunksOf(n)
          /\ ~is(i + 2, "-", "--")
    BY <1>1, <2>1, <2>2 DEF Regular, NoLookAlike, Secs, HunkOf, HunksOf, LinesOf
  <2>4. s.from # DevNull =>
          /\ h.start > 0 /\ OldOf(h) # <<>>
          /\ j > 1 => EndOf(HunkOf(n, j - 1)) <= h.start
    BY <1>1, <2>1 DEF Regular, Usual, Secs, HunkOf
  <2>5. ASSUME s.to = DevNull, NEW i \in 1..L PROVE h.body[i].op # "+"
    <3>1. TextsOf(h, {"+"}) = <<>>
      BY <1>1, <2>1, <2>5 DEF Regular, Usual, Secs, HunkOf
    <3>2. Len(TextsOf(h, {"+"})) = 0
      BY <3>1, EmptySeq
    <3>3. /\ TextAt(h, {"+"}, i) \in Nat /\ TextAt(h, {"+"}, i - 1) \in Nat
          /\ TextAt(h, {"+"}, i) <= 0
          /\ h.body[i].op \in {"+"} => TextAt(h, {"+"}, i) = TextAt(h, {"+"}, i - 1) + 1
      <4>1. i \in 0..L /\ i - 1 \in 0..L
        BY <2>2
      <4> QED BY <4>1, <3>2, <2>1, TextLayout DEF LinesOf
    <3> QED BY <3>3
  <2> HIDE DEF s
  <2>6. \A i \in 1..L :
          /\ h.body[i].op = "-" /\ h.body[i].text.lead = "--"
          /\ i + 1 \in 1..L
          /\ h.body[i + 1].op = "+" /\ h.body[i + 1].text.lead = "++"
          => /\ i + 1 = L => intent.nl /\ n = Len(Secs) /\ j = HunksOf(n)
             /\ i + 2 \in 1..L =>
                  ~(h.body[i + 2].op = "-" /\ h.body[i + 2].text.lead = "--")
    BY <2>3
  <2> QED BY <2>2, <2>4, <2>5, <2>6 DEF s
<1> QED BY <1>1, <1>2, <1>3, <1>4

\* A section starts with a header that is safe: a hunk follows it.
LEMMA HeaderHere ==
  ASSUME Meant, Regular, NEW n \in 1..Len(Secs)
  PROVE  LET p == SectionStart(n)
         IN  /\ p \in Nat \ {0} /\ p + 1 <= Len(patch) /\ Len(patch) \in Nat
             /\ IsFileHeader(p) /\ IsSafeFileHeader(p) /\ ~IsHunk(p)
             /\ patch[p].text.word = Secs[n].from /\ patch[p + 1].text.word = Secs[n].to
<1> DEFINE a == SectionAt(n - 1)
           s == Secs[n]
           N == Len(Secs)
<1>1. /\ N \in Nat /\ s \in SectionsMeant /\ HunksOf(n) \in Nat \ {0}
      /\ n - 1 \in 0..N /\ n \in 0..N /\ N \in 0..N
  <2>1. N \in Nat
    BY IntentFacts DEF Meant
  <2>2. s \in SectionsMeant /\ HunksOf(n) \in Nat \ {0}
    BY RegularFacts DEF Meant
  <2> QED BY <2>1, <2>2
<1>2. /\ a \in Nat /\ SectionAt(n) = a + 2 + Len(BodyLines(s))
      /\ patch[a + 1] = Line("-", "--", s.from) /\ patch[a + 2] = Line("+", "++", s.to)
      /\ \A q \in 1..Len(BodyLines(s)) : patch[a + 2 + q] = BodyLines(s)[q]
      /\ SectionAt(n) <= SectionAt(N) /\ SectionAt(N) \in Nat
      /\ Len(patch) = SectionAt(N) + IF intent.nl THEN 1 ELSE 0
  <2>1. intent \in Intents /\ patch = Render(intent)
    BY DEF Meant
  <2>2. /\ SectionAt(n) = a + 2 + Len(BodyLines(s))
        /\ patch[a + 1] = Line("-", "--", s.from) /\ patch[a + 2] = Line("+", "++", s.to)
        /\ \A q \in 1..Len(BodyLines(s)) : patch[a + 2 + q] = BodyLines(s)[q]
    BY <2>1, PatchLayout
  <2>3. Len(patch) = SectionAt(N) + IF intent.nl THEN 1 ELSE 0
    BY <2>1, PatchLayout
  <2>4. a \in Nat /\ SectionAt(n) <= SectionAt(N) /\ SectionAt(N) \in Nat
    <3>1. /\ \A m \in 0..N : SectionAt(m) \in Nat
          /\ \A m, k \in 0..N : m <= k => SectionAt(m) <= SectionAt(k)
      BY <2>1, PatchLayout
    <3>2. n <= N
      BY <1>1
    <3> QED BY <3>1, <3>2, <1>1
  <2> QED BY <2>2, <2>3, <2>4
<1>3. /\ Len(BodyLines(s)) \in Nat \ {0} /\ BodyLines(s)[1].op = "@@"
  <2>1. 1 \in 1..HunksOf(n) /\ 1 - 1 = 0 /\ 1 \in 0..HunksOf(n)
        /\ HunksOf(n) \in 0..HunksOf(n) /\ 1 <= HunksOf(n)
    BY <1>1
  <2>2. /\ HunkAt(s, 0) = 0 /\ HunkAt(s, 1) = HunkAt(s, 0) + 1 + Len(s.hunks[1].body)
        /\ Len(s.hunks[1].body) \in Nat /\ BodyLines(s)[HunkAt(s, 0) + 1].op = "@@"
        /\ HunkAt(s, 1) <= HunkAt(s, HunksOf(n)) /\ HunkAt(s, HunksOf(n)) \in Nat
        /\ Len(BodyLines(s)) = HunkAt(s, HunksOf(n))
    BY <1>1, <2>1, HunkLayout DEF HunksOf
  <2> QED BY <2>2
<1> HIDE DEF a, s, N
<1>4. a + 3 <= Len(patch) /\ Len(patch) \in Nat
  BY <1>2, <1>3
<1>5. patch[a + 3].op = "@@"
  <2>1. 1 \in 1..Len(BodyLines(s)) /\ a + 2 + 1 = a + 3
    BY <1>2, <1>3
  <2> QED BY <2>1, <1>2, <1>3
<1>6. /\ patch[a + 1].op = "-" /\ patch[a + 1].text.lead = "--"
      /\ patch[a + 1].text.word = s.from
      /\ patch[a + 2].op = "+" /\ patch[a + 2].text.lead = "++"
      /\ patch[a + 2].text.word = s.to
  BY <1>2 DEF Line
<1>7. SectionStart(n) = a + 1 /\ a + 1 + 1 = a + 2 /\ a + 1 + 2 = a + 3
  <2>1. a \in Nat
    BY <1>2
  <2>2. a + 1 + 1 = a + 2 /\ a + 1 + 2 = a + 3
    BY <2>1
  <2> QED BY <2>2 DEF SectionStart, a
<1>8. /\ IsFrom(a + 1) /\ IsTo(a + 2) /\ IsHunk(a + 3) /\ ~IsHunk(a + 1)
  BY <1>2, <1>4, <1>5, <1>6 DEF IsFrom, IsTo, IsHunk
<1>9. IsFileHeader(a + 1) /\ IsSafeFileHeader(a + 1)
  BY <1>7, <1>8 DEF IsFileHeader, IsSafeFileHeader
<1> QED BY <1>2, <1>4, <1>6, <1>7, <1>8, <1>9 DEF s

\* The lines behind a section are those of the next one, or the empty line.
LEMMA BehindSection ==
  ASSUME Meant, Regular, NEW n \in 0..Len(Secs)
  PROVE  LET p == SectionAt(n) + 1
         IN  /\ p \in Nat \ {0} /\ Len(patch) \in Nat
             /\ n < Len(Secs) => /\ p = SectionStart(n + 1) /\ p < Len(patch)
                                 /\ n + 1 \in 1..Len(Secs) /\ patch[p].op = "-"
             /\ n = Len(Secs) =>
                  IF intent.nl THEN p = Len(patch) /\ patch[p] = EmptyLine
                  ELSE Len(patch) = p - 1
<1>1. /\ Len(Secs) \in Nat /\ SectionAt(n) \in Nat /\ intent.nl \in BOOLEAN
      /\ Len(patch) = SectionAt(Len(Secs)) + IF intent.nl THEN 1 ELSE 0
      /\ intent.nl => patch[SectionAt(Len(Secs)) + 1] = Line("none", "plain", Blank)
      /\ Len(Secs) \in 0..Len(Secs) /\ SectionAt(Len(Secs)) \in Nat
  BY IntentFacts, PatchLayout DEF Meant, EmptyLine
<1>2. CASE n < Len(Secs)
  <2>1. n + 1 \in 1..Len(Secs) /\ n + 1 - 1 = n
    BY <1>1, <1>2
  <2>2. SectionStart(n + 1) = SectionAt(n) + 1
    BY <2>1 DEF SectionStart
  <2>3. /\ SectionStart(n + 1) + 1 <= Len(patch) /\ IsFileHeader(SectionStart(n + 1))
    BY <2>1, HeaderHere
  <2>4. patch[SectionStart(n + 1)].op = "-"
    BY <2>3 DEF IsFileHeader, IsFrom
  <2> QED BY <1>1, <1>2, <2>1, <2>2, <2>3, <2>4
<1>3. CASE n = Len(Secs)
  BY <1>1, <1>3 DEF EmptyLine
<1> QED BY <1>1, <1>2, <1>3

\* The lines of a hunk.
LEMMA HunkHere ==
  ASSUME Meant, Regular, NEW n \in 1..Len(Secs), NEW j \in 1..HunksOf(n)
  PROVE  LET c == HunkStart(n, j)
             q == HunkAt(Secs[n], j - 1)
         IN  /\ c \in Nat \ {0} /\ q \in Nat /\ c = SectionAt(n - 1) + 2 + q + 1
             /\ Len(patch) \in Nat /\ LinesOf(n, j) \in Nat
             /\ c + LinesOf(n, j) <= Len(patch)
             /\ q + 1 + LinesOf(n, j) <= Len(BodyLines(Secs[n]))
             /\ IsHunk(c) /\ patch[c] = BodyLines(Secs[n])[q + 1]
             /\ HunkAt(Secs[n], j) = q + 1 + LinesOf(n, j)
             /\ c + LinesOf(n, j) + 1 =
                  IF j < HunksOf(n) THEN HunkStart(n, j + 1) ELSE SectionAt(n) + 1
             /\ j = HunksOf(n) => q + 1 + LinesOf(n, j) = Len(BodyLines(Secs[n]))
             /\ \A i \in 1..LinesOf(n, j) :
                  /\ patch[c + i] = HunkOf(n, j).body[i] /\ ~IsHunk(c + i)
                  /\ patch[c + i] = BodyLines(Secs[n])[q + 1 + i]
<1> DEFINE s == Secs[n]
           H == HunksOf(n)
           L == LinesOf(n, j)
           a == SectionAt(n - 1)
           q == HunkAt(s, j - 1)
           B == BodyLines(s)
           c == HunkStart(n, j)
<1>1. /\ Len(Secs) \in Nat /\ s \in SectionsMeant /\ H \in Nat \ {0}
      /\ L \in Nat /\ HunkOf(n, j) \in Hunks /\ H = Len(s.hunks)
  BY IntentFacts, RegularFacts DEF Meant, HunksOf
<1>2. /\ a \in Nat /\ SectionAt(n) = a + 2 + Len(B) /\ SectionAt(n) <= Len(patch)
      /\ Len(patch) \in Nat
      /\ \A k \in 1..Len(B) : patch[a + 2 + k] = B[k]
  <2>1. intent \in Intents /\ patch = Render(intent)
    BY DEF Meant
  <2>2. /\ SectionAt(n) = a + 2 + Len(B)
        /\ \A k \in 1..Len(B) : patch[a + 2 + k] = B[k]
    BY <2>1, PatchLayout
  <2>3. /\ \A m \in 0..Len(Secs) : SectionAt(m) \in Nat
        /\ \A m, k \in 0..Len(Secs) : m <= k => SectionAt(m) <= SectionAt(k)
        /\ Len(patch) = SectionAt(Len(Secs)) + IF intent.nl THEN 1 ELSE 0
    BY <2>1, PatchLayout
  <2>4. n - 1 \in 0..Len(Secs) /\ n \in 0..Len(Secs) /\ n <= Len(Secs)
        /\ Len(Secs) \in 0..Len(Secs)
    BY <1>1
  <2>5. a \in Nat /\ SectionAt(n) <= SectionAt(Len(Secs)) /\ SectionAt(Len(Secs)) \in Nat
        /\ SectionAt(n) \in Nat
    BY <2>3, <2>4
  <2>6. Len(patch) \in Nat /\ SectionAt(n) <= Len(patch)
    BY <2>3, <2>5
  <2> QED BY <2>2, <2>5, <2>6
<1>3. /\ q \in Nat /\ HunkAt(s, j) = q + 1 + L /\ HunkAt(s, j) <= Len(B)
      /\ B[q + 1].op = "@@" /\ \A i \in 1..L : B[q + 1 + i] = HunkOf(n, j).body[i]
      /\ Len(B) = HunkAt(s, H) /\ Len(B) \in Nat
  <2>1. j - 1 \in 0..H /\ j \in 0..H /\ H \in 0..H /\ j <= H
    BY <1>1
  <2>2. HunkAt(s, j) = q + 1 + Len(s.hunks[j].body) /\ B[q + 1].op = "@@"
    BY <1>1, HunkLayout
  <2>4. ASSUME NEW i \in 1..Len(s.hunks[j].body) PROVE B[q + 1 + i] = s.hunks[j].body[i]
    BY SMTT(20), <1>1, HunkLayout
  <2>3. /\ \A k \in 0..H : HunkAt(s, k) \in Nat
        /\ \A k, m \in 0..H : k <= m => HunkAt(s, k) <= HunkAt(s, m)
        /\ Len(B) = HunkAt(s, H)
    BY <1>1, HunkLayout
  <2> QED BY <2>1, <2>2, <2>3, <2>4 DEF LinesOf, HunkOf
<1>4. c = a + 2 + q + 1
  BY DEF HunkStart
<1>5. HunkStart(n, j + 1) = SectionAt(n - 1) + 2 + HunkAt(Secs[n], j) + 1
  <2>1. j + 1 - 1 = j
    OBVIOUS
  <2> QED BY <2>1 DEF HunkStart
<1>6. \A i \in 1..L : HunkOf(n, j).body[i].op # "@@"
  <2>1. \A i \in 1..L : HunkOf(n, j).body[i].op \in Ops
    BY <1>1, HunkLinesFacts DEF LinesOf
  <2> QED BY <2>1 DEF Ops
<1> HIDE DEF s, H, L, a, q, B, c
<1>0. /\ a \in Nat /\ q \in Nat /\ L \in Nat /\ H \in Nat /\ j \in 1..H /\ Len(B) \in Nat
      /\ c = a + 2 + q + 1 /\ q + 1 + L <= Len(B) /\ Len(patch) \in Nat
      /\ SectionAt(n) = a + 2 + Len(B) /\ SectionAt(n) <= Len(patch)
  BY <1>1, <1>2, <1>3, <1>4 DEF H
<1>7. patch[c] = B[q + 1]
  <2>1. q + 1 \in 1..Len(B) /\ c = a + 2 + (q + 1)
    BY <1>0
  <2> QED BY <2>1, <1>2
<1>8. c + L <= Len(patch) /\ c \in Nat \ {0}
  BY <1>0
<1>9. IsHunk(c)
  <2>1. c <= Len(patch)
    BY <1>0
  <2> QED BY <2>1, <1>3, <1>7 DEF IsHunk
<1>10. ASSUME NEW i \in 1..L
       PROVE  patch[c + i] = B[q + 1 + i] /\ patch[c + i] = HunkOf(n, j).body[i]
              /\ ~IsHunk(c + i)
  <2>1. q + 1 + i \in 1..Len(B) /\ c + i = a + 2 + (q + 1 + i)
    BY <1>0
  <2>2. patch[c + i] = B[q + 1 + i]
    BY <2>1, <1>2
  <2> QED BY <2>2, <1>3, <1>6 DEF IsHunk
<1>11. c + L + 1 = IF j < H THEN HunkStart(n, j + 1) ELSE SectionAt(n) + 1
  <2>1. HunkStart(n, j + 1) = a + 2 + (q + 1 + L) + 1
    BY <1>3, <1>5 DEF a, s
  <2>2. CASE j < H
    <3>1. c + L + 1 = a + 2 + (q + 1 + L) + 1
      BY <1>0
    <3> QED BY <3>1, <2>1, <2>2
  <2>3. CASE ~(j < H)
    <3>1. j = H
      BY <1>0, <2>3
    <3>2. q + 1 + L = Len(B)
      BY <3>1, <1>3
    <3>3. c + L + 1 = SectionAt(n) + 1
      BY <1>0, <3>2
    <3> QED BY <2>3, <3>3
  <2> QED BY <2>2, <2>3
<1>12. j = H => q + 1 + L = Len(B)
  BY <1>3
<1> QED BY <1>0, <1>3, <1>7, <1>8, <1>9, <1>10, <1>11, <1>12 DEF s, H, L, a, q, B, c

\* What follows the last line of a hunk is no added line.
LEMMA BehindHunk ==
  ASSUME Meant, Regular, NEW n \in 1..Len(Secs), NEW j \in 1..HunksOf(n)
  PROVE  ~IsTo(HunkStart(n, j) + LinesOf(n, j) + 1)
<1> DEFINE p == HunkStart(n, j) + LinesOf(n, j) + 1
<1>1. /\ p = IF j < HunksOf(n) THEN HunkStart(n, j + 1) ELSE SectionAt(n) + 1
      /\ Len(Secs) \in Nat /\ HunksOf(n) \in Nat
  BY HunkHere, IntentFacts, RegularFacts DEF Meant
<1> HIDE DEF p
<1>2. CASE j < HunksOf(n)
  <2>1. j + 1 \in 1..HunksOf(n)
    BY <1>1, <1>2
  <2>2. IsHunk(HunkStart(n, j + 1))
    BY <2>1, HunkHere
  <2>3. IsHunk(p)
    BY <2>2, <1>1, <1>2
  <2>4. ~IsTo(p)
    BY <2>3 DEF IsHunk, IsTo
  <2> QED BY <2>4 DEF p
<1>3. CASE ~(j < HunksOf(n))
  <2>1. n \in 0..Len(Secs) /\ (n < Len(Secs) \/ n = Len(Secs)) /\ p = SectionAt(n) + 1
    BY <1>1, <1>3
  <2>2. p \in Nat /\ Len(patch) \in Nat
        /\ (p <= Len(patch) => patch[p].op = "-" \/ patch[p] = EmptyLine)
    BY <2>1, BehindSection
  <2>3. ~IsTo(p)
    BY <2>2 DEF IsTo, EmptyLine, Line
  <2> QED BY <2>3 DEF p
<1> QED BY <1>2, <1>3

\* Lines of a hunk that look like a file header do not end it.
LEMMA LookAlike ==
  ASSUME Meant, Regular, NEW n \in 1..Len(Secs), NEW j \in 1..HunksOf(n),
         NEW i \in 1..LinesOf(n, j)
  PROVE  ~IsSafeFileHeader(HunkStart(n, j) + i)
<1> DEFINE c == HunkStart(n, j)
           L == LinesOf(n, j)
           body == HunkOf(n, j).body
<1>1. /\ c \in Nat \ {0} /\ L \in Nat /\ Len(patch) \in Nat /\ c + L <= Len(patch)
      /\ \A k \in 1..L : patch[c + k] = body[k] /\ ~IsHunk(c + k)
  BY HunkHere
<1>2. /\ body[i].op = "-" /\ body[i].text.lead = "--"
      /\ i + 1 \in 1..L
      /\ body[i + 1].op = "+" /\ body[i + 1].text.lead = "++"
      => /\ i + 1 = L => intent.nl /\ n = Len(Secs) /\ j = HunksOf(n)
         /\ i + 2 \in 1..L =>
              ~(body[i + 2].op = "-" /\ body[i + 2].text.lead = "--")
  BY RegularFacts DEF Meant
<1>3. ~IsTo(c + L + 1)
  BY BehindHunk
<1>0. intent.nl /\ n = Len(Secs) /\ j = HunksOf(n) =>
        c + L + 1 <= Len(patch) /\ patch[c + L + 1] = EmptyLine
  <2> SUFFICES ASSUME intent.nl, n = Len(Secs), j = HunksOf(n)
               PROVE  c + L + 1 <= Len(patch) /\ patch[c + L + 1] = EmptyLine
    OBVIOUS
  <2>1. n \in 0..Len(Secs) /\ HunksOf(n) \in Nat
    BY IntentFacts, RegularFacts DEF Meant
  <2>2. /\ SectionAt(n) + 1 = Len(patch) /\ Len(patch) \in Nat
        /\ patch[SectionAt(n) + 1] = EmptyLine
    BY <2>1, BehindSection
  <2>3. c + L + 1 = SectionAt(n) + 1
    BY <2>1, HunkHere
  <2> QED BY <2>2, <2>3
<1> HIDE DEF c, L, body
<1> SUFFICES ASSUME IsSafeFileHeader(c + i) PROVE FALSE
  BY DEF c
<1>4. IsFrom(c + i) /\ IsTo(c + i + 1)
  BY DEF IsSafeFileHeader, IsFileHeader
<1>5. i \in 1..L
  BY DEF L
<1>6. i # L
  BY <1>3, <1>4
<1>7. i + 1 \in 1..L /\ c + i + 1 = c + (i + 1)
  BY <1>1, <1>5, <1>6
<1>8. body[i].op = "-" /\ body[i].text.lead = "--"
  BY <1>1, <1>4, <1>5 DEF IsFrom
<1>9. patch[c + (i + 1)] = body[i + 1]
  BY <1>1, <1>7
<1>10. body[i + 1].op = "+" /\ body[i + 1].text.lead = "++"
  BY <1>4, <1>7, <1>9 DEF IsTo
<1>11. /\ i + 1 = L => intent.nl /\ n = Len(Secs) /\ j = HunksOf(n)
       /\ i + 2 \in 1..L => ~(body[i + 2].op = "-" /\ body[i + 2].text.lead = "--")
  BY <1>2, <1>7, <1>8, <1>10
<1>12. CASE i + 1 = L
  <2>1. c + L + 1 <= Len(patch) /\ patch[c + L + 1] = EmptyLine
    BY <1>0, <1>11, <1>12
  <2>2. c + i + 2 = c + L + 1
    BY <1>1, <1>5, <1>12
  <2>3. ~IsHunk(c + L + 1) /\ ~IsFrom(c + L + 1)
    BY <2>1 DEF IsHunk, IsFrom, EmptyLine, Line
  <2>4. c + i + 2 <= Len(patch) /\ ~IsHunk(c + i + 2) /\ ~IsFrom(c + i + 2)
    BY <2>1, <2>2, <2>3
  <2>5. ~(c + i + 2 > Len(patch))
    BY <1>1, <1>5, <2>4
  <2> QED BY <2>4, <2>5 DEF IsSafeFileHeader
<1>13. CASE i + 1 # L
  <2>1. i + 2 \in 1..L
    BY <1>1, <1>5, <1>7, <1>13
  <2>2. c + i + 2 = c + (i + 2) /\ c + (i + 2) <= Len(patch)
    <3>1. c \in Nat /\ L \in Nat /\ c + L <= Len(patch) /\ Len(patch) \in Nat
      BY <1>1
    <3> QED BY <3>1, <2>1, <1>5
  <2>3. ~IsHunk(c + (i + 2)) /\ ~IsFrom(c + (i + 2))
    BY <1>1, <1>11, <2>1 DEF IsFrom
  <2>4. ~(c + i + 2 > Len(patch))
    BY <1>1, <1>5, <2>2
  <2> QED BY <2>2, <2>3, <2>4 DEF IsSafeFileHeader
<1> QED BY <1>12, <1>13

\* The lines of a deleted file never look like one: none is added.
LEMMA DeletedHere ==
  ASSUME Meant, Regular, NEW n \in 1..Len(Secs), NEW j \in 1..HunksOf(n),
         NEW i \in 0..LinesOf(n, j), Secs[n].to = DevNull
  PROVE  ~IsFileHeader(HunkStart(n, j) + i)
<1> DEFINE c == HunkStart(n, j)
           L == LinesOf(n, j)
           body == HunkOf(n, j).body
<1>1. /\ c \in Nat \ {0} /\ L \in Nat /\ \A k \in 1..L : patch[c + k] = body[k]
  BY HunkHere
<1>2. \A k \in 1..L : body[k].op # "+"
  BY RegularFacts DEF Meant
<1>3. ~IsTo(c + L + 1)
  BY BehindHunk
<1> HIDE DEF c, L, body
<1>4. i \in 0..L
  BY DEF L
<1>5. ~IsTo(c + i + 1)
  <2>1. CASE i = L
    BY <2>1, <1>3
  <2>2. CASE i # L
    <3>1. i + 1 \in 1..L /\ c + i + 1 = c + (i + 1)
      BY <1>1, <1>4, <2>2
    <3>2. patch[c + (i + 1)].op # "+"
      BY <3>1, <1>1, <1>2
    <3> QED BY <3>1, <3>2 DEF IsTo
  <2> QED BY <2>1, <2>2
<1> QED BY <1>5 DEF IsFileHeader, c

\* Sections 1 to n are found: those that are wanted are files, and no other.
IsSection(f, s) == f.from = s.from /\ f.to = s.to /\ f.hunks = BodyLines(s)
Through(m) == \A k \in 1..m : IsSection(files[k], Wanted[k])
Found(n)   == Len(files) = Kept(n) /\ Through(Kept(n))

\* Section n is being read: the last file has the first q lines of its hunks.
Open(n, q) ==
  /\ Secs[n].to # DevNull /\ Len(files) = Kept(n) /\ Through(Kept(n) - 1)
  /\ files[Kept(n)].from = Secs[n].from /\ files[Kept(n)].to = Secs[n].to
  /\ files[Kept(n)].hunks = SubSeq(BodyLines(Secs[n]), 1, q)

Recovered ==
  /\ Len(files) = Len(Wanted)
  /\ \A n \in DOMAIN files :
       /\ files[n].from = Wanted[n].from /\ files[n].to = Wanted[n].to
       /\ files[n].hunks \in {BodyLines(Wanted[n]), Append(BodyLines(Wanted[n]), EmptyLine)}

\* The places the parser can be at: behind n sections, at line i of hunk j of a
\* section that is deleted, at hunk j of another or behind its line i, at the
\* next header, behind the last line.
AtSection(n)       == parse = "scan" /\ pos = SectionAt(n) + 1 /\ Found(n)
InDeleted(n, j, i) == /\ parse = "scan" /\ Secs[n].to = DevNull
                      /\ pos = HunkStart(n, j) + i /\ Found(n)
AtHunk(n, j)       == /\ parse = "section" /\ pos = HunkStart(n, j)
                      /\ Open(n, HunkAt(Secs[n], j - 1))
InHunk(n, j, i)    == /\ parse = "hunk" /\ pos = HunkStart(n, j) + i + 1
                      /\ Open(n, HunkAt(Secs[n], j - 1) + 1 + i)
AtNext(n)          == parse = "section" /\ pos = SectionAt(n) + 1 /\ Found(n)
Past               == parse # "section" /\ pos > Len(patch) /\ Recovered

ParsePlace ==
  Regular =>
    \/ \E n \in 0..Len(Secs) : AtSection(n) \/ (n < Len(Secs) /\ AtNext(n))
    \/ \E n \in 1..Len(Secs) : \E j \in 1..HunksOf(n) :
         \/ AtHunk(n, j)
         \/ \E i \in 0..LinesOf(n, j) : InDeleted(n, j, i) \/ InHunk(n, j, i)
    \/ Past

\* What a step leaves alone when it changes neither patch nor intent.
LEMMA IntentFrame ==
  ASSUME UNCHANGED <<intent, patch>>
  PROVE  /\ Secs' = Secs /\ Wanted' = Wanted /\ (Regular' <=> Regular)
         /\ (Meant' <=> Meant)
         /\ \A n : SectionAt(n)' = SectionAt(n)
         /\ \A n : Kept(n)' = Kept(n)
         /\ \A n : HunksOf(n)' = HunksOf(n)
         /\ \A n, j : LinesOf(n, j)' = LinesOf(n, j)
         /\ \A n, j : HunkOf(n, j)' = HunkOf(n, j)
         /\ \A n, j : HunkStart(n, j)' = HunkStart(n, j)
<1>1. Secs' = Secs /\ Wanted' = Wanted /\ Meant' = Meant
  BY DEF Secs, Wanted, Meant
<1>2. Regular' <=> Regular
  BY DEF Regular, Usual, NoLookAlike
<1>3. \A n : SectionAt(n)' = SectionAt(n)
  BY <1>1 DEF SectionAt, SectionParts
<1>4. \A n : Kept(n)' = Kept(n)
  BY <1>1 DEF Kept, WantedParts
<1>5. /\ \A n : HunksOf(n)' = HunksOf(n)
      /\ \A n, j : LinesOf(n, j)' = LinesOf(n, j) /\ HunkOf(n, j)' = HunkOf(n, j)
  BY <1>1 DEF HunksOf, LinesOf, HunkOf
<1>6. \A n, j : HunkStart(n, j)' = HunkStart(n, j)
  BY <1>1, <1>3 DEF HunkStart
<1> QED BY <1>1, <1>2, <1>3, <1>4, <1>5, <1>6

-----------------------------------------------------------------------------
(* The types of a parsed patch *)

\* The parser reads a line at a time and adds it to the last section.
LEMMA ParseTypesStep == PatchInv /\ Parse => PatchInv'
<1> SUFFICES ASSUME PatchInv, Parse PROVE PatchInv'
  OBVIOUS
<1>1. ParseTypes /\ ApplyTypes /\ InHand /\ Copied /\ LinesInv
  BY DEF PatchInv
<1>2. ASSUME pos <= Len(patch) PROVE patch[pos] \in Lines
  <2>1. pos \in 1..Len(patch)
    BY <1>1, <1>2, LenProperties DEF ParseTypes
  <2> QED BY <1>1, <2>1, ElementOfSeq DEF ParseTypes
<1>3. ASSUME AddHunkLine, pos <= Len(patch), files # <<>>
      PROVE  files' \in Seq(Sections) /\ files' # <<>> /\ pos' \in Nat \ {0}
  <2>1. files \in Seq(Sections) /\ Len(files) \in 1..Len(files)
    BY <1>1, <1>3, EmptySeq DEF ParseTypes
  <2>2. files[Len(files)] \in Sections
    BY <2>1, ElementOfSeq
  <2>3. Append(files[Len(files)].hunks, patch[pos]) \in Seq(Lines)
    BY <2>2, <1>2, <1>3, AppendProperties DEF Sections
  <2> DEFINE f == [files[Len(files)] EXCEPT !.hunks = Append(@, patch[pos])]
  <2>4. f \in Sections
    BY <2>2, <2>3 DEF Sections
  <2>5. files' = [files EXCEPT ![Len(files)] = f]
    BY <1>3 DEF AddHunkLine
  <2> HIDE DEF f
  <2>6. files' \in Seq(Sections) /\ Len(files') = Len(files)
    BY <2>1, <2>4, <2>5, ExceptSeq
  <2>7. files' # <<>>
    BY <2>6, <2>1, EmptySeq
  <2>8. pos' \in Nat \ {0}
    BY <1>1, <1>3 DEF AddHunkLine, ParseTypes
  <2> QED BY <2>6, <2>7, <2>8
<1>4. ParseTypes'
  <2>1. patch' = patch
    BY DEF Parse
  <2>2. CASE Scan
    <3>1. CASE ~IsFileHeader(pos)
      BY <1>1, <2>1, <2>2, <3>1 DEF Scan, ParseTypes
    <3>2. CASE IsFileHeader(pos) /\ patch[pos + 1].text.word = DevNull
      BY <1>1, <2>1, <2>2, <3>2 DEF Scan, ParseTypes
    <3>3. CASE IsFileHeader(pos) /\ patch[pos + 1].text.word # DevNull
      <4>1. pos + 1 \in 1..Len(patch)
        <5>1. pos \in Nat \ {0} /\ Len(patch) \in Nat
          BY <1>1, LenProperties DEF ParseTypes
        <5>2. pos + 1 <= Len(patch)
          BY <3>3 DEF IsFileHeader, IsTo
        <5> QED BY <5>1, <5>2
      <4>2. patch[pos + 1] \in Lines
        BY <1>1, <4>1, ElementOfSeq DEF ParseTypes
      <4>3. patch[pos + 1].text.word \in Paths
        BY <4>2, <3>3, LineFacts DEF Words
      <4>4. patch[pos].text.word \in Words
        BY <1>2, <2>2, LineFacts DEF Scan
      <4> DEFINE f == [from |-> patch[pos].text.word, to |-> patch[pos + 1].text.word,
                       hunks |-> <<>>]
      <4>5. f \in Sections
        BY <4>3, <4>4, EmptySeq DEF Sections
      <4>6. files' = Append(files, f) /\ parse' = "section" /\ pos' = pos + 2
        BY <2>2, <3>3 DEF Scan
      <4> HIDE DEF f
      <4>7. files' \in Seq(Sections) /\ Len(files') = Len(files) + 1 /\ Len(files) \in Nat
        BY <1>1, <4>5, <4>6, AppendProperties, LenProperties DEF ParseTypes
      <4>8. files' # <<>>
        BY <4>7, EmptySeq
      <4> QED BY <1>1, <2>1, <4>6, <4>7, <4>8 DEF ParseTypes
    <3> QED BY <3>1, <3>2, <3>3
  <2>3. CASE Section
    <3>1. CASE ~IsHunk(pos) /\ IsFileHeader(pos)
      BY <1>1, <2>1, <2>3, <3>1 DEF Section, ParseTypes
    <3>2. CASE ~(~IsHunk(pos) /\ IsFileHeader(pos))
      <4>1. AddHunkLine /\ parse' \in {"hunk", "section"} /\ pos <= Len(patch)
            /\ files # <<>>
        BY <1>1, <2>3, <3>2 DEF Section, ParseTypes
      <4> QED BY <1>1, <1>3, <2>1, <4>1 DEF ParseTypes
    <3> QED BY <3>1, <3>2
  <2>4. CASE HunkBody
    <3>1. CASE IsHunk(pos) \/ IsSafeFileHeader(pos)
      BY <1>1, <2>1, <2>4, <3>1 DEF HunkBody, ParseTypes
    <3>2. CASE ~(IsHunk(pos) \/ IsSafeFileHeader(pos))
      <4>1. AddHunkLine /\ parse' = "hunk" /\ pos <= Len(patch) /\ files # <<>>
        BY <1>1, <2>4, <3>2 DEF HunkBody, ParseTypes
      <4> QED BY <1>1, <1>3, <2>1, <4>1 DEF ParseTypes
    <3> QED BY <3>1, <3>2
  <2>5. CASE ParseEnds
    BY <1>1, <2>1, <2>5 DEF ParseEnds, ParseTypes
  <2> QED BY <2>2, <2>3, <2>4, <2>5 DEF Parse
<1>5. parse # "done"
  BY DEF Parse, Scan, Section, HunkBody, ParseEnds
<1>6. apply \notin {"lines", "write"}
  BY <1>1, <1>5 DEF InHand
<1>7. ApplyTypes' /\ InHand' /\ Copied' /\ LinesInv'
  BY <1>1, <1>6 DEF Parse, applyVars, ApplyTypes, InHand, Copied, LinesInv, Ascends,
                    Untouched, Accounted, Old
<1> QED BY <1>4, <1>7 DEF PatchInv
-----------------------------------------------------------------------------
(* What the hunks copy *)

\* Copying the lines up to n accounts for them and repeats none.
LEMMA CopyOn ==
  ASSUME PatchInv, apply = "lines", NEW n \in Nat, existing' = existing, gone' = gone,
         out' = out \o Span(n), src' = src \o SpanSrc(n)
  PROVE  /\ out' \in Seq(Texts) /\ src' \in Seq(Nat) /\ Len(src') = Len(out')
         /\ Copied' /\ (ordered => Ascends')
         /\ ordered =>
              /\ n >= cursor => \A i \in 1..Len(src') : src'[i] <= n
              /\ \A i \in 1..Len(src') : src'[i] \notin gone
              /\ \A k \in 1..Len(Old) :
                   k <= n => k \in gone \/ \E i \in 1..Len(src') : src'[i] = k
<1> DEFINE new == SpanSrc(n)
<1>1. /\ existing \in Whole /\ cursor \in Nat /\ gone \subseteq Nat
      /\ out \in Seq(Texts) /\ src \in Seq(Nat) /\ Len(src) = Len(out)
      /\ Copied /\ (ordered => Ascends /\ Untouched /\ Accounted)
  BY DEF PatchInv, ApplyTypes, LinesInv
<1>2. /\ SpanLen(n) \in Int
      /\ cursor + SpanLen(n) = IF n < Len(Old) THEN n ELSE Len(Old)
      /\ Span(n) \in Seq(Texts) /\ new \in Seq(Nat) /\ Len(Span(n)) = Len(new)
      /\ Len(new) = IF SpanLen(n) > 0 THEN SpanLen(n) ELSE 0
      /\ \A i \in 1..Len(new) :
           /\ new[i] = cursor + i /\ new[i] \in 1..Len(Old) /\ new[i] <= n
           /\ Span(n)[i] = Old[new[i]]
  BY <1>1, SpanFacts
<1> HIDE DEF new
<1>3. /\ src' \in Seq(Nat) /\ Len(src') = Len(src) + Len(new)
      /\ Len(src) \in Nat /\ Len(new) \in Nat
      /\ \A i \in 1..Len(src) : src'[i] = src[i]
      /\ \A i \in 1..Len(new) : src'[Len(src) + i] = new[i]
      /\ \A i \in 1..Len(src') : i \in 1..Len(src) \/ \E j \in 1..Len(new) : i = Len(src) + j
  <2>1. src' = src \o new
    BY DEF new
  <2>2. src \in Seq(Nat) /\ new \in Seq(Nat)
    BY <1>1, <1>2
  <2> QED BY <2>1, <2>2, Joined
<1>4. /\ out' \in Seq(Texts) /\ Len(out') = Len(out) + Len(new)
      /\ \A i \in 1..Len(out) : out'[i] = out[i]
      /\ \A i \in 1..Len(new) : out'[Len(out) + i] = Old[new[i]]
  <2>1. out \in Seq(Texts) /\ Span(n) \in Seq(Texts)
    BY <1>1, <1>2
  <2>2. /\ out' \in Seq(Texts) /\ Len(out') = Len(out) + Len(Span(n))
        /\ \A i \in 1..Len(out) : out'[i] = out[i]
        /\ \A i \in 1..Len(Span(n)) : out'[Len(out) + i] = Span(n)[i]
    BY <2>1, Joined
  <2> QED BY <2>2, <1>2
<1>5. Old' = Old
  BY DEF Old
<1>6. Copied'
  <2> SUFFICES ASSUME NEW i \in 1..Len(src'), src'[i] # 0
               PROVE  src'[i] \in 1..Len(Old) /\ out'[i] = Old[src'[i]]
    BY <1>5 DEF Copied
  <2>1. CASE i \in 1..Len(src)
    <3>1. src'[i] = src[i] /\ out'[i] = out[i]
      BY <1>1, <1>3, <1>4, <2>1
    <3> QED BY <3>1, <1>1, <2>1 DEF Copied
  <2>2. ASSUME NEW j \in 1..Len(new), i = Len(src) + j
        PROVE  src'[i] \in 1..Len(Old) /\ out'[i] = Old[src'[i]]
    <3>1. src'[i] = new[j] /\ out'[i] = Old[new[j]]
      BY <1>1, <1>3, <1>4, <2>2
    <3> QED BY <3>1, <1>2
  <2> QED BY <1>3, <2>1, <2>2
<1>7. ASSUME ordered PROVE Ascends'
  <2> SUFFICES ASSUME NEW i \in 1..Len(src'), NEW j \in 1..Len(src'), i < j,
                      src'[i] # 0, src'[j] # 0
               PROVE  src'[i] < src'[j]
    BY DEF Ascends
  <2>1. CASE j \in 1..Len(src)
    <3>1. i \in 1..Len(src) /\ src'[i] = src[i] /\ src'[j] = src[j]
      BY <1>3, <2>1
    <3> QED BY <3>1, <1>1, <1>7, <2>1 DEF Ascends
  <2>2. ASSUME NEW b \in 1..Len(new), j = Len(src) + b PROVE src'[i] < src'[j]
    <3>1. src'[j] = cursor + b
      BY <1>2, <1>3, <2>2
    <3>2. CASE i \in 1..Len(src)
      <4>1. src'[i] = src[i] /\ src[i] \in Nat /\ src[i] <= cursor
        BY <1>1, <1>3, <1>7, <3>2, ElementOfSeq DEF Untouched
      <4>2. b \in Nat /\ b > 0
        BY <1>3, <2>2
      <4>3. cursor \in Nat /\ src[i] < cursor + b
        BY SMTT(30), <4>1, <4>2, <1>1
      <4> QED BY <4>1, <4>3, <3>1
    <3>3. ASSUME NEW a \in 1..Len(new), i = Len(src) + a PROVE src'[i] < src'[j]
      <4>1. src'[i] = cursor + a
        BY <1>2, <1>3, <3>3
      <4>2. Len(src) \in Nat /\ a \in Nat /\ b \in Nat
        BY <1>3, <2>2, <3>3
      <4>3. a < b
        BY <4>2, <2>2, <3>3
      <4>4. cursor \in Nat
        BY <1>1
      <4> QED BY <3>1, <4>1, <4>2, <4>3, <4>4
    <3> QED BY <1>3, <3>2, <3>3
  <2> QED BY <1>3, <2>1, <2>2
<1>8. ASSUME ordered
      PROVE  /\ n >= cursor => \A i \in 1..Len(src') : src'[i] <= n
             /\ \A i \in 1..Len(src') : src'[i] \notin gone
  <2> SUFFICES ASSUME NEW i \in 1..Len(src')
               PROVE  (n >= cursor => src'[i] <= n) /\ src'[i] \notin gone
    OBVIOUS
  <2>1. CASE i \in 1..Len(src)
    <3>1. src'[i] = src[i] /\ src[i] \in Nat /\ src[i] <= cursor /\ src[i] \notin gone
      BY <1>1, <1>3, <1>8, <2>1, ElementOfSeq DEF Untouched, Accounted
    <3> QED BY <3>1, <1>1
  <2>2. ASSUME NEW a \in 1..Len(new), i = Len(src) + a
        PROVE  (n >= cursor => src'[i] <= n) /\ src'[i] \notin gone
    <3>1. src'[i] = cursor + a /\ src'[i] <= n
      BY <1>2, <1>3, <2>2
    <3>2. \A g \in gone : g <= cursor
      BY <1>1, <1>8 DEF Untouched
    <3> QED BY <3>1, <3>2, <1>1
  <2> QED BY <1>3, <2>1, <2>2
<1>9. ASSUME ordered, NEW k \in 1..Len(Old), k <= n
      PROVE  k \in gone \/ \E i \in 1..Len(src') : src'[i] = k
  <2>0. Len(Old) \in Nat
    BY <1>1, LenProperties DEF Old, Whole
  <2>1. CASE k <= cursor
    <3>1. k \in gone \/ \E i \in 1..Len(src) : src[i] = k
      BY <1>1, <1>9, <2>1 DEF Accounted
    <3> QED BY <3>1, <1>3
  <2>2. CASE ~(k <= cursor)
    <3>1. k - cursor \in 1..Len(new)
      BY SMTT(30), <1>1, <1>2, <1>9, <2>0, <2>2
    <3>2. new[k - cursor] = k
      BY SMTT(30), <3>1, <1>1, <1>2, <2>0
    <3>3. Len(src) + (k - cursor) \in 1..Len(src')
      BY <3>1, <1>1, <1>3
    <3> QED BY <3>1, <3>2, <3>3, <1>3
  <2> QED BY <2>1, <2>2
<1> QED BY <1>1, <1>3, <1>4, <1>6, <1>7, <1>8, <1>9

\* So does a line of a hunk: it is new, or the old line the cursor is at.
LEMMA CopyOne ==
  ASSUME PatchInv, apply = "lines", NEW t \in Texts, NEW m \in Nat, existing' = existing,
         m = 0 \/ (m = cursor + 1 /\ m \in 1..Len(Old) /\ t = Old[m]),
         out' = Append(out, t), src' = Append(src, m)
  PROVE  /\ out' \in Seq(Texts) /\ src' \in Seq(Nat) /\ Len(src') = Len(out')
         /\ Copied' /\ (ordered => Ascends')
         /\ ordered => \A i \in 1..Len(src') :
              (src'[i] <= cursor \/ src'[i] = m) /\ src'[i] \notin gone
         /\ \A k : (k = m \/ \E i \in 1..Len(src) : src[i] = k) =>
              \E i \in 1..Len(src') : src'[i] = k
<1>1. /\ existing \in Whole /\ cursor \in Nat /\ gone \subseteq Nat
      /\ out \in Seq(Texts) /\ src \in Seq(Nat) /\ Len(src) = Len(out)
      /\ Copied /\ (ordered => Ascends /\ Untouched /\ Accounted)
  BY DEF PatchInv, ApplyTypes, LinesInv
<1>2. /\ src' \in Seq(Nat) /\ Len(src') = Len(src) + 1 /\ Len(src) \in Nat
      /\ src'[Len(src) + 1] = m
      /\ \A i \in 1..Len(src) : src'[i] = src[i] /\ src[i] \in Nat
  BY <1>1, AppendProperties, LenProperties, ElementOfSeq
<1>3. /\ out' \in Seq(Texts) /\ Len(out') = Len(out) + 1 /\ out'[Len(out) + 1] = t
      /\ \A i \in 1..Len(out) : out'[i] = out[i]
  BY <1>1, AppendProperties, LenProperties
<1>4. \A i \in 1..Len(src') : i \in 1..Len(src) \/ i = Len(src) + 1
  BY <1>2
<1>5. Old' = Old
  BY DEF Old
<1>6. Copied'
  <2> SUFFICES ASSUME NEW i \in 1..Len(src'), src'[i] # 0
               PROVE  src'[i] \in 1..Len(Old) /\ out'[i] = Old[src'[i]]
    BY <1>5 DEF Copied
  <2>1. CASE i \in 1..Len(src)
    <3>1. src'[i] = src[i] /\ out'[i] = out[i]
      BY <1>1, <1>2, <1>3, <2>1
    <3> QED BY <3>1, <1>1, <2>1 DEF Copied
  <2>2. CASE i = Len(src) + 1
    BY <1>1, <1>2, <1>3, <2>2
  <2> QED BY <1>4, <2>1, <2>2
<1>7. ASSUME ordered PROVE Ascends'
  <2> SUFFICES ASSUME NEW i \in 1..Len(src'), NEW j \in 1..Len(src'), i < j,
                      src'[i] # 0, src'[j] # 0
               PROVE  src'[i] < src'[j]
    BY DEF Ascends
  <2>1. i \in 1..Len(src) /\ src'[i] = src[i] /\ src[i] <= cursor /\ src[i] \in Nat
    BY <1>1, <1>2, <1>4, <1>7 DEF Untouched
  <2>2. CASE j \in 1..Len(src)
    BY <1>1, <1>2, <1>7, <2>1, <2>2 DEF Ascends
  <2>3. CASE j = Len(src) + 1
    <3>1. src'[j] = cursor + 1
      BY <1>2, <2>3
    <3> QED BY <3>1, <2>1, <1>1
  <2> QED BY <1>4, <2>2, <2>3
<1>8. ASSUME ordered, NEW i \in 1..Len(src')
      PROVE  (src'[i] <= cursor \/ src'[i] = m) /\ src'[i] \notin gone
  <2>1. CASE i \in 1..Len(src)
    BY <1>1, <1>2, <1>8, <2>1 DEF Untouched, Accounted
  <2>2. CASE i = Len(src) + 1
    <3>1. src'[i] = m
      BY <1>2, <2>2
    <3>2. \A g \in gone : g \in Nat \ {0} /\ g <= cursor
      BY <1>1, <1>8 DEF Untouched, Accounted
    <3> QED BY <3>1, <3>2, <1>1
  <2> QED BY <1>4, <2>1, <2>2
<1>9. ASSUME NEW k, k = m \/ \E i \in 1..Len(src) : src[i] = k
      PROVE  \E i \in 1..Len(src') : src'[i] = k
  <2>1. CASE k = m
    <3>1. Len(src) + 1 \in 1..Len(src')
      BY <1>2
    <3> QED BY <3>1, <2>1, <1>2
  <2>2. CASE \E i \in 1..Len(src) : src[i] = k
    BY <2>2, <1>2
  <2> QED BY <1>9, <2>1, <2>2
<1> QED BY <1>1, <1>2, <1>3, <1>6, <1>7, <1>8, <1>9
-----------------------------------------------------------------------------
(* Steps *)

\* The section in hand and its next line.
LEMMA HandFacts ==
  ASSUME PatchInv, apply \in {"lines", "write"}
  PROVE  /\ File \in Sections /\ existing \in Whole /\ Old \in Seq(Texts)
         /\ Len(Old) \in Nat
         /\ \A op : OnLine(op) => Hunk.text \in Texts /\ Hunk.start \in Nat
<1>1. at \in 1..Len(files) /\ files \in Seq(Sections) /\ existing \in Whole
      /\ next \in Nat \ {0}
  BY DEF PatchInv, InHand, ParseTypes, ApplyTypes
<1>2. File \in Sections
  BY <1>1, ElementOfSeq DEF File
<1>3. Old \in Seq(Texts) /\ Len(Old) \in Nat
  BY <1>1, LenProperties DEF Old, Whole
<1>4. ASSUME NEW op, OnLine(op) PROVE Hunk.text \in Texts /\ Hunk.start \in Nat
  <2>1. File.hunks \in Seq(Lines)
    BY <1>2 DEF Sections
  <2>2. next \in 1..Len(File.hunks)
    BY <1>1, <1>4, <2>1, LenProperties DEF OnLine
  <2>3. Hunk \in Lines
    BY <2>1, <2>2, ElementOfSeq DEF Hunk
  <2> QED BY <2>3, LineFacts
<1> QED BY <1>1, <1>2, <1>3, <1>4

\* An answer ends the patch and leaves the rest alone.
LEMMA AnswerKeeps ==
  ASSUME PatchInv, NEW what, Answer(what),
         UNCHANGED <<parseVars, disk, disk0, at, next, applyVars>>
  PROVE  PatchInv'
BY DEF PatchInv, Answer, applyVars, parseVars, ParseTypes, ApplyTypes, InHand,
       Copied, LinesInv, Ascends, Untouched, Accounted, Old

\* A file is opened with nothing copied and nothing removed.
LEMMA OpenKeeps ==
  ASSUME PatchInv, OpenFile PROVE PatchInv'
<1>1. CASE (Answer("rejected") \/ Answer("failed")) /\ UNCHANGED <<next, applyVars>>
  BY <1>1, AnswerKeeps DEF OpenFile
<1>2. CASE ~((Answer("rejected") \/ Answer("failed")) /\ UNCHANGED <<next, applyVars>>)
  <2>1. at \in 1..Len(files) /\ files \in Seq(Sections)
    BY LenProperties DEF PatchInv, ParseTypes, ApplyTypes, OpenFile
  <2>2. File \in Sections
    BY <2>1, ElementOfSeq DEF File
  <2>3. disk[File.to] \in Files
    BY <2>2 DEF Sections, PatchInv, ApplyTypes
  <2> DEFINE none == [lines |-> <<>>, nl |-> FALSE]
  <2>4. existing' = IF IsNew THEN none ELSE disk[File.to]
    BY <1>2 DEF OpenFile
  <2>5. none \in Whole
    BY EmptySeq DEF Whole
  <2>6. existing' \in Whole
    <3>1. CASE IsNew
      BY <3>1, <2>4, <2>5
    <3>2. CASE ~IsNew
      <4>1. disk[File.to] # NoFile
        BY <1>2, <3>2 DEF OpenFile
      <4> QED BY <4>1, <3>2, <2>3, <2>4 DEF Files, Whole
    <3> QED BY <3>1, <3>2
  <2>7. IsNew' = IsNew /\ (IsNew => Old' = <<>>)
    BY <2>4 DEF IsNew, File, Old, OpenFile, parseVars
  <2>8. ParseTypes' /\ InHand'
    BY <2>1, <2>7 DEF PatchInv, ParseTypes, InHand, OpenFile, parseVars
  <2>9. /\ apply' = "lines" /\ next' = 1 /\ out' = <<>> /\ cursor' = 0 /\ src' = <<>>
        /\ gone' = {} /\ ordered' = TRUE /\ UNCHANGED <<disk, at>>
    BY <1>2 DEF OpenFile
  <2>10. out' \in Seq(Texts) /\ src' \in Seq(Nat) /\ Len(src') = 0 /\ Len(out') = 0
    BY <2>9, EmptySeq
  <2>11. ApplyTypes'
    BY <2>6, <2>9, <2>10 DEF PatchInv, ApplyTypes
  <2>12. 1..Len(src') = {} /\ Old' \in Seq(Texts)
    BY <2>6, <2>10 DEF Old, Whole
  <2>13. Copied' /\ LinesInv'
    BY <2>9, <2>12, LenProperties
       DEF Copied, LinesInv, Ascends, Untouched, Accounted
  <2> QED BY <2>8, <2>11, <2>13 DEF PatchInv
<1> QED BY <1>1, <1>2

\* What a step on the lines leaves alone.
LEMMA LineFrame ==
  ASSUME PatchInv, apply = "lines", UNCHANGED <<parseVars, disk, disk0, at, existing>>
  PROVE  /\ ParseTypes' /\ InHand' /\ Old' = Old /\ IsNew' = IsNew
         /\ existing' \in Whole /\ disk' \in [Paths -> Files] /\ at' \in Nat \ {0}
BY DEF PatchInv, ParseTypes, ApplyTypes, InHand, parseVars, Old, IsNew, File

\* The header of a hunk moves the cursor over lines that are copied.
LEMMA HeaderKeeps ==
  ASSUME PatchInv, HunkHeader, UNCHANGED <<parseVars, disk, disk0, at>> PROVE PatchInv'
<1> DEFINE n == Target
<1> SUFFICES ASSUME ~OutOfRange PROVE PatchInv'
  BY AnswerKeeps DEF HunkHeader
<1>1. apply = "lines" /\ apply' = "lines" /\ existing' = existing /\ next' = next + 1
      /\ gone' = gone /\ MoveTo(n)
  BY DEF HunkHeader, OnLine, NextLine
<1>2. n \in Nat
  BY <1>1, HandFacts DEF HunkHeader, Target
<1> HIDE DEF n
<1>3. /\ cursor' = n /\ ordered' = (ordered /\ n >= cursor)
      /\ out' = out \o Span(n) /\ src' = src \o SpanSrc(n)
  <2>1. /\ existing \in Whole /\ cursor \in Nat /\ out \in Seq(Texts) /\ src \in Seq(Nat)
        /\ IsNew => Old = <<>>
    BY <1>1 DEF PatchInv, ApplyTypes, InHand
  <2> QED BY <1>1, <1>2, <2>1, CopyIsSpan DEF MoveTo
<1>4. /\ out' \in Seq(Texts) /\ src' \in Seq(Nat) /\ Len(src') = Len(out')
      /\ Copied' /\ (ordered => Ascends')
      /\ ordered =>
           /\ n >= cursor => \A i \in 1..Len(src') : src'[i] <= n
           /\ \A i \in 1..Len(src') : src'[i] \notin gone
           /\ \A k \in 1..Len(Old) :
                k <= n => k \in gone \/ \E i \in 1..Len(src') : src'[i] = k
  BY <1>1, <1>2, <1>3, CopyOn
<1>5. /\ ParseTypes' /\ InHand' /\ Old' = Old /\ existing' \in Whole
      /\ disk' \in [Paths -> Files] /\ at' \in Nat \ {0}
  BY <1>1, LineFrame
<1>6. /\ next \in Nat \ {0} /\ gone \subseteq Nat /\ ordered \in BOOLEAN /\ cursor \in Nat
      /\ ordered => Untouched /\ Accounted
  BY <1>1 DEF PatchInv, ApplyTypes, LinesInv
<1>7. ApplyTypes'
  BY <1>1, <1>2, <1>3, <1>4, <1>5, <1>6 DEF ApplyTypes
<1>8. ASSUME ordered' PROVE Ascends' /\ Untouched' /\ Accounted'
  <2>1. ordered /\ n >= cursor
    BY <1>3, <1>6, <1>8
  <2>2. \A g \in gone' : g <= cursor'
    BY <1>1, <1>2, <1>3, <1>6, <2>1 DEF Untouched
  <2>3. gone \subseteq 1..Len(Old)
    BY <1>6, <2>1 DEF Accounted
  <2> QED BY <1>1, <1>3, <1>4, <1>5, <2>1, <2>2, <2>3 DEF Untouched, Accounted
<1> QED BY <1>1, <1>4, <1>5, <1>7, <1>8 DEF PatchInv, LinesInv

\* An added or a context line.
LEMMA AddKeeps ==
  ASSUME PatchInv, AddLine \/ ContextLine, UNCHANGED <<parseVars, disk, disk0, at>>
  PROVE  PatchInv'
<1>1. CASE ContextLine /\ ~IsNew /\ ~Matches
  BY <1>1, AnswerKeeps DEF ContextLine, Rejected
<1>2. CASE ~(ContextLine /\ ~IsNew /\ ~Matches)
  <2> DEFINE m == IF ContextLine /\ ~IsNew THEN cursor + 1 ELSE 0
  <2>1. /\ apply = "lines" /\ apply' = "lines" /\ existing' = existing
        /\ next' = next + 1 /\ gone' = gone /\ ordered' = ordered
        /\ out' = Append(out, Hunk.text)
    BY <1>2 DEF AddLine, ContextLine, OnLine, NextLine
  <2>2. src' = Append(src, m)
    <3>1. CASE ContextLine
      BY <1>2, <3>1 DEF ContextLine
    <3>2. CASE AddLine /\ ~ContextLine
      BY <3>2 DEF AddLine
    <3> QED BY <3>1, <3>2
  <2>3. cursor' = cursor \/ (ContextLine /\ cursor' = cursor + 1)
    BY <1>2 DEF AddLine, ContextLine
  <2>4. Hunk.text \in Texts /\ Old \in Seq(Texts) /\ Len(Old) \in Nat
    <3>1. OnLine("+") \/ OnLine("space")
      BY DEF AddLine, ContextLine
    <3> QED BY <3>1, <2>1, HandFacts
  <2>5. /\ next \in Nat \ {0} /\ gone \subseteq Nat /\ ordered \in BOOLEAN /\ cursor \in Nat
        /\ ordered => Untouched /\ Accounted
        /\ IsNew => Old = <<>>
    BY <2>1 DEF PatchInv, ApplyTypes, LinesInv, InHand
  <2>6. m \in Nat /\ (m = 0 \/ (m = cursor + 1 /\ m \in 1..Len(Old) /\ Hunk.text = Old[m]))
    <3>1. CASE ContextLine /\ ~IsNew
      <4>1. Matches
        BY <1>2, <3>1
      <4> QED BY <4>1, <3>1, <2>4, <2>5 DEF Matches
    <3>2. CASE ~(ContextLine /\ ~IsNew)
      BY <3>2
    <3> QED BY <3>1, <3>2
  <2>7. ContextLine => m = cursor + 1 \/ Len(Old) = 0
    BY <2>5, EmptySeq
  <2>8. m = cursor + 1 => cursor' = cursor + 1
    <3> SUFFICES ASSUME m = cursor + 1 PROVE cursor' = cursor + 1
      OBVIOUS
    <3>1. ContextLine /\ ~IsNew
      BY <2>5
    <3> QED BY <3>1, <1>2 DEF ContextLine
  <2> HIDE DEF m
  <2>9. /\ out' \in Seq(Texts) /\ src' \in Seq(Nat) /\ Len(src') = Len(out')
        /\ Copied' /\ (ordered => Ascends')
        /\ ordered => \A i \in 1..Len(src') :
             (src'[i] <= cursor \/ src'[i] = m) /\ src'[i] \notin gone
        /\ \A k : (k = m \/ \E i \in 1..Len(src) : src[i] = k) =>
             \E i \in 1..Len(src') : src'[i] = k
    BY <2>1, <2>2, <2>4, <2>6, CopyOne
  <2>10. /\ ParseTypes' /\ InHand' /\ Old' = Old /\ existing' \in Whole
         /\ disk' \in [Paths -> Files] /\ at' \in Nat \ {0}
    BY <2>1, LineFrame
  <2>11. ApplyTypes'
    BY <2>1, <2>3, <2>5, <2>9, <2>10 DEF ApplyTypes
  <2>12. ASSUME ordered PROVE Untouched' /\ Accounted'
    <3>1. \A i \in 1..Len(src') : src'[i] <= cursor'
      <4> SUFFICES ASSUME NEW i \in 1..Len(src') PROVE src'[i] <= cursor'
        OBVIOUS
      <4>1. src'[i] \in Nat /\ (src'[i] <= cursor \/ src'[i] = m)
        BY <2>9, <2>12, ElementOfSeq
      <4> QED BY <4>1, <2>3, <2>5, <2>6, <2>8
    <3>2. \A g \in gone' : g <= cursor'
      BY <2>1, <2>3, <2>5, <2>12 DEF Untouched
    <3>3. ASSUME NEW k \in 1..Len(Old), k <= cursor'
          PROVE  k \in gone \/ \E i \in 1..Len(src') : src'[i] = k
      <4>1. CASE k <= cursor
        BY <4>1, <2>5, <2>9, <2>12 DEF Accounted
      <4>2. CASE ~(k <= cursor)
        <5>1. ContextLine /\ k = cursor + 1 /\ Len(Old) # 0
          BY <4>2, <3>3, <2>3, <2>4, <2>5
        <5> QED BY <5>1, <2>7, <2>9
      <4> QED BY <4>1, <4>2
    <3> QED BY <3>1, <3>2, <3>3, <2>1, <2>5, <2>9, <2>10, <2>12 DEF Untouched, Accounted
  <2> QED BY <2>1, <2>9, <2>10, <2>11, <2>12 DEF PatchInv, LinesInv
<1> QED BY <1>1, <1>2

\* A removed line is the old line the cursor is at.
LEMMA RemoveKeeps ==
  ASSUME PatchInv, RemoveLine, UNCHANGED <<parseVars, disk, disk0, at>> PROVE PatchInv'
<1>1. CASE IsNew \/ ~Matches
  BY <1>1, AnswerKeeps DEF RemoveLine, Rejected
<1>2. CASE ~(IsNew \/ ~Matches)
  <2>1. /\ apply = "lines" /\ apply' = "lines" /\ existing' = existing
        /\ next' = next + 1 /\ gone' = gone \cup {cursor + 1} /\ cursor' = cursor + 1
        /\ UNCHANGED <<out, src, ordered>>
    BY <1>2 DEF RemoveLine, OnLine, NextLine
  <2>2. /\ ParseTypes' /\ InHand' /\ Old' = Old /\ existing' \in Whole
        /\ disk' \in [Paths -> Files] /\ at' \in Nat \ {0} /\ Len(Old) \in Nat
    BY <2>1, LineFrame, HandFacts
  <2>3. /\ next \in Nat \ {0} /\ gone \subseteq Nat /\ ordered \in BOOLEAN /\ cursor \in Nat
        /\ out \in Seq(Texts) /\ src \in Seq(Nat) /\ Len(src) = Len(out)
        /\ Copied /\ (ordered => Ascends /\ Untouched /\ Accounted)
    BY <2>1 DEF PatchInv, ApplyTypes, LinesInv
  <2>4. cursor + 1 \in 1..Len(Old)
    BY <1>2, <2>2, <2>3 DEF Matches
  <2>5. ApplyTypes' /\ Copied'
    <3>1. ApplyTypes'
      BY <2>1, <2>2, <2>3 DEF ApplyTypes
    <3>2. Copied'
      BY <2>1, <2>2, <2>3 DEF Copied
    <3> QED BY <3>1, <3>2
  <2>6. \A i \in 1..Len(src) : src[i] \in Nat
    BY <2>3, ElementOfSeq
  <2>7. ASSUME ordered PROVE Ascends' /\ Untouched' /\ Accounted'
    <3>1. Ascends'
      BY <2>1, <2>3, <2>7 DEF Ascends
    <3>2. Untouched'
      BY <2>1, <2>3, <2>6, <2>7 DEF Untouched
    <3>3. \A i \in 1..Len(src') : src'[i] \notin gone'
      BY <2>1, <2>3, <2>6, <2>7 DEF Untouched, Accounted
    <3>4. \A k \in 1..Len(Old') :
            k <= cursor' => k \in gone' \/ \E i \in 1..Len(src') : src'[i] = k
      BY <2>1, <2>2, <2>3, <2>7 DEF Accounted
    <3> QED BY <3>1, <3>2, <3>3, <3>4, <2>1, <2>2, <2>3, <2>4, <2>7 DEF Accounted
  <2> QED BY <2>1, <2>2, <2>5, <2>7 DEF PatchInv, LinesInv
<1> QED BY <1>1, <1>2

\* The rest of the file is copied: nothing is left behind the cursor.
LEMMA LastKeeps ==
  ASSUME PatchInv, LastLine, UNCHANGED <<parseVars, disk, disk0, at>> PROVE PatchInv'
<1> DEFINE n == Len(Old)
<1>0. /\ apply = "lines" /\ apply' = "write" /\ existing' = existing /\ gone' = gone
      /\ Copy(n) /\ UNCHANGED <<next, cursor, ordered>>
  BY DEF LastLine
<1>2. n \in Nat
  BY <1>0, HandFacts
<1> HIDE DEF n
<1>1. /\ apply = "lines" /\ apply' = "write" /\ existing' = existing /\ gone' = gone
      /\ out' = out \o Span(n) /\ src' = src \o SpanSrc(n)
      /\ UNCHANGED <<next, cursor, ordered>>
  <2>1. /\ existing \in Whole /\ cursor \in Nat /\ out \in Seq(Texts) /\ src \in Seq(Nat)
        /\ IsNew => Old = <<>>
    BY <1>0 DEF PatchInv, ApplyTypes, InHand
  <2> QED BY <1>0, <1>2, <2>1, CopyIsSpan
<1>3. /\ out' \in Seq(Texts) /\ src' \in Seq(Nat) /\ Len(src') = Len(out')
      /\ Copied' /\ (ordered => Ascends')
      /\ ordered =>
           /\ \A i \in 1..Len(src') : src'[i] \notin gone
           /\ \A k \in 1..Len(Old) :
                k <= n => k \in gone \/ \E i \in 1..Len(src') : src'[i] = k
  BY <1>1, <1>2, CopyOn
<1>4. /\ ParseTypes' /\ InHand' /\ Old' = Old /\ existing' \in Whole
      /\ disk' \in [Paths -> Files] /\ at' \in Nat \ {0}
  <2>1. ParseTypes' /\ Old' = Old /\ existing' \in Whole /\ IsNew' = IsNew
        /\ disk' \in [Paths -> Files] /\ at' \in Nat \ {0}
    BY <1>1, LineFrame
  <2>2. InHand'
    BY <1>1, <2>1 DEF PatchInv, InHand, parseVars
  <2> QED BY <2>1, <2>2
<1>5. /\ next \in Nat \ {0} /\ gone \subseteq Nat /\ ordered \in BOOLEAN /\ cursor \in Nat
      /\ ordered => Accounted
  BY <1>1 DEF PatchInv, ApplyTypes, LinesInv
<1>6. ApplyTypes'
  BY <1>1, <1>3, <1>4, <1>5 DEF ApplyTypes
<1>7. ASSUME ordered
      PROVE  /\ Accounted'
             /\ \A k \in 1..Len(Old') : k \in gone' \/ \E i \in 1..Len(src') : src'[i] = k
  <2>1. \A k \in 1..Len(Old) : k <= n
    BY <1>2 DEF n
  <2>2. \A k \in 1..Len(Old') : k \in gone' \/ \E i \in 1..Len(src') : src'[i] = k
    BY <2>1, <1>1, <1>3, <1>4, <1>7
  <2> QED BY <2>2, <1>1, <1>3, <1>4, <1>5, <1>7 DEF Accounted
<1> QED BY <1>1, <1>3, <1>4, <1>6, <1>7 DEF PatchInv, LinesInv

\* A file is written back: a sequence of texts again.
LEMMA ContentType ==
  ASSUME NEW lines \in Seq(Texts), NEW nl \in BOOLEAN PROVE Content(lines, nl) \in Files
<1>1. <<>> \in Seq(Texts)
  BY EmptySeq
<1>2. ASSUME lines # <<>> PROVE Front(lines) \in Seq(Texts)
  <2>1. Len(lines) \in Nat /\ \A i \in 1..Len(lines) : lines[i] \in Texts
    BY LenProperties, ElementOfSeq
  <2>2. \A i \in 1..(Len(lines) - 1) : lines[i] \in Texts
    BY <2>1
  <2> QED BY <2>1, <2>2, SubSeqProperties DEF Front
<1>3. \A l \in Seq(Texts), b \in BOOLEAN : [lines |-> l, nl |-> b] \in Files
  BY DEF Files
<1>4. CASE nl
  BY <1>4, <1>3 DEF Content
<1>5. CASE ~nl /\ lines \in {<<>>, <<Empty>>}
  BY <1>5, <1>1, <1>3 DEF Content
<1>6. CASE ~nl /\ lines \notin {<<>>, <<Empty>>} /\ Last(lines) = Empty
  BY <1>6, <1>2, <1>3 DEF Content
<1>7. CASE ~nl /\ lines \notin {<<>>, <<Empty>>} /\ Last(lines) # Empty
  BY <1>7, <1>3 DEF Content
<1> QED BY <1>4, <1>5, <1>6, <1>7

\* Writing a file back keeps the invariant.
LEMMA WriteKeeps ==
  ASSUME PatchInv, WriteFile PROVE PatchInv'
<1>1. /\ ParseTypes /\ ApplyTypes /\ InHand /\ Copied /\ LinesInv
      /\ UNCHANGED <<parseVars, disk0, next, applyVars>> /\ apply = "write"
  BY DEF PatchInv, WriteFile
<1>2. apply' \in {"rest", "over"} /\ at' \in Nat \ {0}
  BY <1>1 DEF WriteFile, Answer, ApplyTypes
<1>3. disk' \in [Paths -> Files]
  <2> DEFINE nl == ~IsNew /\ existing.nl /\ out \notin {<<>>, <<Empty>>}
  <2>1. nl \in BOOLEAN /\ out \in Seq(Texts)
    BY <1>1 DEF ApplyTypes
  <2>2. Content(out, nl) \in Files
    BY <2>1, ContentType
  <2>3. disk' = disk \/ disk' = [disk EXCEPT ![File.to] = Content(out, nl)]
    BY DEF WriteFile
  <2> QED BY <2>2, <2>3, <1>1 DEF ApplyTypes
<1>4. ParseTypes'
  BY <1>1 DEF ParseTypes, parseVars
<1> QED BY <1>1, <1>2, <1>3, <1>4
        DEF PatchInv, applyVars, ApplyTypes, InHand, Copied, LinesInv, Ascends, Untouched,
            Accounted, Old
-----------------------------------------------------------------------------
(* The theorems about the lines of a file *)

\* PatchInv is an invariant: one case per line of the patch.
THEOREM PatchInvariance == Spec => []PatchInv
<1>1. Init => PatchInv
  <2> SUFFICES ASSUME Init PROVE PatchInv
    OBVIOUS
  <2>1. patch \in Seq(Lines) /\ disk \in [Paths -> Files]
    BY PatchAssumption, PatchLayout DEF Init
  <2>2. files = <<>> /\ out = <<>> /\ src = <<>> /\ existing = [lines |-> <<>>, nl |-> FALSE]
    BY DEF Init
  <2>3. /\ files \in Seq(Sections) /\ out \in Seq(Texts) /\ src \in Seq(Nat)
        /\ existing \in Whole /\ Len(src) = 0 /\ Len(out) = 0
    BY <2>2, EmptySeq DEF Whole
  <2>4. ParseTypes /\ ApplyTypes
    BY <2>1, <2>3 DEF Init, ParseTypes, ApplyTypes
  <2> QED BY <2>3, <2>4 DEF Init, PatchInv, InHand, Copied, LinesInv, Ascends
<1>2. PatchInv /\ [Next]_vars => PatchInv'
  <2> SUFFICES ASSUME PatchInv, [Next]_vars PROVE PatchInv'
    OBVIOUS
  <2>1. CASE Parse
    BY <2>1, ParseTypesStep
  <2>2. CASE ApplyLine
    <3>1. UNCHANGED <<parseVars, disk, disk0, at>>
      BY <2>2 DEF ApplyLine
    <3>2. CASE OtherLine
      <4>1. /\ apply = "lines" /\ apply' = "lines" /\ next' = next + 1
            /\ UNCHANGED <<existing, out, cursor, src, gone, ordered>>
        BY <3>2 DEF OtherLine, OnLine, NextLine
      <4>2. ParseTypes' /\ InHand' /\ Old' = Old
        BY <3>1, <4>1, LineFrame
      <4>3. ApplyTypes'
        BY <3>1, <4>1 DEF PatchInv, ApplyTypes
      <4>4. Copied' /\ LinesInv'
        BY <4>1, <4>2 DEF PatchInv, Copied, LinesInv, Ascends, Untouched, Accounted
      <4> QED BY <4>2, <4>3, <4>4 DEF PatchInv
    <3>3. CASE BadHeader
      BY <3>1, <3>3, AnswerKeeps DEF BadHeader, Rejected
    <3> QED BY <3>1, <3>2, <3>3, <2>2, OpenKeeps, HeaderKeeps, AddKeeps, RemoveKeeps,
               LastKeeps DEF ApplyLine
  <2>3. CASE WriteFile
    BY <2>3, WriteKeeps
  <2>4. CASE Finish
    BY <2>4 DEF Finish, Answer, PatchInv, parseVars, applyVars, ParseTypes, ApplyTypes,
                InHand, Copied, LinesInv, Ascends, Untouched, Accounted, Old
  <2>5. CASE UNCHANGED vars
    BY <2>5 DEF vars, PatchInv, parseVars, applyVars, ParseTypes, ApplyTypes, InHand, IsNew,
                File, Copied, LinesInv, Ascends, Untouched, Accounted, Old
  <2> QED BY <2>1, <2>2, <2>3, <2>4, <2>5 DEF Next
<1> QED BY <1>1, <1>2, PTL DEF Spec

\* For every patch and every file: if no hunk starts before the end of the one
\* before it and a result comes to be written, each line of the file is in it
\* once and in its place, or was removed by a line that quoted it
\* (applyHunksToText). It does not say that a result comes: HunkHeader may panic.
THEOREM LinesAreKept == Spec => []LinesSurvive
<1>1. PatchInv => LinesSurvive
  <2> SUFFICES ASSUME PatchInv PROVE LinesSurvive
    OBVIOUS
  <2>1. /\ src \in Seq(Nat) /\ Old \in Seq(Texts) /\ Len(src) = Len(out)
        /\ DOMAIN src = 1..Len(src) /\ DOMAIN Old = 1..Len(Old)
    BY LenProperties DEF PatchInv, ApplyTypes, Whole, Old
  <2>2. CopiesAreTrue
    BY <2>1 DEF PatchInv, Copied, CopiesAreTrue
  <2>3. CopiesAscend
    BY <2>1 DEF PatchInv, LinesInv, Ascends, CopiesAscend
  <2>4. ASSUME apply = "write", ordered
        PROVE  Sources \cap gone = {} /\ Sources \cup gone = DOMAIN Old
    <3>1. /\ Accounted /\ Copied
          /\ \A k \in 1..Len(Old) : k \in gone \/ \E i \in 1..Len(src) : src[i] = k
      BY <2>4 DEF PatchInv, LinesInv
    <3>2. \A x : x \in Sources <=> x # 0 /\ \E i \in 1..Len(src) : src[i] = x
      BY <2>1 DEF Sources
    <3>3. Sources \cap gone = {}
      BY <3>1, <3>2 DEF Accounted
    <3>4. Sources \subseteq 1..Len(Old) /\ gone \subseteq 1..Len(Old)
      BY <3>1, <3>2 DEF Accounted, Copied
    <3>5. 1..Len(Old) \subseteq Sources \cup gone
      BY <3>1, <3>2
    <3> QED BY <2>1, <3>3, <3>4, <3>5
  <2> QED BY <2>2, <2>3, <2>4 DEF LinesSurvive
<1> QED BY <1>1, PatchInvariance, PTL

-----------------------------------------------------------------------------
(* The parser goes from place to place *)

\* The places, in terms of the files after a step that leaves the patch alone.
LEMMA PlaceFrame ==
  ASSUME UNCHANGED <<intent, patch>>
  PROVE  /\ \A n : Found(n)' <=>
              /\ Len(files') = Kept(n)
              /\ \A k \in 1..Kept(n) : IsSection(files'[k], Wanted[k])
         /\ \A n, q : Open(n, q)' <=>
              /\ Secs[n].to # DevNull /\ Len(files') = Kept(n)
              /\ \A k \in 1..(Kept(n) - 1) : IsSection(files'[k], Wanted[k])
              /\ files'[Kept(n)].from = Secs[n].from /\ files'[Kept(n)].to = Secs[n].to
              /\ files'[Kept(n)].hunks = SubSeq(BodyLines(Secs[n]), 1, q)
         /\ \A n, j : HunkAt(Secs[n], j)' = HunkAt(Secs[n], j)
<1>1. /\ Secs' = Secs /\ Wanted' = Wanted /\ \A n : Kept(n)' = Kept(n)
  BY IntentFrame
<1>2. \A n : Found(n)' <=> /\ Len(files') = Kept(n)
                           /\ \A k \in 1..Kept(n) : IsSection(files'[k], Wanted[k])
  BY <1>1 DEF Found, Through, IsSection
<1>3. \A n, q : Open(n, q)' <=>
              /\ Secs[n].to # DevNull /\ Len(files') = Kept(n)
              /\ \A k \in 1..(Kept(n) - 1) : IsSection(files'[k], Wanted[k])
              /\ files'[Kept(n)].from = Secs[n].from /\ files'[Kept(n)].to = Secs[n].to
              /\ files'[Kept(n)].hunks = SubSeq(BodyLines(Secs[n]), 1, q)
  BY <1>1 DEF Open, Through, IsSection
<1>4. \A n, j : HunkAt(Secs[n], j)' = HunkAt(Secs[n], j)
  BY <1>1
<1> QED BY <1>2, <1>3, <1>4

\* A header opens a section.
LEMMA Opens ==
  ASSUME Meant, files \in Seq(Sections), NEW n \in 0..Len(Secs), n < Len(Secs), Found(n),
         Secs[n + 1].to # DevNull, UNCHANGED <<intent, patch>>,
         files' = Append(files, [from |-> Secs[n + 1].from, to |-> Secs[n + 1].to,
                                 hunks |-> <<>>])
  PROVE  Open(n + 1, 0)'
<1> DEFINE s == Secs[n + 1]
           f == [from |-> s.from, to |-> s.to, hunks |-> <<>>]
           m == Kept(n)
<1>1. n + 1 \in 1..Len(Secs) /\ n + 1 - 1 = n /\ s \in SectionsMeant
  BY IntentFacts DEF Meant
<1>2. m \in Nat /\ Kept(n + 1) = m + 1
  <2>1. intent \in Intents
    BY DEF Meant
  <2>2. \A k \in 0..Len(Secs) : Kept(k) \in Nat
    BY <2>1, WantedLayout
  <2>3. Kept(n + 1) = Kept(n + 1 - 1) + 1
    BY <2>1, <1>1, WantedLayout
  <2> QED BY <2>2, <2>3, <1>1
<1>3. f \in Sections
  <2>1. s.from \in Words /\ s.to \in Paths
    BY <1>1 DEF SectionsMeant, Words
  <2> QED BY <2>1, EmptySeq DEF Sections
<1>4. Len(files) = m /\ \A k \in 1..m : IsSection(files[k], Wanted[k])
  BY DEF Found, Through
<1> HIDE DEF f, m
<1>5. /\ Len(files') = m + 1 /\ files'[m + 1] = f
      /\ \A k \in 1..m : files'[k] = files[k]
  <2>1. files' = Append(files, f)
    BY DEF f
  <2>2. /\ Len(Append(files, f)) = Len(files) + 1
        /\ \A k \in 1..Len(files) : Append(files, f)[k] = files[k]
        /\ Append(files, f)[Len(files) + 1] = f
    BY <1>3, AppendProperties
  <2> QED BY <2>1, <2>2, <1>4
<1>6. SubSeq(BodyLines(s), 1, 0) = <<>>
  BY SubSeqEmpty
<1>7. m + 1 - 1 = m
  BY <1>2
<1>8. f.from = s.from /\ f.to = s.to /\ f.hunks = <<>>
  BY DEF f
<1>9. /\ Secs[n + 1].to # DevNull /\ Len(files') = Kept(n + 1)
      /\ \A k \in 1..(Kept(n + 1) - 1) : IsSection(files'[k], Wanted[k])
      /\ files'[Kept(n + 1)].from = Secs[n + 1].from
      /\ files'[Kept(n + 1)].to = Secs[n + 1].to
      /\ files'[Kept(n + 1)].hunks = SubSeq(BodyLines(Secs[n + 1]), 1, 0)
  BY <1>2, <1>4, <1>5, <1>6, <1>7, <1>8
<1> QED BY <1>9, PlaceFrame

\* A line of its hunks is added to the section that is open.
LEMMA OpenAdds ==
  ASSUME Meant, files \in Seq(Sections), NEW n \in 1..Len(Secs), NEW q \in Nat,
         q < Len(BodyLines(Secs[n])), Open(n, q), patch[pos] = BodyLines(Secs[n])[q + 1],
         AddHunkLine, UNCHANGED <<intent, patch>>
  PROVE  Open(n, q + 1)'
<1> DEFINE s == Secs[n]
           b == BodyLines(s)
           m == Kept(n)
           e == [files[m] EXCEPT !.hunks = Append(@, patch[pos])]
<1>1. s \in SectionsMeant /\ b \in Seq(Lines) /\ Len(b) \in Nat
  <2>1. s \in SectionsMeant
    BY IntentFacts DEF Meant
  <2>2. b \in Seq(Lines)
    BY <2>1, HunkLayout
  <2> QED BY <2>1, <2>2, LenProperties
<1>2. m \in Nat \ {0}
  <2>1. n - 1 \in 0..Len(Secs) /\ Secs[n].to # DevNull /\ intent \in Intents
    BY IntentFacts DEF Open, Meant
  <2>2. Kept(n) = Kept(n - 1) + 1
    BY <2>1, WantedLayout
  <2>3. Kept(n - 1) \in Nat
    BY <2>1, WantedLayout
  <2> QED BY <2>2, <2>3
<1>3. /\ Len(files) = m /\ \A k \in 1..(m - 1) : IsSection(files[k], Wanted[k])
      /\ files[m].from = s.from /\ files[m].to = s.to /\ files[m].hunks = SubSeq(b, 1, q)
      /\ s.to # DevNull
  BY DEF Open, Through
<1> HIDE DEF b, m
<1>4. m \in 1..Len(files) /\ files[m] \in Sections
  <2>1. m \in 1..Len(files)
    BY <1>2, <1>3
  <2> QED BY <2>1, ElementOfSeq
<1>5. q + 1 \in 1..Len(b) /\ q + 1 - 1 = q /\ b[q + 1] \in Lines
  <2>1. q + 1 \in 1..Len(b) /\ q + 1 - 1 = q
    BY <1>1 DEF b
  <2> QED BY <2>1, <1>1, ElementOfSeq
<1>6. SubSeq(b, 1, q + 1) = Append(SubSeq(b, 1, q), b[q + 1])
  <2>1. 1 \in 1..Len(b) /\ q + 1 \in 1..Len(b)
    BY <1>5
  <2>2. SubSeq(b, 1, q + 1) = SubSeq(b, 1, q + 1 - 1) \o <<b[q + 1]>>
    <3> DEFINE r == q + 1
    <3>1. b \in Seq(Lines) /\ r \in 1..Len(b)
      BY <2>1, <1>1 DEF b
    <3> HIDE DEF r
    <3>2. \A d \in 1..Len(b) : \A k \in d..Len(b) :
            SubSeq(b, d, k) = SubSeq(b, d, k - 1) \o <<b[k]>>
      BY <3>1, SubSeqRecursiveSecond
    <3>3. SubSeq(b, 1, r) = SubSeq(b, 1, r - 1) \o <<b[r]>>
      BY <2>1, <3>1, <3>2
    <3> QED BY <3>3 DEF r
  <2>3. SubSeq(b, 1, q) \in Seq(Lines)
    BY <1>3, <1>4 DEF Sections
  <2>4. Append(SubSeq(b, 1, q), b[q + 1]) = SubSeq(b, 1, q) \o <<b[q + 1]>>
    BY <2>3, <1>5, AppendIsConcat
  <2> QED BY <2>2, <2>4, <1>5
<1>7. /\ e.from = s.from /\ e.to = s.to /\ e.hunks = SubSeq(b, 1, q + 1) /\ e \in Sections
  <2>1. patch[pos] = b[q + 1]
    BY DEF b
  <2>2. Append(files[m].hunks, patch[pos]) \in Seq(Lines)
    BY <1>4, <1>5, <2>1, AppendProperties DEF Sections
  <2>3. e \in Sections
    BY <2>2, <1>4 DEF Sections
  <2> QED BY <2>1, <2>3, <1>3, <1>4, <1>6 DEF Sections
<1>8. files' = [files EXCEPT ![m] = e]
  BY <1>3 DEF AddHunkLine
<1> HIDE DEF e, s
<1>9. /\ Len(files') = m /\ files'[m] = e
      /\ \A k \in 1..(m - 1) : files'[k] = files[k]
  <2>1. /\ Len([files EXCEPT ![m] = e]) = Len(files)
        /\ \A k \in 1..Len(files) :
             [files EXCEPT ![m] = e][k] = IF k = m THEN e ELSE files[k]
    BY <1>4, <1>7, ExceptSeq
  <2>2. \A k \in 1..(m - 1) : k \in 1..Len(files) /\ k # m
    BY <1>2, <1>3
  <2> QED BY <2>1, <2>2, <1>3, <1>4, <1>8
<1>10. /\ Secs[n].to # DevNull /\ Len(files') = Kept(n)
       /\ \A k \in 1..(Kept(n) - 1) : IsSection(files'[k], Wanted[k])
       /\ files'[Kept(n)].from = Secs[n].from /\ files'[Kept(n)].to = Secs[n].to
       /\ files'[Kept(n)].hunks = SubSeq(BodyLines(Secs[n]), 1, q + 1)
  BY <1>3, <1>7, <1>9 DEF m, b, s
<1> QED BY <1>10, PlaceFrame

\* With all its lines it is found; so is one that is skipped.
LEMMA OpenDone ==
  ASSUME Meant, NEW n \in 1..Len(Secs), Open(n, Len(BodyLines(Secs[n])))
  PROVE  Found(n)
<1> DEFINE s == Secs[n]
           m == Kept(n)
<1>1. BodyLines(s) \in Seq(Lines)
  BY IntentFacts, HunkLayout DEF Meant
<1>2. SubSeq(BodyLines(s), 1, Len(BodyLines(s))) = BodyLines(s)
  BY <1>1, SubSeqFull
<1>3. s.to # DevNull /\ intent \in Intents
  BY DEF Open, Meant
<1>4. m \in Nat /\ Wanted[m] = s
  <2>1. Wanted[m] = s
    BY <1>3, WantedLayout
  <2>2. n \in 0..Len(Secs) /\ \A k \in 0..Len(Secs) : Kept(k) \in Nat
    BY <1>3, WantedLayout, IntentFacts
  <2> QED BY <2>1, <2>2
<1>5. /\ Len(files) = m /\ \A k \in 1..(m - 1) : IsSection(files[k], Wanted[k])
      /\ files[m].from = s.from /\ files[m].to = s.to
      /\ files[m].hunks = SubSeq(BodyLines(s), 1, Len(BodyLines(s)))
  BY DEF Open, Through
<1>6. IsSection(files[m], Wanted[m])
  BY <1>2, <1>4, <1>5 DEF IsSection
<1> HIDE DEF m, s
<1>7. \A k \in 1..m : k \in 1..(m - 1) \/ k = m
  BY <1>4
<1>8. \A k \in 1..m : IsSection(files[k], Wanted[k])
  BY <1>5, <1>6, <1>7
<1> QED BY <1>5, <1>8 DEF Found, Through, m

\* A section that deletes its file is found by skipping it.
LEMMA SkipFound ==
  ASSUME Meant, NEW n \in 0..Len(Secs), n < Len(Secs), Found(n), Secs[n + 1].to = DevNull
  PROVE  Found(n + 1)
<1>1. n + 1 \in 1..Len(Secs) /\ n + 1 - 1 = n
  BY IntentFacts DEF Meant
<1>2. intent \in Intents
  BY DEF Meant
<1>3. Kept(n + 1) = Kept(n + 1 - 1)
  BY <1>1, <1>2, WantedLayout
<1> QED BY <1>1, <1>3 DEF Found

\* All sections are found.
LEMMA AllFound ==
  ASSUME Meant, files \in Seq(Sections), Found(Len(Secs)) PROVE Recovered
<1>1. Len(files) = Len(Wanted) /\ \A k \in 1..Len(files) : IsSection(files[k], Wanted[k])
  BY WantedLayout DEF Meant, Found, Through
<1>2. DOMAIN files = 1..Len(files)
  BY LenProperties
<1> QED BY <1>1, <1>2 DEF Recovered, IsSection

\* The empty line behind a final newline goes to the last one.
LEMMA LastFound ==
  ASSUME Meant, files \in Seq(Sections), files # <<>>, Found(Len(Secs)),
         patch[pos] = EmptyLine, AddHunkLine, UNCHANGED <<intent, patch>>
  PROVE  Recovered'
<1> DEFINE m == Len(files)
           e == [files[m] EXCEPT !.hunks = Append(@, EmptyLine)]
<1>1. m \in 1..m /\ m \in Nat
  BY EmptySeq
<1>2. m = Len(Wanted) /\ \A k \in 1..m : IsSection(files[k], Wanted[k])
  BY WantedLayout DEF Meant, Found, Through
<1>3. files[m] \in Sections /\ EmptyLine \in Lines
  <2>1. files[m] \in Sections
    BY <1>1, ElementOfSeq
  <2>2. EmptyLine \in Lines
    BY PatchAssumption DEF EmptyLine, Line, Lines, Texts, Leads, Ops
  <2> QED BY <2>1, <2>2
<1>4. Append(files[m].hunks, EmptyLine) \in Seq(Lines)
  BY <1>3, AppendProperties DEF Sections
<1>5. /\ e \in Sections /\ e.from = files[m].from /\ e.to = files[m].to
      /\ e.hunks = Append(files[m].hunks, EmptyLine)
  <2> HIDE DEF m
  <2> QED BY <1>3, <1>4 DEF Sections
<1>6. files' = [files EXCEPT ![m] = e]
  BY DEF AddHunkLine
<1> HIDE DEF e, m
<1>7. /\ Len(files') = m /\ files' \in Seq(Sections)
      /\ \A k \in 1..m : files'[k] = IF k = m THEN e ELSE files[k]
  <2>1. m = Len(files)
    BY DEF m
  <2>2. /\ [files EXCEPT ![m] = e] \in Seq(Sections)
        /\ Len([files EXCEPT ![m] = e]) = Len(files)
        /\ \A k \in 1..Len(files) :
             [files EXCEPT ![m] = e][k] = IF k = m THEN e ELSE files[k]
    BY <2>1, <1>1, <1>5, ExceptSeq
  <2> QED BY <2>1, <2>2, <1>6
<1>8. DOMAIN files' = 1..m
  BY <1>7, LenProperties
<1>9. ASSUME NEW k \in 1..m
      PROVE  /\ files'[k].from = Wanted[k].from /\ files'[k].to = Wanted[k].to
             /\ files'[k].hunks \in {BodyLines(Wanted[k]),
                                     Append(BodyLines(Wanted[k]), EmptyLine)}
  <2>1. IsSection(files[k], Wanted[k])
    BY <1>2
  <2>2. CASE k = m
    BY <2>1, <2>2, <1>5, <1>7 DEF IsSection
  <2>3. CASE k # m
    BY <2>1, <2>3, <1>7 DEF IsSection
  <2> QED BY <2>2, <2>3
<1>10. Wanted' = Wanted
  BY IntentFrame
<1> QED BY <1>2, <1>7, <1>8, <1>9, <1>10 DEF Recovered

\* From each place the parser goes on to one of the next ones.
LEMMA FromSection ==
  ASSUME Meant, Regular, ParseTypes, Parse, NEW n \in 0..Len(Secs), AtSection(n)
  PROVE  ParsePlace'
<1> DEFINE p == SectionAt(n) + 1
           N == Len(Secs)
<1>1. /\ parse = "scan" /\ pos = p /\ Found(n) /\ files \in Seq(Sections)
      /\ UNCHANGED <<intent, patch>> /\ N \in Nat
  BY IntentFacts DEF AtSection, ParseTypes, Parse, Meant
<1>2. /\ p \in Nat \ {0} /\ Len(patch) \in Nat
      /\ n < N => /\ p = SectionStart(n + 1) /\ p < Len(patch) /\ n + 1 \in 1..N
      /\ n = N => IF intent.nl THEN p = Len(patch) /\ patch[p] = EmptyLine
                  ELSE Len(patch) = p - 1
  BY BehindSection
<1>3. Scan \/ ParseEnds
  BY <1>1 DEF Parse, Section, HunkBody
<1>4. /\ Secs' = Secs /\ \A k : SectionAt(k)' = SectionAt(k)
      /\ \A k : HunksOf(k)' = HunksOf(k)
      /\ \A k, j : LinesOf(k, j)' = LinesOf(k, j)
      /\ \A k, j : HunkStart(k, j)' = HunkStart(k, j)
  BY <1>1, IntentFrame
<1> HIDE DEF p, N
<1>5. CASE n < N
  <2> DEFINE m == n + 1
             s == Secs[m]
  <2>1. m \in 1..N /\ p = SectionStart(m) /\ p < Len(patch) /\ m - 1 = n
    BY <1>1, <1>2, <1>5
  <2>2. /\ IsFileHeader(p)
        /\ patch[p].text.word = s.from /\ patch[p + 1].text.word = s.to
    BY <2>1, HeaderHere DEF N
  <2>3. /\ 1 \in 1..HunksOf(m) /\ s \in SectionsMeant /\ 0 \in 0..LinesOf(m, 1)
    <3>1. HunksOf(m) \in Nat \ {0} /\ s \in SectionsMeant
      BY <2>1, RegularFacts DEF Meant, N
    <3>2. 1 \in 1..HunksOf(m)
      BY <3>1
    <3>3. LinesOf(m, 1) \in Nat
      BY <2>1, <3>2, HunkHere DEF N
    <3> QED BY <3>1, <3>2, <3>3
  <2>4. HunkStart(m, 1) = p + 2 /\ HunkAt(s, 0) = 0
    <3>1. HunkAt(s, 0) = 0
      BY <2>3, HunkLayout
    <3>2. HunkStart(m, 1) = SectionAt(n) + 2 + HunkAt(s, 0) + 1
      BY <2>1 DEF HunkStart
    <3>3. SectionAt(n) \in Int
      <4>1. intent \in Intents /\ patch = Render(intent)
        BY DEF Meant
      <4> QED BY <4>1, PatchLayout
    <3> QED BY <3>1, <3>2, <3>3 DEF p
  <2>5. Scan
    BY <1>1, <1>2, <1>3, <2>1 DEF ParseEnds
  <2>6. CASE s.to = DevNull
    <3>1. pos' = p + 2 /\ parse' = "scan" /\ files' = files
      BY <1>1, <2>2, <2>5, <2>6 DEF Scan
    <3>2. Found(m)
      BY <1>1, <1>5, <2>6, SkipFound DEF N
    <3>3. Found(m)'
      BY <1>1, <3>1, <3>2, PlaceFrame DEF Found, Through
    <3>4. pos' = HunkStart(m, 1) + 0
      BY <3>1, <2>4, <1>2
    <3>5. InDeleted(m, 1, 0)'
      BY <1>4, <2>6, <3>1, <3>3, <3>4 DEF InDeleted
    <3> QED BY <1>4, <2>1, <2>3, <3>5 DEF ParsePlace, N
  <2>7. CASE s.to # DevNull
    <3>1. /\ pos' = p + 2 /\ parse' = "section"
          /\ files' = Append(files, [from |-> s.from, to |-> s.to, hunks |-> <<>>])
      BY <1>1, <2>2, <2>5, <2>7 DEF Scan
    <3>2. Open(m, 0)'
      BY <1>1, <1>5, <2>7, <3>1, Opens DEF N
    <3>3. HunkAt(Secs[m], 0)' = 0 /\ 1 - 1 = 0
      <4>1. \A k, j : HunkAt(Secs[k], j)' = HunkAt(Secs[k], j)
        BY <1>1, PlaceFrame
      <4> QED BY <2>4, <4>1
    <3>4. AtHunk(m, 1)'
      BY <1>4, <2>4, <3>1, <3>2, <3>3 DEF AtHunk
    <3> QED BY <1>4, <2>1, <2>3, <3>4 DEF ParsePlace, N
  <2> QED BY <2>6, <2>7
<1>6. CASE n = N
  <2>1. Recovered
    BY <1>1, <1>6, AllFound DEF N
  <2>2. files' = files => Recovered'
    BY <2>1, <1>1, IntentFrame DEF Recovered
  <2>3. CASE intent.nl
    <3>1. p = Len(patch) /\ patch[p] = EmptyLine
      BY <1>2, <1>6, <2>3
    <3>2. ~IsFileHeader(p)
      BY <3>1 DEF IsFileHeader, IsFrom, EmptyLine, Line
    <3>3. Scan
      BY <1>1, <1>2, <1>3, <3>1 DEF ParseEnds
    <3>4. pos' = p + 1 /\ parse' = "scan" /\ files' = files
      BY <1>1, <3>2, <3>3 DEF Scan
    <3>5. pos' > Len(patch)
      BY <1>2, <3>1, <3>4
    <3>6. Past'
      BY <1>1, <2>2, <3>4, <3>5 DEF Past
    <3> QED BY <3>6 DEF ParsePlace
  <2>4. CASE ~intent.nl
    <3>1. p > Len(patch)
      BY <1>2, <1>6, <2>4
    <3>2. ParseEnds
      BY <1>1, <1>2, <1>3, <3>1 DEF Scan
    <3>3. Past'
      BY <1>1, <2>2, <3>1, <3>2 DEF Past, ParseEnds
    <3> QED BY <3>3 DEF ParsePlace
  <2> QED BY <2>3, <2>4
<1>7. n < N \/ n = N
  BY <1>1 DEF N
<1> QED BY <1>5, <1>6, <1>7

\* A line of a deleted file is skipped, and the next one or the next section comes.
LEMMA FromDeleted ==
  ASSUME Meant, Regular, ParseTypes, Parse, NEW n \in 1..Len(Secs),
         NEW j \in 1..HunksOf(n), NEW i \in 0..LinesOf(n, j), InDeleted(n, j, i)
  PROVE  ParsePlace'
<1> DEFINE c == HunkStart(n, j)
           L == LinesOf(n, j)
<1>1. /\ parse = "scan" /\ Secs[n].to = DevNull /\ pos = c + i /\ Found(n)
      /\ UNCHANGED <<intent, patch>> /\ Len(Secs) \in Nat /\ HunksOf(n) \in Nat
  BY IntentFacts, RegularFacts DEF InDeleted, Parse, Meant
<1>2. /\ c \in Nat \ {0} /\ L \in Nat /\ Len(patch) \in Nat /\ c + L <= Len(patch)
      /\ c + L + 1 = IF j < HunksOf(n) THEN HunkStart(n, j + 1) ELSE SectionAt(n) + 1
  BY HunkHere
<1>3. ~IsFileHeader(c + i)
  BY <1>1, DeletedHere
<1>4. /\ Secs' = Secs /\ \A k : SectionAt(k)' = SectionAt(k)
      /\ \A k : HunksOf(k)' = HunksOf(k)
      /\ \A k, m : LinesOf(k, m)' = LinesOf(k, m)
      /\ \A k, m : HunkStart(k, m)' = HunkStart(k, m)
  BY <1>1, IntentFrame
<1> HIDE DEF c, L
<1>5. Scan \/ ParseEnds
  BY <1>1 DEF Parse, Section, HunkBody
<1>6. i \in 0..L /\ j \in 1..HunksOf(n)
  BY DEF L
<1>7. pos <= Len(patch)
  BY <1>1, <1>2, <1>6
<1>8. pos' = c + i + 1 /\ parse' = "scan" /\ files' = files
  <2>1. Scan
    BY <1>2, <1>5, <1>7, <1>1 DEF ParseEnds
  <2> QED BY <2>1, <1>1, <1>3 DEF Scan
<1>9. Found(n)'
  BY <1>1, <1>8, PlaceFrame DEF Found, Through
<1>10. CASE i < L
  <2>1. i + 1 \in 0..L /\ pos' = c + (i + 1)
    BY <1>2, <1>6, <1>8, <1>10
  <2>2. InDeleted(n, j, i + 1)'
    BY <1>1, <1>4, <1>8, <1>9, <2>1 DEF InDeleted, c
  <2> QED BY <1>4, <1>6, <2>1, <2>2 DEF ParsePlace, L
<1>11. CASE i = L /\ j < HunksOf(n)
  <2>1. j + 1 \in 1..HunksOf(n)
    BY <1>1, <1>6, <1>11
  <2>2. LinesOf(n, j + 1) \in Nat /\ HunkStart(n, j + 1) \in Nat
    BY <2>1, HunkHere
  <2>3. 0 \in 0..LinesOf(n, j + 1) /\ pos' = HunkStart(n, j + 1) + 0
    BY <1>2, <1>8, <1>11, <2>2
  <2>4. InDeleted(n, j + 1, 0)'
    BY <1>1, <1>4, <1>8, <1>9, <2>3 DEF InDeleted
  <2> QED BY <1>4, <2>1, <2>3, <2>4 DEF ParsePlace
<1>12. CASE i = L /\ ~(j < HunksOf(n))
  <2>1. pos' = SectionAt(n) + 1 /\ n \in 0..Len(Secs)
    BY <1>1, <1>2, <1>8, <1>12
  <2>2. AtSection(n)'
    BY <1>4, <1>8, <1>9, <2>1 DEF AtSection
  <2> QED BY <1>4, <2>1, <2>2 DEF ParsePlace
<1> QED BY <1>2, <1>6, <1>10, <1>11, <1>12

\* The header of a hunk opens it.
LEMMA FromHunk ==
  ASSUME Meant, Regular, ParseTypes, Parse, NEW n \in 1..Len(Secs),
         NEW j \in 1..HunksOf(n), AtHunk(n, j)
  PROVE  ParsePlace'
<1> DEFINE c == HunkStart(n, j)
           L == LinesOf(n, j)
           q == HunkAt(Secs[n], j - 1)
<1>1. /\ parse = "section" /\ pos = c /\ Open(n, q) /\ files \in Seq(Sections)
      /\ UNCHANGED <<intent, patch>>
  BY DEF AtHunk, Parse, ParseTypes
<1>2. /\ c \in Nat \ {0} /\ L \in Nat /\ Len(patch) \in Nat /\ c + L <= Len(patch)
      /\ q \in Nat /\ q + 1 + L <= Len(BodyLines(Secs[n]))
      /\ IsHunk(c) /\ patch[c] = BodyLines(Secs[n])[q + 1]
  BY HunkHere
<1>3. Len(BodyLines(Secs[n])) \in Nat
  BY IntentFacts, SectionFacts DEF Meant
<1>4. /\ Secs' = Secs /\ \A k : HunksOf(k)' = HunksOf(k)
      /\ \A k, m : LinesOf(k, m)' = LinesOf(k, m)
      /\ \A k, m : HunkStart(k, m)' = HunkStart(k, m)
  BY <1>1, IntentFrame
<1>5. HunkAt(Secs[n], j - 1)' = q /\ q' = q
  BY <1>1, PlaceFrame
<1> HIDE DEF c, L, q
<1>6. Section
  <2>1. pos <= Len(patch)
    BY <1>1, <1>2
  <2> QED BY <1>1, <1>2, <2>1 DEF Parse, Scan, HunkBody, ParseEnds
<1>7. AddHunkLine /\ parse' = "hunk" /\ pos' = c + 1
  BY <1>1, <1>2, <1>6 DEF Section, AddHunkLine
<1>8. Open(n, q + 1)'
  <2>1. q < Len(BodyLines(Secs[n])) /\ patch[pos] = BodyLines(Secs[n])[q + 1]
    BY <1>1, <1>2, <1>3
  <2> QED BY <1>1, <1>2, <1>5, <1>7, <2>1, OpenAdds
<1>9. c + 1 = c + 0 + 1 /\ q + 1 = q + 1 + 0 /\ 0 \in 0..L
  BY <1>2
<1>10. InHunk(n, j, 0)'
  BY <1>4, <1>5, <1>7, <1>8, <1>9 DEF InHunk, c
<1> QED BY <1>4, <1>9, <1>10 DEF ParsePlace, L

\* Behind a section, the header of the next one ends it.
LEMMA FromNext ==
  ASSUME Meant, Regular, ParseTypes, Parse, NEW n \in 0..Len(Secs), n < Len(Secs), AtNext(n)
  PROVE  ParsePlace'
<1>1. /\ parse = "section" /\ pos = SectionAt(n) + 1 /\ Found(n)
      /\ UNCHANGED <<intent, patch>>
  BY DEF AtNext, Parse
<1>2. /\ SectionAt(n) + 1 = SectionStart(n + 1) /\ SectionAt(n) + 1 < Len(patch)
      /\ SectionAt(n) + 1 \in Nat /\ Len(patch) \in Nat /\ n + 1 \in 1..Len(Secs)
  BY BehindSection
<1>3. IsFileHeader(pos) /\ ~IsHunk(pos)
  BY <1>1, <1>2, HeaderHere
<1>4. Section
  <2>1. pos <= Len(patch)
    BY <1>1, <1>2
  <2> QED BY <1>1, <1>2, <2>1 DEF Parse, Scan, HunkBody, ParseEnds
<1>5. parse' = "scan" /\ pos' = pos /\ files' = files
  BY <1>3, <1>4 DEF Section
<1>6. Secs' = Secs /\ SectionAt(n)' = SectionAt(n)
  BY <1>1, IntentFrame
<1>7. Found(n)'
  BY <1>1, <1>5, PlaceFrame DEF Found, Through
<1>8. AtSection(n)'
  BY <1>1, <1>5, <1>6, <1>7 DEF AtSection
<1> QED BY <1>6, <1>8 DEF ParsePlace

\* Behind the last line, parsing ends with every section found.
LEMMA FromPast ==
  ASSUME Meant, Regular, ParseTypes, Parse, Past
  PROVE  ParsePlace'
<1>1. /\ pos \in Nat /\ Len(patch) \in Nat /\ pos > Len(patch) /\ parse # "section"
      /\ Recovered /\ UNCHANGED <<intent, patch>>
  BY LenProperties DEF Past, Parse, ParseTypes
<1>2. ParseEnds
  BY <1>1 DEF Parse, Scan, Section, HunkBody
<1>3. parse' = "done" /\ pos' = pos /\ files' = files
  BY <1>2 DEF ParseEnds
<1>4. Recovered'
  BY <1>1, <1>3, IntentFrame DEF Recovered
<1> QED BY <1>1, <1>3, <1>4 DEF ParsePlace, Past

\* A line of a hunk is added to it, and what lies behind its last line ends it.
LEMMA FromLine ==
  ASSUME Meant, Regular, ParseTypes, Parse, NEW n \in 1..Len(Secs),
         NEW j \in 1..HunksOf(n), NEW i \in 0..LinesOf(n, j), InHunk(n, j, i)
  PROVE  ParsePlace'
<1> DEFINE c == HunkStart(n, j)
           L == LinesOf(n, j)
           q == HunkAt(Secs[n], j - 1)
           B == BodyLines(Secs[n])
           N == Len(Secs)
<1>1. /\ parse = "hunk" /\ pos = c + i + 1 /\ Open(n, q + 1 + i) /\ files \in Seq(Sections)
      /\ files # <<>> /\ UNCHANGED <<intent, patch>> /\ HunksOf(n) \in Nat /\ N \in Nat
      /\ pos \in Nat /\ Len(patch) \in Nat
  BY LenProperties, IntentFacts, RegularFacts DEF InHunk, Parse, ParseTypes, Meant
<1>2. /\ c \in Nat \ {0} /\ L \in Nat /\ c + L <= Len(patch)
      /\ q \in Nat /\ q + 1 + L <= Len(B) /\ HunkAt(Secs[n], j) = q + 1 + L
      /\ c + L + 1 = IF j < HunksOf(n) THEN HunkStart(n, j + 1) ELSE SectionAt(n) + 1
      /\ j = HunksOf(n) => q + 1 + L = Len(B)
      /\ \A k \in 1..L : ~IsHunk(c + k) /\ patch[c + k] = B[q + 1 + k]
  BY HunkHere
<1>3. Len(B) \in Nat
  BY IntentFacts, SectionFacts DEF Meant
<1>4. /\ Secs' = Secs /\ \A k : SectionAt(k)' = SectionAt(k)
      /\ \A k : HunksOf(k)' = HunksOf(k)
      /\ \A k, m : LinesOf(k, m)' = LinesOf(k, m)
      /\ \A k, m : HunkStart(k, m)' = HunkStart(k, m)
  BY <1>1, IntentFrame
<1>5. \A m : HunkAt(Secs[n], m)' = HunkAt(Secs[n], m)
  BY <1>1, PlaceFrame
<1>6. HunkBody \/ ParseEnds
  BY <1>1 DEF Parse, Scan, Section
<1>7. \A k \in 1..L : ~IsSafeFileHeader(c + k)
  BY LookAlike
<1> HIDE DEF c, L, q, B, N
<1>8. i \in 0..L /\ j \in 1..HunksOf(n) /\ n \in 1..N
  BY DEF L, N
<1>9. CASE i < L
  <2>1. /\ i + 1 \in 1..L /\ i + 1 \in 0..L /\ pos = c + (i + 1) /\ pos <= Len(patch)
        /\ q + 1 + i \in Nat /\ q + 1 + i < Len(B) /\ q + 1 + (i + 1) = q + 1 + i + 1
    BY <1>1, <1>2, <1>3, <1>8, <1>9
  <2>2. ~IsHunk(pos) /\ ~IsSafeFileHeader(pos) /\ patch[pos] = B[q + 1 + i + 1]
    BY <1>2, <1>7, <2>1
  <2>3. HunkBody
    BY <1>1, <1>6, <2>1 DEF ParseEnds
  <2>4. AddHunkLine /\ parse' = "hunk" /\ pos' = pos + 1
    BY <1>1, <2>2, <2>3 DEF HunkBody, AddHunkLine
  <2>5. PICK r \in Nat : r = q + 1 + i
    BY <2>1
  <2>6. Open(n, r + 1)'
    <3>1. Open(n, r) /\ r < Len(BodyLines(Secs[n])) /\ patch[pos] = BodyLines(Secs[n])[r + 1]
      BY <1>1, <2>1, <2>2, <2>5 DEF B
    <3> QED BY <1>1, <2>4, <2>5, <3>1, OpenAdds
  <2>7. r + 1 = HunkAt(Secs[n], j - 1)' + 1 + (i + 1)
    BY <1>5, <2>1, <2>5 DEF q
  <2>8. pos' = HunkStart(n, j)' + (i + 1) + 1
    BY <1>4, <2>1, <2>4 DEF c
  <2>9. InHunk(n, j, i + 1)'
    BY <2>4, <2>6, <2>7, <2>8 DEF InHunk
  <2> QED BY <1>4, <1>8, <2>1, <2>9 DEF ParsePlace, L, N
<1>10. CASE i = L /\ j < HunksOf(n)
  <2>1. j + 1 \in 1..HunksOf(n) /\ pos = HunkStart(n, j + 1) /\ j + 1 - 1 = j
    <3>1. c + L + 1 = HunkStart(n, j + 1)
      BY <1>2, <1>10
    <3>2. pos = c + L + 1
      BY <1>1, <1>10
    <3>3. j \in 1..HunksOf(n) /\ HunksOf(n) \in Nat
      BY <1>1, <1>8
    <3> HIDE DEF N
    <3>4. j + 1 \in 1..HunksOf(n) /\ j + 1 - 1 = j
      BY <3>3, <1>10
    <3> QED BY <3>1, <3>2, <3>4
  <2>2. IsHunk(pos) /\ pos <= Len(patch)
    <3>1. IsHunk(HunkStart(n, j + 1))
      BY <2>1, HunkHere
    <3> QED BY <2>1, <3>1 DEF IsHunk
  <2>3. parse' = "section" /\ pos' = pos /\ files' = files
    BY <1>1, <1>6, <2>2 DEF HunkBody, ParseEnds
  <2>4. PICK r \in Nat : r = q + 1 + L
    BY <1>2
  <2>5. Open(n, r)'
    <3>1. Open(n, r)
      BY <1>1, <1>10, <2>4
    <3> QED BY <1>1, <2>3, <3>1, PlaceFrame DEF Open, Through
  <2>6. r = HunkAt(Secs[n], j + 1 - 1)'
    BY <1>2, <1>5, <2>1, <2>4
  <2>7. AtHunk(n, j + 1)'
    BY <1>4, <2>1, <2>3, <2>5, <2>6 DEF AtHunk
  <2> QED BY <1>4, <1>8, <2>1, <2>7 DEF ParsePlace, N
<1>11. CASE i = L /\ ~(j < HunksOf(n))
  <2>0. j = HunksOf(n)
    <3>1. j \in 1..HunksOf(n) /\ HunksOf(n) \in Nat
      BY <1>1, <1>8
    <3> QED BY <3>1, <1>11
  <2>1. j = HunksOf(n) /\ pos = SectionAt(n) + 1 /\ q + 1 + i = Len(B)
    BY <1>1, <1>2, <1>11, <2>0
  <2>2. Found(n)
    <3>1. Open(n, Len(BodyLines(Secs[n])))
      BY <1>1, <2>1 DEF B
    <3> QED BY <3>1, OpenDone
  <2>3. n \in 0..Len(Secs)
    OBVIOUS
  <2>4. CASE n < N
    <3>1. /\ pos = SectionStart(n + 1) /\ pos < Len(patch) /\ n + 1 \in 1..Len(Secs)
      BY <2>1, <2>3, <2>4, BehindSection DEF N
    <3>2. IsSafeFileHeader(pos)
      BY <3>1, HeaderHere
    <3>3. pos <= Len(patch)
      BY <1>1, <3>1
    <3>4. parse' = "section" /\ pos' = pos /\ files' = files
      BY <1>1, <1>6, <3>2, <3>3 DEF HunkBody, ParseEnds
    <3>5. Found(n)'
      BY <1>1, <2>2, <3>4, PlaceFrame DEF Found, Through
    <3>6. AtNext(n)'
      BY <1>4, <2>1, <3>4, <3>5 DEF AtNext
    <3> QED BY <1>4, <2>3, <2>4, <3>6 DEF ParsePlace, N
  <2>5. CASE n = N /\ intent.nl
    <3>1. pos = Len(patch) /\ patch[pos] = EmptyLine
      BY <2>1, <2>3, <2>5, BehindSection DEF N
    <3>2. ~IsHunk(pos) /\ ~IsSafeFileHeader(pos)
      BY <3>1 DEF IsHunk, IsSafeFileHeader, IsFileHeader, IsFrom, EmptyLine, Line
    <3>3. pos <= Len(patch)
      BY <1>1, <3>1
    <3>4. AddHunkLine /\ parse' = "hunk" /\ pos' = pos + 1
      BY <1>1, <1>6, <3>2, <3>3 DEF HunkBody, ParseEnds, AddHunkLine
    <3>5. Recovered'
      BY <1>1, <2>2, <2>5, <3>1, <3>4, LastFound DEF N
    <3>6. pos' > Len(patch')
      BY <1>1, <3>1, <3>4
    <3> QED BY <3>4, <3>5, <3>6 DEF ParsePlace, Past
  <2>6. CASE n = N /\ ~intent.nl
    <3>1. Len(patch) = pos - 1
      BY <2>1, <2>3, <2>6, BehindSection DEF N
    <3>2. pos > Len(patch)
      BY <1>1, <3>1
    <3>3. Recovered
      BY <1>1, <2>2, <2>6, AllFound DEF N
    <3>4. parse' = "done" /\ pos' = pos /\ files' = files
      BY <1>1, <1>6, <3>2 DEF HunkBody, ParseEnds
    <3>5. Recovered'
      BY <1>1, <3>3, <3>4, IntentFrame DEF Recovered
    <3> QED BY <1>1, <3>2, <3>4, <3>5 DEF ParsePlace, Past
  <2> QED BY <1>1, <1>8, <2>4, <2>5, <2>6
<1> QED BY <1>2, <1>8, <1>9, <1>10, <1>11

\* So it always is at one of them.
LEMMA ParsePlaceStep == Meant /\ ParseTypes /\ ParsePlace /\ Parse => ParsePlace'
<1> SUFFICES ASSUME Meant, ParseTypes, ParsePlace, Parse, Regular PROVE ParsePlace'
  <2>1. Parse => (Regular' <=> Regular)
    BY IntentFrame DEF Parse
  <2> QED BY <2>1 DEF ParsePlace
<1> QED BY FromSection, FromDeleted, FromHunk, FromLine, FromNext, FromPast DEF ParsePlace

\* At first nothing is parsed and nothing is found.
LEMMA ParsePlaceInit == Init => ParsePlace
<1> SUFFICES ASSUME Init PROVE ParsePlace
  OBVIOUS
<1>1. /\ intent \in Intents /\ patch = Render(intent)
      /\ parse = "scan" /\ pos = 1 /\ files = <<>>
  BY DEF Init
<1>2. SectionAt(0) = 0 /\ Kept(0) = 0
  BY <1>1, PatchLayout, WantedLayout
<1>3. Len(files) = 0 /\ 0 \in 0..Len(Secs)
  BY <1>1, EmptySeq, IntentFacts
<1>4. \A k \in 1..0 : IsSection(files[k], Wanted[k])
  OBVIOUS
<1>5. Found(0)
  BY <1>2, <1>3, <1>4 DEF Found, Through
<1>6. AtSection(0)
  BY <1>1, <1>2, <1>5 DEF AtSection
<1> QED BY <1>3, <1>6 DEF ParsePlace

\* A parsed patch has the sections that were meant.
LEMMA ParsedRight ==
  ASSUME Regular, ParsePlace, parse = "done" PROVE Recovered
BY DEF ParsePlace, AtSection, AtNext, AtHunk, InDeleted, InHunk, Past
-----------------------------------------------------------------------------
(* The files that are expected *)

\* g[k] is what the files are after the first k sections, up to n.
Steps(n, g) ==
  g[0] = disk0 /\ \A k \in 1..n : g[k] = Patched(g[k - 1], Wanted[k])

\* The disk can be patched by any number of sections in turn.
LEMMA StepsExist == ASSUME NEW n \in Nat PROVE \E g : Steps(n, g)
<1> DEFINE T == {k \in 0..n : \E g : Steps(k, g)}
<1>1. 0 \in T
  <2>1. [k \in {0} |-> disk0][0] = disk0
    OBVIOUS
  <2>2. \A k \in 1..0 : FALSE
    OBVIOUS
  <2>3. Steps(0, [k \in {0} |-> disk0])
    BY <2>1, <2>2 DEF Steps
  <2> QED BY <2>3
<1>2. ASSUME NEW i \in 1..n, i - 1 \in T PROVE i \in T
  <2>1. PICK g : Steps(i - 1, g)
    BY <1>2
  <2> DEFINE h == [k \in 0..i |-> IF k = i THEN Patched(g[i - 1], Wanted[i]) ELSE g[k]]
  <2>2. h[0] = g[0] /\ h[i] = Patched(g[i - 1], Wanted[i]) /\ i \in Nat
    OBVIOUS
  <2>3. \A k \in 0..(i - 1) : h[k] = g[k]
    OBVIOUS
  <2> HIDE DEF h
  <2>4. ASSUME NEW k \in 1..i PROVE h[k] = Patched(h[k - 1], Wanted[k])
    <3>1. k - 1 \in 0..(i - 1) /\ h[k - 1] = g[k - 1]
      BY <2>2, <2>3
    <3>2. CASE k = i
      BY <2>2, <3>1, <3>2
    <3>3. CASE k # i
      <4>1. k \in 1..(i - 1) /\ k \in 0..(i - 1)
        BY <2>2, <3>3
      <4> QED BY <2>1, <2>3, <3>1, <4>1 DEF Steps
    <3> QED BY <3>2, <3>3
  <2>5. Steps(i, h)
    BY <2>1, <2>2, <2>4 DEF Steps
  <2> QED BY <2>5
<1>3. T \in SUBSET (0..n)
  OBVIOUS
<1> HIDE DEF T
<1>4. T = 0..n
  BY <1>1, <1>2, <1>3, Induction
<1>5. n \in T
  BY <1>4
<1> QED BY <1>5 DEF T

\* More sections change nothing of what the first ones make.
LEMMA StepsAgree ==
  ASSUME NEW n \in Nat, NEW g, NEW h, Steps(n, g), Steps(n + 1, h)
  PROVE  g[n] = h[n]
<1> DEFINE T == {k \in 0..n : g[k] = h[k]}
<1>1. 0 \in T
  BY DEF Steps
<1>2. ASSUME NEW i \in 1..n, i - 1 \in T PROVE i \in T
  <2>1. g[i - 1] = h[i - 1] /\ i \in 1..(n + 1)
    BY <1>2
  <2>2. g[i] = Patched(g[i - 1], Wanted[i])
    BY DEF Steps
  <2>3. h[i] = Patched(h[i - 1], Wanted[i])
    BY <2>1 DEF Steps
  <2> QED BY <2>1, <2>2, <2>3
<1>3. T \in SUBSET (0..n)
  OBVIOUS
<1> HIDE DEF T
<1>4. T = 0..n
  BY <1>1, <1>2, <1>3, Induction
<1>5. n \in T
  BY <1>4
<1> QED BY <1>5 DEF T

\* The recursive function Expected is what its definition says.
LEMMA ExpectedFacts ==
  /\ Expected[0] = disk0
  /\ \A n \in Nat : Expected[n + 1] = Patched(Expected[n], Wanted[n + 1])
<1> DEFINE last(n) == (CHOOSE g : Steps(n, g))[n]
           f == [n \in Nat |-> last(n)]
           Fits0(e) == e = [n \in Nat |->
                              IF n = 0 THEN disk0 ELSE Patched(e[n - 1], Wanted[n])]
<1>1. \A n \in Nat : Steps(n, CHOOSE g : Steps(n, g))
  BY StepsExist
<1>2. last(0) = disk0
  <2>1. Steps(0, CHOOSE g : Steps(0, g))
    BY <1>1
  <2> QED BY <2>1 DEF Steps
<1>3. ASSUME NEW n \in Nat, n # 0 PROVE last(n) = Patched(last(n - 1), Wanted[n])
  <2> DEFINE g == CHOOSE g : Steps(n - 1, g)
             h == CHOOSE h : Steps(n, h)
  <2>1. n - 1 \in Nat /\ n - 1 + 1 = n /\ n \in 1..n
    BY <1>3
  <2>2. Steps(n - 1, g) /\ Steps(n, h)
    BY <1>1, <2>1
  <2> HIDE DEF g, h
  <2>3. g[n - 1] = h[n - 1]
    BY <2>1, <2>2, StepsAgree
  <2>4. h[n] = Patched(h[n - 1], Wanted[n])
    BY <2>1, <2>2 DEF Steps
  <2> QED BY <2>3, <2>4 DEF g, h
<1> HIDE DEF last
<1>4. Fits0(f)
  <2>1. \A n \in Nat : f[n] = IF n = 0 THEN disk0 ELSE Patched(f[n - 1], Wanted[n])
    BY <1>2, <1>3
  <2> QED BY <2>1
<1> HIDE DEF f, Fits0
<1>5. Fits0(CHOOSE e : Fits0(e))
  BY <1>4
<1>6. Expected = CHOOSE e : Fits0(e)
  BY DEF Expected, Fits0
<1>7. Fits0(Expected)
  BY <1>5, <1>6
<1>8. \A n \in Nat : Expected[n] = IF n = 0 THEN disk0
                                    ELSE Patched(Expected[n - 1], Wanted[n])
  BY <1>7 DEF Fits0
<1>9. ASSUME NEW n \in Nat PROVE Expected[n + 1] = Patched(Expected[n], Wanted[n + 1])
  <2>1. n + 1 \in Nat /\ n + 1 # 0 /\ n + 1 - 1 = n
    OBVIOUS
  <2> QED BY <2>1, <1>8
<1> QED BY <1>8, <1>9

\* It depends on nothing but the intent and the first disk.
LEMMA ExpectedFrame ==
  ASSUME UNCHANGED <<intent, disk0>> PROVE Expected' = Expected
<1>1. Wanted' = Wanted
  BY DEF Wanted
<1> QED BY <1>1 DEF Expected

-----------------------------------------------------------------------------
(* A section is applied to the letter *)

OldOps == {"-", "space"}
NewOps == {"+", "space"}
Size(s, j) == Len(s.hunks[j].body)

\* The first line of the file behind the hunks before hunk j; what lies between
\* them and hunk j; and what the first j hunks make of the file.
EndBefore(s, j) == IF j = 1 THEN 1 ELSE EndOf(s.hunks[j - 1])
Gap(s, j) ==
  IF s.from # DevNull /\ s.hunks[j].start - 1 <= Len(Old)
  THEN SubSeq(Old, EndBefore(s, j), s.hunks[j].start - 1) ELSE <<>>
Pieces(s)  == [j \in DOMAIN s.hunks |-> Gap(s, j) \o NewOf(s.hunks[j])]
Made(s, j) == Upto(Texts, Pieces(s))[j]

\* The first i lines of hunk j are no bad headers.
Reads(s, j, i) == \A k \in 1..i : s.hunks[j].body[k].op # "@@?"

\* They quote the file as well; those of a new file quote none.
Quotes(s, j, i) ==
  /\ Reads(s, j, i)
  /\ IF s.from = DevNull THEN TextAt(s.hunks[j], {"-"}, i) = 0
     ELSE \A k \in 1..TextAt(s.hunks[j], OldOps, i) :
            /\ s.hunks[j].start - 1 + k <= Len(Old)
            /\ Old[s.hunks[j].start - 1 + k] = OldOf(s.hunks[j])[k]
QuotesThrough(s, j) == \A k \in 1..j : Quotes(s, k, Size(s, k))

\* The places applyHunksToText can be at: behind j hunks, behind line i of hunk
\* j, behind the last one.
Between(s, j) ==
  /\ QuotesThrough(s, j)
  /\ IF j < Len(s.hunks) THEN next = HunkAt(s, j) + 1 ELSE next > Len(BodyLines(s))
  /\ s.from # DevNull => cursor + 1 = EndBefore(s, j + 1)
  /\ out = Made(s, j)

Inside(s, j, i) ==
  /\ QuotesThrough(s, j - 1) /\ Quotes(s, j, i)
  /\ next = HunkAt(s, j - 1) + 2 + i
  /\ s.from # DevNull =>
       cursor = s.hunks[j].start - 1 + TextAt(s.hunks[j], OldOps, i)
  /\ s.from = DevNull \/ s.hunks[j].start - 1 <= Len(Old) =>
       out = (Made(s, j - 1) \o Gap(s, j)) \o TextUpto(s.hunks[j], NewOps, i)

Behind(s) ==
  LET H == Len(s.hunks)
  IN  /\ QuotesThrough(s, H)
      /\ out = IF s.from = DevNull THEN Made(s, H)
               ELSE Made(s, H) \o SubSeq(Old, EndBefore(s, H + 1), Len(Old))

Placed(s) ==
  \E j \in 0..Len(s.hunks) :
    \/ Between(s, j)
    \/ j > 0 /\ \E i \in 0..Size(s, j) : Inside(s, j, i)

ApplyPlace ==
  Regular =>
    /\ apply = "lines" => Placed(Wanted[at])
    /\ apply = "write" => Behind(Wanted[at])

\* The file in hand is the one that was opened.
Opened ==
  apply \in {"lines", "write"} =>
    /\ File.to \notin Refused /\ (disk[File.to] = NoFile <=> IsNew)
    /\ ~IsNew => existing = disk[File.to]

\* What was written and answered so far.
Answered ==
  /\ at = 1 \/ (parse = "done" /\ at <= Len(files) + 1)
  /\ apply = "rest" \/ parse = "done"
  /\ reply # "none" => apply = "over"
  /\ Regular =>
       /\ disk = Expected[at - 1] /\ reply # "panic"
       /\ reply = "ok" => at = Len(Wanted) + 1
       /\ reply = "rejected" => Wanted = <<>> \/ ~Possible(disk, Wanted[at])

MeaningInv == Meant /\ ParsePlace /\ Opened /\ ApplyPlace /\ Answered

\* What Regular says of a section of a file that exists.
Tidy(s) ==
  s.from # DevNull =>
    \A j \in 1..Len(s.hunks) :
      /\ s.hunks[j].start > 0 /\ OldOf(s.hunks[j]) # <<>>
      /\ j > 1 => EndOf(s.hunks[j - 1]) <= s.hunks[j].start

\* s is the section in hand.
HandOf(s) ==
  /\ s = Wanted[at] /\ s \in SectionsMeant /\ Tidy(s)
  /\ File.from = s.from /\ File.to = s.to
  /\ File.hunks \in {BodyLines(s), Append(BodyLines(s), EmptyLine)}

\* What is wanted was meant.
LEMMA WantedMeant ==
  ASSUME intent \in Intents, NEW k \in 1..Len(Wanted)
  PROVE  \E n \in 1..Len(Secs) : Wanted[k] = Secs[n]
<1> DEFINE N == Len(Secs)
           has(n) == \A i \in 1..Kept(n) : \E m \in 1..N : Wanted[i] = Secs[m]
           T == {n \in 0..N : has(n)}
<1>1. N \in Nat
  BY IntentFacts
<1>2. /\ Kept(0) = 0 /\ Len(Wanted) = Kept(N) /\ \A n \in 0..N : Kept(n) \in Nat
      /\ \A n \in 1..N : IF Secs[n].to = DevNull THEN Kept(n) = Kept(n - 1)
                         ELSE Kept(n) = Kept(n - 1) + 1 /\ Wanted[Kept(n)] = Secs[n]
  BY WantedLayout
<1> HIDE DEF N
<1>3. 0 \in T
  BY <1>1, <1>2
<1>4. ASSUME NEW n \in 1..N, n - 1 \in T PROVE n \in T
  <2>1. has(n - 1) /\ Kept(n - 1) \in Nat /\ n \in 0..N
    BY <1>1, <1>2, <1>4
  <2>2. CASE Kept(n) = Kept(n - 1)
    BY <2>1, <2>2
  <2>3. CASE Kept(n) # Kept(n - 1)
    <3>1. Kept(n) = Kept(n - 1) + 1 /\ Wanted[Kept(n)] = Secs[n]
      BY <1>2, <2>3
    <3>2. \A i \in 1..Kept(n) : i \in 1..Kept(n - 1) \/ i = Kept(n)
      BY <2>1, <3>1
    <3> QED BY <2>1, <3>1, <3>2
  <2> QED BY <2>2, <2>3
<1>5. T \in SUBSET (0..N)
  OBVIOUS
<1> HIDE DEF T
<1>6. T = 0..N
  BY <1>1, <1>3, <1>4, <1>5, Induction
<1>7. N \in T
  BY <1>1, <1>6
<1> QED BY <1>2, <1>7 DEF T, N

\* The sections that are applied are tidy ones, with hunks.
LEMMA WantedTidy ==
  ASSUME Regular, intent \in Intents, NEW k \in 1..Len(Wanted)
  PROVE  Wanted[k] \in SectionsMeant /\ Tidy(Wanted[k]) /\ Wanted[k].hunks # <<>>
<1>1. PICK n \in 1..Len(Secs) : Wanted[k] = Secs[n]
  BY WantedMeant
<1>2. Secs[n] \in SectionsMeant /\ Tidy(Secs[n]) /\ HunksOf(n) \in Nat \ {0}
  BY RegularFacts DEF Tidy, HunksOf, HunkOf
<1>3. Secs[n].hunks # <<>>
  BY <1>2, EmptySeq DEF HunksOf
<1> QED BY <1>1, <1>2, <1>3

\* The section in hand is the one that was meant.
LEMMA InHandFacts ==
  ASSUME Meant, Regular, ParseTypes, ParsePlace, parse = "done", at \in 1..Len(files)
  PROVE  at \in 1..Len(Wanted) /\ HandOf(Wanted[at]) /\ Wanted[at].hunks # <<>>
<1>1. Recovered
  BY ParsedRight
<1>2. at \in 1..Len(Wanted) /\ at \in DOMAIN files
  BY <1>1, LenProperties DEF Recovered, ParseTypes
<1>3. Wanted[at] \in SectionsMeant /\ Tidy(Wanted[at]) /\ Wanted[at].hunks # <<>>
  BY <1>2, WantedTidy DEF Meant
<1> QED BY <1>1, <1>2, <1>3 DEF Recovered, HandOf, File

\* What one more line of a hunk adds to the texts it selects.
LEMMA TextStep ==
  ASSUME NEW h \in Hunks, NEW ops, NEW k \in 1..Len(h.body)
  PROVE  IF h.body[k].op \in ops
         THEN /\ TextAt(h, ops, k) = TextAt(h, ops, k - 1) + 1
              /\ TextsOf(h, ops)[TextAt(h, ops, k)] = h.body[k].text
              /\ TextUpto(h, ops, k) = Append(TextUpto(h, ops, k - 1), h.body[k].text)
         ELSE /\ TextAt(h, ops, k) = TextAt(h, ops, k - 1)
              /\ TextUpto(h, ops, k) = TextUpto(h, ops, k - 1)
<1>1. \A i \in 1..Len(h.body) :
        IF h.body[i].op \in ops
        THEN /\ TextAt(h, ops, i) = TextAt(h, ops, i - 1) + 1
             /\ TextsOf(h, ops)[TextAt(h, ops, i)] = h.body[i].text
             /\ TextUpto(h, ops, i) = Append(TextUpto(h, ops, i - 1), h.body[i].text)
        ELSE /\ TextAt(h, ops, i) = TextAt(h, ops, i - 1)
             /\ TextUpto(h, ops, i) = TextUpto(h, ops, i - 1)
  BY ZenonT(60), TextLayout
<1> QED BY Zenon, <1>1

\* A line further in a hunk.
LEMMA NextText ==
  ASSUME NEW h \in Hunks, NEW ops, NEW i \in 0..Len(h.body), i < Len(h.body)
  PROVE  /\ i + 1 \in 1..Len(h.body) /\ i + 1 \in 0..Len(h.body)
         /\ TextAt(h, ops, i) \in Nat /\ TextUpto(h, ops, i) \in Seq(Texts)
         /\ TextAt(h, ops, i + 1) <= Len(TextsOf(h, ops))
         /\ IF h.body[i + 1].op \in ops
            THEN /\ TextAt(h, ops, i + 1) = TextAt(h, ops, i) + 1
                 /\ TextsOf(h, ops)[TextAt(h, ops, i) + 1] = h.body[i + 1].text
                 /\ TextUpto(h, ops, i + 1) = Append(TextUpto(h, ops, i), h.body[i + 1].text)
            ELSE /\ TextAt(h, ops, i + 1) = TextAt(h, ops, i)
                 /\ TextUpto(h, ops, i + 1) = TextUpto(h, ops, i)
<1>1. Len(h.body) \in Nat
  BY HunkLinesFacts
<1>2. i + 1 \in 1..Len(h.body) /\ i + 1 \in 0..Len(h.body) /\ i + 1 - 1 = i
  BY <1>1
<1>3. /\ TextAt(h, ops, i) \in Nat /\ TextUpto(h, ops, i) \in Seq(Texts)
      /\ TextAt(h, ops, i + 1) <= Len(TextsOf(h, ops))
  BY <1>2, TextLayout
<1> DEFINE m == i + 1
<1>4. m \in 1..Len(h.body) /\ m - 1 = i
  BY <1>2
<1> HIDE DEF m
<1>5. IF h.body[m].op \in ops
      THEN /\ TextAt(h, ops, m) = TextAt(h, ops, m - 1) + 1
           /\ TextsOf(h, ops)[TextAt(h, ops, m)] = h.body[m].text
           /\ TextUpto(h, ops, m) = Append(TextUpto(h, ops, m - 1), h.body[m].text)
      ELSE /\ TextAt(h, ops, m) = TextAt(h, ops, m - 1)
           /\ TextUpto(h, ops, m) = TextUpto(h, ops, m - 1)
  BY <1>4, TextStep
<1>6. IF h.body[m].op \in ops
      THEN /\ TextAt(h, ops, m) = TextAt(h, ops, i) + 1
           /\ TextsOf(h, ops)[TextAt(h, ops, i) + 1] = h.body[m].text
           /\ TextUpto(h, ops, m) = Append(TextUpto(h, ops, i), h.body[m].text)
      ELSE /\ TextAt(h, ops, m) = TextAt(h, ops, i)
           /\ TextUpto(h, ops, m) = TextUpto(h, ops, i)
  BY <1>4, <1>5
<1> QED BY <1>2, <1>3, <1>6 DEF m

\* The hunks of a section.
LEMMA HunkFacts ==
  ASSUME NEW s \in SectionsMeant, Tidy(s), NEW j \in 1..Len(s.hunks)
  PROVE  LET h == s.hunks[j]
         IN  /\ h \in Hunks /\ h.start \in Nat /\ Size(s, j) \in Nat
             /\ OldOf(h) \in Seq(Texts) /\ NewOf(h) \in Seq(Texts)
             /\ Len(OldOf(h)) \in Nat /\ EndOf(h) = h.start + Len(OldOf(h))
             /\ TextAt(h, OldOps, 0) = 0 /\ TextAt(h, OldOps, Size(s, j)) = Len(OldOf(h))
             /\ TextAt(h, {"-"}, 0) = 0
             /\ TextAt(h, {"-"}, Size(s, j)) = Len(TextsOf(h, {"-"}))
             /\ TextsOf(h, {"-"}) \in Seq(Texts)
             /\ TextUpto(h, NewOps, 0) = <<>>
             /\ TextUpto(h, NewOps, Size(s, j)) = NewOf(h)
             /\ EndBefore(s, j) \in Nat
             /\ s.from # DevNull =>
                  /\ 0 < EndBefore(s, j) /\ EndBefore(s, j) <= h.start
                  /\ 0 < h.start /\ 0 < Len(OldOf(h))
<1> DEFINE h == s.hunks[j]
<1>1. /\ Len(s.hunks) \in Nat /\ h \in Hunks
      /\ \A k \in 1..Len(s.hunks) : s.hunks[k] \in Hunks
  BY HunkLayout
<1>2. \A g \in Hunks : /\ OldOf(g) \in Seq(Texts) /\ NewOf(g) \in Seq(Texts)
                       /\ TextsOf(g, {"-"}) \in Seq(Texts)
                       /\ Len(g.body) \in Nat /\ g.start \in Nat
                       /\ TextAt(g, OldOps, 0) = 0
                       /\ TextAt(g, OldOps, Len(g.body)) = Len(OldOf(g))
                       /\ TextAt(g, {"-"}, 0) = 0
                       /\ TextAt(g, {"-"}, Len(g.body)) = Len(TextsOf(g, {"-"}))
                       /\ TextUpto(g, NewOps, 0) = <<>>
                       /\ TextUpto(g, NewOps, Len(g.body)) = NewOf(g)
  <2> SUFFICES ASSUME NEW g \in Hunks
               PROVE  /\ OldOf(g) \in Seq(Texts) /\ NewOf(g) \in Seq(Texts)
                       /\ TextsOf(g, {"-"}) \in Seq(Texts)
                       /\ Len(g.body) \in Nat /\ g.start \in Nat
                       /\ TextAt(g, OldOps, 0) = 0
                       /\ TextAt(g, OldOps, Len(g.body)) = Len(OldOf(g))
                       /\ TextAt(g, {"-"}, 0) = 0
                       /\ TextAt(g, {"-"}, Len(g.body)) = Len(TextsOf(g, {"-"}))
                       /\ TextUpto(g, NewOps, 0) = <<>>
                       /\ TextUpto(g, NewOps, Len(g.body)) = NewOf(g)
    OBVIOUS
  <2>1. g.start \in Nat
    BY DEF Hunks
  <2>2. OldOf(g) = TextsOf(g, OldOps) /\ NewOf(g) = TextsOf(g, NewOps)
    BY DEF OldOf, NewOf, OldOps, NewOps
  <2> QED BY <2>1, <2>2, TextLayout
<1>3. \A g \in Hunks : EndOf(g) = g.start + Len(OldOf(g)) /\ Len(OldOf(g)) \in Nat
  BY <1>2, LenProperties DEF EndOf
<1>4. s.from # DevNull => /\ 0 < h.start /\ 0 < Len(OldOf(h))
                          /\ j > 1 => EndOf(s.hunks[j - 1]) <= h.start
  <2>1. s.from # DevNull => /\ 0 < h.start /\ OldOf(h) # <<>>
                            /\ j > 1 => EndOf(s.hunks[j - 1]) <= h.start
    BY DEF Tidy
  <2>2. OldOf(h) # <<>> => Len(OldOf(h)) \in Nat \ {0}
    BY <1>1, <1>2, EmptySeq
  <2> QED BY <2>1, <2>2
<1> HIDE DEF h
<1>5. CASE j = 1
  <2>1. EndBefore(s, j) = 1 /\ h.start \in Nat
    BY <1>1, <1>2, <1>5 DEF EndBefore
  <2>2. s.from # DevNull => 1 <= h.start
    BY <1>4, <2>1
  <2> QED BY <1>1, <1>2, <1>3, <1>4, <2>1, <2>2 DEF h, Size
<1>6. CASE j # 1
  <2> DEFINE g == s.hunks[j - 1]
  <2>1. j > 1 /\ j - 1 \in 1..Len(s.hunks)
    BY <1>1, <1>6
  <2>2. EndBefore(s, j) = EndOf(g) /\ g \in Hunks
    BY <1>1, <1>6, <2>1 DEF EndBefore
  <2> HIDE DEF g
  <2>3. EndBefore(s, j) \in Nat /\ EndOf(g) = g.start + Len(OldOf(g)) /\ g.start \in Nat
        /\ Len(OldOf(g)) \in Nat
    BY <1>2, <1>3, <2>2
  <2>4. s.from # DevNull => 0 < g.start
    BY <2>1 DEF Tidy, g
  <2>5. s.from # DevNull => 0 < EndBefore(s, j) /\ EndBefore(s, j) <= h.start
    BY <1>4, <2>1, <2>2, <2>3, <2>4 DEF g
  <2> QED BY <1>1, <1>2, <1>3, <1>4, <2>3, <2>5 DEF h, Size
<1> QED BY <1>5, <1>6

\* What the first hunks make of a file, one behind the other.
LEMMA MadeFacts ==
  ASSUME NEW s \in SectionsMeant, Tidy(s), Old \in Seq(Texts)
  PROVE  /\ Len(s.hunks) \in Nat /\ Made(s, 0) = <<>>
         /\ Made(s, Len(s.hunks)) = FlattenSeq(Pieces(s))
         /\ \A j \in 0..Len(s.hunks) : Made(s, j) \in Seq(Texts)
         /\ \A j \in 1..Len(s.hunks) :
              /\ Gap(s, j) \in Seq(Texts)
              /\ Made(s, j) = (Made(s, j - 1) \o Gap(s, j)) \o NewOf(s.hunks[j])
<1> DEFINE H == Len(s.hunks)
           p == Pieces(s)
<1>1. H \in Nat /\ DOMAIN s.hunks = 1..H
  BY HunkLayout
<1>2. ASSUME NEW j \in 1..H PROVE Gap(s, j) \in Seq(Texts)
  <2>1. CASE s.from # DevNull /\ s.hunks[j].start - 1 <= Len(Old)
    <3> DEFINE a == EndBefore(s, j)
               b == s.hunks[j].start - 1
    <3>1. a \in Int /\ b \in Int /\ 0 < a /\ b <= Len(Old) /\ Len(Old) \in Nat
      BY <2>1, HunkFacts, LenProperties
    <3>2. \A i \in a..b : Old[i] \in Texts
      <4> SUFFICES ASSUME NEW i \in a..b PROVE Old[i] \in Texts
        OBVIOUS
      <4> HIDE DEF a, b
      <4>1. i \in 1..Len(Old)
        BY <3>1
      <4> QED BY <4>1, ElementOfSeq
    <3> HIDE DEF a, b
    <3>3. SubSeq(Old, a, b) \in Seq(Texts)
      BY <3>1, <3>2, SubSeqProperties
    <3> QED BY <2>1, <3>3 DEF Gap, a, b
  <2>2. CASE ~(s.from # DevNull /\ s.hunks[j].start - 1 <= Len(Old))
    <3>1. Gap(s, j) = <<>>
      BY <2>2 DEF Gap
    <3> QED BY <3>1, EmptySeq
  <2> QED BY <2>1, <2>2
<1>3. \A j \in 1..H : NewOf(s.hunks[j]) \in Seq(Texts)
  BY HunkFacts
<1>4. /\ p \in Seq(Seq(Texts)) /\ Len(p) = H
      /\ \A j \in 1..H : p[j] = Gap(s, j) \o NewOf(s.hunks[j])
  <2>1. \A j \in 1..H : p[j] = Gap(s, j) \o NewOf(s.hunks[j])
    BY <1>1 DEF Pieces
  <2>2. p = [j \in 1..H |-> p[j]]
    BY <1>1 DEF Pieces
  <2>3. \A j \in 1..H : p[j] \in Seq(Texts)
    BY <1>2, <1>3, <2>1, ConcatProperties
  <2> HIDE DEF p, H
  <2>4. p \in Seq(Seq(Texts)) /\ Len(p) = IF H > 0 THEN H ELSE 0
    BY <2>2, <2>3, <1>1, SeqOn
  <2> QED BY <2>1, <2>4, <1>1
<1>5. \A j : Made(s, j) = Upto(Texts, p)[j]
  BY DEF Made
<1> HIDE DEF p, H
<1>6. /\ \A k \in 0..H : Made(s, k) \in Seq(Texts)
      /\ Made(s, 0) = <<>> /\ FlattenSeq(p) = Made(s, H)
      /\ \A k \in 1..H : Made(s, k) = Made(s, k - 1) \o p[k]
  <2>0. p \in Seq(Seq(Texts))
    BY <1>4
  <2>1. /\ \A k \in 0..Len(p) : Upto(Texts, p)[k] \in Seq(Texts)
        /\ Upto(Texts, p)[0] = <<>>
        /\ \A k \in 1..Len(p) : Upto(Texts, p)[k] = Upto(Texts, p)[k - 1] \o p[k]
        /\ FlattenSeq(p) = Upto(Texts, p)[Len(p)]
    BY <2>0, UptoFacts
  <2> QED BY <2>1, <1>4, <1>5
<1>7. ASSUME NEW j \in 1..H
      PROVE  Made(s, j) = (Made(s, j - 1) \o Gap(s, j)) \o NewOf(s.hunks[j])
  <2>1. j - 1 \in 0..H
    BY <1>1
  <2>2. /\ Made(s, j - 1) \in Seq(Texts) /\ Gap(s, j) \in Seq(Texts)
        /\ NewOf(s.hunks[j]) \in Seq(Texts)
    BY <2>1, <1>2, <1>3, <1>6
  <2>3. Made(s, j) = Made(s, j - 1) \o (Gap(s, j) \o NewOf(s.hunks[j]))
    BY <1>4, <1>6
  <2>4. (Made(s, j - 1) \o Gap(s, j)) \o NewOf(s.hunks[j])
          = Made(s, j - 1) \o (Gap(s, j) \o NewOf(s.hunks[j]))
    <3> DEFINE a == Made(s, j - 1)
               b == Gap(s, j)
               c == NewOf(s.hunks[j])
    <3>1. a \in Seq(Texts) /\ b \in Seq(Texts) /\ c \in Seq(Texts)
      BY <2>2
    <3> HIDE DEF a, b, c
    <3>2. (a \o b) \o c = a \o (b \o c)
      BY SMTT(30), <3>1, ConcatAssociative
    <3> QED BY <3>2 DEF a, b, c
  <2> QED BY <2>3, <2>4
<1> QED BY <1>1, <1>2, <1>6, <1>7 DEF H, p

\* The region up to line n is copied.
LEMMA SpanIs ==
  ASSUME existing \in Whole, cursor \in Nat, NEW n \in Nat
  PROVE  /\ cursor <= n /\ n <= Len(Old) => Span(n) = SubSeq(Old, cursor + 1, n)
         /\ Old = <<>> => Span(n) = <<>>
<1>1. Old \in Seq(Texts) /\ Len(Old) \in Nat
  BY LenProperties DEF Old, Whole
<1>2. /\ SpanLen(n) \in Int
      /\ cursor + SpanLen(n) = IF n < Len(Old) THEN n ELSE Len(Old)
      /\ Span(n) \in Seq(Texts) /\ Len(Span(n)) = Len(SpanSrc(n))
      /\ Len(SpanSrc(n)) = IF SpanLen(n) > 0 THEN SpanLen(n) ELSE 0
      /\ \A i \in 1..Len(SpanSrc(n)) :
           SpanSrc(n)[i] = cursor + i /\ Span(n)[i] = Old[SpanSrc(n)[i]]
  BY SpanFacts
<1>3. ASSUME cursor <= n, n <= Len(Old) PROVE Span(n) = SubSeq(Old, cursor + 1, n)
  <2> DEFINE t == SubSeq(Old, cursor + 1, n)
             u == Span(n)
  <2>1. cursor + 1 \in Int /\ n \in Int
    OBVIOUS
  <2>2. \A i \in (cursor + 1)..n : Old[i] \in Texts
    <3> SUFFICES ASSUME NEW i \in (cursor + 1)..n PROVE Old[i] \in Texts
      OBVIOUS
    <3>1. i \in 1..Len(Old)
      BY <1>1, <1>3
    <3> QED BY <3>1, <1>1, ElementOfSeq
  <2>3. /\ t \in Seq(Texts) /\ Len(t) = IF cursor + 1 <= n THEN n - (cursor + 1) + 1 ELSE 0
        /\ \A i \in 1..n - (cursor + 1) + 1 : t[i] = Old[cursor + 1 + i - 1]
    BY <2>1, <2>2, SubSeqProperties
  <2> HIDE DEF t, u
  <2>4. u \in Seq(Texts) /\ Len(u) = n - cursor
    BY <1>1, <1>2, <1>3 DEF u
  <2>5. Len(t) = n - cursor
    BY <1>1, <1>3, <2>3
  <2>6. ASSUME NEW i \in 1..Len(t) PROVE t[i] = u[i]
    <3>1. i \in 1..n - (cursor + 1) + 1 /\ cursor + 1 + i - 1 = cursor + i
      BY <2>5
    <3>2. t[i] = Old[cursor + i]
      BY <2>3, <3>1
    <3>3. i \in 1..Len(SpanSrc(n))
      BY <1>2, <2>4, <2>5 DEF u
    <3> QED BY <1>2, <3>2, <3>3 DEF u
  <2>7. t = u
    BY <2>3, <2>4, <2>5, <2>6, SeqEqual
  <2> QED BY <2>7 DEF t, u
<1>4. ASSUME Old = <<>> PROVE Span(n) = <<>>
  <2>1. Len(Old) = 0
    BY <1>4, EmptySeq
  <2>2. Len(Span(n)) = 0
    BY <1>2, <2>1
  <2> QED BY <1>2, <2>2, EmptySeq
<1> QED BY <1>3, <1>4

\* Behind its last line a hunk is done.
LEMMA InsideDone ==
  ASSUME NEW s \in SectionsMeant, Tidy(s), existing \in Whole, NEW j \in 1..Len(s.hunks),
         Inside(s, j, Size(s, j))
  PROVE  Between(s, j)
<1> DEFINE H == Len(s.hunks)
           h == s.hunks[j]
           L == Size(s, j)
<1>1. /\ H \in Nat /\ h \in Hunks /\ L \in Nat
      /\ HunkAt(s, j) = HunkAt(s, j - 1) + 1 + L
      /\ HunkAt(s, j - 1) \in Nat /\ Len(BodyLines(s)) = HunkAt(s, H)
  <2>1. Len(s.hunks) \in Nat
    BY HunkLayout
  <2>2. j - 1 \in 0..Len(s.hunks)
    BY <2>1
  <2> QED BY <2>1, <2>2, HunkLayout DEF Size
<1>2. Old \in Seq(Texts)
  BY DEF Old, Whole
<1>3. /\ QuotesThrough(s, j - 1) /\ Quotes(s, j, L)
      /\ next = HunkAt(s, j - 1) + 2 + L
      /\ s.from # DevNull => cursor = h.start - 1 + TextAt(h, OldOps, L)
      /\ s.from = DevNull \/ h.start - 1 <= Len(Old) =>
           out = (Made(s, j - 1) \o Gap(s, j)) \o TextUpto(h, NewOps, L)
  BY DEF Inside
<1>4. /\ TextAt(h, OldOps, L) = Len(OldOf(h)) /\ TextUpto(h, NewOps, L) = NewOf(h)
      /\ EndOf(h) = h.start + Len(OldOf(h)) /\ h.start \in Nat /\ Len(OldOf(h)) \in Nat
      /\ s.from # DevNull => 0 < Len(OldOf(h))
  BY HunkFacts
<1>5. QuotesThrough(s, j)
  <2>1. \A k \in 1..j : k \in 1..(j - 1) \/ k = j
    OBVIOUS
  <2> QED BY <1>3, <2>1 DEF QuotesThrough
<1>6. s.from # DevNull => h.start - 1 <= Len(Old)
  <2> SUFFICES ASSUME s.from # DevNull PROVE h.start - 1 <= Len(Old)
    OBVIOUS
  <2>1. 1 \in 1..TextAt(h, OldOps, L)
    BY <1>4
  <2>2. h.start - 1 + 1 <= Len(Old)
    BY <1>3, <2>1 DEF Quotes
  <2> QED BY <2>2, <1>2, <1>4, LenProperties
<1>7. out = Made(s, j)
  <2>1. out = (Made(s, j - 1) \o Gap(s, j)) \o NewOf(h)
    BY <1>3, <1>4, <1>6
  <2> QED BY <2>1, <1>2, MadeFacts
<1>8. s.from # DevNull => cursor + 1 = EndBefore(s, j + 1)
  <2>1. j + 1 # 1 /\ j + 1 - 1 = j
    OBVIOUS
  <2>2. EndBefore(s, j + 1) = EndOf(h)
    BY <2>1 DEF EndBefore
  <2> QED BY <2>2, <1>3, <1>4
<1>9. IF j < H THEN next = HunkAt(s, j) + 1 ELSE next > Len(BodyLines(s))
  <2> DEFINE q == HunkAt(s, j - 1)
             r == HunkAt(s, j)
  <2> HIDE DEF L
  <2>3. q \in Nat /\ L \in Nat /\ r = q + 1 + L /\ next = q + 2 + L
    BY <1>1, <1>3
  <2> HIDE DEF q, r
  <2>4. next = r + 1 /\ r \in Nat
    BY <2>3
  <2>1. next = HunkAt(s, j) + 1 /\ HunkAt(s, j) \in Nat
    BY <2>4 DEF r
  <2>2. ~(j < H) => j = H
    BY <1>1
  <2> QED BY <2>1, <2>2, <1>1
<1> QED BY <1>5, <1>7, <1>8, <1>9 DEF Between

\* The places, after a step that leaves the file in hand alone.
LEMMA OldFrame ==
  ASSUME UNCHANGED existing
  PROVE  /\ Old' = Old /\ \A s, j : Gap(s, j)' = Gap(s, j)
         /\ \A s, j : Made(s, j)' = Made(s, j)
         /\ \A s, j, i : Quotes(s, j, i)' <=> Quotes(s, j, i)
         /\ \A s, j : QuotesThrough(s, j)' <=> QuotesThrough(s, j)
<1>1. Old' = Old
  BY DEF Old
<1>2. \A s, j : Gap(s, j)' = Gap(s, j)
  BY <1>1 DEF Gap
<1>3. \A s : Pieces(s)' = Pieces(s)
  BY <1>2 DEF Pieces
<1>4. \A s, j : Made(s, j)' = Made(s, j)
  BY <1>3 DEF Made
<1>5. \A s, j, i : Quotes(s, j, i)' <=> Quotes(s, j, i)
  BY <1>1 DEF Quotes, Reads
<1>6. \A s, j : QuotesThrough(s, j)' <=> QuotesThrough(s, j)
  BY <1>5 DEF QuotesThrough
<1> QED BY <1>1, <1>2, <1>4, <1>5, <1>6

\* The lines of the section in hand: those of its hunks, and perhaps the empty
\* one behind a final newline.
LEMMA HandLines ==
  ASSUME NEW s, HandOf(s)
  PROVE  /\ Len(BodyLines(s)) \in Nat /\ Len(File.hunks) \in Nat
         /\ Len(BodyLines(s)) <= Len(File.hunks)
         /\ \A k \in 1..Len(BodyLines(s)) : File.hunks[k] = BodyLines(s)[k]
         /\ \A k \in 1..Len(File.hunks) : k > Len(BodyLines(s)) => File.hunks[k] = EmptyLine
<1> DEFINE b == BodyLines(s)
<1>1. b \in Seq(Lines) /\ EmptyLine \in Lines
  <2>1. b \in Seq(Lines)
    BY HunkLayout DEF HandOf
  <2>2. EmptyLine \in Lines
    BY PatchAssumption DEF EmptyLine, Line, Lines, Texts, Leads, Ops
  <2> QED BY <2>1, <2>2
<1>2. File.hunks \in {b, Append(b, EmptyLine)}
  BY DEF HandOf
<1> HIDE DEF b
<1>3. Len(b) \in Nat
  BY <1>1, LenProperties
<1>4. CASE File.hunks = b
  BY <1>3, <1>4 DEF b
<1>5. CASE File.hunks = Append(b, EmptyLine)
  <2>1. /\ Len(File.hunks) = Len(b) + 1
        /\ \A k \in 1..Len(b) : File.hunks[k] = b[k]
        /\ File.hunks[Len(b) + 1] = EmptyLine
    BY <1>1, <1>5, AppendProperties
  <2>2. \A k \in 1..Len(File.hunks) : k > Len(b) => k = Len(b) + 1
    BY <1>3, <2>1
  <2>3. Len(File.hunks) \in Nat /\ Len(b) <= Len(File.hunks)
    BY <1>3, <2>1
  <2> QED BY <1>3, <2>1, <2>2, <2>3 DEF b
<1> QED BY <1>2, <1>4, <1>5

\* The line that is next inside a hunk.
LEMMA InsideLine ==
  ASSUME NEW s, HandOf(s), NEW j \in 1..Len(s.hunks), NEW i \in 0..Size(s, j),
         i < Size(s, j), Inside(s, j, i)
  PROVE  /\ next \in 1..Len(File.hunks) /\ Hunk = s.hunks[j].body[i + 1]
         /\ next + 1 = HunkAt(s, j - 1) + 2 + (i + 1)
         /\ Hunk.op \in Ops /\ Hunk.text \in Texts
<1> DEFINE H == Len(s.hunks)
           L == Size(s, j)
           q == HunkAt(s, j - 1)
<1>1. s \in SectionsMeant /\ next = q + 2 + i
  BY DEF HandOf, Inside
<1>2. /\ H \in Nat /\ q \in Nat /\ L \in Nat /\ s.hunks[j] \in Hunks
      /\ HunkAt(s, j) = q + 1 + L /\ HunkAt(s, j) <= Len(BodyLines(s))
      /\ \A k \in 1..L : BodyLines(s)[q + 1 + k] = s.hunks[j].body[k]
  <2>1. H \in Nat
    BY <1>1, HunkLayout
  <2>2. j - 1 \in 0..H /\ j \in 0..H /\ H \in 0..H /\ j <= H
    BY <2>1
  <2>3. /\ \A k \in 0..H : HunkAt(s, k) \in Nat
        /\ \A k, m \in 0..H : k <= m => HunkAt(s, k) <= HunkAt(s, m)
        /\ Len(BodyLines(s)) = HunkAt(s, H)
    BY <1>1, HunkLayout
  <2>4. /\ s.hunks[j] \in Hunks /\ L \in Nat /\ HunkAt(s, j) = q + 1 + L
        /\ \A k \in 1..L : BodyLines(s)[q + 1 + k] = s.hunks[j].body[k]
    BY <1>1, HunkLayout DEF Size
  <2> QED BY <2>1, <2>2, <2>3, <2>4
<1>3. /\ Len(BodyLines(s)) \in Nat /\ Len(File.hunks) \in Nat
      /\ Len(BodyLines(s)) <= Len(File.hunks)
      /\ \A k \in 1..Len(BodyLines(s)) : File.hunks[k] = BodyLines(s)[k]
  BY HandLines
<1> HIDE DEF H, L, q
<1>4. i \in 0..L /\ i < L
  BY DEF L
<1>5. /\ i + 1 \in 1..L /\ next = q + 1 + (i + 1) /\ next \in 1..Len(BodyLines(s))
      /\ next \in 1..Len(File.hunks) /\ next + 1 = q + 2 + (i + 1)
  <2>1. q \in Nat /\ L \in Nat /\ q + 1 + L <= Len(BodyLines(s))
    BY <1>2
  <2>2. /\ Len(BodyLines(s)) \in Nat /\ Len(File.hunks) \in Nat
        /\ Len(BodyLines(s)) <= Len(File.hunks) /\ next = q + 2 + i
    BY <1>1, <1>3
  <2> QED BY <2>1, <2>2, <1>4
<1>6. Hunk = s.hunks[j].body[i + 1]
  BY <1>2, <1>3, <1>5 DEF Hunk
<1>7. Hunk.op \in Ops /\ Hunk.text \in Texts
  BY <1>2, <1>5, <1>6, HunkLinesFacts DEF L, Size
<1> QED BY <1>5, <1>6, <1>7 DEF q

\* Appending to the second of two joined sequences appends to both.
LEMMA AppendBehind ==
  ASSUME NEW s \in Seq(Texts), NEW t \in Seq(Texts), NEW e \in Texts
  PROVE  Append(s \o t, e) = s \o Append(t, e)
<1> DEFINE u == <<e>>
<1>1. s \o t \in Seq(Texts) /\ u \in Seq(Texts)
  BY ConcatProperties
<1>2. Append(s \o t, e) = (s \o t) \o u
  BY <1>1, AppendIsConcat
<1>3. Append(t, e) = t \o u
  BY AppendIsConcat
<1> HIDE DEF u
<1>4. (s \o t) \o u = s \o (t \o u)
  BY <1>1, ConcatAssociative
<1> QED BY <1>2, <1>3, <1>4

\* One line of a hunk after the other is applied.
LEMMA LineGoes ==
  ASSUME existing \in Whole, cursor \in Nat,
         NEW s, HandOf(s), NEW j \in 1..Len(s.hunks), NEW i \in 0..Size(s, j),
         i < Size(s, j), Inside(s, j, i), NextLine, Hunk.op # "@@?",
         s.from = DevNull => Hunk.op # "-",
         s.from # DevNull /\ Hunk.op \in OldOps => Matches /\ cursor' = cursor + 1,
         s.from # DevNull /\ Hunk.op \notin OldOps => cursor' = cursor,
         Hunk.op \in NewOps => out' = Append(out, Hunk.text),
         Hunk.op \notin NewOps => out' = out
  PROVE  Inside(s, j, i + 1)'
<1> DEFINE h == s.hunks[j]
           old(k) == TextAt(h, OldOps, k)
           new(k) == TextUpto(h, NewOps, k)
           front == Made(s, j - 1) \o Gap(s, j)
<1>1. s \in SectionsMeant /\ Tidy(s) /\ Old \in Seq(Texts) /\ Len(Old) \in Nat
  BY LenProperties DEF HandOf, Old, Whole
<1>2. /\ Hunk = h.body[i + 1] /\ next + 1 = HunkAt(s, j - 1) + 2 + (i + 1)
      /\ Hunk.op \in Ops /\ Hunk.text \in Texts
  BY InsideLine
<1>3. /\ QuotesThrough(s, j - 1) /\ Quotes(s, j, i)
      /\ s.from # DevNull => cursor = h.start - 1 + old(i)
      /\ s.from = DevNull \/ h.start - 1 <= Len(Old) => out = front \o new(i)
  BY DEF Inside
<1>4. h \in Hunks /\ h.start \in Nat /\ i \in 0..Len(h.body) /\ i < Len(h.body)
  BY <1>1, HunkFacts DEF Size
<1> HIDE DEF h
<1>5. /\ old(i) \in Nat
      /\ IF Hunk.op \in OldOps
         THEN old(i + 1) = old(i) + 1 /\ OldOf(h)[old(i) + 1] = Hunk.text
         ELSE old(i + 1) = old(i)
  <2>1. /\ TextAt(h, OldOps, i) \in Nat
        /\ IF h.body[i + 1].op \in OldOps
           THEN /\ TextAt(h, OldOps, i + 1) = TextAt(h, OldOps, i) + 1
                /\ TextsOf(h, OldOps)[TextAt(h, OldOps, i) + 1] = h.body[i + 1].text
           ELSE TextAt(h, OldOps, i + 1) = TextAt(h, OldOps, i)
    BY <1>4, NextText
  <2>2. OldOf(h) = TextsOf(h, OldOps)
    BY DEF OldOf, OldOps
  <2> QED BY <1>2, <2>1, <2>2
<1>6. /\ new(i) \in Seq(Texts)
      /\ IF Hunk.op \in NewOps THEN new(i + 1) = Append(new(i), Hunk.text)
         ELSE new(i + 1) = new(i)
  <2>1. /\ TextUpto(h, NewOps, i) \in Seq(Texts)
        /\ IF h.body[i + 1].op \in NewOps
           THEN /\ TextAt(h, NewOps, i + 1) = TextAt(h, NewOps, i) + 1
                /\ TextsOf(h, NewOps)[TextAt(h, NewOps, i) + 1] = h.body[i + 1].text
                /\ TextUpto(h, NewOps, i + 1) = Append(TextUpto(h, NewOps, i), h.body[i + 1].text)
           ELSE /\ TextAt(h, NewOps, i + 1) = TextAt(h, NewOps, i)
                /\ TextUpto(h, NewOps, i + 1) = TextUpto(h, NewOps, i)
    BY <1>4, NextText
  <2> QED BY <1>2, <2>1
<1>7. s.from = DevNull => TextAt(h, {"-"}, i + 1) = TextAt(h, {"-"}, i)
  <2> DEFINE minus == {"-"}
  <2>1. s.from = DevNull => h.body[i + 1].op \notin minus
    BY <1>2
  <2> HIDE DEF minus
  <2>2. IF h.body[i + 1].op \in minus
        THEN /\ TextAt(h, minus, i + 1) = TextAt(h, minus, i) + 1
             /\ TextsOf(h, minus)[TextAt(h, minus, i) + 1] = h.body[i + 1].text
             /\ TextUpto(h, minus, i + 1) = Append(TextUpto(h, minus, i), h.body[i + 1].text)
        ELSE /\ TextAt(h, minus, i + 1) = TextAt(h, minus, i)
             /\ TextUpto(h, minus, i + 1) = TextUpto(h, minus, i)
    BY <1>4, NextText
  <2>3. s.from = DevNull => TextAt(h, minus, i + 1) = TextAt(h, minus, i)
    BY <2>1, <2>2
  <2> QED BY <2>3 DEF minus
<1>8. front \in Seq(Texts)
  <2>1. j - 1 \in 0..Len(s.hunks)
    BY <1>1, HunkLayout
  <2>2. Made(s, j - 1) \in Seq(Texts) /\ Gap(s, j) \in Seq(Texts)
    BY <1>1, <2>1, MadeFacts
  <2> QED BY <2>2, ConcatProperties
<1>9. next' = next + 1 /\ existing' = existing
  BY DEF NextLine
<1> HIDE DEF old, new, front
<1>10. Quotes(s, j, i + 1)
  <2>0. Reads(s, j, i + 1)
    <3>1. \A k \in 1..(i + 1) : k \in 1..i \/ k = i + 1
      BY <1>4
    <3>2. Reads(s, j, i)
      BY <1>3 DEF Quotes
    <3> QED BY <1>2, <3>1, <3>2 DEF Reads, h
  <2>1. CASE s.from = DevNull
    BY <1>3, <1>7, <2>0, <2>1 DEF Quotes, h
  <2>2. CASE s.from # DevNull
    <3>1. ASSUME NEW k \in 1..old(i + 1)
          PROVE  h.start - 1 + k <= Len(Old) /\ Old[h.start - 1 + k] = OldOf(h)[k]
      <4>1. CASE k \in 1..old(i)
        BY <1>3, <2>2, <4>1 DEF Quotes, h, old
      <4>2. CASE k \notin 1..old(i)
        <5>1. Hunk.op \in OldOps /\ k = old(i) + 1
          BY <1>5, <4>2
        <5>2. Matches /\ cursor = h.start - 1 + old(i)
          BY <1>3, <2>2, <5>1
        <5>3. h.start - 1 + k = cursor + 1 /\ cursor + 1 <= Len(Old)
          <6>1. cursor < Len(Old)
            BY <5>2 DEF Matches
          <6>2. /\ cursor \in Nat /\ Len(Old) \in Nat /\ h.start \in Nat /\ old(i) \in Nat
                /\ k = old(i) + 1 /\ cursor = h.start - 1 + old(i)
            BY <1>1, <1>4, <1>5, <5>1, <5>2
          <6> DEFINE b == h.start
                     c == old(i)
                     l == Len(Old)
          <6>3. /\ cursor \in Nat /\ l \in Nat /\ b \in Nat /\ c \in Nat
                /\ k = c + 1 /\ cursor = b - 1 + c /\ cursor < l
            BY <6>1, <6>2
          <6> HIDE DEF b, c, l
          <6>4. b - 1 + k = cursor + 1 /\ cursor + 1 <= l
            BY <6>3
          <6> QED BY <6>4 DEF b, l
        <5> QED BY <1>5, <5>1, <5>2, <5>3 DEF Matches
      <4> QED BY <4>1, <4>2
    <3> QED BY <2>0, <2>2, <3>1 DEF Quotes, h, old
  <2> QED BY <2>1, <2>2
<1>11. s.from # DevNull => cursor' = h.start - 1 + old(i + 1)
  <2> SUFFICES ASSUME s.from # DevNull PROVE cursor' = h.start - 1 + old(i + 1)
    OBVIOUS
  <2> DEFINE b == h.start
  <2>1. b \in Nat /\ old(i) \in Nat /\ cursor = b - 1 + old(i)
    BY <1>3, <1>4, <1>5
  <2>2. \/ cursor' = cursor + 1 /\ old(i + 1) = old(i) + 1
        \/ cursor' = cursor /\ old(i + 1) = old(i)
    BY <1>5
  <2> HIDE DEF b
  <2>3. cursor' = b - 1 + old(i + 1)
    BY <2>1, <2>2
  <2> QED BY <2>3 DEF b
<1>12. s.from = DevNull \/ h.start - 1 <= Len(Old) => out' = front \o new(i + 1)
  <2> SUFFICES ASSUME out = front \o new(i) PROVE out' = front \o new(i + 1)
    BY <1>3
  <2>1. CASE Hunk.op \in NewOps
    <3>1. Append(front \o new(i), Hunk.text) = front \o Append(new(i), Hunk.text)
      <4> DEFINE u == new(i)
                 e == Hunk.text
      <4>1. front \in Seq(Texts) /\ u \in Seq(Texts) /\ e \in Texts
        BY <1>2, <1>6, <1>8
      <4> HIDE DEF u, e
      <4>2. \A v, w \in Seq(Texts) : \A x \in Texts : Append(v \o w, x) = v \o Append(w, x)
        BY AppendBehind
      <4>3. Append(front \o u, e) = front \o Append(u, e)
        BY <4>1, <4>2
      <4> QED BY <4>3 DEF u, e
    <3> QED BY <2>1, <3>1, <1>6
  <2>2. CASE Hunk.op \notin NewOps
    BY <2>2, <1>6
  <2> QED BY <2>1, <2>2
<1>13. /\ Old' = Old /\ Gap(s, j)' = Gap(s, j) /\ Made(s, j - 1)' = Made(s, j - 1)
       /\ Quotes(s, j, i + 1)' /\ QuotesThrough(s, j - 1)'
  BY <1>3, <1>9, <1>10, OldFrame
<1> QED BY <1>2, <1>9, <1>11, <1>12, <1>13 DEF Inside, h, old, new, front

\* Between hunks the next line is the header of one, or the empty line that was
\* added to the last section, or there is none.
LEMMA BetweenLine ==
  ASSUME NEW s, HandOf(s), NEW j \in 0..Len(s.hunks), next \in Nat, Between(s, j)
  PROVE  IF j < Len(s.hunks)
         THEN /\ next \in 1..Len(File.hunks) /\ j + 1 \in 1..Len(s.hunks)
              /\ Hunk.op = "@@" /\ Hunk.start = s.hunks[j + 1].start
              /\ next + 1 = HunkAt(s, j + 1 - 1) + 2 + 0
         ELSE /\ j = Len(s.hunks) /\ next > Len(BodyLines(s)) /\ Len(BodyLines(s)) \in Nat
              /\ next \in 1..Len(File.hunks) => Hunk = EmptyLine
<1> DEFINE H == Len(s.hunks)
           b == BodyLines(s)
<1>1. s \in SectionsMeant /\ H \in Nat
  BY HunkLayout DEF HandOf
<1>2. /\ Len(b) \in Nat /\ Len(File.hunks) \in Nat /\ Len(b) <= Len(File.hunks)
      /\ \A k \in 1..Len(b) : File.hunks[k] = b[k]
      /\ \A k \in 1..Len(File.hunks) : k > Len(b) => File.hunks[k] = EmptyLine
  BY HandLines
<1>3. IF j < H THEN next = HunkAt(s, j) + 1 ELSE next > Len(b)
  BY DEF Between
<1>4. CASE j < H
  <2> DEFINE m == j + 1
  <2>1. m \in 1..H /\ m - 1 = j /\ m \in 0..H /\ m <= H /\ H \in 0..H /\ j \in 0..H
    BY <1>1, <1>4
  <2> HIDE DEF m
  <2>2. /\ HunkAt(s, m) = HunkAt(s, m - 1) + 1 + Len(s.hunks[m].body)
        /\ Len(s.hunks[m].body) \in Nat
        /\ b[HunkAt(s, m - 1) + 1].op = "@@"
        /\ b[HunkAt(s, m - 1) + 1].start = s.hunks[m].start
    BY <1>1, <2>1, HunkLayout
  <2>3. HunkAt(s, m) <= Len(b) /\ HunkAt(s, j) \in Nat
    <3>1. /\ \A k \in 0..H : HunkAt(s, k) \in Nat
          /\ \A k, n \in 0..H : k <= n => HunkAt(s, k) <= HunkAt(s, n)
          /\ Len(b) = HunkAt(s, H)
      BY <1>1, HunkLayout
    <3> QED BY <3>1, <2>1
  <2> HIDE DEF b, H
  <2>4. next \in 1..Len(b) /\ next \in 1..Len(File.hunks) /\ next + 1 = HunkAt(s, j) + 2 + 0
    <3>1. next = HunkAt(s, j) + 1
      BY <1>3, <1>4
    <3>2. HunkAt(s, m) = HunkAt(s, j) + 1 + Len(s.hunks[m].body)
      BY <2>1, <2>2
    <3>3. /\ Len(b) \in Nat /\ Len(File.hunks) \in Nat /\ Len(b) <= Len(File.hunks)
          /\ Len(s.hunks[m].body) \in Nat
      BY <1>2, <2>2
    <3> DEFINE c == HunkAt(s, j)
               d == HunkAt(s, m)
               l == Len(s.hunks[m].body)
               x == Len(b)
               y == Len(File.hunks)
    <3>4. /\ c \in Nat /\ l \in Nat /\ x \in Nat /\ y \in Nat /\ x <= y
          /\ next = c + 1 /\ d = c + 1 + l /\ d <= x
      BY <3>1, <3>2, <3>3, <2>3
    <3> HIDE DEF c, d, l, x, y
    <3>5. next \in 1..x /\ next \in 1..y /\ next + 1 = c + 2 + 0
      BY <3>4
    <3> QED BY <3>5 DEF c, x, y
  <2>5. Hunk = b[HunkAt(s, m - 1) + 1]
    BY <1>2, <1>3, <1>4, <2>1, <2>4 DEF Hunk
  <2> QED BY <1>4, <2>1, <2>2, <2>4, <2>5 DEF m, H
<1>5. CASE ~(j < H)
  <2>1. j = H
    BY <1>1, <1>5
  <2> QED BY <1>2, <1>3, <1>5, <2>1 DEF Hunk
<1> QED BY <1>4, <1>5

\* A hunk that quotes the file fits it.
LEMMA QuotesFit ==
  ASSUME NEW s \in SectionsMeant, Tidy(s), Old \in Seq(Texts), s.from # DevNull,
         NEW j \in 1..Len(s.hunks), Quotes(s, j, Size(s, j))
  PROVE  /\ s.hunks[j].start - 1 <= Len(Old) /\ EndOf(s.hunks[j]) - 1 <= Len(Old)
         /\ SubSeq(Old, s.hunks[j].start, EndOf(s.hunks[j]) - 1) = OldOf(s.hunks[j])
<1> DEFINE h == s.hunks[j]
           o == OldOf(h)
           e == EndOf(h) - 1
           t == SubSeq(Old, h.start, e)
<1>1. /\ h.start \in Nat /\ o \in Seq(Texts) /\ Len(o) \in Nat
      /\ EndOf(h) = h.start + Len(o) /\ TextAt(h, OldOps, Size(s, j)) = Len(o)
      /\ 0 < h.start /\ 0 < Len(o)
  BY HunkFacts
<1>2. Len(Old) \in Nat
  BY LenProperties
<1>3. \A k \in 1..Len(o) : h.start - 1 + k <= Len(Old) /\ Old[h.start - 1 + k] = o[k]
  BY <1>1 DEF Quotes
<1> HIDE DEF o, h
<1>4. e = h.start - 1 + Len(o) /\ Len(o) \in 1..Len(o) /\ e \in Int /\ h.start \in Int
  BY <1>1
<1>5. e <= Len(Old) /\ h.start - 1 <= Len(Old)
  <2>1. e <= Len(Old)
    BY <1>3, <1>4
  <2> QED BY <2>1, <1>1, <1>2, <1>4
<1>6. \A i \in h.start..e : Old[i] \in Texts
  <2> SUFFICES ASSUME NEW i \in h.start..e PROVE Old[i] \in Texts
    OBVIOUS
  <2>1. i \in 1..Len(Old)
    BY <1>1, <1>2, <1>4, <1>5
  <2> QED BY <2>1, ElementOfSeq
<1> DEFINE a == h.start
<1> HIDE DEF e, a
<1>7. a \in Int /\ e \in Int /\ \A i \in a..e : Old[i] \in Texts
  BY <1>4, <1>6 DEF a
<1> DEFINE v == SubSeq(Old, a, e)
<1>8. /\ v \in Seq(Texts) /\ Len(v) = IF a <= e THEN e - a + 1 ELSE 0
      /\ \A i \in 1..e - a + 1 : v[i] = Old[a + i - 1]
  BY <1>7, SubSeqProperties
<1> HIDE DEF v
<1>9. Len(v) = Len(o) /\ e - a + 1 = Len(o)
  <2> DEFINE l == Len(o)
             y == Len(v)
  <2>1. /\ a \in Nat /\ l \in Nat /\ 0 < l /\ e = a - 1 + l
        /\ y = IF a <= e THEN e - a + 1 ELSE 0
    BY <1>1, <1>4, <1>8 DEF a
  <2> HIDE DEF l, y
  <2>2. y = l /\ e - a + 1 = l
    BY <2>1
  <2> QED BY <2>2 DEF l, y
<1>10. ASSUME NEW i \in 1..Len(v) PROVE v[i] = o[i]
  <2>1. a + i - 1 = h.start - 1 + i
    BY <1>1 DEF a
  <2> QED BY <2>1, <1>3, <1>8, <1>9
<1>11. v = o
  BY <1>1, <1>8, <1>9, <1>10, SeqEqual DEF o
<1> QED BY <1>5, <1>11 DEF v, o, a, e, h

\* Between hunks the cursor is not past the end of the file.
LEMMA CursorFits ==
  ASSUME existing \in Whole, cursor \in Nat, NEW s, HandOf(s), s.from # DevNull,
         NEW j \in 0..Len(s.hunks), Between(s, j)
  PROVE  cursor <= Len(Old)
<1>1. /\ s \in SectionsMeant /\ Tidy(s) /\ Old \in Seq(Texts) /\ Len(Old) \in Nat
  BY LenProperties DEF HandOf, Old, Whole
<1>2. QuotesThrough(s, j) /\ cursor + 1 = EndBefore(s, j + 1)
  BY DEF Between
<1>3. CASE j = 0
  <2>1. EndBefore(s, j + 1) = 1
    BY <1>3 DEF EndBefore
  <2> QED BY <1>1, <1>2, <2>1
<1>4. CASE j # 0
  <2>1. j \in 1..Len(s.hunks) /\ j \in 1..j /\ j + 1 # 1 /\ j + 1 - 1 = j
    BY <1>4
  <2>2. EndBefore(s, j + 1) = EndOf(s.hunks[j])
    BY <2>1 DEF EndBefore
  <2>3. Quotes(s, j, Size(s, j))
    BY <1>2, <2>1 DEF QuotesThrough
  <2>4. EndOf(s.hunks[j]) - 1 <= Len(Old)
    BY <1>1, <2>1, <2>3, QuotesFit
  <2>5. cursor + 1 = EndOf(s.hunks[j])
    BY <1>2, <2>2
  <2> QED BY <1>1, <2>4, <2>5
<1> QED BY <1>3, <1>4

\* At the header of a hunk what lies before it is copied.
LEMMA HeaderGoes ==
  ASSUME existing \in Whole, cursor \in Nat, next \in Nat, IsNew => Old = <<>>,
         out \in Seq(Texts), src \in Seq(Nat),
         NEW s, HandOf(s), NEW j \in 0..Len(s.hunks), j < Len(s.hunks), Between(s, j),
         HunkHeader
  PROVE  Inside(s, j + 1, 0)' /\ NextLine
<1> DEFINE m == j + 1
           h == s.hunks[m]
           n == IF h.start = 0 THEN 0 ELSE h.start - 1
<1>1. /\ s \in SectionsMeant /\ Tidy(s) /\ Old \in Seq(Texts) /\ Len(Old) \in Nat
      /\ IsNew <=> s.from = DevNull
  BY LenProperties DEF HandOf, Old, Whole, IsNew
<1>2. /\ m \in 1..Len(s.hunks) /\ Hunk.start = h.start
      /\ next + 1 = HunkAt(s, m - 1) + 2 + 0 /\ m - 1 = j
  BY BetweenLine
<1>3. /\ QuotesThrough(s, j) /\ out = Made(s, j)
      /\ s.from # DevNull => cursor + 1 = EndBefore(s, m)
  BY DEF Between
<1> HIDE DEF m
<1>4. /\ h.start \in Nat /\ TextAt(h, OldOps, 0) = 0 /\ TextAt(h, {"-"}, 0) = 0
      /\ TextUpto(h, NewOps, 0) = <<>> /\ EndBefore(s, m) \in Nat
      /\ s.from # DevNull => 0 < h.start /\ EndBefore(s, m) <= h.start
  BY <1>1, <1>2, HunkFacts
<1>0. ~OutOfRange
  <2>1. s.from # DevNull => cursor <= Len(Old)
    BY CursorFits
  <2> QED BY <1>1, <2>1 DEF OutOfRange
<1>5. /\ cursor' = n /\ out' = out \o Span(n) /\ next' = next + 1 /\ existing' = existing
      /\ NextLine
  <2>1. Target = n /\ n \in Nat
    BY <1>2, <1>4 DEF Target
  <2>2. NextLine /\ MoveTo(n)
    BY <1>0, <2>1 DEF HunkHeader
  <2> HIDE DEF n
  <2> QED BY <2>1, <2>2, CopyIsSpan DEF MoveTo, NextLine
<1>6. n \in Nat /\ (s.from # DevNull => n = h.start - 1 /\ cursor <= n)
  <2> DEFINE b == h.start
             e == EndBefore(s, m)
  <2>1. /\ b \in Nat /\ e \in Nat
        /\ s.from # DevNull => 0 < b /\ e <= b /\ cursor + 1 = e
    BY <1>3, <1>4
  <2>2. n = IF b = 0 THEN 0 ELSE b - 1
    OBVIOUS
  <2> HIDE DEF b, e, n
  <2>3. n \in Nat /\ (s.from # DevNull => n = b - 1 /\ cursor <= n)
    BY <2>1, <2>2
  <2> QED BY <2>3 DEF b
<1> HIDE DEF n, h
<1>7. Quotes(s, m, 0)
  <2>0. (\A k \in 1..0 : FALSE) /\ Reads(s, m, 0)
    BY DEF Reads
  <2>1. CASE s.from = DevNull
    BY <1>4, <2>0, <2>1 DEF Quotes, h
  <2>2. CASE s.from # DevNull
    BY <1>4, <2>0, <2>2 DEF Quotes, h
  <2> QED BY <2>1, <2>2
<1>8. s.from = DevNull \/ h.start - 1 <= Len(Old) =>
        out' = (Made(s, j) \o Gap(s, m)) \o TextUpto(h, NewOps, 0)
  <2> SUFFICES ASSUME s.from = DevNull \/ h.start - 1 <= Len(Old)
               PROVE  out' = (Made(s, j) \o Gap(s, m)) \o TextUpto(h, NewOps, 0)
    OBVIOUS
  <2>1. Span(n) = Gap(s, m)
    <3>1. CASE s.from = DevNull
      <4>1. Span(n) = <<>>
        BY <1>1, <1>6, <3>1, SpanIs
      <4>2. Gap(s, m) = <<>>
        BY <3>1 DEF Gap
      <4> QED BY <4>1, <4>2
    <3>2. CASE s.from # DevNull
      <4>1. cursor <= n /\ n <= Len(Old)
        BY <1>6, <3>2
      <4>2. Span(n) = SubSeq(Old, cursor + 1, n)
        BY <1>6, <4>1, SpanIs
      <4>3. Gap(s, m) = SubSeq(Old, EndBefore(s, m), h.start - 1)
        BY <3>2 DEF Gap, h
      <4> QED BY <1>3, <1>6, <3>2, <4>2, <4>3
    <3> QED BY <3>1, <3>2
  <2>2. Made(s, j) \in Seq(Texts) /\ Gap(s, m) \in Seq(Texts)
    BY <1>1, <1>2, MadeFacts
  <2> DEFINE v == Made(s, j) \o Gap(s, m)
  <2>3. v \in Seq(Texts)
    BY <2>2, ConcatProperties
  <2> HIDE DEF v
  <2>4. v \o <<>> = v
    BY <2>3, ConcatEmptySeq
  <2> QED BY <1>3, <1>4, <1>5, <2>1, <2>4 DEF v
<1>9. s.from # DevNull => cursor' = h.start - 1 + TextAt(h, OldOps, 0)
  BY <1>4, <1>5, <1>6
<1>10. /\ Old' = Old /\ Gap(s, m)' = Gap(s, m) /\ Made(s, m - 1)' = Made(s, m - 1)
       /\ Quotes(s, m, 0)' /\ QuotesThrough(s, m - 1)'
  BY <1>2, <1>3, <1>5, <1>7, OldFrame
<1>11. Inside(s, m, 0)'
  BY <1>2, <1>5, <1>8, <1>9, <1>10 DEF Inside, h
<1> QED BY <1>5, <1>11 DEF m

\* The rest of the file is copied behind the last hunk.
LEMMA LastGoes ==
  ASSUME existing \in Whole, cursor \in Nat, next \in Nat, IsNew => Old = <<>>,
         out \in Seq(Texts), src \in Seq(Nat),
         NEW s, HandOf(s), NEW j \in 0..Len(s.hunks), Between(s, j), LastLine
  PROVE  Behind(s)'
<1> DEFINE H == Len(s.hunks)
<1>1. /\ s \in SectionsMeant /\ Tidy(s) /\ Old \in Seq(Texts) /\ Len(Old) \in Nat
      /\ IsNew <=> s.from = DevNull
  BY LenProperties DEF HandOf, Old, Whole, IsNew
<1>2. Len(File.hunks) \in Nat /\ H \in Nat
  BY <1>1, HandLines, HunkLayout
<1>3. j = H
  <2>1. ~(next \in 1..Len(File.hunks))
    BY <1>2 DEF LastLine
  <2> QED BY <2>1, BetweenLine
<1>4. /\ QuotesThrough(s, H) /\ out = Made(s, H)
      /\ s.from # DevNull => cursor + 1 = EndBefore(s, H + 1)
  BY <1>3 DEF Between
<1>5. out' = out \o Span(Len(Old)) /\ existing' = existing
  BY <1>1, CopyIsSpan DEF LastLine
<1>6. Made(s, H) \in Seq(Texts)
  <2>1. H \in 0..H
    BY <1>2
  <2> QED BY <1>1, <2>1, MadeFacts
<1>7. CASE s.from = DevNull
  <2>1. Span(Len(Old)) = <<>>
    BY <1>1, <1>7, SpanIs
  <2> DEFINE v == Made(s, H)
  <2>2. v \in Seq(Texts)
    BY <1>6
  <2> HIDE DEF v
  <2>3. v \o <<>> = v
    BY <2>2, ConcatEmptySeq
  <2>4. out' = Made(s, H)
    BY <1>4, <1>5, <2>1, <2>3 DEF v
  <2> QED BY <1>4, <1>5, <1>7, <2>4, OldFrame DEF Behind
<1>8. CASE s.from # DevNull
  <2>1. cursor <= Len(Old)
    BY <1>8, CursorFits
  <2>2. Span(Len(Old)) = SubSeq(Old, cursor + 1, Len(Old))
    BY <1>1, <2>1, SpanIs
  <2>3. out' = Made(s, H) \o SubSeq(Old, EndBefore(s, H + 1), Len(Old))
    BY <1>4, <1>5, <1>8, <2>2
  <2> QED BY <1>4, <1>5, <1>8, <2>3, OldFrame DEF Behind
<1> QED BY <1>7, <1>8

\* What is to be written is what the section says.
LEMMA BehindIs ==
  ASSUME existing \in Whole, IsNew => Old = <<>>, Opened, apply = "write",
         NEW s, HandOf(s), Behind(s)
  PROVE  /\ Possible(disk, s)
         /\ Patched(disk, s) = [disk EXCEPT ![File.to] =
              Content(out, ~IsNew /\ existing.nl /\ out \notin {<<>>, <<Empty>>})]
<1> DEFINE H == Len(s.hunks)
<1>1. /\ s \in SectionsMeant /\ Tidy(s) /\ Old \in Seq(Texts) /\ s.to = File.to
      /\ IsNew <=> s.from = DevNull
  BY DEF HandOf, Old, Whole, IsNew
<1>2. /\ s.to \notin Refused /\ (disk[s.to] = NoFile <=> IsNew)
      /\ ~IsNew => existing = disk[s.to]
  BY <1>1 DEF Opened
<1>3. /\ \A k \in 1..H : Quotes(s, k, Size(s, k))
      /\ out = IF s.from = DevNull THEN Made(s, H)
               ELSE Made(s, H) \o SubSeq(Old, EndBefore(s, H + 1), Len(Old))
  BY DEF Behind, QuotesThrough
<1>4. Made(s, H) = FlattenSeq(Pieces(s)) /\ DOMAIN s.hunks = 1..H
  BY <1>1, MadeFacts, HunkLayout
<1>0. \A j \in DOMAIN s.hunks : ~Malformed(s.hunks[j])
  <2> SUFFICES ASSUME NEW j \in 1..H PROVE ~Malformed(s.hunks[j])
    BY <1>4
  <2>1. Reads(s, j, Size(s, j))
    BY <1>3 DEF Quotes
  <2>2. s.hunks[j].body \in Seq([op : Ops, text : Texts, start : Nat])
    <3>1. s.hunks[j] \in Hunks
      BY <1>1, HunkFacts
    <3> QED BY <3>1 DEF Hunks
  <2>3. DOMAIN s.hunks[j].body = 1..Size(s, j)
    BY <2>2, LenProperties DEF Size
  <2> QED BY <2>1, <2>3 DEF Reads, Malformed
<1> HIDE DEF H
<1>5. CASE s.from = DevNull
  <2>1. \A j \in 1..H : TextsOf(s.hunks[j], {"-"}) = <<>>
    <3> SUFFICES ASSUME NEW j \in 1..H PROVE TextsOf(s.hunks[j], {"-"}) = <<>>
      OBVIOUS
    <3>1. TextAt(s.hunks[j], {"-"}, Size(s, j)) = 0
      BY <1>3, <1>5 DEF Quotes
    <3>2. /\ TextAt(s.hunks[j], {"-"}, Size(s, j)) = Len(TextsOf(s.hunks[j], {"-"}))
          /\ TextsOf(s.hunks[j], {"-"}) \in Seq(Texts)
      BY <1>1, HunkFacts DEF H
    <3> QED BY <3>1, <3>2, EmptySeq
  <2>2. Possible(disk, s)
    BY <1>0, <1>1, <1>2, <1>4, <1>5, <2>1 DEF Possible
  <2>3. \A j \in 1..H : Gap(s, j) \o NewOf(s.hunks[j]) = NewOf(s.hunks[j])
    <3> SUFFICES ASSUME NEW j \in 1..H
                 PROVE  Gap(s, j) \o NewOf(s.hunks[j]) = NewOf(s.hunks[j])
      OBVIOUS
    <3> DEFINE v == NewOf(s.hunks[j])
    <3>1. Gap(s, j) = <<>> /\ v \in Seq(Texts)
      BY <1>1, <1>5, HunkFacts DEF Gap, H
    <3> HIDE DEF v
    <3>2. <<>> \o v = v
      BY <3>1, ConcatEmptySeq
    <3> QED BY <3>1, <3>2 DEF v
  <2>4. Pieces(s) = [j \in DOMAIN s.hunks |-> NewOf(s.hunks[j])]
    BY <1>4, <2>3 DEF Pieces
  <2>5. out = FlattenSeq([j \in DOMAIN s.hunks |-> NewOf(s.hunks[j])])
    BY <1>3, <1>4, <1>5, <2>4
  <2>6. (~IsNew /\ existing.nl /\ out \notin {<<>>, <<Empty>>}) = FALSE
    BY <1>1, <1>5
  <2>7. Patched(disk, s) = [disk EXCEPT ![s.to] = Content(out, FALSE)]
    BY <1>5, <2>5 DEF Patched
  <2> QED BY <1>1, <2>2, <2>6, <2>7
<1>6. CASE s.from # DevNull
  <2>1. /\ disk[s.to] # NoFile /\ ~IsNew /\ disk[s.to] = existing /\ disk[s.to].lines = Old
    BY <1>1, <1>2, <1>6 DEF Old
  <2>2. ASSUME NEW j \in 1..H
        PROVE  /\ s.hunks[j].start - 1 <= Len(Old) /\ EndOf(s.hunks[j]) - 1 <= Len(Old)
               /\ SubSeq(Old, s.hunks[j].start, EndOf(s.hunks[j]) - 1) = OldOf(s.hunks[j])
    <3>1. Quotes(s, j, Size(s, j)) /\ j \in 1..Len(s.hunks)
      BY <1>3 DEF H
    <3> QED BY <1>1, <1>6, <3>1, QuotesFit
  <2>3. Fits(Old, s.hunks)
    BY <1>4, <2>2 DEF Fits
  <2>4. Possible(disk, s)
    BY <1>0, <1>2, <1>6, <2>1, <2>3 DEF Possible
  <2>5. \A j \in 1..H : Gap(s, j) = SubSeq(Old, EndBefore(s, j), s.hunks[j].start - 1)
    BY <1>6, <2>2 DEF Gap
  <2>6. Pieces(s) = [j \in DOMAIN s.hunks |->
          SubSeq(Old, EndBefore(s, j), s.hunks[j].start - 1) \o NewOf(s.hunks[j])]
    BY <1>4, <2>5 DEF Pieces
  <2>7. Replaced(Old, s.hunks) = FlattenSeq(Pieces(s)) \o
          SubSeq(Old, EndBefore(s, H + 1), Len(Old))
    BY <2>6 DEF Replaced, EndBefore, H
  <2>8. out = Replaced(Old, s.hunks)
    BY <1>3, <1>4, <1>6, <2>7
  <2>9. Patched(disk, s) = [disk EXCEPT ![s.to] =
          Content(out, existing.nl /\ out \notin {<<>>, <<Empty>>})]
    BY <1>6, <2>1, <2>8 DEF Patched
  <2>10. (~IsNew /\ existing.nl /\ out \notin {<<>>, <<Empty>>})
           = (existing.nl /\ out \notin {<<>>, <<Empty>>})
    BY <1>1, <1>6, existing \in Whole DEF Whole
  <2> QED BY <1>1, <2>4, <2>9, <2>10
<1> QED BY <1>5, <1>6

\* A header that does not parse, a line that does not quote the file, or one that
\* is removed from a new one shows that the section cannot be applied.
LEMMA Rejects ==
  ASSUME existing \in Whole, cursor \in Nat, Opened, apply = "lines",
         NEW s, HandOf(s), NEW j \in 1..Len(s.hunks), NEW i \in 0..Size(s, j),
         i < Size(s, j), Inside(s, j, i),
         \/ Hunk.op = "@@?"
         \/ s.from = DevNull /\ Hunk.op = "-"
         \/ s.from # DevNull /\ Hunk.op \in OldOps /\ ~Matches
  PROVE  ~Possible(disk, s)
<1> DEFINE h == s.hunks[j]
<1>1. /\ s \in SectionsMeant /\ Tidy(s) /\ Len(Old) \in Nat /\ j \in DOMAIN s.hunks
      /\ IsNew <=> s.from = DevNull
  <2>1. s \in SectionsMeant /\ Tidy(s) /\ (IsNew <=> s.from = DevNull)
    BY DEF HandOf, IsNew
  <2>2. DOMAIN s.hunks = 1..Len(s.hunks)
    BY <2>1, HunkLayout
  <2> QED BY <2>1, <2>2, LenProperties DEF Old, Whole
<1>2. ~IsNew => existing = disk[s.to] /\ disk[s.to] # NoFile
  BY DEF Opened, HandOf
<1>3. Hunk = h.body[i + 1]
  BY InsideLine
<1>4. /\ h \in Hunks /\ h.start \in Nat /\ i \in 0..Len(h.body) /\ i < Len(h.body)
      /\ OldOf(h) \in Seq(Texts) /\ Len(OldOf(h)) \in Nat
      /\ EndOf(h) = h.start + Len(OldOf(h)) /\ (s.from # DevNull => 0 < h.start)
      /\ TextsOf(h, {"-"}) \in Seq(Texts)
  BY <1>1, HunkFacts DEF Size
<1>5. CASE s.from = DevNull /\ Hunk.op = "-"
  <2> DEFINE minus == {"-"}
  <2> HIDE DEF minus, h
  <2>1. h.body[i + 1].op \in minus
    BY <1>3, <1>5 DEF minus
  <2>2. h \in Hunks /\ i \in 0..Len(h.body) /\ i < Len(h.body)
    BY <1>4
  <2>3. TextAt(h, minus, i) \in Nat /\ TextAt(h, minus, i + 1) <= Len(TextsOf(h, minus))
    BY <2>2, NextText
  <2>4. IF h.body[i + 1].op \in minus
        THEN /\ TextAt(h, minus, i + 1) = TextAt(h, minus, i) + 1
             /\ TextsOf(h, minus)[TextAt(h, minus, i) + 1] = h.body[i + 1].text
             /\ TextUpto(h, minus, i + 1) = Append(TextUpto(h, minus, i), h.body[i + 1].text)
        ELSE /\ TextAt(h, minus, i + 1) = TextAt(h, minus, i)
             /\ TextUpto(h, minus, i + 1) = TextUpto(h, minus, i)
    BY <2>2, NextText
  <2>5. /\ TextAt(h, minus, i) \in Nat
        /\ TextAt(h, minus, i) + 1 <= Len(TextsOf(h, minus))
    BY <2>1, <2>3, <2>4
  <2>6. Len(TextsOf(h, minus)) \in Nat
    BY <1>4, LenProperties DEF minus
  <2>7. Len(TextsOf(h, minus)) > 0
    BY <2>1, <2>5, <2>6
  <2>8. TextsOf(h, minus) # <<>>
    BY <2>7, EmptySeq
  <2> QED BY <1>1, <1>5, <2>8 DEF Possible, minus, h
<1>6. CASE s.from # DevNull /\ Hunk.op \in OldOps /\ ~Matches
  <2> SUFFICES ASSUME Possible(disk, s) PROVE FALSE
    OBVIOUS
  <2> DEFINE k == TextAt(h, OldOps, i) + 1
             t == SubSeq(Old, h.start, EndOf(h) - 1)
  <2>1. EndOf(h) - 1 <= Len(Old) /\ t = OldOf(h)
    BY <1>1, <1>2, <1>6 DEF Possible, Fits, Old
  <2>2. cursor = h.start - 1 + TextAt(h, OldOps, i)
    BY <1>6 DEF Inside
  <2> HIDE DEF h
  <2>3. /\ TextAt(h, OldOps, i) \in Nat
        /\ TextAt(h, OldOps, i + 1) <= Len(TextsOf(h, OldOps))
        /\ IF h.body[i + 1].op \in OldOps
           THEN /\ TextAt(h, OldOps, i + 1) = TextAt(h, OldOps, i) + 1
                /\ TextsOf(h, OldOps)[TextAt(h, OldOps, i) + 1] = h.body[i + 1].text
                /\ TextUpto(h, OldOps, i + 1) = Append(TextUpto(h, OldOps, i), h.body[i + 1].text)
           ELSE /\ TextAt(h, OldOps, i + 1) = TextAt(h, OldOps, i)
                /\ TextUpto(h, OldOps, i + 1) = TextUpto(h, OldOps, i)
    BY <1>4, NextText
  <2>4. OldOf(h) = TextsOf(h, OldOps)
    BY DEF OldOf, OldOps
  <2>5. /\ TextAt(h, OldOps, i) \in Nat /\ k <= Len(OldOf(h)) /\ OldOf(h)[k] = Hunk.text
    BY <1>3, <1>6, <2>3, <2>4
  <2> HIDE DEF k
  <2>6. /\ k \in 1..Len(OldOf(h)) /\ cursor + 1 = h.start + k - 1 /\ cursor < Len(Old)
    <3> DEFINE c == TextAt(h, OldOps, i)
               b == h.start
               o == Len(OldOf(h))
               z == EndOf(h)
               l == Len(Old)
    <3>1. /\ c \in Nat /\ b \in Nat /\ o \in Nat /\ l \in Nat /\ z = b + o /\ 0 < b
          /\ z - 1 <= l /\ cursor = b - 1 + c /\ k <= o
      BY <1>1, <1>4, <1>6, <2>1, <2>2, <2>5
    <3>2. k = c + 1
      BY DEF k
    <3> HIDE DEF b, c, o, z, l
    <3>3. k \in 1..o /\ cursor + 1 = b + k - 1 /\ cursor < l
      BY <3>1, <3>2
    <3> QED BY <3>3 DEF b, o, l
  <2> DEFINE a == h.start
             e == EndOf(h) - 1
  <2>7. a \in Int /\ e \in Int /\ 0 < a /\ e <= Len(Old) /\ e = a - 1 + Len(OldOf(h))
    BY <1>4, <1>6, <2>1
  <2>8. \A m \in a..e : Old[m] \in Texts
    <3> SUFFICES ASSUME NEW m \in a..e PROVE Old[m] \in Texts
      OBVIOUS
    <3> HIDE DEF a, e
    <3>1. m \in 1..Len(Old) /\ Old \in Seq(Texts)
      BY <1>1, <2>7 DEF Old, Whole
    <3> QED BY <3>1, ElementOfSeq
  <2> HIDE DEF a, e
  <2>9. \A m \in 1..e - a + 1 : SubSeq(Old, a, e)[m] = Old[a + m - 1]
    BY <2>7, <2>8, SubSeqProperties
  <2>10. e - a + 1 = Len(OldOf(h))
    BY <1>4, <2>7
  <2>11. Old[cursor + 1] = Hunk.text
    <3>1. SubSeq(Old, a, e)[k] = Old[a + k - 1]
      BY <2>6, <2>9, <2>10
    <3>2. SubSeq(Old, a, e)[k] = OldOf(h)[k]
      BY <2>1 DEF a, e
    <3> QED BY <2>5, <2>6, <3>1, <3>2 DEF a
  <2> QED BY <1>6, <2>6, <2>11 DEF Matches
<1>7. CASE Hunk.op = "@@?"
  <2>1. h.body \in Seq([op : Ops, text : Texts, start : Nat])
    BY <1>4 DEF Hunks
  <2>2. i + 1 \in DOMAIN h.body
    BY <1>4, <2>1, LenProperties
  <2>3. Malformed(h)
    BY <1>3, <1>7, <2>2 DEF Malformed
  <2> QED BY <1>1, <2>3 DEF Possible
<1> QED BY <1>5, <1>6, <1>7

-----------------------------------------------------------------------------
(* One line after the other *)

\* What a line does to a section in hand: it goes on, it is all done, it is
\* refused because it cannot be applied, or its file is out of reach.
Goes(s) ==
  \/ apply' = "lines" /\ reply' = reply /\ Placed(s)'
  \/ apply' = "write" /\ reply' = reply /\ Behind(s)'
  \/ apply' = "over" /\ reply' = "rejected" /\ ~Possible(disk, s)
  \/ apply' = "over" /\ reply' = "failed"

\* A section is at a hunk, at a line of one, or behind the last.
LEMMA PlacedCases ==
  ASSUME existing \in Whole, NEW s, HandOf(s), Placed(s)
  PROVE  \/ \E j \in 0..Len(s.hunks) : Between(s, j)
         \/ \E j \in 1..Len(s.hunks) : \E i \in 0..Size(s, j) :
              i < Size(s, j) /\ Inside(s, j, i)
<1>1. s \in SectionsMeant /\ Tidy(s) /\ Len(s.hunks) \in Nat
  BY HunkLayout DEF HandOf
<1>2. PICK j \in 0..Len(s.hunks) :
        Between(s, j) \/ (j > 0 /\ \E i \in 0..Size(s, j) : Inside(s, j, i))
  BY DEF Placed
<1>3. CASE Between(s, j)
  BY <1>3
<1>4. CASE j > 0 /\ \E i \in 0..Size(s, j) : Inside(s, j, i)
  <2>1. j \in 1..Len(s.hunks)
    BY <1>1, <1>4
  <2>2. PICK i \in 0..Size(s, j) : Inside(s, j, i)
    BY <1>4
  <2>3. Size(s, j) \in Nat
    BY <1>1, <2>1, HunkFacts
  <2>4. CASE i < Size(s, j)
    BY <2>1, <2>2, <2>4
  <2>5. CASE i = Size(s, j)
    <3>1. Between(s, j)
      BY <1>1, <2>1, <2>2, <2>5, InsideDone
    <3> QED BY <3>1
  <2> QED BY <2>3, <2>4, <2>5
<1> QED BY <1>2, <1>3, <1>4

\* Between two hunks there is the next one's header; behind the last one an
\* empty line, perhaps, and then the rest of the file.
LEMMA BetweenGoes ==
  ASSUME existing \in Whole, cursor \in Nat, next \in Nat \ {0}, IsNew => Old = <<>>,
         out \in Seq(Texts), src \in Seq(Nat),
         NEW s, HandOf(s), NEW j \in 0..Len(s.hunks), Between(s, j),
         \/ HunkHeader \/ BadHeader \/ AddLine \/ RemoveLine \/ ContextLine
         \/ OtherLine \/ LastLine
  PROVE  Goes(s)
<1>1. s \in SectionsMeant /\ Tidy(s) /\ Len(s.hunks) \in Nat /\ Len(File.hunks) \in Nat
  BY HunkLayout, HandLines DEF HandOf
<1>2. \/ j < Len(s.hunks) /\ (next \in 1..Len(File.hunks) => Hunk.op = "@@")
      \/ /\ j = Len(s.hunks) /\ next > Len(BodyLines(s)) /\ Len(BodyLines(s)) \in Nat
         /\ next \in 1..Len(File.hunks) => Hunk.op = "none"
  BY <1>1, BetweenLine DEF EmptyLine, Line
<1>3. CASE HunkHeader
  <2>1. next \in 1..Len(File.hunks) /\ Hunk.op = "@@"
    BY <1>1, <1>3 DEF HunkHeader, OnLine
  <2>2. j < Len(s.hunks)
    BY <1>2, <2>1
  <2>3. Inside(s, j + 1, 0)' /\ NextLine
    BY <1>3, <2>2, HeaderGoes
  <2>4. j + 1 \in 1..Len(s.hunks) /\ j + 1 \in 0..Len(s.hunks) /\ j + 1 > 0
    BY <1>1, <2>2
  <2>5. 0 \in 0..Size(s, j + 1)
    <3>1. Size(s, j + 1) \in Nat
      BY <1>1, <2>4, HunkFacts
    <3> QED BY <3>1
  <2>6. Placed(s)'
    BY <2>3, <2>4, <2>5 DEF Placed, Size
  <2>7. apply' = "lines" /\ reply' = reply
    BY <1>3, <2>3 DEF HunkHeader, OnLine, NextLine
  <2> QED BY <2>6, <2>7 DEF Goes
<1>4. CASE OtherLine
  <2>1. next \in 1..Len(File.hunks) /\ Hunk.op \in {"none", "\\"}
    BY <1>1, <1>4 DEF OtherLine, OnLine
  <2>2. j = Len(s.hunks) /\ next > Len(BodyLines(s)) /\ Len(BodyLines(s)) \in Nat
    BY <1>2, <2>1
  <2>3. /\ apply' = "lines" /\ reply' = reply /\ existing' = existing /\ next' = next + 1
        /\ out' = out /\ cursor' = cursor
    BY <1>4 DEF OtherLine, OnLine, NextLine
  <2>4. /\ QuotesThrough(s, j) /\ out = Made(s, j)
        /\ s.from # DevNull => cursor + 1 = EndBefore(s, j + 1)
    BY DEF Between
  <2>5. next' > Len(BodyLines(s)) /\ ~(j < Len(s.hunks))
    BY <1>1, <2>2, <2>3
  <2>6. QuotesThrough(s, j)' /\ Made(s, j)' = Made(s, j)
    BY <2>3, <2>4, OldFrame
  <2>7. Between(s, j)'
    BY <2>3, <2>4, <2>5, <2>6 DEF Between
  <2>8. Placed(s)'
    BY <2>7 DEF Placed
  <2> QED BY <2>3, <2>8 DEF Goes
<1>5. CASE LastLine
  <2>1. Behind(s)'
    BY <1>5, LastGoes
  <2> QED BY <1>5, <2>1 DEF Goes, LastLine
<1>6. CASE BadHeader \/ AddLine \/ RemoveLine \/ ContextLine
  <2>1. next \in 1..Len(File.hunks) /\ Hunk.op \in {"@@?", "+", "-", "space"}
    BY <1>1, <1>6 DEF BadHeader, AddLine, RemoveLine, ContextLine, OnLine
  <2> QED BY <1>2, <2>1
<1> QED BY <1>3, <1>4, <1>5, <1>6

\* In a hunk each line does what it says.
LEMMA InsideGoes ==
  ASSUME existing \in Whole, cursor \in Nat, next \in Nat \ {0}, Opened,
         NEW s, HandOf(s), NEW j \in 1..Len(s.hunks), NEW i \in 0..Size(s, j),
         i < Size(s, j), Inside(s, j, i),
         \/ HunkHeader \/ BadHeader \/ AddLine \/ RemoveLine \/ ContextLine
         \/ OtherLine \/ LastLine
  PROVE  Goes(s)
<1>1. /\ s \in SectionsMeant /\ Tidy(s) /\ Len(s.hunks) \in Nat /\ Len(File.hunks) \in Nat
      /\ IsNew <=> s.from = DevNull
  BY HunkLayout, HandLines DEF HandOf, IsNew
<1>2. next \in 1..Len(File.hunks) /\ Hunk.op \in Ops
  BY InsideLine
<1>3. /\ Size(s, j) \in Nat /\ i + 1 \in 0..Size(s, j)
      /\ j \in 0..Len(s.hunks) /\ j > 0
  <2>1. Size(s, j) \in Nat
    BY <1>1, HunkFacts
  <2> QED BY <1>1, <2>1
<1>4. ASSUME Inside(s, j, i + 1)', NextLine, apply = "lines" PROVE Goes(s)
  <2>1. Placed(s)'
    BY <1>3, <1>4 DEF Placed, Size
  <2>2. apply' = "lines" /\ reply' = reply
    BY <1>4 DEF NextLine
  <2> QED BY <2>1, <2>2 DEF Goes
<1>5. ASSUME Rejected, ~Possible(disk, s) PROVE Goes(s)
  BY <1>5 DEF Rejected, Answer, Goes
<1>6. CASE HunkHeader
  BY <1>2, <1>6 DEF HunkHeader, OnLine, Ops
<1>7. CASE LastLine
  BY <1>1, <1>2, <1>7 DEF LastLine
<1>8. CASE AddLine
  <2>1. /\ apply = "lines" /\ NextLine /\ Hunk.op = "+"
        /\ out' = Append(out, Hunk.text) /\ cursor' = cursor
    BY <1>8 DEF AddLine, OnLine
  <2>2. Hunk.op \notin OldOps /\ Hunk.op \in NewOps /\ Hunk.op \notin {"-", "@@?"}
    BY <2>1 DEF OldOps, NewOps
  <2>3. Inside(s, j, i + 1)'
    BY <2>1, <2>2, LineGoes
  <2> QED BY <1>4, <2>1, <2>3
<1>9. CASE OtherLine
  <2>1. /\ apply = "lines" /\ NextLine /\ Hunk.op \in {"none", "\\"}
        /\ out' = out /\ cursor' = cursor
    BY <1>9 DEF OtherLine, OnLine
  <2>2. Hunk.op \notin OldOps /\ Hunk.op \notin NewOps /\ Hunk.op \notin {"-", "@@?"}
    BY <2>1 DEF OldOps, NewOps
  <2>3. Inside(s, j, i + 1)'
    BY <2>1, <2>2, LineGoes
  <2> QED BY <1>4, <2>1, <2>3
<1>10. CASE RemoveLine
  <2>1. apply = "lines" /\ Hunk.op = "-" /\ Hunk.op \in OldOps /\ Hunk.op \notin NewOps
    BY <1>10 DEF RemoveLine, OnLine, OldOps, NewOps
  <2>2. CASE IsNew \/ ~Matches
    <3>1. ~Possible(disk, s)
      BY <1>1, <2>1, <2>2, Rejects
    <3>2. Rejected
      BY <1>10, <2>2 DEF RemoveLine
    <3> QED BY <1>5, <3>1, <3>2
  <2>3. CASE ~(IsNew \/ ~Matches)
    <3>1. NextLine /\ cursor' = cursor + 1 /\ out' = out /\ Matches /\ s.from # DevNull
      BY <1>1, <1>10, <2>3 DEF RemoveLine
    <3>2. Inside(s, j, i + 1)'
      BY <2>1, <3>1, LineGoes
    <3> QED BY <1>4, <2>1, <3>1, <3>2
  <2> QED BY <2>2, <2>3
<1>11. CASE ContextLine
  <2>1. /\ apply = "lines" /\ Hunk.op = "space" /\ Hunk.op # "-"
        /\ Hunk.op \in OldOps /\ Hunk.op \in NewOps
    BY <1>11 DEF ContextLine, OnLine, OldOps, NewOps
  <2>2. CASE ~IsNew /\ ~Matches
    <3>1. ~Possible(disk, s)
      BY <1>1, <2>1, <2>2, Rejects
    <3>2. Rejected
      BY <1>11, <2>2 DEF ContextLine
    <3> QED BY <1>5, <3>1, <3>2
  <2>3. CASE ~(~IsNew /\ ~Matches)
    <3>1. /\ NextLine /\ cursor' = cursor + 1 /\ out' = Append(out, Hunk.text)
          /\ s.from # DevNull => Matches
      BY <1>1, <1>11, <2>3 DEF ContextLine
    <3>2. Inside(s, j, i + 1)'
      BY <2>1, <3>1, LineGoes
    <3> QED BY <1>4, <2>1, <3>1, <3>2
  <2> QED BY <2>2, <2>3
<1>12. CASE BadHeader
  <2>1. apply = "lines" /\ Hunk.op = "@@?" /\ Rejected
    BY <1>12 DEF BadHeader, OnLine
  <2>2. ~Possible(disk, s)
    BY <1>1, <2>1, Rejects
  <2> QED BY <1>5, <2>1, <2>2
<1> QED BY <1>6, <1>7, <1>8, <1>9, <1>10, <1>11, <1>12

\* Before its first hunk nothing was made of a file.
Unmade == Old \in Seq(Texts) => \A s \in SectionsMeant : Tidy(s) => Made(s, 0) = <<>>

\* Stated of one state, so that the next one has it too.
LEMMA MadeZero == Unmade
BY MadeFacts DEF Unmade

\* The same of the next state.
LEMMA MadeZeroNext == Unmade'
BY MadeZero, PTL

\* A file is opened at its first hunk, or refused because it cannot be.
LEMMA OpenGoes ==
  ASSUME OpenFile, Old' \in Seq(Texts), NEW s, HandOf(s), s.hunks # <<>>
  PROVE  Goes(s)
<1>1. /\ s \in SectionsMeant /\ Tidy(s) /\ s.to = File.to
      /\ IsNew <=> s.from = DevNull
  BY DEF HandOf, IsNew
<1>0. CASE Answer("failed")
  BY <1>0 DEF Answer, Goes
<1>2. CASE /\ File.to \in Refused \/ (disk[File.to] = NoFile) # IsNew
           /\ Answer("rejected")
  <2>1. apply' = "over" /\ reply' = "rejected"
    BY <1>2 DEF Answer
  <2>2. s.to \in Refused \/ ~(disk[s.to] = NoFile <=> s.from = DevNull)
    BY <1>1, <1>2 DEF IsNew
  <2>3. ~Possible(disk, s)
    BY <2>2 DEF Possible
  <2> QED BY <2>1, <2>3 DEF Goes
<1>3. CASE apply' = "lines" /\ reply' = reply /\ next' = 1 /\ out' = <<>> /\ cursor' = 0
  <2>1. apply' = "lines" /\ reply' = reply /\ next' = 1 /\ out' = <<>> /\ cursor' = 0
    BY <1>3
  <2>2. /\ Len(s.hunks) \in Nat /\ HunkAt(s, 0) = 0 /\ s.hunks \in Seq(Hunks)
        /\ Len(s.hunks) # 0
    BY <1>1, HunkLayout, EmptySeq DEF SectionsMeant
  <2>3. Made(s, 0)' = <<>>
    BY <1>1, MadeZeroNext DEF Unmade
  <2>4. EndBefore(s, 0 + 1) = 1 /\ 0 < Len(s.hunks) /\ 0 \in 0..Len(s.hunks)
    BY <2>2 DEF EndBefore
  <2>5. QuotesThrough(s, 0)'
    <3>1. \A k \in 1..0 : FALSE
      OBVIOUS
    <3> QED BY <3>1 DEF QuotesThrough
  <2>6. Between(s, 0)'
    BY <2>1, <2>2, <2>3, <2>4, <2>5 DEF Between
  <2>7. Placed(s)'
    BY <2>4, <2>6 DEF Placed
  <2> QED BY <2>1, <2>7 DEF Goes
<1> QED BY <1>0, <1>2, <1>3 DEF OpenFile

-----------------------------------------------------------------------------
(* The patch means what it says *)

\* The parser's place does not depend on the applier.
LEMMA ParsePlaceFrame ==
  ASSUME UNCHANGED parseVars
  PROVE  /\ Meant' <=> Meant
         /\ ParsePlace' <=> ParsePlace
         /\ Wanted' = Wanted /\ (Regular' <=> Regular)
<1>1. UNCHANGED <<intent, patch, parse, pos, files>>
  BY DEF parseVars
<1>2. /\ Secs' = Secs /\ Wanted' = Wanted /\ (Regular' <=> Regular) /\ (Meant' <=> Meant)
      /\ \A n : SectionAt(n)' = SectionAt(n)
      /\ \A n : HunksOf(n)' = HunksOf(n)
      /\ \A n, j : LinesOf(n, j)' = LinesOf(n, j)
      /\ \A n, j : HunkStart(n, j)' = HunkStart(n, j)
  BY <1>1, IntentFrame
<1>3. /\ \A n : Found(n)' <=> Found(n)
      /\ \A n, q : Open(n, q)' <=> Open(n, q)
      /\ \A n, j : HunkAt(Secs[n], j)' = HunkAt(Secs[n], j)
  BY <1>1, PlaceFrame DEF Found, Open, Through
<1>4. Past' <=> Past
  BY <1>1, <1>2 DEF Past, Recovered
<1>5. /\ \A n : AtSection(n)' <=> AtSection(n)
      /\ \A n : AtNext(n)' <=> AtNext(n)
  BY <1>1, <1>2, <1>3 DEF AtSection, AtNext
<1>6. /\ \A n, j : AtHunk(n, j)' <=> AtHunk(n, j)
      /\ \A n, j, i : InDeleted(n, j, i)' <=> InDeleted(n, j, i)
      /\ \A n, j, i : InHunk(n, j, i)' <=> InHunk(n, j, i)
  BY <1>1, <1>2, <1>3 DEF AtHunk, InDeleted, InHunk
<1>7. ParsePlace' <=> ParsePlace
  BY <1>2, <1>4, <1>5, <1>6 DEF ParsePlace
<1> QED BY <1>2, <1>7

\* Opening a file and applying a line of it.
LEMMA ApplyMeans == ASSUME PatchInv, PatchInv', MeaningInv, ApplyLine PROVE MeaningInv'
<1>1. /\ ParseTypes /\ ApplyTypes /\ InHand
      /\ Meant /\ ParsePlace /\ Opened /\ ApplyPlace /\ Answered
  BY DEF PatchInv, MeaningInv
<1>2. UNCHANGED <<parseVars, intent, patch, parse, pos, files, disk, disk0, at>>
  BY DEF ApplyLine, parseVars
<1>3. /\ Meant' /\ ParsePlace' /\ Wanted' = Wanted /\ (Regular' <=> Regular)
      /\ Expected' = Expected /\ File' = File /\ (IsNew' <=> IsNew)
  BY <1>1, <1>2, ParsePlaceFrame, ExpectedFrame DEF File, IsNew
<1>4. /\ parse = "done" /\ at \in 1..Len(files) /\ apply \in {"rest", "lines"}
      /\ reply = "none"
  <2>1. CASE OpenFile
    BY <1>1, <2>1, LenProperties DEF OpenFile, ApplyTypes, ParseTypes, Answered
  <2>2. CASE ~OpenFile
    <3>1. apply = "lines"
      BY <2>2 DEF ApplyLine, HunkHeader, BadHeader, AddLine, RemoveLine, ContextLine,
                  OtherLine, LastLine, OnLine
    <3> QED BY <1>1, <3>1 DEF InHand, Answered
  <2> QED BY <2>1, <2>2
<1>5. Opened'
  <2>1. CASE OpenFile
    <3>1. CASE apply' = "over"
      BY <3>1 DEF Opened
    <3>2. CASE apply' # "over"
      <4>1. /\ File.to \notin Refused /\ (disk[File.to] = NoFile <=> IsNew)
            /\ ~IsNew => existing' = disk[File.to]
        BY <2>1, <3>2 DEF OpenFile, Answer, IsNew
      <4> QED BY <1>2, <1>3, <4>1 DEF Opened
    <3> QED BY <3>1, <3>2
  <2>2. CASE ~OpenFile
    <3>1. apply = "lines" /\ existing' = existing
      BY <2>2 DEF ApplyLine, HunkHeader, BadHeader, AddLine, RemoveLine, ContextLine,
                  OtherLine, LastLine, OnLine, NextLine, Rejected, applyVars
    <3>2. /\ File.to \notin Refused /\ (disk[File.to] = NoFile <=> IsNew)
          /\ ~IsNew => existing = disk[File.to]
      BY <1>1, <3>1 DEF Opened
    <3> QED BY <1>2, <1>3, <3>1, <3>2 DEF Opened
  <2> QED BY <2>1, <2>2
<1>6. ASSUME Regular, NEW s, s = Wanted[at] PROVE Goes(s)
  <2>1. HandOf(s) /\ s.hunks # <<>>
    BY <1>1, <1>4, <1>6, InHandFacts
  <2>2. CASE OpenFile
    <3>1. Old' \in Seq(Texts)
      BY DEF PatchInv, ApplyTypes, Old, Whole
    <3> QED BY <2>1, <2>2, <3>1, OpenGoes
  <2>3. CASE ~OpenFile
    <3>1. \/ HunkHeader \/ BadHeader \/ AddLine \/ RemoveLine \/ ContextLine
          \/ OtherLine \/ LastLine
      BY <2>3 DEF ApplyLine
    <3>2. apply = "lines"
      BY <3>1 DEF HunkHeader, BadHeader, AddLine, RemoveLine, ContextLine, OtherLine,
                  LastLine, OnLine
    <3>3. Placed(s)
      BY <1>1, <1>6, <3>2 DEF ApplyPlace
    <3>4. /\ existing \in Whole /\ cursor \in Nat /\ next \in Nat \ {0}
          /\ out \in Seq(Texts) /\ src \in Seq(Nat) /\ (IsNew => Old = <<>>)
      BY <1>1, <3>2 DEF ApplyTypes, InHand
    <3>5. CASE \E j \in 0..Len(s.hunks) : Between(s, j)
      BY <2>1, <3>1, <3>4, <3>5, BetweenGoes
    <3>6. CASE \E j \in 1..Len(s.hunks) : \E i \in 0..Size(s, j) :
                 i < Size(s, j) /\ Inside(s, j, i)
      <4>1. PICK j \in 1..Len(s.hunks) : \E i \in 0..Size(s, j) :
              i < Size(s, j) /\ Inside(s, j, i)
        BY <3>6
      <4>2. PICK i \in 0..Size(s, j) : i < Size(s, j) /\ Inside(s, j, i)
        BY <4>1
      <4> QED BY <1>1, <2>1, <3>1, <3>4, <4>2, InsideGoes
    <3> QED BY <2>1, <3>3, <3>4, <3>5, <3>6, PlacedCases
  <2> QED BY <2>2, <2>3
<1>7. PICK s : s = Wanted[at]
  OBVIOUS
<1>8. Wanted'[at'] = s
  BY <1>2, <1>3, <1>7
<1>9. Regular => Goes(s)
  BY <1>6, <1>7
<1>10. ApplyPlace'
  <2> SUFFICES ASSUME Regular
               PROVE  (apply' = "lines" => Placed(s)') /\ (apply' = "write" => Behind(s)')
    BY <1>3, <1>8 DEF ApplyPlace
  <2> QED BY <1>9 DEF Goes
<1>11. Answered'
  <2>1. /\ reply' \in {"none", "rejected", "failed", "panic"}
        /\ reply' # "none" => apply' = "over"
    BY <1>4 DEF ApplyLine, OpenFile, HunkHeader, BadHeader, AddLine, RemoveLine, ContextLine,
                OtherLine, LastLine, OnLine, NextLine, Rejected, Answer
  <2>2. Regular => reply' # "panic" /\ (reply' = "rejected" => ~Possible(disk', s))
    BY <1>2, <1>4, <1>9 DEF Goes
  <2>3. at = 1 \/ (parse = "done" /\ at <= Len(files) + 1)
    BY <1>1 DEF Answered
  <2>4. Regular => disk = Expected[at - 1]
    BY <1>1 DEF Answered
  <2> QED BY <1>2, <1>3, <1>4, <1>8, <2>1, <2>2, <2>3, <2>4 DEF Answered
<1> QED BY <1>3, <1>5, <1>10, <1>11 DEF MeaningInv

\* Writing the result of a section.
LEMMA WriteMeans == ASSUME PatchInv, MeaningInv, WriteFile PROVE MeaningInv'
<1>1. /\ ParseTypes /\ ApplyTypes /\ InHand
      /\ Meant /\ ParsePlace /\ Opened /\ ApplyPlace /\ Answered
  BY DEF PatchInv, MeaningInv
<1>2. UNCHANGED <<parseVars, intent, patch, parse, pos, files, disk0>>
  BY DEF WriteFile, parseVars
<1>3. /\ Meant' /\ ParsePlace' /\ Wanted' = Wanted /\ (Regular' <=> Regular)
      /\ Expected' = Expected
  BY <1>1, <1>2, ParsePlaceFrame, ExpectedFrame
<1>4. /\ apply = "write" /\ parse = "done" /\ at \in 1..Len(files) /\ Len(files) \in Nat
      /\ reply = "none"
  BY <1>1, LenProperties DEF WriteFile, InHand, ParseTypes, Answered
<1>5. /\ apply' \in {"rest", "over"} /\ Opened' /\ ApplyPlace'
  BY DEF WriteFile, Answer, Opened, ApplyPlace
<1>6. Answered'
  <2>1. CASE Answer("failed") /\ UNCHANGED <<disk, at>>
    BY <1>1, <1>2, <1>3, <1>4, <2>1 DEF Answer, Answered
  <2> DEFINE new == [disk EXCEPT ![File.to] =
                       Content(out, ~IsNew /\ existing.nl /\ out \notin {<<>>, <<Empty>>})]
  <2>2. CASE disk' = new /\ apply' = "rest" /\ at' = at + 1 /\ reply' = reply
    <3>1. at' \in Nat /\ at' <= Len(files) + 1 /\ at' - 1 = at
      BY <1>4, <2>2
    <3>2. ASSUME Regular PROVE disk' = Expected[at]
      <4>1. HandOf(Wanted[at])
        BY <1>1, <1>4, <3>2, InHandFacts
      <4>2. Behind(Wanted[at]) /\ disk = Expected[at - 1]
        BY <1>1, <1>4, <3>2 DEF ApplyPlace, Answered
      <4>3. existing \in Whole /\ (IsNew => Old = <<>>)
        BY <1>1, <1>4 DEF ApplyTypes, InHand
      <4>4. Patched(disk, Wanted[at]) = new
        BY <1>1, <1>4, <4>1, <4>2, <4>3, BehindIs
      <4> HIDE DEF new
      <4> DEFINE m == at - 1
      <4>5. m \in Nat /\ m + 1 = at
        BY <1>4
      <4> HIDE DEF m
      <4>6. Expected[m + 1] = Patched(Expected[m], Wanted[m + 1])
        BY <4>5, ExpectedFacts
      <4>7. disk = Expected[m]
        BY <4>2 DEF m
      <4> QED BY <2>2, <4>4, <4>5, <4>6, <4>7
    <3> HIDE DEF new
    <3>3. disk' = Expected[at] => disk' = Expected[at' - 1]
      BY <3>1
    <3> QED BY <1>2, <1>3, <1>4, <2>2, <3>1, <3>2, <3>3 DEF Answered
  <2> QED BY <2>1, <2>2 DEF WriteFile
<1> QED BY <1>3, <1>5, <1>6 DEF MeaningInv

\* The answer.
LEMMA FinishMeans == ASSUME PatchInv, MeaningInv, Finish PROVE MeaningInv'
<1>1. /\ ParseTypes /\ ApplyTypes /\ Meant /\ ParsePlace /\ Answered
  BY DEF PatchInv, MeaningInv
<1>2. /\ UNCHANGED <<parseVars, intent, patch, parse, pos, files, disk, disk0, at>>
      /\ parse = "done" /\ at > Len(files) /\ apply' = "over"
      /\ reply' = IF files = <<>> THEN "rejected" ELSE "ok"
  BY DEF Finish, parseVars, Answer
<1>3. /\ Meant' /\ ParsePlace' /\ Wanted' = Wanted /\ (Regular' <=> Regular)
      /\ Expected' = Expected
  BY <1>1, <1>2, ParsePlaceFrame, ExpectedFrame
<1>4. Opened' /\ ApplyPlace'
  BY <1>2 DEF Opened, ApplyPlace
<1>5. Len(files) \in Nat /\ at \in Nat \ {0} /\ (files # <<>> => Len(files) # 0)
  BY <1>1, LenProperties, EmptySeq DEF ParseTypes, ApplyTypes
<1>6. files # <<>> => at = Len(files) + 1
  <2>1. at = 1 \/ at <= Len(files) + 1
    BY <1>1 DEF Answered
  <2> QED BY <1>2, <1>5, <2>1
<1>7. Regular => Len(files) = Len(Wanted) /\ disk = Expected[at - 1]
  BY <1>1, <1>2, ParsedRight DEF Recovered, Answered
<1>8. Regular /\ files = <<>> => Wanted = <<>>
  <2>1. files = <<>> => Len(files) = 0
    BY EmptySeq
  <2>2. Wanted \in Seq(SectionsMeant)
    BY <1>1, WantedLayout DEF Meant
  <2> QED BY <1>7, <2>1, <2>2, EmptySeq
<1>9. at = 1 \/ at <= Len(files) + 1
  BY <1>1 DEF Answered
<1>10. Answered'
  BY <1>2, <1>3, <1>6, <1>7, <1>8, <1>9 DEF Answered
<1> QED BY <1>3, <1>4, <1>10 DEF MeaningInv

\* Parsing, before anything is applied.
LEMMA ParseMeans == ASSUME PatchInv, MeaningInv, Parse PROVE MeaningInv'
<1>1. /\ ParseTypes /\ Meant /\ ParsePlace /\ Answered
  BY DEF PatchInv, MeaningInv
<1>2. /\ UNCHANGED <<intent, patch, disk, disk0, apply, at, reply>> /\ parse # "done"
  BY DEF Parse, Scan, Section, HunkBody, ParseEnds
<1>3. ParsePlace' /\ Meant' /\ Wanted' = Wanted /\ (Regular' <=> Regular)
      /\ Expected' = Expected
  BY <1>1, <1>2, ParsePlaceStep, IntentFrame, ExpectedFrame
<1>4. apply = "rest" /\ at = 1 /\ reply = "none" /\ (Regular => disk = Expected[at - 1])
  BY <1>1, <1>2 DEF Answered
<1>5. Opened' /\ ApplyPlace'
  BY <1>2, <1>4 DEF Opened, ApplyPlace
<1>6. Answered'
  BY <1>2, <1>3, <1>4 DEF Answered
<1> QED BY <1>3, <1>5, <1>6 DEF MeaningInv

\* Init establishes the invariant.
LEMMA MeaningInit == Init => MeaningInv
<1> SUFFICES ASSUME Init PROVE MeaningInv
  OBVIOUS
<1>1. Meant /\ ParsePlace
  BY ParsePlaceInit DEF Init, Meant
<1>2. apply = "rest" /\ at = 1 /\ reply = "none" /\ disk = disk0
  BY DEF Init
<1>3. Expected[at - 1] = disk0
  <2>1. at - 1 = 0
    BY <1>2
  <2> QED BY <2>1, ExpectedFacts
<1> QED BY <1>1, <1>2, <1>3 DEF MeaningInv, Opened, ApplyPlace, Answered

\* A step that changes nothing keeps it.
LEMMA MeaningStutter == ASSUME MeaningInv, UNCHANGED vars PROVE MeaningInv'
<1>1. /\ UNCHANGED <<parseVars, intent, patch, parse, pos, files, disk, disk0, apply, at,
                     next, existing, out, cursor, reply>>
      /\ Meant /\ ParsePlace /\ Opened /\ ApplyPlace /\ Answered
  BY DEF vars, parseVars, applyVars, MeaningInv
<1>2. /\ Meant' /\ ParsePlace' /\ Wanted' = Wanted /\ (Regular' <=> Regular)
      /\ Expected' = Expected
  BY <1>1, ParsePlaceFrame, ExpectedFrame
<1>3. Opened'
  BY <1>1 DEF Opened, File, IsNew
<1>4. Answered'
  BY <1>1, <1>2 DEF Answered
<1>5. PICK s : s = Wanted[at]
  OBVIOUS
<1>6. Wanted'[at'] = s
  BY <1>1, <1>2, <1>5
<1>7. Placed(s) => Placed(s)'
  <2>1. \A j : Between(s, j) => Between(s, j)'
    BY <1>1, OldFrame DEF Between
  <2>2. \A j, i : Inside(s, j, i) => Inside(s, j, i)'
    BY <1>1, OldFrame DEF Inside
  <2> QED BY <2>1, <2>2 DEF Placed
<1>8. Behind(s) => Behind(s)'
  BY <1>1, OldFrame DEF Behind
<1>9. ApplyPlace'
  BY <1>1, <1>2, <1>5, <1>6, <1>7, <1>8 DEF ApplyPlace
<1> QED BY <1>2, <1>3, <1>4, <1>9 DEF MeaningInv

-----------------------------------------------------------------------------
(* The theorems about the meaning of a patch *)

\* MeaningInv is an invariant next to PatchInv: parser and applier stay at the
\* places the patch has, and the files are what the sections made of them.
THEOREM MeaningInvariance == Spec => [](PatchInv /\ MeaningInv)
<1>1. PatchInv /\ MeaningInv /\ PatchInv' /\ [Next]_vars => MeaningInv'
  <2> SUFFICES ASSUME PatchInv, MeaningInv, PatchInv', [Next]_vars PROVE MeaningInv'
    OBVIOUS
  <2>1. CASE Parse
    BY <2>1, ParseMeans
  <2>2. CASE ApplyLine
    BY <2>2, ApplyMeans
  <2>3. CASE WriteFile
    BY <2>3, WriteMeans
  <2>4. CASE Finish
    BY <2>4, FinishMeans
  <2>5. CASE UNCHANGED vars
    BY <2>5, MeaningStutter
  <2> QED BY <2>1, <2>2, <2>3, <2>4, <2>5 DEF Next
<1> QED BY <1>1, MeaningInit, PatchInvariance, PTL DEF Spec

\* For every regular patch and all files: the parser finds the sections that
\* were written (parseUnifiedDiff), each is applied to the letter
\* (applyHunksToText) or rejected, and rejected only if it cannot be.
THEOREM PatchesAreExact == Spec => []PatchMeansWhatItSays
<1>1. PatchInv /\ MeaningInv => PatchMeansWhatItSays
  <2> SUFFICES ASSUME PatchInv, MeaningInv PROVE PatchMeansWhatItSays
    OBVIOUS
  <2>1. /\ ParseTypes /\ ApplyTypes /\ InHand
        /\ Meant /\ ParsePlace /\ Opened /\ ApplyPlace /\ Answered
    BY DEF PatchInv, MeaningInv
  <2>2. SectionsRecovered
    BY <2>1, ParsedRight DEF SectionsRecovered, Recovered
  <2>3. ASSUME Regular, apply = "write" PROVE Possible(disk, Wanted[at])
    <3>1. /\ parse = "done" /\ at \in 1..Len(files) /\ existing \in Whole
          /\ (IsNew => Old = <<>>) /\ Behind(Wanted[at])
      BY <2>1, <2>3 DEF InHand, ApplyTypes, ApplyPlace
    <3>2. HandOf(Wanted[at])
      BY <2>1, <2>3, <3>1, InHandFacts
    <3> QED BY <2>1, <2>3, <3>1, <3>2, BehindIs
  <2>4. PatchIsExact
    BY <2>1, <2>3 DEF PatchIsExact, Answered
  <2> QED BY <2>2, <2>4 DEF PatchMeansWhatItSays
<1> QED BY <1>1, MeaningInvariance, PTL
=============================================================================
