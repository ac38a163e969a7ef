---------------------------- MODULE TurnLogProofs ----------------------------
(***************************************************************************)
(* TLAPS proofs about TurnLog, for any number of turns, segment size and   *)
(* number of faults.                                                       *)
(***************************************************************************)
EXTENDS TurnLog, SequenceTheorems, WellFoundedInduction, TLAPS

-----------------------------------------------------------------------------
\* Induction over sets of numbers, and extremes.

\* A set with 0 that is closed under successor has every number.
LEMMA Induction ==
  ASSUME NEW S, 0 \in S, \A n \in Nat : n \in S => n + 1 \in S
  PROVE  \A n \in Nat : n \in S
<1> SUFFICES ASSUME Nat \ S # {}  PROVE FALSE
  OBVIOUS
<1>1. PICK m \in Nat \ S : \A j \in Nat \ S : <<j, m>> \notin OpToRel(<, Nat)
  BY NatLessThanWellFounded, WFMin, Zenon
<1>2. \A j \in Nat \ S : ~(j < m)
  BY <1>1 DEF OpToRel
<1>3. m # 0 /\ m - 1 \in Nat
  OBVIOUS
<1>4. m - 1 \in S
  BY <1>2, <1>3
<1> QED
  BY <1>3, <1>4

\* A bounded set of numbers has a greatest one.
LEMMA MaxOf ==
  ASSUME NEW S, NEW b \in Nat, S \subseteq 0 .. b, S # {}
  PROVE  Max(S) \in S /\ \A x \in S : x <= Max(S)
<1> DEFINE D == {d \in Nat : b - d \in S}
<1>1. PICK x \in S : TRUE
  OBVIOUS
<1>2. b - x \in D
  BY <1>1
<1>3. PICK d \in D : \A j \in D : <<j, d>> \notin OpToRel(<, Nat)
  <2> HIDE DEF D
  <2>1. D \subseteq Nat /\ D # {}
    BY <1>2 DEF D
  <2> QED
    BY <2>1, NatLessThanWellFounded, WFMin, Zenon
<1>4. \A j \in D : d <= j
  <2> TAKE j \in D
  <2>1. ~(j < d)
    <3> HIDE DEF D
    <3>1. D \subseteq Nat
      BY DEF D
    <3> QED
      BY <1>3, <3>1 DEF OpToRel
  <2> QED
    BY <2>1
<1>5. \A y \in S : y <= b - d
  <2> TAKE y \in S
  <2>1. b - y \in D /\ y \in Int /\ d \in Nat
    OBVIOUS
  <2>2. d <= b - y
    BY <1>4, <2>1
  <2> QED
    BY <2>1, <2>2
<1>6. \E m \in S : \A y \in S : m >= y
  BY <1>5
<1>7. Max(S) \in S /\ \A y \in S : Max(S) >= y
  BY <1>6 DEF Max
<1> QED
  BY <1>7

\* A member that no other exceeds is the maximum.
LEMMA MaxIs ==
  ASSUME NEW S, S \subseteq Int, NEW m \in S, \A x \in S : x <= m
  PROVE  Max(S) = m
<1>1. \A y \in S : m >= y
  OBVIOUS
<1>2. Max(S) \in S /\ \A y \in S : Max(S) >= y
  BY <1>1 DEF Max
<1>3. Max(S) \in Int /\ m \in Int /\ Max(S) >= m /\ Max(S) <= m
  BY <1>2
<1> QED
  BY <1>3

\* The smaller of two numbers.
LEMMA MinOfTwo ==
  ASSUME NEW a \in Int, NEW b \in Int
  PROVE  Min({a, b}) = IF a <= b THEN a ELSE b
<1>1. \E m \in {a, b} : \A y \in {a, b} : m =< y
  OBVIOUS
<1>2. Min({a, b}) \in {a, b} /\ \A y \in {a, b} : Min({a, b}) =< y
  BY <1>1 DEF Min
<1> QED
  BY <1>2

-----------------------------------------------------------------------------
\* Where the segments begin.

\* Segment s begins SegmentTurns turns after the one in front of it.
LEMMA BeforeFacts ==
  /\ Before(1) = 0
  /\ \A s \in Nat \ {0} : /\ Before(s) \in Nat /\ s - 1 <= Before(s)
                          /\ Before(s + 1) = Before(s) + SegmentTurns
<1>1. Before(1) = 0
  BY SegmentAssumption DEF Before
<1>2. ASSUME NEW s \in Nat \ {0}
      PROVE  Before(s) \in Nat /\ s - 1 <= Before(s) /\ Before(s + 1) = Before(s) + SegmentTurns
  <2> DEFINE n == s - 1
  <2>1. n \in Nat /\ Before(s) = n * SegmentTurns /\ Before(s + 1) = (n + 1) * SegmentTurns
    BY DEF Before
  <2> HIDE DEF n
  <2>2. PICK k \in Nat : SegmentTurns = k + 1
    <3>1. SegmentTurns - 1 \in Nat /\ SegmentTurns = (SegmentTurns - 1) + 1
      BY SegmentAssumption
    <3> QED
      BY <3>1
  <2>3. n * (k + 1) = n * k + n /\ n * k \in Nat /\ (n + 1) * (k + 1) = n * k + n + k + 1
    BY <2>1, <2>2
  <2>4. Before(s) = n * k + n /\ Before(s + 1) = n * k + n + k + 1
    BY <2>1, <2>2, <2>3
  <2>5. Before(s) \in Nat /\ n <= Before(s) /\ Before(s + 1) = Before(s) + SegmentTurns
    BY <2>1, <2>2, <2>3, <2>4
  <2> QED
    BY <2>5 DEF n
<1> QED
  BY <1>1, <1>2

\* A later segment begins where an earlier one has ended, or behind it.
LEMMA BeforeLess ==
  ASSUME NEW s \in Nat \ {0}, NEW t \in Nat \ {0}, s < t
  PROVE  Before(s + 1) <= Before(t) /\ Before(s) < Before(t)
<1> DEFINE S == {d \in Nat : Before(s + 1) <= Before(s + 1 + d)}
<1>1. 0 \in S
  <2>1. Before(s + 1) \in Nat
    BY BeforeFacts
  <2> QED
    BY <2>1
<1>2. ASSUME NEW d \in Nat, d \in S  PROVE d + 1 \in S
  <2>1. s + 1 + d \in Nat \ {0} /\ s + 1 \in Nat \ {0} /\ s + 1 + (d + 1) = (s + 1 + d) + 1
    OBVIOUS
  <2>2. Before((s + 1 + d) + 1) = Before(s + 1 + d) + SegmentTurns
    BY <2>1, BeforeFacts
  <2>3. Before(s + 1) \in Nat /\ Before(s + 1 + d) \in Nat
    BY <2>1, BeforeFacts
  <2> QED
    BY <1>2, <2>1, <2>2, <2>3, SegmentAssumption
<1>3. \A d \in Nat : d \in S
  <2> HIDE DEF S
  <2> QED
    BY <1>1, <1>2, Induction
<1>4. t - (s + 1) \in Nat /\ s + 1 + (t - (s + 1)) = t
  OBVIOUS
<1>5. Before(s + 1) <= Before(t)
  BY <1>3, <1>4
<1>6. Before(s + 1) = Before(s) + SegmentTurns /\ Before(s) \in Nat /\ Before(t) \in Nat
  BY BeforeFacts
<1> QED
  BY <1>5, <1>6, SegmentAssumption

\* The number of segments of a log: the last one is the first that reaches its end.
LEMMA ChunksFacts ==
  ASSUME NEW log \in Seq(Int)
  PROVE  /\ Chunks(log) \in Nat \ {0}
         /\ Len(log) <= Before(Chunks(log) + 1)
         /\ Before(Chunks(log)) <= Len(log)
         /\ log # <<>> => Before(Chunks(log)) < Len(log)
<1> DEFINE S == {1} \union {s \in 1 .. Len(log) : Before(s) < Len(log)}
<1>1. Len(log) \in Nat
  OBVIOUS
<1>2. S \subseteq 0 .. (Len(log) + 1) /\ S # {}
  BY <1>1
<1>3. Max(S) \in S /\ \A x \in S : x <= Max(S)
  <2> HIDE DEF S
  <2>1. Len(log) + 1 \in Nat
    BY <1>1
  <2> QED
    BY <1>2, <2>1, MaxOf
<1>4. Chunks(log) = Max(S)
  BY DEF Chunks
<1> DEFINE c == Max(S)
<1>5. c \in S /\ \A x \in S : x <= c
  BY <1>3
<1> HIDE DEF c
<1>6. c \in Nat \ {0} /\ (c = 1 \/ (c \in 1 .. Len(log) /\ Before(c) < Len(log)))
  BY <1>1, <1>5
<1>7. Len(log) <= Before(c + 1)
  <2> SUFFICES ASSUME ~(Len(log) <= Before(c + 1))  PROVE FALSE
    OBVIOUS
  <2>1. Before(c + 1) \in Nat /\ c <= Before(c + 1)
    <3>1. c + 1 \in Nat \ {0} /\ (c + 1) - 1 = c
      BY <1>6
    <3> QED
      BY <3>1, BeforeFacts
  <2>2. c + 1 \in 1 .. Len(log) /\ Before(c + 1) < Len(log)
    BY <1>1, <1>6, <2>1
  <2>3. c + 1 \in S
    BY <2>2
  <2> QED
    BY <1>5, <1>6, <2>3
<1>8. Before(c) <= Len(log) /\ (log # <<>> => Before(c) < Len(log))
  <2>1. Before(1) = 0
    BY BeforeFacts
  <2>2. log # <<>> => Len(log) > 0
    BY EmptySeq, <1>1
  <2>3. CASE c = 1
    BY <1>1, <2>1, <2>2, <2>3
  <2>4. CASE c \in 1 .. Len(log) /\ Before(c) < Len(log)
    <3>1. Before(c) \in Nat
      BY <1>6, BeforeFacts
    <3> QED
      BY <1>1, <2>4, <3>1
  <2> QED
    BY <1>6, <2>3, <2>4
<1> QED
  BY <1>4, <1>6, <1>7, <1>8 DEF c

-----------------------------------------------------------------------------
\* Segments one after the other.

\* FlattenSeq's recursion is a function, over any number of segments.
LEMMA FlattenExists ==
  ASSUME NEW g
  PROVE  \A n \in Nat : \E f : f = [i \in 1 .. n |-> IF i = 1 THEN g[i] ELSE f[i - 1] \o g[i]]
<1> DEFINE S == {n \in Nat : \E f : f = [i \in 1 .. n |-> IF i = 1 THEN g[i] ELSE f[i - 1] \o g[i]]}
<1>1. 0 \in S
  <2> DEFINE e == [i \in 1 .. 0 |-> 0]
  <2>1. e = [i \in 1 .. 0 |-> IF i = 1 THEN g[i] ELSE e[i - 1] \o g[i]]
    OBVIOUS
  <2> QED
    BY <2>1
<1>2. ASSUME NEW n \in Nat, n \in S  PROVE n + 1 \in S
  <2>1. PICK f : f = [i \in 1 .. n |-> IF i = 1 THEN g[i] ELSE f[i - 1] \o g[i]]
    BY <1>2
  <2> DEFINE h == [i \in 1 .. n + 1 |-> IF i <= n THEN f[i] ELSE IF i = 1 THEN g[i] ELSE f[i - 1] \o g[i]]
  <2>2. ASSUME NEW i \in 1 .. n + 1
        PROVE  h[i] = IF i = 1 THEN g[i] ELSE h[i - 1] \o g[i]
    <3>0. f = [k \in 1 .. n |-> IF k = 1 THEN g[k] ELSE f[k - 1] \o g[k]]
      BY <2>1
    <3>1. CASE i <= n
      <4>1. i \in 1 .. n
        BY <3>1
      <4>2. f[i] = IF i = 1 THEN g[i] ELSE f[i - 1] \o g[i]
        <5> HIDE DEF h
        <5>1. [k \in 1 .. n |-> IF k = 1 THEN g[k] ELSE f[k - 1] \o g[k]][i] = IF i = 1 THEN g[i] ELSE f[i - 1] \o g[i]
          BY <4>1
        <5> QED
          BY <3>0, <5>1, Zenon
      <4>3. i # 1 => i - 1 \in 1 .. n + 1 /\ i - 1 <= n
        BY <3>1
      <4> QED
        BY <3>1, <4>2, <4>3
    <3>2. CASE ~(i <= n)
      <4>1. i = n + 1
        BY <3>2
      <4>2. i # 1 => i - 1 \in 1 .. n + 1 /\ i - 1 <= n
        BY <4>1
      <4> QED
        BY <3>2, <4>1, <4>2
    <3> QED
      BY <3>1, <3>2
  <2>3. h = [i \in 1 .. n + 1 |-> IF i = 1 THEN g[i] ELSE h[i - 1] \o g[i]]
    <3>1. h = [i \in 1 .. n + 1 |-> h[i]]
      OBVIOUS
    <3> HIDE DEF h
    <3> QED
      BY <2>2, <3>1
  <2>4. \E q : q = [i \in 1 .. n + 1 |-> IF i = 1 THEN g[i] ELSE q[i - 1] \o g[i]]
    <3> HIDE DEF h
    <3> QED
      BY <2>3
  <2> QED
    BY <2>4, n + 1 \in Nat, Zenon
<1>3. \A n \in Nat : n \in S
  <2> HIDE DEF S
  <2> QED
    BY <1>1, <1>2, Induction
<1> QED
  BY <1>3


\* What FlattenSeq's recursion computes.
LEMMA FlattenIs ==
  ASSUME NEW g, NEW n \in Nat, Len(g) = n, n # 0
  PROVE  \E f : /\ f = [i \in 1 .. n |-> IF i = 1 THEN g[i] ELSE f[i - 1] \o g[i]]
                /\ FlattenSeq(g) = f[n]
<1> DEFINE f == CHOOSE f : f = [i \in 1 .. Len(g) |-> IF i = 1 THEN g[i] ELSE f[i - 1] \o g[i]]
<1>1. FlattenSeq(g) = f[Len(g)]
  BY DEF FlattenSeq
<1>2. \E h : h = [i \in 1 .. Len(g) |-> IF i = 1 THEN g[i] ELSE h[i - 1] \o g[i]]
  BY FlattenExists
<1>3. f = [i \in 1 .. Len(g) |-> IF i = 1 THEN g[i] ELSE f[i - 1] \o g[i]]
  BY <1>2, Zenon
<1> HIDE DEF f
<1> QED
  BY <1>1, <1>3, Zenon

Flattens(f, g, n) == f = [i \in 1 .. n |-> IF i = 1 THEN g[i] ELSE f[i - 1] \o g[i]]

\* It does not depend on the segments further on.
LEMMA FlattenAgrees ==
  ASSUME NEW g, NEW f, NEW h, NEW n \in Nat, NEW m \in Nat, n <= m,
         Flattens(f, g, n), Flattens(h, g, m)
  PROVE  \A i \in 1 .. n : f[i] = h[i]
<1> DEFINE S == {i \in Nat : i \in 1 .. n => f[i] = h[i]}
<1>0. ASSUME NEW i \in 1 .. n
      PROVE  /\ f[i] = IF i = 1 THEN g[i] ELSE f[i - 1] \o g[i]
             /\ h[i] = IF i = 1 THEN g[i] ELSE h[i - 1] \o g[i]
  <2>1. i \in 1 .. m
    OBVIOUS
  <2>2. [k \in 1 .. n |-> IF k = 1 THEN g[k] ELSE f[k - 1] \o g[k]][i]
          = IF i = 1 THEN g[i] ELSE f[i - 1] \o g[i]
    BY Zenon
  <2>3. [k \in 1 .. m |-> IF k = 1 THEN g[k] ELSE h[k - 1] \o g[k]][i]
          = IF i = 1 THEN g[i] ELSE h[i - 1] \o g[i]
    BY <2>1, Zenon
  <2> QED
    BY <2>2, <2>3, Zenon DEF Flattens
<1>1. 0 \in S
  OBVIOUS
<1>2. ASSUME NEW i \in Nat, i \in S  PROVE i + 1 \in S
  <2> SUFFICES ASSUME i + 1 \in 1 .. n  PROVE f[i + 1] = h[i + 1]
    OBVIOUS
  <2>1. /\ f[i + 1] = IF i + 1 = 1 THEN g[i + 1] ELSE f[(i + 1) - 1] \o g[i + 1]
        /\ h[i + 1] = IF i + 1 = 1 THEN g[i + 1] ELSE h[(i + 1) - 1] \o g[i + 1]
    BY <1>0
  <2>2. (i + 1) - 1 = i /\ (i + 1 # 1 => i \in 1 .. n)
    OBVIOUS
  <2>3. i + 1 # 1 => f[i] = h[i]
    BY <1>2, <2>2
  <2> QED
    BY <2>1, <2>2, <2>3, Zenon
<1>3. \A i \in Nat : i \in S
  <2> HIDE DEF S
  <2> QED
    BY <1>1, <1>2, Induction
<1>4. ASSUME NEW i \in 1 .. n  PROVE f[i] = h[i]
  <2>1. i \in Nat
    OBVIOUS
  <2> QED
    BY <1>3, <2>1
<1> QED
  BY <1>4

\* Reading the files in order appends each one's turns to those in front of it.
LEMMA ConcatenatedFacts ==
  ASSUME NEW f, NEW N \in Nat, \A s \in 1 .. N : f[s] \in Seq(Int)
  PROVE  /\ Concatenated(f, 0) = <<>>
         /\ \A n \in 0 .. N : Concatenated(f, n) \in Seq(Int)
         /\ \A n \in 0 .. N - 1 : Concatenated(f, n + 1) = Concatenated(f, n) \o f[n + 1]
<1> DEFINE g(n) == [s \in 1 .. n |-> f[s]]
<1>0. ASSUME NEW n \in 0 .. N  PROVE g(n) \in Seq(Seq(Int)) /\ Len(g(n)) = n
  <2>1. n \in Nat /\ g(n) \in [1 .. n -> Seq(Int)]
    <3>1. \A s \in 1 .. n : f[s] \in Seq(Int)
      OBVIOUS
    <3> QED
      BY <3>1
  <2>2. g(n) \in Seq(Seq(Int))
    BY <2>1, SeqDef
  <2>3. DOMAIN g(n) = 1 .. n /\ DOMAIN g(n) = 1 .. Len(g(n)) /\ Len(g(n)) \in Nat
    BY <2>1, <2>2, LenProperties
  <2> QED
    BY <2>1, <2>2, <2>3
<1>1. Concatenated(f, 0) = <<>>
  <2>1. g(0) \in Seq(Seq(Int)) /\ Len(g(0)) = 0
    BY <1>0
  <2>2. g(0) = <<>>
    BY <2>1, EmptySeq
  <2>3. Concatenated(f, 0) = g(0)
    <3> HIDE DEF g
    <3>1. FlattenSeq(g(0)) = g(0)
      BY <2>1 DEF FlattenSeq
    <3> QED
      BY <3>1 DEF Concatenated, g
  <2> QED
    BY <2>2, <2>3
<1>2. ASSUME NEW n \in 0 .. N - 1
      PROVE  Concatenated(f, n + 1) = Concatenated(f, n) \o f[n + 1]
  <2> DEFINE k == g(n + 1)
  <2>1. n + 1 \in Nat /\ Len(k) = n + 1 /\ n + 1 # 0 /\ n + 1 \in 1 .. N
    BY <1>0
  <2>2. PICK h : /\ h = [i \in 1 .. n + 1 |-> IF i = 1 THEN k[i] ELSE h[i - 1] \o k[i]]
                 /\ FlattenSeq(k) = h[n + 1]
    <3> HIDE DEF k
    <3> QED
      BY <2>1, FlattenIs
  <2>3. k[n + 1] = f[n + 1]
    BY <2>1
  <2>4. Concatenated(f, n + 1) = h[n + 1]
    BY <2>2 DEF Concatenated
  <2>5. h[n + 1] = IF n + 1 = 1 THEN k[n + 1] ELSE h[(n + 1) - 1] \o k[n + 1]
    <3>1. [i \in 1 .. n + 1 |-> IF i = 1 THEN k[i] ELSE h[i - 1] \o k[i]][n + 1]
            = IF n + 1 = 1 THEN k[n + 1] ELSE h[(n + 1) - 1] \o k[n + 1]
      <4>1. n + 1 \in 1 .. n + 1
        BY <2>1
      <4> HIDE DEF k
      <4> QED
        BY <4>1, Zenon
    <3> HIDE DEF k
    <3> QED
      BY <2>2, <3>1, Zenon
  <2>6. CASE n = 0
    <3>1. f[1] \in Seq(Int)
      BY <2>1, <2>6
    <3>2. <<>> \o f[1] = f[1]
      BY <3>1, ConcatEmptySeq
    <3>3. h[n + 1] = f[n + 1]
      BY <2>3, <2>5, <2>6
    <3> QED
      BY <1>1, <2>4, <2>6, <3>2, <3>3
  <2>7. CASE n # 0
    <3> DEFINE j == g(n)
    <3>1. n \in Nat /\ Len(j) = n
      BY <1>0
    <3>2. PICK q : /\ q = [i \in 1 .. n |-> IF i = 1 THEN j[i] ELSE q[i - 1] \o j[i]]
                   /\ FlattenSeq(j) = q[n]
      <4> HIDE DEF j
      <4> QED
        BY <2>7, <3>1, FlattenIs
    <3>3. q = [i \in 1 .. n |-> IF i = 1 THEN k[i] ELSE q[i - 1] \o k[i]]
      <4>1. \A i \in 1 .. n : j[i] = k[i]
        BY <3>1
      <4>2. [i \in 1 .. n |-> IF i = 1 THEN j[i] ELSE q[i - 1] \o j[i]]
              = [i \in 1 .. n |-> IF i = 1 THEN k[i] ELSE q[i - 1] \o k[i]]
        <5> HIDE DEF j, k
        <5> QED
          BY <4>1
      <4> HIDE DEF j, k
      <4> QED
        BY <3>2, <4>2, Zenon
    <3>4. q[n] = h[n]
      <4> HIDE DEF j, k
      <4>1. n <= n + 1 /\ n \in 1 .. n
        BY <2>7, <3>1
      <4> QED
        <5>1. Flattens(h, k, n + 1)
          BY <2>2 DEF Flattens
        <5>2. Flattens(q, k, n)
          BY <3>3 DEF Flattens
        <5>3. \A i \in 1 .. n : q[i] = h[i]
          BY <2>1, <3>1, <4>1, <5>1, <5>2, FlattenAgrees
        <5> QED
          BY <4>1, <5>3
    <3>5. Concatenated(f, n) = q[n]
      BY <3>2 DEF Concatenated
    <3>6. (n + 1) - 1 = n /\ n + 1 # 1
      BY <2>7
    <3> HIDE DEF k
    <3> QED
      BY <2>3, <2>4, <2>5, <3>4, <3>5, <3>6
  <2> QED
    BY <2>6, <2>7
<1>3. \A n \in 0 .. N : Concatenated(f, n) \in Seq(Int)
  <2> DEFINE S == {n \in Nat : n <= N => Concatenated(f, n) \in Seq(Int)}
  <2>1. 0 \in S
    <3>1. Concatenated(f, 0) \in Seq(Int)
      BY <1>1, EmptySeq
    <3> QED
      BY <3>1
  <2>2. ASSUME NEW n \in Nat, n \in S  PROVE n + 1 \in S
    <3> SUFFICES ASSUME n + 1 <= N  PROVE Concatenated(f, n + 1) \in Seq(Int)
      OBVIOUS
    <3>1. Concatenated(f, n) \in Seq(Int) /\ f[n + 1] \in Seq(Int)
      BY <2>2
    <3>2. Concatenated(f, n + 1) = Concatenated(f, n) \o f[n + 1]
      BY <1>2
    <3> QED
      BY <3>1, <3>2, ConcatProperties
  <2>3. \A n \in Nat : n \in S
    <3> HIDE DEF S
    <3> QED
      BY <2>1, <2>2, Induction
  <2> QED
    BY <2>3
<1> QED
  BY <1>1, <1>2, <1>3

-----------------------------------------------------------------------------
\* Prefixes.

\* IsPrefix, element by element.
LEMMA PrefixIs ==
  ASSUME NEW a \in Seq(Int), NEW b \in Seq(Int)
  PROVE  IsPrefix(a, b) <=> Len(a) <= Len(b) /\ \A i \in 1 .. Len(a) : a[i] = b[i]
<1>1. ASSUME Len(a) <= Len(b)
      PROVE  /\ SubSeq(b, 1, Len(a)) \in Seq(Int) /\ Len(SubSeq(b, 1, Len(a))) = Len(a)
             /\ \A i \in 1 .. Len(a) : SubSeq(b, 1, Len(a))[i] = b[i]
  BY <1>1
<1>2. SubSeq(a, 1, Len(a)) = a
  BY SubSeqFull
<1>3. ASSUME IsPrefix(a, b)  PROVE Len(a) <= Len(b) /\ \A i \in 1 .. Len(a) : a[i] = b[i]
  <2>1. Len(a) <= Len(b) /\ a = SubSeq(b, 1, Len(a))
    BY <1>2, <1>3 DEF IsPrefix
  <2>2. \A i \in 1 .. Len(a) : SubSeq(b, 1, Len(a))[i] = b[i]
    BY <1>1, <2>1
  <2> QED
    BY <2>1, <2>2, Zenon
<1>4. ASSUME Len(a) <= Len(b), \A i \in 1 .. Len(a) : a[i] = b[i]  PROVE IsPrefix(a, b)
  <2>1. \A i \in 1 .. Len(a) : SubSeq(b, 1, Len(a))[i] = a[i]
    BY <1>1, <1>4
  <2>2. SubSeq(b, 1, Len(a)) = a
    BY <1>1, <1>4, <2>1, SeqEqual
  <2> QED
    BY <1>2, <1>4, <2>2 DEF IsPrefix
<1> QED
  BY <1>3, <1>4

\* A prefix of a prefix is a prefix.
LEMMA PrefixTransitive ==
  ASSUME NEW a \in Seq(Int), NEW b \in Seq(Int), NEW c \in Seq(Int), IsPrefix(a, b), IsPrefix(b, c)
  PROVE  IsPrefix(a, c)
<1>1. Len(a) <= Len(b) /\ \A i \in 1 .. Len(a) : a[i] = b[i]
  BY PrefixIs
<1>2. Len(b) <= Len(c) /\ \A i \in 1 .. Len(b) : b[i] = c[i]
  BY PrefixIs
<1>3. Len(a) \in Nat /\ Len(b) \in Nat /\ Len(c) \in Nat
  OBVIOUS
<1>4. Len(a) <= Len(c) /\ \A i \in 1 .. Len(a) : a[i] = c[i]
  BY <1>1, <1>2, <1>3
<1> QED
  BY <1>4, PrefixIs

\* What a log is appended to stays its prefix.
LEMMA PrefixOfConcat ==
  ASSUME NEW a \in Seq(Int), NEW b \in Seq(Int)
  PROVE  IsPrefix(a, a \o b)
<1>1. /\ a \o b \in Seq(Int) /\ Len(a \o b) = Len(a) + Len(b)
      /\ \A i \in 1 .. Len(a) + Len(b) : (a \o b)[i] = IF i <= Len(a) THEN a[i] ELSE b[i - Len(a)]
  BY ConcatProperties
<1>2. Len(a) \in Nat /\ Len(b) \in Nat
  OBVIOUS
<1>3. Len(a) <= Len(a \o b) /\ \A i \in 1 .. Len(a) : a[i] = (a \o b)[i]
  BY <1>1, <1>2
<1> QED
  BY <1>1, <1>3, PrefixIs

\* Every log is a prefix of itself, and the empty one of every log.
LEMMA PrefixItself ==
  ASSUME NEW a \in Seq(Int)
  PROVE  IsPrefix(a, a) /\ IsPrefix(<<>>, a)
<1>1. Len(a) <= Len(a) /\ \A i \in 1 .. Len(a) : a[i] = a[i]
  OBVIOUS
<1>2. <<>> \in Seq(Int) /\ Len(<<>>) <= Len(a) /\ \A i \in 1 .. Len(<<>>) : <<>>[i] = a[i]
  <2>1. <<>> \in Seq(Int) /\ Len(<<>>) = 0 /\ Len(a) \in Nat
    BY EmptySeq
  <2> QED
    BY <2>1
<1>3. IsPrefix(a, a)
  BY <1>1, PrefixIs
<1>4. IsPrefix(<<>>, a)
  BY <1>2, PrefixIs
<1> QED
  BY <1>3, <1>4

\* The first n turns of a log are a prefix of it.
LEMMA SubSeqIs ==
  ASSUME NEW a \in Seq(Int), NEW n \in 0 .. Len(a)
  PROVE  /\ SubSeq(a, 1, n) \in Seq(Int) /\ Len(SubSeq(a, 1, n)) = n
         /\ \A i \in 1 .. n : SubSeq(a, 1, n)[i] = a[i]
         /\ IsPrefix(SubSeq(a, 1, n), a)
<1>1. /\ SubSeq(a, 1, n) \in Seq(Int) /\ Len(SubSeq(a, 1, n)) = n
      /\ \A i \in 1 .. n : SubSeq(a, 1, n)[i] = a[i]
  OBVIOUS
<1>2. /\ Len(SubSeq(a, 1, n)) <= Len(a)
      /\ \A i \in 1 .. Len(SubSeq(a, 1, n)) : SubSeq(a, 1, n)[i] = a[i]
  BY <1>1
<1>3. IsPrefix(SubSeq(a, 1, n), a)
  BY <1>1, <1>2, PrefixIs
<1> QED
  BY <1>1, <1>3

\* A prefix is the first elements.
LEMMA PrefixIsSubSeq ==
  ASSUME NEW a \in Seq(Int), NEW b \in Seq(Int), IsPrefix(a, b)
  PROVE  Len(a) \in 0 .. Len(b) /\ a = SubSeq(b, 1, Len(a))
<1>1. SubSeq(a, 1, Len(a)) = a
  BY SubSeqFull
<1> QED
  BY <1>1 DEF IsPrefix

\* Fewer files load as a prefix of what more of them load as.
LEMMA ConcatenatedGrows ==
  ASSUME NEW f, NEW N \in Nat, \A s \in 1 .. N : f[s] \in Seq(Int), NEW m \in 0 .. N
  PROVE  IsPrefix(Concatenated(f, m), Concatenated(f, N))
<1>0. /\ Concatenated(f, 0) = <<>>
      /\ \A n \in 0 .. N : Concatenated(f, n) \in Seq(Int)
      /\ \A n \in 0 .. N - 1 : Concatenated(f, n + 1) = Concatenated(f, n) \o f[n + 1]
  BY ConcatenatedFacts
<1> DEFINE S == {d \in Nat : m + d <= N => IsPrefix(Concatenated(f, m), Concatenated(f, m + d))}
<1>1. 0 \in S
  <2>1. Concatenated(f, m) \in Seq(Int)
    BY <1>0
  <2>2. m + 0 = m
    OBVIOUS
  <2>3. IsPrefix(Concatenated(f, m), Concatenated(f, m + 0))
    BY <2>1, <2>2, PrefixItself
  <2> QED
    BY <2>3
<1>2. ASSUME NEW d \in Nat, d \in S  PROVE d + 1 \in S
  <2> SUFFICES ASSUME m + (d + 1) <= N
               PROVE  IsPrefix(Concatenated(f, m), Concatenated(f, m + (d + 1)))
    OBVIOUS
  <2>1. m + d \in 0 .. N - 1 /\ m + (d + 1) = (m + d) + 1 /\ (m + d) + 1 \in 1 .. N
    OBVIOUS
  <2>2. Concatenated(f, (m + d) + 1) = Concatenated(f, m + d) \o f[(m + d) + 1]
    BY <2>1, <1>0
  <2>3. /\ Concatenated(f, m) \in Seq(Int) /\ Concatenated(f, m + d) \in Seq(Int)
        /\ Concatenated(f, (m + d) + 1) \in Seq(Int) /\ f[(m + d) + 1] \in Seq(Int)
    BY <2>1, <1>0
  <2>4. IsPrefix(Concatenated(f, m + d), Concatenated(f, (m + d) + 1))
    BY <2>2, <2>3, PrefixOfConcat
  <2>5. IsPrefix(Concatenated(f, m), Concatenated(f, m + d))
    BY <1>2, <2>1
  <2> QED
    BY <2>1, <2>3, <2>4, <2>5, PrefixTransitive
<1>3. \A d \in Nat : d \in S
  <2> HIDE DEF S
  <2> QED
    BY <1>1, <1>2, Induction
<1>4. N - m \in Nat /\ m + (N - m) = N
  OBVIOUS
<1> QED
  BY <1>3, <1>4

\* Equal files load as equal logs.
LEMMA ConcatenatedSame ==
  ASSUME NEW f, NEW g, NEW N \in Nat, \A s \in 1 .. N : f[s] = g[s]
  PROVE  Concatenated(f, N) = Concatenated(g, N)
<1>1. [s \in 1 .. N |-> f[s]] = [s \in 1 .. N |-> g[s]]
  OBVIOUS
<1> QED
  BY <1>1, Zenon DEF Concatenated

\* Every element of a log is in one of the files, the first ones in the base.
IsFrom(f, n, log) ==
  \A k \in 1 .. Len(log) :
    \E s \in 1 .. n : \E j \in 1 .. Len(f[s]) : log[k] = f[s][j] /\ (s = 1 => j = k)

\* Each turn of what the files load as is a turn of one of them, and in their order.
LEMMA ConcatenatedElement ==
  ASSUME NEW f, NEW N \in Nat, \A s \in 1 .. N : f[s] \in Seq(Int)
  PROVE  IsFrom(f, N, Concatenated(f, N))
<1>0. /\ Concatenated(f, 0) = <<>>
      /\ \A n \in 0 .. N : Concatenated(f, n) \in Seq(Int)
      /\ \A n \in 0 .. N - 1 : Concatenated(f, n + 1) = Concatenated(f, n) \o f[n + 1]
  BY ConcatenatedFacts
<1> DEFINE P(n) == \A k \in 1 .. Len(Concatenated(f, n)) :
                     \E s \in 1 .. n : \E j \in 1 .. Len(f[s]) :
                        Concatenated(f, n)[k] = f[s][j] /\ (s = 1 => j = k)
           S == {n \in Nat : n <= N => P(n)}
<1>1. 0 \in S
  <2>1. Len(Concatenated(f, 0)) = 0
    <3>1. Len(<<>>) = 0
      BY EmptySeq
    <3> QED
      BY <1>0, <3>1
  <2> QED
    BY <2>1
<1>2. ASSUME NEW n \in Nat, n \in S  PROVE n + 1 \in S
  <2> SUFFICES ASSUME n + 1 <= N, NEW k \in 1 .. Len(Concatenated(f, n + 1))
               PROVE  \E s \in 1 .. n + 1 : \E j \in 1 .. Len(f[s]) :
                         Concatenated(f, n + 1)[k] = f[s][j] /\ (s = 1 => j = k)
    OBVIOUS
  <2> DEFINE c == Concatenated(f, n)
             d == f[n + 1]
  <2>1. c \in Seq(Int) /\ d \in Seq(Int) /\ Concatenated(f, n + 1) = c \o d
    <3>1. n \in 0 .. N /\ n \in 0 .. N - 1 /\ n + 1 \in 1 .. N
      OBVIOUS
    <3> QED
      BY <1>0, <3>1
  <2>2. P(n)
    BY <1>2
  <2>3. n = 0 => Len(c) = 0
    <3>1. Len(<<>>) = 0
      BY EmptySeq
    <3> QED
      BY <1>0, <3>1
  <2> HIDE DEF c
  <2>4. /\ Len(c \o d) = Len(c) + Len(d)
        /\ \A q \in 1 .. Len(c) + Len(d) : (c \o d)[q] = IF q <= Len(c) THEN c[q] ELSE d[q - Len(c)]
    BY <2>1, ConcatProperties
  <2>5. Len(c) \in Nat /\ Len(d) \in Nat
    BY <2>1
  <2>6. CASE k <= Len(c)
    <3>1. k \in 1 .. Len(c) /\ (c \o d)[k] = c[k]
      BY <2>1, <2>4, <2>5, <2>6
    <3>2. PICK s \in 1 .. n : \E j \in 1 .. Len(f[s]) : c[k] = f[s][j] /\ (s = 1 => j = k)
      BY <2>2, <3>1 DEF c
    <3>3. s \in 1 .. n + 1
      BY <3>2
    <3> QED
      BY <2>1, <3>1, <3>2, <3>3
  <2>7. CASE ~(k <= Len(c))
    <3>1. k - Len(c) \in 1 .. Len(d) /\ (c \o d)[k] = d[k - Len(c)]
      BY <2>1, <2>4, <2>5, <2>7
    <3>2. n + 1 = 1 => k - Len(c) = k
      <4>1. n + 1 = 1 => n = 0
        OBVIOUS
      <4>2. k \in Int
        OBVIOUS
      <4> QED
        BY <2>3, <4>1, <4>2
    <3>3. n + 1 \in 1 .. n + 1
      OBVIOUS
    <3> QED
      BY <2>1, <3>1, <3>2, <3>3
  <2> QED
    BY <2>6, <2>7
<1>3. \A n \in Nat : n \in S
  <2> HIDE DEF S
  <2> QED
    BY <1>1, <1>2, Induction
<1>4. N \in S
  <2> HIDE DEF S
  <2> QED
    BY <1>3
<1>5. P(N)
  BY <1>4
<1> QED
  BY <1>5, Zenon DEF IsFrom

-----------------------------------------------------------------------------
\* A log in segments.

\* A chunk is the part of a log that a segment holds: full unless it is the last one.
LEMMA ChunkFacts ==
  ASSUME NEW log \in Seq(Int), NEW s \in 1 .. Chunks(log)
  PROVE  /\ Before(s) \in 0 .. Len(log)
         /\ Chunk(log, s) \in Seq(Int)
         /\ Len(Chunk(log, s)) = IF Before(s + 1) <= Len(log) THEN SegmentTurns ELSE Len(log) - Before(s)
         /\ Chunk(log, s) = SubSeq(log, Before(s) + 1, Before(s) + Len(Chunk(log, s)))
         /\ Len(Chunk(log, s)) <= SegmentTurns
         /\ Before(s) + Len(Chunk(log, s)) <= Len(log)
         /\ \A i \in 1 .. Len(Chunk(log, s)) : Chunk(log, s)[i] = log[Before(s) + i]
         /\ s < Chunks(log) => Before(s + 1) <= Len(log)
         /\ s = Chunks(log) => Before(s) + Len(Chunk(log, s)) = Len(log)
<1>1. /\ Chunks(log) \in Nat \ {0} /\ Len(log) <= Before(Chunks(log) + 1)
      /\ Before(Chunks(log)) <= Len(log)
  BY ChunksFacts
<1>2. s \in Nat \ {0} /\ Before(s) \in Nat /\ Before(s + 1) = Before(s) + SegmentTurns
  BY BeforeFacts, <1>1
<1>3. Len(log) \in Nat /\ SegmentTurns \in Nat \ {0}
  BY SegmentAssumption
<1>4. s < Chunks(log) => Before(s + 1) <= Len(log)
  <2> SUFFICES ASSUME s < Chunks(log)  PROVE Before(s + 1) <= Len(log)
    OBVIOUS
  <2>1. Before(s + 1) <= Before(Chunks(log))
    BY <1>1, <1>2, BeforeLess
  <2>2. Before(Chunks(log)) \in Nat
    BY <1>1, BeforeFacts
  <2> QED
    BY <1>1, <1>2, <1>3, <2>1, <2>2
<1>5. Before(s) <= Len(log)
  BY <1>1, <1>2, <1>3, <1>4
<1> DEFINE e == IF Before(s + 1) <= Len(log) THEN Before(s + 1) ELSE Len(log)
<1>6. Chunk(log, s) = SubSeq(log, Before(s) + 1, e)
  <2>1. Min({Before(s + 1), Len(log)}) = e
    BY <1>2, <1>3, MinOfTwo
  <2> QED
    BY <2>1 DEF Chunk
<1>7. e \in Before(s) .. Len(log) /\ e - Before(s) <= SegmentTurns
  BY <1>2, <1>3, <1>5
<1>8. s = Chunks(log) => e = Len(log)
  BY <1>1, <1>2, <1>3
<1> HIDE DEF e
<1>9. /\ SubSeq(log, Before(s) + 1, e) \in Seq(Int)
      /\ Len(SubSeq(log, Before(s) + 1, e)) = e - Before(s)
      /\ \A i \in 1 .. e - Before(s) : SubSeq(log, Before(s) + 1, e)[i] = log[Before(s) + i]
  <2>1. \A i \in Before(s) + 1 .. e : log[i] \in Int
    BY <1>2, <1>3, <1>7
  <2>2. Before(s) + 1 \in Int /\ e \in Int
    BY <1>2, <1>3, <1>7
  <2>3. /\ SubSeq(log, Before(s) + 1, e) \in Seq(Int)
        /\ Len(SubSeq(log, Before(s) + 1, e)) = IF Before(s) + 1 <= e THEN e - (Before(s) + 1) + 1 ELSE 0
        /\ \A i \in 1 .. e - (Before(s) + 1) + 1 :
              SubSeq(log, Before(s) + 1, e)[i] = log[(Before(s) + 1) + i - 1]
    BY <2>1, <2>2, SubSeqProperties
  <2>4. /\ e - (Before(s) + 1) + 1 = e - Before(s)
        /\ (IF Before(s) + 1 <= e THEN e - (Before(s) + 1) + 1 ELSE 0) = e - Before(s)
        /\ \A i \in 1 .. e - Before(s) : (Before(s) + 1) + i - 1 = Before(s) + i
    BY <1>2, <1>3, <1>7
  <2> QED
    BY <2>3, <2>4
<1>10. Len(Chunk(log, s)) = e - Before(s) /\ Before(s) + Len(Chunk(log, s)) = e
  BY <1>2, <1>3, <1>6, <1>7, <1>9
<1>11. Len(Chunk(log, s)) = IF Before(s + 1) <= Len(log) THEN SegmentTurns ELSE Len(log) - Before(s)
  BY <1>2, <1>3, <1>10 DEF e
<1>12. /\ Chunk(log, s) \in Seq(Int)
       /\ \A i \in 1 .. Len(Chunk(log, s)) : Chunk(log, s)[i] = log[Before(s) + i]
  BY <1>6, <1>9, <1>10
<1>13. Chunk(log, s) = SubSeq(log, Before(s) + 1, Before(s) + Len(Chunk(log, s)))
  BY <1>6, <1>10
<1>14. Before(s) \in 0 .. Len(log) /\ Len(Chunk(log, s)) <= SegmentTurns /\ Before(s) + Len(Chunk(log, s)) <= Len(log)
  BY <1>2, <1>3, <1>5, <1>7, <1>10
<1>15. s = Chunks(log) => Before(s) + Len(Chunk(log, s)) = Len(log)
  BY <1>8, <1>10
<1> QED
  BY <1>4, <1>11, <1>12, <1>13, <1>14, <1>15

\* The first segments of a log hold its first turns.
LEMMA ConcatenatedChunks ==
  ASSUME NEW log \in Seq(Int), NEW f, NEW n \in 0 .. Chunks(log),
         \A s \in 1 .. n : f[s] = Chunk(log, s)
  PROVE  /\ n < Chunks(log) => Before(n + 1) \in 0 .. Len(log) /\ Concatenated(f, n) = SubSeq(log, 1, Before(n + 1))
         /\ n = Chunks(log) => Concatenated(f, n) = log
<1> DEFINE E(m) == IF m < Chunks(log) THEN Before(m + 1) ELSE Len(log)
           S == {m \in Nat : m <= n => E(m) \in 0 .. Len(log) /\ Concatenated(f, m) = SubSeq(log, 1, E(m))}
<1>1. Chunks(log) \in Nat \ {0} /\ Len(log) \in Nat
  BY ChunksFacts
<1>2. ASSUME NEW s \in 1 .. n  PROVE f[s] \in Seq(Int)
  <2>1. s \in 1 .. Chunks(log) /\ f[s] = Chunk(log, s)
    BY <1>1
  <2>2. Chunk(log, s) \in Seq(Int)
    BY <2>1, ChunkFacts
  <2> QED
    BY <2>1, <2>2
<1>3. /\ Concatenated(f, 0) = <<>>
      /\ \A m \in 0 .. n - 1 : Concatenated(f, m + 1) = Concatenated(f, m) \o f[m + 1]
  <2>1. n \in Nat
    BY <1>1
  <2> QED
    BY <1>2, <2>1, ConcatenatedFacts
<1>4. 0 \in S
  <2>1. E(0) = 0
    BY <1>1, BeforeFacts
  <2>2. SubSeq(log, 1, 0) = <<>>
    BY SubSeqEmpty
  <2>3. E(0) \in 0 .. Len(log) /\ Concatenated(f, 0) = SubSeq(log, 1, E(0))
    <3>1. 0 \in 0 .. Len(log)
      BY <1>1
    <3>2. Concatenated(f, 0) = SubSeq(log, 1, 0)
      BY <1>3, <2>2
    <3> HIDE DEF E
    <3> QED
      BY <2>1, <3>1, <3>2, Zenon
  <2> HIDE DEF E
  <2> QED
    BY <2>3
<1>5. ASSUME NEW m \in Nat, m \in S  PROVE m + 1 \in S
  <2> SUFFICES ASSUME m + 1 <= n
               PROVE  E(m + 1) \in 0 .. Len(log) /\ Concatenated(f, m + 1) = SubSeq(log, 1, E(m + 1))
    OBVIOUS
  <2> DEFINE s == m + 1
  <2>1. s \in 1 .. Chunks(log) /\ s \in 1 .. n /\ m < Chunks(log) /\ m \in 0 .. n - 1
    BY <1>1
  <2> HIDE DEF s
  <2>2. /\ Before(s) \in 0 .. Len(log)
        /\ Chunk(log, s) = SubSeq(log, Before(s) + 1, Before(s) + Len(Chunk(log, s)))
        /\ Before(s) + Len(Chunk(log, s)) <= Len(log)
        /\ Len(Chunk(log, s)) = IF Before(s + 1) <= Len(log) THEN SegmentTurns ELSE Len(log) - Before(s)
        /\ s < Chunks(log) => Before(s + 1) <= Len(log)
        /\ s = Chunks(log) => Before(s) + Len(Chunk(log, s)) = Len(log)
        /\ Len(Chunk(log, s)) \in Nat
    BY <2>1, ChunkFacts, LenProperties
  <2>3. s \in Nat \ {0} /\ Before(s + 1) = Before(s) + SegmentTurns
    BY <1>1, <2>1, BeforeFacts, SMTT(60)
  <2>4. E(s) = Before(s) + Len(Chunk(log, s)) /\ E(s) \in 0 .. Len(log)
    BY <1>1, <2>1, <2>2, <2>3, SegmentAssumption, SMTT(60)
  <2>5. Concatenated(f, m) = SubSeq(log, 1, Before(s))
    <3>1. E(m) = Before(s)
      BY <2>1 DEF s
    <3> HIDE DEF E
    <3>2. m <= n
      BY <1>1, <2>1
    <3> QED
      BY <1>5, <3>1, <3>2
  <2>6. Concatenated(f, s) = SubSeq(log, 1, Before(s)) \o SubSeq(log, Before(s) + 1, E(s))
    <3>1. Concatenated(f, s) = Concatenated(f, m) \o f[s]
      BY <1>3, <2>1 DEF s
    <3>2. f[s] = Chunk(log, s)
      BY <2>1
    <3> HIDE DEF E
    <3> QED
      BY <2>2, <2>4, <2>5, <3>1, <3>2
  <2>7. 1 \in 1 .. Len(log) + 1 /\ Before(s) \in 1 - 1 .. Len(log) /\ E(s) \in Before(s) .. Len(log)
    <3> HIDE DEF E
    <3> QED
      BY <1>1, <2>2, <2>4, SMTT(60)
  <2>8. Concatenated(f, s) = SubSeq(log, 1, E(s))
    <3> HIDE DEF E
    <3> QED
      BY <2>6, <2>7, ConcatAdjacentSubSeq
  <2> QED
    BY <2>4, <2>8 DEF s
<1>6. \A m \in Nat : m \in S
  <2> HIDE DEF S
  <2> QED
    BY <1>4, <1>5, Induction
<1>7. E(n) \in 0 .. Len(log) /\ Concatenated(f, n) = SubSeq(log, 1, E(n))
  <2>1. n \in Nat /\ n \in S /\ n <= n
    BY <1>1, <1>6
  <2> HIDE DEF E
  <2> QED
    BY <2>1
<1>8. SubSeq(log, 1, Len(log)) = log
  BY SubSeqFull
<1> QED
  BY <1>1, <1>7, <1>8

\* With a last segment that goes further than its part of the log.
LEMMA ConcatenatedBegun ==
  ASSUME NEW log \in Seq(Int), NEW f,
         \A s \in 1 .. Chunks(log) - 1 : f[s] = Chunk(log, s),
         f[Chunks(log)] \in Seq(Int), IsPrefix(Chunk(log, Chunks(log)), f[Chunks(log)])
  PROVE  Concatenated(f, Chunks(log)) \in Seq(Int) /\ IsPrefix(log, Concatenated(f, Chunks(log)))
<1> DEFINE C == Chunks(log)
           B == Before(C)
<1>1. C \in Nat \ {0} /\ Len(log) \in Nat /\ C - 1 \in 0 .. Chunks(log) /\ C - 1 < C /\ (C - 1) + 1 = C
  BY ChunksFacts
<1> HIDE DEF C
<1>2. B \in 0 .. Len(log) /\ Concatenated(f, C - 1) = SubSeq(log, 1, B)
  BY <1>1, ConcatenatedChunks DEF C
<1>3. /\ Chunk(log, C) \in Seq(Int) /\ B + Len(Chunk(log, C)) = Len(log)
      /\ \A i \in 1 .. Len(Chunk(log, C)) : Chunk(log, C)[i] = log[B + i]
  <2>1. C \in 1 .. Chunks(log) /\ C = Chunks(log)
    BY <1>1 DEF C
  <2> QED
    BY <2>1, ChunkFacts
<1>4. ASSUME NEW s \in 1 .. C  PROVE f[s] \in Seq(Int)
  <2>1. CASE s = C
    BY <2>1 DEF C
  <2>2. CASE s # C
    <3>1. s \in 1 .. Chunks(log) - 1 /\ s \in 1 .. Chunks(log)
      BY <1>1, <2>2 DEF C
    <3>2. Chunk(log, s) \in Seq(Int)
      BY <3>1, ChunkFacts
    <3> QED
      BY <3>1, <3>2
  <2> QED
    BY <2>1, <2>2
<1>5. /\ Concatenated(f, C) \in Seq(Int)
      /\ Concatenated(f, C) = Concatenated(f, C - 1) \o f[C]
  <2>1. C \in Nat /\ C - 1 \in 0 .. C - 1 /\ C \in 0 .. C
    BY <1>1
  <2>2. /\ \A n \in 0 .. C : Concatenated(f, n) \in Seq(Int)
        /\ \A n \in 0 .. C - 1 : Concatenated(f, n + 1) = Concatenated(f, n) \o f[n + 1]
    BY <1>4, <2>1, ConcatenatedFacts
  <2> QED
    BY <1>1, <2>1, <2>2
<1> HIDE DEF B
<1>6. /\ SubSeq(log, 1, B) \in Seq(Int) /\ Len(SubSeq(log, 1, B)) = B
      /\ \A i \in 1 .. B : SubSeq(log, 1, B)[i] = log[i]
  BY <1>2, SubSeqIs
<1>7. /\ Len(Chunk(log, C)) <= Len(f[C])
      /\ \A i \in 1 .. Len(Chunk(log, C)) : Chunk(log, C)[i] = f[C][i]
  BY <1>3, PrefixIs DEF C
<1> DEFINE a == SubSeq(log, 1, B)
           b == f[C]
<1>8. a \in Seq(Int) /\ b \in Seq(Int) /\ Concatenated(f, C) = a \o b
  BY <1>2, <1>5, <1>6 DEF C
<1>9. /\ Len(a \o b) = Len(a) + Len(b)
      /\ \A i \in 1 .. Len(a) + Len(b) : (a \o b)[i] = IF i <= Len(a) THEN a[i] ELSE b[i - Len(a)]
  BY <1>8, ConcatProperties
<1>10. Len(a) = B /\ Len(b) \in Nat /\ Len(Chunk(log, C)) \in Nat
  BY <1>3, <1>6, <1>8
<1>11. ASSUME NEW i \in 1 .. Len(log)  PROVE log[i] = (a \o b)[i]
  <2>1. i \in 1 .. Len(a) + Len(b)
    <3>1. Len(Chunk(log, C)) <= Len(b)
      BY <1>7
    <3> HIDE DEF a, b
    <3> QED
      BY <1>1, <1>2, <1>3, <1>10, <3>1
  <2>2. CASE i <= B
    BY <1>2, <1>6, <1>9, <1>10, <2>1, <2>2
  <2>3. CASE ~(i <= B)
    <3>1. i - B \in 1 .. Len(Chunk(log, C)) /\ B + (i - B) = i
      BY <1>1, <1>2, <1>3, <1>10, <2>3
    <3>2. b[i - B] = log[i]
      BY <1>3, <1>7, <3>1
    <3> HIDE DEF a, b
    <3> QED
      BY <1>9, <1>10, <2>1, <2>3, <3>2
  <2> QED
    BY <2>2, <2>3
<1>12. Len(log) <= Len(a \o b)
  <2> HIDE DEF a, b
  <2>1. Len(Chunk(log, C)) <= Len(b)
    BY <1>7 DEF b
  <2> QED
    BY <1>1, <1>2, <1>3, <1>9, <1>10, <2>1
<1>13. IsPrefix(log, a \o b)
  <2> HIDE DEF a, b
  <2>1. a \o b \in Seq(Int)
    BY <1>8, ConcatProperties
  <2> QED
    BY <1>11, <1>12, <2>1, PrefixIs
<1> QED
  BY <1>5, <1>8, <1>13 DEF C

\* With a last segment that is not written to its end.
LEMMA ConcatenatedCut ==
  ASSUME NEW log \in Seq(Int), NEW f, NEW c \in 1 .. Chunks(log),
         \A s \in 1 .. c - 1 : f[s] = Chunk(log, s),
         f[c] \in Seq(Int), IsPrefix(f[c], Chunk(log, c))
  PROVE  Concatenated(f, c) \in Seq(Int) /\ IsPrefix(Concatenated(f, c), log)
<1> DEFINE B == Before(c)
<1>1. Chunks(log) \in Nat \ {0} /\ c \in Nat \ {0} /\ c - 1 \in 0 .. Chunks(log) /\ c - 1 < Chunks(log) /\ (c - 1) + 1 = c
  BY ChunksFacts
<1>2. B \in 0 .. Len(log) /\ Concatenated(f, c - 1) = SubSeq(log, 1, B)
  <2> DEFINE n == c - 1
  <2>1. n \in 0 .. Chunks(log) /\ n < Chunks(log) /\ n + 1 = c /\ \A s \in 1 .. n : f[s] = Chunk(log, s)
    BY <1>1
  <2> HIDE DEF n
  <2>2. Before(n + 1) \in 0 .. Len(log) /\ Concatenated(f, n) = SubSeq(log, 1, Before(n + 1))
    BY <2>1, ConcatenatedChunks
  <2> QED
    BY <2>1, <2>2 DEF n
<1>3. /\ Chunk(log, c) \in Seq(Int) /\ B + Len(Chunk(log, c)) <= Len(log)
      /\ \A i \in 1 .. Len(Chunk(log, c)) : Chunk(log, c)[i] = log[B + i]
  BY ChunkFacts
<1>4. ASSUME NEW s \in 1 .. c  PROVE f[s] \in Seq(Int)
  <2>1. CASE s = c
    BY <2>1
  <2>2. CASE s # c
    <3>1. s \in 1 .. c - 1 /\ s \in 1 .. Chunks(log)
      BY <1>1, <2>2
    <3>2. Chunk(log, s) \in Seq(Int)
      BY <3>1, ChunkFacts
    <3> QED
      BY <3>1, <3>2
  <2> QED
    BY <2>1, <2>2
<1>5. /\ Concatenated(f, c) \in Seq(Int)
      /\ Concatenated(f, c) = Concatenated(f, c - 1) \o f[c]
  <2>1. c \in Nat /\ c - 1 \in 0 .. c - 1 /\ c \in 0 .. c
    BY <1>1
  <2>2. /\ \A n \in 0 .. c : Concatenated(f, n) \in Seq(Int)
        /\ \A n \in 0 .. c - 1 : Concatenated(f, n + 1) = Concatenated(f, n) \o f[n + 1]
    BY <1>4, <2>1, ConcatenatedFacts
  <2> QED
    BY <1>1, <2>1, <2>2
<1> HIDE DEF B
<1>6. /\ SubSeq(log, 1, B) \in Seq(Int) /\ Len(SubSeq(log, 1, B)) = B
      /\ \A i \in 1 .. B : SubSeq(log, 1, B)[i] = log[i]
  BY <1>2, SubSeqIs
<1>7. /\ Len(f[c]) <= Len(Chunk(log, c))
      /\ \A i \in 1 .. Len(f[c]) : f[c][i] = Chunk(log, c)[i]
  BY <1>3, PrefixIs
<1> DEFINE a == SubSeq(log, 1, B)
           b == f[c]
<1>8. a \in Seq(Int) /\ b \in Seq(Int) /\ Concatenated(f, c) = a \o b
  BY <1>2, <1>5, <1>6
<1>9. /\ Len(a \o b) = Len(a) + Len(b)
      /\ \A i \in 1 .. Len(a) + Len(b) : (a \o b)[i] = IF i <= Len(a) THEN a[i] ELSE b[i - Len(a)]
  BY <1>8, ConcatProperties
<1>10. Len(a) = B /\ Len(b) \in Nat /\ Len(Chunk(log, c)) \in Nat /\ Len(log) \in Nat
  BY <1>3, <1>6, <1>8
<1>11. ASSUME NEW i \in 1 .. Len(a \o b)  PROVE (a \o b)[i] = log[i]
  <2>1. i \in 1 .. Len(a) + Len(b)
    <3> HIDE DEF a, b
    <3> QED
      BY <1>9
  <2>2. CASE i <= B
    BY <1>2, <1>6, <1>9, <1>10, <2>1, <2>2
  <2>3. CASE ~(i <= B)
    <3>1. i - B \in 1 .. Len(b) /\ i - B \in 1 .. Len(Chunk(log, c)) /\ B + (i - B) = i
      <4>1. Len(b) <= Len(Chunk(log, c))
        BY <1>7
      <4> HIDE DEF a, b
      <4> QED
        BY <1>2, <1>10, <2>1, <2>3, <4>1
    <3>2. b[i - B] = log[i]
      BY <1>3, <1>7, <3>1
    <3> HIDE DEF a, b
    <3> QED
      BY <1>9, <1>10, <2>1, <2>3, <3>2
  <2> QED
    BY <2>2, <2>3
<1>12. Len(a \o b) <= Len(log)
  <2>1. Len(b) <= Len(Chunk(log, c))
    BY <1>7
  <2> HIDE DEF a, b
  <2> QED
    BY <1>2, <1>3, <1>9, <1>10, <2>1
<1>13. IsPrefix(a \o b, log)
  <2> HIDE DEF a, b
  <2>1. a \o b \in Seq(Int)
    BY <1>8, ConcatProperties
  <2> QED
    BY <1>11, <1>12, <2>1, PrefixIs
<1> QED
  BY <1>5, <1>8, <1>13

-----------------------------------------------------------------------------
\* What a load finds.  The operators of TurnLog that look at callOf, with it as a
\* parameter: they are the same functions before and after a step.

Formed(calls, log) ==
  LET tools == {i \in DOMAIN log : log[i] > 0 /\ calls[log[i]] # 0}
      isCall(turn) == calls[turn] = turn
  IN  /\ \A i, j \in tools :
           calls[log[i]] = calls[log[j]] /\ isCall(log[i]) = isCall(log[j]) => i = j
      /\ \A i \in tools : \E j \in 1 .. i : log[j] = calls[log[i]]
KeptOf(calls, files) ==
  Max({0} \union {n \in 1 .. Contiguous(files) : n = 1 \/ Formed(calls, Concatenated(files, n))})
LoadedOf(calls, files) == Concatenated(files, KeptOf(calls, files))

\* The operators of load() are the ones restated with the turns' calls as a parameter,
\* with which a proof speaks of them before and after a turn is added.
LEMMA LoadIs ==
  /\ \A log : WellFormed(log) <=> Formed(callOf, log)
  /\ \A files : KeptSegments(files) = KeptOf(callOf, files) /\ Loaded(files) = LoadedOf(callOf, files)
<1>1. ASSUME NEW log  PROVE WellFormed(log) <=> Formed(callOf, log)
  BY Zenon DEF WellFormed, Tools, IsCall, Formed
<1>2. ASSUME NEW files  PROVE KeptSegments(files) = KeptOf(callOf, files)
  <2>1. {n \in 1 .. Contiguous(files) : n = 1 \/ WellFormed(Concatenated(files, n))}
          = {n \in 1 .. Contiguous(files) : n = 1 \/ Formed(callOf, Concatenated(files, n))}
    BY <1>1
  <2> QED
    BY <2>1 DEF KeptSegments, KeptOf
<1>3. ASSUME NEW files  PROVE Loaded(files) = LoadedOf(callOf, files)
  BY <1>2 DEF Loaded, LoadedOf
<1> QED
  BY <1>1, <1>2, <1>3

\* Turn i of a log is a call or a result.
IsTool(calls, log, i) == log[i] > 0 /\ calls[log[i]] # 0

\* A well-formed log, by the positions of its turns.
LEMMA FormedIs ==
  ASSUME NEW calls, NEW log \in Seq(Int)
  PROVE  Formed(calls, log) <=>
           /\ \A i, j \in 1 .. Len(log) :
                 /\ IsTool(calls, log, i) /\ IsTool(calls, log, j)
                 /\ calls[log[i]] = calls[log[j]]
                 /\ (calls[log[i]] = log[i]) <=> (calls[log[j]] = log[j])
                 => i = j
           /\ \A i \in 1 .. Len(log) :
                 IsTool(calls, log, i) => \E j \in 1 .. i : log[j] = calls[log[i]]
<1>1. DOMAIN log = 1 .. Len(log)
  OBVIOUS
<1> QED
  BY <1>1 DEF Formed, IsTool

\* The turns in front of any point of a well-formed log are well formed.
LEMMA FormedPrefix ==
  ASSUME NEW calls, NEW a \in Seq(Int), NEW b \in Seq(Int), IsPrefix(a, b), Formed(calls, b)
  PROVE  Formed(calls, a)
<1>1. Len(a) <= Len(b) /\ \A i \in 1 .. Len(a) : a[i] = b[i]
  BY PrefixIs
<1>2. Len(a) \in Nat /\ Len(b) \in Nat
  OBVIOUS
<1>3. \A i \in 1 .. Len(a) : i \in 1 .. Len(b) /\ (IsTool(calls, a, i) <=> IsTool(calls, b, i))
  BY <1>1, <1>2 DEF IsTool
<1>4. ASSUME NEW i \in 1 .. Len(a), NEW j \in 1 .. Len(a),
             IsTool(calls, a, i), IsTool(calls, a, j), calls[a[i]] = calls[a[j]],
             (calls[a[i]] = a[i]) <=> (calls[a[j]] = a[j])
      PROVE  i = j
  <2>1. a[i] = b[i] /\ a[j] = b[j]
    BY <1>1
  <2>2. /\ IsTool(calls, b, i) /\ IsTool(calls, b, j) /\ calls[b[i]] = calls[b[j]]
        /\ (calls[b[i]] = b[i]) <=> (calls[b[j]] = b[j])
    BY <1>3, <1>4, <2>1
  <2> QED
    BY <1>3, <2>2, FormedIs
<1>5. ASSUME NEW i \in 1 .. Len(a), IsTool(calls, a, i)
      PROVE  \E j \in 1 .. i : a[j] = calls[a[i]]
  <2>1. a[i] = b[i] /\ i \in 1 .. Len(b) /\ IsTool(calls, b, i)
    BY <1>1, <1>3, <1>5
  <2>2. PICK j \in 1 .. i : b[j] = calls[b[i]]
    BY <2>1, FormedIs
  <2>3. a[j] = b[j]
    BY <1>1, <1>2, <2>2
  <2> QED
    BY <2>1, <2>2, <2>3
<1> QED
  BY <1>4, <1>5, FormedIs

\* The turns a log may name when n have been produced; a summary only comes first.
Entries(log, n) ==
  /\ log \in Seq(Int)
  /\ \A i \in 1 .. Len(log) : /\ log[i] # 0 /\ -n <= log[i] /\ log[i] <= n
                              /\ log[i] < 0 => i = 1
CallsOK(calls) ==
  /\ calls \in Seq(Nat)
  /\ \A t \in 1 .. Len(calls) : calls[t] <= t /\ (calls[t] # 0 => calls[calls[t]] = calls[t])

\* Another turn leaves the logs as they are.
LEMMA FormedLater ==
  ASSUME NEW calls, CallsOK(calls), NEW call \in Nat, NEW log, Entries(log, Len(calls)),
         Formed(calls, log)
  PROVE  Entries(log, Len(calls) + 1) /\ Formed(Append(calls, call), log)
<1> DEFINE next == Append(calls, call)
<1>1. calls \in Seq(Nat) /\ log \in Seq(Int) /\ Len(calls) \in Nat /\ Len(log) \in Nat
  BY DEF CallsOK, Entries
<1>2. \A t \in 1 .. Len(calls) : next[t] = calls[t]
  BY <1>1, AppendProperties
<1>3. ASSUME NEW i \in 1 .. Len(log)
      PROVE  log[i] > 0 => next[log[i]] = calls[log[i]]
  <2>1. log[i] \in Int /\ log[i] <= Len(calls)
    BY <1>1 DEF Entries
  <2> HIDE DEF next
  <2> QED
    BY <1>1, <1>2, <2>1
<1> HIDE DEF next
<1>4. \A i \in 1 .. Len(log) : IsTool(calls, log, i) <=> IsTool(next, log, i)
  BY <1>3 DEF IsTool
<1>5. ASSUME NEW i \in 1 .. Len(log), NEW j \in 1 .. Len(log),
             IsTool(next, log, i), IsTool(next, log, j), next[log[i]] = next[log[j]],
             (next[log[i]] = log[i]) <=> (next[log[j]] = log[j])
      PROVE  i = j
  <2>1. next[log[i]] = calls[log[i]] /\ next[log[j]] = calls[log[j]]
    BY <1>3, <1>5 DEF IsTool
  <2>2. IsTool(calls, log, i) /\ IsTool(calls, log, j)
    BY <1>4, <1>5
  <2> QED
    BY <1>1, <1>5, <2>1, <2>2, FormedIs
<1>6. ASSUME NEW i \in 1 .. Len(log), IsTool(next, log, i)
      PROVE  \E j \in 1 .. i : log[j] = next[log[i]]
  <2>1. next[log[i]] = calls[log[i]] /\ IsTool(calls, log, i)
    BY <1>3, <1>4, <1>6 DEF IsTool
  <2> QED
    BY <1>1, <2>1, FormedIs
<1>7. Formed(next, log)
  BY <1>1, <1>5, <1>6, FormedIs
<1>8. Entries(log, Len(calls) + 1)
  BY <1>1 DEF Entries
<1> QED
  BY <1>7, <1>8 DEF next

\* A new call, or the first answer to a call of the log, keeps a log well formed.
LEMMA FormedAppended ==
  ASSUME NEW calls, CallsOK(calls), NEW log, Entries(log, Len(calls)), Formed(calls, log),
         NEW call \in Nat, call <= Len(calls) + 1,
         \/ call = 0 \/ call = Len(calls) + 1
         \/ /\ \E i \in 1 .. Len(log) : log[i] = call
            /\ \A i \in 1 .. Len(log) : log[i] > 0 /\ calls[log[i]] = call => log[i] = call
            /\ call \in 1 .. Len(calls) /\ calls[call] = call
  PROVE  /\ CallsOK(Append(calls, call))
         /\ Entries(Append(log, Len(calls) + 1), Len(calls) + 1)
         /\ Formed(Append(calls, call), Append(log, Len(calls) + 1))
<1> DEFINE n == Len(calls) + 1
           next == Append(calls, call)
           new == Append(log, n)
           m == Len(log) + 1
<1>1. calls \in Seq(Nat) /\ log \in Seq(Int) /\ Len(calls) \in Nat /\ Len(log) \in Nat /\ n \in Int
  BY DEF CallsOK, Entries
<1>2. /\ next \in Seq(Nat) /\ Len(next) = n /\ next[n] = call
      /\ \A t \in 1 .. Len(calls) : next[t] = calls[t]
  BY <1>1, AppendProperties
<1>3. /\ new \in Seq(Int) /\ Len(new) = m /\ new[m] = n
      /\ \A i \in 1 .. Len(log) : new[i] = log[i]
  <2> HIDE DEF n
  <2> QED
    BY <1>1, AppendProperties
<1> HIDE DEF next, new
<1>4. CallsOK(next)
  <2>1. ASSUME NEW t \in 1 .. Len(next)
        PROVE  next[t] <= t /\ (next[t] # 0 => next[next[t]] = next[t])
    <3>1. CASE t = n
      BY <1>1, <1>2, <3>1
    <3>2. CASE t # n
      <4>1. t \in 1 .. Len(calls)
        BY <1>1, <1>2, <3>2
      <4>2. next[t] = calls[t] /\ calls[t] \in Nat /\ calls[t] <= t
        BY <1>1, <1>2, <4>1, SMTT(60) DEF CallsOK
      <4>3. calls[t] # 0 => calls[t] \in 1 .. Len(calls) /\ calls[calls[t]] = calls[t]
        BY <1>1, <4>1, <4>2, SMTT(60) DEF CallsOK
      <4> QED
        BY <1>2, <4>2, <4>3
    <3> QED
      BY <3>1, <3>2
  <2> QED
    BY <1>2, <2>1 DEF CallsOK
<1>5. Entries(new, n)
  <2>1. ASSUME NEW i \in 1 .. Len(new)
        PROVE  new[i] # 0 /\ -n <= new[i] /\ new[i] <= n /\ (new[i] < 0 => i = 1)
    <3>1. CASE i = m
      BY <1>1, <1>3, <3>1, SMTT(60)
    <3>2. CASE i # m
      <4>1. i \in 1 .. Len(log) /\ new[i] = log[i] /\ log[i] \in Int
        BY <1>1, <1>3, <3>2, SMTT(60)
      <4> QED
        BY <1>1, <4>1, SMTT(60) DEF Entries
    <3> QED
      BY <3>1, <3>2
  <2> QED
    BY <1>3, <2>1 DEF Entries
<1>6. ASSUME NEW i \in 1 .. Len(log)
      PROVE  /\ i \in 1 .. m /\ i # m /\ new[i] = log[i] /\ log[i] \in Int /\ log[i] # n
             /\ IsTool(next, new, i) <=> IsTool(calls, log, i)
             /\ log[i] > 0 => next[log[i]] = calls[log[i]] /\ calls[log[i]] \in Nat /\ calls[log[i]] <= log[i]
  <2>1. i \in 1 .. m /\ i # m /\ new[i] = log[i] /\ log[i] \in Int /\ log[i] <= Len(calls)
    <3>1. log[i] \in Int /\ log[i] <= Len(calls)
      BY <1>1 DEF Entries
    <3>2. new[i] = log[i]
      BY <1>3
    <3>3. i \in 1 .. m /\ i # m
      BY <1>1
    <3> QED
      BY <3>1, <3>2, <3>3
  <2>2. log[i] > 0 => log[i] \in 1 .. Len(calls)
    BY <1>1, <2>1
  <2>3. log[i] > 0 => next[log[i]] = calls[log[i]] /\ calls[log[i]] \in Nat /\ calls[log[i]] <= log[i]
    BY <1>1, <1>2, <2>2, SMTT(60) DEF CallsOK
  <2> QED
    BY <1>1, <2>1, <2>3 DEF IsTool
<1>7. ASSUME NEW i \in 1 .. Len(new)  PROVE i = m \/ i \in 1 .. Len(log)
  BY <1>1, <1>3
\* The new turn answers no call twice.
<1>8. ASSUME NEW i \in 1 .. Len(log), IsTool(next, new, i), IsTool(next, new, m),
             next[new[i]] = next[new[m]], (next[new[i]] = new[i]) <=> (next[new[m]] = new[m])
      PROVE  FALSE
  <2>1. /\ calls[log[i]] = call /\ call # 0 /\ log[i] > 0
        /\ (call = log[i]) <=> (call = n)
    BY <1>2, <1>3, <1>6, <1>8 DEF IsTool
  <2>2. call # n
    <3> SUFFICES ASSUME call = n  PROVE FALSE
      OBVIOUS
    <3> QED
      BY <1>6, <2>1
  <2>3. log[i] = call
    BY <2>1, <2>2
  <2> QED
    BY <2>1, <2>2, <2>3
<1>9. ASSUME NEW i \in 1 .. Len(new), NEW j \in 1 .. Len(new),
             IsTool(next, new, i), IsTool(next, new, j), next[new[i]] = next[new[j]],
             (next[new[i]] = new[i]) <=> (next[new[j]] = new[j])
      PROVE  i = j
  <2>1. CASE i = m /\ j = m
    BY <2>1
  <2>2. CASE i = m /\ j \in 1 .. Len(log)
    BY <1>8, <1>9, <2>2
  <2>3. CASE j = m /\ i \in 1 .. Len(log)
    BY <1>8, <1>9, <2>3
  <2>4. CASE i \in 1 .. Len(log) /\ j \in 1 .. Len(log)
    <3>1. /\ IsTool(calls, log, i) /\ IsTool(calls, log, j) /\ calls[log[i]] = calls[log[j]]
          /\ (calls[log[i]] = log[i]) <=> (calls[log[j]] = log[j])
      <4>1. log[i] > 0 /\ log[j] > 0
        BY <1>6, <1>9, <2>4 DEF IsTool
      <4>2. new[i] = log[i] /\ new[j] = log[j] /\ next[log[i]] = calls[log[i]] /\ next[log[j]] = calls[log[j]]
        BY <1>6, <2>4, <4>1
      <4>3. IsTool(calls, log, i) /\ IsTool(calls, log, j)
        BY <1>6, <1>9, <2>4
      <4> QED
        BY <1>9, <4>2, <4>3
    <3> QED
      BY <1>1, <2>4, <3>1, FormedIs
  <2> QED
    BY <1>7, <2>1, <2>2, <2>3, <2>4
<1>10. ASSUME NEW i \in 1 .. Len(new), IsTool(next, new, i)
       PROVE  \E j \in 1 .. i : new[j] = next[new[i]]
  <2>1. CASE i = m
    <3>1. next[new[i]] = call /\ call # 0 /\ i \in Nat
      BY <1>1, <1>2, <1>3, <1>10, <2>1, SMTT(60) DEF IsTool
    <3>2. CASE call = n
      <4>1. i \in 1 .. i /\ new[i] = call
        BY <1>1, <1>3, <2>1, <3>2
      <4> QED
        BY <3>1, <4>1
    <3>3. CASE call # n
      <4>1. PICK j \in 1 .. Len(log) : log[j] = call
        BY <3>1, <3>3
      <4>2. j \in 1 .. i /\ new[j] = call
        BY <1>1, <1>6, <2>1, <4>1
      <4> QED
        BY <3>1, <4>2
    <3> QED
      BY <3>2, <3>3
  <2>2. CASE i \in 1 .. Len(log)
    <3>1. IsTool(calls, log, i) /\ log[i] > 0 /\ new[i] = log[i] /\ next[log[i]] = calls[log[i]]
      BY <1>6, <1>10, <2>2 DEF IsTool
    <3>2. PICK j \in 1 .. i : log[j] = calls[log[i]]
      BY <1>1, <2>2, <3>1, FormedIs
    <3>3. j \in 1 .. Len(log)
      BY <1>1, <2>2
    <3>4. new[j] = log[j]
      BY <1>6, <3>3
    <3> QED
      BY <3>1, <3>2, <3>4
  <2> QED
    BY <1>7, <2>1, <2>2
<1>11. Formed(next, new)
  BY <1>3, <1>9, <1>10, FormedIs
<1> QED
  BY <1>4, <1>5, <1>11 DEF next, new

\* The common prefix is the longest one: all of the first log exactly when it is a prefix.
LEMMA CommonPrefixFacts ==
  ASSUME NEW a \in Seq(Int), NEW b \in Seq(Int)
  PROVE  /\ CommonPrefix(a, b) \in 0 .. Len(a) /\ CommonPrefix(a, b) <= Len(b)
         /\ \A i \in 1 .. CommonPrefix(a, b) : a[i] = b[i]
         /\ IsPrefix(a, b) <=> CommonPrefix(a, b) = Len(a)
<1> DEFINE l == IF Len(a) <= Len(b) THEN Len(a) ELSE Len(b)
           S == {n \in 0 .. l : SubSeq(a, 1, n) = SubSeq(b, 1, n)}
<1>1. Len(a) \in Nat /\ Len(b) \in Nat /\ l \in Nat
  OBVIOUS
<1>2. CommonPrefix(a, b) = Max(S)
  <2>1. Min({Len(a), Len(b)}) = IF Len(a) <= Len(b) THEN Len(a) ELSE Len(b)
    <3>1. Len(a) \in Int /\ Len(b) \in Int
      BY <1>1
    <3> QED
      BY <3>1, MinOfTwo
  <2> QED
    BY <2>1 DEF CommonPrefix
<1>3. SubSeq(a, 1, 0) = <<>> /\ SubSeq(b, 1, 0) = <<>>
  BY SubSeqEmpty
<1>4. 0 \in S
  BY <1>1, <1>3
<1>5. Max(S) \in S /\ \A x \in S : x <= Max(S)
  <2>1. S \subseteq 0 .. l /\ S # {}
    BY <1>4
  <2> HIDE DEF S, l
  <2> QED
    BY <1>1, <2>1, MaxOf
<1> DEFINE p == Max(S)
<1>6. p \in 0 .. l /\ SubSeq(a, 1, p) = SubSeq(b, 1, p) /\ \A x \in S : x <= p
  BY <1>5
<1> HIDE DEF p
<1>7. p \in 0 .. Len(a) /\ p \in 0 .. Len(b)
  BY <1>1, <1>6
<1>8. ASSUME NEW i \in 1 .. p  PROVE a[i] = b[i]
  <2>1. SubSeq(a, 1, p)[i] = a[i] /\ SubSeq(b, 1, p)[i] = b[i]
    BY <1>7, SubSeqIs
  <2> QED
    BY <1>6, <2>1
<1>9. ASSUME IsPrefix(a, b)  PROVE p = Len(a)
  <2>1. Len(a) \in 0 .. Len(b) /\ a = SubSeq(b, 1, Len(a)) /\ SubSeq(a, 1, Len(a)) = a
    BY <1>9, PrefixIsSubSeq, SubSeqFull
  <2>2. Len(a) \in 0 .. l /\ SubSeq(a, 1, Len(a)) = SubSeq(b, 1, Len(a))
    BY <1>1, <2>1
  <2>3. Len(a) \in S
    BY <2>2
  <2> QED
    BY <1>1, <1>6, <1>7, <2>3
<1>10. ASSUME p = Len(a)  PROVE IsPrefix(a, b)
  BY <1>7, <1>8, <1>10, PrefixIs
<1>11. p <= Len(b)
  BY <1>1, <1>7
<1>12. CommonPrefix(a, b) = p
  BY <1>2 DEF p
<1> QED
  BY <1>7, <1>8, <1>9, <1>10, <1>11, <1>12

Bounded(files) == \E m \in Nat : DOMAIN files \subseteq 1 .. m

\* No file has a number above the highest.
LEMMA HighestFacts ==
  ASSUME NEW files, Bounded(files)
  PROVE  Highest(files) \in Nat /\ \A s \in DOMAIN files : s \in 1 .. Highest(files)
<1> DEFINE S == {0} \union DOMAIN files
<1>1. PICK m \in Nat : DOMAIN files \subseteq 1 .. m
  BY DEF Bounded
<1>2. S \subseteq 0 .. m /\ S # {}
  BY <1>1
<1>3. Max(S) \in S /\ \A x \in S : x <= Max(S)
  <2> HIDE DEF S
  <2> QED
    BY <1>2, MaxOf
<1>4. Max(S) \in Nat
  BY <1>2, <1>3
<1>5. \A s \in DOMAIN files : s \in 1 .. Max(S)
  BY <1>1, <1>3, <1>4
<1> QED
  BY <1>4, <1>5 DEF Highest

\* The files up to the first gap, and none behind it.
LEMMA ContiguousFacts ==
  ASSUME NEW files, Bounded(files)
  PROVE  /\ Contiguous(files) \in Nat /\ 1 .. Contiguous(files) \subseteq DOMAIN files
         /\ Contiguous(files) + 1 \notin DOMAIN files
         /\ \A n \in Nat : 1 .. n \subseteq DOMAIN files => n <= Contiguous(files)
<1> DEFINE S == {n \in 0 .. Highest(files) : 1 .. n \subseteq DOMAIN files}
<1>1. Highest(files) \in Nat /\ \A s \in DOMAIN files : s \in 1 .. Highest(files)
  BY HighestFacts
<1>2. 0 \in S /\ S \subseteq 0 .. Highest(files)
  BY <1>1
<1>3. Max(S) \in S /\ \A x \in S : x <= Max(S)
  <2> HIDE DEF S
  <2> QED
    BY <1>1, <1>2, MaxOf
<1> DEFINE c == Max(S)
<1>4. c \in Nat /\ 1 .. c \subseteq DOMAIN files /\ \A x \in S : x <= c
  BY <1>1, <1>3
<1> HIDE DEF c
<1>5. ASSUME NEW n \in Nat, 1 .. n \subseteq DOMAIN files  PROVE n <= c
  <2>1. n = 0 \/ n \in 1 .. n
    OBVIOUS
  <2>2. n \in 0 .. Highest(files)
    BY <1>1, <1>5, <2>1
  <2>3. n \in S
    BY <1>5, <2>2
  <2> QED
    BY <1>4, <2>3
<1>6. c + 1 \notin DOMAIN files
  <2> SUFFICES ASSUME c + 1 \in DOMAIN files  PROVE FALSE
    OBVIOUS
  <2>1. c + 1 \in Nat /\ 1 .. c + 1 \subseteq DOMAIN files
    BY <1>4
  <2>2. c + 1 <= c
    BY <1>5, <2>1
  <2> QED
    BY <1>4, <2>2
<1>7. Contiguous(files) = c
  BY DEF Contiguous, c
<1> QED
  BY <1>4, <1>5, <1>6, <1>7

\* The files load() keeps are the most that are well formed, and the base at least.
LEMMA KeptFacts ==
  ASSUME NEW calls, NEW files, Bounded(files)
  PROVE  /\ KeptOf(calls, files) \in 0 .. Contiguous(files)
         /\ KeptOf(calls, files) <= 1 \/ Formed(calls, Concatenated(files, KeptOf(calls, files)))
         /\ \A n \in 0 .. Contiguous(files) :
               n <= 1 \/ Formed(calls, Concatenated(files, n)) => n <= KeptOf(calls, files)
<1> DEFINE S == {0} \union {n \in 1 .. Contiguous(files) : n = 1 \/ Formed(calls, Concatenated(files, n))}
<1>1. Contiguous(files) \in Nat
  BY ContiguousFacts
<1>2. S \subseteq 0 .. Contiguous(files) /\ S # {}
  BY <1>1
<1>3. Max(S) \in S /\ \A x \in S : x <= Max(S)
  <2> HIDE DEF S
  <2> QED
    BY <1>1, <1>2, MaxOf
<1> DEFINE k == Max(S)
<1>4. k \in 0 .. Contiguous(files) /\ (k <= 1 \/ Formed(calls, Concatenated(files, k))) /\ \A x \in S : x <= k
  BY <1>1, <1>3
<1> HIDE DEF k
<1>5. ASSUME NEW n \in 0 .. Contiguous(files), n <= 1 \/ Formed(calls, Concatenated(files, n))
      PROVE  n <= k
  <2>1. n \in S
    BY <1>1, <1>5
  <2> QED
    BY <1>4, <2>1
<1>6. KeptOf(calls, files) = k
  BY DEF KeptOf, k
<1> QED
  BY <1>4, <1>5, <1>6

\* The segment files: the base is well formed by itself.
IsFiles(calls, files) ==
  /\ Bounded(files)
  /\ \A s \in DOMAIN files :
       /\ Entries(files[s], Len(calls)) /\ Len(files[s]) <= SegmentTurns
       /\ s > 1 => \A i \in 1 .. Len(files[s]) : files[s][i] > 0
  /\ 1 \in DOMAIN files => Formed(calls, files[1])
IsLog(calls, log) == Entries(log, Len(calls)) /\ Formed(calls, log)

\* Files of turns and summaries load as a log of turns and summaries.
LEMMA EntriesConcatenated ==
  ASSUME NEW calls, CallsOK(calls), NEW files, IsFiles(calls, files),
         NEW n \in Nat, 1 .. n \subseteq DOMAIN files
  PROVE  /\ \A s \in 1 .. n : files[s] \in Seq(Int)
         /\ Entries(Concatenated(files, n), Len(calls))
         /\ n = 1 => Concatenated(files, n) = files[1]
<1>1. \A s \in 1 .. n : files[s] \in Seq(Int)
  BY DEF IsFiles, Entries
<1>2. /\ Concatenated(files, 0) = <<>> /\ Concatenated(files, n) \in Seq(Int)
      /\ n = 1 => Concatenated(files, 0 + 1) = Concatenated(files, 0) \o files[0 + 1]
  <2>1. n \in 0 .. n /\ (n = 1 => 0 \in 0 .. n - 1)
    OBVIOUS
  <2> QED
    BY <1>1, <2>1, ConcatenatedFacts
<1>3. n = 1 => Concatenated(files, n) = files[1]
  <2> SUFFICES ASSUME n = 1  PROVE Concatenated(files, n) = files[1]
    OBVIOUS
  <2>1. files[1] \in Seq(Int)
    BY <1>1
  <2>2. <<>> \o files[1] = files[1]
    BY <2>1, ConcatEmptySeq
  <2>3. 0 + 1 = 1
    OBVIOUS
  <2>4. Concatenated(files, 1) = <<>> \o files[1]
    BY <1>2, <2>3
  <2> QED
    BY <2>2, <2>4
<1> DEFINE log == Concatenated(files, n)
<1>4. ASSUME NEW i \in 1 .. Len(log)
      PROVE  log[i] # 0 /\ -Len(calls) <= log[i] /\ log[i] <= Len(calls) /\ (log[i] < 0 => i = 1)
  <2>0. PICK s \in 1 .. n : \E j \in 1 .. Len(files[s]) : log[i] = files[s][j] /\ (s = 1 => j = i)
    <3>1. IsFrom(files, n, log)
      BY <1>1, ConcatenatedElement
    <3> QED
      BY <3>1 DEF IsFrom
  <2>1. PICK j \in 1 .. Len(files[s]) : log[i] = files[s][j] /\ (s = 1 => j = i)
    BY <2>0
  <2>2. /\ s \in DOMAIN files /\ Entries(files[s], Len(calls))
        /\ s > 1 => \A k \in 1 .. Len(files[s]) : files[s][k] > 0
    BY DEF IsFiles
  <2>3. /\ files[s][j] # 0 /\ -Len(calls) <= files[s][j] /\ files[s][j] <= Len(calls)
        /\ files[s][j] < 0 => j = 1
        /\ files[s][j] \in Int
    BY <2>2 DEF Entries
  <2>4. s = 1 \/ files[s][j] > 0
    BY <2>2
  <2> HIDE DEF log
  <2> QED
    BY <2>1, <2>3, <2>4
<1>5. Entries(log, Len(calls))
  BY <1>2, <1>4 DEF Entries
<1> QED
  BY <1>1, <1>3, <1>5

\* What load() returns is a log, and everything well formed up to a gap is in front of it.
LEMMA LoadedFacts ==
  ASSUME NEW calls, CallsOK(calls), NEW files, IsFiles(calls, files)
  PROVE  /\ IsLog(calls, LoadedOf(calls, files))
         /\ \A n \in 0 .. Contiguous(files) :
               n <= 1 \/ Formed(calls, Concatenated(files, n)) =>
                  IsPrefix(Concatenated(files, n), LoadedOf(calls, files))
<1> DEFINE k == KeptOf(calls, files)
           c == Contiguous(files)
<1>1. Bounded(files)
  BY DEF IsFiles
<1>2. c \in Nat /\ 1 .. c \subseteq DOMAIN files
  BY <1>1, ContiguousFacts
<1>3. /\ k \in 0 .. c /\ (k <= 1 \/ Formed(calls, Concatenated(files, k)))
      /\ \A n \in 0 .. c : n <= 1 \/ Formed(calls, Concatenated(files, n)) => n <= k
  BY <1>1, KeptFacts
<1> HIDE DEF k, c
<1>4. k \in Nat /\ 1 .. k \subseteq DOMAIN files
  BY <1>2, <1>3
<1>5. /\ \A s \in 1 .. k : files[s] \in Seq(Int)
      /\ Entries(Concatenated(files, k), Len(calls))
      /\ k = 1 => Concatenated(files, k) = files[1]
  BY <1>4, EntriesConcatenated
<1>6. Formed(calls, Concatenated(files, k))
  <2>1. CASE k = 0
    <3>1. Concatenated(files, k) = <<>>
      BY <1>4, <1>5, <2>1, ConcatenatedFacts
    <3>2. <<>> \in Seq(Int) /\ Len(<<>>) = 0 /\ 1 .. 0 = {}
      BY EmptySeq
    <3>3. Formed(calls, <<>>)
      <4> DEFINE e == <<>>
      <4>1. e \in Seq(Int) /\ 1 .. Len(e) = {}
        BY <3>2
      <4> HIDE DEF e
      <4>2. Formed(calls, e)
        BY <4>1, FormedIs
      <4> QED
        BY <4>2 DEF e
    <3> QED
      BY <3>1, <3>3
  <2>2. CASE k = 1
    BY <1>4, <1>5, <2>2 DEF IsFiles
  <2>3. CASE k # 0 /\ k # 1
    BY <1>3, <1>4, <2>3
  <2> QED
    BY <2>1, <2>2, <2>3
<1>7. ASSUME NEW n \in 0 .. c, n <= 1 \/ Formed(calls, Concatenated(files, n))
      PROVE  IsPrefix(Concatenated(files, n), Concatenated(files, k))
  <2>1. n \in 0 .. k
    BY <1>2, <1>3, <1>7
  <2> QED
    BY <1>4, <1>5, <2>1, ConcatenatedGrows
<1> QED
  BY <1>5, <1>6, <1>7 DEF IsLog, LoadedOf, k, c

-----------------------------------------------------------------------------
\* What a log accounts for, and compactions.

Covered(log) == TurnsOf(log) \union Summarised(log)

\* A turn is in a log exactly when it is at some position of it.
LEMMA CoveredIs ==
  ASSUME NEW log \in Seq(Int)
  PROVE  \A t : t \in TurnsOf(log) <=> \E i \in 1 .. Len(log) : log[i] = t /\ t > 0
<1>1. DOMAIN log = 1 .. Len(log)
  OBVIOUS
<1> QED
  BY <1>1 DEF TurnsOf, Range

\* A log accounts for every turn a prefix of it accounts for.
LEMMA CoveredPrefix ==
  ASSUME NEW a \in Seq(Int), NEW b \in Seq(Int), IsPrefix(a, b)
  PROVE  Covered(a) \subseteq Covered(b) /\ TurnsOf(a) \subseteq TurnsOf(b)
<1>1. Len(a) <= Len(b) /\ \A i \in 1 .. Len(a) : a[i] = b[i]
  BY PrefixIs
<1>2. Len(a) \in Nat /\ Len(b) \in Nat
  OBVIOUS
<1>3. ASSUME NEW t \in TurnsOf(a)  PROVE t \in TurnsOf(b)
  <2>1. PICK i \in 1 .. Len(a) : a[i] = t /\ t > 0
    BY CoveredIs
  <2>2. i \in 1 .. Len(b) /\ b[i] = t
    BY <1>1, <1>2, <2>1
  <2> QED
    BY <2>1, <2>2, CoveredIs
<1>4. Summarised(a) \subseteq Summarised(b)
  <2> SUFFICES ASSUME a # <<>>  PROVE Summarised(a) \subseteq Summarised(b)
    BY DEF Summarised
  <2>1. Len(a) # 0
    BY EmptySeq
  <2>2. a[1] = b[1] /\ b # <<>>
    <3>1. 1 \in 1 .. Len(a) /\ Len(b) # 0 /\ Len(<<>>) = 0
      BY <1>1, <1>2, <2>1
    <3> QED
      BY <1>1, <3>1
  <2> QED
    BY <2>2 DEF Summarised
<1> QED
  BY <1>3, <1>4 DEF Covered

\* An empty log or plan has no elements.
LEMMA RangeEmpty == Range(<<>>) = {}
BY DEF Range

\* The latest turn of some turns and summaries is none of the turns to come, and none of
\* them is later.
LEMMA LatestFacts ==
  ASSUME NEW n \in Nat, NEW turns, \A t \in turns : t \in Int /\ -n <= t /\ t <= n
  PROVE  /\ Latest(turns) \in 0 .. n
         /\ \A t \in turns : t <= Latest(turns) /\ -t <= Latest(turns)
<1> DEFINE S == {0} \union {IF t < 0 THEN -t ELSE t : t \in turns}
<1>1. S \subseteq 0 .. n /\ S # {}
  OBVIOUS
<1>2. Max(S) \in S /\ \A x \in S : x <= Max(S)
  <2> HIDE DEF S
  <2> QED
    BY <1>1, MaxOf
<1>3. Max(S) \in 0 .. n
  BY <1>1, <1>2
<1>4. ASSUME NEW t \in turns  PROVE t <= Max(S) /\ -t <= Max(S)
  <2> DEFINE x == IF t < 0 THEN -t ELSE t
  <2>1. x \in S
    OBVIOUS
  <2>2. x <= Max(S) /\ Max(S) \in Int
    BY <1>2, <1>3, <2>1
  <2> HIDE DEF S
  <2> QED
    BY <2>2
<1>5. Latest(turns) = Max(S)
  BY DEF Latest
<1> QED
  BY <1>3, <1>4, <1>5

\* What a summary keeps of each turn, and the summary with what it keeps of the first n.
KeptOfEach(b, T) == [i \in DOMAIN b |-> IF b[i] \in T THEN <<b[i]>> ELSE <<>>]
Folded(b, T, n) == <<-Latest(Range(b) \ T)>> \o Concatenated(KeptOfEach(b, T), n)

\* What is joined twice may be joined in either order.
LEMMA JoinsTwice ==
  \A s, t, u \in Seq(Int) : (s \o t) \o u = s \o (t \o u)
<1> TAKE s, t, u \in Seq(Int)
<1> QED
  OBVIOUS

\* A summary's tail grows by the turns that are picked, in their order.
LEMMA FoldedGrows ==
  ASSUME NEW b \in Seq(Int), NEW T, Latest(Range(b) \ T) \in Nat
  PROVE  /\ Folded(b, T, 0) = <<-Latest(Range(b) \ T)>>
         /\ \A n \in 0 .. Len(b) : Folded(b, T, n) \in Seq(Int)
         /\ \A n \in 0 .. Len(b) - 1 :
              Folded(b, T, n + 1) = IF b[n + 1] \in T THEN Append(Folded(b, T, n), b[n + 1])
                                    ELSE Folded(b, T, n)
         /\ SummaryFrom(b, T) = Folded(b, T, Len(b))
<1> DEFINE f == KeptOfEach(b, T)
           N == Len(b)
           h == <<-Latest(Range(b) \ T)>>
<1>1. N \in Nat /\ DOMAIN b = 1 .. N /\ h \in Seq(Int)
  OBVIOUS
<1>2. /\ f = [i \in 1 .. N |-> f[i]]
      /\ \A i \in 1 .. N : f[i] = (IF b[i] \in T THEN <<b[i]>> ELSE <<>>) /\ f[i] \in Seq(Int)
  <2>1. \A i \in 1 .. N : b[i] \in Int
    BY <1>1
  <2> QED
    BY <1>1, <2>1 DEF KeptOfEach
<1> HIDE DEF f, h
<1>3. /\ Concatenated(f, 0) = <<>>
      /\ \A n \in 0 .. N : Concatenated(f, n) \in Seq(Int)
      /\ \A n \in 0 .. N - 1 : Concatenated(f, n + 1) = Concatenated(f, n) \o f[n + 1]
  BY <1>1, <1>2, ConcatenatedFacts
<1>4. \A n : Folded(b, T, n) = h \o Concatenated(f, n)
  BY DEF Folded, f, h
<1>5. Folded(b, T, 0) = h
  BY <1>1, <1>3, <1>4, ConcatEmptySeq
<1>6. ASSUME NEW n \in 0 .. N  PROVE Folded(b, T, n) \in Seq(Int)
  <2> DEFINE c == Concatenated(f, n)
  <2>1. c \in Seq(Int) /\ Folded(b, T, n) = h \o c
    BY <1>3, <1>4
  <2> HIDE DEF c
  <2> QED
    BY <1>1, <2>1, ConcatProperties
<1>7. ASSUME NEW n \in 0 .. N - 1
      PROVE  Folded(b, T, n + 1) = IF b[n + 1] \in T THEN Append(Folded(b, T, n), b[n + 1])
                                   ELSE Folded(b, T, n)
  <2> DEFINE c == Concatenated(f, n)
             d == f[n + 1]
  <2>1. n \in 0 .. N /\ n + 1 \in 1 .. N
    BY <1>1
  <2>2. /\ c \in Seq(Int) /\ d \in Seq(Int)
        /\ Folded(b, T, n) = h \o c /\ Folded(b, T, n + 1) = h \o (c \o d)
        /\ d = IF b[n + 1] \in T THEN <<b[n + 1]>> ELSE <<>>
    BY <1>2, <1>3, <1>4, <2>1
  <2> HIDE DEF c, d
  <2>3. h \o (c \o d) = (h \o c) \o d /\ h \o c \in Seq(Int)
    <3>1. h \in Seq(Int) /\ c \in Seq(Int) /\ d \in Seq(Int)
      BY <1>1, <2>2
    <3>2. (h \o c) \o d = h \o (c \o d)
      BY <3>1, JoinsTwice, Zenon
    <3>3. h \o c \in Seq(Int)
      BY <1>6, <2>1, <2>2
    <3> QED
      BY <3>2, <3>3
  <2>4. CASE b[n + 1] \in T
    <3>1. b[n + 1] \in Int
      BY <2>1
    <3>2. Append(h \o c, b[n + 1]) = (h \o c) \o <<b[n + 1]>>
      BY <2>3, <3>1, AppendIsConcat
    <3> QED
      BY <2>2, <2>3, <2>4, <3>2
  <2>5. CASE b[n + 1] \notin T
    BY <2>2, <2>3, <2>5, ConcatEmptySeq
  <2> QED
    BY <2>4, <2>5
<1>8. SummaryFrom(b, T) = Folded(b, T, N)
  <2>1. Picked(b, T) = FlattenSeq(f)
    BY DEF Picked, f, KeptOfEach
  <2>2. Concatenated(f, N) = FlattenSeq(f)
    BY <1>2 DEF Concatenated
  <2> QED
    BY <1>4, <2>1, <2>2 DEF SummaryFrom, h
<1> QED
  BY <1>5, <1>6, <1>7, <1>8 DEF h

\* Behind the summary stand the turns that are picked, each at least once, and no other.
FoldHolds(b, T, n) ==
  LET g == Folded(b, T, n)
  IN  /\ Len(g) >= 1 /\ g[1] = -Latest(Range(b) \ T)
      /\ \A i \in 2 .. Len(g) : g[i] \in T /\ \E j \in 1 .. n : b[j] = g[i]
      /\ \A j \in 1 .. n : b[j] \in T => \E i \in 2 .. Len(g) : g[i] = b[j]

LEMMA FoldedHolds ==
  ASSUME NEW b \in Seq(Int), NEW T, Latest(Range(b) \ T) \in Nat
  PROVE  \A n \in 0 .. Len(b) : FoldHolds(b, T, n)
<1> DEFINE S == {n \in Nat : n <= Len(b) => FoldHolds(b, T, n)}
<1>0. /\ \A n \in 0 .. Len(b) : Folded(b, T, n) \in Seq(Int)
      /\ \A n \in 0 .. Len(b) - 1 :
           Folded(b, T, n + 1) = IF b[n + 1] \in T THEN Append(Folded(b, T, n), b[n + 1])
                                 ELSE Folded(b, T, n)
  BY FoldedGrows, ZenonT(60)
<1>1. 0 \in S
  <2>1. Folded(b, T, 0) = <<-Latest(Range(b) \ T)>>
    BY FoldedGrows
  <2>2. Len(Folded(b, T, 0)) = 1 /\ Folded(b, T, 0)[1] = -Latest(Range(b) \ T)
    BY <2>1
  <2> QED
    BY <2>2 DEF FoldHolds
<1>2. ASSUME NEW n \in Nat, n \in S  PROVE n + 1 \in S
  <2> SUFFICES ASSUME n + 1 <= Len(b)  PROVE FoldHolds(b, T, n + 1)
    OBVIOUS
  <2> DEFINE g == Folded(b, T, n)
             next == Folded(b, T, n + 1)
             t == b[n + 1]
             m == Len(g) + 1
  <2>1. n \in 0 .. Len(b) /\ n \in 0 .. Len(b) - 1 /\ n + 1 \in 1 .. Len(b) /\ t \in Int
    OBVIOUS
  <2>2. FoldHolds(b, T, n)
    BY <1>2, <2>1
  <2>3. g \in Seq(Int) /\ next = IF t \in T THEN Append(g, t) ELSE g
    BY <1>0, <2>1
  <2>4. /\ Len(g) >= 1 /\ Len(g) \in Nat /\ g[1] = -Latest(Range(b) \ T)
        /\ \A i \in 2 .. Len(g) : g[i] \in T /\ \E j \in 1 .. n : b[j] = g[i]
        /\ \A j \in 1 .. n : b[j] \in T => \E i \in 2 .. Len(g) : g[i] = b[j]
    BY <2>2, <2>3, SMTT(60) DEF FoldHolds
  <2>5. CASE t \in T
    <3>1. /\ Len(next) = m /\ next[m] = t
          /\ \A i \in 1 .. Len(g) : next[i] = g[i]
      <4>1. next = Append(g, t)
        BY <2>3, <2>5
      <4> HIDE DEF g, t, next
      <4> QED
        BY <2>1, <2>3, <4>1, AppendProperties
    <3> HIDE DEF g, next
    <3>2. Len(next) >= 1 /\ next[1] = -Latest(Range(b) \ T)
      BY <2>4, <3>1
    <3>3. ASSUME NEW i \in 2 .. Len(next)
          PROVE  next[i] \in T /\ \E j \in 1 .. n + 1 : b[j] = next[i]
      <4>1. CASE i = m
        BY <2>5, <3>1, <4>1
      <4>2. CASE i # m
        <5>1. i \in 2 .. Len(g) /\ next[i] = g[i]
          BY <2>4, <3>1, <3>3, <4>2, SMTT(60)
        <5>2. PICK j \in 1 .. n : b[j] = g[i]
          BY <2>4, <5>1
        <5>3. j \in 1 .. n + 1
          OBVIOUS
        <5> QED
          BY <2>4, <5>1, <5>2, <5>3
      <4> QED
        BY <4>1, <4>2
    <3>4. ASSUME NEW j \in 1 .. n + 1, b[j] \in T
          PROVE  \E i \in 2 .. Len(next) : next[i] = b[j]
      <4>1. CASE j = n + 1
        <5>1. m \in 2 .. Len(next)
          BY <2>4, <3>1
        <5> QED
          BY <3>1, <4>1, <5>1
      <4>2. CASE j # n + 1
        <5>1. j \in 1 .. n
          BY <4>2
        <5>2. PICK i \in 2 .. Len(g) : g[i] = b[j]
          BY <2>4, <3>4, <5>1
        <5>3. i \in 2 .. Len(next) /\ next[i] = g[i]
          BY <2>4, <3>1
        <5> QED
          BY <5>2, <5>3
      <4> QED
        BY <4>1, <4>2
    <3> QED
      BY <3>2, <3>3, <3>4 DEF FoldHolds, next
  <2>6. CASE t \notin T
    <3>1. next = g
      BY <2>3, <2>6
    <3> HIDE DEF g, next
    <3>2. ASSUME NEW i \in 2 .. Len(g)  PROVE g[i] \in T /\ \E j \in 1 .. n + 1 : b[j] = g[i]
      <4>1. PICK j \in 1 .. n : b[j] = g[i]
        BY <2>4
      <4>2. j \in 1 .. n + 1
        OBVIOUS
      <4> QED
        BY <2>4, <4>1, <4>2
    <3>3. ASSUME NEW j \in 1 .. n + 1, b[j] \in T  PROVE \E i \in 2 .. Len(g) : g[i] = b[j]
      <4>1. j \in 1 .. n
        BY <2>6, <3>3
      <4> QED
        BY <2>4, <3>3, <4>1
    <3> QED
      BY <2>4, <3>1, <3>2, <3>3 DEF FoldHolds, next
  <2> QED
    BY <2>5, <2>6
<1> HIDE DEF S
<1>3. \A n \in Nat : n \in S
  BY <1>1, <1>2, Induction
<1> QED
  BY <1>3 DEF S

\* A turn that is the first of its kind for its call, behind that call, keeps a log well
\* formed.
LEMMA FormedNext ==
  ASSUME NEW calls, NEW log \in Seq(Int), Formed(calls, log), NEW t \in Int,
         t > 0 /\ calls[t] # 0 =>
           /\ \A i \in 1 .. Len(log) :
                log[i] > 0 /\ calls[log[i]] = calls[t] => ~((calls[log[i]] = log[i]) <=> (calls[t] = t))
           /\ calls[t] = t \/ \E i \in 1 .. Len(log) : log[i] = calls[t]
  PROVE  Formed(calls, Append(log, t))
<1> DEFINE new == Append(log, t)
           m == Len(log) + 1
<1>1. /\ new \in Seq(Int) /\ Len(new) = m /\ new[m] = t /\ Len(log) \in Nat
      /\ \A i \in 1 .. Len(log) : new[i] = log[i]
  BY AppendProperties
<1> HIDE DEF new
<1>2. ASSUME NEW i \in 1 .. Len(new)  PROVE i = m \/ i \in 1 .. Len(log)
  BY <1>1
<1>3. ASSUME NEW i \in 1 .. Len(log)  PROVE IsTool(calls, new, i) <=> IsTool(calls, log, i)
  BY <1>1 DEF IsTool
<1>4. ASSUME NEW i \in 1 .. Len(log), IsTool(calls, new, i), IsTool(calls, new, m),
             calls[new[i]] = calls[new[m]], (calls[new[i]] = new[i]) <=> (calls[new[m]] = new[m])
      PROVE  FALSE
  <2>1. t > 0 /\ calls[t] # 0 /\ log[i] > 0 /\ calls[log[i]] = calls[t]
    BY <1>1, <1>4 DEF IsTool
  <2>2. (calls[log[i]] = log[i]) <=> (calls[t] = t)
    BY <1>1, <1>4
  <2> QED
    BY <2>1, <2>2
<1>5. ASSUME NEW i \in 1 .. Len(new), NEW j \in 1 .. Len(new),
             IsTool(calls, new, i), IsTool(calls, new, j), calls[new[i]] = calls[new[j]],
             (calls[new[i]] = new[i]) <=> (calls[new[j]] = new[j])
      PROVE  i = j
  <2>1. CASE i = m /\ j = m
    BY <2>1
  <2>2. CASE i = m /\ j \in 1 .. Len(log)
    BY <1>4, <1>5, <2>2
  <2>3. CASE j = m /\ i \in 1 .. Len(log)
    BY <1>4, <1>5, <2>3
  <2>4. CASE i \in 1 .. Len(log) /\ j \in 1 .. Len(log)
    <3>1. /\ IsTool(calls, log, i) /\ IsTool(calls, log, j) /\ calls[log[i]] = calls[log[j]]
          /\ (calls[log[i]] = log[i]) <=> (calls[log[j]] = log[j])
      BY <1>1, <1>3, <1>5, <2>4
    <3> QED
      BY <2>4, <3>1, FormedIs
  <2> QED
    BY <1>2, <1>5, <2>1, <2>2, <2>3, <2>4
<1>6. ASSUME NEW i \in 1 .. Len(new), IsTool(calls, new, i)
      PROVE  \E j \in 1 .. i : new[j] = calls[new[i]]
  <2>1. CASE i = m
    <3>1. t > 0 /\ calls[t] # 0 /\ new[i] = t /\ i \in 1 .. i
      BY <1>1, <1>6, <2>1 DEF IsTool
    <3>2. CASE calls[t] = t
      BY <3>1, <3>2
    <3>3. CASE calls[t] # t
      <4>1. PICK j \in 1 .. Len(log) : log[j] = calls[t]
        BY <3>1, <3>3
      <4>2. j \in 1 .. i /\ new[j] = log[j]
        BY <1>1, <2>1
      <4> QED
        BY <3>1, <4>1, <4>2
    <3> QED
      BY <3>2, <3>3
  <2>2. CASE i \in 1 .. Len(log)
    <3>1. IsTool(calls, log, i) /\ new[i] = log[i]
      BY <1>1, <1>3, <1>6, <2>2
    <3>2. PICK j \in 1 .. i : log[j] = calls[log[i]]
      BY <2>2, <3>1, FormedIs
    <3>3. new[j] = log[j]
      BY <1>1, <2>2
    <3> QED
      BY <3>1, <3>2, <3>3
  <2> QED
    BY <1>2, <1>6, <2>1, <2>2
<1>7. Formed(calls, new)
  BY <1>1, <1>5, <1>6, FormedIs
<1> QED
  BY <1>7 DEF new

\* Every picked result has its call picked with it.
PairsClosed(calls, b, T) == \A t \in T : calls[t] \in TurnsOf(b) => calls[t] \in T

\* A summary in front of a tail that splits no pair is well formed.
LEMMA SummaryFormed ==
  ASSUME NEW calls, CallsOK(calls), NEW b, Entries(b, Len(calls)), Formed(calls, b),
         NEW T, T \subseteq TurnsOf(b), PairsClosed(calls, b, T), Latest(Range(b) \ T) \in Nat
  PROVE  Formed(calls, SummaryFrom(b, T))
<1> DEFINE k == Latest(Range(b) \ T)
           S == {n \in Nat : n <= Len(b) => Formed(calls, Folded(b, T, n))}
<1>1. b \in Seq(Int) /\ Len(b) \in Nat /\ calls \in Seq(Nat) /\ Len(calls) \in Nat
  BY DEF Entries, CallsOK
<1>0. /\ \A n \in 0 .. Len(b) : Folded(b, T, n) \in Seq(Int) /\ FoldHolds(b, T, n)
      /\ \A n \in 0 .. Len(b) - 1 :
           Folded(b, T, n + 1) = IF b[n + 1] \in T THEN Append(Folded(b, T, n), b[n + 1])
                                 ELSE Folded(b, T, n)
  BY <1>1, FoldedGrows, FoldedHolds, ZenonT(60)
<1>2. ASSUME NEW t \in T  PROVE t \in 1 .. Len(calls)
  <2>1. PICK j \in 1 .. Len(b) : b[j] = t /\ t > 0
    BY <1>1, CoveredIs
  <2>2. b[j] \in Int /\ b[j] <= Len(calls)
    BY <1>1 DEF Entries
  <2> QED
    BY <1>1, <2>1, <2>2
<1>3. 0 \in S
  <2> DEFINE e == <<-k>>
  <2>1. e \in Seq(Int) /\ Len(e) = 1 /\ e[1] = -k /\ ~(-k > 0)
    OBVIOUS
  <2> HIDE DEF e, k
  <2>2. \A i \in 1 .. Len(e) : ~IsTool(calls, e, i)
    <3>1. \A i \in 1 .. Len(e) : i = 1
      BY <2>1
    <3> QED
      BY <2>1, <3>1 DEF IsTool
  <2>3. Formed(calls, e)
    BY <2>1, <2>2, FormedIs
  <2>4. Folded(b, T, 0) = e
    BY <1>1, FoldedGrows DEF e, k
  <2> QED
    BY <2>3, <2>4
<1>4. ASSUME NEW n \in Nat, n \in S  PROVE n + 1 \in S
  <2> SUFFICES ASSUME n + 1 <= Len(b)  PROVE Formed(calls, Folded(b, T, n + 1))
    OBVIOUS
  <2> DEFINE g == Folded(b, T, n)
             t == b[n + 1]
  <2>1. n \in 0 .. Len(b) /\ n \in 0 .. Len(b) - 1 /\ n + 1 \in 1 .. Len(b) /\ t \in Int
    BY <1>1
  <2>2. /\ Formed(calls, g) /\ g \in Seq(Int) /\ FoldHolds(b, T, n)
        /\ Folded(b, T, n + 1) = IF t \in T THEN Append(g, t) ELSE g
    BY <1>0, <1>4, <2>1
  <2>6. FoldHolds(b, T, n) /\ g \in Seq(Int)
    BY <2>2
  <2>3. /\ Len(g) >= 1 /\ Len(g) \in Nat /\ g[1] = -k
        /\ \A i \in 2 .. Len(g) : g[i] \in T /\ \E j \in 1 .. n : b[j] = g[i]
        /\ \A j \in 1 .. n : b[j] \in T => \E i \in 2 .. Len(g) : g[i] = b[j]
    <3>1. /\ Len(g) >= 1 /\ g[1] = -Latest(Range(b) \ T)
          /\ \A i \in 2 .. Len(g) : g[i] \in T /\ \E j \in 1 .. n : b[j] = g[i]
          /\ \A j \in 1 .. n : b[j] \in T => \E i \in 2 .. Len(g) : g[i] = b[j]
      BY <2>6, Zenon DEF FoldHolds
    <3>2. Len(g) \in Nat
      BY <2>6
    <3> QED
      BY <3>1, <3>2
  <2> HIDE DEF g
  <2>4. CASE t \in T
    <3>1. t \in 1 .. Len(calls) /\ calls[t] \in Nat
      BY <1>1, <1>2, <2>4
    <3>2. ASSUME calls[t] # 0, NEW i \in 1 .. Len(g), g[i] > 0, calls[g[i]] = calls[t],
                 (calls[g[i]] = g[i]) <=> (calls[t] = t)
          PROVE  FALSE
      <4>1. i # 1
        <5>1. k \in Nat
          OBVIOUS
        <5> HIDE DEF k
        <5> QED
          BY <2>3, <3>2, <5>1
      <4>2. i \in 2 .. Len(g)
        BY <2>3, <4>1
      <4>3. PICK j \in 1 .. n : b[j] = g[i]
        BY <2>3, <4>2
      <4>4. j \in 1 .. Len(b) /\ j # n + 1
        BY <1>1, <2>1
      <4>5. IsTool(calls, b, j) /\ IsTool(calls, b, n + 1)
        BY <3>1, <3>2, <4>3 DEF IsTool
      <4>6. j = n + 1
        BY <1>1, <2>1, <3>2, <4>3, <4>4, <4>5, FormedIs
      <4> QED
        BY <4>4, <4>6
    <3>3. ASSUME calls[t] # 0, calls[t] # t
          PROVE  \E i \in 1 .. Len(g) : g[i] = calls[t]
      <4>1. IsTool(calls, b, n + 1)
        BY <3>1, <3>3 DEF IsTool
      <4>2. PICK j \in 1 .. n + 1 : b[j] = calls[t]
        BY <1>1, <2>1, <4>1, FormedIs
      <4>3. j \in 1 .. n
        BY <3>3, <4>2
      <4>4. j \in 1 .. Len(b) /\ calls[t] > 0
        BY <1>1, <2>1, <3>1, <3>3, <4>3, SMTT(60)
      <4>5. calls[t] \in TurnsOf(b)
        BY <1>1, <4>2, <4>4, CoveredIs
      <4>6. b[j] \in T
        BY <2>4, <4>2, <4>5 DEF PairsClosed
      <4>7. PICK i \in 2 .. Len(g) : g[i] = b[j]
        BY <2>3, <4>3, <4>6
      <4>8. i \in 1 .. Len(g)
        BY <2>3
      <4> QED
        BY <4>2, <4>7, <4>8
    <3>4. Formed(calls, Append(g, t))
      <4>1. t > 0 /\ calls[t] # 0 =>
              /\ \A i \in 1 .. Len(g) :
                   g[i] > 0 /\ calls[g[i]] = calls[t] => ~((calls[g[i]] = g[i]) <=> (calls[t] = t))
              /\ calls[t] = t \/ \E i \in 1 .. Len(g) : g[i] = calls[t]
        BY <3>2, <3>3
      <4> HIDE DEF t
      <4> QED
        BY <2>1, <2>2, <4>1, FormedNext
    <3> QED
      BY <2>2, <2>4, <3>4
  <2>5. CASE t \notin T
    BY <2>2, <2>5
  <2> QED
    BY <2>4, <2>5
<1> HIDE DEF S
<1>5. Len(b) \in S
  BY <1>1, <1>3, <1>4, Induction
<1>6. Formed(calls, Folded(b, T, Len(b)))
  BY <1>1, <1>5 DEF S
<1>7. SummaryFrom(b, T) = Folded(b, T, Len(b))
  BY <1>1, FoldedGrows
<1> QED
  BY <1>6, <1>7

\* A compactor's summary accounts for every turn it replaces, keeps the turns that are
\* picked and invents none.
LEMMA SummaryFacts ==
  ASSUME NEW n \in Nat, NEW b, Entries(b, n), NEW T, T \subseteq TurnsOf(b), ~(Range(b) \subseteq T)
  PROVE  /\ Entries(SummaryFrom(b, T), n) /\ SummaryFrom(b, T) # <<>>
         /\ Covered(b) \subseteq Covered(SummaryFrom(b, T))
         /\ TurnsOf(SummaryFrom(b, T)) = T
         /\ Latest(Range(b) \ T) \in Nat
<1> DEFINE k == Latest(Range(b) \ T)
           a == SummaryFrom(b, T)
<1>1. b \in Seq(Int) /\ Len(b) \in Nat /\ Range(b) = {b[j] : j \in 1 .. Len(b)}
  BY RangeEquality DEF Entries
<1>2. \A t \in Range(b) : t \in Int /\ t # 0 /\ -n <= t /\ t <= n
  BY <1>1 DEF Entries
<1>3. k \in 0 .. n /\ \A t \in Range(b) \ T : t <= k /\ -t <= k
  <2>1. \A t \in Range(b) \ T : t \in Int /\ -n <= t /\ t <= n
    BY <1>2
  <2> QED
    BY <2>1, LatestFacts
<1>4. k > 0
  <2>1. PICK t \in Range(b) \ T : TRUE
    OBVIOUS
  <2>2. t \in Int /\ t # 0 /\ t <= k /\ -t <= k
    BY <1>2, <1>3, <2>1
  <2> HIDE DEF k
  <2> QED
    BY <1>3, <2>2
<1>5. /\ a = Folded(b, T, Len(b)) /\ a \in Seq(Int) /\ FoldHolds(b, T, Len(b))
  <2>1. k \in Nat /\ Len(b) \in 0 .. Len(b)
    BY <1>1, <1>3
  <2> QED
    BY <1>1, <2>1, FoldedGrows, FoldedHolds
<1>6. /\ Len(a) >= 1 /\ Len(a) \in Nat /\ a[1] = -k
      /\ \A i \in 2 .. Len(a) : a[i] \in T /\ \E j \in 1 .. Len(b) : b[j] = a[i]
      /\ \A j \in 1 .. Len(b) : b[j] \in T => \E i \in 2 .. Len(a) : a[i] = b[j]
  BY <1>5 DEF FoldHolds
<1> HIDE DEF a, k
<1>7. \A t \in T : t \in Range(b) /\ t > 0
  BY DEF TurnsOf
<1>8. ASSUME NEW i \in 1 .. Len(a)
      PROVE  a[i] # 0 /\ -n <= a[i] /\ a[i] <= n /\ (a[i] < 0 => i = 1)
  <2>1. CASE i = 1
    BY <1>3, <1>4, <1>6, <2>1
  <2>2. CASE i # 1
    <3>1. i \in 2 .. Len(a)
      BY <1>6, <2>2
    <3>2. a[i] \in Int /\ -n <= a[i] /\ a[i] <= n /\ a[i] > 0
      BY <1>2, <1>6, <1>7, <3>1
    <3> QED
      BY <3>2
  <2> QED
    BY <2>1, <2>2
<1>9. Entries(a, n)
  BY <1>5, <1>8 DEF Entries
<1>10. a # <<>> /\ Summarised(a) = 1 .. k
  <2>1. Len(a) # 0
    BY <1>6
  <2>2. a # <<>>
    BY <2>1, EmptySeq
  <2>3. a[1] < 0 /\ -a[1] = k
    BY <1>3, <1>4, <1>6
  <2> QED
    BY <2>2, <2>3 DEF Summarised
<1>11. TurnsOf(a) = T
  <2>1. ASSUME NEW t \in TurnsOf(a)  PROVE t \in T
    <3>1. PICK i \in 1 .. Len(a) : a[i] = t /\ t > 0
      BY <1>5, CoveredIs
    <3>2. i \in 2 .. Len(a)
      BY <1>3, <1>4, <1>6, <3>1
    <3> QED
      BY <1>6, <3>1, <3>2
  <2>2. ASSUME NEW t \in T  PROVE t \in TurnsOf(a)
    <3>1. PICK j \in 1 .. Len(b) : b[j] = t
      BY <1>1, <1>7
    <3>2. PICK i \in 2 .. Len(a) : a[i] = t
      BY <1>6, <3>1
    <3>3. i \in 1 .. Len(a) /\ t > 0
      BY <1>6, <1>7
    <3> QED
      BY <1>5, <3>2, <3>3, CoveredIs
  <2> QED
    BY <2>1, <2>2
<1>12. ASSUME NEW t \in TurnsOf(b)  PROVE t \in Covered(a)
  <2>1. t \in Range(b) /\ t > 0
    BY DEF TurnsOf
  <2>2. CASE t \in T
    BY <1>11, <2>2 DEF Covered
  <2>3. CASE t \notin T
    <3>1. t \in 1 .. k
      BY <1>2, <1>3, <2>1, <2>3
    <3> QED
      BY <1>10, <3>1 DEF Covered
  <2> QED
    BY <2>2, <2>3
<1>13. Summarised(b) \subseteq 1 .. k
  <2> SUFFICES ASSUME b # <<>>, b[1] < 0  PROVE 1 .. -b[1] \subseteq 1 .. k
    BY DEF Summarised
  <2>1. b[1] \in Range(b)
    <3>1. Len(b) # 0
      BY <1>1, EmptySeq
    <3>2. 1 \in 1 .. Len(b)
      BY <1>1, <3>1
    <3> QED
      BY <1>1, <3>2
  <2>2. b[1] \notin T /\ b[1] \in Int
    BY <1>2, <1>7, <2>1
  <2>3. -b[1] <= k
    BY <1>3, <2>1, <2>2
  <2> QED
    BY <1>3, <2>2, <2>3
<1>14. Covered(b) \subseteq Covered(a)
  BY <1>10, <1>12, <1>13 DEF Covered
<1> QED
  BY <1>3, <1>9, <1>10, <1>11, <1>14 DEF a, k

\* A compaction, or the log itself, accounts for every turn of the log.
LEMMA CompactionFacts ==
  ASSUME NEW n \in Nat, NEW a, NEW b, Entries(b, n), CompactionOf(a, b)
  PROVE  /\ Entries(a, n) /\ (a = <<>> <=> b = <<>>)
         /\ Covered(b) \subseteq Covered(a) /\ TurnsOf(a) \subseteq TurnsOf(b)
<1>1. CASE a = b
  BY <1>1
<1>2. CASE a # b
  <2> DEFINE T == TurnsOf(a) \intersect Range(b)
  <2>1. ~(Range(b) \subseteq TurnsOf(a)) /\ a = SummaryFrom(b, TurnsOf(a))
    BY <1>2 DEF CompactionOf
  <2>2. T \subseteq TurnsOf(b) /\ ~(Range(b) \subseteq T)
    BY <2>1 DEF TurnsOf
  <2>3. SummaryFrom(b, TurnsOf(a)) = SummaryFrom(b, T)
    <3>1. Range(b) \ TurnsOf(a) = Range(b) \ T
      OBVIOUS
    <3>2. [i \in DOMAIN b |-> IF b[i] \in TurnsOf(a) THEN <<b[i]>> ELSE <<>>]
            = [i \in DOMAIN b |-> IF b[i] \in T THEN <<b[i]>> ELSE <<>>]
      BY DEF Range
    <3> QED
      BY <3>1, <3>2 DEF SummaryFrom, Picked
  <2> HIDE DEF T
  <2>4. Entries(a, n) /\ a # <<>> /\ Covered(b) \subseteq Covered(a) /\ TurnsOf(a) = T
    <3>1. a = SummaryFrom(b, T)
      BY <2>1, <2>3
    <3>2. /\ Entries(SummaryFrom(b, T), n) /\ SummaryFrom(b, T) # <<>>
          /\ Covered(b) \subseteq Covered(SummaryFrom(b, T)) /\ TurnsOf(SummaryFrom(b, T)) = T
      BY <2>2, SummaryFacts
    <3> QED
      BY <3>1, <3>2
  <2>5. b # <<>>
    BY <2>1, RangeEmpty
  <2> QED
    BY <2>2, <2>4, <2>5
<1> QED
  BY <1>1, <1>2

\* A compaction of the turns up to some point.
OfPrefix(log, history) == \E n \in 0 .. Len(history) : CompactionOf(log, SubSeq(history, 1, n))

\* What is a compaction of a part of a history is one of a part of any longer history.
LEMMA OfPrefixFacts ==
  ASSUME NEW a \in Seq(Int), NEW b \in Seq(Int), IsPrefix(a, b), NEW log
  PROVE  /\ OfPrefix(log, a) => OfPrefix(log, b)
         /\ CompactionOf(log, b) => OfPrefix(log, b)
<1>1. Len(a) \in 0 .. Len(b) /\ a = SubSeq(b, 1, Len(a)) /\ Len(b) \in Nat
  BY PrefixIsSubSeq
<1>2. ASSUME NEW n \in 0 .. Len(a)  PROVE n \in 0 .. Len(b) /\ SubSeq(a, 1, n) = SubSeq(b, 1, n)
  <2>1. n \in 0 .. Len(b)
    BY <1>1
  <2>2. /\ SubSeq(a, 1, n) \in Seq(Int) /\ Len(SubSeq(a, 1, n)) = n
        /\ \A i \in 1 .. n : SubSeq(a, 1, n)[i] = a[i]
    BY SubSeqIs
  <2>3. /\ SubSeq(b, 1, n) \in Seq(Int) /\ Len(SubSeq(b, 1, n)) = n
        /\ \A i \in 1 .. n : SubSeq(b, 1, n)[i] = b[i]
    BY <2>1, SubSeqIs
  <2>4. \A i \in 1 .. n : a[i] = b[i]
    <3>1. \A i \in 1 .. Len(a) : a[i] = b[i]
      BY PrefixIs
    <3> QED
      BY <1>1, <3>1
  <2>5. \A i \in 1 .. n : SubSeq(a, 1, n)[i] = SubSeq(b, 1, n)[i]
    BY <2>2, <2>3, <2>4
  <2> DEFINE x == SubSeq(a, 1, n)
             y == SubSeq(b, 1, n)
  <2>6. x \in Seq(Int) /\ y \in Seq(Int) /\ Len(x) = Len(y) /\ \A i \in 1 .. Len(x) : x[i] = y[i]
    BY <2>2, <2>3, <2>5
  <2> HIDE DEF x, y
  <2>7. x = y
    BY <2>6, SeqEqual
  <2> QED
    BY <2>1, <2>7 DEF x, y
<1>3. OfPrefix(log, a) => OfPrefix(log, b)
  BY <1>2 DEF OfPrefix
<1>4. SubSeq(b, 1, Len(b)) = b /\ Len(b) \in 0 .. Len(b)
  BY <1>1, SubSeqFull
<1>5. CompactionOf(log, b) => OfPrefix(log, b)
  BY <1>4 DEF OfPrefix
<1> QED
  BY <1>3, <1>5

-----------------------------------------------------------------------------
\* Lists of file operations.

\* The operations of a plan are its first one and the rest.
LEMMA RangeHeadTail ==
  ASSUME NEW S, NEW s \in Seq(S), s # <<>>
  PROVE  /\ Head(s) \in S /\ Tail(s) \in Seq(S)
         /\ Range(s) = {Head(s)} \union Range(Tail(s))
<1>1. /\ Len(s) \in Nat /\ Len(s) # 0 /\ DOMAIN s = 1 .. Len(s)
      /\ Head(s) = s[1]
  BY EmptySeq
<1>2. /\ Head(s) \in S /\ Tail(s) \in Seq(S) /\ Len(Tail(s)) = Len(s) - 1
      /\ \A i \in 1 .. Len(Tail(s)) : Tail(s)[i] = s[i + 1]
  BY HeadTailProperties
<1>3. DOMAIN Tail(s) = 1 .. Len(s) - 1
  BY <1>2
<1>4. Range(s) \subseteq {Head(s)} \union Range(Tail(s))
  <2>1. ASSUME NEW i \in 1 .. Len(s), i # 1  PROVE s[i] \in Range(Tail(s))
    <3>1. i - 1 \in 1 .. Len(s) - 1 /\ (i - 1) + 1 = i
      BY <1>1, <2>1
    <3>2. Tail(s)[i - 1] = s[i]
      BY <1>2, <3>1
    <3> QED
      BY <1>3, <3>1, <3>2 DEF Range
  <2> QED
    BY <1>1, <2>1 DEF Range
<1>5. {Head(s)} \union Range(Tail(s)) \subseteq Range(s)
  <2>1. ASSUME NEW i \in 1 .. Len(s) - 1  PROVE Tail(s)[i] \in Range(s)
    <3>1. i + 1 \in 1 .. Len(s)
      BY <1>1
    <3> QED
      BY <1>1, <1>2, <3>1 DEF Range
  <2>2. 1 \in 1 .. Len(s)
    BY <1>1
  <2> QED
    BY <1>1, <1>3, <2>1, <2>2 DEF Range
<1> QED
  BY <1>2, <1>4, <1>5

\* A loop that makes an operation of each index.
LEMMA LoopIs ==
  ASSUME NEW S, NEW n \in Int, NEW f, f = [i \in 1 .. n |-> f[i]],
         \A i \in 1 .. n : f[i] \in S
  PROVE  f \in Seq(S) /\ Range(f) = {f[i] : i \in 1 .. n}
<1>1. Range(f) = {f[i] : i \in 1 .. n}
  BY DEF Range
<1> DEFINE m == IF n >= 0 THEN n ELSE 0
<1>2. m \in Nat /\ 1 .. n = 1 .. m
  OBVIOUS
<1> HIDE DEF m
<1>3. f \in [1 .. m -> S]
  BY <1>2
<1>4. f \in Seq(S)
  BY <1>2, <1>3, SeqDef
<1> QED
  BY <1>1, <1>4

FileOps == [kind : {"write", "unlink", "skip"}, seg : Nat \ {0}, text : Seq(Int), keep : Nat]

\* The unlinks of a plan, as a set.
LEMMA UnlinksFacts ==
  ASSUME NEW first \in Nat \ {0}, NEW last \in Int
  PROVE  /\ Unlinks(first, last) \in Seq(FileOps)
         /\ Range(Unlinks(first, last)) = {UnlinkOp(s) : s \in first .. last}
<1> DEFINE n == last - first + 1
           f == [i \in 1 .. n |-> UnlinkOp(first + i - 1)]
<1>1. ASSUME NEW i \in 1 .. n  PROVE f[i] = UnlinkOp(first + i - 1) /\ first + i - 1 \in first .. last
  OBVIOUS
<1>2. \A s \in Nat \ {0} : UnlinkOp(s) \in FileOps
  BY EmptySeq DEF UnlinkOp, FileOps
<1>3. \A i \in 1 .. n : f[i] \in FileOps
  BY <1>1, <1>2
<1>4. n \in Int /\ f = [i \in 1 .. n |-> f[i]]
  OBVIOUS
<1>5. f \in Seq(FileOps) /\ Range(f) = {f[i] : i \in 1 .. n}
  <2> HIDE DEF f, n
  <2> QED
    BY <1>3, <1>4, LoopIs
<1>6. {f[i] : i \in 1 .. n} = {UnlinkOp(s) : s \in first .. last}
  <2>1. ASSUME NEW s \in first .. last  PROVE s - first + 1 \in 1 .. n /\ f[s - first + 1] = UnlinkOp(s)
    <3>1. s - first + 1 \in 1 .. n /\ first + (s - first + 1) - 1 = s
      OBVIOUS
    <3> QED
      BY <3>1
  <2>2. ASSUME NEW i \in 1 .. n  PROVE \E s \in first .. last : f[i] = UnlinkOp(s)
    BY <1>1
  <2> HIDE DEF f, n
  <2> QED
    BY <2>1, <2>2
<1>7. Unlinks(first, last) = f
  BY DEF Unlinks
<1> QED
  BY <1>5, <1>6, <1>7

-----------------------------------------------------------------------------
\* What an operation leaves in the files.

Rewritten(files, s, text) == [t \in DOMAIN files \union {s} |-> IF t = s THEN text ELSE files[t]]

\* The part of the file that an operation keeps is the beginning of its text.
Agrees(files, op) ==
  /\ op.keep <= Len(op.text) /\ OnDisk(files, op.seg) \in Seq(Int)
  /\ op.keep <= Len(OnDisk(files, op.seg)) =>
       \A i \in 1 .. op.keep : OnDisk(files, op.seg)[i] = op.text[i]

\* A write over a file whose kept part agrees with its text leaves a part of its text.
LEMMA AfterOpFacts ==
  ASSUME NEW files, NEW op \in FileOps, Agrees(files, op)
  PROVE  /\ Kept(files, op) \in 0 .. Len(op.text)
         /\ op.keep <= Len(OnDisk(files, op.seg)) => Kept(files, op) = op.keep
         /\ \A n \in Kept(files, op) .. Len(op.text) :
              AfterOp(files, op, n) = Rewritten(files, op.seg, SubSeq(op.text, 1, n))
<1> DEFINE disk == OnDisk(files, op.seg)
           kept == Kept(files, op)
           text == op.text
<1>1. op.keep \in Nat /\ text \in Seq(Int) /\ Len(text) \in Nat
  BY DEF FileOps
<1>2. disk \in Seq(Int) /\ Len(disk) \in Nat /\ op.keep <= Len(text)
  BY DEF Agrees
<1>3. /\ kept \in 0 .. Len(text) /\ kept <= Len(disk)
      /\ op.keep <= Len(disk) => kept = op.keep
      /\ \A i \in 1 .. kept : disk[i] = text[i]
  BY <1>1, <1>2, SMTT(60) DEF Kept, Agrees
<1> HIDE DEF disk, kept, text
<1>4. ASSUME NEW n \in kept .. Len(text)
      PROVE  SubSeq(disk, 1, kept) \o SubSeq(text, kept + 1, n) = SubSeq(text, 1, n)
  <2>1. /\ SubSeq(disk, 1, kept) \in Seq(Int) /\ Len(SubSeq(disk, 1, kept)) = kept
        /\ \A i \in 1 .. kept : SubSeq(disk, 1, kept)[i] = disk[i]
    <3>1. kept \in 0 .. Len(disk)
      BY <1>2, <1>3
    <3> QED
      BY <1>2, <3>1, SubSeqIs
  <2>2. /\ SubSeq(text, 1, kept) \in Seq(Int) /\ Len(SubSeq(text, 1, kept)) = kept
        /\ \A i \in 1 .. kept : SubSeq(text, 1, kept)[i] = text[i]
    BY <1>1, <1>3, SubSeqIs
  <2>3. \A i \in 1 .. kept : SubSeq(disk, 1, kept)[i] = SubSeq(text, 1, kept)[i]
    BY <1>3, <2>1, <2>2
  <2>4. SubSeq(disk, 1, kept) = SubSeq(text, 1, kept)
    <3> DEFINE x == SubSeq(disk, 1, kept)
               y == SubSeq(text, 1, kept)
    <3>1. x \in Seq(Int) /\ y \in Seq(Int) /\ Len(x) = Len(y) /\ \A i \in 1 .. Len(x) : x[i] = y[i]
      BY <2>1, <2>2, <2>3
    <3> HIDE DEF x, y
    <3>2. x = y
      BY <3>1, SeqEqual
    <3> QED
      BY <3>2 DEF x, y
  <2>5. SubSeq(text, 1, kept) \o SubSeq(text, kept + 1, n) = SubSeq(text, 1, n)
    <3>1. /\ 1 \in 1 .. Len(text) + 1 /\ kept \in 1 - 1 .. Len(text) /\ n \in kept .. Len(text)
      BY <1>1, <1>3
    <3> QED
      BY <1>1, <3>1, ConcatAdjacentSubSeq
  <2> QED
    BY <2>4, <2>5
<1>5. ASSUME NEW n \in kept .. Len(text)
      PROVE  AfterOp(files, op, n) = Rewritten(files, op.seg, SubSeq(op.text, 1, n))
  BY <1>4 DEF AfterOp, Rewritten, disk, kept, text
<1> QED
  BY <1>3, <1>5 DEF disk, kept, text

\* What an operation leaves when it ends and when it is cut.
LEMMA OpResults ==
  ASSUME NEW files, NEW op \in FileOps, op.kind = "write" => Agrees(files, op)
  PROVE  /\ op.kind = "write" => Applied(files, op) = Rewritten(files, op.seg, op.text)
         /\ op.kind = "unlink" => Applied(files, op) = Without(files, {op.seg})
         /\ op.kind = "skip" => Applied(files, op) = files
         /\ \A g \in CutShort(files, op) :
              \/ g = files
              \/ /\ op.kind = "write"
                 /\ \E n \in Kept(files, op) .. Len(op.text) :
                       g = Rewritten(files, op.seg, SubSeq(op.text, 1, n))
<1>1. CASE op.kind = "write"
  <2>1. /\ Kept(files, op) \in 0 .. Len(op.text)
        /\ \A n \in Kept(files, op) .. Len(op.text) :
             AfterOp(files, op, n) = Rewritten(files, op.seg, SubSeq(op.text, 1, n))
    BY <1>1, AfterOpFacts
  <2>2. op.text \in Seq(Int) /\ Len(op.text) \in Nat
    BY DEF FileOps
  <2>3. Len(op.text) \in Kept(files, op) .. Len(op.text) /\ SubSeq(op.text, 1, Len(op.text)) = op.text
    BY <2>1, <2>2, SubSeqFull
  <2>4. AfterOp(files, op, Len(op.text)) = Rewritten(files, op.seg, op.text)
    BY <2>1, <2>3
  <2> QED
    BY <1>1, <2>1, <2>4 DEF Applied, CutShort
<1>2. CASE op.kind = "unlink"
  BY <1>2 DEF Applied, CutShort
<1>3. CASE op.kind = "skip"
  BY <1>3 DEF Applied, CutShort
<1> QED
  BY <1>1, <1>2, <1>3 DEF FileOps

\* A text that can be the file of a segment.
IsText(calls, s, text) ==
  /\ Entries(text, Len(calls)) /\ Len(text) <= SegmentTurns
  /\ s > 1 => \A i \in 1 .. Len(text) : text[i] > 0
  /\ s = 1 => Formed(calls, text)

\* A part of a segment's text fits in the segment.
LEMMA TextPrefix ==
  ASSUME NEW calls, NEW s \in Nat \ {0}, NEW text, IsText(calls, s, text), NEW n \in 0 .. Len(text)
  PROVE  IsText(calls, s, SubSeq(text, 1, n))
<1> DEFINE t == SubSeq(text, 1, n)
<1>1. text \in Seq(Int) /\ Len(text) \in Nat /\ Len(text) <= SegmentTurns
  BY DEF IsText, Entries
<1>2. t \in Seq(Int) /\ Len(t) = n /\ (\A i \in 1 .. n : t[i] = text[i]) /\ IsPrefix(t, text)
  BY <1>1, SubSeqIs
<1> HIDE DEF t
<1>3. \A i \in 1 .. Len(t) : i \in 1 .. Len(text) /\ t[i] = text[i]
  BY <1>1, <1>2
<1>4. Entries(t, Len(calls))
  <2>1. Entries(text, Len(calls))
    BY DEF IsText
  <2> QED
    BY <1>2, <1>3, <2>1 DEF Entries
<1>5. Len(t) <= SegmentTurns
  BY <1>1, <1>2, SegmentAssumption
<1>6. s > 1 => \A i \in 1 .. Len(t) : t[i] > 0
  BY <1>3 DEF IsText
<1>7. s = 1 => Formed(calls, t)
  BY <1>1, <1>2, FormedPrefix DEF IsText
<1> QED
  BY <1>4, <1>5, <1>6, <1>7 DEF IsText, t

\* A segment rewritten with a text that fits leaves the files in order.
LEMMA RewrittenFiles ==
  ASSUME NEW calls, NEW files, IsFiles(calls, files), NEW s \in Nat \ {0},
         NEW text, IsText(calls, s, text)
  PROVE  IsFiles(calls, Rewritten(files, s, text))
<1> DEFINE g == Rewritten(files, s, text)
<1>1. DOMAIN g = DOMAIN files \union {s} /\ g[s] = text
      /\ \A t \in DOMAIN files : t # s => g[t] = files[t]
  BY DEF Rewritten
<1> HIDE DEF g
<1>2. Bounded(g)
  <2>1. PICK m \in Nat : DOMAIN files \subseteq 1 .. m
    BY DEF IsFiles, Bounded
  <2>2. DOMAIN g \subseteq 1 .. m + s /\ m + s \in Nat
    BY <1>1, <2>1
  <2> QED
    BY <2>2 DEF Bounded
<1>3. ASSUME NEW t \in DOMAIN g
      PROVE  /\ Entries(g[t], Len(calls)) /\ Len(g[t]) <= SegmentTurns
             /\ t > 1 => \A i \in 1 .. Len(g[t]) : g[t][i] > 0
             /\ t = 1 => Formed(calls, g[t])
  <2>1. CASE t = s
    BY <1>1, <2>1 DEF IsText
  <2>2. CASE t # s
    BY <1>1, <2>2 DEF IsFiles
  <2> QED
    BY <2>1, <2>2
<1>4. IsFiles(calls, g)
  BY <1>2, <1>3 DEF IsFiles
<1> QED
  BY <1>4 DEF g

\* Unlinking segments leaves the files in order.
LEMMA WithoutFiles ==
  ASSUME NEW calls, NEW files, IsFiles(calls, files), NEW S
  PROVE  /\ IsFiles(calls, Without(files, S))
         /\ DOMAIN Without(files, S) = DOMAIN files \ S
         /\ \A s \in DOMAIN files \ S : Without(files, S)[s] = files[s]
<1> DEFINE g == Without(files, S)
<1>1. DOMAIN g = DOMAIN files \ S /\ \A s \in DOMAIN files \ S : g[s] = files[s]
  BY DEF Without
<1> HIDE DEF g
<1>2. Bounded(g)
  BY <1>1 DEF IsFiles, Bounded
<1>3. IsFiles(calls, g)
  BY <1>1, <1>2 DEF IsFiles
<1> QED
  BY <1>1, <1>3 DEF g

\* The chunk of a log fits in its segment.
LEMMA ChunkText ==
  ASSUME NEW calls, NEW log, IsLog(calls, log), NEW s \in 1 .. Chunks(log)
  PROVE  IsText(calls, s, Chunk(log, s))
<1> DEFINE c == Chunk(log, s)
<1>1. log \in Seq(Int) /\ Entries(log, Len(calls)) /\ Formed(calls, log) /\ Len(log) \in Nat
  BY DEF IsLog, Entries
<1>2. /\ Before(s) \in 0 .. Len(log) /\ c \in Seq(Int) /\ Len(c) <= SegmentTurns
      /\ Before(s) + Len(c) <= Len(log)
      /\ c = SubSeq(log, Before(s) + 1, Before(s) + Len(c))
      /\ \A i \in 1 .. Len(c) : c[i] = log[Before(s) + i]
  BY <1>1, ChunkFacts
<1>3. s \in Nat \ {0} /\ s - 1 <= Before(s) /\ Before(1) = 0
  <2>1. Chunks(log) \in Nat
    BY <1>1, ChunksFacts
  <2> QED
    BY <2>1, BeforeFacts
<1> HIDE DEF c
<1>4. ASSUME NEW i \in 1 .. Len(c)
      PROVE  c[i] # 0 /\ -Len(calls) <= c[i] /\ c[i] <= Len(calls) /\ c[i] \in Int
             /\ (c[i] < 0 => Before(s) + i = 1)
  <2>1. Before(s) + i \in 1 .. Len(log)
    <3> DEFINE b == Before(s)
    <3>1. b \in Nat /\ Len(c) \in Nat /\ b + Len(c) <= Len(log) /\ Len(log) \in Nat
      BY <1>1, <1>2
    <3> HIDE DEF b
    <3>2. b + i \in 1 .. Len(log)
      BY <3>1
    <3> QED
      BY <3>2 DEF b
  <2>2. c[i] = log[Before(s) + i]
    BY <1>2
  <2> QED
    BY <1>1, <2>1, <2>2 DEF Entries
<1>5. Entries(c, Len(calls))
  <2>1. \A i \in 1 .. Len(c) : c[i] < 0 => i = 1
    BY <1>2, <1>3, <1>4
  <2> QED
    BY <1>2, <1>4, <2>1 DEF Entries
<1>6. s > 1 => \A i \in 1 .. Len(c) : c[i] > 0
  <2> SUFFICES ASSUME s > 1, NEW i \in 1 .. Len(c)  PROVE c[i] > 0
    OBVIOUS
  <2>1. Before(s) + i # 1
    BY <1>2, <1>3
  <2> QED
    BY <1>4, <2>1
<1>7. s = 1 => Formed(calls, c)
  <2> SUFFICES ASSUME s = 1  PROVE Formed(calls, c)
    OBVIOUS
  <2>1. Len(c) \in 0 .. Len(log) /\ \A i \in 1 .. Len(c) : c[i] = log[i]
    BY <1>1, <1>2, <1>3
  <2>2. IsPrefix(c, log)
    BY <1>1, <1>2, <2>1, PrefixIs, SMTT(60)
  <2> QED
    BY <1>1, <1>2, <2>2, FormedPrefix
<1> QED
  BY <1>2, <1>5, <1>6, <1>7 DEF IsText, c

-----------------------------------------------------------------------------
\* The write of a log, from its plan to its last operation.

Whole(files, log, s) == s \in DOMAIN files /\ files[s] = Chunk(log, s)
HasOp(ops, kind, s) == \E op \in Range(ops) : op.kind = kind /\ op.seg = s

\* The files hold a log and may hold more behind it.
Begun(calls, files, log) ==
  /\ \A s \in 1 .. Chunks(log) - 1 : Whole(files, log, s)
  /\ Chunks(log) \in DOMAIN files /\ IsPrefix(Chunk(log, Chunks(log)), files[Chunks(log)])
  /\ Formed(calls, Concatenated(files, Chunks(log)))

\* They hold it and nothing else.
Exact(files, log) ==
  DOMAIN files = 1 .. Chunks(log) /\ \A s \in 1 .. Chunks(log) : files[s] = Chunk(log, s)

OpOK(files, before, log, over, op) ==
  /\ op.kind = "write" =>
       /\ op.seg \in 1 .. Chunks(log) /\ op.text = Chunk(log, op.seg) /\ Agrees(files, op)
       /\ before # <<>> /\ ~over =>
            /\ op.seg >= Chunks(before)
            /\ op.seg = Chunks(before) => op.keep = Len(Chunk(before, Chunks(before)))
  /\ op.kind = "unlink" => op.seg > Chunks(log)
  /\ op.kind # "skip"

\* What is left to do for a log when the writer remembers the one before.
Planned(files, before, log, ops, over, torn) ==
  /\ ops \in Seq(FileOps)
  /\ \A op \in Range(ops) : OpOK(files, before, log, over, op)
  /\ log = before => ops = <<>>
  /\ log # before => \A s \in 1 .. Chunks(log) : Whole(files, log, s) \/ HasOp(ops, "write", s)
  /\ \A s \in DOMAIN files : s > Chunks(log) => HasOp(ops, "unlink", s) \/ (before # <<>> /\ torn)

\* Every file is one of before or holds turns of the log.
Between(files, g, log) ==
  \A s \in DOMAIN g :
    \/ s \in DOMAIN files /\ g[s] = files[s]
    \/ s \in 1 .. Chunks(log) /\ g[s] \in Seq(Int) /\ IsPrefix(g[s], Chunk(log, s))

\* Applying the first operation of a plan leaves the plan of the rest, and files between
\* the old and the new log.
LEMMA PlannedApplied ==
  ASSUME NEW calls, CallsOK(calls), NEW files, IsFiles(calls, files), NEW log, IsLog(calls, log),
         NEW before, NEW ops, NEW over, NEW torn, Planned(files, before, log, ops, over, torn),
         ops # <<>>
  PROVE  /\ Head(ops) \in FileOps /\ OpOK(files, before, log, over, Head(ops))
         /\ IsFiles(calls, Applied(files, Head(ops)))
         /\ Planned(Applied(files, Head(ops)), before, log, Tail(ops), over, torn)
         /\ Between(files, Applied(files, Head(ops)), log)
<1> DEFINE op == Head(ops)
           g == Applied(files, op)
<1>1. op \in FileOps /\ Tail(ops) \in Seq(FileOps) /\ Range(ops) = {op} \union Range(Tail(ops))
  BY RangeHeadTail DEF Planned
<1>2. /\ OpOK(files, before, log, over, op) /\ log # before
      /\ \A x \in Range(Tail(ops)) : x \in FileOps /\ OpOK(files, before, log, over, x)
  BY <1>1, RangeOfSeq DEF Planned
<1>3. /\ op.kind = "write" => g = Rewritten(files, op.seg, op.text)
      /\ op.kind = "unlink" => g = Without(files, {op.seg})
      /\ op.kind \in {"write", "unlink"}
  BY <1>1, <1>2, OpResults DEF OpOK, FileOps
<1>4. log \in Seq(Int) /\ Chunks(log) \in Nat \ {0}
  BY ChunksFacts DEF IsLog, Entries
<1> HIDE DEF op, g
<1>5. CASE op.kind = "write"
  <2>1. op.seg \in 1 .. Chunks(log) /\ op.text = Chunk(log, op.seg) /\ op.seg \in Nat \ {0}
    BY <1>1, <1>2, <1>5 DEF OpOK, FileOps
  <2>2. IsText(calls, op.seg, op.text)
    BY <2>1, ChunkText
  <2>3. op.text \in Seq(Int)
    BY <2>2 DEF IsText, Entries
  <2>4. g = Rewritten(files, op.seg, op.text)
    BY <1>3, <1>5
  <2>5. IsFiles(calls, g)
    BY <2>1, <2>2, <2>4, RewrittenFiles
  <2>6. /\ DOMAIN g = DOMAIN files \union {op.seg} /\ g[op.seg] = op.text
        /\ \A s \in DOMAIN files : s # op.seg => g[s] = files[s]
    BY <2>4 DEF Rewritten
  <2>7. ASSUME NEW x \in Range(Tail(ops))  PROVE OpOK(g, before, log, over, x)
    <3>1. x \in FileOps /\ OpOK(files, before, log, over, x)
      BY <1>2
    <3>2. x.kind = "write" => Agrees(g, x)
      <4> SUFFICES ASSUME x.kind = "write"  PROVE Agrees(g, x)
        OBVIOUS
      <4>1. Agrees(files, x) /\ x.text = Chunk(log, x.seg)
        BY <3>1 DEF OpOK
      <4>2. CASE x.seg = op.seg
        <5>1. OnDisk(g, x.seg) = x.text
          BY <2>1, <2>6, <4>1, <4>2 DEF OnDisk
        <5> QED
          BY <2>1, <2>3, <4>1, <4>2, <5>1 DEF Agrees
      <4>3. CASE x.seg # op.seg
        <5>1. OnDisk(g, x.seg) = OnDisk(files, x.seg)
          BY <2>6, <4>3 DEF OnDisk
        <5> QED
          BY <4>1, <5>1 DEF Agrees
      <4> QED
        BY <4>2, <4>3
    <3> QED
      BY <3>1, <3>2 DEF OpOK
  <2>8. ASSUME NEW s \in 1 .. Chunks(log)
        PROVE  Whole(g, log, s) \/ HasOp(Tail(ops), "write", s)
    <3>1. CASE s = op.seg
      BY <2>1, <2>6, <3>1 DEF Whole
    <3>2. CASE s # op.seg
      <4>1. Whole(files, log, s) \/ HasOp(ops, "write", s)
        BY <1>2 DEF Planned
      <4>2. HasOp(ops, "write", s) => HasOp(Tail(ops), "write", s)
        BY <1>1, <3>2 DEF HasOp
      <4>3. Whole(files, log, s) => Whole(g, log, s)
        BY <2>6, <3>2 DEF Whole
      <4> QED
        BY <4>1, <4>2, <4>3
    <3> QED
      BY <3>1, <3>2
  <2>9. ASSUME NEW s \in DOMAIN g, s > Chunks(log)
        PROVE  HasOp(Tail(ops), "unlink", s) \/ (before # <<>> /\ torn)
    <3>1. s \in DOMAIN files
      BY <1>4, <2>1, <2>6, <2>9
    <3>2. HasOp(ops, "unlink", s) \/ (before # <<>> /\ torn)
      BY <2>9, <3>1 DEF Planned
    <3>3. HasOp(ops, "unlink", s) => HasOp(Tail(ops), "unlink", s)
      BY <1>1, <1>5 DEF HasOp
    <3> QED
      BY <3>2, <3>3
  <2>10. Planned(g, before, log, Tail(ops), over, torn)
    BY <1>1, <1>2, <2>7, <2>8, <2>9 DEF Planned
  <2>11. Between(files, g, log)
    <3>1. IsPrefix(op.text, Chunk(log, op.seg))
      BY <2>1, <2>3, PrefixItself
    <3>2. ASSUME NEW s \in DOMAIN g
          PROVE  \/ s \in DOMAIN files /\ g[s] = files[s]
                 \/ s \in 1 .. Chunks(log) /\ g[s] \in Seq(Int) /\ IsPrefix(g[s], Chunk(log, s))
      <4>1. CASE s = op.seg
        BY <2>1, <2>3, <2>6, <3>1, <4>1
      <4>2. CASE s # op.seg
        BY <2>6, <4>2
      <4> QED
        BY <4>1, <4>2
    <3> QED
      BY <3>2 DEF Between
  <2> QED
    BY <1>1, <1>2, <2>5, <2>10, <2>11 DEF op, g
<1>6. CASE op.kind = "unlink"
  <2>1. op.seg > Chunks(log) /\ op.seg \in Nat
    BY <1>1, <1>2, <1>6 DEF OpOK, FileOps
  <2>2. g = Without(files, {op.seg})
    BY <1>3, <1>6
  <2>3. /\ IsFiles(calls, g) /\ DOMAIN g = DOMAIN files \ {op.seg}
        /\ \A s \in DOMAIN g : g[s] = files[s]
    <3> DEFINE S == {op.seg}
    <3>1. g = Without(files, S) /\ S = {op.seg}
      BY <2>2
    <3> HIDE DEF S
    <3>2. /\ IsFiles(calls, Without(files, S)) /\ DOMAIN Without(files, S) = DOMAIN files \ S
          /\ \A s \in DOMAIN files \ S : Without(files, S)[s] = files[s]
      BY WithoutFiles, ZenonT(60)
    <3> QED
      BY <3>1, <3>2
  <2>4. ASSUME NEW x \in Range(Tail(ops))  PROVE OpOK(g, before, log, over, x)
    <3>1. x \in FileOps /\ OpOK(files, before, log, over, x)
      BY <1>2
    <3>2. x.kind = "write" => Agrees(g, x)
      <4> SUFFICES ASSUME x.kind = "write"  PROVE Agrees(g, x)
        OBVIOUS
      <4>1. Agrees(files, x) /\ x.seg \in 1 .. Chunks(log)
        BY <3>1 DEF OpOK
      <4>2. x.seg # op.seg
        BY <1>4, <2>1, <4>1
      <4>3. OnDisk(g, x.seg) = OnDisk(files, x.seg)
        BY <2>3, <4>2 DEF OnDisk
      <4> QED
        BY <4>1, <4>3 DEF Agrees
    <3> QED
      BY <3>1, <3>2 DEF OpOK
  <2>5. ASSUME NEW s \in 1 .. Chunks(log)
        PROVE  Whole(g, log, s) \/ HasOp(Tail(ops), "write", s)
    <3>1. Whole(files, log, s) \/ HasOp(ops, "write", s)
      BY <1>2 DEF Planned
    <3>2. HasOp(ops, "write", s) => HasOp(Tail(ops), "write", s)
      BY <1>1, <1>6 DEF HasOp
    <3>3. s # op.seg
      BY <1>4, <2>1
    <3>4. Whole(files, log, s) => Whole(g, log, s)
      BY <2>3, <3>3 DEF Whole
    <3> QED
      BY <3>1, <3>2, <3>4
  <2>6. ASSUME NEW s \in DOMAIN g, s > Chunks(log)
        PROVE  HasOp(Tail(ops), "unlink", s) \/ (before # <<>> /\ torn)
    <3>1. s \in DOMAIN files /\ s # op.seg
      BY <2>3
    <3>2. HasOp(ops, "unlink", s) \/ (before # <<>> /\ torn)
      BY <2>6, <3>1 DEF Planned
    <3>3. HasOp(ops, "unlink", s) => HasOp(Tail(ops), "unlink", s)
      BY <1>1, <3>1 DEF HasOp
    <3> QED
      BY <3>2, <3>3
  <2>7. Planned(g, before, log, Tail(ops), over, torn)
    BY <1>1, <1>2, <2>4, <2>5, <2>6 DEF Planned
  <2>8. Between(files, g, log)
    BY <2>3 DEF Between
  <2> QED
    BY <1>1, <1>2, <2>3, <2>7, <2>8 DEF op, g
<1> QED
  BY <1>3, <1>5, <1>6

\* Cutting the first operation of a plan leaves files between the old and the new log.
LEMMA PlannedCut ==
  ASSUME NEW calls, CallsOK(calls), NEW files, IsFiles(calls, files), NEW log, IsLog(calls, log),
         NEW before, NEW over, NEW op \in FileOps, OpOK(files, before, log, over, op),
         NEW g \in CutShort(files, op)
  PROVE  IsFiles(calls, g) /\ Between(files, g, log)
<1>0. op.kind = "write" => Agrees(files, op)
  BY DEF OpOK
<1>1. CASE g = files
  BY <1>1 DEF Between
<1>2. CASE g # files
  <2>1. op.kind = "write" /\ \E n \in Kept(files, op) .. Len(op.text) :
                               g = Rewritten(files, op.seg, SubSeq(op.text, 1, n))
    BY <1>0, <1>2, OpResults, ZenonT(60)
  <2>2. PICK n \in Kept(files, op) .. Len(op.text) : g = Rewritten(files, op.seg, SubSeq(op.text, 1, n))
    BY <2>1
  <2> DEFINE t == SubSeq(op.text, 1, n)
  <2>3. op.seg \in 1 .. Chunks(log) /\ op.text = Chunk(log, op.seg) /\ op.seg \in Nat \ {0}
    BY <2>1 DEF OpOK, FileOps
  <2>4. IsText(calls, op.seg, op.text) /\ op.text \in Seq(Int)
    BY <2>3, ChunkText DEF IsText, Entries
  <2>5. n \in 0 .. Len(op.text)
    <3>1. Kept(files, op) \in 0 .. Len(op.text)
      BY <1>0, <2>1, AfterOpFacts
    <3> QED
      BY <2>4, <3>1
  <2>6. IsText(calls, op.seg, t) /\ t \in Seq(Int) /\ IsPrefix(t, op.text)
    BY <2>3, <2>4, <2>5, TextPrefix, SubSeqIs
  <2> HIDE DEF t
  <2>7. IsFiles(calls, g)
    BY <2>2, <2>3, <2>6, RewrittenFiles DEF t
  <2>8. /\ DOMAIN g = DOMAIN files \union {op.seg} /\ g[op.seg] = t
        /\ \A s \in DOMAIN files : s # op.seg => g[s] = files[s]
    BY <2>2 DEF Rewritten, t
  <2>9. ASSUME NEW s \in DOMAIN g
        PROVE  \/ s \in DOMAIN files /\ g[s] = files[s]
               \/ s \in 1 .. Chunks(log) /\ g[s] \in Seq(Int) /\ IsPrefix(g[s], Chunk(log, s))
    <3>1. CASE s = op.seg
      BY <2>3, <2>6, <2>8, <3>1
    <3>2. CASE s # op.seg
      BY <2>8, <3>2
    <3> QED
      BY <3>1, <3>2
  <2> QED
    BY <2>7, <2>9 DEF Between
<1> QED
  BY <1>1, <1>2

\* Logs that begin alike are cut alike.
LEMMA ChunkAgrees ==
  ASSUME NEW a \in Seq(Int), NEW b \in Seq(Int), NEW s \in Nat \ {0},
         Before(s + 1) <= Len(a), Before(s + 1) <= Len(b),
         \A i \in 1 .. Before(s + 1) : a[i] = b[i]
  PROVE  s <= Chunks(a) /\ s <= Chunks(b) /\ Chunk(a, s) = Chunk(b, s) /\ Len(Chunk(a, s)) = SegmentTurns
<1> DEFINE q == Before(s)
<1>1. SegmentTurns \in Nat /\ SegmentTurns # 0
  BY SegmentAssumption
<1>2. q \in Nat /\ Before(s + 1) = q + SegmentTurns
  BY BeforeFacts
<1>3. ASSUME NEW c \in Seq(Int), Before(s + 1) <= Len(c)  PROVE s \in 1 .. Chunks(c)
  <2>1. Chunks(c) \in Nat \ {0} /\ Len(c) <= Before(Chunks(c) + 1) /\ Len(c) \in Nat
    BY <1>3, ChunksFacts
  <2>2. ASSUME Chunks(c) < s  PROVE FALSE
    <3>1. Before(Chunks(c) + 1) <= q /\ Before(Chunks(c) + 1) \in Nat
      <4>1. Chunks(c) \in Nat \ {0} /\ Chunks(c) + 1 \in Nat \ {0}
        BY <2>1
      <4>2. Before(Chunks(c) + 1) <= Before(s)
        BY <2>2, <4>1, BeforeLess
      <4>3. Before(Chunks(c) + 1) \in Nat
        BY <4>1, BeforeFacts
      <4> QED
        BY <4>2, <4>3
    <3> QED
      BY <1>1, <1>2, <1>3, <2>1, <3>1
  <2> QED
    BY <2>1, <2>2
<1>4. s \in 1 .. Chunks(a) /\ s \in 1 .. Chunks(b)
  BY <1>3
<1> DEFINE x == Chunk(a, s)
           y == Chunk(b, s)
<1>5. x \in Seq(Int) /\ Len(x) = SegmentTurns /\ \A i \in 1 .. Len(x) : x[i] = a[q + i]
  BY <1>4, ChunkFacts
<1>6. y \in Seq(Int) /\ Len(y) = SegmentTurns /\ \A i \in 1 .. Len(y) : y[i] = b[q + i]
  BY <1>4, ChunkFacts
<1> HIDE DEF x, y, q
<1>7. ASSUME NEW i \in 1 .. SegmentTurns  PROVE x[i] = y[i]
  <2>1. q + i \in 1 .. Before(s + 1)
    BY <1>1, <1>2
  <2> QED
    BY <1>5, <1>6, <2>1
<1>8. x = y
  BY <1>5, <1>6, <1>7, SeqEqual
<1> QED
  BY <1>4, <1>5, <1>8 DEF x, y

\* A log that extends another keeps all of its segments but the last one.
LEMMA ChunksGrow ==
  ASSUME NEW a \in Seq(Int), NEW b \in Seq(Int), IsPrefix(a, b)
  PROVE  /\ Chunks(a) <= Chunks(b)
         /\ \A s \in 1 .. Chunks(a) - 1 : Chunk(a, s) = Chunk(b, s)
         /\ \A i \in 1 .. Len(Chunk(a, Chunks(a))) :
               i <= Len(Chunk(b, Chunks(a))) => Chunk(a, Chunks(a))[i] = Chunk(b, Chunks(a))[i]
<1> DEFINE c == Chunks(a)
<1>1. Len(a) \in Nat /\ Len(b) \in Nat /\ Len(a) <= Len(b) /\ \A i \in 1 .. Len(a) : a[i] = b[i]
  BY PrefixIs
<1>2. /\ c \in Nat \ {0} /\ Len(a) <= Before(c + 1) /\ Before(c) <= Len(a)
      /\ a # <<>> => Before(c) < Len(a)
      /\ Chunks(b) \in Nat \ {0} /\ Len(b) <= Before(Chunks(b) + 1)
  BY ChunksFacts
<1>3. c <= Chunks(b)
  <2>1. CASE a = <<>>
    <3>1. Len(a) = 0
      BY <2>1, EmptySeq
    <3>2. c = 1
      <4>1. ASSUME c > 1  PROVE FALSE
        <5>1. c - 1 <= Before(c) /\ Before(c) \in Nat
          BY <1>2, BeforeFacts
        <5> QED
          BY <1>2, <3>1, <4>1, <5>1
      <4> QED
        BY <1>2, <4>1
    <3> QED
      BY <1>2, <3>2
  <2>2. CASE a # <<>>
    <3>1. ASSUME Chunks(b) < c  PROVE FALSE
      <4>1. Chunks(b) + 1 \in Nat \ {0}
        BY <1>2
      <4>2. Before(Chunks(b) + 1) <= Before(c) /\ Before(c) \in Nat /\ Before(Chunks(b) + 1) \in Nat
        BY <1>2, <3>1, <4>1, BeforeLess, BeforeFacts
      <4> QED
        BY <1>1, <1>2, <2>2, <4>2
    <3> QED
      BY <1>2, <3>1
  <2> QED
    BY <2>1, <2>2
<1>4. ASSUME NEW s \in 1 .. c - 1  PROVE Chunk(a, s) = Chunk(b, s)
  <2>1. s \in Nat \ {0} /\ s < c
    BY <1>2
  <2>2. Before(s + 1) <= Before(c) /\ Before(s + 1) \in Nat /\ Before(c) \in Nat
    <3>1. s + 1 \in Nat \ {0}
      BY <2>1
    <3> QED
      BY <1>2, <2>1, <3>1, BeforeLess, BeforeFacts
  <2>3. Before(s + 1) <= Len(a)
    BY <1>1, <1>2, <2>2
  <2>4. Before(s + 1) <= Len(b) /\ \A i \in 1 .. Before(s + 1) : a[i] = b[i]
    BY <1>1, <2>2, <2>3
  <2> QED
    BY <2>1, <2>3, <2>4, ChunkAgrees
<1>5. ASSUME NEW i \in 1 .. Len(Chunk(a, c)), i <= Len(Chunk(b, c))
      PROVE  Chunk(a, c)[i] = Chunk(b, c)[i]
  <2>1. c \in 1 .. Chunks(a) /\ c \in 1 .. Chunks(b)
    BY <1>2, <1>3
  <2> DEFINE x == Chunk(a, c)
             y == Chunk(b, c)
             q == Before(c)
  <2>2. /\ x \in Seq(Int) /\ q \in 0 .. Len(a) /\ q + Len(x) <= Len(a)
        /\ \A j \in 1 .. Len(x) : x[j] = a[q + j]
    BY <2>1, ChunkFacts
  <2>3. y \in Seq(Int) /\ \A j \in 1 .. Len(y) : y[j] = b[q + j]
    BY <2>1, ChunkFacts
  <2>4. i \in 1 .. Len(x) /\ i <= Len(y) /\ Len(x) \in Nat /\ Len(y) \in Nat
    BY <1>5, <2>2, <2>3, SMTT(60)
  <2> HIDE DEF x, y, q
  <2>5. i \in 1 .. Len(y) /\ q + i \in 1 .. Len(a)
    BY <1>1, <2>2, <2>4
  <2>6. x[i] = a[q + i] /\ y[i] = b[q + i] /\ a[q + i] = b[q + i]
    BY <1>1, <2>2, <2>3, <2>4, <2>5
  <2> QED
    BY <2>6 DEF x, y
<1> QED
  BY <1>3, <1>4, <1>5

\* An append leaves what the writer remembers in the files, wherever it stops.
LEMMA BegunRewritten ==
  ASSUME NEW calls, NEW files, IsFiles(calls, files), NEW log, IsLog(calls, log),
         NEW before \in Seq(Int), before # <<>>, IsPrefix(before, log), Begun(calls, files, before),
         NEW op \in FileOps, op.kind = "write", OpOK(files, before, log, FALSE, op),
         NEW n \in Kept(files, op) .. Len(op.text)
  PROVE  Begun(calls, Rewritten(files, op.seg, SubSeq(op.text, 1, n)), before)
<1> DEFINE c == Chunks(before)
           t == SubSeq(op.text, 1, n)
           g == Rewritten(files, op.seg, t)
<1>1. log \in Seq(Int) /\ Formed(calls, log)
  BY DEF IsLog, Entries
<1>2. /\ op.seg \in 1 .. Chunks(log) /\ op.text = Chunk(log, op.seg) /\ Agrees(files, op)
      /\ op.seg >= c /\ (op.seg = c => op.keep = Len(Chunk(before, c)))
  BY DEF OpOK
<1>3. c \in Nat \ {0} /\ Chunks(log) \in Nat \ {0} /\ c \in 1 .. Chunks(before)
  BY <1>1, ChunksFacts
<1>4. /\ c <= Chunks(log) /\ \A s \in 1 .. c - 1 : Chunk(before, s) = Chunk(log, s)
      /\ \A i \in 1 .. Len(Chunk(before, c)) :
            i <= Len(Chunk(log, c)) => Chunk(before, c)[i] = Chunk(log, c)[i]
  BY <1>1, ChunksGrow
<1>5. op.text \in Seq(Int) /\ Len(op.text) \in Nat
  BY DEF FileOps
<1>6. n \in 0 .. Len(op.text) /\ (op.keep <= Len(OnDisk(files, op.seg)) => Kept(files, op) = op.keep)
      /\ Kept(files, op) \in Nat
  BY <1>2, <1>5, AfterOpFacts
<1>7. t \in Seq(Int) /\ Len(t) = n /\ (\A i \in 1 .. n : t[i] = op.text[i]) /\ IsPrefix(t, op.text)
  BY <1>5, <1>6, SubSeqIs
<1>8. /\ DOMAIN g = DOMAIN files \union {op.seg} /\ g[op.seg] = t
      /\ \A s \in DOMAIN files : s # op.seg => g[s] = files[s]
  BY DEF Rewritten
<1>9. /\ \A s \in 1 .. c - 1 : s \in DOMAIN files /\ files[s] = Chunk(before, s)
      /\ c \in DOMAIN files /\ IsPrefix(Chunk(before, c), files[c])
      /\ Formed(calls, Concatenated(files, c))
  BY DEF Begun, Whole
<1>10. Chunk(before, c) \in Seq(Int) /\ files[c] \in Seq(Int)
  BY <1>3, <1>9, ChunkFacts DEF IsFiles, Entries
<1> HIDE DEF c, t, g
<1>11. \A s \in 1 .. c - 1 : s # op.seg /\ s \in DOMAIN g /\ g[s] = Chunk(before, s)
  BY <1>2, <1>3, <1>8, <1>9
<1>12. CASE op.seg = c
  <2>1. Len(Chunk(before, c)) <= Len(files[c]) /\ OnDisk(files, op.seg) = files[c]
    BY <1>9, <1>10, <1>12, PrefixIs DEF OnDisk
  <2>2. Kept(files, op) = Len(Chunk(before, c)) /\ Len(Chunk(before, c)) <= n
    BY <1>2, <1>5, <1>6, <1>12, <2>1
  <2>3. IsPrefix(Chunk(before, c), t)
    <3>1. ASSUME NEW i \in 1 .. Len(Chunk(before, c))  PROVE Chunk(before, c)[i] = t[i]
      <4>1. i \in 1 .. n /\ i <= Len(Chunk(log, c)) /\ op.text = Chunk(log, c)
        BY <1>2, <1>5, <1>6, <1>10, <1>12, <2>2
      <4> QED
        BY <1>4, <1>7, <4>1
    <3> QED
      BY <1>7, <1>10, <2>2, <3>1, PrefixIs
  <2>4. Formed(calls, Concatenated(g, c))
    <3>1. c \in 1 .. Chunks(log) /\ \A s \in 1 .. c - 1 : g[s] = Chunk(log, s)
      BY <1>3, <1>4, <1>11
    <3>2. g[c] \in Seq(Int) /\ IsPrefix(g[c], Chunk(log, c))
      BY <1>2, <1>7, <1>8, <1>12
    <3>3. Concatenated(g, c) \in Seq(Int) /\ IsPrefix(Concatenated(g, c), log)
      BY <1>1, <3>1, <3>2, ConcatenatedCut
    <3> QED
      BY <1>1, <3>3, FormedPrefix
  <2>5. c \in DOMAIN g /\ g[c] = t
    BY <1>8, <1>12
  <2>6. Begun(calls, g, before)
    BY <1>11, <2>3, <2>4, <2>5 DEF Begun, Whole, c
  <2> QED
    BY <2>6 DEF g, t
<1>13. CASE op.seg # c
  <2>1. c \in DOMAIN g /\ g[c] = files[c]
    BY <1>8, <1>9, <1>13
  <2>2. \A s \in 1 .. c : g[s] = files[s]
    <3>1. \A s \in 1 .. c : s \in 1 .. c - 1 \/ s = c
      BY <1>3
    <3> QED
      BY <1>9, <1>11, <2>1, <3>1
  <2>3. Concatenated(g, c) = Concatenated(files, c)
    BY <1>3, <2>2, ConcatenatedSame
  <2>4. Begun(calls, g, before)
    BY <1>9, <1>11, <2>1, <2>3 DEF Begun, Whole, c
  <2> QED
    BY <2>4 DEF g, t
<1> QED
  BY <1>12, <1>13

-----------------------------------------------------------------------------
\* The plan of a write.

\* The names of Plan's definitions, of a writer that remembers before.
FirstOf(before, log) == Max({s \in 1 .. Chunks(before) : Before(s) <= CommonPrefix(before, log)})
KeepOf(before, log, s) ==
  IF s = FirstOf(before, log) THEN CommonPrefix(before, log) - Before(s) ELSE 0
UntouchedOf(before, log) ==
  LET first == FirstOf(before, log)
  IN  before # <<>> /\ {Len(Chunk(before, first)), Len(Chunk(log, first))} = {KeepOf(before, log, first)}
StartOf(before, log) ==
  IF UntouchedOf(before, log) THEN FirstOf(before, log) + 1 ELSE FirstOf(before, log)
WritesOf(before, log) ==
  LET start == StartOf(before, log)
  IN  [i \in 1 .. Chunks(log) - start + 1 |->
         WriteOp(start + i - 1, Chunk(log, start + i - 1), KeepOf(before, log, start + i - 1))]

\* A plan is its writes followed by the unlinks of the tails.
LEMMA PlanIs ==
  ASSUME NEW log
  PROVE  Plan(log) = WritesOf(writer, log)
                     \o Unlinks(Chunks(log) + 1, IF writer = <<>> THEN Highest(segments) ELSE Chunks(writer))
BY DEF Plan, WritesOf, StartOf, UntouchedOf, KeepOf, FirstOf

\* The first segment a plan rewrites is the one the common prefix ends in.
LEMMA FirstFacts ==
  ASSUME NEW before \in Seq(Int), NEW log \in Seq(Int)
  PROVE  /\ FirstOf(before, log) \in 1 .. Chunks(before)
         /\ Before(FirstOf(before, log)) <= CommonPrefix(before, log)
         /\ CommonPrefix(before, log) <= Before(FirstOf(before, log) + 1)
         /\ FirstOf(before, log) < Chunks(before) =>
              CommonPrefix(before, log) < Before(FirstOf(before, log) + 1)
         /\ CommonPrefix(before, log) = Len(before) => FirstOf(before, log) = Chunks(before)
<1> DEFINE p == CommonPrefix(before, log)
           S == {s \in 1 .. Chunks(before) : Before(s) <= p}
           m == Max(S)
<1>1. p \in 0 .. Len(before)
  BY CommonPrefixFacts
<1>2. /\ Chunks(before) \in Nat \ {0} /\ Len(before) <= Before(Chunks(before) + 1)
      /\ Before(Chunks(before)) <= Len(before) /\ Len(before) \in Nat
  BY ChunksFacts
<1>3. Before(1) = 0
  BY BeforeFacts
<1> HIDE DEF p
<1>4. 1 \in S /\ S \subseteq 0 .. Chunks(before)
  BY <1>1, <1>2, <1>3
<1>5. m \in S /\ \A x \in S : x <= m
  <2> HIDE DEF S
  <2> QED
    BY <1>2, <1>4, MaxOf
<1>6. m \in 1 .. Chunks(before) /\ Before(m) <= p
  BY <1>5
<1>7. m < Chunks(before) => p < Before(m + 1)
  <2> SUFFICES ASSUME m < Chunks(before), ~(p < Before(m + 1))  PROVE FALSE
    OBVIOUS
  <2> HIDE DEF m
  <2>1. m + 1 \in 1 .. Chunks(before) /\ m + 1 \in Nat \ {0} /\ m \in Nat
    BY <1>2, <1>6
  <2>2. Before(m + 1) \in Nat
    BY <2>1, BeforeFacts
  <2>3. m + 1 \in S
    BY <1>1, <2>1, <2>2
  <2>4. m + 1 <= m
    BY <1>5, <2>3 DEF m
  <2> QED
    BY <2>1, <2>4
<1>8. p = Len(before) => m = Chunks(before)
  <2> SUFFICES ASSUME p = Len(before)  PROVE m = Chunks(before)
    OBVIOUS
  <2>1. Chunks(before) \in S
    BY <1>2
  <2>2. Chunks(before) <= m
    BY <1>5, <2>1
  <2> HIDE DEF m
  <2> QED
    BY <1>2, <1>6, <2>2
<1> HIDE DEF m
<1>9. p <= Before(m + 1)
  <2>1. m + 1 \in Nat \ {0} /\ m \in Nat
    BY <1>2, <1>6
  <2>2. Before(m + 1) \in Nat
    BY <2>1, BeforeFacts
  <2>3. CASE m < Chunks(before)
    BY <1>1, <1>7, <2>2, <2>3
  <2>4. CASE m = Chunks(before)
    BY <1>1, <1>2, <2>2, <2>4
  <2> QED
    BY <1>2, <1>6, <2>3, <2>4
<1>10. FirstOf(before, log) = m
  BY DEF FirstOf, m, S, p
<1> QED
  BY <1>6, <1>7, <1>8, <1>9, <1>10 DEF p

\* The writes of a plan, as a set: one for each segment from the first that changes.
LEMMA WritesFacts ==
  ASSUME NEW before \in Seq(Int), NEW log \in Seq(Int)
  PROVE  /\ StartOf(before, log) \in Nat \ {0}
         /\ WritesOf(before, log) \in Seq(FileOps)
         /\ Range(WritesOf(before, log)) =
              {WriteOp(s, Chunk(log, s), KeepOf(before, log, s)) : s \in StartOf(before, log) .. Chunks(log)}
<1> DEFINE start == StartOf(before, log)
           n == Chunks(log) - start + 1
           f == [i \in 1 .. n |->
                   WriteOp(start + i - 1, Chunk(log, start + i - 1), KeepOf(before, log, start + i - 1))]
<1>1. /\ FirstOf(before, log) \in 1 .. Chunks(before)
      /\ Before(FirstOf(before, log)) <= CommonPrefix(before, log)
  BY FirstFacts
<1>2. Chunks(before) \in Nat \ {0} /\ Chunks(log) \in Nat \ {0}
  BY ChunksFacts
<1>3. start \in Nat \ {0} /\ n \in Int
  BY <1>1, <1>2 DEF StartOf
<1>4. \A s \in 1 .. Chunks(log) : KeepOf(before, log, s) \in Nat /\ Chunk(log, s) \in Seq(Int)
  <2>1. CommonPrefix(before, log) \in Nat
    BY CommonPrefixFacts
  <2>2. Before(FirstOf(before, log)) \in Nat
    BY <1>1, <1>2, BeforeFacts, SMTT(60)
  <2>3. CommonPrefix(before, log) - Before(FirstOf(before, log)) \in Nat
    BY <1>1, <2>1, <2>2
  <2>4. \A s \in 1 .. Chunks(log) : KeepOf(before, log, s) \in Nat
    BY <2>3 DEF KeepOf
  <2> QED
    BY <2>4, ChunkFacts
<1> HIDE DEF start
<1>5. ASSUME NEW i \in 1 .. n
      PROVE  start + i - 1 \in start .. Chunks(log) /\ start + i - 1 \in 1 .. Chunks(log)
  BY <1>2, <1>3
<1>6. \A i \in 1 .. n : f[i] \in FileOps
  <2>1. ASSUME NEW s \in 1 .. Chunks(log)
        PROVE  WriteOp(s, Chunk(log, s), KeepOf(before, log, s)) \in FileOps
    BY <1>2, <1>4 DEF WriteOp, FileOps
  <2> QED
    BY <1>5, <2>1
<1>7. f \in Seq(FileOps) /\ Range(f) = {f[i] : i \in 1 .. n}
  <2>1. n \in Int
    BY <1>3
  <2>2. f = [i \in 1 .. n |-> f[i]]
    OBVIOUS
  <2>3. \A i \in 1 .. n : f[i] \in FileOps
    BY <1>6
  <2> HIDE DEF f, n
  <2>4. f \in Seq(FileOps)
    BY <2>1, <2>2, <2>3, LoopIs
  <2>5. Range(f) = {f[i] : i \in 1 .. n}
    BY <2>2 DEF Range
  <2> QED
    BY <2>4, <2>5
<1>8. {f[i] : i \in 1 .. n} = {WriteOp(s, Chunk(log, s), KeepOf(before, log, s)) : s \in start .. Chunks(log)}
  <2>1. ASSUME NEW s \in start .. Chunks(log)
        PROVE  s - start + 1 \in 1 .. n /\ f[s - start + 1] = WriteOp(s, Chunk(log, s), KeepOf(before, log, s))
    <3>1. s - start + 1 \in 1 .. n /\ start + (s - start + 1) - 1 = s
      BY <1>2, <1>3
    <3> QED
      BY <3>1
  <2>2. ASSUME NEW i \in 1 .. n
        PROVE  \E s \in start .. Chunks(log) : f[i] = WriteOp(s, Chunk(log, s), KeepOf(before, log, s))
    BY <1>5
  <2> HIDE DEF f, n
  <2> QED
    BY <2>1, <2>2
<1>9. WritesOf(before, log) = f
  BY DEF WritesOf, start
<1> QED
  BY <1>3, <1>7, <1>8, <1>9 DEF start

\* What is kept of the first segment is in both logs.
LEMMA KeepFacts ==
  ASSUME NEW before \in Seq(Int), NEW log \in Seq(Int), NEW s \in 1 .. Chunks(log)
  PROVE  /\ KeepOf(before, log, s) \in Nat /\ KeepOf(before, log, s) <= Len(Chunk(log, s))
         /\ KeepOf(before, log, s) > 0 =>
              /\ s \in 1 .. Chunks(before) /\ KeepOf(before, log, s) <= Len(Chunk(before, s))
              /\ before # <<>>
              /\ \A i \in 1 .. KeepOf(before, log, s) : Chunk(before, s)[i] = Chunk(log, s)[i]
<1> DEFINE p == CommonPrefix(before, log)
           first == FirstOf(before, log)
           keep == KeepOf(before, log, s)
           q == Before(s)
<1>1. /\ p \in 0 .. Len(before) /\ p <= Len(log) /\ \A i \in 1 .. p : before[i] = log[i]
      /\ Len(before) \in Nat /\ Len(log) \in Nat
  BY CommonPrefixFacts
<1>2. first \in 1 .. Chunks(before) /\ Before(first) <= p /\ p <= Before(first + 1)
  BY FirstFacts
<1>3. keep = IF s = first THEN p - Before(s) ELSE 0
  BY DEF KeepOf
<1>4. Chunk(log, s) \in Seq(Int) /\ Len(Chunk(log, s)) \in Nat
  BY ChunkFacts
<1>5. CASE s # first
  BY <1>3, <1>4, <1>5
<1>6. CASE s = first
  <2>1. s \in Nat \ {0} /\ s \in 1 .. Chunks(before)
    <3>1. Chunks(before) \in Nat
      BY ChunksFacts
    <3> QED
      BY <1>2, <1>6, <3>1
  <2>2. q \in Nat /\ Before(s + 1) = q + SegmentTurns
    BY <2>1, BeforeFacts
  <2> DEFINE x == Chunk(log, s)
             y == Chunk(before, s)
  <2>3. /\ x \in Seq(Int) /\ \A i \in 1 .. Len(x) : x[i] = log[q + i]
        /\ Len(x) = IF Before(s + 1) <= Len(log) THEN SegmentTurns ELSE Len(log) - q
    BY ChunkFacts
  <2>4. /\ y \in Seq(Int) /\ \A i \in 1 .. Len(y) : y[i] = before[q + i]
        /\ Len(y) = IF Before(s + 1) <= Len(before) THEN SegmentTurns ELSE Len(before) - q
    BY <2>1, ChunkFacts
  <2>5. q <= p /\ p <= q + SegmentTurns /\ keep = p - q
    BY <1>2, <1>3, <1>6, <2>2
  <2>6. Len(x) \in Nat /\ Len(y) \in Nat
    BY <2>3, <2>4
  <2> HIDE DEF x, y, q, p, keep, first
  <2>7. keep \in Nat /\ keep <= Len(x) /\ keep <= Len(y)
    BY <1>1, <2>2, <2>3, <2>4, <2>5, SegmentAssumption
  <2>8. ASSUME NEW i \in 1 .. keep  PROVE y[i] = x[i]
    <3>1. i \in 1 .. Len(x) /\ i \in 1 .. Len(y)
      BY <2>6, <2>7
    <3>2. p \in Nat /\ i \in 1 .. p - q
      BY <1>1, <2>5
    <3>3. q + i \in 1 .. p
      BY <2>2, <3>2
    <3> QED
      BY <1>1, <2>3, <2>4, <3>1, <3>3
  <2>9. keep > 0 => before # <<>>
    <3> SUFFICES ASSUME keep > 0, before = <<>>  PROVE FALSE
      OBVIOUS
    <3>1. Len(before) = 0
      BY EmptySeq
    <3> QED
      BY <1>1, <2>2, <2>5, <3>1
  <2> QED
    BY <2>1, <2>7, <2>8, <2>9 DEF x, y, keep
<1> QED
  BY <1>5, <1>6

\* Segments in front of the first one that is written are the same in both logs, and so
\* is a full one that nothing is added to.
LEMMA SameBefore ==
  ASSUME NEW before \in Seq(Int), NEW log \in Seq(Int), log # before,
         NEW s \in 1 .. Chunks(log), s < StartOf(before, log)
  PROVE  /\ before # <<>> /\ s \in 1 .. Chunks(before) /\ Chunk(before, s) = Chunk(log, s)
         /\ s < Chunks(before) \/ Len(Chunk(before, s)) = SegmentTurns
<1> DEFINE p == CommonPrefix(before, log)
           first == FirstOf(before, log)
<1>1. /\ p \in 0 .. Len(before) /\ p <= Len(log) /\ \A i \in 1 .. p : before[i] = log[i]
      /\ Len(before) \in Nat /\ Len(log) \in Nat
  BY CommonPrefixFacts
<1>2. /\ first \in 1 .. Chunks(before) /\ Before(first) <= p /\ p <= Before(first + 1)
      /\ first < Chunks(before) => p < Before(first + 1)
  BY FirstFacts
<1>3. Chunks(before) \in Nat \ {0} /\ Chunks(log) \in Nat \ {0}
  BY ChunksFacts
<1>4. s \in Nat \ {0} /\ SegmentTurns \in Nat \ {0}
  BY <1>3, SegmentAssumption
<1>5. CASE s < first
  <2>1. Before(s + 1) <= p
    <3>1. first \in Nat \ {0}
      BY <1>2, <1>3
    <3>2. Before(s + 1) <= Before(first) /\ Before(first) \in Nat
      BY <1>4, <1>5, <3>1, BeforeLess, BeforeFacts
    <3>3. Before(s + 1) \in Nat
      BY <1>4, BeforeFacts
    <3> HIDE DEF p, first
    <3> QED
      BY <1>1, <1>2, <3>2, <3>3
  <2>2. Before(s + 1) \in Nat /\ Before(s + 1) = Before(s) + SegmentTurns /\ Before(s) \in Nat
    BY <1>4, BeforeFacts
  <2> HIDE DEF p, first
  <2>3. /\ Before(s + 1) <= Len(before) /\ Before(s + 1) <= Len(log)
        /\ \A i \in 1 .. Before(s + 1) : before[i] = log[i]
    BY <1>1, <2>1, <2>2
  <2>4. Chunk(before, s) = Chunk(log, s)
    BY <1>4, <2>3, ChunkAgrees
  <2>5. before # <<>>
    <3> SUFFICES ASSUME before = <<>>  PROVE FALSE
      OBVIOUS
    <3>1. Len(before) = 0
      BY EmptySeq
    <3> QED
      BY <1>4, <2>2, <2>3, <3>1
  <2> QED
    BY <1>2, <1>3, <1>4, <1>5, <2>4, <2>5
<1>6. CASE ~(s < first)
  <2>1. UntouchedOf(before, log) /\ s = first
    <3> HIDE DEF first
    <3> QED
      BY <1>2, <1>3, <1>4, <1>6 DEF StartOf, first
  <2>2. /\ before # <<>> /\ Len(Chunk(before, s)) = p - Before(s) /\ Len(Chunk(log, s)) = p - Before(s)
    BY <2>1 DEF UntouchedOf, KeepOf
  <2>3. s \in 1 .. Chunks(before)
    BY <1>2, <2>1
  <2>4. /\ Before(s) \in Nat /\ Before(s + 1) = Before(s) + SegmentTurns
    BY <1>4, BeforeFacts
  <2>5. /\ Len(Chunk(before, s)) = IF Before(s + 1) <= Len(before) THEN SegmentTurns ELSE Len(before) - Before(s)
        /\ s < Chunks(before) => Before(s + 1) <= Len(before)
    BY <2>3, ChunkFacts
  <2>6. Len(Chunk(log, s)) = IF Before(s + 1) <= Len(log) THEN SegmentTurns ELSE Len(log) - Before(s)
    BY ChunkFacts
  <2>7. s < Chunks(before) => p < Before(s + 1)
    BY <1>2, <2>1
  <2> DEFINE q == Before(s)
             x == Len(Chunk(before, s))
             y == Len(Chunk(log, s))
  <2> HIDE DEF p, first
  <2>8. p = Before(s + 1)
    <3>1. ~(p = Len(before) /\ p = Len(log))
      <4> SUFFICES ASSUME p = Len(before), p = Len(log)  PROVE FALSE
        OBVIOUS
      <4>0. Len(before) = Len(log) /\ \A i \in 1 .. Len(before) : before[i] = log[i]
        BY <1>1
      <4>1. before = log
        BY <4>0, SeqEqual
      <4> QED
        BY <4>1
    <3> HIDE DEF q, x, y
    <3>2. /\ x = p - q /\ y = p - q /\ q \in Nat /\ Before(s + 1) = q + SegmentTurns
          /\ x = IF q + SegmentTurns <= Len(before) THEN SegmentTurns ELSE Len(before) - q
          /\ y = IF q + SegmentTurns <= Len(log) THEN SegmentTurns ELSE Len(log) - q
      BY <2>2, <2>4, <2>5, <2>6 DEF q, x, y
    <3>3. p \in Int /\ q \in Int /\ SegmentTurns \in Int /\ Len(before) \in Int /\ Len(log) \in Int
      BY <1>1, <1>4, <3>2
    <3>4. CASE q + SegmentTurns <= Len(before)
      <4>1. p - q = SegmentTurns
        BY <3>2, <3>4
      <4> QED
        BY <3>2, <3>3, <4>1
    <3>5. CASE q + SegmentTurns <= Len(log)
      <4>1. p - q = SegmentTurns
        BY <3>2, <3>5
      <4> QED
        BY <3>2, <3>3, <4>1
    <3>6. CASE ~(q + SegmentTurns <= Len(before)) /\ ~(q + SegmentTurns <= Len(log))
      <4>1. p - q = Len(before) - q /\ p - q = Len(log) - q
        BY <3>2, <3>6
      <4> QED
        BY <3>1, <3>3, <4>1
    <3> QED
      BY <3>4, <3>5, <3>6
  <2>9. /\ Before(s + 1) <= Len(before) /\ Before(s + 1) <= Len(log)
        /\ \A i \in 1 .. Before(s + 1) : before[i] = log[i]
    BY <1>1, <2>8
  <2>10. Chunk(before, s) = Chunk(log, s) /\ Len(Chunk(before, s)) = SegmentTurns
    BY <1>4, <2>9, ChunkAgrees
  <2> QED
    BY <2>2, <2>3, <2>10
<1> QED
  BY <1>5, <1>6

\* The last segment ends where the log does.
LEMMA LastChunk ==
  ASSUME NEW log \in Seq(Int)
  PROVE  /\ Chunks(log) \in 1 .. Chunks(log) /\ Before(Chunks(log)) \in Nat
         /\ Chunk(log, Chunks(log)) \in Seq(Int) /\ Len(Chunk(log, Chunks(log))) \in Nat
         /\ Before(Chunks(log)) + Len(Chunk(log, Chunks(log))) = Len(log)
<1>1. Chunks(log) \in Nat \ {0}
  BY ChunksFacts
<1>2. Chunks(log) \in 1 .. Chunks(log)
  BY <1>1
<1>3. /\ Chunk(log, Chunks(log)) \in Seq(Int) /\ Before(Chunks(log)) \in 0 .. Len(log)
      /\ Before(Chunks(log)) + Len(Chunk(log, Chunks(log))) = Len(log)
  BY <1>2, ChunkFacts
<1>4. Len(Chunk(log, Chunks(log))) \in Nat /\ Before(Chunks(log)) \in Nat
  BY <1>3
<1> QED
  BY <1>2, <1>3, <1>4

\* A plan with no operation is empty.
LEMMA RangeOfNone ==
  ASSUME NEW S, NEW s \in Seq(S), Range(s) = {}
  PROVE  s = <<>>
BY RangeHeadTail

\* A plan writes every segment that differs and unlinks the tails.
LEMMA PlanFacts ==
  ASSUME IsFiles(callOf, segments), writer \in Seq(Int), NEW log \in Seq(Int), log # <<>>,
         writer # <<>> => Begun(callOf, segments, writer),
         writer # <<>> /\ ~exposed => DOMAIN segments = 1 .. Chunks(writer)
  PROVE  Planned(segments, writer, log, Plan(log), WritesOver(log), exposed)
<1> DEFINE start == StartOf(writer, log)
           over == WritesOver(log)
           top == IF writer = <<>> THEN Highest(segments) ELSE Chunks(writer)
           writes == WritesOf(writer, log)
           unlinks == Unlinks(Chunks(log) + 1, top)
           keep(s) == KeepOf(writer, log, s)
<1>1. writer \in Seq(Int) /\ log \in Seq(Int)
  OBVIOUS
<1>2. Chunks(log) \in Nat \ {0} /\ Chunks(writer) \in Nat \ {0}
  BY <1>1, ChunksFacts
<1>3. Highest(segments) \in Nat /\ \A s \in DOMAIN segments : s \in 1 .. Highest(segments)
  BY HighestFacts DEF IsFiles
<1>4. top \in Int /\ Chunks(log) + 1 \in Nat \ {0}
  BY <1>2, <1>3
<1>5. /\ start \in Nat \ {0} /\ writes \in Seq(FileOps)
      /\ Range(writes) = {WriteOp(s, Chunk(log, s), keep(s)) : s \in start .. Chunks(log)}
  BY <1>1, WritesFacts
<1>6. unlinks \in Seq(FileOps) /\ Range(unlinks) = {UnlinkOp(s) : s \in Chunks(log) + 1 .. top}
  BY <1>4, UnlinksFacts
<1>7. Plan(log) = writes \o unlinks
  BY PlanIs
<1> HIDE DEF start, writes, unlinks
<1>8. Plan(log) \in Seq(FileOps) /\ Range(Plan(log)) = Range(writes) \union Range(unlinks)
  <2>1. writes \in Seq(FileOps) /\ unlinks \in Seq(FileOps)
    BY <1>5, <1>6
  <2>2. writes \o unlinks \in Seq(FileOps)
    BY <2>1
  <2>3. Range(writes \o unlinks) = Range(writes) \union Range(unlinks)
    BY <2>1, RangeConcatenation
  <2> QED
    BY <1>7, <2>2, <2>3
<1>9. ASSUME NEW s \in start .. Chunks(log)
      PROVE  OpOK(segments, writer, log, over, WriteOp(s, Chunk(log, s), keep(s)))
  <2> DEFINE op == WriteOp(s, Chunk(log, s), keep(s))
  <2>1. s \in 1 .. Chunks(log) /\ s \in Nat \ {0}
    BY <1>2, <1>5
  <2>2. /\ keep(s) \in Nat /\ keep(s) <= Len(Chunk(log, s))
        /\ keep(s) > 0 =>
             /\ s \in 1 .. Chunks(writer) /\ keep(s) <= Len(Chunk(writer, s)) /\ writer # <<>>
             /\ \A i \in 1 .. keep(s) : Chunk(writer, s)[i] = Chunk(log, s)[i]
    BY <1>1, <2>1, KeepFacts
  <2>3. op.kind = "write" /\ op.seg = s /\ op.text = Chunk(log, s) /\ op.keep = keep(s)
    BY DEF WriteOp
  <2>4. OnDisk(segments, s) \in Seq(Int)
    BY EmptySeq DEF OnDisk, IsFiles, Entries
  <2> HIDE DEF op, keep
  <2>5. ASSUME NEW i \in 1 .. keep(s)  PROVE OnDisk(segments, s)[i] = Chunk(log, s)[i]
    <3>1. keep(s) > 0
      BY <2>2
    <3>2. /\ s \in 1 .. Chunks(writer) /\ keep(s) <= Len(Chunk(writer, s)) /\ writer # <<>>
          /\ Chunk(writer, s)[i] = Chunk(log, s)[i]
      BY <2>2, <3>1
    <3>3. Chunk(writer, s) \in Seq(Int)
      BY <1>1, <3>2, ChunkFacts
    <3>4. s \in DOMAIN segments /\ IsPrefix(Chunk(writer, s), segments[s])
      <4>1. CASE s = Chunks(writer)
        BY <3>2, <4>1 DEF Begun
      <4>2. CASE s # Chunks(writer)
        <5>1. s \in 1 .. Chunks(writer) - 1
          BY <1>2, <3>2, <4>2
        <5>2. s \in DOMAIN segments /\ segments[s] = Chunk(writer, s)
          BY <3>2, <5>1 DEF Begun, Whole
        <5> QED
          BY <3>3, <5>2, PrefixItself
      <4> QED
        BY <4>1, <4>2
    <3>5. OnDisk(segments, s) = segments[s]
      BY <3>4 DEF OnDisk
    <3>6. i \in 1 .. Len(Chunk(writer, s))
      <4>1. Len(Chunk(writer, s)) \in Nat
        BY <3>3
      <4> QED
        BY <2>2, <3>2, <4>1
    <3> QED
      BY <2>4, <3>2, <3>3, <3>4, <3>5, <3>6, PrefixIs
  <2>6. Agrees(segments, op)
    BY <2>2, <2>3, <2>4, <2>5 DEF Agrees
  <2>7. ASSUME writer # <<>>, ~over
        PROVE  s >= Chunks(writer) /\ (s = Chunks(writer) => keep(s) = Len(Chunk(writer, Chunks(writer))))
    <3>1. DOMAIN segments # {}
      BY <2>7 DEF Begun
    <3>2. CommonPrefix(writer, log) = Len(writer)
      <4>1. CommonPrefix(writer, log) \in 0 .. Len(writer) /\ Len(writer) \in Nat
        BY <1>1, CommonPrefixFacts
      <4> QED
        BY <2>7, <3>1, <4>1 DEF WritesOver
    <3>3. FirstOf(writer, log) = Chunks(writer)
      BY <1>1, <3>2, FirstFacts
    <3>4. Chunks(writer) <= s
      BY <1>2, <1>5, <3>3 DEF StartOf, start
    <3>5. s = Chunks(writer) => keep(s) = Len(writer) - Before(Chunks(writer))
      BY <3>2, <3>3 DEF KeepOf, keep
    <3>6. Before(Chunks(writer)) + Len(Chunk(writer, Chunks(writer))) = Len(writer)
          /\ Before(Chunks(writer)) \in Nat /\ Len(Chunk(writer, Chunks(writer))) \in Nat
      BY <1>1, LastChunk
    <3> QED
      BY <2>1, <3>4, <3>5, <3>6
  <2>8. OpOK(segments, writer, log, over, op)
    BY <2>1, <2>3, <2>6, <2>7 DEF OpOK
  <2> QED
    BY <2>8 DEF op
<1>10. ASSUME NEW s \in Chunks(log) + 1 .. top
       PROVE  OpOK(segments, writer, log, over, UnlinkOp(s))
  <2>1. UnlinkOp(s).kind = "unlink" /\ UnlinkOp(s).seg = s /\ s > Chunks(log)
    BY <1>2 DEF UnlinkOp
  <2> QED
    BY <2>1 DEF OpOK
<1>11. \A op \in Range(Plan(log)) : OpOK(segments, writer, log, over, op)
  BY <1>5, <1>6, <1>8, <1>9, <1>10
<1>12. ASSUME log = writer  PROVE Plan(log) = <<>>
  <2>1. writer # <<>> /\ top = Chunks(log)
    BY <1>12
  <2>2. CommonPrefix(writer, log) = Len(writer)
    BY <1>1, <1>12, CommonPrefixFacts, PrefixItself
  <2>3. FirstOf(writer, log) = Chunks(writer)
    BY <1>1, <2>2, FirstFacts
  <2>4. Before(Chunks(writer)) + Len(Chunk(writer, Chunks(writer))) = Len(writer)
        /\ Before(Chunks(writer)) \in Nat /\ Len(Chunk(writer, Chunks(writer))) \in Nat
    BY <1>1, LastChunk
  <2>5. KeepOf(writer, log, Chunks(writer)) = Len(Chunk(writer, Chunks(writer)))
    BY <2>2, <2>3, <2>4 DEF KeepOf
  <2>6. UntouchedOf(writer, log)
    BY <1>12, <2>1, <2>3, <2>5 DEF UntouchedOf
  <2>7. start = Chunks(log) + 1
    BY <1>12, <2>3, <2>6 DEF StartOf, start
  <2>8. start .. Chunks(log) = {} /\ Chunks(log) + 1 .. top = {}
    BY <1>2, <2>1, <2>7
  <2>9. Range(Plan(log)) = {}
    BY <1>5, <1>6, <1>8, <2>8
  <2> QED
    BY <1>8, <2>9, RangeOfNone
<1>13. ASSUME log # writer, NEW s \in 1 .. Chunks(log)
       PROVE  Whole(segments, log, s) \/ HasOp(Plan(log), "write", s)
  <2>1. CASE s >= start
    <3> DEFINE op == WriteOp(s, Chunk(log, s), keep(s))
    <3>1. s \in start .. Chunks(log)
      BY <1>2, <1>5, <2>1
    <3>2. op \in Range(Plan(log))
      BY <1>5, <1>8, <3>1
    <3>3. op.kind = "write" /\ op.seg = s
      BY DEF WriteOp
    <3> HIDE DEF op
    <3> QED
      BY <3>2, <3>3 DEF HasOp
  <2>2. CASE ~(s >= start)
    <3>1. s < StartOf(writer, log)
      BY <1>2, <1>5, <2>2 DEF start
    <3>2. /\ writer # <<>> /\ s \in 1 .. Chunks(writer) /\ Chunk(writer, s) = Chunk(log, s)
          /\ s < Chunks(writer) \/ Len(Chunk(writer, s)) = SegmentTurns
      BY <1>1, <1>13, <3>1, SameBefore
    <3>3. CASE s < Chunks(writer)
      <4>1. s \in 1 .. Chunks(writer) - 1
        BY <1>2, <3>2, <3>3
      <4> QED
        BY <3>2, <4>1 DEF Begun, Whole
    <3>4. CASE ~(s < Chunks(writer))
      <4>1. s = Chunks(writer)
        BY <1>2, <3>2, <3>4
      <4>2. s \in DOMAIN segments /\ IsPrefix(Chunk(writer, s), segments[s])
        BY <3>2, <4>1 DEF Begun
      <4>3. segments[s] \in Seq(Int) /\ Len(segments[s]) <= SegmentTurns
        BY <4>2 DEF IsFiles, Entries
      <4>4. Chunk(writer, s) \in Seq(Int)
        BY <1>1, <3>2, ChunkFacts
      <4> DEFINE x == Chunk(writer, s)
                 y == segments[s]
      <4>5. Len(x) <= Len(y) /\ \A i \in 1 .. Len(x) : x[i] = y[i]
        BY <4>2, <4>3, <4>4, PrefixIs
      <4>6. Len(x) = SegmentTurns /\ Len(y) <= SegmentTurns /\ x \in Seq(Int) /\ y \in Seq(Int)
        BY <3>2, <3>4, <4>3, <4>4
      <4> HIDE DEF x, y
      <4>7. Len(x) = Len(y)
        BY <4>5, <4>6, SegmentAssumption
      <4>8. x = y
        BY <4>5, <4>6, <4>7, SeqEqual
      <4> QED
        BY <3>2, <4>2, <4>8 DEF Whole, x, y
    <3> QED
      BY <3>3, <3>4
  <2> QED
    BY <2>1, <2>2
<1>14. ASSUME NEW s \in DOMAIN segments, s > Chunks(log), ~(writer # <<>> /\ exposed)
       PROVE  HasOp(Plan(log), "unlink", s)
  <2>1. s \in 1 .. top
    <3>1. CASE writer = <<>>
      BY <1>3, <3>1
    <3>2. CASE writer # <<>>
      BY <1>14, <3>2
    <3> QED
      BY <3>1, <3>2
  <2>2. s \in Chunks(log) + 1 .. top
    BY <1>2, <1>4, <1>14, <2>1
  <2>3. UnlinkOp(s) \in Range(Plan(log))
    BY <1>6, <1>8, <2>2
  <2>4. UnlinkOp(s).kind = "unlink" /\ UnlinkOp(s).seg = s
    BY DEF UnlinkOp
  <2> QED
    BY <2>3, <2>4 DEF HasOp
<1> QED
  BY <1>8, <1>11, <1>12, <1>13, <1>14 DEF Planned

\* A plan that writes over nothing appends to the log the writer remembers, or to no files.
LEMMA WritesOverFacts ==
  ASSUME NEW log, writer \in Seq(Int), log \in Seq(Int), log # <<>>,
         writer # <<>> => DOMAIN segments # {}
  PROVE  /\ WritesOver(log) \in BOOLEAN
         /\ ~WritesOver(log) => IF writer = <<>> THEN DOMAIN segments = {} ELSE IsPrefix(writer, log)
         /\ writer # <<>> /\ IsPrefix(writer, log) => ~WritesOver(log)
         /\ WritesOver(log) => log # writer
<1>1. /\ CommonPrefix(writer, log) \in 0 .. Len(writer) /\ Len(writer) \in Nat
      /\ IsPrefix(writer, log) <=> CommonPrefix(writer, log) = Len(writer)
  BY CommonPrefixFacts
<1>2. log = writer => IsPrefix(writer, log)
  BY PrefixItself
<1>3. WritesOver(log) <=>
        DOMAIN segments # {} /\ (writer = <<>> \/ CommonPrefix(writer, log) < Len(writer))
  BY DEF WritesOver
<1>4. WritesOver(log) \in BOOLEAN
  BY DEF WritesOver
<1>5. ASSUME ~WritesOver(log)  PROVE IF writer = <<>> THEN DOMAIN segments = {} ELSE IsPrefix(writer, log)
  <2>1. ~(CommonPrefix(writer, log) < Len(writer)) => CommonPrefix(writer, log) = Len(writer)
    BY <1>1
  <2>2. CASE writer = <<>>
    BY <1>3, <1>5, <2>2
  <2>3. CASE writer # <<>>
    <3>1. ~(CommonPrefix(writer, log) < Len(writer))
      BY <1>3, <1>5, <2>3
    <3> QED
      BY <1>1, <2>1, <2>3, <3>1
  <2> QED
    BY <2>2, <2>3
<1>6. ASSUME writer # <<>>, IsPrefix(writer, log)  PROVE ~WritesOver(log)
  BY <1>1, <1>3, <1>6
<1>7. ASSUME WritesOver(log)  PROVE log # writer
  BY <1>1, <1>2, <1>3, <1>7
<1> QED
  BY <1>4, <1>5, <1>6, <1>7

-----------------------------------------------------------------------------
\* What an operation of a write leaves of the log before.

\* An append's operations, applied or cut, leave the log it appends to in the files.
LEMMA BegunKept ==
  ASSUME NEW calls, NEW files, IsFiles(calls, files), NEW log, IsLog(calls, log),
         NEW before \in Seq(Int), before # <<>>, IsPrefix(before, log), Begun(calls, files, before),
         NEW op \in FileOps, OpOK(files, before, log, FALSE, op)
  PROVE  /\ Begun(calls, Applied(files, op), before)
         /\ \A g \in CutShort(files, op) : Begun(calls, g, before)
<1>1. op.kind = "write" => Agrees(files, op)
  BY DEF OpOK
<1>2. /\ op.kind = "write" => Applied(files, op) = Rewritten(files, op.seg, op.text)
      /\ op.kind = "unlink" => Applied(files, op) = Without(files, {op.seg})
      /\ \A g \in CutShort(files, op) :
           \/ g = files
           \/ /\ op.kind = "write"
              /\ \E n \in Kept(files, op) .. Len(op.text) :
                    g = Rewritten(files, op.seg, SubSeq(op.text, 1, n))
  BY <1>1, OpResults
<1>3. op.kind = "write" => \A n \in Kept(files, op) .. Len(op.text) :
                              Begun(calls, Rewritten(files, op.seg, SubSeq(op.text, 1, n)), before)
  BY BegunRewritten
<1>4. \A g \in CutShort(files, op) : Begun(calls, g, before)
  BY <1>2, <1>3
<1>5. CASE op.kind = "write"
  <2>1. op.text \in Seq(Int) /\ Len(op.text) \in Nat
    BY DEF FileOps
  <2>2. Kept(files, op) \in 0 .. Len(op.text)
    BY <1>1, <1>5, AfterOpFacts
  <2>3. Len(op.text) \in Kept(files, op) .. Len(op.text) /\ SubSeq(op.text, 1, Len(op.text)) = op.text
    BY <2>1, <2>2, SubSeqFull
  <2>4. Begun(calls, Rewritten(files, op.seg, op.text), before)
    BY <1>3, <1>5, <2>3
  <2> QED
    BY <1>2, <1>4, <1>5, <2>4
<1>6. CASE op.kind = "unlink"
  <2> DEFINE c == Chunks(before)
             S == {op.seg}
             g == Without(files, S)
  <2>1. log \in Seq(Int) /\ op.seg > Chunks(log) /\ op.seg \in Nat
    BY <1>6 DEF OpOK, FileOps, IsLog, Entries
  <2>2. c \in Nat \ {0} /\ c <= Chunks(log) /\ Chunks(log) \in Nat
    BY <2>1, ChunksGrow, ChunksFacts
  <2>3. \A s \in 1 .. c : s \notin S
    BY <2>1, <2>2
  <2> HIDE DEF S
  <2>4. DOMAIN g = DOMAIN files \ S /\ \A s \in DOMAIN files \ S : g[s] = files[s]
    BY WithoutFiles, ZenonT(60)
  <2> HIDE DEF c, g
  <2>5. /\ \A s \in 1 .. c - 1 : s \in DOMAIN files /\ files[s] = Chunk(before, s)
        /\ c \in DOMAIN files /\ IsPrefix(Chunk(before, c), files[c])
        /\ Formed(calls, Concatenated(files, c))
    BY DEF Begun, Whole, c
  <2>6. \A s \in 1 .. c : s \in DOMAIN g /\ g[s] = files[s]
    <3>1. \A s \in 1 .. c : s \in 1 .. c - 1 \/ s = c
      BY <2>2
    <3> QED
      BY <2>3, <2>4, <2>5, <3>1
  <2>7. Concatenated(g, c) = Concatenated(files, c)
    BY <2>2, <2>6, ConcatenatedSame
  <2>8. c \in 1 .. c /\ \A s \in 1 .. c - 1 : s \in 1 .. c
    BY <2>2
  <2>9. Begun(calls, g, before)
    BY <2>5, <2>6, <2>7, <2>8 DEF Begun, Whole, c
  <2> QED
    BY <1>2, <1>4, <1>6, <2>9 DEF g, S
<1> QED
  BY <1>5, <1>6 DEF OpOK, FileOps

-----------------------------------------------------------------------------
\* What files that hold a log load as.

\* Files that hold the whole of a log load as that log or as one that extends it.
LEMMA BegunLoads ==
  ASSUME NEW calls, CallsOK(calls), NEW files, IsFiles(calls, files), NEW log, IsLog(calls, log),
         Begun(calls, files, log)
  PROVE  /\ IsPrefix(log, LoadedOf(calls, files)) /\ Covered(log) \subseteq Covered(LoadedOf(calls, files))
         /\ DOMAIN files # {}
<1> DEFINE c == Chunks(log)
<1>1. log \in Seq(Int) /\ c \in Nat \ {0}
  BY ChunksFacts DEF IsLog, Entries
<1>2. 1 .. c \subseteq DOMAIN files
  <2>1. \A s \in 1 .. c : s \in 1 .. c - 1 \/ s = c
    BY <1>1
  <2> QED
    BY <2>1 DEF Begun, Whole
<1>3. c \in 0 .. Contiguous(files)
  <2>1. Contiguous(files) \in Nat /\ c <= Contiguous(files)
    BY <1>1, <1>2, ContiguousFacts DEF IsFiles
  <2> QED
    BY <1>1, <2>1
<1>4. files[c] \in Seq(Int)
  BY <1>1, <1>2 DEF IsFiles, Entries
<1>5. Concatenated(files, c) \in Seq(Int) /\ IsPrefix(log, Concatenated(files, c))
  BY <1>1, <1>4, ConcatenatedBegun DEF Begun, Whole
<1>6. IsLog(calls, LoadedOf(calls, files)) /\ IsPrefix(Concatenated(files, c), LoadedOf(calls, files))
  BY <1>3, LoadedFacts DEF Begun
<1>7. LoadedOf(calls, files) \in Seq(Int)
  BY <1>6 DEF IsLog, Entries
<1>8. IsPrefix(log, LoadedOf(calls, files))
  BY <1>1, <1>5, <1>6, <1>7, PrefixTransitive
<1>9. Covered(log) \subseteq Covered(LoadedOf(calls, files))
  BY <1>1, <1>7, <1>8, CoveredPrefix
<1>10. DOMAIN files # {}
  BY DEF Begun
<1> QED
  BY <1>8, <1>9, <1>10

\* When every segment holds its chunk the files hold the log.
LEMMA WholeBegun ==
  ASSUME NEW calls, NEW files, NEW log, IsLog(calls, log),
         \A s \in 1 .. Chunks(log) : Whole(files, log, s)
  PROVE  Begun(calls, files, log) /\ Concatenated(files, Chunks(log)) = log
<1> DEFINE c == Chunks(log)
<1>1. log \in Seq(Int) /\ c \in Nat \ {0} /\ Formed(calls, log)
  BY ChunksFacts DEF IsLog, Entries
<1>2. c \in 1 .. Chunks(log) /\ c \in 0 .. Chunks(log) /\ \A s \in 1 .. c - 1 : s \in 1 .. c
  BY <1>1
<1>3. Concatenated(files, c) = log
  BY <1>1, <1>2, ConcatenatedChunks DEF Whole
<1>4. Chunk(log, c) \in Seq(Int)
  BY <1>1, LastChunk
<1>5. c \in DOMAIN files /\ IsPrefix(Chunk(log, c), files[c])
  BY <1>2, <1>4, PrefixItself DEF Whole
<1> QED
  BY <1>1, <1>2, <1>3, <1>5 DEF Begun

\* Files that hold a log and nothing else load as that log.
LEMMA ExactLoads ==
  ASSUME NEW calls, CallsOK(calls), NEW files, IsFiles(calls, files), NEW log, IsLog(calls, log),
         Exact(files, log)
  PROVE  /\ Contiguous(files) = Chunks(log) /\ Concatenated(files, Contiguous(files)) = log
         /\ KeptOf(calls, files) = Contiguous(files) /\ LoadedOf(calls, files) = log
<1> DEFINE c == Chunks(log)
<1>1. log \in Seq(Int) /\ c \in Nat \ {0} /\ Formed(calls, log)
  BY ChunksFacts DEF IsLog, Entries
<1>2. Bounded(files)
  BY DEF IsFiles
<1>3. Contiguous(files) = c
  <2>1. /\ Contiguous(files) \in Nat /\ Contiguous(files) + 1 \notin 1 .. c
        /\ 1 .. Contiguous(files) \subseteq 1 .. c
        /\ c <= Contiguous(files)
    BY <1>1, <1>2, ContiguousFacts DEF Exact
  <2> QED
    BY <1>1, <2>1
<1>4. Concatenated(files, c) = log
  BY WholeBegun DEF Exact, Whole
<1>5. KeptOf(calls, files) = c
  <2>1. KeptOf(calls, files) \in 0 .. c /\ c <= KeptOf(calls, files)
    <3>1. c \in 0 .. Contiguous(files) /\ Formed(calls, Concatenated(files, c))
      BY <1>1, <1>3, <1>4
    <3> QED
      BY <1>2, <1>3, <3>1, KeptFacts
  <2> QED
    BY <1>1, <2>1
<1> QED
  BY <1>3, <1>4, <1>5 DEF LoadedOf

\* Files behind a gap do not change what is loaded.
LEMMA LoadsAlike ==
  ASSUME NEW calls, NEW files, Bounded(files), NEW g, Bounded(g), Contiguous(g) = Contiguous(files),
         \A s \in 1 .. Contiguous(files) : g[s] = files[s]
  PROVE  KeptOf(calls, g) = KeptOf(calls, files) /\ LoadedOf(calls, g) = LoadedOf(calls, files)
<1> DEFINE c == Contiguous(files)
           a == KeptOf(calls, g)
           b == KeptOf(calls, files)
<1>1. c \in Nat
  BY ContiguousFacts
<1>2. ASSUME NEW n \in 0 .. c  PROVE Concatenated(g, n) = Concatenated(files, n)
  <2>1. n \in Nat /\ \A s \in 1 .. n : g[s] = files[s]
    BY <1>1
  <2> QED
    BY <2>1, ConcatenatedSame
<1>3. /\ a \in 0 .. c /\ (a <= 1 \/ Formed(calls, Concatenated(g, a)))
      /\ \A n \in 0 .. c : n <= 1 \/ Formed(calls, Concatenated(g, n)) => n <= a
  BY KeptFacts
<1>4. /\ b \in 0 .. c /\ (b <= 1 \/ Formed(calls, Concatenated(files, b)))
      /\ \A n \in 0 .. c : n <= 1 \/ Formed(calls, Concatenated(files, n)) => n <= b
  BY KeptFacts
<1> HIDE DEF a, b, c
<1>5. a <= b /\ b <= a
  BY <1>2, <1>3, <1>4
<1>6. a = b
  BY <1>1, <1>3, <1>4, <1>5
<1>7. Concatenated(g, a) = Concatenated(files, b)
  BY <1>2, <1>4, <1>6
<1> QED
  BY <1>6, <1>7 DEF LoadedOf, a, b

FilesStaged(files) == Without(files, DOMAIN files \ (1 .. Contiguous(files)))

\* reconcileSegmentStaging leaves what load() reads.
LEMMA ReconciledFacts ==
  ASSUME NEW calls, NEW files, IsFiles(calls, files)
  PROVE  /\ IsFiles(calls, FilesStaged(files)) /\ DOMAIN FilesStaged(files) = 1 .. Contiguous(files)
         /\ 1 .. Contiguous(files) \subseteq DOMAIN files
         /\ \A s \in 1 .. Contiguous(files) : FilesStaged(files)[s] = files[s]
         /\ Contiguous(FilesStaged(files)) = Contiguous(files)
         /\ KeptOf(calls, FilesStaged(files)) = KeptOf(calls, files)
         /\ LoadedOf(calls, FilesStaged(files)) = LoadedOf(calls, files)
<1> DEFINE c == Contiguous(files)
           S == DOMAIN files \ (1 .. c)
           g == FilesStaged(files)
<1>1. Bounded(files)
  BY DEF IsFiles
<1>2. c \in Nat /\ 1 .. c \subseteq DOMAIN files
  BY <1>1, ContiguousFacts
<1>3. g = Without(files, S) /\ DOMAIN files \ S = 1 .. c
  BY <1>2 DEF FilesStaged
<1> HIDE DEF S, c, g
<1>4. /\ IsFiles(calls, g) /\ DOMAIN g = 1 .. c
      /\ \A s \in 1 .. c : g[s] = files[s]
  <2>1. /\ IsFiles(calls, Without(files, S)) /\ DOMAIN Without(files, S) = DOMAIN files \ S
        /\ \A s \in DOMAIN files \ S : Without(files, S)[s] = files[s]
    BY WithoutFiles
  <2> QED
    BY <1>3, <2>1
<1>5. Bounded(g)
  BY <1>4 DEF IsFiles
<1>6. Contiguous(g) = c
  <2>1. /\ Contiguous(g) \in Nat /\ 1 .. Contiguous(g) \subseteq 1 .. c /\ Contiguous(g) + 1 \notin 1 .. c
        /\ c <= Contiguous(g)
    BY <1>2, <1>4, <1>5, ContiguousFacts
  <2> QED
    BY <1>2, <2>1
<1>7. KeptOf(calls, g) = KeptOf(calls, files) /\ LoadedOf(calls, g) = LoadedOf(calls, files)
  <2>1. Contiguous(g) = Contiguous(files) /\ \A s \in 1 .. Contiguous(files) : g[s] = files[s]
    BY <1>4, <1>6 DEF c
  <2> QED
    BY <1>1, <1>5, <2>1, LoadsAlike
<1> QED
  BY <1>2, <1>4, <1>6, <1>7 DEF c, g

-----------------------------------------------------------------------------
\* The turns in the files.

\* What the files load as has no turn that none of them has.
LEMMA TurnsConcatenated ==
  ASSUME NEW f, NEW n \in Nat, NEW T,
         \A s \in 1 .. n : f[s] \in Seq(Int) /\ TurnsOf(f[s]) \subseteq T
  PROVE  TurnsOf(Concatenated(f, n)) \subseteq T
<1>0. (\A s \in 1 .. n : f[s] \in Seq(Int)) /\ n \in 0 .. n
  OBVIOUS
<1>1. Concatenated(f, n) \in Seq(Int)
  BY <1>0, ConcatenatedFacts
<1>2. ASSUME NEW t \in TurnsOf(Concatenated(f, n))  PROVE t \in T
  <2>1. PICK i \in 1 .. Len(Concatenated(f, n)) : Concatenated(f, n)[i] = t /\ t > 0
    BY <1>1, CoveredIs
  <2>2. PICK s \in 1 .. n : \E j \in 1 .. Len(f[s]) : Concatenated(f, n)[i] = f[s][j]
    <3>1. \A s \in 1 .. n : f[s] \in Seq(Int)
      BY <1>0
    <3>2. IsFrom(f, n, Concatenated(f, n))
      BY <3>1, ConcatenatedElement
    <3> QED
      BY <3>2 DEF IsFrom
  <2>3. t \in TurnsOf(f[s])
    BY <2>1, <2>2, CoveredIs
  <2> QED
    BY <2>3
<1> QED
  BY <1>2

\* A part of a chunk has no turn that its log does not have.
LEMMA TurnsOfChunk ==
  ASSUME NEW log \in Seq(Int), NEW s \in 1 .. Chunks(log), NEW t \in Seq(Int), IsPrefix(t, Chunk(log, s))
  PROVE  TurnsOf(t) \subseteq TurnsOf(log)
<1> DEFINE c == Chunk(log, s)
<1>1. /\ c \in Seq(Int) /\ Before(s) \in 0 .. Len(log) /\ Before(s) + Len(c) <= Len(log)
      /\ \A i \in 1 .. Len(c) : c[i] = log[Before(s) + i]
  BY ChunkFacts
<1>2. TurnsOf(t) \subseteq TurnsOf(c)
  BY <1>1, CoveredPrefix
<1> HIDE DEF c
<1>3. ASSUME NEW x \in TurnsOf(c)  PROVE x \in TurnsOf(log)
  <2>1. PICK i \in 1 .. Len(c) : c[i] = x /\ x > 0
    BY <1>1, CoveredIs
  <2>2. Before(s) + i \in 1 .. Len(log)
    <3>1. Len(c) \in Nat /\ Len(log) \in Nat
      BY <1>1, SMTT(60)
    <3> QED
      BY <1>1, <3>1, SMTT(60)
  <2>3. log[Before(s) + i] = x
    BY <1>1, <2>1
  <2> QED
    BY <2>1, <2>2, <2>3, CoveredIs
<1> QED
  BY <1>2, <1>3

-----------------------------------------------------------------------------
\* The restore of a snapshot.

Restoring(files, back, ops) ==
  /\ ops \in Seq(FileOps)
  /\ \A op \in Range(ops) :
       /\ op.kind = "write" => op.seg \in DOMAIN back /\ op.text = back[op.seg] /\ op.keep = 0
       /\ op.kind = "unlink" => op.seg \notin DOMAIN back
  /\ \A s \in DOMAIN back : (s \in DOMAIN files /\ files[s] = back[s]) \/ HasOp(ops, "write", s)
  /\ \A s \in DOMAIN files \ DOMAIN back : HasOp(ops, "unlink", s)

\* A restore begins with an operation for every file it changes.
LEMMA RestoreOpsFacts ==
  ASSUME IsFiles(callOf, segments), IsFiles(callOf, backup)
  PROVE  Restoring(segments, backup, RestoreOps)
<1> DEFINE m == Highest(backup)
           n == Highest(segments)
           f == [s \in 1 .. m |-> IF s \in DOMAIN backup THEN WriteOp(s, backup[s], 0) ELSE SkipOp(s)]
           g == [s \in 1 .. n |-> IF s \in DOMAIN backup THEN SkipOp(s) ELSE UnlinkOp(s)]
<1>1. /\ m \in Nat /\ \A s \in DOMAIN backup : s \in 1 .. m
      /\ n \in Nat /\ \A s \in DOMAIN segments : s \in 1 .. n
  BY HighestFacts DEF IsFiles
<1> HIDE DEF m, n
<1>2. \A s \in Nat \ {0} : SkipOp(s) \in FileOps /\ UnlinkOp(s) \in FileOps
  BY EmptySeq DEF SkipOp, UnlinkOp, FileOps
<1>3. ASSUME NEW s \in DOMAIN backup  PROVE WriteOp(s, backup[s], 0) \in FileOps
  <2>1. s \in Nat \ {0} /\ backup[s] \in Seq(Int)
    BY <1>1 DEF IsFiles, Entries
  <2> QED
    BY <2>1 DEF WriteOp, FileOps
<1>4. f \in Seq(FileOps)
  <2>1. \A s \in 1 .. m : f[s] \in FileOps
    BY <1>1, <1>2, <1>3
  <2>2. f \in [1 .. m -> FileOps]
    BY <2>1
  <2> HIDE DEF f
  <2> QED
    BY <1>1, <2>2, SeqDef
<1>5. g \in Seq(FileOps)
  <2>1. \A s \in 1 .. n : g[s] \in FileOps
    BY <1>1, <1>2
  <2>2. g \in [1 .. n -> FileOps]
    BY <2>1
  <2> HIDE DEF g
  <2> QED
    BY <1>1, <2>2, SeqDef
<1>6. Range(f) = {f[s] : s \in 1 .. m} /\ Range(g) = {g[s] : s \in 1 .. n}
  BY DEF Range
<1>7. RestoreOps = f \o g
  BY DEF RestoreOps, f, g, m, n
<1>8. RestoreOps \in Seq(FileOps) /\ Range(RestoreOps) = Range(f) \union Range(g)
  <2> HIDE DEF f, g
  <2> QED
    BY <1>4, <1>5, <1>7, ConcatProperties, RangeConcatenation
<1>9. ASSUME NEW op \in Range(RestoreOps)
      PROVE  /\ op.kind = "write" => op.seg \in DOMAIN backup /\ op.text = backup[op.seg] /\ op.keep = 0
             /\ op.kind = "unlink" => op.seg \notin DOMAIN backup
  <2>1. CASE op \in Range(f)
    <3>1. PICK s \in 1 .. m : op = IF s \in DOMAIN backup THEN WriteOp(s, backup[s], 0) ELSE SkipOp(s)
      BY <1>6, <2>1
    <3> QED
      BY <3>1 DEF WriteOp, SkipOp
  <2>2. CASE op \in Range(g)
    <3>1. PICK s \in 1 .. n : op = IF s \in DOMAIN backup THEN SkipOp(s) ELSE UnlinkOp(s)
      BY <1>6, <2>2
    <3> QED
      BY <3>1 DEF SkipOp, UnlinkOp
  <2> QED
    BY <1>8, <2>1, <2>2
<1>10. ASSUME NEW s \in DOMAIN backup  PROVE HasOp(RestoreOps, "write", s)
  <2>1. s \in 1 .. m /\ f[s] = WriteOp(s, backup[s], 0)
    BY <1>1
  <2>2. WriteOp(s, backup[s], 0) \in Range(RestoreOps)
    BY <1>6, <1>8, <2>1
  <2>3. WriteOp(s, backup[s], 0).kind = "write" /\ WriteOp(s, backup[s], 0).seg = s
    BY DEF WriteOp
  <2> QED
    BY <2>2, <2>3 DEF HasOp
<1>11. ASSUME NEW s \in DOMAIN segments \ DOMAIN backup  PROVE HasOp(RestoreOps, "unlink", s)
  <2>1. s \in 1 .. n /\ g[s] = UnlinkOp(s)
    BY <1>1
  <2>2. UnlinkOp(s) \in Range(RestoreOps)
    BY <1>6, <1>8, <2>1
  <2>3. UnlinkOp(s).kind = "unlink" /\ UnlinkOp(s).seg = s
    BY DEF UnlinkOp
  <2> QED
    BY <2>2, <2>3 DEF HasOp
<1> QED
  BY <1>8, <1>9, <1>10, <1>11 DEF Restoring

\* Each operation of a restore leaves a restore of the rest.
LEMMA RestoringApplied ==
  ASSUME NEW calls, NEW files, IsFiles(calls, files), NEW back, IsFiles(calls, back),
         NEW ops, Restoring(files, back, ops), ops # <<>>
  PROVE  /\ IsFiles(calls, Applied(files, Head(ops)))
         /\ Restoring(Applied(files, Head(ops)), back, Tail(ops))
         /\ \A g \in CutShort(files, Head(ops)) : IsFiles(calls, g)
<1> DEFINE op == Head(ops)
           g == Applied(files, op)
<1>1. op \in FileOps /\ Tail(ops) \in Seq(FileOps) /\ Range(ops) = {op} \union Range(Tail(ops))
  BY RangeHeadTail DEF Restoring
<1>2. /\ op.kind = "write" => op.seg \in DOMAIN back /\ op.text = back[op.seg] /\ op.keep = 0
      /\ op.kind = "unlink" => op.seg \notin DOMAIN back
  BY <1>1 DEF Restoring
<1>3. op.kind = "write" => Agrees(files, op)
  <2> SUFFICES ASSUME op.kind = "write"  PROVE Agrees(files, op)
    OBVIOUS
  <2>1. op.keep = 0 /\ Len(op.text) \in Nat
    BY <1>1, <1>2 DEF FileOps
  <2>2. OnDisk(files, op.seg) \in Seq(Int)
    BY EmptySeq DEF OnDisk, IsFiles, Entries
  <2> HIDE DEF op
  <2> QED
    BY <2>1, <2>2 DEF Agrees
<1>4. /\ op.kind = "write" => g = Rewritten(files, op.seg, op.text)
      /\ op.kind = "unlink" => g = Without(files, {op.seg})
      /\ op.kind = "skip" => g = files
      /\ \A h \in CutShort(files, op) :
           \/ h = files
           \/ /\ op.kind = "write"
              /\ \E n \in Kept(files, op) .. Len(op.text) :
                    h = Rewritten(files, op.seg, SubSeq(op.text, 1, n))
  BY <1>1, <1>3, OpResults
<1>5. op.kind = "write" => IsText(calls, op.seg, op.text) /\ op.seg \in Nat \ {0}
  <2> SUFFICES ASSUME op.kind = "write"  PROVE IsText(calls, op.seg, op.text) /\ op.seg \in Nat \ {0}
    OBVIOUS
  <2>1. op.seg \in DOMAIN back /\ op.text = back[op.seg] /\ op.seg \in Nat \ {0}
    BY <1>1, <1>2 DEF FileOps
  <2> HIDE DEF op
  <2> QED
    BY <2>1 DEF IsFiles, IsText
<1>6. op.kind \in {"write", "unlink", "skip"}
  BY <1>1 DEF FileOps
<1>7. op.kind = "write" => Kept(files, op) \in 0 .. Len(op.text) /\ Len(op.text) \in Nat
  <2>1. Len(op.text) \in Nat
    BY <1>1 DEF FileOps
  <2> HIDE DEF op
  <2> QED
    BY <1>1, <1>3, <2>1, AfterOpFacts
<1> HIDE DEF op, g
<1>8. ASSUME NEW h \in CutShort(files, op)  PROVE IsFiles(calls, h)
  <2>1. CASE h = files
    BY <2>1
  <2>2. ASSUME op.kind = "write", NEW n \in Kept(files, op) .. Len(op.text),
               h = Rewritten(files, op.seg, SubSeq(op.text, 1, n))
        PROVE  IsFiles(calls, h)
    <3>1. n \in 0 .. Len(op.text)
      BY <1>7, <2>2
    <3>2. IsText(calls, op.seg, SubSeq(op.text, 1, n))
      BY <1>5, <2>2, <3>1, TextPrefix
    <3> QED
      BY <1>5, <2>2, <3>2, RewrittenFiles
  <2> QED
    BY <1>4, <2>1, <2>2
<1>9. CASE op.kind = "write"
  <2>1. IsFiles(calls, g)
    BY <1>4, <1>5, <1>9, RewrittenFiles
  <2>2. /\ DOMAIN g = DOMAIN files \union {op.seg} /\ g[op.seg] = back[op.seg] /\ op.seg \in DOMAIN back
        /\ \A s \in DOMAIN files : s # op.seg => g[s] = files[s]
    BY <1>2, <1>4, <1>9 DEF Rewritten
  <2>3. ASSUME NEW s \in DOMAIN back
        PROVE  (s \in DOMAIN g /\ g[s] = back[s]) \/ HasOp(Tail(ops), "write", s)
    <3>1. CASE s = op.seg
      BY <2>2, <3>1
    <3>2. CASE s # op.seg
      <4>1. (s \in DOMAIN files /\ files[s] = back[s]) \/ HasOp(ops, "write", s)
        BY DEF Restoring
      <4>2. HasOp(ops, "write", s) => HasOp(Tail(ops), "write", s)
        BY <1>1, <3>2 DEF HasOp
      <4> QED
        BY <2>2, <3>2, <4>1, <4>2
    <3> QED
      BY <3>1, <3>2
  <2>4. ASSUME NEW s \in DOMAIN g \ DOMAIN back  PROVE HasOp(Tail(ops), "unlink", s)
    <3>1. HasOp(ops, "unlink", s)
      BY <2>2 DEF Restoring
    <3> QED
      BY <1>1, <1>9, <3>1 DEF HasOp
  <2>5. Restoring(g, back, Tail(ops))
    BY <1>1, <2>3, <2>4 DEF Restoring
  <2> QED
    BY <1>8, <2>1, <2>5 DEF op, g
<1>10. CASE op.kind = "unlink"
  <2> DEFINE S == {op.seg}
  <2>1. g = Without(files, S) /\ \A s \in DOMAIN back : s \notin S
    BY <1>2, <1>4, <1>10
  <2>2. \A s : s \in S <=> s = op.seg
    OBVIOUS
  <2> HIDE DEF S
  <2>3. /\ IsFiles(calls, Without(files, S)) /\ DOMAIN Without(files, S) = DOMAIN files \ S
        /\ \A s \in DOMAIN files \ S : Without(files, S)[s] = files[s]
    BY WithoutFiles, SMTT(60)
  <2>4. IsFiles(calls, g) /\ DOMAIN g = DOMAIN files \ S /\ \A s \in DOMAIN files \ S : g[s] = files[s]
    BY <2>1, <2>3
  <2>5. ASSUME NEW s \in DOMAIN back
        PROVE  (s \in DOMAIN g /\ g[s] = back[s]) \/ HasOp(Tail(ops), "write", s)
    <3>1. (s \in DOMAIN files /\ files[s] = back[s]) \/ HasOp(ops, "write", s)
      BY DEF Restoring
    <3>2. HasOp(ops, "write", s) => HasOp(Tail(ops), "write", s)
      BY <1>1, <1>10 DEF HasOp
    <3> QED
      BY <2>1, <2>4, <3>1, <3>2
  <2>6. ASSUME NEW s \in DOMAIN g \ DOMAIN back  PROVE HasOp(Tail(ops), "unlink", s)
    <3>1. HasOp(ops, "unlink", s) /\ s # op.seg
      BY <2>2, <2>4 DEF Restoring
    <3> QED
      BY <1>1, <3>1 DEF HasOp
  <2>7. Restoring(g, back, Tail(ops))
    BY <1>1, <2>5, <2>6 DEF Restoring
  <2> QED
    BY <1>8, <2>4, <2>7 DEF op, g
<1>11. CASE op.kind = "skip"
  <2>1. g = files
    BY <1>4, <1>11
  <2>2. \A s : /\ HasOp(ops, "write", s) => HasOp(Tail(ops), "write", s)
               /\ HasOp(ops, "unlink", s) => HasOp(Tail(ops), "unlink", s)
    BY <1>1, <1>11 DEF HasOp
  <2>3. Restoring(g, back, Tail(ops))
    BY <1>1, <2>1, <2>2 DEF Restoring
  <2> QED
    BY <1>8, <2>1, <2>3 DEF op, g
<1> QED
  BY <1>6, <1>9, <1>10, <1>11

\* A restore that has ended loads what the snapshot loads.
LEMMA RestoringEnds ==
  ASSUME NEW calls, NEW files, IsFiles(calls, files), NEW back, IsFiles(calls, back),
         Restoring(files, back, <<>>)
  PROVE  LoadedOf(calls, files) = LoadedOf(calls, back)
<1>1. \A s : ~HasOp(<<>>, "write", s) /\ ~HasOp(<<>>, "unlink", s)
  BY RangeEmpty DEF HasOp
<1>2. DOMAIN files = DOMAIN back /\ \A s \in DOMAIN back : files[s] = back[s]
  BY <1>1 DEF Restoring
<1>3. Contiguous(files) = Contiguous(back)
  BY <1>2 DEF Contiguous, Highest
<1>4. Bounded(files) /\ Bounded(back)
  BY DEF IsFiles
<1>5. \A s \in 1 .. Contiguous(back) : files[s] = back[s]
  BY <1>2, <1>4, ContiguousFacts
<1> QED
  BY <1>3, <1>4, <1>5, LoadsAlike

-----------------------------------------------------------------------------
\* The load of the files, which first unlinks all that is behind segment k.

Loading(calls, files, ops, k) ==
  /\ k \in Nat /\ 1 .. k \subseteq DOMAIN files
  /\ k <= 1 \/ Formed(calls, Concatenated(files, k))
  /\ ops \in Seq(FileOps)
  /\ \A op \in Range(ops) : op.kind = "unlink" /\ op.seg > k
  /\ k + 1 \in DOMAIN files => HasOp(ops, "unlink", k + 1)

\* load() drops exactly the segments it does not keep.
LEMMA LoadingBegins ==
  ASSUME NEW calls, NEW files, IsFiles(calls, files)
  PROVE  Loading(calls, files,
                 IF KeptOf(calls, files) = Contiguous(files) THEN <<>>
                 ELSE Unlinks(KeptOf(calls, files) + 1, Highest(files)),
                 KeptOf(calls, files))
<1> DEFINE k == KeptOf(calls, files)
           c == Contiguous(files)
           m == Highest(files)
           all == Unlinks(k + 1, m)
<1>1. Bounded(files)
  BY DEF IsFiles
<1>2. c \in Nat /\ 1 .. c \subseteq DOMAIN files /\ c + 1 \notin DOMAIN files
  BY <1>1, ContiguousFacts
<1>3. k \in 0 .. c /\ (k <= 1 \/ Formed(calls, Concatenated(files, k)))
  BY <1>1, KeptFacts
<1>4. m \in Nat /\ \A s \in DOMAIN files : s \in 1 .. m
  BY <1>1, HighestFacts
<1> HIDE DEF k, c, m
<1>5. k \in Nat /\ 1 .. k \subseteq DOMAIN files /\ k + 1 \in Nat \ {0} /\ m \in Int
  BY <1>2, <1>3, <1>4
<1>6. CASE k = c
  <2>1. <<>> \in Seq(FileOps) /\ Range(<<>>) = {}
    BY EmptySeq, RangeEmpty
  <2>2. k + 1 \notin DOMAIN files
    BY <1>2, <1>6
  <2>3. Loading(calls, files, <<>>, k)
    BY <1>3, <1>5, <2>1, <2>2 DEF Loading
  <2> QED
    BY <1>6, <2>3 DEF k, c
<1>7. CASE k # c
  <2>1. all \in Seq(FileOps) /\ Range(all) = {UnlinkOp(s) : s \in k + 1 .. m}
    BY <1>5, UnlinksFacts
  <2>2. \A s : UnlinkOp(s).kind = "unlink" /\ UnlinkOp(s).seg = s
    BY DEF UnlinkOp
  <2> HIDE DEF all
  <2>3. ASSUME NEW op \in Range(all)  PROVE op.kind = "unlink" /\ op.seg > k
    <3>1. PICK s \in k + 1 .. m : op = UnlinkOp(s)
      BY <2>1
    <3> QED
      BY <1>5, <2>2, <3>1
  <2>4. ASSUME k + 1 \in DOMAIN files  PROVE HasOp(all, "unlink", k + 1)
    <3>1. k + 1 \in k + 1 .. m
      BY <1>4, <1>5, <2>4
    <3>2. UnlinkOp(k + 1) \in Range(all)
      BY <2>1, <3>1
    <3> QED
      BY <2>2, <3>2 DEF HasOp
  <2>5. Loading(calls, files, all, k)
    BY <1>3, <1>5, <2>1, <2>3, <2>4 DEF Loading
  <2> QED
    BY <1>7, <2>5 DEF k, c, m, all
<1> QED
  BY <1>6, <1>7

\* Each unlink of load() leaves the segments it keeps as they were.
LEMMA LoadingApplied ==
  ASSUME NEW calls, NEW files, IsFiles(calls, files), NEW ops, NEW k,
         Loading(calls, files, ops, k), ops # <<>>
  PROVE  /\ IsFiles(calls, Applied(files, Head(ops)))
         /\ Loading(calls, Applied(files, Head(ops)), Tail(ops), k)
         /\ Concatenated(Applied(files, Head(ops)), k) = Concatenated(files, k)
<1> DEFINE op == Head(ops)
           S == {op.seg}
           g == Applied(files, op)
<1>1. op \in FileOps /\ Tail(ops) \in Seq(FileOps) /\ Range(ops) = {op} \union Range(Tail(ops))
  BY RangeHeadTail DEF Loading
<1>2. op.kind = "unlink" /\ op.seg > k /\ op.seg \in Nat /\ k \in Nat
  BY <1>1 DEF Loading, FileOps
<1>3. g = Without(files, S)
  BY <1>2 DEF Applied
<1>4. (\A s : s \in S <=> s = op.seg) /\ \A s \in 1 .. k : s \notin S
  BY <1>2
<1> HIDE DEF op, S, g
<1>5. /\ IsFiles(calls, Without(files, S)) /\ DOMAIN Without(files, S) = DOMAIN files \ S
      /\ \A s \in DOMAIN files \ S : Without(files, S)[s] = files[s]
  BY WithoutFiles, ZenonT(60)
<1>6. IsFiles(calls, g) /\ DOMAIN g = DOMAIN files \ S /\ \A s \in DOMAIN files \ S : g[s] = files[s]
  BY <1>3, <1>5
<1>7. 1 .. k \subseteq DOMAIN files
  BY DEF Loading
<1>8. 1 .. k \subseteq DOMAIN g /\ \A s \in 1 .. k : g[s] = files[s]
  BY <1>4, <1>6, <1>7
<1>9. Concatenated(g, k) = Concatenated(files, k)
  BY <1>2, <1>8, ConcatenatedSame
<1>10. ASSUME k + 1 \in DOMAIN g  PROVE HasOp(Tail(ops), "unlink", k + 1)
  <2>1. k + 1 \in DOMAIN files /\ k + 1 # op.seg
    BY <1>4, <1>6, <1>10
  <2>2. HasOp(ops, "unlink", k + 1)
    BY <2>1 DEF Loading
  <2> QED
    BY <1>1, <2>1, <2>2 DEF HasOp
<1>11. Loading(calls, g, Tail(ops), k)
  BY <1>1, <1>8, <1>9, <1>10 DEF Loading
<1> QED
  BY <1>6, <1>9, <1>11 DEF g, op

\* When load() has dropped the orphans, loading again keeps every segment up to a gap.
LEMMA LoadingEnds ==
  ASSUME NEW calls, NEW files, IsFiles(calls, files), NEW k, Loading(calls, files, <<>>, k)
  PROVE  /\ KeptOf(calls, files) = Contiguous(files)
         /\ LoadedOf(calls, files) = Concatenated(files, k)
<1>1. ~HasOp(<<>>, "unlink", k + 1)
  BY RangeEmpty DEF HasOp
<1>2. /\ k \in Nat /\ 1 .. k \subseteq DOMAIN files /\ k + 1 \notin DOMAIN files
      /\ k <= 1 \/ Formed(calls, Concatenated(files, k))
  BY <1>1 DEF Loading
<1>3. Bounded(files)
  BY DEF IsFiles
<1> DEFINE c == Contiguous(files)
           m == KeptOf(calls, files)
<1>4. c \in Nat /\ 1 .. c \subseteq DOMAIN files /\ k <= c
  BY <1>2, <1>3, ContiguousFacts
<1>5. m \in 0 .. c /\ \A n \in 0 .. c : n <= 1 \/ Formed(calls, Concatenated(files, n)) => n <= m
  BY <1>3, KeptFacts
<1> HIDE DEF c, m
<1>6. c = k
  <2> SUFFICES ASSUME c > k  PROVE FALSE
    BY <1>2, <1>4
  <2>1. k + 1 \in 1 .. c
    BY <1>2, <1>4
  <2> QED
    BY <1>2, <1>4, <2>1
<1>7. m = k
  <2>1. k \in 0 .. c
    BY <1>2, <1>6
  <2>2. k <= m
    BY <1>2, <1>5, <2>1
  <2> QED
    BY <1>2, <1>5, <1>6, <2>2
<1> QED
  BY <1>6, <1>7 DEF LoadedOf, c, m

-----------------------------------------------------------------------------
\* A new turn.

\* A turn that is added later does not change whether a log is well formed.
LEMMA FormedSame ==
  ASSUME NEW calls, CallsOK(calls), NEW call \in Nat, NEW log, Entries(log, Len(calls))
  PROVE  Formed(Append(calls, call), log) <=> Formed(calls, log)
<1> DEFINE next == Append(calls, call)
<1>1. calls \in Seq(Nat) /\ log \in Seq(Int) /\ Len(calls) \in Nat /\ Len(log) \in Nat
  BY DEF CallsOK, Entries
<1>2. \A t \in 1 .. Len(calls) : next[t] = calls[t]
  BY <1>1, AppendProperties
<1>3. ASSUME NEW i \in 1 .. Len(log)
      PROVE  log[i] > 0 => next[log[i]] = calls[log[i]]
  <2>1. log[i] \in Int /\ log[i] <= Len(calls)
    BY <1>1 DEF Entries
  <2> HIDE DEF next
  <2> QED
    BY <1>1, <1>2, <2>1
<1> HIDE DEF next
<1>4. ASSUME Formed(next, log)  PROVE Formed(calls, log)
  <2>1. \A i \in 1 .. Len(log) : IsTool(calls, log, i) <=> IsTool(next, log, i)
    BY <1>3 DEF IsTool
  <2>2. ASSUME NEW i \in 1 .. Len(log), NEW j \in 1 .. Len(log),
               IsTool(calls, log, i), IsTool(calls, log, j), calls[log[i]] = calls[log[j]],
               (calls[log[i]] = log[i]) <=> (calls[log[j]] = log[j])
        PROVE  i = j
    <3>1. next[log[i]] = calls[log[i]] /\ next[log[j]] = calls[log[j]]
      BY <1>3, <2>2 DEF IsTool
    <3>2. IsTool(next, log, i) /\ IsTool(next, log, j)
      BY <2>1, <2>2
    <3> QED
      BY <1>1, <1>4, <2>2, <3>1, <3>2, FormedIs
  <2>3. ASSUME NEW i \in 1 .. Len(log), IsTool(calls, log, i)
        PROVE  \E j \in 1 .. i : log[j] = calls[log[i]]
    <3>1. next[log[i]] = calls[log[i]] /\ IsTool(next, log, i)
      BY <1>3, <2>1, <2>3 DEF IsTool
    <3> QED
      BY <1>1, <1>4, <3>1, FormedIs
  <2> QED
    BY <1>1, <2>2, <2>3, FormedIs
<1>5. Formed(calls, log) => Formed(next, log)
  BY FormedLater DEF next
<1> QED
  BY <1>4, <1>5 DEF next

\* A turn that is added later does not change what the files load as.
LEMMA FilesLater ==
  ASSUME NEW calls, CallsOK(calls), NEW call \in Nat, NEW files, IsFiles(calls, files)
  PROVE  /\ IsFiles(Append(calls, call), files)
         /\ LoadedOf(Append(calls, call), files) = LoadedOf(calls, files)
<1> DEFINE next == Append(calls, call)
           c == Contiguous(files)
<1>1. Len(next) = Len(calls) + 1 /\ Bounded(files)
  BY AppendProperties DEF CallsOK, IsFiles
<1>2. c \in Nat /\ 1 .. c \subseteq DOMAIN files
  BY <1>1, ContiguousFacts
<1>3. ASSUME NEW s \in DOMAIN files  PROVE Entries(files[s], Len(next))
  <2>1. Entries(files[s], Len(calls)) /\ Len(calls) \in Nat
    BY DEF IsFiles, CallsOK
  <2> HIDE DEF next
  <2> QED
    BY <1>1, <2>1 DEF Entries
<1>4. 1 \in DOMAIN files => Formed(next, files[1])
  BY FormedLater DEF IsFiles
<1>5. ASSUME NEW n \in 1 .. c
      PROVE  Formed(next, Concatenated(files, n)) <=> Formed(calls, Concatenated(files, n))
  <2>1. n \in Nat /\ 1 .. n \subseteq DOMAIN files
    BY <1>2
  <2>2. Entries(Concatenated(files, n), Len(calls))
    BY <2>1, EntriesConcatenated
  <2> QED
    BY <2>2, FormedSame
<1> HIDE DEF next, c
<1>6. IsFiles(next, files)
  BY <1>3, <1>4 DEF IsFiles
<1>7. {n \in 1 .. c : n = 1 \/ Formed(next, Concatenated(files, n))}
      = {n \in 1 .. c : n = 1 \/ Formed(calls, Concatenated(files, n))}
  BY <1>5
<1>8. KeptOf(next, files) = KeptOf(calls, files)
  BY <1>7 DEF KeptOf, c
<1> QED
  BY <1>6, <1>8 DEF LoadedOf, next

-----------------------------------------------------------------------------
\* The inductive invariant.

Phases == {"idle", "tools", "compact", "checkpoint", "metadata", "landing", "git",
           "failing", "restore", "load"}
Writes == {"tools", "compact", "checkpoint"}

\* Every log is well formed, and so is the base of the files.
LogTypes ==
  /\ CallsOK(callOf)
  /\ IsLog(callOf, memory) /\ IsLog(callOf, pending) /\ IsLog(callOf, staged)
  /\ IsLog(callOf, live) /\ IsLog(callOf, writer) /\ IsLog(callOf, job.log)
  /\ dirty \in BOOLEAN /\ exposed \in BOOLEAN
  /\ job \in [for : Phases, log : Seq(Int), ops : Seq(FileOps), over : BOOLEAN]
  /\ IsFiles(callOf, segments) /\ IsFiles(callOf, backup)

\* What each operation of the reactor and its store runs with.
PhaseOK ==
  /\ job.for \in {"idle", "metadata", "git", "failing"} => job.ops = <<>>
  /\ job.for \in {"idle", "metadata", "git", "failing", "restore", "load"} => job.log = <<>>
  /\ job.for \in {"idle", "metadata", "git", "load"} => ~job.over
  /\ At("landing") => job.log = staged
  /\ job.for \in {"landing", "failing", "restore"} => staged # <<>>
  /\ job.for \in {"tools", "checkpoint"} => dirty
  /\ pending # <<>> => job.for \in {"compact", "metadata", "landing", "git"}
  /\ job.for \in Writes => IF job.log # <<>> THEN staged = <<>>
                           ELSE staged # <<>> /\ job.ops = <<>> /\ ~job.over
  /\ IF At("git") /\ staged # <<>> THEN writer = staged ELSE live = writer
  /\ job.for \in {"failing", "restore"} => writer = <<>> /\ job.over
  /\ At("load") =>
       /\ memory = <<>> /\ writer = <<>> /\ staged = <<>> /\ pending = <<>>
       /\ ~dirty /\ ~exposed

\* The log that the next commit publishes.
Newest == IF job.log # <<>> THEN job.log ELSE IF staged # <<>> THEN staged ELSE writer

\* It is the reactor's history, or a compaction of it that a commit is to publish.
NewestOK ==
  /\ job.for \in {"tools", "checkpoint"} => Newest = memory
  /\ At("compact") => pending # <<>>
  /\ pending # <<>> => Newest = pending /\ CompactionOf(pending, memory)
  /\ job.for \in {"metadata", "landing", "git"} /\ pending = <<>> => ~dirty
  /\ ~dirty /\ Newest # <<>> => CompactionOf(Newest, memory)
  /\ ~dirty /\ Newest = <<>> /\ ~At("load") =>
       /\ ~exposed /\ memory = LoadedOf(callOf, segments)
       /\ KeptOf(callOf, segments) = Contiguous(segments)

\* Every turn whose write or commit returned is in the history, or summarised in it.
DurableOK == ~At("load") => durable \subseteq Covered(memory)

\* What a new store makes of files whose writer is gone.
Unwritten(files) ==
  /\ durable \subseteq Covered(LoadedOf(callOf, files))
  /\ exposed \/ OfPrefix(LoadedOf(callOf, files), memory)
\* Without a writer the files speak for themselves; while a rewrite is in them, the
\* snapshot does.
DiskOK ==
  /\ writer = <<>> /\ job.log = <<>> /\ job.for \in Writes \union {"idle", "metadata", "git"} =>
       Unwritten(segments)
  /\ job.for \in {"landing", "failing", "restore"} \/ (At("git") /\ staged # <<>>) =>
       Unwritten(backup)

\* The files hold what the writer remembers, and nothing else unless a failed operation
\* has left them between two generations.
WriterOK ==
  writer # <<>> =>
    /\ OfPrefix(writer, memory)
    /\ \A s \in DOMAIN segments : TurnsOf(segments[s]) \subseteq Covered(memory)
    /\ ~(At("landing") /\ job.over) =>
         Begun(callOf, segments, writer) /\ durable \subseteq Covered(writer)
    /\ ~exposed /\ job.log \in {<<>>, writer} => Exact(segments, writer)

\* The operations that are left bring the files to the log; they write over records
\* only when a rewrite lands.
JobOK ==
  job.log # <<>> =>
    /\ Planned(segments, writer, job.log, job.ops, job.over, exposed)
    /\ ~job.over => IF writer = <<>> THEN durable = {} ELSE IsPrefix(writer, job.log)
    /\ job.over /\ writer # <<>> => At("landing")
    /\ job.over => job.log # writer

\* The operations that are left bring back the snapshot.
RestoreOK == At("restore") => Restoring(segments, backup, job.ops)

\* The operations that are left drop the segments behind the k that load as a history.
LoadOK ==
  At("load") =>
    \E k \in Nat : /\ Loading(callOf, segments, job.ops, k)
                   /\ durable \subseteq Covered(Concatenated(segments, k))

\* The inductive invariant.
LogInv ==
  /\ LogTypes /\ PhaseOK /\ NewestOK /\ DurableOK
  /\ DiskOK /\ WriterOK /\ JobOK /\ RestoreOK /\ LoadOK

-----------------------------------------------------------------------------
\* What the invariant says of a state.

\* A log is a well-formed sequence of turns and summaries.
LEMMA LogIsSeq ==
  ASSUME NEW calls, NEW log, IsLog(calls, log)
  PROVE  log \in Seq(Int) /\ Entries(log, Len(calls)) /\ Formed(calls, log)
BY DEF IsLog, Entries

\* A log is a compaction of itself.
LEMMA SelfCompaction ==
  ASSUME NEW log
  PROVE  CompactionOf(log, log)
BY DEF CompactionOf

\* A compaction of a whole history is one of a part of it.
LEMMA OfWhole ==
  ASSUME NEW history \in Seq(Int), NEW log, CompactionOf(log, history)
  PROVE  OfPrefix(log, history)
BY PrefixItself, OfPrefixFacts

\* A write under way is of the reactor's history or of a compaction of it.
LEMMA JobLog ==
  ASSUME LogInv, job.log # <<>>
  PROVE  /\ job.for \in Writes \union {"landing"} /\ Newest = job.log
         /\ CompactionOf(job.log, memory) /\ OfPrefix(job.log, memory)
         /\ Covered(memory) \subseteq Covered(job.log) /\ TurnsOf(job.log) \subseteq TurnsOf(memory)
<1>1. job.for \in Writes \union {"landing"}
  BY DEF LogInv, LogTypes, PhaseOK, Phases, Writes
<1>2. Newest = job.log
  BY DEF Newest
<1>3. CompactionOf(job.log, memory)
  <2>1. CASE job.for \in {"tools", "checkpoint"}
    BY <1>2, <2>1, SelfCompaction DEF LogInv, NewestOK
  <2>2. CASE At("compact")
    BY <1>2, <2>2 DEF LogInv, NewestOK
  <2>3. CASE At("landing")
    BY <1>2, <2>3 DEF LogInv, NewestOK, At
  <2> QED
    BY <1>1, <2>1, <2>2, <2>3 DEF Writes, At
<1>4. memory \in Seq(Int) /\ Entries(memory, Len(callOf)) /\ Len(callOf) \in Nat
  BY LogIsSeq DEF LogInv, LogTypes, CallsOK
<1>5. OfPrefix(job.log, memory)
  BY <1>3, <1>4, OfWhole
<1>6. Covered(memory) \subseteq Covered(job.log) /\ TurnsOf(job.log) \subseteq TurnsOf(memory)
  BY <1>3, <1>4, CompactionFacts
<1> QED
  BY <1>1, <1>2, <1>3, <1>5, <1>6

\* With no write under way and no failed commit to undo, a new store finds the history.
LEMMA QuietLoads ==
  ASSUME LogInv, job.log = <<>>, job.for \in Writes \union {"idle", "metadata", "git"}
  PROVE  Unwritten(segments)
<1>1. CASE writer = <<>>
  BY <1>1 DEF LogInv, DiskOK
<1>2. CASE writer # <<>>
  <2>1. ~At("landing")
    BY DEF At, Writes
  <2>2. /\ OfPrefix(writer, memory) /\ Begun(callOf, segments, writer) /\ durable \subseteq Covered(writer)
        /\ ~exposed => Exact(segments, writer)
    BY <1>2, <2>1 DEF LogInv, WriterOK
  <2>3. CallsOK(callOf) /\ IsFiles(callOf, segments) /\ IsLog(callOf, writer)
    BY DEF LogInv, LogTypes
  <2>4. Covered(writer) \subseteq Covered(LoadedOf(callOf, segments))
    BY <2>2, <2>3, BegunLoads
  <2>5. ~exposed => LoadedOf(callOf, segments) = writer
    BY <2>2, <2>3, ExactLoads
  <2> QED
    BY <2>2, <2>4, <2>5 DEF Unwritten
<1> QED
  BY <1>1, <1>2

\* A write whose operations are done has brought the files to its log.
LEMMA JobEnds ==
  ASSUME LogInv, job.log # <<>>, job.ops = <<>>
  PROVE  /\ Begun(callOf, segments, job.log)
         /\ \A s \in DOMAIN segments : TurnsOf(segments[s]) \subseteq Covered(memory)
         /\ durable \subseteq Covered(job.log)
         /\ ~exposed \/ writer = <<>> => Exact(segments, job.log)
<1>1. /\ CallsOK(callOf) /\ IsFiles(callOf, segments) /\ IsLog(callOf, job.log)
      /\ job.log \in Seq(Int) /\ Chunks(job.log) \in Nat \ {0}
  BY LogIsSeq, ChunksFacts DEF LogInv, LogTypes
<1>2. /\ job.for \in Writes \union {"landing"}
      /\ Covered(memory) \subseteq Covered(job.log) /\ TurnsOf(job.log) \subseteq TurnsOf(memory)
  BY JobLog
<1>3. durable \subseteq Covered(job.log)
  BY <1>2 DEF LogInv, DurableOK, At, Writes
<1>4. CASE job.log = writer
  <2>1. ~(At("landing") /\ job.over)
    BY <1>4 DEF LogInv, JobOK
  <2> QED
    BY <1>3, <1>4, <2>1 DEF LogInv, WriterOK
<1>5. CASE job.log # writer
  <2>1. Planned(segments, writer, job.log, <<>>, job.over, exposed)
    BY DEF LogInv, JobOK
  <2>2. \A s : ~HasOp(<<>>, "write", s) /\ ~HasOp(<<>>, "unlink", s)
    BY RangeEmpty DEF HasOp
  <2>3. \A s \in 1 .. Chunks(job.log) : Whole(segments, job.log, s)
    BY <1>5, <2>1, <2>2 DEF Planned
  <2>4. \A s \in DOMAIN segments : s > Chunks(job.log) => writer # <<>> /\ exposed
    BY <2>1, <2>2 DEF Planned
  <2>5. Begun(callOf, segments, job.log)
    BY <1>1, <2>3, WholeBegun
  <2>6. ~exposed \/ writer = <<>> => Exact(segments, job.log)
    <3> SUFFICES ASSUME ~exposed \/ writer = <<>>  PROVE Exact(segments, job.log)
      OBVIOUS
    <3>1. \A s \in DOMAIN segments : s \in 1 .. Chunks(job.log)
      <4>1. \A s \in DOMAIN segments : s \in Nat \ {0}
        BY <1>1 DEF IsFiles, Bounded
      <4> QED
        BY <1>1, <2>4, <4>1
    <3> QED
      BY <2>3, <3>1 DEF Exact, Whole
  <2>7. ASSUME NEW s \in DOMAIN segments  PROVE TurnsOf(segments[s]) \subseteq Covered(memory)
    <3>1. CASE writer # <<>>
      BY <3>1 DEF LogInv, WriterOK
    <3>2. CASE writer = <<>>
      <4>1. s \in 1 .. Chunks(job.log) /\ segments[s] = Chunk(job.log, s)
        BY <2>6, <3>2 DEF Exact
      <4>2. segments[s] \in Seq(Int) /\ IsPrefix(segments[s], Chunk(job.log, s))
        BY <1>1, <4>1, ChunkFacts, PrefixItself
      <4>3. TurnsOf(segments[s]) \subseteq TurnsOf(job.log)
        BY <1>1, <4>1, <4>2, TurnsOfChunk
      <4> QED
        BY <1>2, <4>3 DEF Covered
    <3> QED
      BY <3>1, <3>2
  <2> QED
    BY <1>3, <2>5, <2>6, <2>7
<1> QED
  BY <1>4, <1>5

\* Only writes with a log, restores and loads have operations under way.
LEMMA OpsOf ==
  ASSUME LogInv, InOps
  PROVE  job.log # <<>> \/ At("restore") \/ At("load")
BY DEF LogInv, LogTypes, PhaseOK, InOps, At, Phases, Writes

\* The operation at the head of a write, applied or cut short.
LEMMA OpOfJob ==
  ASSUME LogInv, InOps, job.log # <<>>
  PROVE  /\ IsFiles(callOf, Applied(segments, Head(job.ops)))
         /\ Planned(Applied(segments, Head(job.ops)), writer, job.log, Tail(job.ops), job.over, exposed)
         /\ Between(segments, Applied(segments, Head(job.ops)), job.log)
         /\ \A g \in CutShort(segments, Head(job.ops)) :
              IsFiles(callOf, g) /\ Between(segments, g, job.log)
         /\ writer # <<>> /\ ~job.over =>
              /\ Begun(callOf, Applied(segments, Head(job.ops)), writer)
              /\ \A g \in CutShort(segments, Head(job.ops)) : Begun(callOf, g, writer)
<1> DEFINE op == Head(job.ops)
<1>1. /\ CallsOK(callOf) /\ IsFiles(callOf, segments) /\ IsLog(callOf, job.log) /\ writer \in Seq(Int)
      /\ Planned(segments, writer, job.log, job.ops, job.over, exposed) /\ job.ops # <<>>
      /\ job.over \in BOOLEAN
  BY LogIsSeq DEF LogInv, LogTypes, JobOK, InOps
<1>2. /\ op \in FileOps /\ OpOK(segments, writer, job.log, job.over, op)
      /\ IsFiles(callOf, Applied(segments, op))
      /\ Planned(Applied(segments, op), writer, job.log, Tail(job.ops), job.over, exposed)
      /\ Between(segments, Applied(segments, op), job.log)
  BY <1>1, PlannedApplied
<1>3. \A g \in CutShort(segments, op) : IsFiles(callOf, g) /\ Between(segments, g, job.log)
  BY <1>1, <1>2, PlannedCut
<1>4. ASSUME writer # <<>>, ~job.over
      PROVE  /\ Begun(callOf, Applied(segments, op), writer)
             /\ \A g \in CutShort(segments, op) : Begun(callOf, g, writer)
  <2>1. IsPrefix(writer, job.log) /\ Begun(callOf, segments, writer)
    BY <1>4 DEF LogInv, JobOK, WriterOK
  <2>2. job.over = FALSE
    BY <1>1, <1>4
  <2>3. OpOK(segments, writer, job.log, FALSE, op)
    BY <1>2, <2>2
  <2> HIDE DEF op
  <2> QED
    BY <1>1, <1>2, <1>4, <2>1, <2>3, BegunKept
<1> QED
  BY <1>2, <1>3, <1>4

\* A file operation of a write brings no turn into the files that the history has lost.
LEMMA TurnsBetween ==
  ASSUME LogInv, job.log # <<>>, NEW g, Between(segments, g, job.log), writer # <<>>
  PROVE  \A s \in DOMAIN g : TurnsOf(g[s]) \subseteq Covered(memory)
<1>1. job.log \in Seq(Int) /\ TurnsOf(job.log) \subseteq TurnsOf(memory)
  BY JobLog, LogIsSeq DEF LogInv, LogTypes
<1>2. ASSUME NEW s \in DOMAIN g  PROVE TurnsOf(g[s]) \subseteq Covered(memory)
  <2>1. CASE s \in DOMAIN segments /\ g[s] = segments[s]
    BY <2>1 DEF LogInv, WriterOK
  <2>2. CASE s \in 1 .. Chunks(job.log) /\ g[s] \in Seq(Int) /\ IsPrefix(g[s], Chunk(job.log, s))
    <3>1. TurnsOf(g[s]) \subseteq TurnsOf(job.log)
      BY <1>1, <2>2, TurnsOfChunk
    <3> QED
      BY <1>1, <3>1 DEF Covered
  <2> QED
    BY <2>1, <2>2 DEF Between
<1> QED
  BY <1>2

\* Whatever a crash leaves in the files holds the turns whose write or commit returned,
\* unless a rewrite was in them.
LEMMA CrashLoads ==
  ASSUME LogInv, ~At("load"),
         NEW g \in {segments} \union (IF InOps THEN CutShort(segments, Head(job.ops)) ELSE {})
  PROVE  /\ IsFiles(callOf, g)
         /\ \/ job.over /\ (InOps \/ At("failing"))
            \/ durable \subseteq Covered(LoadedOf(callOf, g))
<1>1. CallsOK(callOf) /\ IsFiles(callOf, segments) /\ IsFiles(callOf, backup)
      /\ IsLog(callOf, job.log) /\ IsLog(callOf, writer)
  BY DEF LogInv, LogTypes
<1>2. CASE job.log # <<>>
  <2>1. CASE ~InOps
    <3>1. g = segments /\ job.ops = <<>>
      BY <2>1 DEF InOps
    <3>2. Begun(callOf, segments, job.log) /\ durable \subseteq Covered(job.log)
      BY <1>2, <3>1, JobEnds
    <3>3. Covered(job.log) \subseteq Covered(LoadedOf(callOf, segments))
      BY <1>1, <3>2, BegunLoads
    <3> QED
      BY <1>1, <3>1, <3>2, <3>3
  <2>2. CASE InOps
    <3>1. g = segments \/ g \in CutShort(segments, Head(job.ops))
      BY <2>2
    <3>2. IsFiles(callOf, g)
      BY <1>1, <1>2, <2>2, <3>1, OpOfJob
    <3>3. ASSUME ~job.over  PROVE durable \subseteq Covered(LoadedOf(callOf, g))
      <4>1. CASE writer = <<>>
        BY <1>2, <3>3, <4>1 DEF LogInv, JobOK
      <4>2. CASE writer # <<>>
        <5>1. Begun(callOf, segments, writer) /\ durable \subseteq Covered(writer)
          BY <3>3, <4>2 DEF LogInv, WriterOK
        <5>2. Begun(callOf, g, writer)
          BY <1>2, <2>2, <3>1, <3>3, <4>2, <5>1, OpOfJob
        <5>3. Covered(writer) \subseteq Covered(LoadedOf(callOf, g))
          BY <1>1, <3>2, <5>2, BegunLoads
        <5> QED
          BY <5>1, <5>3
      <4> QED
        BY <4>1, <4>2
    <3> QED
      BY <2>2, <3>2, <3>3
  <2> QED
    BY <2>1, <2>2
<1>3. CASE job.log = <<>> /\ At("restore")
  <2>1. Restoring(segments, backup, job.ops) /\ job.over /\ Unwritten(backup)
    BY <1>3 DEF LogInv, RestoreOK, PhaseOK, DiskOK, At
  <2>2. CASE InOps
    <3>1. job.ops # <<>>
      BY <2>2 DEF InOps
    <3>2. \A h \in CutShort(segments, Head(job.ops)) : IsFiles(callOf, h)
      BY <1>1, <2>1, <3>1, RestoringApplied
    <3> QED
      BY <1>1, <2>1, <2>2, <3>2
  <2>3. CASE ~InOps
    <3>1. g = segments /\ job.ops = <<>>
      BY <2>3 DEF InOps
    <3>2. LoadedOf(callOf, segments) = LoadedOf(callOf, backup)
      BY <1>1, <2>1, <3>1, RestoringEnds
    <3> QED
      BY <1>1, <2>1, <3>1, <3>2 DEF Unwritten
  <2> QED
    BY <2>2, <2>3
<1>4. CASE job.log = <<>> /\ ~At("restore")
  <2>1. ~InOps /\ g = segments
    <3>1. ~InOps
      BY <1>4, OpsOf
    <3> QED
      BY <3>1
  <2>2. job.for \in Writes \union {"idle", "metadata", "git", "failing"}
    BY <1>4 DEF LogInv, LogTypes, PhaseOK, Phases, Writes, At
  <2>3. CASE At("failing")
    BY <1>1, <2>1, <2>3 DEF LogInv, PhaseOK, At
  <2>4. CASE ~At("failing")
    <3>1. Unwritten(segments)
      BY <1>4, <2>2, <2>4, QuietLoads DEF At
    <3> QED
      BY <1>1, <2>1, <3>1 DEF Unwritten
  <2> QED
    BY <2>3, <2>4
<1> QED
  BY <1>2, <1>3, <1>4

-----------------------------------------------------------------------------
\* Nothing written.

\* No files load as no turns.
LEMMA NoFiles ==
  ASSUME NEW calls, NEW files, DOMAIN files = {}
  PROVE  /\ IsFiles(calls, files) /\ Contiguous(files) = 0
         /\ KeptOf(calls, files) = 0 /\ LoadedOf(calls, files) = <<>>
<1>1. IsFiles(calls, files) /\ Bounded(files)
  <2>1. DOMAIN files \subseteq 1 .. 0
    OBVIOUS
  <2> QED
    BY <2>1 DEF IsFiles, Bounded
<1>2. Contiguous(files) = 0
  <2>1. /\ Contiguous(files) \in Nat /\ 1 .. Contiguous(files) \subseteq {}
    BY <1>1, ContiguousFacts
  <2> DEFINE c == Contiguous(files)
  <2>2. c \in Nat /\ 1 \notin 1 .. c
    BY <2>1
  <2> HIDE DEF c
  <2>3. c = 0
    BY <2>2
  <2> QED
    BY <2>3 DEF c
<1>3. KeptOf(calls, files) = 0
  <2>1. KeptOf(calls, files) \in 0 .. 0
    BY <1>1, <1>2, KeptFacts
  <2> QED
    BY <2>1
<1>4. LoadedOf(calls, files) = <<>>
  <2>1. \A s \in 1 .. 0 : files[s] \in Seq(Int)
    OBVIOUS
  <2>2. Concatenated(files, 0) = <<>>
    BY <2>1, ConcatenatedFacts
  <2> QED
    BY <1>3, <2>2 DEF LoadedOf
<1> QED
  BY <1>1, <1>2, <1>3, <1>4

\* The empty log is a log of no turns, and part of any history.
LEMMA NoLog ==
  /\ \A calls : IsLog(calls, <<>>)
  /\ Covered(<<>>) = {}
  /\ \A h \in Seq(Int) : OfPrefix(<<>>, h)
<1>1. ASSUME NEW calls  PROVE IsLog(calls, <<>>)
  <2>1. <<>> \in Seq(Int) /\ Len(<<>>) = 0 /\ DOMAIN <<>> = {}
    OBVIOUS
  <2> QED
    BY <2>1 DEF IsLog, Entries, Formed
<1>2. Covered(<<>>) = {}
  BY RangeEmpty DEF Covered, TurnsOf, Summarised
<1>3. ASSUME NEW h \in Seq(Int)  PROVE OfPrefix(<<>>, h)
  <2>1. <<>> \in Seq(Int) /\ IsPrefix(<<>>, h) /\ Len(<<>>) = 0
    BY PrefixItself
  <2>2. 0 \in 0 .. Len(h) /\ <<>> = SubSeq(h, 1, 0)
    BY <2>1, PrefixIsSubSeq
  <2> QED
    BY <2>2, SelfCompaction DEF OfPrefix
<1> QED
  BY <1>1, <1>2, <1>3

\* A session starts with no history and no files.
LEMMA InvBegins ==
  ASSUME LogInit
  PROVE  LogInv
<1>1. callOf = <<>> /\ memory = <<>> /\ pending = <<>> /\ staged = <<>> /\ live = <<>> /\ writer = <<>>
      /\ dirty = FALSE /\ exposed = FALSE /\ durable = {} /\ segments = <<>> /\ backup = <<>>
      /\ job.for = "idle" /\ job.log = <<>> /\ job.ops = <<>> /\ job.over = FALSE /\ job = Idle
  BY DEF LogInit, Idle
<1>2. DOMAIN segments = {} /\ DOMAIN backup = {}
  BY <1>1
<1>3. /\ IsFiles(callOf, segments) /\ IsFiles(callOf, backup)
      /\ Contiguous(segments) = 0 /\ KeptOf(callOf, segments) = 0 /\ LoadedOf(callOf, segments) = <<>>
  BY <1>2, NoFiles
<1>4. CallsOK(callOf)
  BY <1>1 DEF CallsOK
<1>5. LogTypes
  <2>1. job \in [for : Phases, log : Seq(Int), ops : Seq(FileOps), over : BOOLEAN]
    BY <1>1 DEF Idle, Phases
  <2> QED
    BY <1>1, <1>3, <1>4, <2>1, NoLog DEF LogTypes
<1>6. PhaseOK
  BY <1>1 DEF PhaseOK, At, Writes
<1>7. NewestOK
  BY <1>1, <1>3 DEF NewestOK, Newest, At
<1>8. DurableOK
  BY <1>1 DEF DurableOK
<1>9. DiskOK
  <2>1. OfPrefix(<<>>, memory)
    <3>1. <<>> \in Seq(Int)
      OBVIOUS
    <3> QED
      BY <1>1, <3>1, NoLog
  <2> QED
    BY <1>1, <1>3, <2>1 DEF DiskOK, Unwritten, At
<1>10. WriterOK /\ JobOK /\ RestoreOK /\ LoadOK
  BY <1>1 DEF WriterOK, JobOK, RestoreOK, LoadOK, At
<1> QED
  BY <1>5, <1>6, <1>7, <1>8, <1>9, <1>10 DEF LogInv

-----------------------------------------------------------------------------
\* Each step keeps the invariant.

\* A failed landing is undone from the snapshot.
LEMMA RestoreBeginsKeeps ==
  ASSUME LogInv, RestoreBegins
  PROVE  LogInv'
<1>1. /\ job.for = "failing" /\ job.ops = <<>> /\ job.log = <<>>
      /\ job'.for = "restore" /\ job'.log = <<>> /\ job'.ops = RestoreOps /\ job'.over = TRUE
      /\ job' = Job("restore", <<>>, RestoreOps, TRUE)
  BY DEF LogInv, RestoreBegins, PhaseOK, At, Job
<1>2. UNCHANGED <<callOf, memory, dirty, pending, staged, live, writer, segments, backup, durable, exposed>>
  BY DEF RestoreBegins, reactorState, storeState
<1>3. Restoring(segments, backup, RestoreOps)
  BY RestoreOpsFacts DEF LogInv, LogTypes
<1>4. LogTypes'
  <2>1. job' \in [for : Phases, log : Seq(Int), ops : Seq(FileOps), over : BOOLEAN]
    BY <1>1, <1>3 DEF Job, Phases, Restoring
  <2> QED
    BY <1>1, <1>2, <2>1, NoLog DEF LogInv, LogTypes
<1>5. PhaseOK'
  BY <1>1, <1>2 DEF LogInv, PhaseOK, At, Writes
<1>6. NewestOK'
  BY <1>1, <1>2 DEF LogInv, NewestOK, Newest, At
<1>7. DurableOK'
  BY <1>1, <1>2 DEF LogInv, DurableOK, At
<1>8. DiskOK'
  BY <1>1, <1>2 DEF LogInv, DiskOK, At, Writes, Unwritten
<1>9. WriterOK' /\ JobOK'
  BY <1>1, <1>2 DEF LogInv, WriterOK, JobOK, PhaseOK, At
<1>10. RestoreOK' /\ LoadOK'
  BY <1>1, <1>2, <1>3 DEF RestoreOK, LoadOK, At
<1> QED
  BY <1>4, <1>5, <1>6, <1>7, <1>8, <1>9, <1>10 DEF LogInv

\* A restore that ends has brought back what the snapshot loads.
LEMMA RestoreEndsKeeps ==
  ASSUME LogInv, RestoreEnds
  PROVE  LogInv'
<1>1. /\ job.for = "restore" /\ job.ops = <<>> /\ job.log = <<>> /\ pending = <<>>
      /\ staged # <<>> /\ writer = <<>> /\ live = <<>>
      /\ job'.for = "idle" /\ job'.log = <<>> /\ job'.ops = <<>> /\ job'.over = FALSE /\ job' = Idle
  BY DEF LogInv, RestoreEnds, PhaseOK, At, Idle, InOps
<1>2. /\ UNCHANGED <<callOf, memory, dirty, pending, staged, live, writer, segments, durable, exposed>>
      /\ backup' = <<>> /\ DOMAIN backup' = {}
  BY DEF RestoreEnds, reactorState, storeState
<1>3. Unwritten(segments)
  <2>1. Restoring(segments, backup, <<>>) /\ Unwritten(backup)
    BY <1>1 DEF LogInv, RestoreOK, DiskOK, At
  <2>2. LoadedOf(callOf, segments) = LoadedOf(callOf, backup)
    BY <2>1, RestoringEnds DEF LogInv, LogTypes
  <2> QED
    BY <2>1, <2>2 DEF Unwritten
<1>4. LogTypes'
  <2>1. job' \in [for : Phases, log : Seq(Int), ops : Seq(FileOps), over : BOOLEAN]
    BY <1>1 DEF Idle, Phases
  <2>2. IsFiles(callOf', backup')
    BY <1>2, NoFiles
  <2> QED
    BY <1>1, <1>2, <2>1, <2>2, NoLog DEF LogInv, LogTypes
<1>5. PhaseOK'
  BY <1>1, <1>2 DEF LogInv, PhaseOK, At, Writes
<1>6. NewestOK'
  BY <1>1, <1>2 DEF LogInv, NewestOK, Newest, At
<1>7. DurableOK'
  BY <1>1, <1>2 DEF LogInv, DurableOK, At
<1>8. DiskOK'
  BY <1>1, <1>2, <1>3 DEF DiskOK, At, Writes, Unwritten
<1>9. WriterOK' /\ JobOK'
  BY <1>1, <1>2 DEF WriterOK, JobOK
<1>10. RestoreOK' /\ LoadOK'
  BY <1>1 DEF RestoreOK, LoadOK, At
<1> QED
  BY <1>4, <1>5, <1>6, <1>7, <1>8, <1>9, <1>10 DEF LogInv

\* A commit that throws early has moved nothing.
LEMMA CommitRefusedKeeps ==
  ASSUME LogInv, CommitRefused
  PROVE  LogInv'
<1>1. /\ job.for = "metadata" /\ job.ops = <<>> /\ job.log = <<>>
      /\ job'.for = "idle" /\ job'.log = <<>> /\ job'.ops = <<>> /\ job'.over = FALSE /\ job' = Idle
  BY DEF LogInv, CommitRefused, PhaseOK, At, Idle
<1>2. /\ UNCHANGED <<callOf, memory, dirty, staged, live, writer, segments, backup, durable, exposed>>
      /\ pending' = <<>>
  BY DEF CommitRefused, storeState, DropsPending
<1>4. LogTypes'
  <2>1. job' \in [for : Phases, log : Seq(Int), ops : Seq(FileOps), over : BOOLEAN]
    BY <1>1 DEF Idle, Phases
  <2> QED
    BY <1>1, <1>2, <2>1, NoLog DEF LogInv, LogTypes
<1>5. PhaseOK'
  BY <1>1, <1>2 DEF LogInv, PhaseOK, At, Writes
<1>6. NewestOK'
  BY <1>1, <1>2 DEF LogInv, NewestOK, Newest, At
<1>7. DurableOK'
  BY <1>1, <1>2 DEF LogInv, DurableOK, At
<1>8. DiskOK'
  BY <1>1, <1>2 DEF LogInv, DiskOK, At, Writes, Unwritten
<1>9. WriterOK' /\ JobOK'
  BY <1>1, <1>2 DEF LogInv, WriterOK, JobOK, At
<1>10. RestoreOK' /\ LoadOK'
  BY <1>1 DEF RestoreOK, LoadOK, At
<1> QED
  BY <1>4, <1>5, <1>6, <1>7, <1>8, <1>9, <1>10 DEF LogInv

\* A rewrite that has landed is what the files hold.
LEMMA LandingEndsKeeps ==
  ASSUME LogInv, LandingEnds
  PROVE  LogInv'
<1>1. /\ job.for = "landing" /\ job.ops = <<>> /\ job.log = staged /\ staged # <<>>
      /\ job'.for = "git" /\ job'.log = <<>> /\ job'.ops = <<>> /\ job'.over = FALSE
      /\ job' = Job("git", <<>>, <<>>, FALSE)
  BY DEF LogInv, LandingEnds, PhaseOK, At, Job, InOps
<1>2. /\ UNCHANGED <<callOf, memory, dirty, pending, staged, live, segments, backup, durable, exposed>>
      /\ writer' = staged
  BY DEF LandingEnds, reactorState
<1>3. /\ OfPrefix(staged, memory) /\ Begun(callOf, segments, staged) /\ durable \subseteq Covered(staged)
      /\ \A s \in DOMAIN segments : TurnsOf(segments[s]) \subseteq Covered(memory)
      /\ ~exposed => Exact(segments, staged)
  BY <1>1, JobLog, JobEnds
<1>4. LogTypes'
  <2>1. job' \in [for : Phases, log : Seq(Int), ops : Seq(FileOps), over : BOOLEAN]
    BY <1>1 DEF Job, Phases
  <2> QED
    BY <1>1, <1>2, <2>1, NoLog DEF LogInv, LogTypes
<1>5. PhaseOK'
  BY <1>1, <1>2 DEF LogInv, PhaseOK, At, Writes
<1>6. NewestOK'
  BY <1>1, <1>2 DEF LogInv, NewestOK, Newest, At
<1>7. DurableOK'
  BY <1>1, <1>2 DEF LogInv, DurableOK, At
<1>8. DiskOK'
  BY <1>1, <1>2 DEF LogInv, DiskOK, At, Writes, Unwritten
<1>9. WriterOK' /\ JobOK'
  BY <1>1, <1>2, <1>3 DEF WriterOK, JobOK, At
<1>10. RestoreOK' /\ LoadOK'
  BY <1>1 DEF RestoreOK, LoadOK, At
<1> QED
  BY <1>4, <1>5, <1>6, <1>7, <1>8, <1>9, <1>10 DEF LogInv

\* The history that is loaded is the one in the files.
LEMMA LoadEndsKeeps ==
  ASSUME LogInv, LoadEnds
  PROVE  LogInv'
<1>1. /\ job.for = "load" /\ job.ops = <<>> /\ job.log = <<>> /\ pending = <<>> /\ dirty = FALSE
      /\ staged = <<>> /\ writer = <<>> /\ live = <<>> /\ exposed = FALSE
      /\ job'.for = "idle" /\ job'.log = <<>> /\ job'.ops = <<>> /\ job'.over = FALSE /\ job' = Idle
  BY DEF LogInv, LoadEnds, LogTypes, PhaseOK, At, Idle, InOps
<1>2. /\ UNCHANGED <<callOf, dirty, pending, staged, live, writer, segments, backup, durable, exposed>>
      /\ memory' = LoadedOf(callOf, segments)
  BY LoadIs DEF LoadEnds, storeState
<1>3. KeptOf(callOf, segments) = Contiguous(segments) /\ durable \subseteq Covered(memory')
  <2>1. PICK k \in Nat : Loading(callOf, segments, <<>>, k) /\ durable \subseteq Covered(Concatenated(segments, k))
    BY <1>1 DEF LogInv, LoadOK, At
  <2> QED
    BY <1>2, <2>1, LoadingEnds DEF LogInv, LogTypes
<1>4. IsLog(callOf, memory') /\ OfPrefix(memory', memory')
  <2>1. IsLog(callOf, memory')
    BY <1>2, LoadedFacts DEF LogInv, LogTypes
  <2> QED
    BY <2>1, LogIsSeq, SelfCompaction, OfWhole
<1>5. LogTypes'
  <2>1. job' \in [for : Phases, log : Seq(Int), ops : Seq(FileOps), over : BOOLEAN]
    BY <1>1 DEF Idle, Phases
  <2> QED
    BY <1>1, <1>2, <1>4, <2>1, NoLog DEF LogInv, LogTypes
<1>6. PhaseOK'
  BY <1>1, <1>2 DEF PhaseOK, At, Writes
<1>7. NewestOK'
  BY <1>1, <1>2, <1>3 DEF NewestOK, Newest, At
<1>8. DurableOK'
  BY <1>2, <1>3 DEF DurableOK
<1>9. DiskOK'
  BY <1>1, <1>2, <1>3, <1>4 DEF DiskOK, At, Writes, Unwritten
<1>10. WriterOK' /\ JobOK' /\ RestoreOK' /\ LoadOK'
  BY <1>1, <1>2 DEF WriterOK, JobOK, RestoreOK, LoadOK, At
<1> QED
  BY <1>5, <1>6, <1>7, <1>8, <1>9, <1>10 DEF LogInv

\* A write that returns leaves its log in the files and remembered.
LEMMA WriteReturnsKeeps ==
  ASSUME LogInv, WriteReturns
  PROVE  LogInv'
<1>1. /\ job.for \in Writes /\ job.ops = <<>>
      /\ job' = (IF job.for = "tools" THEN Idle ELSE Job("metadata", <<>>, <<>>, FALSE))
      /\ job'.for = (IF job.for = "tools" THEN "idle" ELSE "metadata")
      /\ job'.log = <<>> /\ job'.ops = <<>> /\ job'.over = FALSE
  BY DEF WriteReturns, At, Idle, Job, InOps, Writes
<1>2. /\ UNCHANGED <<callOf, memory, pending, staged, segments, backup>>
      /\ dirty' = (dirty /\ job.for = "compact")
  BY DEF WriteReturns, At
<1>3. /\ job.for = "tools" \/ job.for = "checkpoint" => Newest = memory
      /\ job.for = "compact" => pending # <<>>
      /\ job.for = "tools" \/ job.for = "checkpoint" => pending = <<>>
      /\ pending # <<>> => Newest = pending /\ CompactionOf(pending, memory)
      /\ ~dirty' => CompactionOf(Newest, memory)
      /\ job'.for = "metadata" /\ pending = <<>> => ~dirty'
      /\ live = writer
      /\ dirty' \in BOOLEAN
  <2>1. /\ job.for = "tools" \/ job.for = "checkpoint" => Newest = memory
        /\ job.for = "compact" => pending # <<>>
        /\ job.for = "tools" \/ job.for = "checkpoint" => pending = <<>>
        /\ pending # <<>> => Newest = pending /\ CompactionOf(pending, memory)
        /\ live = writer
        /\ dirty' \in BOOLEAN
    BY <1>1, <1>2 DEF LogInv, NewestOK, PhaseOK, At, Writes
  <2> QED
    BY <1>1, <1>2, <2>1, SelfCompaction DEF Writes
<1>4. job' \in [for : Phases, log : Seq(Int), ops : Seq(FileOps), over : BOOLEAN]
  BY <1>1 DEF Idle, Job, Phases
<1>5. CASE job.log = <<>>
  <2>1. UNCHANGED <<live, writer, durable, exposed>> /\ staged # <<>> /\ Newest' = Newest /\ Newest # <<>>
    BY <1>1, <1>2, <1>5 DEF WriteReturns, LogInv, PhaseOK, Newest
  <2>2. LogTypes'
    BY <1>1, <1>2, <1>3, <1>4, <2>1, NoLog DEF LogInv, LogTypes
  <2>3. PhaseOK'
    BY <1>1, <1>2, <1>3, <2>1 DEF PhaseOK, At, Writes
  <2>4. NewestOK'
    BY <1>1, <1>2, <1>3, <2>1 DEF NewestOK, At
  <2>5. DurableOK'
    BY <1>1, <1>2, <2>1 DEF LogInv, DurableOK, At, Writes
  <2>6. DiskOK'
    <3>1. Unwritten(segments)
      BY <1>1, <1>5, QuietLoads
    <3> QED
      BY <1>1, <1>2, <2>1, <3>1 DEF DiskOK, At, Unwritten
  <2>7. WriterOK' /\ JobOK'
    BY <1>1, <1>2, <1>5, <2>1 DEF LogInv, WriterOK, JobOK, At, Writes
  <2>8. RestoreOK' /\ LoadOK'
    BY <1>1 DEF RestoreOK, LoadOK, At
  <2> QED
    BY <2>2, <2>3, <2>4, <2>5, <2>6, <2>7, <2>8 DEF LogInv
<1>6. CASE job.log # <<>>
  <2>1. /\ live' = job.log /\ writer' = job.log /\ exposed' = (exposed /\ writer # <<>>)
        /\ durable' = durable \union TurnsOf(job.log)
        /\ staged = <<>> /\ Newest' = Newest /\ Newest = job.log
    BY <1>1, <1>2, <1>6 DEF WriteReturns, LogInv, PhaseOK, Newest
  <2>2. /\ OfPrefix(job.log, memory) /\ Begun(callOf, segments, job.log)
        /\ TurnsOf(job.log) \subseteq TurnsOf(memory)
        /\ \A s \in DOMAIN segments : TurnsOf(segments[s]) \subseteq Covered(memory)
        /\ durable \subseteq Covered(job.log)
        /\ ~exposed \/ writer = <<>> => Exact(segments, job.log)
    BY <1>1, <1>6, JobLog, JobEnds
  <2>3. LogTypes'
    BY <1>1, <1>2, <1>3, <1>4, <2>1, NoLog DEF LogInv, LogTypes
  <2>4. PhaseOK'
    BY <1>1, <1>2, <1>3, <2>1 DEF PhaseOK, At, Writes
  <2>5. NewestOK'
    BY <1>1, <1>2, <1>3, <1>6, <2>1 DEF NewestOK, At
  <2>6. DurableOK'
    BY <1>1, <1>2, <2>1, <2>2 DEF LogInv, DurableOK, At, Writes, Covered
  <2>7. DiskOK'
    BY <1>1, <1>2, <1>6, <2>1 DEF DiskOK, At
  <2>8. WriterOK' /\ JobOK'
    BY <1>1, <1>2, <1>6, <2>1, <2>2 DEF WriterOK, JobOK, At, Covered
  <2>9. RestoreOK' /\ LoadOK'
    BY <1>1 DEF RestoreOK, LoadOK, At
  <2> QED
    BY <2>3, <2>4, <2>5, <2>6, <2>7, <2>8, <2>9 DEF LogInv
<1> QED
  BY <1>5, <1>6

\* A file operation that ends leaves the files between two generations of the history.
LEMMA OpAppliedKeeps ==
  ASSUME LogInv, OpApplied
  PROVE  LogInv'
<1> DEFINE op == Head(job.ops)
<1>1. /\ job \in [for : Phases, log : Seq(Int), ops : Seq(FileOps), over : BOOLEAN]
      /\ InOps /\ job.ops # <<>> /\ job.ops \in Seq(FileOps) /\ Tail(job.ops) \in Seq(FileOps)
  BY RangeHeadTail DEF LogInv, LogTypes, OpApplied, InOps
<1>2. /\ job'.for = job.for /\ job'.log = job.log /\ job'.over = job.over /\ job'.ops = Tail(job.ops)
      /\ job' \in [for : Phases, log : Seq(Int), ops : Seq(FileOps), over : BOOLEAN]
  BY <1>1 DEF OpApplied
<1>3. /\ UNCHANGED <<callOf, memory, dirty, pending, staged, live, writer, backup, durable, exposed>>
      /\ segments' = Applied(segments, op)
  BY DEF OpApplied, reactorState, storeState
<1>4. job.for \notin {"idle", "metadata", "git", "failing"}
  BY <1>1 DEF LogInv, PhaseOK
<1>5. IsFiles(callOf, segments) /\ IsFiles(callOf, backup)
  BY DEF LogInv, LogTypes
<1> HIDE DEF op
<1>6. IsFiles(callOf, segments') => LogTypes'
  BY <1>2, <1>3 DEF LogInv, LogTypes
<1>7. PhaseOK'
  BY <1>1, <1>2, <1>3, <1>4 DEF LogInv, PhaseOK, At, Writes
<1>8. DurableOK'
  BY <1>2, <1>3 DEF LogInv, DurableOK, At
<1>9. CASE job.log # <<>>
  <2>1. /\ IsFiles(callOf, segments')
        /\ Planned(segments', writer, job.log, job'.ops, job.over, exposed)
        /\ Between(segments, segments', job.log)
        /\ writer # <<>> /\ ~job.over => Begun(callOf, segments', writer)
    BY <1>1, <1>2, <1>3, <1>9, OpOfJob DEF op
  <2>2. writer # <<>> => \A s \in DOMAIN segments' : TurnsOf(segments'[s]) \subseteq Covered(memory)
    BY <1>9, <2>1, TurnsBetween
  <2>3. job.log # writer
    BY <1>1, <1>9 DEF LogInv, JobOK, Planned
  <2>4. job.for \in Writes \union {"landing"}
    BY <1>9, JobLog
  <2>5. NewestOK'
    BY <1>2, <1>3, <1>4, <1>9 DEF LogInv, NewestOK, Newest, At
  <2>6. DiskOK'
    BY <1>2, <1>3, <1>4, <1>9, <2>4 DEF LogInv, DiskOK, Unwritten, At, Writes
  <2>7. WriterOK'
    <3> SUFFICES ASSUME writer # <<>>  PROVE WriterOK'
      BY <1>3 DEF WriterOK
    <3>1. /\ OfPrefix(writer, memory)
          /\ ~(At("landing") /\ job.over) => durable \subseteq Covered(writer)
          /\ job.over => At("landing")
      BY <1>9 DEF LogInv, WriterOK, JobOK
    <3> QED
      BY <1>2, <1>3, <1>9, <2>1, <2>2, <2>3, <3>1 DEF WriterOK, At
  <2>8. JobOK'
    BY <1>2, <1>3, <2>1 DEF LogInv, JobOK, At
  <2>9. RestoreOK' /\ LoadOK'
    BY <1>2, <2>4 DEF RestoreOK, LoadOK, At, Writes
  <2> QED
    BY <1>6, <1>7, <1>8, <2>1, <2>5, <2>6, <2>7, <2>8, <2>9 DEF LogInv
<1>10. CASE job.log = <<>> /\ At("restore")
  <2>1. Restoring(segments, backup, job.ops) /\ writer = <<>> /\ staged # <<>> /\ job.for = "restore"
    BY <1>10 DEF LogInv, RestoreOK, PhaseOK, At
  <2>2. IsFiles(callOf, segments') /\ Restoring(segments', backup, job'.ops)
    BY <1>1, <1>2, <1>3, <1>5, <2>1, RestoringApplied DEF op
  <2>3. NewestOK'
    BY <1>2, <1>3, <1>10, <2>1 DEF LogInv, NewestOK, Newest, At
  <2>4. DiskOK'
    BY <1>2, <1>3, <2>1 DEF LogInv, DiskOK, Unwritten, At, Writes
  <2>5. WriterOK' /\ JobOK' /\ RestoreOK' /\ LoadOK'
    BY <1>2, <1>3, <1>10, <2>1, <2>2 DEF WriterOK, JobOK, RestoreOK, LoadOK, At
  <2> QED
    BY <1>6, <1>7, <1>8, <2>2, <2>3, <2>4, <2>5 DEF LogInv
<1>11. CASE job.log = <<>> /\ At("load")
  <2>1. /\ writer = <<>> /\ staged = <<>> /\ pending = <<>> /\ job.for = "load"
    BY <1>11 DEF LogInv, PhaseOK, At
  <2>2. PICK k \in Nat : Loading(callOf, segments, job.ops, k) /\ durable \subseteq Covered(Concatenated(segments, k))
    BY <1>11 DEF LogInv, LoadOK
  <2>3. /\ IsFiles(callOf, segments') /\ Loading(callOf, segments', job'.ops, k)
        /\ durable \subseteq Covered(Concatenated(segments', k))
    BY <1>1, <1>2, <1>3, <1>5, <2>2, LoadingApplied DEF op
  <2>4. NewestOK'
    BY <1>2, <1>3, <1>11, <2>1 DEF LogInv, NewestOK, Newest, At
  <2>5. DiskOK'
    BY <1>2, <1>3, <2>1 DEF DiskOK, At, Writes
  <2>6. WriterOK' /\ JobOK' /\ RestoreOK'
    BY <1>2, <1>3, <1>11, <2>1 DEF WriterOK, JobOK, RestoreOK, At
  <2>7. LoadOK'
    BY <1>3, <2>3 DEF LoadOK
  <2> QED
    BY <1>6, <1>7, <1>8, <2>3, <2>4, <2>5, <2>6, <2>7 DEF LogInv
<1> QED
  BY <1>1, <1>9, <1>10, <1>11, OpsOf

\* A file operation that fails ends the commit, with or without a restore to come.
LEMMA OpFailsKeeps ==
  ASSUME LogInv, OpFails
  PROVE  LogInv'
<1> DEFINE op == Head(job.ops)
<1>1. /\ job \in [for : Phases, log : Seq(Int), ops : Seq(FileOps), over : BOOLEAN]
      /\ InOps /\ job.ops # <<>> /\ job.for \in {"checkpoint", "landing", "restore"}
  BY DEF LogInv, LogTypes, OpFails, InOps
<1>2. /\ UNCHANGED <<callOf, memory, dirty, staged, backup>> /\ pending' = <<>>
      /\ segments' \in CutShort(segments, op)
      /\ exposed' = (exposed \/ job.for # "landing")
      /\ durable' = (IF job.over /\ job.for # "landing" THEN {} ELSE durable)
  BY DEF OpFails, DropsPending, At
<1>3. IsFiles(callOf, segments) /\ IsFiles(callOf, backup)
  BY DEF LogInv, LogTypes
<1> HIDE DEF op
<1>4. CASE job.for = "landing"
  <2>1. /\ writer' = <<>> /\ live' = <<>> /\ job' = Job("failing", <<>>, <<>>, TRUE)
        /\ job'.for = "failing" /\ job'.log = <<>> /\ job'.ops = <<>> /\ job'.over = TRUE
        /\ exposed' = exposed /\ durable' = durable
    BY <1>2, <1>4 DEF OpFails, ForgetsWriter, At, Job, LogInv, LogTypes
  <2>2. job.log = staged /\ staged # <<>> /\ Newest' = Newest /\ Newest # <<>>
    BY <1>2, <1>4, <2>1 DEF LogInv, PhaseOK, At, Newest
  <2>3. IsFiles(callOf, segments')
    BY <1>1, <1>2, <2>2, OpOfJob DEF op
  <2>4. LogTypes'
    <3>1. job' \in [for : Phases, log : Seq(Int), ops : Seq(FileOps), over : BOOLEAN]
      BY <2>1 DEF Job, Phases
    <3> QED
      BY <1>2, <2>1, <2>3, <3>1, NoLog DEF LogInv, LogTypes
  <2>5. PhaseOK'
    BY <1>2, <2>1, <2>2 DEF PhaseOK, At, Writes
  <2>6. NewestOK'
    BY <1>2, <2>1, <2>2 DEF LogInv, NewestOK, At
  <2>7. DurableOK'
    BY <1>2, <1>4, <2>1 DEF LogInv, DurableOK, At
  <2>8. DiskOK'
    BY <1>2, <1>4, <2>1 DEF LogInv, DiskOK, Unwritten, At, Writes
  <2>9. WriterOK' /\ JobOK' /\ RestoreOK' /\ LoadOK'
    BY <2>1 DEF WriterOK, JobOK, RestoreOK, LoadOK, At
  <2> QED
    BY <2>4, <2>5, <2>6, <2>7, <2>8, <2>9 DEF LogInv
<1>5. CASE job.for # "landing"
  <2>1. /\ writer' = writer /\ live' = live /\ job' = Idle
        /\ job'.for = "idle" /\ job'.log = <<>> /\ job'.ops = <<>> /\ job'.over = FALSE
        /\ exposed' = TRUE /\ durable' = (IF job.over THEN {} ELSE durable) /\ live = writer
    <3>1. writer' = writer /\ live' = live /\ job' = Idle
      BY <1>5 DEF OpFails, At
    <3>2. live = writer
      BY <1>1 DEF LogInv, PhaseOK, At
    <3>3. exposed' = TRUE
      <4>1. exposed' = (exposed \/ TRUE)
        BY <1>2, <1>5
      <4> QED
        BY <4>1
    <3>4. durable' = (IF job.over THEN {} ELSE durable)
      BY <1>2, <1>5
    <3> QED
      BY <3>1, <3>2, <3>3, <3>4 DEF Idle
  <2>2. IsFiles(callOf, segments') => LogTypes'
    <3>1. job' \in [for : Phases, log : Seq(Int), ops : Seq(FileOps), over : BOOLEAN]
      BY <2>1 DEF Idle, Phases
    <3> QED
      BY <1>2, <2>1, <3>1, NoLog DEF LogInv, LogTypes
  <2>3. PhaseOK'
    BY <1>2, <2>1 DEF PhaseOK, At, Writes
  <2>4. DurableOK'
    BY <1>1, <1>2, <2>1 DEF LogInv, DurableOK, At
  <2>5. JobOK' /\ RestoreOK' /\ LoadOK'
    BY <2>1 DEF JobOK, RestoreOK, LoadOK, At
  <2>6. CASE job.for = "checkpoint"
    <3>1. job.log # <<>> /\ staged = <<>> /\ dirty
      BY <1>1, <2>6 DEF LogInv, PhaseOK, Writes
    <3>2. /\ IsFiles(callOf, segments') /\ Between(segments, segments', job.log)
          /\ writer # <<>> /\ ~job.over => Begun(callOf, segments', writer)
      BY <1>1, <1>2, <3>1, OpOfJob DEF op
    <3>3. writer # <<>> => \A s \in DOMAIN segments' : TurnsOf(segments'[s]) \subseteq Covered(memory)
      BY <3>1, <3>2, TurnsBetween
    <3>4. NewestOK'
      BY <1>2, <2>1, <3>1 DEF NewestOK, At
    <3>5. DiskOK'
      <4>1. writer = <<>> => durable' = {}
        BY <2>1, <3>1 DEF LogInv, JobOK
      <4> QED
        BY <2>1, <4>1 DEF DiskOK, Unwritten, At
    <3>6. WriterOK'
      <4> SUFFICES ASSUME writer # <<>>  PROVE WriterOK'
        BY <2>1 DEF WriterOK
      <4>1. OfPrefix(writer, memory) /\ durable \subseteq Covered(writer) /\ ~job.over
        BY <1>5, <3>1 DEF LogInv, WriterOK, JobOK, At
      <4> QED
        BY <1>2, <2>1, <3>2, <3>3, <4>1 DEF WriterOK
    <3> QED
      BY <2>2, <2>3, <2>4, <2>5, <3>2, <3>4, <3>5, <3>6 DEF LogInv
  <2>7. CASE job.for = "restore"
    <3>1. /\ writer = <<>> /\ staged # <<>> /\ job.log = <<>> /\ job.over /\ durable' = {}
          /\ Restoring(segments, backup, job.ops)
      BY <2>1, <2>7 DEF LogInv, PhaseOK, RestoreOK, At
    <3>2. IsFiles(callOf, segments')
      BY <1>1, <1>2, <1>3, <3>1, RestoringApplied DEF op
    <3>3. NewestOK'
      BY <1>2, <2>1, <3>1 DEF LogInv, NewestOK, Newest, At
    <3>4. DiskOK'
      BY <2>1, <3>1 DEF DiskOK, Unwritten, At
    <3>5. WriterOK'
      BY <2>1, <3>1 DEF WriterOK
    <3> QED
      BY <2>2, <2>3, <2>4, <2>5, <3>2, <3>3, <3>4, <3>5 DEF LogInv
  <2> QED
    BY <1>1, <1>5, <2>6, <2>7
<1> QED
  BY <1>4, <1>5

\* A new reactor and store start from whatever files the old ones left.
LEMMA RestartsKeeps ==
  ASSUME LogInv, Restarts
  PROVE  LogInv'
<1> DEFINE k == KeptOf(callOf, segments')
           ops == IF k = Contiguous(segments') THEN <<>> ELSE Unlinks(k + 1, Highest(segments'))
<1>1. /\ UNCHANGED callOf /\ exposed' = FALSE /\ backup' = <<>> /\ memory' = <<>> /\ dirty' = FALSE
      /\ pending' = <<>> /\ staged' = <<>> /\ live' = <<>> /\ writer' = <<>>
      /\ segments' \in {segments} \union (IF InOps THEN CutShort(segments, Head(job.ops)) ELSE {})
      /\ durable' = (IF job.over /\ (InOps \/ At("failing")) THEN {} ELSE durable)
      /\ ~At("load")
  BY DEF Restarts
<1>2. KeptSegments(segments') = k
  BY LoadIs
<1>3. job' = Job("load", <<>>, ops, FALSE)
  BY <1>2 DEF Restarts
<1>4. job'.for = "load" /\ job'.log = <<>> /\ job'.ops = ops /\ job'.over = FALSE
  BY <1>3 DEF Job
<1>5. /\ IsFiles(callOf, segments')
      /\ \/ job.over /\ (InOps \/ At("failing"))
         \/ durable \subseteq Covered(LoadedOf(callOf, segments'))
  BY <1>1, CrashLoads
<1>6. Loading(callOf, segments', ops, k)
  BY <1>5, LoadingBegins
<1>7. k \in Nat /\ ops \in Seq(FileOps) /\ LoadedOf(callOf, segments') = Concatenated(segments', k)
  BY <1>6 DEF Loading, LoadedOf
<1> HIDE DEF k, ops
<1>8. LogTypes'
  <2>1. job' \in [for : Phases, log : Seq(Int), ops : Seq(FileOps), over : BOOLEAN]
    BY <1>3, <1>7 DEF Job, Phases
  <2>2. IsFiles(callOf', backup')
    <3>1. DOMAIN backup' = {}
      BY <1>1
    <3> QED
      BY <3>1, NoFiles
  <2> QED
    BY <1>1, <1>4, <1>5, <2>1, <2>2, NoLog DEF LogInv, LogTypes
<1>9. PhaseOK' /\ NewestOK'
  BY <1>1, <1>4 DEF PhaseOK, NewestOK, Newest, At, Writes
<1>10. DurableOK' /\ DiskOK' /\ WriterOK' /\ JobOK' /\ RestoreOK'
  BY <1>1, <1>4 DEF DurableOK, DiskOK, WriterOK, JobOK, RestoreOK, At, Writes
<1>11. LoadOK'
  <2>1. durable' \subseteq Covered(Concatenated(segments', k))
    BY <1>1, <1>5, <1>7
  <2> QED
    BY <1>1, <1>4, <1>6, <1>7, <2>1 DEF LoadOK
<1> QED
  BY <1>8, <1>9, <1>10, <1>11 DEF LogInv

\* What a write of a log starts with, when no other operation is under way.
LEMMA PlanOfLog ==
  ASSUME LogInv, job.log = <<>>, job.for \in {"idle", "metadata"}, NEW log \in Seq(Int), log # <<>>
  PROVE  /\ Planned(segments, writer, log, Plan(log), WritesOver(log), exposed)
         /\ WritesOver(log) \in BOOLEAN
         /\ ~WritesOver(log) => IF writer = <<>> THEN durable = {} ELSE IsPrefix(writer, log)
         /\ writer # <<>> /\ IsPrefix(writer, log) => ~WritesOver(log)
         /\ WritesOver(log) => log # writer
<1>1. /\ CallsOK(callOf) /\ IsFiles(callOf, segments) /\ IsLog(callOf, writer) /\ writer \in Seq(Int)
  BY LogIsSeq DEF LogInv, LogTypes
<1>2. writer # <<>> => Begun(callOf, segments, writer) /\ (~exposed => Exact(segments, writer))
  BY DEF LogInv, WriterOK, At
<1>3. writer # <<>> /\ ~exposed => DOMAIN segments = 1 .. Chunks(writer)
  BY <1>2 DEF Exact
<1>4. writer # <<>> => DOMAIN segments # {}
  BY <1>1, <1>2, BegunLoads
<1>5. DOMAIN segments = {} => durable = {}
  <2> SUFFICES ASSUME DOMAIN segments = {}  PROVE durable = {}
    OBVIOUS
  <2>1. durable \subseteq Covered(LoadedOf(callOf, segments))
    BY QuietLoads DEF Unwritten
  <2> QED
    BY <2>1, NoFiles, NoLog
<1>6. Planned(segments, writer, log, Plan(log), WritesOver(log), exposed)
  BY <1>1, <1>2, <1>3, PlanFacts
<1> QED
  BY <1>1, <1>4, <1>5, <1>6, WritesOverFacts

\* A staged rewrite is planned against a snapshot of the files.
LEMMA RewriteLandsKeeps ==
  ASSUME LogInv, RewriteLands
  PROVE  LogInv'
<1>1. /\ job.for = "metadata" /\ job.ops = <<>> /\ job.log = <<>>
      /\ live = writer /\ staged \in Seq(Int)
  BY LogIsSeq DEF LogInv, LogTypes, RewriteLands, PhaseOK, At
<1>2. UNCHANGED <<callOf, memory, dirty, pending, staged, live, writer, segments, durable, exposed>>
  BY DEF RewriteLands, reactorState, storeState
<1>3. Unwritten(segments)
  BY <1>1, QuietLoads
<1>4. CASE staged = <<>>
  <2>1. /\ job' = Job("git", <<>>, <<>>, FALSE) /\ backup' = backup
        /\ job'.for = "git" /\ job'.log = <<>> /\ job'.ops = <<>> /\ job'.over = FALSE
    BY <1>4 DEF RewriteLands, Job
  <2>2. LogTypes'
    <3>1. job' \in [for : Phases, log : Seq(Int), ops : Seq(FileOps), over : BOOLEAN]
      BY <2>1 DEF Job, Phases
    <3> QED
      BY <1>2, <2>1, <3>1, NoLog DEF LogInv, LogTypes
  <2>3. PhaseOK'
    BY <1>1, <1>2, <1>4, <2>1 DEF LogInv, PhaseOK, At, Writes
  <2>4. NewestOK'
    BY <1>1, <1>2, <2>1 DEF LogInv, NewestOK, Newest, At
  <2>5. DurableOK' /\ DiskOK'
    BY <1>1, <1>2, <1>3, <1>4, <2>1 DEF LogInv, DurableOK, DiskOK, Unwritten, At
  <2>6. WriterOK' /\ JobOK'
    BY <1>1, <1>2, <2>1 DEF LogInv, WriterOK, JobOK, At
  <2>7. RestoreOK' /\ LoadOK'
    BY <2>1 DEF RestoreOK, LoadOK, At
  <2> QED
    BY <2>2, <2>3, <2>4, <2>5, <2>6, <2>7 DEF LogInv
<1>5. CASE staged # <<>>
  <2> DEFINE ops == Plan(staged)
             over == WritesOver(staged)
  <2>1. /\ job' = Job("landing", staged, ops, over) /\ backup' = segments
    BY <1>5 DEF RewriteLands
  <2>2. /\ Planned(segments, writer, staged, ops, over, exposed) /\ over \in BOOLEAN
        /\ ~over => IF writer = <<>> THEN durable = {} ELSE IsPrefix(writer, staged)
        /\ over => staged # writer
    BY <1>1, <1>5, PlanOfLog
  <2> HIDE DEF ops, over
  <2>3. job'.for = "landing" /\ job'.log = staged /\ job'.ops = ops /\ job'.over = over
    BY <2>1 DEF Job
  <2>4. LogTypes'
    <3>1. job' \in [for : Phases, log : Seq(Int), ops : Seq(FileOps), over : BOOLEAN]
      BY <1>1, <2>1, <2>2 DEF Job, Phases, Planned
    <3> QED
      BY <1>2, <2>1, <2>3, <3>1, NoLog DEF LogInv, LogTypes
  <2>5. PhaseOK'
    BY <1>1, <1>2, <1>5, <2>3 DEF LogInv, PhaseOK, At, Writes
  <2>6. NewestOK'
    BY <1>1, <1>2, <1>5, <2>3 DEF LogInv, NewestOK, Newest, At
  <2>7. DurableOK' /\ DiskOK'
    BY <1>1, <1>2, <1>3, <1>5, <2>1, <2>3 DEF LogInv, DurableOK, DiskOK, Unwritten, At, Writes
  <2>8. WriterOK'
    <3>1. writer # <<>> =>
            /\ OfPrefix(writer, memory) /\ Begun(callOf, segments, writer) /\ durable \subseteq Covered(writer)
            /\ \A s \in DOMAIN segments : TurnsOf(segments[s]) \subseteq Covered(memory)
            /\ ~exposed => Exact(segments, writer)
      BY <1>1 DEF LogInv, WriterOK, At
    <3> QED
      BY <1>2, <3>1 DEF WriterOK
  <2>9. JobOK'
    BY <1>2, <2>2, <2>3 DEF JobOK, At
  <2>10. RestoreOK' /\ LoadOK'
    BY <2>3 DEF RestoreOK, LoadOK, At
  <2> QED
    BY <2>4, <2>5, <2>6, <2>7, <2>8, <2>9, <2>10 DEF LogInv
<1> QED
  BY <1>4, <1>5

\* Unlinking what lies behind a gap keeps the log the files hold.
LEMMA BegunReconciled ==
  ASSUME NEW calls, NEW files, IsFiles(calls, files), NEW log \in Seq(Int), Begun(calls, files, log)
  PROVE  Begun(calls, FilesStaged(files), log) /\ (Exact(files, log) => Exact(FilesStaged(files), log))
<1> DEFINE n == Chunks(log)
           c == Contiguous(files)
           g == FilesStaged(files)
<1>1. n \in Nat \ {0} /\ c \in Nat
  BY ChunksFacts, ContiguousFacts DEF IsFiles
<1>2. /\ DOMAIN g = 1 .. c /\ 1 .. c \subseteq DOMAIN files /\ \A s \in 1 .. c : g[s] = files[s]
  BY ReconciledFacts
<1> HIDE DEF g
<1>3. \A s \in 1 .. n : s \in DOMAIN files
  <2>1. \A s \in 1 .. n - 1 : s \in DOMAIN files
    BY DEF Begun, Whole
  <2>2. n \in DOMAIN files
    BY DEF Begun
  <2> HIDE DEF n
  <2> QED
    BY <1>1, <2>1, <2>2
<1>4. n <= c
  BY <1>1, <1>3, ContiguousFacts DEF IsFiles
<1>5. \A s \in 1 .. n : s \in DOMAIN g /\ g[s] = files[s]
  <2> SUFFICES ASSUME NEW s \in 1 .. n  PROVE s \in DOMAIN g /\ g[s] = files[s]
    OBVIOUS
  <2> HIDE DEF n, c
  <2>1. s \in 1 .. c
    BY <1>1, <1>4
  <2> QED
    BY <1>2, <2>1
<1>6. Concatenated(g, n) = Concatenated(files, n)
  BY <1>1, <1>5, ConcatenatedSame
<1>7. Begun(calls, g, log)
  <2>1. /\ \A s \in 1 .. n - 1 : Whole(files, log, s)
        /\ IsPrefix(Chunk(log, n), files[n]) /\ Formed(calls, Concatenated(files, n))
    BY DEF Begun
  <2>2. n \in 1 .. n /\ \A s \in 1 .. n - 1 : s \in 1 .. n
    <3> HIDE DEF n
    <3> QED
      BY <1>1
  <2>3. \A s \in 1 .. n - 1 : Whole(g, log, s)
    BY <1>5, <2>1, <2>2 DEF Whole
  <2> QED
    BY <1>5, <1>6, <2>1, <2>2, <2>3 DEF Begun
<1>8. ASSUME Exact(files, log)  PROVE Exact(g, log)
  <2>1. \A s \in DOMAIN g : s \in 1 .. n
    BY <1>2, <1>8 DEF Exact
  <2>2. DOMAIN g = 1 .. n
    BY <1>5, <2>1
  <2> QED
    BY <1>5, <1>8, <2>2 DEF Exact
<1> QED
  BY <1>7, <1>8 DEF g

\* A commit publishes the reactor's history or the compact that is to replace it.
LEMMA AtGit ==
  ASSUME LogInv, At("git")
  PROVE  /\ job.ops = <<>> /\ job.log = <<>> /\ Newest = writer
         /\ writer = IF staged # <<>> THEN staged ELSE live
         /\ pending = <<>> => ~dirty
         /\ pending # <<>> => pending = writer /\ CompactionOf(pending, memory)
         /\ writer # <<>> => CompactionOf(writer, IF pending # <<>> THEN pending ELSE memory)
         /\ writer # <<>> /\ pending = <<>> => CompactionOf(writer, memory)
         /\ writer = <<>> =>
              /\ pending = <<>> /\ ~exposed /\ memory = LoadedOf(callOf, segments)
              /\ KeptOf(callOf, segments) = Contiguous(segments)
         /\ writer # <<>> =>
              /\ Begun(callOf, segments, writer) /\ durable \subseteq Covered(writer)
              /\ OfPrefix(writer, memory)
              /\ \A s \in DOMAIN segments : TurnsOf(segments[s]) \subseteq Covered(memory)
              /\ ~exposed => Exact(segments, writer)
<1>1. /\ job.for = "git" /\ job.ops = <<>> /\ job.log = <<>>
      /\ IF staged # <<>> THEN writer = staged ELSE live = writer
  BY DEF LogInv, PhaseOK, At
<1>2. Newest = writer
  BY <1>1 DEF Newest
<1>3. /\ pending = <<>> => ~dirty
      /\ pending # <<>> => pending = writer /\ CompactionOf(pending, memory)
      /\ ~dirty /\ writer # <<>> => CompactionOf(writer, memory)
      /\ ~dirty /\ writer = <<>> =>
              /\ ~exposed /\ memory = LoadedOf(callOf, segments)
              /\ KeptOf(callOf, segments) = Contiguous(segments)
  BY <1>1, <1>2 DEF LogInv, NewestOK, At
<1>4. writer # <<>> =>
        /\ Begun(callOf, segments, writer) /\ durable \subseteq Covered(writer)
        /\ OfPrefix(writer, memory)
        /\ \A s \in DOMAIN segments : TurnsOf(segments[s]) \subseteq Covered(memory)
        /\ ~exposed => Exact(segments, writer)
  BY <1>1 DEF LogInv, WriterOK, At
<1>5. CompactionOf(writer, writer)
  BY SelfCompaction
<1> QED
  BY <1>1, <1>2, <1>3, <1>4, <1>5

\* The turns it publishes are in the history.
LEMMA PublishedTurns ==
  ASSUME LogInv, At("git")
  PROVE  TurnsOf(Concatenated(segments, Contiguous(segments))) \subseteq Covered(memory)
<1> DEFINE c == Contiguous(segments)
<1>1. CallsOK(callOf) /\ IsFiles(callOf, segments) /\ Bounded(segments)
  BY DEF LogInv, LogTypes, IsFiles
<1>2. CASE writer = <<>>
  <2>1. memory = Concatenated(segments, c)
    BY <1>2, AtGit DEF LoadedOf
  <2> QED
    BY <2>1 DEF Covered
<1>3. CASE writer # <<>>
  <2>1. \A s \in DOMAIN segments : TurnsOf(segments[s]) \subseteq Covered(memory)
    BY <1>3, AtGit
  <2>2. c \in Nat /\ 1 .. c \subseteq DOMAIN segments
    BY <1>1, ContiguousFacts
  <2>3. \A s \in 1 .. c : segments[s] \in Seq(Int)
    BY <1>1, <2>2, EntriesConcatenated
  <2> HIDE DEF c
  <2>4. \A s \in 1 .. c : segments[s] \in Seq(Int) /\ TurnsOf(segments[s]) \subseteq Covered(memory)
    BY <2>1, <2>2, <2>3
  <2>5. TurnsOf(Concatenated(segments, c)) \subseteq Covered(memory)
    BY <2>2, <2>4, TurnsConcatenated
  <2> QED
    BY <2>5 DEF c
<1> QED
  BY <1>2, <1>3

\* A commit that succeeds adopts the staged log and the compacted history together.
LEMMA GitCommitsKeeps ==
  ASSUME LogInv, GitCommits
  PROVE  LogInv'
<1> DEFINE c == Contiguous(segments)
<1>1. /\ UNCHANGED <<callOf, writer, exposed>> /\ At("git") /\ job' = Idle
      /\ job'.for = "idle" /\ job'.log = <<>> /\ job'.ops = <<>> /\ job'.over = FALSE
      /\ segments' = FilesStaged(segments) /\ published' = Concatenated(segments, c)
      /\ staged' = <<>> /\ pending' = <<>> /\ backup' = <<>> /\ DOMAIN backup' = {}
      /\ memory' = (IF pending # <<>> THEN pending ELSE memory)
      /\ dirty' = (dirty /\ pending = <<>>)
      /\ live' = (IF staged # <<>> THEN staged ELSE live)
      /\ durable' = durable \union TurnsOf(published')
  BY DEF GitCommits, Idle, Reconciled, Publishes, FilesStaged
<1>2. /\ CallsOK(callOf) /\ IsFiles(callOf, segments) /\ IsLog(callOf, memory) /\ IsLog(callOf, pending)
      /\ IsLog(callOf, writer) /\ dirty \in BOOLEAN /\ durable \subseteq Covered(memory)
  BY <1>1 DEF LogInv, LogTypes, DurableOK, At
<1>3. /\ IsFiles(callOf, segments') /\ DOMAIN segments' = 1 .. c
      /\ 1 .. c \subseteq DOMAIN segments /\ \A s \in 1 .. c : segments'[s] = segments[s]
      /\ Contiguous(segments') = c
      /\ KeptOf(callOf, segments') = KeptOf(callOf, segments)
      /\ LoadedOf(callOf, segments') = LoadedOf(callOf, segments)
  BY <1>1, <1>2, ReconciledFacts
<1>4. IsLog(callOf, memory') /\ memory' \in Seq(Int) /\ Entries(memory', Len(callOf)) /\ Len(callOf) \in Nat
  BY <1>1, <1>2, LogIsSeq DEF CallsOK
<1>5. live' = writer /\ dirty' = FALSE
  <2>1. writer = (IF staged # <<>> THEN staged ELSE live) /\ (pending = <<>> => ~dirty)
    BY <1>1, AtGit
  <2> QED
    BY <1>1, <2>1
<1>6. Covered(memory) \subseteq Covered(memory') /\ durable' \subseteq Covered(memory')
  <2>1. TurnsOf(published') \subseteq Covered(memory)
    BY <1>1, PublishedTurns
  <2>2. Covered(memory) \subseteq Covered(memory')
    <3>1. CASE pending = <<>>
      BY <1>1, <3>1
    <3>2. CASE pending # <<>>
      <4>1. CompactionOf(pending, memory) /\ Entries(memory, Len(callOf))
        BY <1>1, <1>2, <3>2, AtGit, LogIsSeq
      <4> QED
        BY <1>1, <1>4, <3>2, <4>1, CompactionFacts
    <3> QED
      BY <3>1, <3>2
  <2> QED
    BY <1>1, <1>2, <2>1, <2>2
<1>7. writer # <<>> =>
        /\ CompactionOf(writer, memory') /\ OfPrefix(writer, memory')
        /\ Covered(memory') \subseteq Covered(writer)
  <2> SUFFICES ASSUME writer # <<>>
               PROVE  /\ CompactionOf(writer, memory') /\ OfPrefix(writer, memory')
                      /\ Covered(memory') \subseteq Covered(writer)
    OBVIOUS
  <2>1. CompactionOf(writer, memory')
    BY <1>1, AtGit
  <2> QED
    BY <1>4, <2>1, OfWhole, CompactionFacts
<1>8. writer = <<>> =>
        /\ ~exposed /\ memory' = LoadedOf(callOf, segments') /\ KeptOf(callOf, segments') = Contiguous(segments')
  BY <1>1, <1>3, AtGit
<1>9. LogTypes'
  <2>1. job' \in [for : Phases, log : Seq(Int), ops : Seq(FileOps), over : BOOLEAN]
    BY <1>1 DEF Idle, Phases
  <2>2. IsFiles(callOf', backup')
    BY <1>1, NoFiles
  <2> QED
    BY <1>1, <1>2, <1>3, <1>4, <1>5, <2>1, <2>2, NoLog DEF LogInv, LogTypes
<1>10. PhaseOK'
  BY <1>1, <1>5 DEF PhaseOK, At, Writes
<1>11. NewestOK'
  BY <1>1, <1>7, <1>8 DEF NewestOK, Newest, At
<1>12. DurableOK'
  BY <1>6 DEF DurableOK
<1>13. DiskOK'
  <2> SUFFICES ASSUME writer = <<>>  PROVE Unwritten(segments)'
    BY <1>1 DEF DiskOK, At
  <2>1. OfPrefix(memory', memory')
    BY <1>4, SelfCompaction, OfWhole
  <2> QED
    BY <1>1, <1>6, <1>8, <2>1 DEF Unwritten
<1>14. WriterOK'
  <2> SUFFICES ASSUME writer # <<>>  PROVE WriterOK'
    BY <1>1 DEF WriterOK
  <2>1. /\ Begun(callOf, segments, writer) /\ writer \in Seq(Int)
        /\ \A s \in DOMAIN segments : TurnsOf(segments[s]) \subseteq Covered(memory)
        /\ ~exposed => Exact(segments, writer)
    BY <1>1, <1>2, AtGit, LogIsSeq
  <2>2. Begun(callOf, segments', writer) /\ (~exposed => Exact(segments', writer))
    BY <1>1, <1>2, <2>1, BegunReconciled
  <2>3. \A s \in DOMAIN segments' : TurnsOf(segments'[s]) \subseteq Covered(memory')
    BY <1>3, <1>6, <2>1
  <2>4. durable' \subseteq Covered(writer)
    BY <1>6, <1>7
  <2> QED
    BY <1>1, <1>7, <2>2, <2>3, <2>4 DEF WriterOK
<1>15. JobOK' /\ RestoreOK' /\ LoadOK'
  BY <1>1 DEF JobOK, RestoreOK, LoadOK, At
<1> QED
  BY <1>9, <1>10, <1>11, <1>12, <1>13, <1>14, <1>15 DEF LogInv

\* A commit that throws before or after HEAD has moved leaves a log the next one can land.
LEMMA GitFailsKeeps ==
  ASSUME LogInv, GitFails
  PROVE  LogInv'
<1> DEFINE c == Contiguous(segments)
<1>1. /\ UNCHANGED <<callOf, memory, dirty, staged, backup, durable, exposed>> /\ At("git")
      /\ segments' = FilesStaged(segments) /\ pending' = <<>>
      /\ job' = Idle \/ (job' = Job("failing", <<>>, <<>>, TRUE) /\ staged # <<>>)
      /\ staged = <<>> => writer' = writer /\ live' = live
      /\ staged # <<>> => writer' = <<>> /\ live' = <<>>
  BY DEF GitFails, Reconciled, FilesStaged, DropsPending, ForgetsWriter
<1>2. /\ CallsOK(callOf) /\ IsFiles(callOf, segments) /\ IsLog(callOf, writer)
      /\ durable \subseteq Covered(memory)
  BY <1>1 DEF LogInv, LogTypes, DurableOK, At
<1>3. /\ IsFiles(callOf, segments') /\ DOMAIN segments' = 1 .. c
      /\ 1 .. c \subseteq DOMAIN segments /\ \A s \in 1 .. c : segments'[s] = segments[s]
      /\ Contiguous(segments') = c
      /\ KeptOf(callOf, segments') = KeptOf(callOf, segments)
      /\ LoadedOf(callOf, segments') = LoadedOf(callOf, segments)
  BY <1>1, <1>2, ReconciledFacts
<1>4. /\ job'.log = <<>> /\ job'.ops = <<>>
      /\ \/ job'.for = "idle" /\ job'.over = FALSE
         \/ job'.for = "failing" /\ job'.over = TRUE /\ staged # <<>>
      /\ job' \in [for : Phases, log : Seq(Int), ops : Seq(FileOps), over : BOOLEAN]
  <2>1. CASE job' = Idle
    BY <2>1 DEF Idle, Phases
  <2>2. CASE job' = Job("failing", <<>>, <<>>, TRUE) /\ staged # <<>>
    BY <2>2 DEF Job, Phases
  <2> QED
    BY <1>1, <2>1, <2>2
<1>5. /\ Unwritten(segments)' /\ job.for = "git" /\ job.log = <<>> /\ Newest = writer
      /\ staged # <<>> => Unwritten(backup)
  <2>1. Unwritten(segments) /\ job.for = "git" /\ job.log = <<>> /\ Newest = writer
    BY <1>1, AtGit, QuietLoads DEF At
  <2> QED
    BY <1>1, <1>3, <2>1 DEF LogInv, Unwritten, DiskOK
<1>6. LogTypes'
  BY <1>1, <1>3, <1>4, NoLog DEF LogInv, LogTypes
<1>7. PhaseOK'
  <2>1. staged = <<>> => live = writer
    BY <1>5 DEF LogInv, PhaseOK
  <2> QED
    BY <1>1, <1>4, <2>1 DEF PhaseOK, At, Writes
<1>8. NewestOK'
  <2>1. Newest' = Newest
    BY <1>1, <1>4, <1>5 DEF LogInv, PhaseOK, Newest, At
  <2> QED
    BY <1>1, <1>3, <1>4, <1>5, <2>1 DEF LogInv, NewestOK, At
<1>9. DurableOK'
  BY <1>1, <1>2 DEF DurableOK
<1>10. DiskOK'
  BY <1>1, <1>4, <1>5 DEF DiskOK, Unwritten, At, Writes
<1>11. WriterOK'
  <2> SUFFICES ASSUME staged = <<>>, writer # <<>>  PROVE WriterOK'
    BY <1>1 DEF WriterOK
  <2>1. /\ Begun(callOf, segments, writer) /\ writer \in Seq(Int)
        /\ OfPrefix(writer, memory) /\ durable \subseteq Covered(writer)
        /\ \A s \in DOMAIN segments : TurnsOf(segments[s]) \subseteq Covered(memory)
        /\ ~exposed => Exact(segments, writer)
    BY <1>1, <1>2, AtGit, LogIsSeq
  <2>2. Begun(callOf, segments', writer) /\ (~exposed => Exact(segments', writer))
    BY <1>1, <1>2, <2>1, BegunReconciled
  <2>3. \A s \in DOMAIN segments' : TurnsOf(segments'[s]) \subseteq Covered(memory)
    BY <1>3, <2>1
  <2> QED
    BY <1>1, <2>1, <2>2, <2>3 DEF WriterOK
<1>12. JobOK' /\ RestoreOK' /\ LoadOK'
  BY <1>4 DEF JobOK, RestoreOK, LoadOK, At
<1> QED
  BY <1>6, <1>7, <1>8, <1>9, <1>10, <1>11, <1>12 DEF LogInv

\* What the invariant says of logs and files stays true of the history after a step.
HistoryCarried ==
  /\ CallsOK(callOf') /\ IsLog(callOf', memory')
  /\ \A log : IsLog(callOf, log) => IsLog(callOf', log)
  /\ \A files : IsFiles(callOf, files) =>
        IsFiles(callOf', files) /\ LoadedOf(callOf', files) = LoadedOf(callOf, files)
  /\ Covered(memory) \subseteq Covered(memory')
  /\ \A log : OfPrefix(log, memory) => OfPrefix(log, memory')
  /\ writer # <<>> /\ Begun(callOf, segments, writer) => Begun(callOf', segments, writer)

\* A step that leaves the history as it is leaves everything that was part of it part of it.
LEMMA HistoryStays ==
  ASSUME LogInv, UNCHANGED <<callOf, memory>>
  PROVE  HistoryCarried
<1>1. callOf' = callOf /\ memory' = memory /\ CallsOK(callOf) /\ IsLog(callOf, memory)
  BY DEF LogInv, LogTypes
<1> QED
  BY <1>1 DEF HistoryCarried

\* A turn appended to the history leaves everything that was part of it part of it.
LEMMA HistoryGrows ==
  ASSUME LogInv, NEW call, Adds(Len(callOf) + 1, call),
         call \in {0, Len(callOf) + 1} \/ (call \in DOMAIN callOf /\ Unanswered(call) /\ IsCall(call))
  PROVE  HistoryCarried /\ memory' # <<>>
<1> DEFINE turn == Len(callOf) + 1
<1>1. callOf' = Append(callOf, call) /\ memory' = Append(memory, turn)
  BY DEF Adds
<1>2. /\ CallsOK(callOf) /\ callOf \in Seq(Nat) /\ Len(callOf) \in Nat
      /\ IsLog(callOf, memory) /\ memory \in Seq(Int)
      /\ Entries(memory, Len(callOf)) /\ Formed(callOf, memory)
  BY LogIsSeq DEF LogInv, LogTypes, CallsOK
<1>3. call \in Nat /\ call <= turn
  BY <1>2
<1>4. \/ call = 0 \/ call = turn
      \/ /\ \E i \in 1 .. Len(memory) : memory[i] = call
         /\ \A i \in 1 .. Len(memory) : memory[i] > 0 /\ callOf[memory[i]] = call => memory[i] = call
         /\ call \in 1 .. Len(callOf) /\ callOf[call] = call
  <2>1. CASE call \in DOMAIN callOf /\ Unanswered(call) /\ IsCall(call)
    <3>1. Range(memory) = {memory[i] : i \in 1 .. Len(memory)}
      BY <1>2 DEF Range
    <3> QED
      BY <1>2, <2>1, <3>1 DEF Unanswered, IsCall
  <2> QED
    BY <2>1
<1>5. CallsOK(callOf') /\ IsLog(callOf', memory')
  <2>1. /\ CallsOK(Append(callOf, call))
        /\ Entries(Append(memory, Len(callOf) + 1), Len(callOf) + 1)
        /\ Formed(Append(callOf, call), Append(memory, Len(callOf) + 1))
    BY <1>2, <1>3, <1>4, FormedAppended
  <2>2. Len(callOf') = Len(callOf) + 1
    BY <1>1, <1>2, <1>3
  <2> QED
    BY <1>1, <2>1, <2>2 DEF IsLog
<1>6. ASSUME NEW log, IsLog(callOf, log)  PROVE IsLog(callOf', log)
  <2>1. Entries(log, Len(callOf)) /\ Formed(callOf, log)
    BY <1>6 DEF IsLog
  <2>2. Entries(log, Len(callOf) + 1) /\ Formed(Append(callOf, call), log)
    BY <1>2, <1>3, <2>1, FormedLater
  <2>3. Len(callOf') = Len(callOf) + 1
    BY <1>1, <1>2, <1>3
  <2> QED
    BY <1>1, <2>2, <2>3 DEF IsLog
<1>7. ASSUME NEW files, IsFiles(callOf, files)
      PROVE  IsFiles(callOf', files) /\ LoadedOf(callOf', files) = LoadedOf(callOf, files)
  BY <1>1, <1>2, <1>3, <1>7, FilesLater
<1>8. memory' \in Seq(Int) /\ IsPrefix(memory, memory') /\ memory' # <<>>
  <2>1. turn \in Int
    BY <1>2
  <2> HIDE DEF turn
  <2>2. /\ memory' \in Seq(Int) /\ Len(memory') = Len(memory) + 1
        /\ \A i \in 1 .. Len(memory) : memory'[i] = memory[i]
    BY <1>1, <1>2, <2>1, AppendProperties
  <2>3. Len(memory) \in Nat
    BY <1>2
  <2>4. IsPrefix(memory, memory')
    <3>1. Len(memory) <= Len(memory')
      BY <2>2, <2>3
    <3> QED
      BY <1>2, <2>2, <3>1, PrefixIs
  <2>5. memory' # <<>>
    BY <2>2, <2>3, EmptySeq
  <2> QED
    BY <2>2, <2>4, <2>5
<1>9. Covered(memory) \subseteq Covered(memory')
  BY <1>2, <1>8, CoveredPrefix
<1>10. ASSUME NEW log, OfPrefix(log, memory)  PROVE OfPrefix(log, memory')
  BY <1>2, <1>8, <1>10, OfPrefixFacts
<1>11. ASSUME writer # <<>>, Begun(callOf, segments, writer)  PROVE Begun(callOf', segments, writer)
  <2> DEFINE n == Chunks(writer)
  <2>1. n \in Nat \ {0} /\ IsFiles(callOf, segments)
    BY LogIsSeq, ChunksFacts DEF LogInv, LogTypes
  <2>2. /\ \A s \in 1 .. n - 1 : s \in DOMAIN segments
        /\ n \in DOMAIN segments
    BY <1>11 DEF Begun, Whole
  <2>3. /\ Formed(callOf, Concatenated(segments, n))
    BY <1>11 DEF Begun
  <2> HIDE DEF n
  <2>4. 1 .. n \subseteq DOMAIN segments
    <3>1. \A s \in 1 .. n : s \in 1 .. n - 1 \/ s = n
      BY <2>1
    <3> QED
      BY <2>2, <3>1
  <2>5. Entries(Concatenated(segments, n), Len(callOf))
    <3>1. n \in Nat
      BY <2>1
    <3> QED
      BY <1>2, <2>1, <2>4, <3>1, EntriesConcatenated
  <2>6. Formed(callOf', Concatenated(segments, n))
    BY <1>1, <1>2, <1>3, <2>3, <2>5, FormedSame
  <2> QED
    BY <1>11, <2>6 DEF Begun, n
<1> QED
  BY <1>5, <1>6, <1>7, <1>8, <1>9, <1>10, <1>11 DEF HistoryCarried

\* What the invariant says of the files holds of a history that carries on.
LEMMA CarriedFacts ==
  ASSUME LogInv, At("idle"), HistoryCarried,
         UNCHANGED <<segments, backup, writer, durable, exposed>>
  PROVE  /\ durable' \subseteq Covered(memory')
         /\ Unwritten(segments)'
         /\ writer # <<>> =>
              /\ OfPrefix(writer, memory') /\ Begun(callOf', segments, writer)
              /\ durable \subseteq Covered(writer) /\ (~exposed => Exact(segments, writer))
              /\ \A s \in DOMAIN segments : TurnsOf(segments[s]) \subseteq Covered(memory')
<1>1. job.for = "idle" /\ job.log = <<>>
  BY DEF LogInv, PhaseOK, At
<1>2. IsFiles(callOf, segments) /\ durable \subseteq Covered(memory)
  BY <1>1 DEF LogInv, LogTypes, DurableOK, At
<1>3. Unwritten(segments)
  BY <1>1, QuietLoads
<1>4. Unwritten(segments)'
  BY <1>2, <1>3 DEF Unwritten, HistoryCarried
<1>5. writer # <<>> =>
        /\ OfPrefix(writer, memory) /\ Begun(callOf, segments, writer)
        /\ durable \subseteq Covered(writer) /\ (~exposed => Exact(segments, writer))
        /\ \A s \in DOMAIN segments : TurnsOf(segments[s]) \subseteq Covered(memory)
  BY <1>1 DEF LogInv, WriterOK, At
<1>6. Covered(memory) \subseteq Covered(memory')
  BY DEF HistoryCarried
<1>7. writer # <<>> => OfPrefix(writer, memory') /\ Begun(callOf', segments, writer)
  BY <1>5 DEF HistoryCarried
<1> QED
  BY <1>2, <1>4, <1>5, <1>6, <1>7

\* A message or an inference's turn lengthens the history only.
LEMMA TurnAppendedKeeps ==
  ASSUME LogInv, TurnAppended
  PROVE  LogInv'
<1>1. /\ UNCHANGED <<pending, staged, live, writer, segments, job, backup, durable, exposed>>
      /\ At("idle") /\ dirty' = TRUE
      /\ job'.for = "idle" /\ job'.log = <<>> /\ job'.ops = <<>> /\ ~job'.over /\ pending = <<>> /\ live = writer
  BY DEF LogInv, PhaseOK, TurnAppended, storeState, At
<1>2. HistoryCarried
  <2>1. PICK calls \in BOOLEAN : Adds(Len(callOf) + 1, IF calls THEN Len(callOf) + 1 ELSE 0)
    BY DEF TurnAppended
  <2> DEFINE call == IF calls THEN Len(callOf) + 1 ELSE 0
  <2>2. call \in {0, Len(callOf) + 1} /\ Adds(Len(callOf) + 1, call)
    BY <2>1
  <2> HIDE DEF call
  <2> QED
    BY <2>2, HistoryGrows
<1>3. /\ durable' \subseteq Covered(memory') /\ Unwritten(segments)'
      /\ writer # <<>> =>
              /\ OfPrefix(writer, memory') /\ Begun(callOf', segments, writer)
              /\ durable \subseteq Covered(writer) /\ (~exposed => Exact(segments, writer))
              /\ \A s \in DOMAIN segments : TurnsOf(segments[s]) \subseteq Covered(memory')
  BY <1>1, <1>2, CarriedFacts
<1>4. LogTypes'
  BY <1>1, <1>2 DEF LogInv, LogTypes, HistoryCarried
<1>5. PhaseOK' /\ NewestOK'
  BY <1>1 DEF PhaseOK, NewestOK, At, Writes
<1>6. DurableOK' /\ DiskOK'
  BY <1>1, <1>3 DEF DurableOK, DiskOK, Unwritten, At
<1>7. WriterOK'
  BY <1>1, <1>3 DEF WriterOK
<1>8. JobOK' /\ RestoreOK' /\ LoadOK'
  BY <1>1 DEF JobOK, RestoreOK, LoadOK, At
<1> QED
  BY <1>4, <1>5, <1>6, <1>7, <1>8 DEF LogInv

\* writeTurns begins: it appends to the live log, or stages what is not an extension of it.
LEMMA WriteBegins ==
  ASSUME LogInv, At("idle"), HistoryCarried,
         NEW for \in Writes, NEW log, WritesTurns(log, for), IsLog(callOf', log), log # <<>>,
         UNCHANGED <<segments, backup, durable, exposed>>, dirty' \in BOOLEAN,
         IF for = "compact" THEN pending' = log /\ CompactionOf(log, memory')
         ELSE pending' = <<>> /\ log = memory' /\ dirty'
  PROVE  LogInv'
<1>1. job.for = "idle" /\ job.log = <<>> /\ live = writer /\ log \in Seq(Int)
  BY LogIsSeq DEF LogInv, PhaseOK, At
<1>2. UNCHANGED <<live, writer>>
  BY DEF WritesTurns, storeState
<1>3. /\ durable' \subseteq Covered(memory') /\ Unwritten(segments)'
      /\ writer # <<>> =>
              /\ OfPrefix(writer, memory') /\ Begun(callOf', segments, writer)
              /\ durable \subseteq Covered(writer) /\ (~exposed => Exact(segments, writer))
              /\ \A s \in DOMAIN segments : TurnsOf(segments[s]) \subseteq Covered(memory')
  BY <1>2, CarriedFacts
<1>4. for \in {"tools", "compact", "checkpoint"} /\ for \in Phases
  BY DEF Writes, Phases
<1>5. /\ staged \in Seq(Int)
      /\ \/ /\ job' = Job(for, log, Plan(log), WritesOver(log)) /\ staged' = staged /\ staged = <<>>
            /\ writer # <<>> => IsPrefix(writer, log)
         \/ job' = Job(for, <<>>, <<>>, FALSE) /\ staged' = log
  BY <1>1, LogIsSeq DEF WritesTurns, storeState, LogInv, LogTypes
<1>6. /\ Planned(segments, writer, log, Plan(log), WritesOver(log), exposed)
      /\ WritesOver(log) \in BOOLEAN
      /\ ~WritesOver(log) => IF writer = <<>> THEN durable = {} ELSE IsPrefix(writer, log)
      /\ writer # <<>> /\ IsPrefix(writer, log) => ~WritesOver(log)
      /\ WritesOver(log) => log # writer
  BY <1>1, PlanOfLog
<1> DEFINE ops == Plan(log)
           over == WritesOver(log)
<1>7. /\ job'.for = for /\ job' \in [for : Phases, log : Seq(Int), ops : Seq(FileOps), over : BOOLEAN]
      /\ \/ /\ job'.log = log /\ job'.ops = ops /\ job'.over = over /\ staged' = <<>>
            /\ writer # <<>> => ~over
         \/ job'.log = <<>> /\ job'.ops = <<>> /\ job'.over = FALSE /\ staged' = log
  <2> HIDE DEF ops, over
  <2>1. ops \in Seq(FileOps) /\ over \in BOOLEAN
    BY <1>6 DEF ops, over, Planned
  <2>2. CASE job' = Job(for, log, ops, over) /\ staged' = staged /\ staged = <<>>
             /\ (writer # <<>> => IsPrefix(writer, log))
    BY <1>1, <1>4, <1>6, <2>1, <2>2 DEF Job, over
  <2>3. CASE job' = Job(for, <<>>, <<>>, FALSE) /\ staged' = log
    BY <1>1, <1>4, <2>3 DEF Job
  <2> QED
    BY <1>5, <2>2, <2>3 DEF ops, over
<1>8. /\ Planned(segments, writer, log, ops, over, exposed) /\ over \in BOOLEAN
      /\ ~over => IF writer = <<>> THEN durable = {} ELSE IsPrefix(writer, log)
      /\ over => log # writer
  BY <1>6
<1> HIDE DEF ops, over
<1>9. Newest' = log
  BY <1>7 DEF Newest
<1>10. LogTypes'
  <2>1. IsLog(callOf', <<>>)
    BY NoLog
  <2>2. IsLog(callOf', job'.log) /\ IsLog(callOf', staged') /\ IsLog(callOf', pending')
    BY <1>7, <2>1
  <2> QED
    BY <1>2, <1>7, <2>2 DEF LogInv, LogTypes, HistoryCarried
<1>11. PhaseOK'
  BY <1>1, <1>2, <1>4, <1>7 DEF PhaseOK, At, Writes
<1>12. NewestOK'
  BY <1>4, <1>7, <1>9 DEF NewestOK, At
<1>13. DurableOK' /\ DiskOK'
  BY <1>3, <1>4, <1>7 DEF DurableOK, DiskOK, At
<1>14. WriterOK'
  BY <1>2, <1>3 DEF WriterOK
<1>15. JobOK'
  BY <1>2, <1>7, <1>8 DEF JobOK
<1>16. RestoreOK' /\ LoadOK'
  BY <1>4, <1>7 DEF RestoreOK, LoadOK, At
<1> QED
  BY <1>10, <1>11, <1>12, <1>13, <1>14, <1>15, <1>16 DEF LogInv

\* A call's result is appended to the history and written, or staged.
LEMMA ToolAnswersKeeps ==
  ASSUME LogInv, ToolAnswers
  PROVE  LogInv'
<1>1. /\ At("idle") /\ WritesTurns(memory', "tools") /\ dirty' = TRUE /\ pending' = <<>>
      /\ UNCHANGED <<segments, backup, durable, exposed>>
  BY DEF ToolAnswers, LogInv, PhaseOK, At
<1>2. HistoryCarried /\ memory' # <<>>
  BY HistoryGrows DEF ToolAnswers
<1>3. IsLog(callOf', memory') /\ "tools" \in Writes
  BY <1>2 DEF HistoryCarried, Writes
<1> QED
  BY <1>1, <1>2, <1>3, WriteBegins

\* The tail of a compaction splits no pair and ends with the newest turn.
LEMMA TailFacts ==
  ASSUME CallsOK(callOf), Entries(memory, Len(callOf)), NEW i \in DOMAIN memory, memory[i] > 0
  PROVE  LET T == TailFrom(memory, i)
         IN  T \subseteq TurnsOf(memory) /\ PairsClosed(callOf, memory, T) /\ Last(memory) \in T
<1> DEFINE T == TailFrom(memory, i)
           m == Len(memory)
           s == SubSeq(memory, i, m)
<1>1. /\ memory \in Seq(Int) /\ m \in Nat /\ i \in 1 .. m
      /\ callOf \in Seq(Nat) /\ Len(callOf) \in Nat
  BY DEF Entries, CallsOK
<1>2. T \subseteq TurnsOf(memory)
  BY DEF TailFrom
<1>3. s \in Seq(Int) /\ Len(s) = m - i + 1 /\ \A j \in 1 .. m - i + 1 : s[j] = memory[i + j - 1]
  <2>1. i \in Int /\ m \in Int /\ i <= m /\ \A j \in i .. m : memory[j] \in Int
    BY <1>1
  <2>2. /\ s \in Seq(Int) /\ Len(s) = IF i <= m THEN m - i + 1 ELSE 0
        /\ \A j \in 1 .. m - i + 1 : s[j] = memory[i + j - 1]
    BY <2>1, SubSeqProperties
  <2> QED
    BY <2>1, <2>2
<1>4. TurnsOf(s) \subseteq TurnsOf(memory)
  <2> HIDE DEF s
  <2>1. ASSUME NEW t \in TurnsOf(s)  PROVE t \in TurnsOf(memory)
    <3>1. PICK j \in 1 .. Len(s) : s[j] = t /\ t > 0
      BY <1>3, CoveredIs
    <3>2. i + j - 1 \in 1 .. m /\ memory[i + j - 1] = t
      BY <1>1, <1>3, <3>1, SMTT(60)
    <3> QED
      BY <1>1, <3>1, <3>2, CoveredIs
  <2> QED
    BY <2>1
<1>5. TurnsOf(s) \subseteq T
  BY <1>4 DEF TailFrom
<1>6. Last(memory) \in T
  <2>1. memory[m] > 0
    <3>1. CASE i = m
      BY <3>1
    <3>2. CASE i # m
      <4>1. m \in 1 .. m /\ m # 1 /\ memory[m] \in Int
        <5>1. i >= 1 /\ i <= m /\ i \in Int
          BY <1>1
        <5>2. m >= 2
          BY <1>1, <3>2, <5>1
        <5> QED
          BY <1>1, <5>2
      <4>2. memory[m] # 0 /\ ~(memory[m] < 0)
        BY <4>1 DEF Entries
      <4> QED
        BY <4>1, <4>2
    <3> QED
      BY <3>1, <3>2
  <2>2. m - i + 1 \in 1 .. Len(s) /\ i + (m - i + 1) - 1 = m /\ m - i + 1 \in 1 .. m - i + 1
    <3>1. i \in Int /\ 1 <= i /\ i <= m /\ m \in Int /\ Len(s) = m - i + 1
      BY <1>1, <1>3
    <3> HIDE DEF m, s
    <3> QED
      BY <3>1
  <2>3. s[m - i + 1] = memory[m]
    BY <1>3, <2>2
  <2> HIDE DEF s
  <2>4. memory[m] \in TurnsOf(s)
    BY <1>3, <2>1, <2>2, <2>3, CoveredIs
  <2> QED
    BY <1>5, <2>4 DEF Last
<1>7. PairsClosed(callOf, memory, T)
  <2> SUFFICES ASSUME NEW t \in T, callOf[t] \in TurnsOf(memory)  PROVE callOf[t] \in T
    BY DEF PairsClosed
  <2>1. PICK u \in TurnsOf(s) : t = u \/ (callOf[t] # 0 /\ callOf[t] = callOf[u])
    BY DEF TailFrom
  <2>2. callOf[t] = callOf[u] /\ callOf[t] # 0
    BY <2>1 DEF TurnsOf
  <2>3. t \in 1 .. Len(callOf)
    <3>1. PICK j \in 1 .. m : memory[j] = t /\ t > 0
      BY <1>1, <1>2, CoveredIs
    <3>2. memory[j] \in Int /\ memory[j] <= Len(callOf)
      BY <1>1 DEF Entries
    <3> QED
      BY <1>1, <3>1, <3>2
  <2>4. callOf[callOf[t]] = callOf[t]
    BY <2>2, <2>3 DEF CallsOK
  <2> QED
    BY <2>2, <2>4 DEF TailFrom
<1> QED
  BY <1>2, <1>6, <1>7

\* A compact is written, or staged, and the reactor keeps its history until the commit.
LEMMA CompactsKeeps ==
  ASSUME LogInv, Compacts
  PROVE  LogInv'
<1>1. PICK output \in Compactions : pending' = output /\ WritesTurns(output, "compact")
  BY DEF Compacts
<1>2. /\ At("idle") /\ UNCHANGED <<callOf, memory, dirty, segments, backup, durable, exposed>>
      /\ dirty \in BOOLEAN /\ memory # <<>>
  BY DEF Compacts, LogInv, LogTypes
<1>3. /\ IsLog(callOf, memory) /\ CallsOK(callOf) /\ Len(callOf) \in Nat
      /\ Entries(memory, Len(callOf)) /\ Formed(callOf, memory) /\ memory \in Seq(Int)
  BY LogIsSeq DEF LogInv, LogTypes, CallsOK
<1>4. IsLog(callOf, output) /\ output # <<>> /\ CompactionOf(output, memory)
  <2>1. CASE output = memory
    BY <1>2, <1>3, <2>1, SelfCompaction
  <2>2. CASE output # memory
    <3>1. PICK i \in DOMAIN memory :
            /\ memory[i] > 0 /\ ~(Range(memory) \subseteq TailFrom(memory, i))
            /\ output = SummaryFrom(memory, TailFrom(memory, i))
      BY <2>2 DEF Compactions
    <3> DEFINE T == TailFrom(memory, i)
    <3>2. T \subseteq TurnsOf(memory) /\ PairsClosed(callOf, memory, T) /\ Last(memory) \in T
      BY <1>3, <3>1, TailFacts
    <3> HIDE DEF T
    <3>3. /\ Entries(output, Len(callOf)) /\ output # <<>> /\ TurnsOf(output) = T
          /\ Latest(Range(memory) \ T) \in Nat
      BY <1>3, <3>1, <3>2, SummaryFacts DEF T
    <3>4. Formed(callOf, output)
      BY <1>3, <3>1, <3>2, <3>3, SummaryFormed DEF T
    <3>5. CompactionOf(output, memory)
      BY <3>1, <3>2, <3>3 DEF CompactionOf, T
    <3> QED
      BY <3>3, <3>4, <3>5 DEF IsLog
  <2> QED
    BY <2>1, <2>2
<1>5. HistoryCarried /\ "compact" \in Writes
  BY <1>2, HistoryStays DEF Writes
<1> QED
  BY <1>1, <1>2, <1>4, <1>5, WriteBegins

\* A commit writes the history unless a compact has been written.
LEMMA CommitBeginsKeeps ==
  ASSUME LogInv, CommitBegins
  PROVE  LogInv'
<1>1. /\ UNCHANGED <<callOf, memory, dirty, pending, segments, backup, durable, exposed>>
      /\ At("idle") /\ memory # <<>> /\ dirty \in BOOLEAN
      /\ pending = <<>> /\ job.for = "idle" /\ job.log = <<>> /\ job.ops = <<>> /\ IsLog(callOf, memory)
  BY DEF CommitBegins, reactorState, LogInv, LogTypes, PhaseOK, At
<1>2. CASE dirty
  <2>1. WritesTurns(memory, "checkpoint") /\ "checkpoint" \in Writes
    BY <1>2 DEF CommitBegins, Writes
  <2>2. HistoryCarried
    BY <1>1, HistoryStays
  <2> QED
    BY <1>1, <1>2, <2>1, <2>2, WriteBegins
<1>3. CASE ~dirty
  <2>1. /\ job' = Job("metadata", <<>>, <<>>, FALSE) /\ UNCHANGED <<staged, live, writer>>
        /\ job'.for = "metadata" /\ job'.log = <<>> /\ job'.ops = <<>> /\ job'.over = FALSE
    BY <1>3 DEF CommitBegins, storeState, Job
  <2>2. LogTypes'
    <3>1. job' \in [for : Phases, log : Seq(Int), ops : Seq(FileOps), over : BOOLEAN]
      BY <2>1 DEF Job, Phases
    <3> QED
      BY <1>1, <2>1, <3>1, NoLog DEF LogInv, LogTypes
  <2>3. PhaseOK'
    BY <1>1, <2>1 DEF LogInv, PhaseOK, At, Writes
  <2>4. NewestOK'
    BY <1>1, <1>3, <2>1 DEF LogInv, NewestOK, Newest, At
  <2>5. DurableOK' /\ DiskOK'
    BY <1>1, <2>1 DEF LogInv, DurableOK, DiskOK, Unwritten, At
  <2>6. WriterOK' /\ JobOK'
    BY <1>1, <2>1 DEF LogInv, WriterOK, JobOK, At
  <2>7. RestoreOK' /\ LoadOK'
    BY <2>1 DEF RestoreOK, LoadOK, At
  <2> QED
    BY <2>2, <2>3, <2>4, <2>5, <2>6, <2>7 DEF LogInv
<1> QED
  BY <1>1, <1>2, <1>3

\* The log, its files and what a crash or a failed commit leaves of them: in every state
\* each log is well formed, the operations that are left bring the files to the log they
\* are of, and what is in the files, in the snapshot or in the writer's memory has every
\* turn whose write or commit returned.
THEOREM LogInvariant == LogSpec => []LogInv
<1>1. LogInit => LogInv
  BY InvBegins
<1>2. LogInv /\ [LogNext]_logVars => LogInv'
  <2> SUFFICES ASSUME LogInv, [LogNext]_logVars  PROVE LogInv'
    OBVIOUS
  <2>1. CASE TurnAppended
    BY <2>1, TurnAppendedKeeps
  <2>2. CASE ToolAnswers
    BY <2>2, ToolAnswersKeeps
  <2>3. CASE Compacts
    BY <2>3, CompactsKeeps
  <2>4. CASE CommitBegins
    BY <2>4, CommitBeginsKeeps
  <2>5. CASE OpApplied
    BY <2>5, OpAppliedKeeps
  <2>6. CASE OpFails
    BY <2>6, OpFailsKeeps
  <2>7. CASE WriteReturns
    BY <2>7, WriteReturnsKeeps
  <2>8. CASE CommitRefused
    BY <2>8, CommitRefusedKeeps
  <2>9. CASE RewriteLands
    BY <2>9, RewriteLandsKeeps
  <2>10. CASE LandingEnds
    BY <2>10, LandingEndsKeeps
  <2>11. CASE GitCommits
    BY <2>11, GitCommitsKeeps
  <2>12. CASE GitFails
    BY <2>12, GitFailsKeeps
  <2>13. CASE RestoreBegins
    BY <2>13, RestoreBeginsKeeps
  <2>14. CASE RestoreEnds
    BY <2>14, RestoreEndsKeeps
  <2>15. CASE Restarts
    BY <2>15, RestartsKeeps
  <2>16. CASE LoadEnds
    BY <2>16, LoadEndsKeeps
  <2>17. CASE UNCHANGED logVars
    <3>1. UNCHANGED <<callOf, memory, dirty, pending, staged, live, writer, segments, job, backup,
                      durable, exposed>>
      BY <2>17 DEF logVars, reactorState, storeState
    <3>2. LogTypes' /\ PhaseOK' /\ NewestOK' /\ DurableOK'
      BY <3>1 DEF LogInv, LogTypes, PhaseOK, NewestOK, Newest, DurableOK, At
    <3>3. DiskOK' /\ WriterOK' /\ JobOK' /\ RestoreOK' /\ LoadOK'
      BY <3>1 DEF LogInv, DiskOK, Unwritten, WriterOK, JobOK, RestoreOK, LoadOK, At
    <3> QED
      BY <3>2, <3>3 DEF LogInv
  <2> QED
    BY <2>1, <2>2, <2>3, <2>4, <2>5, <2>6, <2>7, <2>8, <2>9, <2>10, <2>11, <2>12, <2>13, <2>14,
       <2>15, <2>16, <2>17 DEF LogNext
<1> QED
  BY <1>1, <1>2, PTL DEF LogSpec

\* What a load of the files finds, in every state: a well-formed history, and between two
\* operations the reactor's own, or the part of it that was written, with no turn missing
\* whose write or commit has returned.  Excepted are the files after a failed append or
\* restore (exposed) and what a cut rewrite was to replace (not in durable).
THEOREM RestartFinds == LogSpec => []RestartFindsTheTurns
<1>1. LogInv => RestartFindsTheTurns
  <2> SUFFICES ASSUME LogInv  PROVE RestartFindsTheTurns
    OBVIOUS
  <2> DEFINE log == LoadedOf(callOf, segments)
  <2>1. Loaded(segments) = log /\ (WellFormed(log) <=> Formed(callOf, log))
    BY LoadIs
  <2>2. Formed(callOf, log)
    BY LoadedFacts DEF LogInv, LogTypes, IsLog
  <2>3. ASSUME At("idle")
        PROVE  durable \subseteq Covered(log) /\ (exposed \/ OfPrefix(log, memory))
    <3>1. job.for = "idle" /\ job.log = <<>>
      BY <2>3 DEF LogInv, PhaseOK, At
    <3> QED
      BY <3>1, QuietLoads DEF Unwritten
  <2> HIDE DEF log
  <2> QED
    BY <2>1, <2>2, <2>3 DEF RestartFindsTheTurns, Covered, OfPrefix
<1> QED
  BY <1>1, LogInvariant, PTL

\* What a commit publishes is the reactor's history or a compaction of all of it: a compact
\* that a failed commit has staged reaches git only with the history it stands for.
THEOREM CommitPublishes == LogSpec => CommitPublishesMemory
<1>1. LogInv /\ [LogNext]_logVars => [published' # published /\ ~exposed => CompactionOf(published', memory')]_logVars
  <2> SUFFICES ASSUME LogInv, LogNext, published' # published, ~exposed
               PROVE  CompactionOf(published', memory')
    OBVIOUS
  <2>1. GitCommits \/ GitFails
    BY DEF LogNext, TurnAppended, ToolAnswers, Compacts, CommitBegins, OpApplied, OpFails, WriteReturns,
           CommitRefused, RewriteLands, LandingEnds, RestoreBegins, RestoreEnds, Restarts, LoadEnds
  <2>2. /\ At("git") /\ published' = Concatenated(segments, Contiguous(segments))
        /\ \/ memory' = (IF pending # <<>> THEN pending ELSE memory)
           \/ memory' = memory
    BY <2>1 DEF GitCommits, GitFails, Publishes
  <2>3. CallsOK(callOf) /\ IsFiles(callOf, segments) /\ IsLog(callOf, writer)
    BY DEF LogInv, LogTypes
  <2>4. CASE writer = <<>>
    <3>1. pending = <<>> /\ memory = published'
      BY <2>2, <2>4, AtGit DEF LoadedOf
    <3> QED
      BY <2>2, <3>1, SelfCompaction
  <2>5. CASE writer # <<>>
    <3>1. published' = writer
      <4>1. Exact(segments, writer)
        BY <2>2, <2>5, AtGit
      <4> QED
        BY <2>2, <2>3, <4>1, ExactLoads
    <3>2. /\ CompactionOf(writer, IF pending # <<>> THEN pending ELSE memory)
          /\ CompactionOf(writer, memory)
      BY <2>2, <2>5, AtGit
    <3> QED
      BY <2>2, <3>1, <3>2
  <2> QED
    BY <2>4, <2>5
<1> QED
  BY <1>1, LogInvariant, PTL DEF LogSpec, CommitPublishesMemory
=============================================================================
