--------------------------- MODULE DeliveryProofs ---------------------------
(***************************************************************************)
(* TLAPS proofs about OperatorDelivery, for any number of messages and of  *)
(* interrupts, reloads and rotations.                                      *)
(***************************************************************************)
EXTENDS OperatorDelivery, FiniteSetTheorems, TLAPS

-----------------------------------------------------------------------------
(* Sequences *)

\* A position's rank among those that are kept tells them apart and counts them.
LEMMA RanksFill ==
  ASSUME NEW n \in Nat, NEW at \in SUBSET (1 .. n)
  PROVE  /\ Cardinality(at) \in Nat
         /\ \A i \in at : Cardinality({j \in at : j <= i}) \in 1 .. Cardinality(at)
         /\ \A i, k \in at :
              Cardinality({j \in at : j <= i}) = Cardinality({j \in at : j <= k}) => i = k
         /\ \A r \in 1 .. Cardinality(at) : \E i \in at : Cardinality({j \in at : j <= i}) = r
<1> DEFINE Upto(i) == {j \in at : j <= i}
           rank == [i \in at |-> Cardinality(Upto(i))]
<1>1. IsFiniteSet(at) /\ Cardinality(at) \in Nat
  <2>1. IsFiniteSet(1 .. n)
    BY FS_Interval
  <2>2. IsFiniteSet(at)
    BY <2>1, FS_Subset
  <2>3. QED
    BY <2>2, FS_CardinalityType
<1>2. \A i \in at : /\ IsFiniteSet(Upto(i)) /\ Cardinality(Upto(i)) \in Nat
                    /\ Cardinality(Upto(i)) <= Cardinality(at) /\ i \in Upto(i)
  <2> SUFFICES ASSUME NEW i \in at
               PROVE  /\ IsFiniteSet(Upto(i)) /\ Cardinality(Upto(i)) \in Nat
                      /\ Cardinality(Upto(i)) <= Cardinality(at) /\ i \in Upto(i)
    OBVIOUS
  <2>1. Upto(i) \in SUBSET at /\ i \in Upto(i)
    OBVIOUS
  <2> HIDE DEF Upto
  <2>2. QED
    BY <1>1, <2>1, FS_Subset, FS_CardinalityType
<1>3. \A i \in at : Cardinality(Upto(i)) \in 1 .. Cardinality(at)
  <2> HIDE DEF Upto
  <2>1. \A i \in at : Cardinality(Upto(i)) # 0
    BY <1>2, FS_EmptySet
  <2>2. QED
    BY <1>1, <1>2, <2>1
<1>4. ASSUME NEW i \in at, NEW k \in at, i < k
      PROVE  Cardinality(Upto(i)) # Cardinality(Upto(k))
  <2>1. Upto(i) \in SUBSET Upto(k) /\ k \notin Upto(i)
    <3>1. i \in Nat /\ k \in Nat /\ \A j \in at : j \in Nat
      OBVIOUS
    <3>2. \A j \in at : j <= i => j <= k
      BY <1>4, <3>1
    <3>3. ~(k <= i)
      BY <1>4, <3>1
    <3>4. QED
      BY <3>2, <3>3
  <2> HIDE DEF Upto
  <2>2. QED
    BY <1>2, <2>1, FS_Subset
<1>5. \A i, k \in at : Cardinality(Upto(i)) = Cardinality(Upto(k)) => i = k
  <2> HIDE DEF Upto
  <2>1. \A i, k \in at : i < k \/ k < i \/ i = k
    OBVIOUS
  <2>2. QED
    BY <1>4, <2>1
<1>6. rank \in Injection(at, 1 .. Cardinality(at))
  <2> HIDE DEF Upto
  <2>1. QED
    BY <1>3, <1>5 DEF Injection, IsInjective
<1>7. rank \in Surjection(at, 1 .. Cardinality(at))
  <2> HIDE DEF rank
  <2>1. IsFiniteSet(1 .. Cardinality(at)) /\ Cardinality(1 .. Cardinality(at)) = Cardinality(at)
    BY <1>1, FS_Interval
  <2>2. QED
    BY <1>6, <2>1, FS_Injection
<1>8. \A r \in 1 .. Cardinality(at) : \E i \in at : Cardinality(Upto(i)) = r
  BY <1>7 DEF Surjection
<1>9. QED
  BY <1>1, <1>3, <1>5, <1>8

\* What filter() keeps, each once if it was there once.
LEMMA OnlyKeeps ==
  ASSUME NEW T, NEW s \in Seq(T), NEW S
  PROVE  /\ Only(s, S) \in Seq(T) /\ Range(Only(s, S)) = Range(s) \cap S
         /\ IsInjective(s) => IsInjective(Only(s, S))
<1> DEFINE at == {i \in DOMAIN s : s[i] \in S}
           Rank(i) == Cardinality({j \in at : j <= i})
           pick(n) == CHOOSE i \in at : Rank(i) = n
<1>1. Len(s) \in Nat /\ DOMAIN s = 1 .. Len(s) /\ at \in SUBSET (1 .. Len(s))
  OBVIOUS
<1>2. /\ Cardinality(at) \in Nat
      /\ \A i \in at : Rank(i) \in 1 .. Cardinality(at)
      /\ \A i, k \in at : Rank(i) = Rank(k) => i = k
      /\ \A r \in 1 .. Cardinality(at) : \E i \in at : Rank(i) = r
  <2> HIDE DEF at
  <2>1. QED
    BY <1>1, RanksFill
<1>3. Only(s, S) = [n \in 1 .. Cardinality(at) |-> s[pick(n)]]
  BY DEF Only
<1>4. \A i \in at : i \in DOMAIN s /\ s[i] \in T /\ s[i] \in S
  OBVIOUS
<1>5. \A i \in DOMAIN s : s[i] \in S => i \in at
  OBVIOUS
<1> HIDE DEF at, Rank
<1>6. \A n \in 1 .. Cardinality(at) : pick(n) \in at /\ Rank(pick(n)) = n
  BY <1>2
<1>7. \A i \in at : pick(Rank(i)) = i
  BY <1>2, <1>6
<1> HIDE DEF pick
<1>8. Only(s, S) \in [1 .. Cardinality(at) -> T]
  BY <1>3, <1>4, <1>6
<1>9. Only(s, S) \in Seq(T)
  BY <1>2, <1>8
<1>10. DOMAIN Only(s, S) = 1 .. Cardinality(at)
  BY <1>3
<1>11. Range(Only(s, S)) \subseteq Range(s) \cap S
  BY <1>3, <1>4, <1>6, <1>10 DEF Range
<1>12. Range(s) \cap S \subseteq Range(Only(s, S))
  <2> SUFFICES ASSUME NEW i \in DOMAIN s, s[i] \in S
               PROVE  s[i] \in Range(Only(s, S))
    BY DEF Range
  <2>1. i \in at /\ Rank(i) \in 1 .. Cardinality(at)
    BY <1>2, <1>5
  <2>2. Only(s, S)[Rank(i)] = s[i]
    BY <1>3, <1>7, <2>1
  <2>3. QED
    BY <1>10, <2>1, <2>2 DEF Range
<1>13. IsInjective(s) => IsInjective(Only(s, S))
  <2> SUFFICES ASSUME IsInjective(s), NEW m \in 1 .. Cardinality(at), NEW n \in 1 .. Cardinality(at),
                      Only(s, S)[m] = Only(s, S)[n]
               PROVE  m = n
    BY <1>10 DEF IsInjective
  <2>1. s[pick(m)] = s[pick(n)]
    BY <1>3
  <2>2. pick(m) = pick(n)
    BY <1>4, <1>6, <2>1 DEF IsInjective
  <2>3. QED
    BY <1>6, <2>2
<1>14. QED
  BY <1>9, <1>11, <1>12, <1>13

LEMMA QueueAppend ==
  ASSUME NEW T, NEW s \in Seq(T), IsInjective(s), NEW e \in T, e \notin Range(s)
  PROVE  /\ Append(s, e) \in Seq(T) /\ IsInjective(Append(s, e))
         /\ Range(Append(s, e)) = Range(s) \union {e}
<1>1. /\ Append(s, e) \in Seq(T) /\ Len(s) \in Nat /\ DOMAIN s = 1 .. Len(s)
      /\ DOMAIN Append(s, e) = 1 .. Len(s) + 1
      /\ \A i \in 1 .. Len(s) : Append(s, e)[i] = s[i]
      /\ Append(s, e)[Len(s) + 1] = e
  OBVIOUS
<1>2. \A i \in 1 .. Len(s) + 1 : i \in 1 .. Len(s) \/ i = Len(s) + 1
  BY <1>1
<1>3. QED
  BY <1>1, <1>2 DEF IsInjective, Range

LEMMA QueueTail ==
  ASSUME NEW T, NEW s \in Seq(T), IsInjective(s), s # <<>>
  PROVE  /\ Head(s) \in Range(s) /\ Head(s) \in T
         /\ Tail(s) \in Seq(T) /\ IsInjective(Tail(s)) /\ Range(Tail(s)) = Range(s) \ {Head(s)}
<1>1. /\ Len(s) \in Nat \ {0} /\ DOMAIN s = 1 .. Len(s) /\ Tail(s) \in Seq(T)
      /\ DOMAIN Tail(s) = 1 .. Len(s) - 1 /\ Head(s) = s[1] /\ s[1] \in T
      /\ \A i \in 1 .. Len(s) - 1 : Tail(s)[i] = s[i + 1]
  OBVIOUS
<1>2. \A i \in 1 .. Len(s) - 1 : i + 1 \in 1 .. Len(s) /\ i + 1 # 1
  BY <1>1
<1>3. \A i \in 1 .. Len(s) : i # 1 => i - 1 \in 1 .. Len(s) - 1 /\ Tail(s)[i - 1] = s[i]
  BY <1>1
<1>4. IsInjective(Tail(s))
  <2> SUFFICES ASSUME NEW i \in 1 .. Len(s) - 1, NEW k \in 1 .. Len(s) - 1, Tail(s)[i] = Tail(s)[k]
               PROVE  i = k
    BY <1>1 DEF IsInjective
  <2>1. i + 1 = k + 1
    BY <1>1, <1>2 DEF IsInjective
  <2>2. QED
    BY <1>1, <2>1
<1>5. Range(Tail(s)) \subseteq Range(s) \ {Head(s)}
  BY <1>1, <1>2 DEF Range, IsInjective
<1>6. Range(s) \ {Head(s)} \subseteq Range(Tail(s))
  <2> SUFFICES ASSUME NEW i \in 1 .. Len(s), s[i] # Head(s)
               PROVE  s[i] \in Range(Tail(s))
    BY <1>1 DEF Range
  <2>1. i - 1 \in DOMAIN Tail(s) /\ Tail(s)[i - 1] = s[i]
    BY <1>1, <1>3
  <2>2. QED
    BY <2>1 DEF Range
<1>7. 1 \in DOMAIN s /\ Head(s) \in Range(s)
  BY <1>1 DEF Range
<1>8. QED
  BY <1>1, <1>4, <1>5, <1>6, <1>7

LEMMA QueueFront ==
  ASSUME NEW T, NEW s \in Seq(T), IsInjective(s), s # <<>>
  PROVE  LET front == SubSeq(s, 1, Len(s) - 1) IN
         /\ s[Len(s)] \in Range(s) /\ s[Len(s)] \in T
         /\ front \in Seq(T) /\ IsInjective(front) /\ Range(front) = Range(s) \ {s[Len(s)]}
<1> DEFINE front == SubSeq(s, 1, Len(s) - 1)
<1>1. /\ Len(s) \in Nat \ {0} /\ DOMAIN s = 1 .. Len(s) /\ front \in Seq(T)
      /\ DOMAIN front = 1 .. Len(s) - 1 /\ Len(s) \in DOMAIN s
      /\ \A i \in 1 .. Len(s) - 1 : front[i] = s[i]
  OBVIOUS
<1> HIDE DEF front
<1>2. ASSUME NEW n \in Nat
      PROVE  /\ \A i \in 1 .. n : i \in 1 .. n - 1 \/ i = n
             /\ \A i \in 1 .. n - 1 : i \in 1 .. n /\ i # n
  BY SMTT(60)
<1>3. /\ \A i \in 1 .. Len(s) : i \in 1 .. Len(s) - 1 \/ i = Len(s)
      /\ \A i \in 1 .. Len(s) - 1 : i \in 1 .. Len(s) /\ i # Len(s)
  BY <1>1, <1>2, ZenonT(60)
<1>4. IsInjective(front)
  BY <1>1, <1>3, ZenonT(60) DEF IsInjective
<1>5. Range(front) \subseteq Range(s) \ {s[Len(s)]}
  BY <1>1, <1>3, ZenonT(60) DEF IsInjective, Range
<1>6. Range(s) \ {s[Len(s)]} \subseteq Range(front)
  <2> SUFFICES ASSUME NEW i \in 1 .. Len(s), s[i] # s[Len(s)]
               PROVE  s[i] \in Range(front)
    BY <1>1 DEF Range
  <2>1. i \in DOMAIN front /\ front[i] = s[i]
    BY <1>1, <1>3, ZenonT(60)
  <2>2. QED
    BY <2>1 DEF Range
<1>7. s[Len(s)] \in Range(s) /\ s[Len(s)] \in T
  BY <1>1 DEF Range
<1>8. QED
  BY <1>1, <1>4, <1>5, <1>6, <1>7 DEF front

LEMMA QueueConcat ==
  ASSUME NEW T, NEW a \in Seq(T), NEW b \in Seq(T), IsInjective(a), IsInjective(b),
         Range(a) \cap Range(b) = {}
  PROVE  /\ a \o b \in Seq(T) /\ IsInjective(a \o b) /\ Range(a \o b) = Range(a) \union Range(b)
<1>1. /\ a \o b \in Seq(T) /\ Len(a) \in Nat /\ Len(b) \in Nat
      /\ DOMAIN a = 1 .. Len(a) /\ DOMAIN b = 1 .. Len(b) /\ DOMAIN (a \o b) = 1 .. Len(a) + Len(b)
      /\ \A i \in 1 .. Len(a) + Len(b) : (a \o b)[i] = IF i <= Len(a) THEN a[i] ELSE b[i - Len(a)]
  OBVIOUS
<1>2. \A i \in 1 .. Len(a) + Len(b) : i \in 1 .. Len(a) \/ (~(i <= Len(a)) /\ i - Len(a) \in 1 .. Len(b))
  BY <1>1
<1>3. \A i \in 1 .. Len(a) : i \in 1 .. Len(a) + Len(b) /\ (a \o b)[i] = a[i]
  BY <1>1
<1>4. \A i \in 1 .. Len(b) : Len(a) + i \in 1 .. Len(a) + Len(b) /\ (a \o b)[Len(a) + i] = b[i]
  <2> SUFFICES ASSUME NEW i \in 1 .. Len(b)
               PROVE  Len(a) + i \in 1 .. Len(a) + Len(b) /\ (a \o b)[Len(a) + i] = b[i]
    OBVIOUS
  <2>1. Len(a) + i \in 1 .. Len(a) + Len(b) /\ ~(Len(a) + i <= Len(a)) /\ (Len(a) + i) - Len(a) = i
    BY <1>1
  <2>2. QED
    BY <1>1, <2>1
<1>5. Range(a \o b) = Range(a) \union Range(b)
  <2>1. Range(a \o b) \subseteq Range(a) \union Range(b)
    BY <1>1, <1>2 DEF Range
  <2>2. Range(a) \subseteq Range(a \o b)
    BY <1>1, <1>3 DEF Range
  <2>3. Range(b) \subseteq Range(a \o b)
    BY <1>1, <1>4, ZenonT(60) DEF Range
  <2>4. QED
    BY <2>1, <2>2, <2>3
<1>6. IsInjective(a \o b)
  <2> SUFFICES ASSUME NEW i \in 1 .. Len(a) + Len(b), NEW k \in 1 .. Len(a) + Len(b),
                      (a \o b)[i] = (a \o b)[k]
               PROVE  i = k
    BY <1>1 DEF IsInjective
  <2>1. CASE i <= Len(a) /\ k <= Len(a)
    BY <1>1, <1>2, <2>1 DEF IsInjective
  <2>2. CASE ~(i <= Len(a)) /\ ~(k <= Len(a))
    <3>1. b[i - Len(a)] = b[k - Len(a)] /\ i - Len(a) \in 1 .. Len(b) /\ k - Len(a) \in 1 .. Len(b)
      BY <1>1, <1>2, <2>2
    <3>2. i - Len(a) = k - Len(a)
      BY <1>1, <3>1 DEF IsInjective
    <3>3. QED
      BY <1>1, <3>2
  <2>3. CASE i <= Len(a) /\ ~(k <= Len(a))
    <3>1. i \in DOMAIN a /\ k - Len(a) \in DOMAIN b /\ a[i] = b[k - Len(a)]
      BY <1>1, <1>2, <2>3
    <3>2. QED
      BY <3>1 DEF Range
  <2>4. CASE ~(i <= Len(a)) /\ k <= Len(a)
    <3>1. k \in DOMAIN a /\ i - Len(a) \in DOMAIN b /\ a[k] = b[i - Len(a)]
      BY <1>1, <1>2, <2>4
    <3>2. QED
      BY <3>1 DEF Range
  <2>5. QED
    BY <2>1, <2>2, <2>3, <2>4
<1>7. QED
  BY <1>1, <1>5, <1>6

-----------------------------------------------------------------------------
(* Operations *)

Message == 1 .. MaxTyped
Hops == {"send", "steer", "deliver"}
Operation == [do : Hops \union {"rebuild", "reload", "rotate"}, msg : 0 .. MaxTyped,
              epoch : Nat, agent : Nat]

\* The messages that a list of operations carries.
Msgs(ts) == {ts[i].msg : i \in DOMAIN ts} \ {NoMessage}

\* No message is carried twice, the hops carry one, and its generation is the one in
\* which it was drained.
Sound(ts, drained) ==
  /\ ts \in Seq(Operation)
  /\ \A i, k \in DOMAIN ts : ts[i].msg = ts[k].msg => i = k \/ ts[i].msg = NoMessage
  /\ \A i \in DOMAIN ts : /\ ts[i].do \in Hops <=> ts[i].msg # NoMessage
                          /\ ts[i].do \in Hops => drained[ts[i].msg] = ts[i].epoch

LEMMA SoundTail ==
  ASSUME NEW drained, NEW ts, Sound(ts, drained), ts # <<>>
  PROVE  /\ Sound(Tail(ts), drained) /\ Msgs(Tail(ts)) = Msgs(ts) \ {Head(ts).msg}
         /\ Head(ts) \in Operation
         /\ Head(ts).do \in Hops =>
              Head(ts).msg \in Msgs(ts) /\ Head(ts).msg \in Message
              /\ drained[Head(ts).msg] = Head(ts).epoch
         /\ Head(ts).do \notin Hops => Head(ts).msg = NoMessage
<1>1. /\ Len(ts) \in Nat \ {0} /\ DOMAIN ts = 1 .. Len(ts) /\ Tail(ts) \in Seq(Operation)
      /\ DOMAIN Tail(ts) = 1 .. Len(ts) - 1 /\ Head(ts) = ts[1] /\ ts[1] \in Operation
      /\ \A i \in 1 .. Len(ts) - 1 : Tail(ts)[i] = ts[i + 1]
  BY DEF Sound
<1>2. \A i \in 1 .. Len(ts) - 1 : i + 1 \in 1 .. Len(ts) /\ i + 1 # 1
  BY <1>1
<1>3. \A i \in 1 .. Len(ts) : i # 1 => i - 1 \in 1 .. Len(ts) - 1 /\ Tail(ts)[i - 1] = ts[i]
  BY <1>1
<1>4. 1 \in DOMAIN ts
  BY <1>1
<1>5. Msgs(Tail(ts)) \subseteq Msgs(ts) \ {Head(ts).msg}
  BY <1>1, <1>2, <1>4 DEF Msgs, Sound
<1>6. Msgs(ts) \ {Head(ts).msg} \subseteq Msgs(Tail(ts))
  <2> SUFFICES ASSUME NEW i \in 1 .. Len(ts), ts[i].msg # Head(ts).msg, ts[i].msg # NoMessage
               PROVE  ts[i].msg \in Msgs(Tail(ts))
    BY <1>1 DEF Msgs
  <2>1. i - 1 \in DOMAIN Tail(ts) /\ Tail(ts)[i - 1] = ts[i]
    BY <1>1, <1>3
  <2>2. QED
    BY <2>1 DEF Msgs
<1>7. Sound(Tail(ts), drained)
  <2>1. ASSUME NEW i \in 1 .. Len(ts) - 1, NEW k \in 1 .. Len(ts) - 1,
               Tail(ts)[i].msg = Tail(ts)[k].msg, Tail(ts)[i].msg # NoMessage
        PROVE  i = k
    <3>1. i + 1 = k + 1
      BY <1>1, <1>2, <2>1 DEF Sound
    <3>2. QED
      BY <1>1, <3>1
  <2>2. QED
    BY <1>1, <1>2, <2>1 DEF Sound
<1>8. Head(ts).do \in Hops => Head(ts).msg \in Msgs(ts) /\ Head(ts).msg \in Message
  <2>1. Head(ts).msg \in 0 .. MaxTyped
    BY <1>1 DEF Operation
  <2>2. QED
    BY <1>1, <1>4, <2>1, BoundsAssumption DEF Sound, Msgs, Message, NoMessage
<1>9. QED
  BY <1>1, <1>4, <1>5, <1>6, <1>7, <1>8 DEF Sound

LEMMA SoundConcat ==
  ASSUME NEW drained, NEW a, NEW b, Sound(a, drained), Sound(b, drained),
         Msgs(a) \cap Msgs(b) = {}
  PROVE  /\ Sound(a \o b, drained) /\ Msgs(a \o b) = Msgs(a) \union Msgs(b)
         /\ a # <<>> => a \o b # <<>> /\ Head(a \o b) = Head(a)
<1>0. a \in Seq(Operation) /\ b \in Seq(Operation)
  BY DEF Sound
<1>1. /\ a \o b \in Seq(Operation) /\ Len(a) \in Nat /\ Len(b) \in Nat
      /\ DOMAIN a = 1 .. Len(a) /\ DOMAIN b = 1 .. Len(b) /\ DOMAIN (a \o b) = 1 .. Len(a) + Len(b)
      /\ \A i \in 1 .. Len(a) + Len(b) : (a \o b)[i] = IF i <= Len(a) THEN a[i] ELSE b[i - Len(a)]
  BY <1>0
<1>2. \A i \in 1 .. Len(a) + Len(b) : i \in 1 .. Len(a) \/ (~(i <= Len(a)) /\ i - Len(a) \in 1 .. Len(b))
  BY <1>1
<1>3. \A i \in 1 .. Len(a) : i \in 1 .. Len(a) + Len(b) /\ (a \o b)[i] = a[i]
  BY <1>1
<1>4. \A i \in 1 .. Len(b) : Len(a) + i \in 1 .. Len(a) + Len(b) /\ (a \o b)[Len(a) + i] = b[i]
  <2> SUFFICES ASSUME NEW i \in 1 .. Len(b)
               PROVE  Len(a) + i \in 1 .. Len(a) + Len(b) /\ (a \o b)[Len(a) + i] = b[i]
    OBVIOUS
  <2>1. Len(a) + i \in 1 .. Len(a) + Len(b) /\ ~(Len(a) + i <= Len(a)) /\ (Len(a) + i) - Len(a) = i
    BY <1>1
  <2>2. QED
    BY <1>1, <2>1
<1>5. Msgs(a \o b) = Msgs(a) \union Msgs(b)
  <2>1. Msgs(a \o b) \subseteq Msgs(a) \union Msgs(b)
    BY <1>1, <1>2 DEF Msgs
  <2>2. Msgs(a) \subseteq Msgs(a \o b)
    BY <1>1, <1>3 DEF Msgs
  <2>3. Msgs(b) \subseteq Msgs(a \o b)
    BY <1>1, <1>4 DEF Msgs
  <2>4. QED
    BY <2>1, <2>2, <2>3
<1>6. ASSUME NEW i \in DOMAIN (a \o b), NEW k \in DOMAIN (a \o b),
             (a \o b)[i].msg = (a \o b)[k].msg, (a \o b)[i].msg # NoMessage
      PROVE  i = k
  <2>1. CASE i <= Len(a) /\ k <= Len(a)
    BY <1>1, <1>2, <1>6, <2>1 DEF Sound
  <2>2. CASE ~(i <= Len(a)) /\ ~(k <= Len(a))
    <3>1. /\ b[i - Len(a)].msg = b[k - Len(a)].msg /\ b[i - Len(a)].msg # NoMessage
          /\ i - Len(a) \in DOMAIN b /\ k - Len(a) \in DOMAIN b
      BY <1>1, <1>2, <1>6, <2>2
    <3>2. i - Len(a) = k - Len(a)
      BY <3>1 DEF Sound
    <3>3. QED
      BY <1>1, <3>2
  <2>3. CASE i <= Len(a) /\ ~(k <= Len(a))
    <3>1. i \in DOMAIN a /\ k - Len(a) \in DOMAIN b /\ a[i].msg = b[k - Len(a)].msg /\ a[i].msg # NoMessage
      BY <1>1, <1>2, <1>6, <2>3
    <3>2. QED
      BY <3>1 DEF Msgs
  <2>4. CASE ~(i <= Len(a)) /\ k <= Len(a)
    <3>1. k \in DOMAIN a /\ i - Len(a) \in DOMAIN b /\ a[k].msg = b[i - Len(a)].msg /\ a[k].msg # NoMessage
      BY <1>1, <1>2, <1>6, <2>4
    <3>2. QED
      BY <3>1 DEF Msgs
  <2>5. QED
    BY <2>1, <2>2, <2>3, <2>4
<1>7. ASSUME NEW i \in DOMAIN (a \o b)
      PROVE  /\ (a \o b)[i].do \in Hops <=> (a \o b)[i].msg # NoMessage
             /\ (a \o b)[i].do \in Hops => drained[(a \o b)[i].msg] = (a \o b)[i].epoch
  BY <1>1, <1>2 DEF Sound
<1>8. Sound(a \o b, drained)
  BY <1>1, <1>6, <1>7 DEF Sound
<1>9. a # <<>> => a \o b # <<>> /\ Head(a \o b) = Head(a)
  <2> SUFFICES ASSUME a # <<>>
               PROVE  a \o b # <<>> /\ Head(a \o b) = Head(a)
    OBVIOUS
  <2>1. 1 \in 1 .. Len(a) /\ Head(a) = a[1]
    BY <1>0
  <2>2. (a \o b)[1] = a[1] /\ 1 \in DOMAIN (a \o b)
    BY <1>1, <1>3, <2>1
  <2>3. QED
    BY <1>1, <2>1, <2>2
<1>10. QED
  BY <1>5, <1>8, <1>9

LEMMA SoundSingle ==
  ASSUME NEW drained, NEW t \in Operation, t.do \in Hops <=> t.msg # NoMessage,
         t.do \in Hops => drained[t.msg] = t.epoch
  PROVE  Sound(<<t>>, drained) /\ Msgs(<<t>>) = {t.msg} \ {NoMessage}
<1>1. <<t>> \in Seq(Operation) /\ DOMAIN <<t>> = {1} /\ <<t>>[1] = t
  OBVIOUS
<1>2. QED
  BY <1>1 DEF Sound, Msgs

LEMMA SoundAppend ==
  ASSUME NEW drained, NEW a, Sound(a, drained), NEW t \in Operation,
         t.do \in Hops <=> t.msg # NoMessage,
         t.do \in Hops => drained[t.msg] = t.epoch, t.msg \notin Msgs(a)
  PROVE  /\ Sound(Append(a, t), drained) /\ Msgs(Append(a, t)) = Msgs(a) \union ({t.msg} \ {NoMessage})
         /\ Append(a, t) # <<>> /\ (a # <<>> => Head(Append(a, t)) = Head(a))
<1>1. Append(a, t) = a \o <<t>> /\ Append(a, t) # <<>>
  BY DEF Sound
<1>2. Sound(<<t>>, drained) /\ Msgs(<<t>>) = {t.msg} \ {NoMessage}
  BY SoundSingle
<1>3. Msgs(a) \cap Msgs(<<t>>) = {}
  BY <1>2
<1>4. /\ Sound(a \o <<t>>, drained) /\ Msgs(a \o <<t>>) = Msgs(a) \union Msgs(<<t>>)
      /\ a # <<>> => a \o <<t>> # <<>> /\ Head(a \o <<t>>) = Head(a)
  BY <1>2, <1>3, SoundConcat
<1>5. QED
  BY <1>1, <1>2, <1>4

LEMMA SoundEmpty ==
  ASSUME NEW drained
  PROVE  Sound(<<>>, drained) /\ Msgs(<<>>) = {}
BY DEF Sound, Msgs

\* Only the generations of the messages that are carried matter.
LEMMA SoundRedated ==
  ASSUME NEW drained, NEW later, NEW ts, Sound(ts, drained),
         \A m \in Msgs(ts) : later[m] = drained[m]
  PROVE  Sound(ts, later)
BY DEF Sound, Msgs

LEMMA HopsSound ==
  ASSUME NEW drained, NEW ms \in Seq(Message), IsInjective(ms), NEW do \in {"send", "steer"},
         NEW e \in Nat, \A m \in Range(ms) : drained[m] = e
  PROVE  Sound(HopsOf(ms, do, e), drained) /\ Msgs(HopsOf(ms, do, e)) = Range(ms)
<1>1. Len(ms) \in Nat /\ DOMAIN ms = 1 .. Len(ms) /\ \A i \in DOMAIN ms : ms[i] \in Message
  OBVIOUS
<1>2. \A i \in DOMAIN ms : /\ Task(do, ms[i], e) \in Operation
                           /\ Task(do, ms[i], e).do = do /\ Task(do, ms[i], e).msg = ms[i]
                           /\ Task(do, ms[i], e).epoch = e
  BY <1>1, BoundsAssumption DEF Task, Operation, Message, Hops
<1>3. HopsOf(ms, do, e) = [i \in DOMAIN ms |-> Task(do, ms[i], e)]
  BY DEF HopsOf
<1>4. HopsOf(ms, do, e) \in [1 .. Len(ms) -> Operation]
  BY <1>1, <1>2, <1>3
<1>5. HopsOf(ms, do, e) \in Seq(Operation) /\ DOMAIN HopsOf(ms, do, e) = DOMAIN ms
  BY <1>1, <1>4
<1>6. \A i \in DOMAIN ms : ms[i] # NoMessage /\ drained[ms[i]] = e
  BY <1>1, BoundsAssumption DEF Message, NoMessage, Range
<1>7. Sound(HopsOf(ms, do, e), drained)
  BY <1>2, <1>3, <1>5, <1>6 DEF Sound, Hops, IsInjective
<1>8. Msgs(HopsOf(ms, do, e)) = Range(ms)
  BY <1>2, <1>3, <1>5, <1>6 DEF Msgs, Range
<1>9. QED
  BY <1>7, <1>8

-----------------------------------------------------------------------------
(* The inductive invariant *)

\* The messages that were queued behind a turn.
Follow(kinds) == {m \in DOMAIN kinds : kinds[m] # "immediate"}
\* The message that the head holds for the length of its turn.
Turn == IF phase = "turn" THEN {Head(tasks).msg} ELSE {}
Prompt == {composer} \ {NoMessage}

\* Where each of them is: queued (Q), put aside (R), in the prompt (C) or carried by an
\* operation (T), never in two of these; with und of those carried still to be
\* settled, turn taken and not yet settled, reach taken and gone dropped.
Accounts(kinds, Q, R, C, T, turn, und, reach, gone) ==
  /\ Q \subseteq Follow(kinds) /\ R \subseteq Follow(kinds)
  /\ C \subseteq Follow(kinds) /\ T \subseteq Follow(kinds)
  /\ Q \cap R = {} /\ Q \cap C = {} /\ R \cap C = {}
  /\ Q \cap T = {} /\ R \cap T = {} /\ C \cap T = {}
  /\ und \subseteq T
  /\ reach \subseteq DOMAIN kinds /\ reach \cap (Q \union R \union C) = {}
  /\ turn \subseteq reach /\ reach \cap T \subseteq turn
  /\ Follow(kinds) \subseteq reach \union gone \union Q \union R \union C \union und

Kind == {"immediate", "steer", "queue"}
Direct == [msg : Message, epoch : Nat, pc : {"ingest", "tail", "refresh"}, ahead : Nat]

KindsInv ==
  /\ kindOf \in Seq(Kind) /\ Len(kindOf) <= MaxTyped
  /\ directs \subseteq Direct
  /\ \A d \in directs : d.msg \in Typed /\ kindOf[d.msg] = "immediate"
QueueInv ==
  /\ items \in Seq(Message) /\ IsInjective(items)
  /\ recoveries \in Seq(Message) /\ IsInjective(recoveries)
  /\ composer \in 0 .. MaxTyped
TaskInv ==
  /\ Sound(tasks, drainedIn) /\ DOMAIN drainedIn = Message
  /\ epoch \in Nat /\ live \in [no : Nat, open : BOOLEAN]
  /\ phase = "turn" => tasks # <<>> /\ Head(tasks).do = "send"
AccountInv ==
  Accounts(kindOf, Range(items), Range(recoveries), Prompt, Msgs(tasks), Turn, underway, reached, discarded)

DeliveryInv == KindsInv /\ QueueInv /\ TaskInv /\ AccountInv

LEMMA DeliveryStarts == DeliveryInit => DeliveryInv
<1> SUFFICES ASSUME DeliveryInit
             PROVE  DeliveryInv
  OBVIOUS
<1> USE DEF DeliveryInit
<1>1. /\ <<>> \in Seq(Kind) /\ Len(<<>>) = 0 /\ <<>> \in Seq(Message) /\ DOMAIN <<>> = {}
  OBVIOUS
<1>2. KindsInv
  BY <1>1, BoundsAssumption DEF KindsInv
<1>3. QueueInv
  BY <1>1, BoundsAssumption DEF QueueInv, IsInjective, NoMessage
<1>4. TaskInv
  BY SoundEmpty DEF TaskInv, Message
<1>5. Range(<<>>) = {} /\ Msgs(tasks) = {} /\ Turn = {} /\ Prompt = {} /\ Follow(kindOf) = {}
  BY <1>1, SoundEmpty DEF Range, Turn, Prompt, Follow
<1>6. AccountInv
  BY <1>5 DEF AccountInv, Accounts
<1>7. QED
  BY <1>2, <1>3, <1>4, <1>6 DEF DeliveryInv

\* The invariant of the state in which nothing about the messages has changed.
LEMMA Undisturbed ==
  ASSUME KindsInv, QueueInv, TaskInv, AccountInv,
         UNCHANGED <<kindOf, queueVars, promptVars, reached>>,
         epoch' \in Nat, live' \in [no : Nat, open : BOOLEAN],
         Sound(tasks, drainedIn) => Sound(tasks', drainedIn), Msgs(tasks') = Msgs(tasks), Turn' = Turn,
         (phase = "turn")' => tasks' # <<>> /\ Head(tasks').do = "send"
  PROVE  QueueInv' /\ TaskInv' /\ AccountInv'
<1>1. QueueInv'
  BY DEF QueueInv, queueVars, promptVars
<1>2. TaskInv'
  BY DEF TaskInv, queueVars
<1>3. AccountInv'
  <2>1. Msgs(tasks)' = Msgs(tasks) /\ Prompt' = Prompt
    BY DEF Msgs, Prompt, promptVars
  <2>2. QED
    BY <2>1 DEF AccountInv, queueVars, promptVars
<1>4. QED
  BY <1>1, <1>2, <1>3

-----------------------------------------------------------------------------
(* The operator *)

LEMMA SubmitKeeps ==
  ASSUME DeliveryInv, NEW kind \in Kind, Submit(kind)
  PROVE  DeliveryInv'
<1> DEFINE m == IF composer # NoMessage THEN composer ELSE Len(kindOf) + 1
<1> USE DEF DeliveryInv
<1>1. /\ m <= MaxTyped
      /\ composer' = IF recoveries = <<>> THEN NoMessage ELSE Head(recoveries)
      /\ recoveries' = IF recoveries = <<>> THEN <<>> ELSE Tail(recoveries)
      /\ kindOf' = IF m \in Typed THEN [kindOf EXCEPT ![m] = kind] ELSE Append(kindOf, kind)
      /\ UNCHANGED <<underway, drainedIn, epoch, tasks, phase, live, reached, discarded>>
  BY DEF Submit, agentVars
<1>2. \/ /\ kind = "immediate" /\ UNCHANGED items
         /\ directs' = directs \union {[msg |-> m, epoch |-> epoch, pc |-> "ingest", ahead |-> 0]}
      \/ kind # "immediate" /\ items' = Append(items, m) /\ UNCHANGED directs
  BY DEF Submit
<1>3. /\ Len(kindOf) \in Nat /\ Typed = 1 .. Len(kindOf) /\ Len(kindOf) <= MaxTyped
      /\ kindOf \in Seq(Kind) /\ kindOf \in [1 .. Len(kindOf) -> Kind]
  BY DEF KindsInv, Typed
<1>4. m \in Message /\ (composer = NoMessage => m = Len(kindOf) + 1 /\ m \notin Typed)
  BY <1>1, <1>3, BoundsAssumption DEF QueueInv, Message, NoMessage
<1>5. composer # NoMessage => m \in Prompt /\ m \in Follow(kindOf) /\ m \in Typed
  BY DEF Prompt, AccountInv, Accounts, Follow, Typed
<1>6. /\ kindOf' \in Seq(Kind) /\ DOMAIN kindOf' = Typed \union {m} /\ Len(kindOf') <= MaxTyped
      /\ kindOf'[m] = kind /\ \A n \in Typed \ {m} : kindOf'[n] = kindOf[n]
  <2>1. CASE m \in Typed
    <3>1. kindOf' \in [1 .. Len(kindOf) -> Kind] /\ kindOf'[m] = kind
      BY <1>1, <1>3, <2>1
    <3>2. kindOf' \in Seq(Kind) /\ Len(kindOf') = Len(kindOf)
      BY <1>3, <3>1
    <3>3. QED
      BY <1>1, <1>3, <2>1, <3>1, <3>2
  <2>2. CASE m \notin Typed
    <3>1. m = Len(kindOf) + 1 /\ kindOf' = Append(kindOf, kind)
      BY <1>1, <1>4, <1>5, <2>2
    <3>2. /\ kindOf' \in Seq(Kind) /\ Len(kindOf') = m /\ kindOf'[m] = kind
          /\ DOMAIN kindOf' = 1 .. Len(kindOf) + 1 /\ \A n \in 1 .. Len(kindOf) : kindOf'[n] = kindOf[n]
      BY <1>3, <3>1
    <3>3. 1 .. Len(kindOf) + 1 = (1 .. Len(kindOf)) \union {m}
      BY <1>3, <3>1
    <3>4. QED
      BY <1>1, <1>3, <3>2, <3>3
  <2>3. QED
    BY <2>1, <2>2
<1>7. /\ m \notin Range(items) /\ m \notin Range(recoveries) /\ m \notin Msgs(tasks)
      /\ m \notin reached /\ m \notin underway
  BY <1>4, <1>5 DEF AccountInv, Accounts, Follow, Typed
<1> HIDE DEF m
<1>8. /\ kind = "immediate" => Follow(kindOf') = Follow(kindOf) \ {m}
      /\ kind # "immediate" => Follow(kindOf') = Follow(kindOf) \union {m}
  BY <1>6 DEF Follow, Typed
<1>9. KindsInv'
  <2>1. /\ epoch \in Nat /\ [msg |-> m, epoch |-> epoch, pc |-> "ingest", ahead |-> 0] \in Direct
        /\ [msg |-> m, epoch |-> epoch, pc |-> "ingest", ahead |-> 0].msg = m
    BY <1>4 DEF Direct, TaskInv
  <2>2. \A d \in directs : d \in Direct /\ d.msg \in Typed /\ kindOf[d.msg] = "immediate"
    BY DEF KindsInv
  <2>3. \A d \in directs : d.msg # m
    BY <1>4, <1>5, <2>2 DEF Follow
  <2>4. \A d \in directs' : d \in Direct /\ d.msg \in Typed \union {m} /\ kindOf'[d.msg] = "immediate"
    BY <1>2, <1>6, <2>1, <2>2, <2>3
  <2>5. Typed' = Typed \union {m}
    BY <1>6 DEF Typed
  <2>6. directs' \subseteq Direct
    BY <2>4
  <2>7. QED
    BY <1>6, <2>4, <2>5, <2>6 DEF KindsInv
<1>10. /\ items' \in Seq(Message) /\ IsInjective(items')
       /\ Range(items') = IF kind = "immediate" THEN Range(items) ELSE Range(items) \union {m}
  <2>1. items \in Seq(Message) /\ IsInjective(items)
    BY DEF QueueInv
  <2>2. CASE kind = "immediate"
    BY <1>2, <2>1, <2>2
  <2>3. CASE kind # "immediate"
    <3>1. items' = Append(items, m)
      BY <1>2, <2>3
    <3>2. m \in Message /\ m \notin Range(items)
      BY <1>4, <1>7
    <3>3. /\ Append(items, m) \in Seq(Message) /\ IsInjective(Append(items, m))
          /\ Range(Append(items, m)) = Range(items) \union {m}
      BY <2>1, <3>2, QueueAppend
    <3>4. QED
      BY <2>3, <3>1, <3>3
  <2>4. QED
    BY <2>2, <2>3
<1>11. /\ recoveries' \in Seq(Message) /\ IsInjective(recoveries') /\ composer' \in 0 .. MaxTyped
       /\ Range(recoveries') = Range(recoveries) \ {composer'}
       /\ composer' # NoMessage => composer' \in Range(recoveries)
       /\ composer' = NoMessage => Range(recoveries) = {}
  <2>1. recoveries \in Seq(Message) /\ IsInjective(recoveries)
    BY DEF QueueInv
  <2>2. <<>> \in Seq(Message) /\ IsInjective(<<>>) /\ Range(<<>>) = {}
    BY DEF IsInjective, Range
  <2>3. \A x \in Message : x \in 0 .. MaxTyped /\ x # NoMessage
    BY BoundsAssumption DEF Message, NoMessage
  <2>4. CASE recoveries = <<>>
    BY <1>1, <2>2, <2>4, BoundsAssumption DEF NoMessage
  <2>5. CASE recoveries # <<>>
    BY <1>1, <2>1, <2>3, <2>5, QueueTail
  <2>6. QED
    BY <2>4, <2>5
<1>12. QueueInv'
  BY <1>10, <1>11 DEF QueueInv
<1>13. TaskInv' /\ Msgs(tasks)' = Msgs(tasks) /\ Turn' = Turn
  BY <1>1 DEF TaskInv, Msgs, Turn
<1>14. /\ Range(recoveries') \union Prompt' = Range(recoveries) /\ Range(recoveries') \cap Prompt' = {}
  BY <1>11 DEF Prompt
<1>15. AccountInv'
  <2>1. Prompt = {m} \/ (Prompt = {} /\ m \notin Typed)
    BY <1>4, <1>5 DEF Prompt
  <2>2. /\ Range(items)' = Range(items') /\ Range(recoveries)' = Range(recoveries')
        /\ reached' = reached /\ discarded' = discarded /\ underway' = underway
    BY <1>1
  <2>3. CASE kind = "immediate"
    BY <1>6, <1>7, <1>8, <1>10, <1>13, <1>14, <2>1, <2>2, <2>3 DEF AccountInv, Accounts, Typed
  <2>4. CASE kind # "immediate"
    BY <1>6, <1>7, <1>8, <1>10, <1>13, <1>14, <2>1, <2>2, <2>4 DEF AccountInv, Accounts, Typed
  <2>5. QED
    BY <2>3, <2>4
<1>16. QED
  BY <1>9, <1>12, <1>13, <1>15

LEMMA DrainsKeep ==
  ASSUME DeliveryInv, NEW ms \in Seq(Message), IsInjective(ms), Range(ms) \subseteq Range(items),
         NEW do \in {"send", "steer"}, NEW e \in Nat, Drains(ms, do, e)
  PROVE  /\ items' \in Seq(Message) /\ IsInjective(items') /\ Range(items') = Range(items) \ Range(ms)
         /\ underway' = underway \union Range(ms)
         /\ Sound(tasks, drainedIn') /\ DOMAIN drainedIn' = Message
         /\ Sound(HopsOf(ms, do, e), drainedIn') /\ Msgs(HopsOf(ms, do, e)) = Range(ms)
<1>1. /\ items \in Seq(Message) /\ IsInjective(items) /\ Range(items) \subseteq Typed
      /\ Sound(tasks, drainedIn) /\ Range(items) \cap Msgs(tasks) = {} /\ DOMAIN drainedIn = Message
      /\ Msgs(tasks) \subseteq Message /\ Range(ms) \subseteq Message
  <2>1. \A m \in Typed : m \in Message
    <3>1. Len(kindOf) \in Nat /\ Typed = 1 .. Len(kindOf) /\ Len(kindOf) <= MaxTyped
      BY DEF DeliveryInv, KindsInv, Typed
    <3>2. QED
      BY <3>1, BoundsAssumption DEF Message
  <2>2. QED
    BY <2>1 DEF DeliveryInv, QueueInv, TaskInv, AccountInv, Accounts, Follow, Typed
<1>2. /\ items' = Only(items, Typed \ Range(ms)) /\ underway' = underway \union Range(ms)
      /\ drainedIn' = [m \in DOMAIN drainedIn |-> IF m \in Range(ms) THEN e ELSE drainedIn[m]]
  BY DEF Drains
<1>3. /\ items' \in Seq(Message) /\ IsInjective(items')
      /\ Range(items') = Range(items) \cap (Typed \ Range(ms))
  BY <1>1, <1>2, OnlyKeeps
<1>4. /\ DOMAIN drainedIn' = Message /\ \A m \in Range(ms) : drainedIn'[m] = e
      /\ \A m \in Msgs(tasks) : drainedIn'[m] = drainedIn[m]
  BY <1>1, <1>2
<1>5. Sound(tasks, drainedIn')
  BY <1>1, <1>4, SoundRedated
<1>6. Sound(HopsOf(ms, do, e), drainedIn') /\ Msgs(HopsOf(ms, do, e)) = Range(ms)
  BY <1>4, HopsSound
<1>7. QED
  BY <1>1, <1>2, <1>3, <1>4, <1>5, <1>6

\* What is drained goes behind ts: the operations there were, and perhaps a rebuild;
\* the prompt is left alone or emptied.
LEMMA DrainedBehind ==
  ASSUME DeliveryInv, NEW ms \in Seq(Message), IsInjective(ms), Range(ms) \subseteq Range(items),
         NEW do \in {"send", "steer"}, NEW e \in Nat, Drains(ms, do, e),
         NEW ts, \A drained : Sound(tasks, drained) => Sound(ts, drained), Msgs(ts) = Msgs(tasks),
         tasks # <<>> => ts # <<>> /\ Head(ts) = Head(tasks),
         tasks' = ts \o HopsOf(ms, do, e),
         UNCHANGED <<kindOf, phase, live, reached, recoveries, directs>>, epoch' \in Nat,
         composer' \in {composer, NoMessage}, discarded' = discarded \union (Prompt \ Prompt')
  PROVE  DeliveryInv'
<1>1. /\ items' \in Seq(Message) /\ IsInjective(items') /\ Range(items') = Range(items) \ Range(ms)
      /\ underway' = underway \union Range(ms)
      /\ Sound(tasks, drainedIn') /\ DOMAIN drainedIn' = Message
      /\ Sound(HopsOf(ms, do, e), drainedIn') /\ Msgs(HopsOf(ms, do, e)) = Range(ms)
  BY DrainsKeep
<1>2. Sound(ts, drainedIn') /\ Msgs(ts) \cap Msgs(HopsOf(ms, do, e)) = {}
  BY <1>1 DEF DeliveryInv, AccountInv, Accounts
<1>3. /\ Sound(tasks', drainedIn') /\ Msgs(tasks') = Msgs(tasks) \union Range(ms)
      /\ ts # <<>> => tasks' # <<>> /\ Head(tasks') = Head(ts)
  <2> DEFINE hops == HopsOf(ms, do, e)
             later == drainedIn'
  <2>1. tasks' = ts \o hops /\ Msgs(hops) = Range(ms) /\ Msgs(ts) = Msgs(tasks)
    BY <1>1
  <2>2. Sound(ts, later) /\ Sound(hops, later) /\ Msgs(ts) \cap Msgs(hops) = {}
    BY <1>1, <1>2
  <2> HIDE DEF hops, later
  <2>3. /\ Sound(ts \o hops, later) /\ Msgs(ts \o hops) = Msgs(ts) \union Msgs(hops)
        /\ ts # <<>> => ts \o hops # <<>> /\ Head(ts \o hops) = Head(ts)
    BY <2>2, SoundConcat
  <2>4. QED
    BY <2>1, <2>3 DEF later
<1>4. phase = "turn" => tasks # <<>> /\ Head(tasks).do = "send"
  BY DEF DeliveryInv, TaskInv
<1>5. KindsInv'
  BY DEF DeliveryInv, KindsInv, Typed
<1>6. QueueInv'
  BY <1>1, BoundsAssumption DEF DeliveryInv, QueueInv, NoMessage
<1>7. TaskInv'
  BY <1>1, <1>3, <1>4 DEF DeliveryInv, TaskInv
<1>8. AccountInv'
  <2>1. Turn' = Turn
    BY <1>3, <1>4 DEF Turn
  <2>2. Prompt' \subseteq Prompt
    BY DEF Prompt
  <2>3. /\ Msgs(tasks)' = Msgs(tasks') /\ Range(items)' = Range(items')
        /\ Range(recoveries)' = Range(recoveries)
    OBVIOUS
  <2>4. QED
    BY <1>1, <1>3, <2>1, <2>2, <2>3 DEF DeliveryInv, AccountInv, Accounts
<1>9. QED
  BY <1>5, <1>6, <1>7, <1>8 DEF DeliveryInv

\* The operations that carry no message.
LEMMA Behind ==
  ASSUME DeliveryInv, NEW do \in {"rebuild", "reload", "rotate"}
  PROVE  LET ts == Append(tasks, Task(do, NoMessage, epoch)) IN
         /\ \A drained : Sound(tasks, drained) => Sound(ts, drained)
         /\ Msgs(ts) = Msgs(tasks)
         /\ ts # <<>> /\ (tasks # <<>> => Head(ts) = Head(tasks))
<1> DEFINE t == Task(do, NoMessage, epoch)
<1>1. t \in Operation /\ t.do \notin Hops /\ t.msg = NoMessage /\ NoMessage \notin Msgs(tasks)
  BY BoundsAssumption DEF DeliveryInv, TaskInv, Task, Operation, Hops, NoMessage, Msgs
<1> HIDE DEF t
<1>2. \A drained : Sound(tasks, drained) =>
        /\ Sound(Append(tasks, t), drained)
        /\ Msgs(Append(tasks, t)) = Msgs(tasks) \union ({t.msg} \ {NoMessage})
        /\ Append(tasks, t) # <<>> /\ (tasks # <<>> => Head(Append(tasks, t)) = Head(tasks))
  BY <1>1, SoundAppend
<1>3. Sound(tasks, drainedIn)
  BY DEF DeliveryInv, TaskInv
<1>4. QED
  BY <1>1, <1>2, <1>3 DEF t

\* What a boundary drains: some of what is queued, each once.
LEMMA OrderKeeps ==
  ASSUME DeliveryInv
  PROVE  /\ <<>> \in Seq(Message) /\ IsInjective(<<>>) /\ Range(<<>>) \subseteq Range(items)
         /\ DrainOrder \in Seq(Message) /\ IsInjective(DrainOrder) /\ Range(DrainOrder) \subseteq Range(items)
         /\ LET steers == Kinds(items, "steer") IN
            steers \in Seq(Message) /\ IsInjective(steers) /\ Range(steers) \subseteq Range(items)
<1> DEFINE s == Kinds(items, "steer")
           q == Kinds(items, "queue")
<1>1. items \in Seq(Message) /\ IsInjective(items)
  BY DEF DeliveryInv, QueueInv
<1>2. <<>> \in Seq(Message) /\ IsInjective(<<>>) /\ Range(<<>>) \subseteq Range(items)
  BY DEF IsInjective, Range
<1>3. \A k : /\ Kinds(items, k) \in Seq(Message) /\ IsInjective(Kinds(items, k))
             /\ Range(Kinds(items, k)) = Range(items) \cap {m \in Typed : kindOf[m] = k}
  BY <1>1, OnlyKeeps DEF Kinds
<1>4. s \in Seq(Message) /\ IsInjective(s) /\ Range(s) \subseteq Range(items)
  BY <1>3
<1>5. q \in Seq(Message) /\ IsInjective(q) /\ Range(q) \subseteq Range(items)
  BY <1>3
<1>6. Range(s) \cap Range(q) = {}
  <2>1. /\ Range(s) = Range(items) \cap {m \in Typed : kindOf[m] = "steer"}
        /\ Range(q) = Range(items) \cap {m \in Typed : kindOf[m] = "queue"}
    BY <1>3
  <2> HIDE DEF s, q
  <2>2. QED
    BY <2>1
<1>7. DrainOrder = IF paused THEN <<>> ELSE s \o q
  BY DEF DrainOrder
<1> HIDE DEF s, q
<1>8. s \o q \in Seq(Message) /\ IsInjective(s \o q) /\ Range(s \o q) = Range(s) \union Range(q)
  BY <1>4, <1>5, <1>6, QueueConcat
<1>9. DrainOrder \in Seq(Message) /\ IsInjective(DrainOrder) /\ Range(DrainOrder) \subseteq Range(items)
  BY <1>2, <1>4, <1>5, <1>7, <1>8
<1>10. QED
  BY <1>2, <1>4, <1>9 DEF s

LEMMA CancelLastKeeps ==
  ASSUME DeliveryInv, NEW draft \in BOOLEAN, CancelLast(draft)
  PROVE  DeliveryInv'
<1> DEFINE newest == items[Len(items)]
<1>1. /\ items # <<>> /\ (composer # NoMessage => draft)
      /\ items' = SubSeq(items, 1, Len(items) - 1)
      /\ composer' = IF draft THEN composer ELSE newest
      /\ discarded' = IF draft THEN discarded \union {newest} ELSE discarded
      /\ UNCHANGED <<kindOf, recoveries, underway, drainedIn, epoch, tasks, phase, directs, live, reached>>
  BY DEF CancelLast, agentVars
<1>2. items \in Seq(Message) /\ IsInjective(items) /\ composer \in 0 .. MaxTyped
  BY DEF DeliveryInv, QueueInv
<1>3. /\ newest \in Range(items) /\ newest \in Message /\ items' \in Seq(Message)
      /\ IsInjective(items') /\ Range(items') = Range(items) \ {newest}
  BY <1>1, <1>2, QueueFront
<1> HIDE DEF newest
<1>4. newest \in 0 .. MaxTyped /\ newest # NoMessage
  BY <1>3, BoundsAssumption DEF Message, NoMessage
<1>5. KindsInv'
  BY <1>1 DEF DeliveryInv, KindsInv, Typed
<1>6. QueueInv'
  BY <1>1, <1>2, <1>3, <1>4 DEF DeliveryInv, QueueInv
<1>7. TaskInv' /\ Msgs(tasks)' = Msgs(tasks) /\ Turn' = Turn
  BY <1>1 DEF DeliveryInv, TaskInv, Msgs, Turn
<1>8. AccountInv'
  <2>1. /\ Range(items)' = Range(items') /\ Range(recoveries)' = Range(recoveries)
        /\ reached' = reached /\ underway' = underway /\ kindOf' = kindOf
    BY <1>1
  <2>2. CASE draft
    <3>1. Prompt' = Prompt /\ discarded' = discarded \union {newest}
      BY <1>1, <2>2 DEF Prompt
    <3>2. QED
      BY <1>3, <1>7, <2>1, <3>1 DEF DeliveryInv, AccountInv, Accounts
  <2>3. CASE ~draft
    <3>1. Prompt = {} /\ Prompt' = {newest} /\ discarded' = discarded
      BY <1>1, <1>4, <2>3 DEF Prompt
    <3>2. QED
      BY <1>3, <1>7, <2>1, <3>1 DEF DeliveryInv, AccountInv, Accounts
  <2>4. QED
    BY <2>2, <2>3
<1>9. QED
  BY <1>5, <1>6, <1>7, <1>8 DEF DeliveryInv

LEMMA ForceDeliverKeeps ==
  ASSUME DeliveryInv, NEW m \in Typed, ForceDeliver(m)
  PROVE  DeliveryInv'
<1>1. PICK do \in {"send", "steer"} :
        /\ m \in Range(items) /\ Drains(<<m>>, do, epoch) /\ tasks' = Append(tasks, Task(do, m, epoch))
  BY DEF ForceDeliver
<1>2. UNCHANGED <<kindOf, composer, recoveries, discarded, epoch, phase, directs, live, reached>>
  BY DEF ForceDeliver, promptVars, agentVars
<1>3. <<m>> \in Seq(Message) /\ IsInjective(<<m>>) /\ Range(<<m>>) = {m}
  <2>1. m \in Message
    BY <1>1 DEF DeliveryInv, QueueInv, Range
  <2>2. <<m>> \in Seq(Message) /\ DOMAIN <<m>> = {1} /\ <<m>>[1] = m
    BY <2>1
  <2>3. QED
    BY <2>2 DEF IsInjective, Range
<1>4. tasks' = tasks \o HopsOf(<<m>>, do, epoch)
  <2>1. HopsOf(<<m>>, do, epoch) = <<Task(do, m, epoch)>>
    BY DEF HopsOf
  <2>2. tasks \in Seq(Operation)
    BY DEF DeliveryInv, TaskInv, Sound
  <2>3. \A t : Append(tasks, t) = tasks \o <<t>>
    BY <2>2
  <2>4. QED
    BY <1>1, <2>1, <2>3
<1>5. epoch \in Nat /\ epoch' \in Nat
  BY <1>2 DEF DeliveryInv, TaskInv
<1>6. Prompt \ Prompt' = {}
  BY <1>2 DEF Prompt
<1>7. Range(<<m>>) \subseteq Range(items)
  BY <1>1, <1>3
<1>8. QED
  BY <1>1, <1>2, <1>3, <1>4, <1>5, <1>6, <1>7, DrainedBehind

LEMMA WatchdogAbortsKeeps ==
  ASSUME DeliveryInv, WatchdogAborts
  PROVE  DeliveryInv'
<1> DEFINE ts == Append(tasks, Task("rebuild", NoMessage, epoch))
<1>1. /\ Drains(DrainOrder, "send", epoch + 1)
      /\ tasks' = ts \o HopsOf(DrainOrder, "send", epoch + 1)
      /\ UNCHANGED <<kindOf, phase, live, reached, recoveries, directs>>
      /\ composer' = NoMessage /\ epoch' = epoch + 1
      /\ discarded' = discarded \union ({composer} \ {NoMessage})
  BY DEF WatchdogAborts, Stops, agentVars
<1>2. /\ \A drained : Sound(tasks, drained) => Sound(ts, drained)
      /\ Msgs(ts) = Msgs(tasks) /\ (tasks # <<>> => ts # <<>> /\ Head(ts) = Head(tasks))
  BY Behind
<1> HIDE DEF ts
<1>3. epoch + 1 \in Nat /\ epoch' \in Nat
  BY <1>1 DEF DeliveryInv, TaskInv
<1>4. discarded' = discarded \union (Prompt \ Prompt')
  BY <1>1 DEF Prompt
<1>5. DrainOrder \in Seq(Message) /\ IsInjective(DrainOrder) /\ Range(DrainOrder) \subseteq Range(items)
  BY OrderKeeps
<1>6. QED
  BY <1>1, <1>2, <1>3, <1>4, <1>5, DrainedBehind

LEMMA CtrlCKeeps ==
  ASSUME DeliveryInv, CtrlC
  PROVE  DeliveryInv'
<1> DEFINE ts == Append(tasks, Task("rebuild", NoMessage, epoch))
<1>1. /\ tasks' = ts
      /\ UNCHANGED <<kindOf, phase, live, reached, recoveries, directs, items, underway, drainedIn>>
      /\ composer' = NoMessage /\ epoch' = epoch + 1
      /\ discarded' = discarded \union ({composer} \ {NoMessage})
  BY DEF CtrlC, Stops, agentVars, queueVars
<1>2. /\ \A drained : Sound(tasks, drained) => Sound(ts, drained)
      /\ Msgs(ts) = Msgs(tasks) /\ (tasks # <<>> => ts # <<>> /\ Head(ts) = Head(tasks))
  BY Behind
<1> HIDE DEF ts
<1>3. KindsInv' /\ QueueInv'
  BY <1>1, BoundsAssumption DEF DeliveryInv, KindsInv, Typed, QueueInv, NoMessage
<1>4. TaskInv' /\ Turn' = Turn
  <2>1. /\ Sound(tasks, drainedIn) /\ epoch + 1 \in Nat
        /\ phase = "turn" => tasks # <<>> /\ Head(tasks).do = "send"
    BY DEF DeliveryInv, TaskInv
  <2>2. Sound(tasks, drainedIn)'
    BY <1>1, <1>2, <2>1
  <2>3. (phase = "turn" => tasks # <<>> /\ Head(tasks).do = "send")' /\ Turn' = Turn
    BY <1>1, <1>2, <2>1 DEF Turn
  <2>4. QED
    BY <1>1, <2>1, <2>2, <2>3 DEF DeliveryInv, TaskInv
<1>5. AccountInv'
  <2>1. Prompt' = {} /\ discarded' = discarded \union Prompt
    BY <1>1 DEF Prompt
  <2>2. /\ Range(items)' = Range(items) /\ Range(recoveries)' = Range(recoveries)
        /\ Msgs(tasks)' = Msgs(tasks')
    BY <1>1
  <2>3. QED
    BY <1>1, <1>2, <1>4, <2>1, <2>2 DEF DeliveryInv, AccountInv, Accounts
<1>6. QED
  BY <1>3, <1>4, <1>5 DEF DeliveryInv

LEMMA ClearsSessionKeeps ==
  ASSUME DeliveryInv, ClearsSession
  PROVE  DeliveryInv'
<1> DEFINE ts == Append(tasks, Task("rotate", NoMessage, epoch))
<1>1. /\ tasks' = ts /\ composer = NoMessage
      /\ UNCHANGED <<kindOf, composer, phase, directs, live, drainedIn, reached>>
      /\ epoch' = epoch + 1 /\ items' = <<>> /\ underway' = {} /\ recoveries' = <<>>
      /\ discarded' = discarded \union Range(items) \union underway \union Range(recoveries)
  BY DEF ClearsSession, agentVars
<1>2. /\ \A drained : Sound(tasks, drained) => Sound(ts, drained)
      /\ Msgs(ts) = Msgs(tasks) /\ (tasks # <<>> => ts # <<>> /\ Head(ts) = Head(tasks))
  BY Behind
<1> HIDE DEF ts
<1>3. <<>> \in Seq(Message) /\ IsInjective(<<>>) /\ Range(<<>>) = {}
  BY DEF IsInjective, Range
<1>4. KindsInv' /\ QueueInv'
  BY <1>1, <1>3 DEF DeliveryInv, KindsInv, Typed, QueueInv
<1>5. TaskInv' /\ Turn' = Turn
  <2>1. /\ Sound(tasks, drainedIn) /\ epoch + 1 \in Nat
        /\ phase = "turn" => tasks # <<>> /\ Head(tasks).do = "send"
    BY DEF DeliveryInv, TaskInv
  <2>2. Sound(tasks, drainedIn)'
    BY <1>1, <1>2, <2>1
  <2>3. (phase = "turn" => tasks # <<>> /\ Head(tasks).do = "send")' /\ Turn' = Turn
    BY <1>1, <1>2, <2>1 DEF Turn
  <2>4. QED
    BY <1>1, <2>1, <2>2, <2>3 DEF DeliveryInv, TaskInv
<1>6. AccountInv'
  <2>1. Prompt' = {} /\ Prompt = {}
    BY <1>1 DEF Prompt
  <2>2. /\ Range(items)' = {} /\ Range(recoveries)' = {} /\ Msgs(tasks)' = Msgs(tasks')
    BY <1>1, <1>3
  <2>3. QED
    BY <1>1, <1>2, <1>5, <2>1, <2>2 DEF DeliveryInv, AccountInv, Accounts
<1>7. QED
  BY <1>4, <1>5, <1>6 DEF DeliveryInv

LEMMA ReloadKeeps ==
  ASSUME DeliveryInv, Reload
  PROVE  DeliveryInv'
<1> DEFINE ts == Append(tasks, Task("reload", NoMessage, epoch))
<1>1. /\ tasks' = ts
      /\ UNCHANGED <<kindOf, queueVars, promptVars, reached, epoch, phase, directs, live>>
  BY DEF Reload, agentVars
<1>2. /\ \A drained : Sound(tasks, drained) => Sound(ts, drained)
      /\ Msgs(ts) = Msgs(tasks) /\ ts # <<>> /\ (tasks # <<>> => Head(ts) = Head(tasks))
  BY Behind
<1> HIDE DEF ts
<1>3. KindsInv'
  BY <1>1 DEF DeliveryInv, KindsInv, Typed
<1>4. /\ epoch' \in Nat /\ live' \in [no : Nat, open : BOOLEAN] /\ Turn' = Turn
      /\ (phase = "turn")' => tasks' # <<>> /\ Head(tasks').do = "send"
  BY <1>1, <1>2 DEF DeliveryInv, TaskInv, Turn
<1>5. Msgs(tasks') = Msgs(tasks) /\ (Sound(tasks, drainedIn) => Sound(tasks', drainedIn))
  BY <1>1, <1>2
<1>6. QED
  BY <1>1, <1>3, <1>4, <1>5, Undisturbed DEF DeliveryInv

-----------------------------------------------------------------------------
(* The turns *)

LEMMA InfersKeeps ==
  ASSUME DeliveryInv, Infers
  PROVE  DeliveryInv'
<1>1. UNCHANGED <<kindOf, queueVars, promptVars, reached, epoch, phase, directs, live, tasks>>
  BY DEF Infers
<1>2. KindsInv'
  BY <1>1 DEF DeliveryInv, KindsInv, Typed
<1>3. /\ epoch' \in Nat /\ live' \in [no : Nat, open : BOOLEAN] /\ Turn' = Turn
      /\ (phase = "turn")' => tasks' # <<>> /\ Head(tasks').do = "send"
  BY <1>1 DEF DeliveryInv, TaskInv, Turn
<1>4. Msgs(tasks') = Msgs(tasks) /\ (Sound(tasks, drainedIn) => Sound(tasks', drainedIn))
  BY <1>1
<1>5. QED
  BY <1>1, <1>2, <1>3, <1>4, Undisturbed DEF DeliveryInv

LEMMA ToolBoundaryKeeps ==
  ASSUME DeliveryInv, ToolBoundary
  PROVE  DeliveryInv'
<1>1. PICK steers \in {<<>>, Kinds(items, "steer")} :
        /\ Drains(steers, "steer", epoch) /\ tasks' = tasks \o HopsOf(steers, "steer", epoch)
  BY DEF ToolBoundary
<1>2. UNCHANGED <<kindOf, composer, recoveries, discarded, epoch, phase, directs, live, reached>>
  BY DEF ToolBoundary, promptVars, agentVars
<1>3. steers \in Seq(Message) /\ IsInjective(steers) /\ Range(steers) \subseteq Range(items)
  BY OrderKeeps
<1>4. epoch \in Nat /\ epoch' \in Nat
  BY <1>2 DEF DeliveryInv, TaskInv
<1>5. Prompt \ Prompt' = {}
  BY <1>2 DEF Prompt
<1>6. QED
  BY <1>1, <1>2, <1>3, <1>4, <1>5, DrainedBehind

LEMMA TurnEndsKeeps ==
  ASSUME DeliveryInv, TurnEnds
  PROVE  DeliveryInv'
<1>1. PICK drained \in {<<>>, DrainOrder} :
        /\ Drains(drained, "send", epoch) /\ tasks' = tasks \o HopsOf(drained, "send", epoch)
  BY DEF TurnEnds
<1>2. UNCHANGED <<kindOf, composer, recoveries, discarded, epoch, phase, directs, live, reached>>
  BY DEF TurnEnds, promptVars
<1>3. drained \in Seq(Message) /\ IsInjective(drained) /\ Range(drained) \subseteq Range(items)
  BY OrderKeeps
<1>4. epoch \in Nat /\ epoch' \in Nat
  BY <1>2 DEF DeliveryInv, TaskInv
<1>5. Prompt \ Prompt' = {}
  BY <1>2 DEF Prompt
<1>6. QED
  BY <1>1, <1>2, <1>3, <1>4, <1>5, DrainedBehind

-----------------------------------------------------------------------------
(* The session operations *)

\* The head ends: its message is no longer carried, and it holds no turn.
LEMMA HeadEnds ==
  ASSUME DeliveryInv, tasks # <<>>, TaskEnds(<<>>), UNCHANGED kindOf
  PROVE  /\ KindsInv' /\ Turn' = {} /\ phase' = "start"
         /\ Sound(tasks', drainedIn) /\ Msgs(tasks') = Msgs(tasks) \ {Head(tasks).msg}
<1>1. /\ tasks' = Tail(tasks) \o <<>> /\ phase' = "start"
      /\ directs' = {[d EXCEPT !.ahead = IF @ > 0 THEN @ - 1 ELSE 0] : d \in directs}
  BY DEF TaskEnds
<1>2. Sound(tasks, drainedIn) /\ Tail(tasks) \in Seq(Operation)
  BY DEF DeliveryInv, TaskInv, Sound
<1>3. tasks' = Tail(tasks)
  BY <1>1, <1>2
<1>4. Sound(tasks', drainedIn) /\ Msgs(tasks') = Msgs(tasks) \ {Head(tasks).msg}
  BY <1>2, <1>3, SoundTail
<1>5. Turn' = {}
  BY <1>1 DEF Turn
<1>6. KindsInv'
  <2>1. \A d \in directs : /\ d \in Direct /\ d.msg \in Typed /\ kindOf[d.msg] = "immediate"
                           /\ d.ahead \in Nat
    BY DEF DeliveryInv, KindsInv, Direct
  <2>2. \A d \in directs :
          LET e == [d EXCEPT !.ahead = IF @ > 0 THEN @ - 1 ELSE 0] IN e \in Direct /\ e.msg = d.msg
    BY <2>1 DEF Direct
  <2>3. ASSUME NEW e \in directs'
        PROVE  e \in Direct /\ e.msg \in Typed /\ kindOf[e.msg] = "immediate"
    <3>1. PICK d \in directs : e = [d EXCEPT !.ahead = IF @ > 0 THEN @ - 1 ELSE 0]
      BY <1>1
    <3>2. QED
      BY <2>1, <2>2, <3>1
  <2>4. QED
    BY <2>3 DEF DeliveryInv, KindsInv, Typed
<1>7. QED
  BY <1>1, <1>4, <1>5, <1>6

\* What the head carries.
LEMMA HeadCarries ==
  ASSUME DeliveryInv, tasks # <<>>
  PROVE  /\ Head(tasks).do \in Hops =>
              /\ Head(tasks).msg \in Msgs(tasks) /\ Head(tasks).msg \in Message
              /\ Head(tasks).msg \in Follow(kindOf) /\ drainedIn[Head(tasks).msg] = Head(tasks).epoch
         /\ Head(tasks).do \notin Hops => Head(tasks).msg = NoMessage
         /\ NoMessage \notin Msgs(tasks)
<1>1. Sound(tasks, drainedIn) /\ Msgs(tasks) \subseteq Follow(kindOf)
  BY DEF DeliveryInv, TaskInv, AccountInv, Accounts
<1>2. QED
  BY <1>1, SoundTail DEF Msgs

\* A message that was not delivered goes back to the prompt, or waits for it.
LEMMA HandedBack ==
  ASSUME DeliveryInv, tasks # <<>>, phase # "turn", Head(tasks).do \in Hops,
         TaskEnds(<<>>), NotDelivered(Head(tasks).msg),
         UNCHANGED <<kindOf, items, drainedIn, discarded, epoch, live, reached>>
  PROVE  DeliveryInv'
<1> DEFINE m == Head(tasks).msg
<1>1. /\ KindsInv' /\ Turn' = {} /\ phase' = "start"
      /\ Sound(tasks', drainedIn) /\ Msgs(tasks') = Msgs(tasks) \ {m}
  BY HeadEnds
<1>2. m \in Msgs(tasks) /\ m \in Message /\ m # NoMessage
  BY HeadCarries
<1>3. Turn = {}
  BY DEF Turn
<1>4. /\ underway' = underway \ {m}
      /\ \/ m \notin underway /\ UNCHANGED <<composer, recoveries>>
         \/ m \in underway /\ composer = NoMessage /\ composer' = m /\ UNCHANGED recoveries
         \/ m \in underway /\ recoveries' = Append(recoveries, m) /\ UNCHANGED composer
  BY DEF NotDelivered
<1> HIDE DEF m
<1>5. recoveries \in Seq(Message) /\ IsInjective(recoveries) /\ m \notin Range(recoveries)
  BY <1>2 DEF DeliveryInv, QueueInv, AccountInv, Accounts
<1>6. /\ Append(recoveries, m) \in Seq(Message) /\ IsInjective(Append(recoveries, m))
      /\ Range(Append(recoveries, m)) = Range(recoveries) \union {m}
  BY <1>2, <1>5, QueueAppend
<1>7. m \in 0 .. MaxTyped
  BY <1>2, BoundsAssumption DEF Message
<1>8. QueueInv'
  BY <1>4, <1>5, <1>6, <1>7 DEF DeliveryInv, QueueInv
<1>9. TaskInv'
  BY <1>1 DEF DeliveryInv, TaskInv
<1>10. AccountInv'
  <2>1. /\ Range(items)' = Range(items) /\ Msgs(tasks)' = Msgs(tasks')
        /\ Range(recoveries)' = Range(recoveries')
        /\ kindOf' = kindOf /\ reached' = reached /\ discarded' = discarded
    OBVIOUS
  <2>2. CASE m \notin underway
    <3>1. Prompt' = Prompt /\ Range(recoveries') = Range(recoveries)
      BY <1>4, <2>2 DEF Prompt
    <3>2. QED
      BY <1>1, <1>2, <1>3, <1>4, <2>1, <2>2, <3>1 DEF DeliveryInv, AccountInv, Accounts
  <2>3. CASE m \in underway /\ composer = NoMessage /\ composer' = m /\ UNCHANGED recoveries
    <3>1. Prompt = {} /\ Prompt' = {m}
      BY <1>2, <2>3 DEF Prompt
    <3>2. QED
      BY <1>1, <1>2, <1>3, <1>4, <2>1, <2>3, <3>1 DEF DeliveryInv, AccountInv, Accounts
  <2>4. CASE m \in underway /\ recoveries' = Append(recoveries, m) /\ UNCHANGED composer
    <3>1. Prompt = Prompt' /\ Range(recoveries') = Range(recoveries) \union {m}
      BY <1>6, <2>4 DEF Prompt
    <3>2. QED
      BY <1>1, <1>2, <1>3, <1>4, <2>1, <2>4, <3>1 DEF DeliveryInv, AccountInv, Accounts
  <2>5. QED
    BY <1>4, <2>2, <2>3, <2>4
<1>11. QED
  BY <1>1, <1>8, <1>9, <1>10 DEF DeliveryInv

\* A message that an agent has taken is carried no longer.
LEMMA Settled ==
  ASSUME DeliveryInv, tasks # <<>>, Head(tasks).do \in Hops,
         TaskEnds(<<>>), Accepted(Head(tasks).msg), reached' = reached \union {Head(tasks).msg},
         UNCHANGED <<kindOf, items, drainedIn, discarded, epoch, live>>
  PROVE  DeliveryInv'
<1> DEFINE m == Head(tasks).msg
<1>1. /\ KindsInv' /\ Turn' = {} /\ phase' = "start"
      /\ Sound(tasks', drainedIn) /\ Msgs(tasks') = Msgs(tasks) \ {m}
  BY HeadEnds
<1>2. m \in Msgs(tasks) /\ m \in Follow(kindOf) /\ Turn \subseteq {m}
  BY HeadCarries DEF Turn
<1>3. underway' = underway \ {m} /\ UNCHANGED <<composer, recoveries>> /\ reached' = reached \union {m}
  BY DEF Accepted
<1> HIDE DEF m
<1>4. QueueInv' /\ Prompt' = Prompt
  BY <1>3 DEF DeliveryInv, QueueInv, Prompt
<1>5. TaskInv'
  BY <1>1 DEF DeliveryInv, TaskInv
<1>6. AccountInv'
  <2>1. /\ Range(items)' = Range(items) /\ Msgs(tasks)' = Msgs(tasks')
        /\ Range(recoveries)' = Range(recoveries)
        /\ kindOf' = kindOf /\ discarded' = discarded
    BY <1>3
  <2>2. m \in DOMAIN kindOf
    BY <1>2 DEF Follow
  <2>3. QED
    BY <1>1, <1>2, <1>3, <1>4, <2>1, <2>2 DEF DeliveryInv, AccountInv, Accounts
<1>7. QED
  BY <1>1, <1>4, <1>5, <1>6 DEF DeliveryInv

\* The head goes on, and the agent may have taken its message.
LEMMA HeadGoesOn ==
  ASSUME DeliveryInv, tasks # <<>>, phase # "turn", UNCHANGED tasks,
         UNCHANGED <<kindOf, directs, queueVars, promptVars, epoch>>,
         live' \in [no : Nat, open : BOOLEAN],
         \/ phase' # "turn" /\ reached' = reached
         \/ /\ phase' = "turn" /\ Head(tasks).do = "send"
            /\ reached' = reached \union {Head(tasks).msg}
  PROVE  DeliveryInv'
<1>1. KindsInv' /\ QueueInv' /\ TaskInv' /\ Prompt' = Prompt
  BY DEF DeliveryInv, KindsInv, QueueInv, TaskInv, Prompt, queueVars, promptVars, Typed
<1>2. /\ Range(items)' = Range(items) /\ Range(recoveries)' = Range(recoveries)
      /\ Msgs(tasks)' = Msgs(tasks) /\ underway' = underway /\ discarded' = discarded /\ kindOf' = kindOf
  BY DEF queueVars, promptVars
<1>3. Turn = {}
  BY DEF Turn
<1>4. CASE phase' # "turn" /\ reached' = reached
  <2>1. Turn' = {}
    BY <1>4 DEF Turn
  <2>2. QED
    BY <1>1, <1>2, <1>3, <1>4, <2>1 DEF DeliveryInv, AccountInv, Accounts
<1>5. CASE /\ phase' = "turn" /\ Head(tasks).do = "send" /\ reached' = reached \union {Head(tasks).msg}
  <2>1. Turn' = {Head(tasks).msg}
    BY <1>5 DEF Turn
  <2>2. Head(tasks).msg \in Msgs(tasks) /\ Head(tasks).msg \in DOMAIN kindOf
    BY <1>5, HeadCarries DEF Hops, Follow
  <2>3. AccountInv'
    BY <1>1, <1>2, <1>3, <1>5, <2>1, <2>2 DEF DeliveryInv, AccountInv, Accounts
  <2>4. QED
    BY <1>1, <2>3 DEF DeliveryInv
<1>6. QED
  BY <1>4, <1>5

LEMMA HopStartsKeeps ==
  ASSUME DeliveryInv, HopStarts
  PROVE  DeliveryInv'
<1>1. /\ tasks # <<>> /\ phase = "start" /\ Head(tasks).do \in Hops
      /\ UNCHANGED <<kindOf, items, drainedIn, discarded, epoch, live, reached>>
  BY DEF HopStarts, Runs, HopFrame, Hops
<1>2. CASE Current
  <2>1. phase' # "turn" /\ UNCHANGED <<tasks, directs, queueVars, promptVars>>
    BY <1>1, <1>2 DEF HopStarts, Advances, queueVars, promptVars
  <2>2. live' \in [no : Nat, open : BOOLEAN]
    BY <1>1 DEF DeliveryInv, TaskInv
  <2>3. QED
    BY <1>1, <2>1, <2>2, HeadGoesOn
<1>3. CASE ~Current
  <2>1. TaskEnds(<<>>) /\ NotDelivered(Head(tasks).msg)
    BY <1>3 DEF HopStarts
  <2>2. QED
    BY <1>1, <2>1, HandedBack
<1>4. QED
  BY <1>2, <1>3

LEMMA HopIngestsKeeps ==
  ASSUME DeliveryInv, NEW ok \in BOOLEAN, HopIngests(ok)
  PROVE  DeliveryInv'
<1> DEFINE m == Head(tasks).msg
<1>1. /\ tasks # <<>> /\ phase = "ingest" /\ Head(tasks).do \in Hops
      /\ UNCHANGED <<kindOf, items, drainedIn, discarded, epoch, live>>
  BY DEF HopIngests, HopBody, Runs, HopFrame, Hops
<1>2. \/ TaskEnds(<<>>) /\ NotDelivered(m) /\ UNCHANGED reached
      \/ /\ Current /\ TaskEnds(<<Task("deliver", m, epoch)>>)
         /\ UNCHANGED <<underway, composer, recoveries, reached>>
      \/ /\ Head(tasks).do = "send" /\ phase' = "turn" /\ UNCHANGED tasks
         /\ reached' = reached \union {m} /\ UNCHANGED <<directs, underway, composer, recoveries>>
  BY DEF HopIngests, HopBody, Advances
<1>3. CASE TaskEnds(<<>>) /\ NotDelivered(m) /\ UNCHANGED reached
  BY <1>1, <1>3, HandedBack
<1>4. CASE /\ Head(tasks).do = "send" /\ phase' = "turn" /\ UNCHANGED tasks
           /\ reached' = reached \union {m} /\ UNCHANGED <<directs, underway, composer, recoveries>>
  <2>1. live' \in [no : Nat, open : BOOLEAN]
    BY <1>1 DEF DeliveryInv, TaskInv
  <2>2. UNCHANGED <<queueVars, promptVars>>
    BY <1>1, <1>4 DEF queueVars, promptVars
  <2>3. QED
    BY <1>1, <1>4, <2>1, <2>2, HeadGoesOn
<1>5. CASE /\ Current /\ TaskEnds(<<Task("deliver", m, epoch)>>)
           /\ UNCHANGED <<underway, composer, recoveries, reached>>
  <2> DEFINE t == Task("deliver", m, epoch)
             rest == Tail(tasks)
  <2>1. m \in Msgs(tasks) /\ m \in Message /\ m # NoMessage /\ drainedIn[m] = epoch
    BY <1>1, <1>5, HeadCarries DEF Current
  <2>2. t \in Operation /\ t.do = "deliver" /\ t.msg = m /\ t.epoch = epoch
    BY <2>1, BoundsAssumption DEF DeliveryInv, TaskInv, Task, Operation, Hops, Message
  <2>3. Sound(rest, drainedIn) /\ Msgs(rest) = Msgs(tasks) \ {m}
    BY <1>1, SoundTail DEF DeliveryInv, TaskInv
  <2>4. /\ tasks' = rest \o <<t>> /\ phase' = "start"
        /\ directs' = {[d EXCEPT !.ahead = IF @ > 0 THEN @ - 1 ELSE 0] : d \in directs}
    BY <1>5 DEF TaskEnds
  <2>5. tasks' = Append(rest, t)
    BY <2>2, <2>3, <2>4 DEF Sound
  <2> HIDE DEF t, rest, m
  <2>6. Sound(Append(rest, t), drainedIn) /\ Msgs(Append(rest, t)) = Msgs(rest) \union ({t.msg} \ {NoMessage})
    BY <2>1, <2>2, <2>3, SoundAppend DEF Hops
  <2>7. Sound(tasks', drainedIn) /\ Msgs(tasks') = Msgs(tasks)
    BY <2>1, <2>2, <2>3, <2>5, <2>6
  <2>8. KindsInv'
    <3>1. \A d \in directs : /\ d \in Direct /\ d.msg \in Typed /\ kindOf[d.msg] = "immediate"
                             /\ d.ahead \in Nat
      BY DEF DeliveryInv, KindsInv, Direct
    <3>2. ASSUME NEW e \in directs'
          PROVE  e \in Direct /\ e.msg \in Typed /\ kindOf[e.msg] = "immediate"
      <4>1. PICK d \in directs : e = [d EXCEPT !.ahead = IF @ > 0 THEN @ - 1 ELSE 0]
        BY <2>4
      <4>2. QED
        BY <3>1, <4>1 DEF Direct
    <3>3. QED
      BY <1>1, <3>2 DEF DeliveryInv, KindsInv, Typed
  <2>9. /\ epoch' \in Nat /\ live' \in [no : Nat, open : BOOLEAN] /\ Turn' = Turn /\ phase' # "turn"
    BY <1>1, <2>4 DEF DeliveryInv, TaskInv, Turn
  <2>10. UNCHANGED <<kindOf, queueVars, promptVars, reached>>
    BY <1>1, <1>5 DEF queueVars, promptVars
  <2>11. QED
    BY <2>7, <2>8, <2>9, <2>10, Undisturbed DEF DeliveryInv
<1>6. QED
  BY <1>2, <1>3, <1>4, <1>5

LEMMA HopEndsKeeps ==
  ASSUME DeliveryInv, HopEnds
  PROVE  DeliveryInv'
<1>1. /\ tasks # <<>> /\ phase = "turn" /\ Head(tasks).do \in Hops
      /\ TaskEnds(<<>>) /\ Accepted(Head(tasks).msg)
      /\ UNCHANGED <<kindOf, items, drainedIn, discarded, epoch, live, reached>>
  BY DEF HopEnds, Runs, HopFrame, Hops
<1>2. Head(tasks).msg \in reached
  BY <1>1 DEF DeliveryInv, AccountInv, Accounts, Turn
<1>3. reached' = reached \union {Head(tasks).msg}
  BY <1>1, <1>2
<1>4. QED
  BY <1>1, <1>3, Settled

LEMMA SteerDeliversKeeps ==
  ASSUME DeliveryInv, SteerDelivers
  PROVE  DeliveryInv'
<1>1. /\ tasks # <<>> /\ phase # "turn" /\ Head(tasks).do \in Hops /\ TaskEnds(<<>>)
      /\ UNCHANGED <<kindOf, items, drainedIn, discarded, epoch, live>>
      /\ \/ Accepted(Head(tasks).msg) /\ reached' = reached \union {Head(tasks).msg}
         \/ NotDelivered(Head(tasks).msg) /\ UNCHANGED reached
  BY DEF SteerDelivers, Runs, HopFrame, Hops
<1>2. QED
  BY <1>1, Settled, HandedBack

\* An operation without a message leaves every message where it is.
LEMMA OperationEnds ==
  ASSUME DeliveryInv, tasks # <<>>, phase # "turn", Head(tasks).do \notin Hops, TaskEnds(<<>>),
         UNCHANGED <<kindOf, queueVars, promptVars, epoch, reached>>, live' \in [no : Nat, open : BOOLEAN]
  PROVE  DeliveryInv'
<1>1. /\ KindsInv' /\ Turn' = {} /\ phase' = "start"
      /\ Sound(tasks', drainedIn) /\ Msgs(tasks') = Msgs(tasks) \ {Head(tasks).msg}
  BY HeadEnds
<1>2. Head(tasks).msg = NoMessage /\ NoMessage \notin Msgs(tasks)
  BY HeadCarries
<1>3. Msgs(tasks') = Msgs(tasks) /\ Turn' = Turn
  BY <1>1, <1>2 DEF Turn
<1>4. epoch' \in Nat
  BY DEF DeliveryInv, TaskInv
<1>5. (phase = "turn")' => tasks' # <<>> /\ Head(tasks').do = "send"
  BY <1>1
<1>6. QED
  BY <1>1, <1>3, <1>4, <1>5, Undisturbed DEF DeliveryInv

LEMMA ClosesKeeps ==
  ASSUME DeliveryInv, Closes
  PROVE  DeliveryInv'
<1>1. /\ tasks # <<>> /\ phase # "turn" /\ Head(tasks).do \notin Hops
      /\ UNCHANGED <<kindOf, queueVars, promptVars, epoch, reached>>
  BY DEF Closes, Runs, Hops
<1>2. live' \in [no : Nat, open : BOOLEAN]
  BY DEF Closes, DeliveryInv, TaskInv
<1>3. TaskEnds(<<>>) \/ (Advances("build") /\ UNCHANGED directs)
  BY DEF Closes
<1>4. CASE TaskEnds(<<>>)
  BY <1>1, <1>2, <1>4, OperationEnds
<1>5. CASE Advances("build") /\ UNCHANGED directs
  <2>1. phase' # "turn" /\ UNCHANGED tasks
    BY <1>5 DEF Advances
  <2>2. QED
    BY <1>1, <1>2, <1>5, <2>1, HeadGoesOn
<1>6. QED
  BY <1>3, <1>4, <1>5

LEMMA RebuildsKeeps ==
  ASSUME DeliveryInv, NEW ok \in BOOLEAN, Rebuilds(ok)
  PROVE  DeliveryInv'
<1>1. /\ tasks # <<>> /\ phase # "turn" /\ Head(tasks).do \notin Hops /\ TaskEnds(<<>>)
      /\ UNCHANGED <<kindOf, queueVars, promptVars, epoch, reached>>
      /\ live' = IF ok THEN [no |-> live.no + 1, open |-> TRUE] ELSE live
  BY DEF Rebuilds, Runs, Hops
<1>2. live' \in [no : Nat, open : BOOLEAN]
  BY <1>1 DEF DeliveryInv, TaskInv
<1>3. QED
  BY <1>1, <1>2, OperationEnds

-----------------------------------------------------------------------------
(* The immediate sends *)

\* One send leaves, or goes on as e; an agent takes at most its message.
LEMMA DirectKeeps ==
  ASSUME DeliveryInv, NEW d \in directs,
         UNCHANGED <<kindOf, queueVars, promptVars, epoch, tasks, phase, live>>,
         \A e \in directs' : e \in directs \/ (e \in Direct /\ e.msg = d.msg),
         reached' = reached \/ reached' = reached \union {d.msg}
  PROVE  DeliveryInv'
<1>1. /\ directs \subseteq Direct /\ d.msg \in Typed /\ kindOf[d.msg] = "immediate"
      /\ \A e \in directs : e.msg \in Typed /\ kindOf[e.msg] = "immediate"
  BY DEF DeliveryInv, KindsInv
<1>2. KindsInv'
  <2>1. \A e \in directs' : e \in Direct /\ e.msg \in Typed /\ kindOf[e.msg] = "immediate"
    BY <1>1
  <2>2. QED
    BY <2>1 DEF DeliveryInv, KindsInv, Typed
<1>3. QueueInv' /\ TaskInv' /\ Prompt' = Prompt /\ Turn' = Turn /\ Msgs(tasks)' = Msgs(tasks)
  BY DEF DeliveryInv, QueueInv, TaskInv, Prompt, Turn, queueVars, promptVars
<1>4. d.msg \notin Follow(kindOf) /\ d.msg \in DOMAIN kindOf
  BY <1>1 DEF Follow, Typed
<1>5. AccountInv'
  <2>1. /\ Range(items)' = Range(items) /\ Range(recoveries)' = Range(recoveries)
        /\ underway' = underway /\ discarded' = discarded /\ kindOf' = kindOf
    BY DEF queueVars, promptVars
  <2>2. QED
    BY <1>3, <1>4, <2>1 DEF DeliveryInv, AccountInv, Accounts
<1>6. QED
  BY <1>2, <1>3, <1>5 DEF DeliveryInv

LEMMA DirectsKeep ==
  ASSUME DeliveryInv, NEW d \in directs, NEW ok \in BOOLEAN,
         DirectIngests(d, ok) \/ DirectWaited(d) \/ DirectSends(d, ok)
  PROVE  DeliveryInv'
<1>1. UNCHANGED <<kindOf, queueVars, promptVars, epoch, tasks, phase, live>>
  BY DEF DirectIngests, DirectWaited, DirectSends, DirectFrame
<1>2. d \in Direct /\ Len(tasks) \in Nat
  BY DEF DeliveryInv, KindsInv, TaskInv, Sound
<1> DEFINE next == {[d EXCEPT !.pc = "tail", !.ahead = Len(tasks)], [d EXCEPT !.pc = "refresh"]}
<1>3. \A e \in next : e \in Direct /\ e.msg = d.msg
  BY <1>2 DEF Direct
<1>4. Leaves(d) \/ \E e \in next : Moves(d, e)
  BY DEF DirectIngests, DirectWaited, DirectSends, SendFails, Rotated
<1> HIDE DEF next
<1>5. \A e \in directs' : e \in directs \/ (e \in Direct /\ e.msg = d.msg)
  BY <1>3, <1>4 DEF Leaves, Moves
<1>6. reached' = reached \/ reached' = reached \union {d.msg}
  BY DEF DirectIngests, DirectWaited, DirectSends, SendFails, Rotated
<1>7. QED
  BY <1>1, <1>5, <1>6, DirectKeeps

-----------------------------------------------------------------------------
(* The theorems *)

\* Whatever is typed, stopped, reloaded, cleared, taken or handed back, each follow-up
\* and steer is kept in one place, and the operations that carry them are dated.
THEOREM DeliveryInvariant == DeliverySpec => []DeliveryInv
<1>1. DeliveryInit => DeliveryInv
  BY DeliveryStarts
<1>2. DeliveryInv /\ [DeliveryNext]_deliveryVars => DeliveryInv'
  <2> SUFFICES ASSUME DeliveryInv, [DeliveryNext]_deliveryVars
               PROVE  DeliveryInv'
    OBVIOUS
  <2>1. CASE UNCHANGED deliveryVars
    <3>1. UNCHANGED <<kindOf, directs, queueVars, promptVars, epoch, tasks, phase, live, reached>>
      BY <2>1 DEF deliveryVars, agentVars
    <3>2. KindsInv' /\ QueueInv' /\ TaskInv'
      BY <3>1 DEF DeliveryInv, KindsInv, QueueInv, TaskInv, Typed, queueVars, promptVars
    <3>3. AccountInv'
      BY <3>1 DEF DeliveryInv, AccountInv, Prompt, Turn, queueVars, promptVars
    <3>4. QED
      BY <3>2, <3>3 DEF DeliveryInv
  <2>2. ASSUME NEW kind \in Kind, Submit(kind)
        PROVE  DeliveryInv'
    BY <2>2, SubmitKeeps
  <2>3. ASSUME NEW draft \in BOOLEAN, CancelLast(draft)
        PROVE  DeliveryInv'
    BY <2>3, CancelLastKeeps
  <2>4. ASSUME NEW m \in Typed, ForceDeliver(m)
        PROVE  DeliveryInv'
    BY <2>4, ForceDeliverKeeps
  <2>5. CASE CtrlC \/ WatchdogAborts \/ ClearsSession \/ Reload
    BY <2>5, CtrlCKeeps, WatchdogAbortsKeeps, ClearsSessionKeeps, ReloadKeeps
  <2>6. CASE Infers \/ ToolBoundary \/ TurnEnds
    BY <2>6, InfersKeeps, ToolBoundaryKeeps, TurnEndsKeeps
  <2>7. CASE HopStarts \/ HopEnds \/ SteerDelivers \/ Closes
    BY <2>7, HopStartsKeeps, HopEndsKeeps, SteerDeliversKeeps, ClosesKeeps
  <2>8. ASSUME NEW ok \in BOOLEAN, HopIngests(ok) \/ Rebuilds(ok)
        PROVE  DeliveryInv'
    BY <2>8, HopIngestsKeeps, RebuildsKeeps
  <2>9. ASSUME NEW d \in directs, NEW ok \in BOOLEAN,
               DirectIngests(d, ok) \/ DirectWaited(d) \/ DirectSends(d, ok)
        PROVE  DeliveryInv'
    BY <2>9, DirectsKeep
  <2>10. QED
    BY <2>1, <2>2, <2>3, <2>4, <2>5, <2>6, <2>7, <2>8, <2>9 DEF DeliveryNext, TaskStep, Kind
<1>3. QED
  BY <1>1, <1>2, PTL DEF DeliverySpec

\* Nothing that was typed behind a turn is lost, doubled or offered again after an agent
\* has taken it, and whatever is on its way has an operation that settles it.
THEOREM NothingTypedIsLost == DeliverySpec => []QueuedInOnePlace
<1>1. DeliveryInv => QueuedInOnePlace
  <2> SUFFICES ASSUME DeliveryInv
               PROVE  QueuedInOnePlace
    OBVIOUS
  <2>1. AccountInv /\ Sound(tasks, drainedIn)
    BY DEF DeliveryInv, TaskInv
  <2>2. \A m \in underway : \E i \in DOMAIN tasks : tasks[i].msg = m
    BY <2>1 DEF AccountInv, Accounts, Msgs
  <2>3. ASSUME NEW m
        PROVE  /\ "items" \in Places(m) <=> m \in Range(items)
               /\ "underway" \in Places(m) <=> m \in underway
               /\ "prompt" \in Places(m) <=> m = composer
               /\ "recoveries" \in Places(m) <=> m \in Range(recoveries)
               /\ Places(m) \subseteq {"items", "underway", "prompt", "recoveries"}
    BY DEF Places
  <2>4. ASSUME NEW m \in Typed, kindOf[m] # "immediate"
        PROVE  /\ m \in Follow(kindOf) /\ (m = composer => m \in Prompt)
               /\ m \in Prompt => m = composer
    <3>1. m # NoMessage
      BY DEF DeliveryInv, KindsInv, Typed, NoMessage
    <3>2. QED
      BY <2>4, <3>1 DEF Follow, Prompt, Typed
  <2>5. ASSUME NEW m \in Typed, kindOf[m] # "immediate", m \in reached
        PROVE  Places(m) \subseteq {"underway"}
    BY <2>1, <2>3, <2>4, <2>5 DEF AccountInv, Accounts
  <2>6. ASSUME NEW m \in Typed, kindOf[m] # "immediate", m \notin reached, m \notin discarded
        PROVE  \E p \in Places(m) : Places(m) = {p}
    <3>1. m \in Range(items) \/ m \in Range(recoveries) \/ m = composer \/ m \in underway
      BY <2>1, <2>4, <2>6 DEF AccountInv, Accounts
    <3>2. /\ m \in Range(items) => m \notin Range(recoveries) /\ m # composer /\ m \notin underway
          /\ m \in Range(recoveries) => m # composer /\ m \notin underway
          /\ m = composer => m \notin underway
      BY <2>1, <2>4, <2>6 DEF AccountInv, Accounts
    <3>3. CASE m \in Range(items)
      <4>1. Places(m) = {"items"}
        BY <2>3, <3>2, <3>3
      <4>2. QED
        BY <4>1
    <3>4. CASE m \in Range(recoveries)
      <4>1. Places(m) = {"recoveries"}
        BY <2>3, <3>2, <3>4
      <4>2. QED
        BY <4>1
    <3>5. CASE m = composer
      <4>1. Places(m) = {"prompt"}
        BY <2>3, <3>2, <3>5
      <4>2. QED
        BY <4>1
    <3>6. CASE m \in underway
      <4>1. Places(m) = {"underway"}
        BY <2>3, <3>2, <3>6
      <4>2. QED
        BY <4>1
    <3>7. QED
      BY <3>1, <3>3, <3>4, <3>5, <3>6
  <2>7. QED
    BY <2>2, <2>5, <2>6 DEF QueuedInOnePlace
<1>2. QED
  BY <1>1, DeliveryInvariant, PTL

\* An interrupt or a rotation that comes before the agent has taken a message, at any
\* point of its way and however many operations it waits behind, keeps it from any agent.
THEOREM NothingStaleIsTaken == DeliverySpec => StaleNeverDelivered
<1> DEFINE Timely ==
      \A m \in reached' \ reached :
        IF kindOf[m] = "immediate" THEN \E d \in directs : d.msg = m /\ d.epoch = epoch
        ELSE drainedIn[m] = epoch
<1>1. DeliveryInv /\ [DeliveryNext]_deliveryVars => [Timely]_deliveryVars
  <2> SUFFICES ASSUME DeliveryInv, [DeliveryNext]_deliveryVars
               PROVE  Timely \/ UNCHANGED deliveryVars
    OBVIOUS
  <2>1. CASE reached' = reached
    BY <2>1
  <2>2. ASSUME Current, tasks # <<>>, Head(tasks).do \in Hops,
               reached' = reached \union {Head(tasks).msg}
        PROVE  Timely
    <3>1. kindOf[Head(tasks).msg] # "immediate" /\ drainedIn[Head(tasks).msg] = epoch
      BY <2>2, HeadCarries DEF Current, Follow
    <3>2. QED
      BY <2>2, <3>1
  <2>3. ASSUME NEW ok \in BOOLEAN, HopIngests(ok), reached' # reached
        PROVE  Timely
    <3>1. /\ Current /\ tasks # <<>> /\ Head(tasks).do \in Hops
          /\ reached' = reached \union {Head(tasks).msg}
      BY <2>3 DEF HopIngests, HopBody, Runs, Hops
    <3>2. QED
      BY <2>2, <3>1
  <2>4. ASSUME SteerDelivers, reached' # reached
        PROVE  Timely
    <3>1. /\ Current /\ tasks # <<>> /\ Head(tasks).do \in Hops
          /\ reached' = reached \union {Head(tasks).msg}
      BY <2>4 DEF SteerDelivers, Runs, Hops
    <3>2. QED
      BY <2>2, <3>1
  <2>5. ASSUME NEW d \in directs, NEW ok \in BOOLEAN,
               DirectIngests(d, ok) \/ DirectWaited(d) \/ DirectSends(d, ok), reached' # reached
        PROVE  Timely
    <3>1. d.epoch = epoch /\ reached' = reached \union {d.msg}
      BY <2>5 DEF DirectIngests, DirectWaited, DirectSends, SendFails, Rotated
    <3>2. kindOf[d.msg] = "immediate"
      BY DEF DeliveryInv, KindsInv
    <3>3. QED
      BY <3>1, <3>2
  <2>6. CASE \/ \E kind \in Kind : Submit(kind)
             \/ \E draft \in BOOLEAN : CancelLast(draft)
             \/ \E m \in Typed : ForceDeliver(m)
             \/ CtrlC \/ WatchdogAborts \/ ClearsSession \/ Reload
             \/ Infers \/ ToolBoundary \/ TurnEnds
             \/ HopStarts \/ HopEnds \/ Closes \/ (\E ok \in BOOLEAN : Rebuilds(ok))
    <3>1. reached' = reached
      BY <2>6 DEF Submit, CancelLast, ForceDeliver, CtrlC, WatchdogAborts, Stops, ClearsSession, Reload,
         Infers, ToolBoundary, TurnEnds, HopStarts, HopEnds, Closes, Rebuilds
    <3>2. QED
      BY <2>1, <3>1
  <2>7. QED
    BY <2>1, <2>3, <2>4, <2>5, <2>6 DEF DeliveryNext, TaskStep, Kind
<1>2. QED
  BY <1>1, DeliveryInvariant, PTL DEF DeliverySpec, StaleNeverDelivered
=============================================================================
