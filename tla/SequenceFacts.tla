--------------------------- MODULE SequenceFacts ---------------------------
(***************************************************************************)
(* What the queues of the components are made of: how Append, Tail and     *)
(* RemoveAt change the elements of a sequence, and sequences in which      *)
(* nothing is twice; how often something occurs in one.  And induction,    *)
(* the largest of finitely many numbers, and what FlattenSeq computes.     *)
(***************************************************************************)
EXTENDS Integers, SequencesExt, SequenceTheorems, FiniteSetTheorems,
        WellFoundedInduction, TLAPS

(***************************************************************************)
(* Induction over the natural numbers, as the absence of a least           *)
(* counterexample.                                                         *)
(***************************************************************************)
LEMMA SetInduction ==
  ASSUME NEW S, 0 \in S, \A n \in Nat : n \in S => n + 1 \in S
  PROVE  Nat \subseteq S
<1> DEFINE T == Nat \ S
<1> SUFFICES ASSUME T # {} PROVE FALSE
  OBVIOUS
<1>1. PICK x \in T : \A y \in T : <<y, x>> \notin OpToRel(<, Nat)
  BY NatLessThanWellFounded, WFMin
<1>2. x \in Nat /\ x # 0 /\ x - 1 \in Nat
  OBVIOUS
<1>3. <<x - 1, x>> \in OpToRel(<, Nat)
  BY <1>2 DEF OpToRel
<1>4. x - 1 \in S
  BY <1>1, <1>2, <1>3
<1>5. (x - 1) + 1 \in S
  BY <1>2, <1>4
<1> QED BY <1>2, <1>5

LEMMA AppendElements ==
  ASSUME NEW S, NEW s \in Seq(S), NEW x \in S
  PROVE  /\ Append(s, x) \in Seq(S)
         /\ ToSet(Append(s, x)) = ToSet(s) \cup {x}
<1>1. /\ Append(s, x) \in Seq(S) /\ Len(Append(s, x)) = Len(s) + 1
      /\ \A i \in 1..Len(s) : Append(s, x)[i] = s[i]
      /\ Append(s, x)[Len(s) + 1] = x
  OBVIOUS
<1>2. DOMAIN s = 1..Len(s) /\ DOMAIN Append(s, x) = 1..Len(s) + 1 /\ Len(s) \in Nat
  BY <1>1
<1>3. 1..Len(s) + 1 = (1..Len(s)) \cup {Len(s) + 1}
  BY <1>2
<1> QED BY <1>1, <1>2, <1>3 DEF ToSet

LEMMA TailElements ==
  ASSUME NEW S, NEW s \in Seq(S), s # <<>>
  PROVE  /\ Tail(s) \in Seq(S) /\ Head(s) \in S /\ Len(s) \in Nat \ {0}
         /\ Len(Tail(s)) = Len(s) - 1 /\ Head(s) = s[1]
         /\ \A i \in 1..Len(s) - 1 : Tail(s)[i] = s[i + 1]
         /\ ToSet(s) = {Head(s)} \cup ToSet(Tail(s))
<1>1. /\ Tail(s) \in Seq(S) /\ Head(s) \in S /\ Len(s) \in Nat \ {0}
      /\ Len(Tail(s)) = Len(s) - 1 /\ Head(s) = s[1]
      /\ \A i \in 1..Len(s) - 1 : Tail(s)[i] = s[i + 1]
  OBVIOUS
<1>2. DOMAIN s = 1..Len(s) /\ DOMAIN Tail(s) = 1..Len(s) - 1
  BY <1>1
<1>3. ASSUME NEW x \in ToSet(s) PROVE x \in {Head(s)} \cup ToSet(Tail(s))
  <2>1. PICK i \in 1..Len(s) : x = s[i]
    BY <1>2, <1>3 DEF ToSet
  <2>2. CASE i = 1
    BY <1>1, <2>1, <2>2
  <2>3. CASE i # 1
    <3>1. i - 1 \in 1..Len(s) - 1 /\ Tail(s)[i - 1] = s[i - 1 + 1] /\ i - 1 + 1 = i
      BY <1>1, <2>1, <2>3
    <3> QED BY <1>2, <2>1, <3>1 DEF ToSet
  <2> QED BY <2>2, <2>3
<1>4. ASSUME NEW x \in ToSet(Tail(s)) PROVE x \in ToSet(s)
  <2>1. PICK i \in 1..Len(s) - 1 : x = Tail(s)[i]
    BY <1>2, <1>4 DEF ToSet
  <2>2. i + 1 \in 1..Len(s) /\ x = s[i + 1]
    BY <1>1, <2>1
  <2> QED BY <1>2, <2>2 DEF ToSet
<1>5. Head(s) \in ToSet(s)
  BY <1>1, <1>2 DEF ToSet
<1> QED BY <1>1, <1>3, <1>4, <1>5

LEMMA RemoveFirstIsTail ==
  ASSUME NEW S, NEW s \in Seq(S), s # <<>>
  PROVE  RemoveAt(s, 1) = Tail(s)
<1>1. SubSeq(s, 1, 1 - 1) = <<>>
  BY SubSeqEmpty
<1>2. SubSeq(s, 1 + 1, Len(s)) = Tail(s)
  OBVIOUS
<1>3. Tail(s) \in Seq(S)
  BY TailElements
<1>4. <<>> \o Tail(s) = Tail(s)
  BY <1>3
<1> QED BY <1>1, <1>2, <1>4 DEF RemoveAt

LEMMA AppendInjects ==
  ASSUME NEW S, NEW s \in Seq(S), NEW x \in S, IsInjective(s), x \notin ToSet(s)
  PROVE  IsInjective(Append(s, x))
<1>1. /\ Len(Append(s, x)) = Len(s) + 1 /\ Len(s) \in Nat
      /\ \A i \in 1..Len(s) : Append(s, x)[i] = s[i]
      /\ Append(s, x)[Len(s) + 1] = x
      /\ DOMAIN Append(s, x) = 1..Len(s) + 1 /\ DOMAIN s = 1..Len(s)
  OBVIOUS
<1>2. \A i \in 1..Len(s) : s[i] # x
  BY <1>1 DEF ToSet
<1> QED BY <1>1, <1>2 DEF IsInjective

LEMMA TailInjects ==
  ASSUME NEW S, NEW s \in Seq(S), s # <<>>, IsInjective(s)
  PROVE  /\ IsInjective(Tail(s))
         /\ ToSet(Tail(s)) = ToSet(s) \ {Head(s)} /\ Head(s) \in ToSet(s)
<1>1. /\ Len(s) \in Nat \ {0} /\ DOMAIN s = 1..Len(s) /\ Head(s) = s[1]
      /\ DOMAIN Tail(s) = 1..Len(s) - 1
      /\ \A i \in 1..Len(s) - 1 : Tail(s)[i] = s[i + 1]
  OBVIOUS
<1>2. \A i \in 1..Len(s) - 1 : i + 1 \in DOMAIN s /\ 1 # i + 1 /\ 1 \in DOMAIN s
  BY <1>1
<1>3. \A i \in 1..Len(s) - 1 : Head(s) # Tail(s)[i]
  BY <1>1, <1>2 DEF IsInjective
<1>4. IsInjective(Tail(s))
  <2>1. \A i, j \in 1..Len(s) - 1 : i + 1 = j + 1 => i = j
    BY <1>1
  <2> QED BY <1>1, <1>2, <2>1 DEF IsInjective
<1>5. ToSet(s) = {Head(s)} \cup ToSet(Tail(s)) /\ Head(s) \notin ToSet(Tail(s))
  <2>1. ToSet(s) = {Head(s)} \cup ToSet(Tail(s))
    BY TailElements
  <2> QED BY <1>1, <1>3, <2>1 DEF ToSet
<1> QED BY <1>4, <1>5

(***************************************************************************)
(* Taking an element out of the middle.                                    *)
(***************************************************************************)
LEMMA RemovedIndexes ==
  ASSUME NEW S, NEW s \in Seq(S), NEW k \in DOMAIN s
  PROVE  /\ RemoveAt(s, k) \in Seq(S) /\ DOMAIN RemoveAt(s, k) = 1..Len(s) - 1
         /\ \A i \in 1..Len(s) - 1 : RemoveAt(s, k)[i] = IF i < k THEN s[i] ELSE s[i + 1]
<1> DEFINE a == SubSeq(s, 1, k - 1)
           b == SubSeq(s, k + 1, Len(s))
<1>1. Len(s) \in Nat /\ k \in 1..Len(s)
  OBVIOUS
<1>2. a \in Seq(S) /\ Len(a) = k - 1 /\ \A i \in 1..k - 1 : a[i] = s[i]
  BY <1>1
<1>3. b \in Seq(S) /\ Len(b) = Len(s) - k /\ \A i \in 1..Len(s) - k : b[i] = s[i + k]
  BY <1>1
<1> HIDE DEF a, b
<1>4. a \o b \in Seq(S) /\ Len(a \o b) = Len(s) - 1
  BY <1>1, <1>2, <1>3
<1>5. ASSUME NEW i \in 1..Len(s) - 1
      PROVE  (a \o b)[i] = IF i < k THEN s[i] ELSE s[i + 1]
  <2>1. CASE i < k
    BY <1>1, <1>2, <1>3, <2>1
  <2>2. CASE i >= k
    <3>1. i - Len(a) \in 1..Len(s) - k /\ (i - Len(a)) + k = i + 1
      BY <1>1, <1>2, <2>2
    <3>2. (a \o b)[i] = b[i - Len(a)]
      <4>1. i \in 1..Len(a) + Len(b) /\ ~(i <= Len(a))
        BY <1>1, <1>2, <1>3, <2>2
      <4>2. (a \o b)[i] = IF i <= Len(a) THEN a[i] ELSE b[i - Len(a)]
        BY <1>2, <1>3, <4>1, ConcatProperties, Zenon
      <4> QED BY <4>1, <4>2
    <3> QED BY <1>1, <1>3, <2>2, <3>1, <3>2
  <2>3. i < k \/ i >= k
    BY <1>1
  <2> QED BY <2>1, <2>2, <2>3
<1>6. RemoveAt(s, k) = a \o b
  BY DEF RemoveAt, a, b
<1> QED BY <1>4, <1>5, <1>6

LEMMA RemoveInjects ==
  ASSUME NEW S, NEW s \in Seq(S), NEW k \in DOMAIN s, IsInjective(s)
  PROVE  /\ RemoveAt(s, k) \in Seq(S) /\ IsInjective(RemoveAt(s, k))
         /\ ToSet(RemoveAt(s, k)) = ToSet(s) \ {s[k]}
<1> DEFINE t == RemoveAt(s, k)
           from(i) == IF i < k THEN i ELSE i + 1
<1>1. Len(s) \in Nat /\ k \in 1..Len(s) /\ DOMAIN s = 1..Len(s)
  OBVIOUS
<1>2. \A i \in 1..Len(s) - 1 : from(i) \in DOMAIN s /\ from(i) # k
  BY <1>1
<1>3. \A i, j \in 1..Len(s) - 1 : from(i) = from(j) => i = j
  BY <1>1
<1>4. \A i \in DOMAIN s : i # k => \E j \in 1..Len(s) - 1 : from(j) = i
  <2> SUFFICES ASSUME NEW i \in DOMAIN s, i # k
               PROVE  \E j \in 1..Len(s) - 1 : from(j) = i
    OBVIOUS
  <2>1. CASE i < k
    <3>1. i \in 1..Len(s) - 1 /\ from(i) = i
      BY <1>1, <2>1
    <3> QED BY <3>1
  <2>2. CASE i > k
    <3>1. i - 1 \in 1..Len(s) - 1 /\ from(i - 1) = i
      BY <1>1, <2>2
    <3> QED BY <3>1
  <2> QED BY <1>1, <2>1, <2>2
<1>5. t \in Seq(S) /\ DOMAIN t = 1..Len(s) - 1 /\ \A i \in 1..Len(s) - 1 : t[i] = s[from(i)]
  <2>1. \A i \in 1..Len(s) - 1 : t[i] = IF i < k THEN s[i] ELSE s[i + 1]
    BY RemovedIndexes
  <2>2. t \in Seq(S) /\ DOMAIN t = 1..Len(s) - 1
    BY RemovedIndexes
  <2> QED BY <2>1, <2>2
<1> HIDE DEF t, from
<1>6. IsInjective(t)
  <2> SUFFICES ASSUME NEW i \in DOMAIN t, NEW j \in DOMAIN t, t[i] = t[j] PROVE i = j
    BY DEF IsInjective
  <2>1. s[from(i)] = s[from(j)] /\ from(i) \in DOMAIN s /\ from(j) \in DOMAIN s
    BY <1>2, <1>5
  <2>2. from(i) = from(j)
    BY <2>1 DEF IsInjective
  <2> QED BY <1>3, <1>5, <2>2
<1>7. ToSet(t) = ToSet(s) \ {s[k]}
  <2>1. ASSUME NEW x \in ToSet(t) PROVE x \in ToSet(s) /\ x # s[k]
    BY <1>1, <1>2, <1>5, <2>1 DEF ToSet, IsInjective
  <2>2. ASSUME NEW x \in ToSet(s), x # s[k] PROVE x \in ToSet(t)
    <3>1. PICK i \in DOMAIN s : s[i] = x /\ i # k
      BY <2>2 DEF ToSet
    <3>2. PICK j \in 1..Len(s) - 1 : from(j) = i
      BY <1>4, <3>1
    <3> QED BY <1>5, <3>1, <3>2 DEF ToSet
  <2> QED BY <2>1, <2>2
<1> QED BY <1>5, <1>6, <1>7 DEF t

LEMMA MaxIsLargest ==
  ASSUME NEW n \in Nat, NEW S \in SUBSET (1..n), S # {}
  PROVE  Max(S) \in S /\ \A y \in S : Max(S) >= y
<1> DEFINE T == {n - x : x \in S}
<1>1. T # {} /\ T \subseteq Nat
  OBVIOUS
<1>2. PICK d \in T : \A y \in T : <<y, d>> \notin OpToRel(<, Nat)
  BY <1>1, NatLessThanWellFounded, WFMin
<1>3. \A y \in T : d <= y
  <2> HIDE DEF T
  <2>1. ASSUME NEW y \in T PROVE d <= y
    <3>1. y \in Nat /\ d \in Nat
      BY <1>1
    <3>2. ~(y < d)
      BY <1>2, <3>1 DEF OpToRel
    <3> QED BY <3>1, <3>2
  <2> QED BY <2>1
<1>4. PICK x \in S : d = n - x
  OBVIOUS
<1>5. ASSUME NEW y \in S PROVE x >= y
  <2>1. n - y \in T
    OBVIOUS
  <2>2. n - x <= n - y /\ x \in Int /\ y \in Int
    BY <1>3, <1>4, <2>1
  <2> QED BY <2>2
<1> QED BY <1>5 DEF Max

(***************************************************************************)
(* How many elements of a sequence are in a set.                           *)
(***************************************************************************)
Hits(s, T) == Cardinality({j \in DOMAIN s : s[j] \in T})

LEMMA HitsType ==
  ASSUME NEW S, NEW s \in Seq(S), NEW T
  PROVE  /\ IsFiniteSet({j \in DOMAIN s : s[j] \in T}) /\ Hits(s, T) \in Nat
         /\ Hits(s, T) = 0 <=> \A j \in DOMAIN s : s[j] \notin T
<1> DEFINE D == {j \in DOMAIN s : s[j] \in T}
<1>1. IsFiniteSet(1..Len(s)) /\ DOMAIN s = 1..Len(s)
  BY FS_Interval
<1>2. IsFiniteSet(D)
  BY <1>1, FS_Subset
<1>3. Cardinality(D) \in Nat /\ (Cardinality(D) = 0 <=> D = {})
  BY <1>2, FS_CardinalityType, FS_EmptySet
<1> QED BY <1>2, <1>3 DEF Hits

LEMMA AppendHits ==
  ASSUME NEW S, NEW s \in Seq(S), NEW x \in S, NEW T
  PROVE  Hits(Append(s, x), T) = Hits(s, T) + (IF x \in T THEN 1 ELSE 0)
<1> DEFINE D == {j \in DOMAIN s : s[j] \in T}
           E == {j \in DOMAIN Append(s, x) : Append(s, x)[j] \in T}
           n == Len(s) + 1
<1>1. /\ n \in Nat /\ DOMAIN s = 1..Len(s) /\ DOMAIN Append(s, x) = 1..n
      /\ \A i \in 1..Len(s) : Append(s, x)[i] = s[i]
      /\ Append(s, x)[n] = x /\ n \notin 1..Len(s) /\ 1..n = (1..Len(s)) \cup {n}
  OBVIOUS
<1>2. IsFiniteSet(D) /\ n \notin D /\ Cardinality(D) \in Nat
  BY <1>1, HitsType DEF Hits
<1>3. Hits(s, T) = Cardinality(D) /\ Hits(Append(s, x), T) = Cardinality(E)
  BY DEF Hits
<1> HIDE DEF n
<1>4. CASE x \in T
  <2>1. E = D \cup {n}
    BY <1>1, <1>4
  <2>2. Cardinality(D \cup {n}) = Cardinality(D) + 1
    <3> HIDE DEF D
    <3> QED BY <1>2, FS_AddElement
  <2> HIDE DEF D, E
  <2> QED BY <1>4, <1>3, <2>1, <2>2
<1>5. CASE x \notin T
  <2>1. E = D
    BY <1>1, <1>5
  <2> HIDE DEF D, E
  <2> QED BY <1>2, <1>5, <1>3, <2>1
<1> QED BY <1>4, <1>5

LEMMA RemoveHits ==
  ASSUME NEW S, NEW s \in Seq(S), NEW k \in DOMAIN s, NEW T
  PROVE  /\ RemoveAt(s, k) \in Seq(S)
         /\ Hits(RemoveAt(s, k), T) = Hits(s, T) - (IF s[k] \in T THEN 1 ELSE 0)
<1> DEFINE t == RemoveAt(s, k)
           from(i) == IF i < k THEN i ELSE i + 1
           D == {j \in DOMAIN s : s[j] \in T}
           E == {j \in DOMAIN t : t[j] \in T}
           f == [i \in E |-> from(i)]
<1>1. Len(s) \in Nat /\ k \in 1..Len(s) /\ DOMAIN s = 1..Len(s)
  OBVIOUS
<1>2. \A i \in 1..Len(s) - 1 : from(i) \in DOMAIN s /\ from(i) # k
  BY <1>1
<1>3. \A i, j \in 1..Len(s) - 1 : from(i) = from(j) => i = j
  BY <1>1
<1>4. \A i \in DOMAIN s : i # k => \E j \in 1..Len(s) - 1 : from(j) = i
  <2> SUFFICES ASSUME NEW i \in DOMAIN s, i # k
               PROVE  \E j \in 1..Len(s) - 1 : from(j) = i
    OBVIOUS
  <2>1. CASE i < k
    <3>1. i \in 1..Len(s) - 1 /\ from(i) = i
      BY <1>1, <2>1
    <3> QED BY <3>1
  <2>2. CASE i > k
    <3>1. i - 1 \in 1..Len(s) - 1 /\ from(i - 1) = i
      BY <1>1, <2>2
    <3> QED BY <3>1
  <2> QED BY <1>1, <2>1, <2>2
<1>5. t \in Seq(S) /\ DOMAIN t = 1..Len(s) - 1 /\ \A i \in 1..Len(s) - 1 : t[i] = s[from(i)]
  <2>1. \A i \in 1..Len(s) - 1 : t[i] = IF i < k THEN s[i] ELSE s[i + 1]
    BY RemovedIndexes
  <2>2. t \in Seq(S) /\ DOMAIN t = 1..Len(s) - 1
    BY RemovedIndexes
  <2> QED BY <2>1, <2>2
<1>6. IsFiniteSet(D) /\ IsFiniteSet(E)
  BY <1>5, HitsType
<1> HIDE DEF t, from
<1>7. f \in Bijection(E, D \ {k})
  <2>1. f \in [E -> D \ {k}]
    BY <1>2, <1>5
  <2>2. \A i, j \in E : f[i] = f[j] => i = j
    BY <1>3, <1>5
  <2>3. \A j \in D \ {k} : \E i \in E : f[i] = j
    <3> SUFFICES ASSUME NEW j \in D \ {k} PROVE \E i \in E : f[i] = j
      OBVIOUS
    <3>1. PICK i \in 1..Len(s) - 1 : from(i) = j
      BY <1>4
    <3>2. i \in E /\ f[i] = j
      BY <1>5, <3>1
    <3> QED BY <3>2
  <2> HIDE DEF f, D, E
  <2>4. f \in Injection(E, D \ {k}) /\ f \in Surjection(E, D \ {k})
    BY <2>1, <2>2, <2>3 DEF Injection, Surjection, IsInjective
  <2> QED BY <2>4 DEF Bijection
<1> HIDE DEF f, D, E
<1>8. Cardinality(D \ {k}) = Cardinality(E)
  <2>1. ExistsBijection(E, D \ {k})
    BY <1>7 DEF ExistsBijection
  <2> QED BY <1>6, <2>1, FS_Bijection
<1>9. Cardinality(D \ {k}) = IF k \in D THEN Cardinality(D) - 1 ELSE Cardinality(D)
  BY <1>6, FS_RemoveElement
<1>10. Cardinality(D) \in Nat /\ (k \in D <=> s[k] \in T)
  BY <1>6, FS_CardinalityType DEF D
<1>11. Hits(s, T) = Cardinality(D) /\ Hits(t, T) = Cardinality(E)
  BY DEF Hits, D, E
<1> QED BY <1>5, <1>8, <1>9, <1>10, <1>11 DEF t

LEMMA TailHits ==
  ASSUME NEW S, NEW s \in Seq(S), s # <<>>, NEW T
  PROVE  Hits(Tail(s), T) = Hits(s, T) - (IF Head(s) \in T THEN 1 ELSE 0)
<1>1. RemoveAt(s, 1) = Tail(s)
  BY RemoveFirstIsTail
<1>2. Head(s) = s[1] /\ 1 \in DOMAIN s
  BY TailElements
<1>3. Hits(RemoveAt(s, 1), T) = Hits(s, T) - (IF s[1] \in T THEN 1 ELSE 0)
  BY <1>2, RemoveHits
<1> QED BY <1>1, <1>2, <1>3

(***************************************************************************)
(* What FlattenSeq computes: f[i] is the concatenation of the first i.     *)
(***************************************************************************)
Gathers(f, seqs, n) ==
  \A i \in 1..n : f[i] = IF i = 1 THEN seqs[i] ELSE f[i - 1] \o seqs[i]

LEMMA GathersExists ==
  ASSUME NEW S, NEW seqs \in Seq(Seq(S)), NEW n \in Nat, n <= Len(seqs)
  PROVE  \E f \in [1..n -> Seq(S)] : Gathers(f, seqs, n)
<1> DEFINE P(k) == \E f \in [1..k -> Seq(S)] : Gathers(f, seqs, k)
           T == {k \in Nat : k <= Len(seqs) => P(k)}
<1>1. 0 \in T
  <2>1. [i \in 1..0 |-> <<>>] \in [1..0 -> Seq(S)]
    OBVIOUS
  <2>2. Gathers([i \in 1..0 |-> <<>>], seqs, 0)
    BY DEF Gathers
  <2> QED BY <2>1, <2>2
<1>2. ASSUME NEW k \in Nat, k \in T PROVE k + 1 \in T
  <2> SUFFICES ASSUME k + 1 <= Len(seqs) PROVE P(k + 1)
    OBVIOUS
  <2>1. k <= Len(seqs) /\ k + 1 \in 1..Len(seqs) /\ Len(seqs) \in Nat
    OBVIOUS
  <2>2. PICK f \in [1..k -> Seq(S)] : Gathers(f, seqs, k)
    BY <1>2, <2>1
  <2> DEFINE next == IF k = 0 THEN seqs[k + 1] ELSE f[k] \o seqs[k + 1]
             g == [i \in 1..k + 1 |-> IF i = k + 1 THEN next ELSE f[i]]
  <2>3. seqs[k + 1] \in Seq(S)
    BY <2>1
  <2>4. next \in Seq(S)
    <3>1. CASE k = 0
      BY <2>3, <3>1
    <3>2. CASE k # 0
      <4>1. f[k] \in Seq(S)
        BY <3>2
      <4>2. f[k] \o seqs[k + 1] \in Seq(S)
        BY <2>3, <4>1
      <4> QED BY <3>2, <4>2
    <3> QED BY <3>1, <3>2
  <2>5. \A i \in 1..k + 1 : i = k + 1 \/ i \in 1..k
    OBVIOUS
  <2> HIDE DEF P, T
  <2>6. g \in [1..k + 1 -> Seq(S)]
    <3> HIDE DEF next
    <3> QED BY <2>4, <2>5
  <2>7. ASSUME NEW i \in 1..k + 1
        PROVE  g[i] = IF i = 1 THEN seqs[i] ELSE g[i - 1] \o seqs[i]
    <3>1. CASE i = k + 1
      <4>1. g[i] = next
        BY <3>1
      <4>2. CASE k = 0
        BY <3>1, <4>1, <4>2
      <4>3. CASE k # 0
        <5>1. i - 1 = k /\ i - 1 \in 1..k + 1 /\ i # 1 /\ k # k + 1
          BY <3>1, <4>3
        <5>2. g[i - 1] = f[k]
          BY <5>1
        <5> QED BY <3>1, <4>1, <4>3, <5>1, <5>2
      <4> QED BY <4>2, <4>3
    <3>2. CASE i \in 1..k /\ i # k + 1
      <4>1. g[i] = f[i] /\ f[i] = IF i = 1 THEN seqs[i] ELSE f[i - 1] \o seqs[i]
        BY <2>2, <3>2 DEF Gathers
      <4>2. ASSUME i # 1 PROVE g[i - 1] = f[i - 1]
        <5>1. i - 1 \in 1..k + 1 /\ i - 1 # k + 1
          BY <3>2, <4>2
        <5> QED BY <5>1
      <4> QED BY <4>1, <4>2
    <3> QED BY <2>5, <3>1, <3>2
  <2>8. Gathers(g, seqs, k + 1)
    <3> HIDE DEF g
    <3> QED BY <2>7 DEF Gathers
  <2> QED BY <2>6, <2>8 DEF P
<1>3. Nat \subseteq T
  <2> HIDE DEF T
  <2> QED BY <1>1, <1>2, SetInduction
<1> QED BY <1>3

LEMMA FlattenGathers ==
  ASSUME NEW S, NEW seqs \in Seq(Seq(S)), seqs # <<>>
  PROVE  \E f \in [1..Len(seqs) -> Seq(S)] :
           Gathers(f, seqs, Len(seqs)) /\ FlattenSeq(seqs) = f[Len(seqs)]
<1> DEFINE N == Len(seqs)
           Solves(f) == f = [i \in 1..N |-> IF i = 1 THEN seqs[i] ELSE f[i - 1] \o seqs[i]]
<1>1. N \in Nat \ {0} /\ N <= N /\ N \in 1..N
  OBVIOUS
<1>2. PICK r \in [1..N -> Seq(S)] : Gathers(r, seqs, N)
  BY <1>1, GathersExists
<1>3. Solves(r)
  <2>1. r = [i \in 1..N |-> r[i]]
    OBVIOUS
  <2>2. \A i \in 1..N : r[i] = IF i = 1 THEN seqs[i] ELSE r[i - 1] \o seqs[i]
    BY <1>2 DEF Gathers
  <2> HIDE DEF N
  <2> QED BY <2>1, <2>2
<1> DEFINE s == CHOOSE x : Solves(x)
<1>4. Solves(s)
  <2> HIDE DEF Solves
  <2> QED BY <1>3
<1>5. FlattenSeq(seqs) = s[N]
  BY <1>1 DEF FlattenSeq
<1>6. \A i \in 1..N : s[i] = IF i = 1 THEN seqs[i] ELSE s[i - 1] \o seqs[i]
  <2> HIDE DEF s, N
  <2> QED BY <1>4
<1> HIDE DEF s, N
<1> DEFINE T == {k \in Nat : k \in 1..N => s[k] = r[k]}
<1>7. 0 \in T
  OBVIOUS
<1>8. ASSUME NEW k \in Nat, k \in T PROVE k + 1 \in T
  <2> SUFFICES ASSUME k + 1 \in 1..N PROVE s[k + 1] = r[k + 1]
    OBVIOUS
  <2>1. s[k + 1] = IF k + 1 = 1 THEN seqs[k + 1] ELSE s[k] \o seqs[k + 1]
    <3>1. (k + 1) - 1 = k
      OBVIOUS
    <3> QED BY <1>6, <3>1
  <2>2. r[k + 1] = IF k + 1 = 1 THEN seqs[k + 1] ELSE r[k] \o seqs[k + 1]
    <3>1. (k + 1) - 1 = k
      OBVIOUS
    <3> QED BY <1>2, <3>1 DEF Gathers
  <2>3. k + 1 # 1 => k \in 1..N
    BY <1>1
  <2> QED BY <1>8, <2>1, <2>2, <2>3
<1>9. Nat \subseteq T
  <2> HIDE DEF T
  <2> QED BY <1>7, <1>8, SetInduction
<1>10. s[N] = r[N]
  BY <1>1, <1>9
<1> QED BY <1>2, <1>5, <1>10 DEF N

=============================================================================
