---------------------------- MODULE QueueLemmas ----------------------------
(***************************************************************************)
(* What the queues of the models do: a waiter is appended once, leaves     *)
(* from wherever it stands (RemoveFirst), and a prefix of the queue is     *)
(* served at a time.                                                       *)
(***************************************************************************)
EXTENDS Integers, Sequences, FiniteSets, SequencesExt, FiniteSetTheorems,
        FunctionTheorems, SequenceTheorems, WellFoundedInduction, TLAPS

\* A set of natural numbers has a least element.
LEMMA LeastExists ==
    ASSUME NEW S \in SUBSET Nat, S # {}
    PROVE  \E x \in S : \A y \in S : x <= y
<1> DEFINE R == OpToRel(<, Nat)
<1>1. IsWellFoundedOn(R, Nat)
  BY NatLessThanWellFounded
<1>2. \E x \in S : \A y \in S : ~ (<<y, x>> \in R)
  BY <1>1, WFMin
<1>3. R = {ss \in Nat \X Nat : ss[1] < ss[2]}
  BY DEF OpToRel
<1> HIDE DEF R
<1>4. \A x, y \in Nat : <<y, x>> \in R <=> y < x
  BY <1>3
<1>5. PICK x \in S : \A y \in S : ~ (<<y, x>> \in R)
  BY <1>2
<1>6. \A y \in S : ~ (y < x)
  BY <1>4, <1>5
<1>7. \A y \in S : x <= y
  BY <1>6
<1> QED
  BY <1>7

\* Removing position i keeps the other elements in their order.
LEMMA RemoveAtFacts ==
    ASSUME NEW S, NEW q \in Seq(S), NEW i \in 1..Len(q)
    PROVE  /\ RemoveAt(q, i) \in Seq(S)
           /\ Len(RemoveAt(q, i)) = Len(q) - 1
           /\ \A k \in 1..Len(q) - 1 :
                 RemoveAt(q, i)[k] = IF k < i THEN q[k] ELSE q[k + 1]
<1> DEFINE a == SubSeq(q, 1, i - 1)
           b == SubSeq(q, i + 1, Len(q))
<1>1. a \in Seq(S) /\ Len(a) = i - 1 /\ \A k \in 1..i - 1 : a[k] = q[k]
  OBVIOUS
<1>2. b \in Seq(S) /\ Len(b) = Len(q) - i /\ \A k \in 1..Len(q) - i : b[k] = q[i + k]
  OBVIOUS
<1> HIDE DEF a, b
<1>3. /\ a \o b \in Seq(S)
      /\ Len(a \o b) = Len(q) - 1
      /\ \A k \in 1..Len(q) - 1 : (a \o b)[k] = IF k < i THEN q[k] ELSE q[k + 1]
  <2>1. /\ a \o b \in Seq(S)
        /\ Len(a \o b) = Len(a) + Len(b)
        /\ \A k \in 1..Len(a) + Len(b) :
              (a \o b)[k] = IF k <= Len(a) THEN a[k] ELSE b[k - Len(a)]
    BY <1>1, <1>2, ConcatProperties
  <2>2. ASSUME NEW k \in 1..Len(q) - 1
        PROVE  (a \o b)[k] = IF k < i THEN q[k] ELSE q[k + 1]
    <3>1. CASE k < i
      BY <3>1, <2>1, <1>1, <1>2
    <3>2. CASE ~(k < i)
      <4>1. k - (i - 1) \in 1..Len(q) - i
        BY <3>2
      <4>2. b[k - (i - 1)] = q[i + (k - (i - 1))]
        BY <4>1, <1>2
      <4> QED
        BY <3>2, <4>2, <2>1, <1>1, <1>2
    <3> QED
      BY <3>1, <3>2
  <2> QED
    BY <2>1, <2>2, <1>1, <1>2
<1> QED
  BY <1>3 DEF RemoveAt, a, b

\* In a queue without repetitions nothing but that element leaves.
LEMMA RemoveAtSet ==
    ASSUME NEW S, NEW q \in Seq(S), IsInjective(q), NEW i \in 1..Len(q)
    PROVE  LET r == RemoveAt(q, i) IN
           r \in Seq(S) /\ IsInjective(r) /\ ToSet(r) = ToSet(q) \ {q[i]}
<1> DEFINE r == RemoveAt(q, i)
<1>1. /\ r \in Seq(S) /\ Len(r) = Len(q) - 1
      /\ \A k \in 1..Len(q) - 1 : r[k] = IF k < i THEN q[k] ELSE q[k + 1]
  BY RemoveAtFacts
<1> HIDE DEF r
<1>2. /\ DOMAIN r = 1..Len(q) - 1 /\ DOMAIN q = 1..Len(q) /\ Len(q) \in Nat
      /\ \A j, k \in 1..Len(q) : q[j] = q[k] => j = k
  BY <1>1 DEF IsInjective
<1>3. IsInjective(r)
  <2>1. \A j, k \in 1..Len(q) - 1 : r[j] = r[k] => j = k
    BY <1>1, <1>2
  <2> QED
    BY <1>2, <2>1 DEF IsInjective
<1>4. ToSet(r) \subseteq ToSet(q) \ {q[i]}
  <2>1. \A k \in 1..Len(q) - 1 : \E j \in 1..Len(q) : r[k] = q[j] /\ j # i
    BY <1>1, <1>2
  <2>2. \A k \in 1..Len(q) - 1 : \E j \in 1..Len(q) : r[k] = q[j] /\ q[j] # q[i]
    BY <1>2, <2>1
  <2> QED
    BY <1>2, <2>2 DEF ToSet
<1>5. ASSUME NEW j \in 1..Len(q), q[j] # q[i] PROVE \E k \in 1..Len(q) - 1 : r[k] = q[j]
  <2>1. CASE j < i
    BY <1>1, <1>2, <2>1
  <2>2. CASE j > i
    <3>1. j - 1 \in 1..Len(q) - 1 /\ r[j - 1] = q[j - 1 + 1]
      BY <1>1, <1>2, <2>2
    <3> QED
      BY <3>1
  <2> QED
    BY <1>2, <1>5, <2>1, <2>2
<1>6. ToSet(q) \ {q[i]} \subseteq ToSet(r)
  BY <1>2, <1>5 DEF ToSet
<1> QED
  BY <1>1, <1>3, <1>4, <1>6 DEF r

\* The head leaves.
LEMMA TailSet ==
    ASSUME NEW S, NEW q \in Seq(S), IsInjective(q), q # <<>>
    PROVE  /\ Tail(q) \in Seq(S) /\ IsInjective(Tail(q)) /\ ToSet(Tail(q)) = ToSet(q) \ {Head(q)}
           /\ Head(q) \in ToSet(q)
<1> DEFINE r == Tail(q)
<1>1. /\ r \in Seq(S) /\ Len(r) = Len(q) - 1 /\ Len(q) \in Nat \ {0} /\ Head(q) = q[1]
      /\ \A k \in 1..Len(q) - 1 : r[k] = q[k + 1]
  OBVIOUS
<1> HIDE DEF r
<1>2. /\ DOMAIN r = 1..Len(q) - 1 /\ DOMAIN q = 1..Len(q)
      /\ \A j, k \in 1..Len(q) : q[j] = q[k] => j = k
  BY <1>1 DEF IsInjective
<1>3. IsInjective(r)
  <2>1. \A j, k \in 1..Len(q) - 1 : r[j] = r[k] => j = k
    BY <1>1, <1>2
  <2> QED
    BY <1>2, <2>1 DEF IsInjective
<1>4. ToSet(r) \subseteq ToSet(q) \ {q[1]}
  <2>1. \A k \in 1..Len(q) - 1 : r[k] = q[k + 1] /\ k + 1 \in 1..Len(q) /\ k + 1 # 1
    BY <1>1, <1>2
  <2> QED
    BY <1>1, <1>2, <2>1 DEF ToSet
<1>5. ASSUME NEW j \in 1..Len(q), j # 1 PROVE q[j] \in ToSet(r)
  <2>1. j - 1 \in 1..Len(q) - 1 /\ r[j - 1] = q[j - 1 + 1]
    BY <1>1, <1>5
  <2> QED
    BY <1>2, <2>1 DEF ToSet
<1>6. ToSet(q) \ {q[1]} \subseteq ToSet(r) /\ q[1] \in ToSet(q)
  BY <1>1, <1>2, <1>5 DEF ToSet
<1> QED
  BY <1>1, <1>3, <1>4, <1>6 DEF r

\* What is left of a queue when an element leaves it
LEMMA RemoveFirstForm ==
    ASSUME NEW S, NEW q \in Seq(S), NEW e
    PROVE  LET r == RemoveFirst(q, e) IN
           /\ r \in Seq(S)
           /\ \/ e \notin ToSet(q) /\ r = q
              \/ \E m \in 1..Len(q) :
                    /\ q[m] = e /\ Len(r) = Len(q) - 1
                    /\ \A i \in 1..Len(q) - 1 : r[i] = IF i < m THEN q[i] ELSE q[i + 1]
<1>0. DOMAIN q = 1..Len(q) /\ Len(q) \in Nat
  OBVIOUS
<1>1. CASE ~(\E i \in 1..Len(q) : q[i] = e)
  BY <1>0, <1>1 DEF RemoveFirst, ToSet
<1>2. CASE \E i \in 1..Len(q) : q[i] = e
  <2> DEFINE I == {i \in 1..Len(q) : q[i] = e}
             m == Min(I)
             a == SubSeq(q, 1, m - 1)
             b == SubSeq(q, m + 1, Len(q))
  <2>1. I \in SUBSET Nat /\ I # {}
    BY <1>2
  <2>2. m \in I
    BY <2>1, LeastExists DEF Min
  <2>3. RemoveFirst(q, e) = a \o b
    BY <1>2, <2>1 DEF RemoveFirst, RemoveAt, SelectInSeq
  <2>4. m \in 1..Len(q) /\ q[m] = e
    BY <2>2
  <2> HIDE DEF m
  <2>5. a \in Seq(S) /\ Len(a) = m - 1 /\ \A k \in 1..m - 1 : a[k] = q[k]
    BY <2>4
  <2>6. b \in Seq(S) /\ Len(b) = Len(q) - m /\ \A k \in 1..Len(q) - m : b[k] = q[k + m]
    BY <2>4
  <2> HIDE DEF a, b
  <2>7. /\ a \o b \in Seq(S) /\ Len(a \o b) = Len(q) - 1
        /\ \A i \in 1..Len(q) - 1 : (a \o b)[i] = IF i < m THEN a[i] ELSE b[i - m + 1]
    <3>1. a \o b \in Seq(S) /\ Len(a \o b) = Len(a) + Len(b)
      BY <2>5, <2>6, ConcatProperties
    <3>2. \A i \in 1..Len(a) + Len(b) : (a \o b)[i] = IF i <= Len(a) THEN a[i] ELSE b[i - Len(a)]
      BY <2>5, <2>6, ConcatProperties
    <3>3. Len(a) + Len(b) = Len(q) - 1 /\ \A i \in Int : (i < m <=> i <= Len(a)) /\ i - Len(a) = i - m + 1
      BY <1>0, <2>4, <2>5, <2>6
    <3> DEFINE c == a \o b
    <3> HIDE DEF c
    <3>4. \A i \in 1..Len(q) - 1 : c[i] = IF i < m THEN a[i] ELSE b[i - m + 1]
      <4> SUFFICES ASSUME NEW i \in 1..Len(q) - 1 PROVE c[i] = IF i < m THEN a[i] ELSE b[i - m + 1]
        OBVIOUS
      <4>1. c[i] = IF i <= Len(a) THEN a[i] ELSE b[i - Len(a)]
        BY <3>2, <3>3 DEF c
      <4>2. (i < m <=> i <= Len(a)) /\ i - Len(a) = i - m + 1
        BY <1>0, <2>4, <2>5
      <4> QED
        BY <4>1, <4>2
    <3> QED
      BY <3>1, <3>3, <3>4 DEF c
  <2>8. \A i \in 1..Len(q) - 1 : (a \o b)[i] = IF i < m THEN q[i] ELSE q[i + 1]
    <3> SUFFICES ASSUME NEW i \in 1..Len(q) - 1
                 PROVE  (a \o b)[i] = IF i < m THEN q[i] ELSE q[i + 1]
      OBVIOUS
    <3>1. CASE i < m
      BY <2>4, <2>5, <2>7, <3>1
    <3>2. CASE ~(i < m)
      <4>1. i - m + 1 \in 1..Len(q) - m /\ i - m + 1 + m = i + 1
        BY <2>4, <3>2
      <4>2. (a \o b)[i] = b[i - m + 1]
        BY <2>7, <3>2
      <4>3. b[i - m + 1] = q[i - m + 1 + m]
        BY <2>6, <4>1
      <4> QED
        BY <3>2, <4>1, <4>2, <4>3
    <3> QED
      BY <3>1, <3>2
  <2> QED
    BY <2>3, <2>4, <2>7, <2>8
<1> QED
  BY <1>1, <1>2

\* Leaving a queue keeps its type and whoever else is at its head.
LEMMA RemoveFirstFacts ==
    ASSUME NEW S, NEW q \in Seq(S), NEW e
    PROVE  /\ RemoveFirst(q, e) \in Seq(S)
           /\ q # <<>> /\ Head(q) # e =>
                 RemoveFirst(q, e) # <<>> /\ Head(RemoveFirst(q, e)) = Head(q)
<1> DEFINE r == RemoveFirst(q, e)
<1>1. r \in Seq(S)
  BY RemoveFirstForm
<1>2. CASE r = q
  BY <1>2
<1>3. ASSUME NEW m \in 1..Len(q), q[m] = e, Len(r) = Len(q) - 1,
             \A i \in 1..Len(q) - 1 : r[i] = IF i < m THEN q[i] ELSE q[i + 1],
             q # <<>>, Head(q) # e
      PROVE  r # <<>> /\ Head(r) = Head(q)
  <2> HIDE DEF r
  <2>1. m # 1 /\ Len(q) >= 2 /\ Head(q) = q[1]
    BY <1>3
  <2>2. r[1] = q[1] /\ Len(r) >= 1
    BY <1>3, <2>1
  <2> QED
    BY <1>1, <2>1, <2>2
<1> QED
  BY <1>1, <1>2, <1>3, RemoveFirstForm

\* In a queue without repetitions nothing but the element leaves.
LEMMA RemoveFirstSet ==
    ASSUME NEW S, NEW q \in Seq(S), NEW e, IsInjective(q)
    PROVE  LET r == RemoveFirst(q, e) IN
           r \in Seq(S) /\ IsInjective(r) /\ ToSet(r) = ToSet(q) \ {e}
<1> DEFINE r == RemoveFirst(q, e)
<1>1. r \in Seq(S)
  BY RemoveFirstForm
<1>2. CASE e \notin ToSet(q) /\ r = q
  BY <1>2
<1>3. ASSUME NEW m \in 1..Len(q), q[m] = e, Len(r) = Len(q) - 1,
             \A i \in 1..Len(q) - 1 : r[i] = IF i < m THEN q[i] ELSE q[i + 1]
      PROVE  IsInjective(r) /\ ToSet(r) = ToSet(q) \ {e}
  <2> HIDE DEF r
  <2>1. DOMAIN q = 1..Len(q) /\ DOMAIN r = 1..Len(q) - 1 /\ Len(q) \in Nat
    BY <1>1, <1>3
  <2>2. \A i, j \in 1..Len(q) : q[i] = q[j] => i = j
    BY <2>1 DEF IsInjective
  <2>3. IsInjective(r)
    BY <1>3, <2>1, <2>2 DEF IsInjective
  <2>4. \A i \in 1..Len(q) - 1 : r[i] # e /\ \E j \in 1..Len(q) : r[i] = q[j]
    BY <1>3, <2>1, <2>2
  <2>5. \A j \in 1..Len(q) : q[j] # e => \E i \in 1..Len(q) - 1 : r[i] = q[j]
    <3> SUFFICES ASSUME NEW j \in 1..Len(q), q[j] # e
                 PROVE  \E i \in 1..Len(q) - 1 : r[i] = q[j]
      OBVIOUS
    <3>1. CASE j < m
      BY <1>3, <2>1, <3>1
    <3>2. CASE j > m
      <4>1. j - 1 \in 1..Len(q) - 1 /\ ~(j - 1 < m) /\ j - 1 + 1 = j
        BY <2>1, <3>2
      <4>2. r[j - 1] = q[j]
        BY <1>3, <4>1
      <4> QED
        BY <4>1, <4>2
    <3> QED
      BY <1>3, <3>1, <3>2
  <2> QED
    <3>1. \A x : x \in ToSet(r) <=> \E i \in 1..Len(q) - 1 : r[i] = x
      BY <2>1 DEF ToSet
    <3>2. \A x : x \in ToSet(q) <=> \E j \in 1..Len(q) : q[j] = x
      BY <2>1 DEF ToSet
    <3>3. ToSet(r) = ToSet(q) \ {e}
      <4>1. ASSUME NEW x PROVE x \in ToSet(r) => x \in ToSet(q) /\ x # e
        BY <2>4, <3>1, <3>2
      <4>2. ASSUME NEW x PROVE x \in ToSet(q) /\ x # e => x \in ToSet(r)
        BY <2>5, <3>1, <3>2
      <4> QED
        BY <4>1, <4>2
    <3> QED
      BY <2>3, <3>3
<1> QED
  BY <1>1, <1>2, <1>3, RemoveFirstForm

\* A newcomer is the only addition.
LEMMA AppendSet ==
    ASSUME NEW S, NEW q \in Seq(S), NEW e \in S, IsInjective(q), e \notin ToSet(q)
    PROVE  LET r == Append(q, e) IN
           /\ r \in Seq(S) /\ r # <<>> /\ IsInjective(r) /\ ToSet(r) = ToSet(q) \cup {e}
           /\ Len(r) = Len(q) + 1
<1> DEFINE r == Append(q, e)
<1>1. /\ r \in Seq(S) /\ Len(r) = Len(q) + 1 /\ r # <<>>
      /\ DOMAIN r = 1..Len(q) + 1 /\ DOMAIN q = 1..Len(q) /\ Len(q) \in Nat
      /\ \A i \in 1..Len(q) + 1 : r[i] = IF i = Len(q) + 1 THEN e ELSE q[i]
  OBVIOUS
<1> HIDE DEF r
<1>2. \A i \in 1..Len(q) : q[i] # e
  BY <1>1 DEF ToSet
<1>3. IsInjective(r)
  BY <1>1, <1>2 DEF IsInjective
<1>4. ToSet(r) = ToSet(q) \cup {e}
  BY <1>1 DEF ToSet
<1> QED
  BY <1>1, <1>3, <1>4 DEF r

\* The first n of a queue are n, and the others stay.
LEMMA PrefixServed ==
    ASSUME NEW S, NEW q \in Seq(S), IsInjective(q), NEW n \in 0..Len(q)
    PROVE  LET P == {q[i] : i \in 1..n}
               r == SubSeq(q, n + 1, Len(q)) IN
           /\ IsFiniteSet(P) /\ Cardinality(P) = n /\ P \subseteq ToSet(q)
           /\ r \in Seq(S) /\ IsInjective(r) /\ ToSet(r) = ToSet(q) \ P
           /\ r = <<>> <=> n = Len(q)
<1> DEFINE P == {q[i] : i \in 1..n}
           r == SubSeq(q, n + 1, Len(q))
           g == [i \in 1..n |-> q[i]]
<1>1. DOMAIN q = 1..Len(q) /\ Len(q) \in Nat /\ n \in Nat /\ 1..n \subseteq 1..Len(q)
  OBVIOUS
<1>2. \A i, j \in 1..Len(q) : q[i] = q[j] => i = j
  BY <1>1 DEF IsInjective
<1>3. IsFiniteSet(P) /\ Cardinality(P) = n
  <2>1. g \in [1..n -> P] /\ \A a, b \in 1..n : g[a] = g[b] => a = b
    BY <1>1, <1>2
  <2>2. \A t \in P : \E s \in 1..n : g[s] = t
    OBVIOUS
  <2>3. g \in Bijection(1..n, P)
    BY <2>1, <2>2, Fun_IsBij
  <2>4. ExistsBijection(1..n, P)
    BY <2>3 DEF ExistsBijection
  <2> HIDE DEF P
  <2> QED
    BY <1>1, <2>4, FS_CountingElements, FS_NatBijection
<1>4. P \subseteq ToSet(q)
  BY <1>1 DEF ToSet
<1>5. /\ r \in Seq(S) /\ Len(r) = Len(q) - n /\ DOMAIN r = 1..Len(q) - n
      /\ \A i \in 1..Len(q) - n : r[i] = q[i + n]
  <2>0. \A i \in n + 1..Len(q) : q[i] \in S
    BY <1>1
  <2>1. r \in Seq(S) /\ Len(r) = Len(q) - n
    <3>1. n + 1 \in Int /\ Len(q) \in Int
      BY <1>1
    <3>2. r \in Seq(S) /\ Len(r) = IF n + 1 <= Len(q) THEN Len(q) - (n + 1) + 1 ELSE 0
      BY <2>0, <3>1, SubSeqProperties
    <3> HIDE DEF r, P, g
    <3>3. CASE n = Len(q)
      BY <1>1, <3>2, <3>3
    <3>4. CASE n # Len(q)
      <4>1. n + 1 <= Len(q) /\ Len(q) - (n + 1) + 1 = Len(q) - n
        <5>1. \A k \in Nat : \A j \in 0..k : j # k => j + 1 <= k /\ k - (j + 1) + 1 = k - j
          OBVIOUS
        <5> QED
          BY <1>1, <3>4, <5>1
      <4> QED
        BY <3>2, <4>1
    <3> QED
      BY <3>3, <3>4
  <2>2. \A i \in 1..Len(q) - (n + 1) + 1 : r[i] = q[n + 1 + i - 1]
    BY <1>1, <2>0, SubSeqProperties
  <2> HIDE DEF r
  <2>3. \A i \in 1..Len(q) - n : i \in 1..Len(q) - (n + 1) + 1 /\ n + 1 + i - 1 = i + n
    BY <1>1
  <2> QED
    BY <2>1, <2>2, <2>3
<1> HIDE DEF r
<1>6. IsInjective(r)
  BY <1>1, <1>2, <1>5 DEF IsInjective
<1>7. ToSet(r) = ToSet(q) \ P
  <2>1. \A i \in 1..Len(q) - n : r[i] \in ToSet(q) /\ r[i] \notin P
    BY <1>1, <1>2, <1>5 DEF ToSet
  <2>2. ASSUME NEW j \in 1..Len(q), q[j] \notin P
        PROVE  \E i \in 1..Len(q) - n : r[i] = q[j]
    <3>1. j - n \in 1..Len(q) - n /\ j - n + n = j
      BY <1>1, <2>2
    <3> QED
      BY <1>5, <3>1
  <2> HIDE DEF P
  <2> QED
    BY <1>1, <1>5, <2>1, <2>2 DEF ToSet
<1>8. r = <<>> <=> n = Len(q)
  <2>1. r = <<>> <=> Len(r) = 0
    BY <1>5
  <2> HIDE DEF P
  <2>2. Len(r) = 0 <=> n = Len(q)
    BY <1>1, <1>5
  <2> QED
    BY <2>1, <2>2
<1> QED
  BY <1>3, <1>4, <1>5, <1>6, <1>7, <1>8 DEF r

\* How many there are after one member has come or gone
LEMMA CountAfter ==
    ASSUME NEW S, IsFiniteSet(S), NEW A \in SUBSET S, NEW B \in SUBSET S, NEW a \in S,
           \A x \in S : x # a => (x \in A <=> x \in B)
    PROVE  /\ Cardinality(A) \in Nat /\ Cardinality(B) \in Nat
           /\ Cardinality(B) = Cardinality(A) + (IF a \in B THEN 1 ELSE 0) - (IF a \in A THEN 1 ELSE 0)
<1>1. IsFiniteSet(A) /\ IsFiniteSet(B) /\ Cardinality(A) \in Nat /\ Cardinality(B) \in Nat
  BY FS_Subset, FS_CardinalityType
<1>2. CASE a \in A /\ a \notin B
  <2>1. B = A \ {a}
    BY <1>2
  <2> QED
    BY <1>1, <1>2, <2>1, FS_RemoveElement
<1>3. CASE a \notin A /\ a \in B
  <2>1. B = A \cup {a}
    BY <1>3
  <2> QED
    BY <1>1, <1>3, <2>1, FS_AddElement
<1>4. CASE a \in A <=> a \in B
  <2>1. B = A
    BY <1>4
  <2> QED
    BY <1>1, <1>4, <2>1
<1> QED
  BY <1>1, <1>2, <1>3, <1>4
============================================================================
