---------------------------- MODULE OpSeqProofs ----------------------------
(* What the sequence operations do to an increasing queue and its elements, *)
(* what FlattenSeq makes of a list of sequences, and sets of operations in  *)
(* the order of their numbers.                                              *)
EXTENDS OpSeq, SequencesExt, FiniteSetTheorems, SequenceTheorems, TLAPS

\* The elements of a sequence.
LEMMA InToSet ==
    ASSUME NEW S, NEW s \in Seq(S), NEW x
    PROVE  x \in ToSet(s) <=> \E i \in 1..Len(s) : s[i] = x
BY DEF ToSet

\* A sequence is a function on 1..m.
LEMMA FunctionIsSeq ==
    ASSUME NEW S, NEW m \in Nat, NEW f \in [1..m -> S]
    PROVE  f \in Seq(S)
OBVIOUS

\* push_back: the new element is last and the others keep their places.
LEMMA AppendFacts ==
    ASSUME NEW S, NEW s \in Seq(S), NEW e \in S
    PROVE  /\ Append(s, e) \in Seq(S)
           /\ Len(Append(s, e)) = Len(s) + 1
           /\ Append(s, e)[Len(s) + 1] = e
           /\ \A i \in 1..Len(s) : Append(s, e)[i] = s[i]
           /\ ToSet(Append(s, e)) = ToSet(s) \cup {e}
<1>1. /\ Append(s, e) \in Seq(S) /\ Len(Append(s, e)) = Len(s) + 1 /\ Len(s) \in Nat
      /\ Append(s, e)[Len(s) + 1] = e
      /\ \A i \in 1..Len(s) : Append(s, e)[i] = s[i]
  OBVIOUS
<1>2. ASSUME NEW x PROVE x \in ToSet(Append(s, e)) <=> x \in ToSet(s) \cup {e}
  <2>1. ASSUME x \in ToSet(Append(s, e)) PROVE x \in ToSet(s) \cup {e}
    <3>1. PICK i \in 1..Len(Append(s, e)) : Append(s, e)[i] = x
      BY <2>1, <1>1, InToSet
    <3>2. CASE i = Len(s) + 1  BY <3>1, <3>2, <1>1
    <3>3. CASE i \in 1..Len(s)  BY <3>1, <3>3, <1>1, InToSet
    <3> QED BY <3>2, <3>3, <1>1
  <2>2. ASSUME x \in ToSet(s) PROVE x \in ToSet(Append(s, e))
    <3>1. PICK i \in 1..Len(s) : s[i] = x  BY <2>2, InToSet
    <3>2. i \in 1..Len(Append(s, e)) /\ Append(s, e)[i] = x  BY <3>1, <1>1
    <3> QED BY <3>2, <1>1, InToSet
  <2>3. e \in ToSet(Append(s, e))
    <3>1. Len(s) + 1 \in DOMAIN Append(s, e)  BY <1>1
    <3> QED BY <1>1, <3>1 DEF ToSet
  <2> QED BY <2>1, <2>2, <2>3
<1> QED BY <1>1, <1>2

\* Erasing entry k of a queue in FIFO order removes that element only and keeps the order.
LEMMA RemoveAtFacts ==
    ASSUME NEW S \in SUBSET Nat, NEW s \in Seq(S), NEW k \in 1..Len(s), Increasing(s)
    PROVE  /\ RemoveAt(s, k) \in Seq(S)
           /\ Len(RemoveAt(s, k)) = Len(s) - 1
           /\ \A j \in 1..Len(s)-1 : RemoveAt(s, k)[j] = IF j < k THEN s[j] ELSE s[j+1]
           /\ ToSet(RemoveAt(s, k)) = ToSet(s) \ {s[k]}
           /\ Increasing(RemoveAt(s, k))
<1>0. Len(s) \in Nat /\ (\A i \in 1..Len(s) : s[i] \in Nat) /\ DOMAIN s = 1..Len(s) /\ s[k] \in Nat
  <2>1. Len(s) \in Nat /\ DOMAIN s = 1..Len(s) /\ \A i \in 1..Len(s) : s[i] \in S  OBVIOUS
  <2> QED BY <2>1
<1> DEFINE t == RemoveAt(s, k)
           a == SubSeq(s, 1, k - 1)
           b == SubSeq(s, k + 1, Len(s))
<1>a. a \in Seq(S) /\ Len(a) = k - 1 /\ \A j \in 1..k-1 : a[j] = s[j]
  BY <1>0, SubSeqProperties, SMTT(30)
<1>b. b \in Seq(S) /\ Len(b) = Len(s) - k /\ \A j \in 1..Len(s)-k : b[j] = s[k + j]
  <2>1. b \in Seq(S)  BY <1>0
  <2>2. Len(b) = Len(s) - k
    <3>1. PICK m \in Int : m = k + 1  BY <1>0
    <3>2. Len(s) \in Int /\ \A i \in m..Len(s) : s[i] \in S  BY <1>0, <3>1
    <3>3. Len(SubSeq(s, m, Len(s))) = IF m <= Len(s) THEN Len(s) - m + 1 ELSE 0
      BY <3>2, SubSeqProperties
    <3>4. \A n, p \in Nat : \A x :
            p <= n /\ x = (IF p + 1 <= n THEN n - (p + 1) + 1 ELSE 0) => x = n - p
      OBVIOUS
    <3>5. k \in Nat /\ Len(s) \in Nat /\ k <= Len(s)  BY <1>0
    <3> QED BY <3>1, <3>3, <3>4, <3>5, Zenon
  <2>3. \A j \in 1..Len(s)-k : b[j] = s[k + j]  BY <1>0
  <2> QED BY <2>1, <2>2, <2>3
<1> HIDE DEF a, b
<1>c. /\ t \in Seq(S) /\ Len(t) = Len(a) + Len(b)
      /\ \A j \in 1..(Len(a) + Len(b)) : t[j] = IF j <= Len(a) THEN a[j] ELSE b[j - Len(a)]
  BY <1>a, <1>b, ConcatProperties DEF RemoveAt, a, b
<1> HIDE DEF t
<1>1. /\ t \in Seq(S) /\ Len(t) = Len(s) - 1
      /\ \A j \in 1..Len(s)-1 : t[j] = IF j < k THEN s[j] ELSE s[j+1]
  <2>1. t \in Seq(S) /\ Len(t) = Len(s) - 1  BY <1>0, <1>a, <1>b, <1>c
  <2>2. ASSUME NEW j \in 1..Len(s)-1 PROVE t[j] = IF j < k THEN s[j] ELSE s[j+1]
    <3>1. CASE j < k
      <4>0. j \in 1..(Len(a) + Len(b)) /\ j <= Len(a) /\ j \in 1..k-1  BY <3>1, <1>0, <1>a, <1>b
      <4> QED BY <4>0, <3>1, <1>a, <1>c
    <3>2. CASE j >= k
      <4>0. j \in 1..(Len(a) + Len(b)) /\ ~(j <= Len(a))  BY <3>2, <1>0, <1>a, <1>b
      <4>1. t[j] = b[j - Len(a)]  BY <4>0, <1>c
      <4>2. j - (k - 1) \in 1..Len(s)-k /\ k + (j - (k - 1)) = j + 1  BY <3>2, <1>0
      <4> QED BY <4>1, <4>2, <3>2, <1>a, <1>b
    <3> QED BY <3>1, <3>2, <1>0
  <2> QED BY <2>1, <2>2
<1>2. ASSUME NEW x PROVE x \in ToSet(t) <=> x \in ToSet(s) \ {s[k]}
  <2>1. ASSUME x \in ToSet(t) PROVE x \in ToSet(s) \ {s[k]}
    <3>1. PICK j \in 1..Len(t) : t[j] = x  BY <2>1, <1>1, InToSet
    <3>2. CASE j < k
      <4>1. j \in 1..Len(s) /\ s[j] = x  BY <3>1, <3>2, <1>0, <1>1
      <4>2. s[j] < s[k]  BY <4>1, <3>2, <1>0 DEF Increasing
      <4>3. x \in ToSet(s)  BY <4>1, InToSet
      <4> QED BY <4>1, <4>2, <4>3, <1>0
    <3>3. CASE j >= k
      <4>1. j + 1 \in 1..Len(s) /\ s[j + 1] = x  BY <3>1, <3>3, <1>0, <1>1
      <4>2. s[k] < s[j + 1]  BY <4>1, <3>3, <1>0 DEF Increasing
      <4>3. x \in ToSet(s)  BY <4>1, InToSet
      <4> QED BY <4>1, <4>2, <4>3, <1>0
    <3> QED BY <3>2, <3>3, <1>0
  <2>2. ASSUME x \in ToSet(s), x # s[k] PROVE x \in ToSet(t)
    <3>1. PICK i \in 1..Len(s) : s[i] = x  BY <2>2, InToSet
    <3>2. CASE i < k
      <4>1. i \in 1..Len(t) /\ t[i] = x  BY <3>1, <3>2, <1>0, <1>1
      <4> QED BY <4>1, <1>1, InToSet
    <3>3. CASE i > k
      <4>1. i - 1 \in 1..Len(t) /\ t[i - 1] = x  BY <3>1, <3>3, <1>0, <1>1
      <4> QED BY <4>1, <1>1, InToSet
    <3> QED BY <3>1, <3>2, <3>3, <2>2, <1>0
  <2> QED BY <2>1, <2>2
<1>3. Increasing(t)
  <2> SUFFICES ASSUME NEW i \in 1..Len(t), NEW j \in 1..Len(t), i < j PROVE t[i] < t[j]
    BY <1>1 DEF Increasing
  <2> DEFINE p == IF i < k THEN i ELSE i + 1
             q == IF j < k THEN j ELSE j + 1
  <2>1. t[i] = s[p] /\ t[j] = s[q] /\ p \in 1..Len(s) /\ q \in 1..Len(s) /\ p < q  BY <1>0, <1>1
  <2> QED BY <2>1, <1>0 DEF Increasing
<1> QED BY <1>1, <1>2, <1>3 DEF t

\* pop_front of a queue in FIFO order.
LEMMA TailFacts ==
    ASSUME NEW S \in SUBSET Nat, NEW s \in Seq(S), s # <<>>, Increasing(s)
    PROVE  /\ Tail(s) \in Seq(S)
           /\ Len(s) \in Nat \ {0} /\ Len(Tail(s)) = Len(s) - 1
           /\ \A i \in 1..Len(s)-1 : Tail(s)[i] = s[i+1]
           /\ s[1] \in ToSet(s)
           /\ ToSet(Tail(s)) = ToSet(s) \ {s[1]}
           /\ Increasing(Tail(s))
<1>1. /\ Tail(s) \in Seq(S) /\ Len(Tail(s)) = Len(s) - 1 /\ Len(s) \in Nat \ {0}
      /\ \A i \in 1..Len(s)-1 : Tail(s)[i] = s[i+1]
  OBVIOUS
<1>2. 1 \in 1..Len(s) /\ s[1] \in ToSet(s)
  BY <1>1, InToSet
<1>3. PICK t : t = RemoveAt(s, 1)  OBVIOUS
<1>5. /\ t \in Seq(S) /\ Len(t) = Len(s) - 1
      /\ \A j \in 1..Len(s)-1 : t[j] = (IF j < 1 THEN s[j] ELSE s[j+1])
      /\ ToSet(t) = ToSet(s) \ {s[1]} /\ Increasing(t)
  BY <1>2, <1>3, RemoveAtFacts
<1>4. Tail(s) = t
  <2>1. \A j \in 1..Len(t) : Tail(s)[j] = t[j]  BY <1>1, <1>5
  <2> QED BY <1>1, <1>5, <2>1, SeqEqual
<1> QED BY <1>1, <1>2, <1>4, <1>5

\* A queue in FIFO order has as many elements as entries.
LEMMA CardOfIncreasing ==
    ASSUME NEW S \in SUBSET Nat, NEW s \in Seq(S), Increasing(s)
    PROVE  IsFiniteSet(ToSet(s)) /\ Cardinality(ToSet(s)) = Len(s)
<1>1. Len(s) \in Nat /\ s \in [1..Len(s) -> S]  OBVIOUS
<1>2. s \in [1..Len(s) -> ToSet(s)]  BY <1>1, InToSet
<1>3. IsFiniteSet(1..Len(s)) /\ Cardinality(1..Len(s)) = Len(s)
  <2>1. 1 \in Int /\ Len(s) \in Int  BY <1>1
  <2>2. IsFiniteSet(1..Len(s)) /\ Cardinality(1..Len(s)) = IF 1 > Len(s) THEN 0 ELSE Len(s) - 1 + 1
    BY <2>1, FS_Interval
  <2> QED BY <2>2, <1>1
<1>4. \A i, j \in 1..Len(s) : s[i] = s[j] => i = j
  <2> SUFFICES ASSUME NEW i \in 1..Len(s), NEW j \in 1..Len(s), s[i] = s[j] PROVE i = j  OBVIOUS
  <2>1. s[i] \in Nat /\ i \in DOMAIN s /\ j \in DOMAIN s  BY <1>1
  <2>2. ~(i < j) /\ ~(j < i)  BY <2>1 DEF Increasing
  <2> QED BY <2>2
<1>5. \A x \in ToSet(s) : \E i \in 1..Len(s) : s[i] = x  BY InToSet
<1>6. s \in Bijection(1..Len(s), ToSet(s))
  BY <1>2, <1>4, <1>5 DEF Bijection, Injection, Surjection, IsInjective
<1>7. ExistsBijection(1..Len(s), ToSet(s))  BY <1>6 DEF ExistsBijection
<1> QED BY <1>3, <1>7, FS_Bijection, FS_SameCardinalityBij

\* Two queues in FIFO order that hold the oldest operation both have it in front.
LEMMA FrontOfIncreasing ==
    ASSUME NEW S \in SUBSET Nat, NEW s \in Seq(S), NEW t \in Seq(S), Increasing(s), Increasing(t),
           s # <<>>, ToSet(t) \subseteq ToSet(s), s[1] \in ToSet(t)
    PROVE  t # <<>> /\ t[1] = s[1]
<1>1. Len(s) \in Nat /\ Len(t) \in Nat /\ (\A i \in 1..Len(s) : s[i] \in Nat) /\ (\A i \in 1..Len(t) : t[i] \in Nat)
  <2>1. Len(s) \in Nat /\ \A i \in 1..Len(s) : s[i] \in S  OBVIOUS
  <2>2. Len(t) \in Nat /\ \A i \in 1..Len(t) : t[i] \in S  OBVIOUS
  <2> QED BY <2>1, <2>2
<1>2. PICK i \in 1..Len(t) : t[i] = s[1]  BY InToSet
<1>3. 1 \in 1..Len(t) /\ t # <<>>  BY <1>1, <1>2
<1>4. PICK j \in 1..Len(s) : s[j] = t[1]  BY <1>3, InToSet
<1>5. 1 \in 1..Len(s)  BY <1>1, <1>4
<1>6. ~(1 < i) \/ t[1] < t[i]  BY <1>3 DEF Increasing
<1>7. ~(1 < j) \/ s[1] < s[j]  BY <1>5 DEF Increasing
<1>8. t[1] \in Nat /\ s[1] \in Nat  BY <1>1, <1>3, <1>5
<1>9. CASE i = 1  BY <1>2, <1>3, <1>9
<1>10. CASE j = 1  BY <1>3, <1>4, <1>10
<1> QED BY <1>2, <1>3, <1>4, <1>6, <1>7, <1>8, <1>9, <1>10

\* An empty sequence is one without elements.
LEMMA EmptyQueue ==
    ASSUME NEW S, NEW s \in Seq(S)
    PROVE  s = <<>> <=> ToSet(s) = {}
<1>1. ASSUME s # <<>> PROVE s[1] \in ToSet(s)
  <2>1. 1 \in 1..Len(s)  BY <1>1
  <2> QED BY <2>1, InToSet
<1>2. ASSUME s = <<>>, NEW x \in ToSet(s) PROVE FALSE
  <2>1. PICK i \in 1..Len(s) : s[i] = x  BY <1>2, InToSet
  <2>2. Len(s) = 0  BY <1>2
  <2> QED BY <2>1, <2>2
<1> QED BY <1>1, <1>2

\* The newest entry of a queue is its greatest.
LEMMA LastOfIncreasing ==
    ASSUME NEW S \in SUBSET Nat, NEW s \in Seq(S), Increasing(s), s # <<>>
    PROVE  s[Len(s)] \in ToSet(s) /\ \A x \in ToSet(s) : x <= s[Len(s)]
<1>1. Len(s) \in Nat \ {0} /\ Len(s) \in 1..Len(s) /\ DOMAIN s = 1..Len(s)  OBVIOUS
<1>2. \A i \in 1..Len(s) : s[i] \in Nat
  <2>1. \A i \in 1..Len(s) : s[i] \in S  OBVIOUS
  <2> QED BY <2>1
<1>3. \A i \in 1..Len(s) : s[i] <= s[Len(s)]  BY <1>1, <1>2 DEF Increasing
<1> QED BY <1>1, <1>3, InToSet

\* ... and the oldest its least.
LEMMA FirstOfIncreasing ==
    ASSUME NEW S \in SUBSET Nat, NEW s \in Seq(S), Increasing(s), s # <<>>
    PROVE  s[1] \in ToSet(s) /\ \A x \in ToSet(s) : s[1] <= x
<1>1. Len(s) \in Nat \ {0} /\ 1 \in 1..Len(s) /\ DOMAIN s = 1..Len(s)  OBVIOUS
<1>2. \A i \in 1..Len(s) : s[i] \in Nat
  <2>1. \A i \in 1..Len(s) : s[i] \in S  OBVIOUS
  <2> QED BY <2>1
<1>3. \A i \in 1..Len(s) : s[1] <= s[i]  BY <1>1, <1>2 DEF Increasing
<1> QED BY <1>1, <1>3, InToSet

\* Appending one queue to another.
LEMMA ConcatFacts ==
    ASSUME NEW S \in SUBSET Nat, NEW s \in Seq(S), NEW t \in Seq(S)
    PROVE  /\ s \o t \in Seq(S) /\ ToSet(s \o t) = ToSet(s) \cup ToSet(t)
           /\ Increasing(s) /\ Increasing(t) /\ (\A x \in ToSet(s), y \in ToSet(t) : x < y) => Increasing(s \o t)
           /\ IsInjective(s) /\ IsInjective(t) /\ ToSet(s) \cap ToSet(t) = {} => IsInjective(s \o t)
<1> DEFINE c == s \o t
<1>1. /\ c \in Seq(S) /\ Len(c) = Len(s) + Len(t) /\ Len(s) \in Nat /\ Len(t) \in Nat
      /\ \A i \in 1..Len(c) : c[i] = IF i <= Len(s) THEN s[i] ELSE t[i - Len(s)]
  OBVIOUS
<1>2. DOMAIN c = 1..Len(c) /\ DOMAIN s = 1..Len(s) /\ DOMAIN t = 1..Len(t)  OBVIOUS
<1> HIDE DEF c
<1>3. \A i \in 1..Len(c) : \/ i \in 1..Len(s) /\ c[i] = s[i]
                           \/ i - Len(s) \in 1..Len(t) /\ c[i] = t[i - Len(s)] /\ i > Len(s)
  BY <1>1
<1>4. ToSet(c) \subseteq ToSet(s) \cup ToSet(t)
  <2> SUFFICES ASSUME NEW x \in ToSet(c) PROVE x \in ToSet(s) \cup ToSet(t)  OBVIOUS
  <2>1. PICK i \in 1..Len(c) : c[i] = x  BY <1>1, InToSet
  <2> QED BY <1>3, <2>1, InToSet
<1>5. ToSet(s) \cup ToSet(t) \subseteq ToSet(c)
  <2>1. ASSUME NEW x \in ToSet(s) PROVE x \in ToSet(c)
    <3>1. PICK i \in 1..Len(s) : s[i] = x  BY InToSet
    <3>2. i \in 1..Len(c) /\ c[i] = x  BY <1>1, <3>1
    <3> QED BY <1>1, <3>2, InToSet
  <2>2. ASSUME NEW x \in ToSet(t) PROVE x \in ToSet(c)
    <3>1. PICK i \in 1..Len(t) : t[i] = x  BY InToSet
    <3>2. PICK k \in 1..Len(c) : k = Len(s) + i  BY <1>1, <3>1
    <3>3. k > Len(s) /\ k - Len(s) = i  BY <1>1, <3>2
    <3>4. c[k] = x  BY <1>1, <3>1, <3>3
    <3> QED BY <1>1, <3>4, InToSet
  <2> QED BY <2>1, <2>2
<1>6. /\ \A i \in 1..Len(s) : s[i] \in ToSet(s)
      /\ \A i \in 1..Len(t) : t[i] \in ToSet(t)
  BY InToSet
<1>7. ASSUME Increasing(s), Increasing(t), \A x \in ToSet(s), y \in ToSet(t) : x < y PROVE Increasing(c)
  <2> SUFFICES ASSUME NEW i \in 1..Len(c), NEW j \in 1..Len(c), i < j PROVE c[i] < c[j]
    BY <1>2 DEF Increasing
  <2>1. CASE j <= Len(s)
    <3>1. i \in 1..Len(s) /\ j \in 1..Len(s) /\ c[i] = s[i] /\ c[j] = s[j]  BY <1>1, <2>1
    <3> QED BY <1>2, <1>7, <3>1 DEF Increasing
  <2>2. CASE i > Len(s)
    <3>1. j > Len(s) /\ i - Len(s) < j - Len(s)  BY <1>1, <2>2
    <3>2. /\ i - Len(s) \in 1..Len(t) /\ c[i] = t[i - Len(s)]
          /\ j - Len(s) \in 1..Len(t) /\ c[j] = t[j - Len(s)]
      BY <1>1, <1>3, <2>2, <3>1
    <3> QED BY <1>2, <1>7, <3>1, <3>2 DEF Increasing
  <2>3. CASE i <= Len(s) /\ j > Len(s)
    <3>1. c[i] \in ToSet(s) /\ c[j] \in ToSet(t)  BY <1>1, <1>3, <1>6, <2>3
    <3> QED BY <1>7, <3>1
  <2> QED BY <1>1, <2>1, <2>2, <2>3
<1>8. ASSUME IsInjective(s), IsInjective(t), ToSet(s) \cap ToSet(t) = {} PROVE IsInjective(c)
  <2> SUFFICES ASSUME NEW i \in 1..Len(c), NEW j \in 1..Len(c), c[i] = c[j] PROVE i = j
    BY <1>2 DEF IsInjective
  <2>1. CASE i \in 1..Len(s) /\ j \in 1..Len(s)
    <3>1. c[i] = s[i] /\ c[j] = s[j]  BY <1>1, <2>1
    <3> QED BY <1>2, <1>8, <2>1, <3>1 DEF IsInjective
  <2>2. CASE i > Len(s) /\ j > Len(s)
    <3>1. /\ i - Len(s) \in 1..Len(t) /\ c[i] = t[i - Len(s)]
          /\ j - Len(s) \in 1..Len(t) /\ c[j] = t[j - Len(s)]
      BY <1>1, <1>3, <2>2
    <3>2. i - Len(s) = j - Len(s)  BY <1>2, <1>8, <3>1 DEF IsInjective
    <3> QED BY <1>1, <3>2
  <2>3. CASE i <= Len(s) /\ j > Len(s)
    <3>1. c[i] = s[i] /\ i \in 1..Len(s)  BY <1>1, <2>3
    <3>2. c[j] = t[j - Len(s)] /\ j - Len(s) \in 1..Len(t)  BY <1>1, <1>3, <2>3
    <3> QED BY <1>6, <1>8, <3>1, <3>2
  <2>4. CASE j <= Len(s) /\ i > Len(s)
    <3>1. c[j] \in ToSet(s) /\ c[i] \in ToSet(t)  BY <1>1, <1>3, <1>6, <2>4
    <3> QED BY <1>8, <3>1
  <2> QED BY <1>1, <2>1, <2>2, <2>3, <2>4
<1> QED BY <1>1, <1>4, <1>5, <1>7, <1>8 DEF c

\* A history that is extended by something new.
LEMMA AppendNew ==
    ASSUME NEW S, NEW s \in Seq(S), NEW e \in S, IsInjective(s), e \notin ToSet(s)
    PROVE  IsInjective(Append(s, e))
<1> DEFINE c == Append(s, e)
<1>1. c \in Seq(S) /\ Len(c) = Len(s) + 1 /\ c[Len(s) + 1] = e /\ \A i \in 1..Len(s) : c[i] = s[i]
  BY AppendFacts
<1>2. \A i \in 1..Len(s) : s[i] # e  BY InToSet
<1>3. Len(s) \in Nat /\ DOMAIN s = 1..Len(s)  OBVIOUS
<1> HIDE DEF c
<1>4. DOMAIN c = 1..(Len(s) + 1)  BY <1>1
<1>5. IsInjective(c)  BY <1>1, <1>2, <1>3, <1>4 DEF IsInjective
<1> QED BY <1>5 DEF c

\* A queue in order holds nothing twice.
LEMMA IncreasingIsInjective ==
    ASSUME NEW S \in SUBSET Nat, NEW s \in Seq(S), Increasing(s)
    PROVE  IsInjective(s)
<1>1. \A i \in DOMAIN s : s[i] \in Nat /\ i \in Nat
  <2>1. DOMAIN s = 1..Len(s) /\ Len(s) \in Nat  OBVIOUS
  <2>2. \A i \in 1..Len(s) : s[i] \in S  OBVIOUS
  <2>3. \A x \in S : x \in Nat  OBVIOUS
  <2>4. \A i \in 1..Len(s) : i \in Nat  BY <2>1
  <2> QED BY <2>1, <2>2, <2>3, <2>4
<1>2. ASSUME NEW i \in DOMAIN s, NEW j \in DOMAIN s, s[i] = s[j] PROVE i = j
  <2>1. ~(i < j) /\ ~(j < i)  BY <1>1, <1>2 DEF Increasing
  <2> QED BY <1>1, <2>1
<1> QED BY <1>2 DEF IsInjective
-----------------------------------------------------------------------------
(* FlattenSeq, by induction: a counterexample would be least somewhere. *)

\* A set of natural numbers that is not empty has a least one.
LEMMA LeastNat ==
    ASSUME NEW T \in SUBSET Nat, T # {}
    PROVE  \E m \in T : \A n \in T : m <= n
<1> DEFINE R == {ss \in Nat \X Nat : ss[1] < ss[2]}
<1>1. IsWellFoundedOn(R, Nat)  BY NatLessThanWellFounded DEF OpToRel
<1> HIDE DEF R
<1>2. PICK m \in T : \A n \in T : ~ (<<n, m>> \in R)  BY <1>1, WFMin
<1>3. ASSUME NEW n \in T PROVE m <= n
  <2>1. m \in Nat /\ n \in Nat  OBVIOUS
  <2>2. n < m => <<n, m>> \in R  BY <2>1 DEF R
  <2> QED BY <1>2, <2>1, <2>2
<1> QED BY <1>3

\* f is what FlattenSeq computes along s, up to position n.
Flattens(f, s, n) ==
    /\ DOMAIN f = 1..n
    /\ \A i \in 1..n : f[i] = IF i = 1 THEN s[i] ELSE f[i - 1] \o s[i]

\* There is such a function ...
LEMMA FlattensExists ==
    ASSUME NEW S, NEW s \in Seq(Seq(S))
    PROVE  \A n \in 1..Len(s) : \E f \in [1..n -> Seq(S)] : Flattens(f, s, n)
<1> DEFINE Bad == {n \in 1..Len(s) : ~\E f \in [1..n -> Seq(S)] : Flattens(f, s, n)}
<1> SUFFICES ASSUME Bad # {} PROVE FALSE  OBVIOUS
<1>0. Len(s) \in Nat /\ Bad \in SUBSET Nat  OBVIOUS
<1>1. PICK m \in Bad : \A n \in Bad : m <= n  BY <1>0, LeastNat
<1>2. m \in Nat /\ m \in 1..Len(s) /\ s[m] \in Seq(S)  OBVIOUS
<1>3. CASE m = 1
  <2>1. [i \in 1..1 |-> s[1]] \in [1..1 -> Seq(S)]  BY <1>2, <1>3
  <2>2. Flattens([i \in 1..1 |-> s[1]], s, 1)  BY DEF Flattens
  <2> QED BY <1>3, <2>1, <2>2
<1>4. CASE m # 1
  <2>1. m - 1 \in 1..Len(s)  BY <1>0, <1>2, <1>4
  <2>a. m - 1 \notin Bad
    <3> HIDE DEF Bad
    <3> QED BY <1>1, <1>2
  <2>2. PICK f \in [1..(m - 1) -> Seq(S)] : Flattens(f, s, m - 1)  BY <2>1, <2>a
  <2> DEFINE g == [i \in 1..m |-> IF i = m THEN f[m - 1] \o s[m] ELSE f[i]]
  <2>3. f[m - 1] \o s[m] \in Seq(S)
    <3>1. f[m - 1] \in Seq(S)  BY <1>2, <1>4
    <3> QED BY <1>2, <3>1
  <2>4. g \in [1..m -> Seq(S)]  BY <1>2, <2>3
  <2>5. Flattens(g, s, m)
    <3> SUFFICES ASSUME NEW i \in 1..m
                 PROVE  g[i] = IF i = 1 THEN s[i] ELSE g[i - 1] \o s[i]
      BY DEF Flattens
    <3>1. CASE i = m
      <4>0. i # 1 /\ m - 1 # m /\ m - 1 \in 1..m  BY <1>2, <1>4, <3>1
      <4>1. g[i] = f[m - 1] \o s[m]  BY <3>1
      <4>2. g[m - 1] = f[m - 1]  BY <4>0
      <4> HIDE DEF g
      <4> QED BY <3>1, <4>0, <4>1, <4>2
    <3>2. CASE i = 1
      <4>1. g[1] = f[1] /\ 1 \in 1..(m - 1)  BY <1>2, <1>4, <3>2
      <4> QED BY <2>2, <3>2, <4>1 DEF Flattens
    <3>3. CASE i # m /\ i # 1
      <4>1. i \in 1..(m - 1) /\ i - 1 \in 1..m /\ i - 1 # m  BY <1>2, <3>3
      <4>2. g[i] = f[i] /\ g[i - 1] = f[i - 1]  BY <4>1, <3>3
      <4>3. f[i] = f[i - 1] \o s[i]  BY <2>2, <3>3, <4>1 DEF Flattens
      <4> HIDE DEF g
      <4> QED BY <3>3, <4>2, <4>3
    <3> QED BY <3>1, <3>2, <3>3
  <2> QED BY <2>4, <2>5
<1> QED BY <1>3, <1>4

\* ... and only one.
LEMMA FlattensUnique ==
    ASSUME NEW s, NEW f, NEW g, NEW n \in Nat, Flattens(f, s, n), Flattens(g, s, n)
    PROVE  \A i \in 1..n : f[i] = g[i]
<1> DEFINE Bad == {i \in 1..n : f[i] # g[i]}
<1> SUFFICES ASSUME Bad # {} PROVE FALSE  OBVIOUS
<1>1. PICK k \in Bad : \A i \in Bad : k <= i
  <2>1. Bad \in SUBSET Nat  OBVIOUS
  <2> QED BY <2>1, LeastNat
<1>2. k \in 1..n /\ k \in Nat  OBVIOUS
<1>3. CASE k = 1  BY <1>2, <1>3 DEF Flattens
<1>4. CASE k # 1
  <2>1. k - 1 \in 1..n /\ k - 1 \notin Bad  BY <1>1, <1>2, <1>4
  <2>2. f[k] = f[k - 1] \o s[k] /\ g[k] = g[k - 1] \o s[k]  BY <1>2, <1>4 DEF Flattens
  <2> QED BY <1>2, <2>1, <2>2
<1> QED BY <1>3, <1>4

\* FlattenSeq is its last value.
LEMMA FlattenIs ==
    ASSUME NEW S, NEW s \in Seq(Seq(S)), Len(s) # 0
    PROVE  \E f \in [1..Len(s) -> Seq(S)] : Flattens(f, s, Len(s)) /\ FlattenSeq(s) = f[Len(s)]
<1> DEFINE Def(f) == f = [i \in 1..Len(s) |-> IF i = 1 THEN s[i] ELSE f[i - 1] \o s[i]]
<1> DEFINE fl == CHOOSE f : Def(f)
<1>0. Len(s) \in Nat /\ Len(s) \in 1..Len(s)  OBVIOUS
<1>1. PICK f \in [1..Len(s) -> Seq(S)] : Flattens(f, s, Len(s))  BY <1>0, FlattensExists
<1>2. Def(f)  BY <1>1 DEF Flattens
<1>3. Def(fl)  BY <1>2
<1>4. FlattenSeq(s) = fl[Len(s)]  BY DEF FlattenSeq
<1>5. Flattens(fl, s, Len(s))
  <2> HIDE DEF fl
  <2> QED BY <1>3 DEF Flattens
<1>6. \A i \in 1..Len(s) : fl[i] = f[i]
  <2> HIDE DEF fl
  <2> QED BY <1>0, <1>1, <1>5, FlattensUnique
<1> HIDE DEF fl
<1> QED BY <1>0, <1>1, <1>4, <1>6

\* No sequences.
LEMMA FlattenEmpty == FlattenSeq(<<>>) = <<>>
BY DEF FlattenSeq

\* The elements of the result are elements of the sequences.
LEMMA FlattenType ==
    ASSUME NEW S, NEW s \in Seq(Seq(S))
    PROVE  FlattenSeq(s) \in Seq(S)
<1>1. CASE Len(s) = 0
  <2>1. s = <<>>  BY <1>1, EmptySeq
  <2>2. <<>> \in Seq(S)  OBVIOUS
  <2> QED BY ONLY <2>1, <2>2, FlattenEmpty
<1>2. CASE Len(s) # 0
  <2>1. PICK f \in [1..Len(s) -> Seq(S)] : FlattenSeq(s) = f[Len(s)]  BY <1>2, FlattenIs
  <2>2. Len(s) \in 1..Len(s)  BY <1>2
  <2> QED BY <2>1, <2>2
<1> QED BY <1>1, <1>2

\* One more sequence is appended.
LEMMA FlattenAppend ==
    ASSUME NEW S, NEW s \in Seq(Seq(S)), NEW x \in Seq(S)
    PROVE  FlattenSeq(Append(s, x)) = FlattenSeq(s) \o x
<1> DEFINE t == Append(s, x)
           n == Len(s)
<1>1. t \in Seq(Seq(S)) /\ Len(t) = n + 1 /\ n \in Nat /\ t[n + 1] = x /\ \A i \in 1..n : t[i] = s[i]
  OBVIOUS
<1> HIDE DEF t
<1>2. Len(t) # 0  BY <1>1
<1>3. PICK g \in [1..Len(t) -> Seq(S)] : Flattens(g, t, Len(t)) /\ FlattenSeq(t) = g[Len(t)]
  BY <1>1, <1>2, FlattenIs
<1>4. CASE n = 0
  <2>1. s = <<>>  BY <1>4, EmptySeq
  <2>2. FlattenSeq(t) = t[1]  BY <1>1, <1>3, <1>4 DEF Flattens
  <2>3. FlattenSeq(s) \o x = x  BY <2>1, FlattenEmpty
  <2> QED BY <1>1, <1>4, <2>2, <2>3 DEF t
<1>5. CASE n # 0
  <2>1. PICK f \in [1..n -> Seq(S)] : Flattens(f, s, n) /\ FlattenSeq(s) = f[n]  BY <1>5, FlattenIs
  <2>2. \A i \in 1..n : f[i] = g[i]
    <3> DEFINE h == [i \in 1..n |-> g[i]]
    <3>1. Flattens(h, s, n)
      <4>1. ASSUME NEW i \in 1..n PROVE h[i] = IF i = 1 THEN s[i] ELSE h[i - 1] \o s[i]
        <5>1. i \in 1..Len(t) /\ (i # 1 => i - 1 \in 1..n)  BY <1>1
        <5>2. g[i] = IF i = 1 THEN t[i] ELSE g[i - 1] \o t[i]  BY <1>3, <5>1 DEF Flattens
        <5>3. h[i] = g[i] /\ (i # 1 => h[i - 1] = g[i - 1]) /\ t[i] = s[i]  BY <1>1, <5>1
        <5> HIDE DEF h
        <5> QED BY <5>2, <5>3
      <4>2. DOMAIN h = 1..n  OBVIOUS
      <4> HIDE DEF h
      <4> QED BY <4>1, <4>2 DEF Flattens
    <3>2. \A i \in 1..n : f[i] = h[i]
      <4> HIDE DEF h
      <4> QED BY <1>1, <2>1, <3>1, FlattensUnique
    <3> QED BY <3>2
  <2>3. n \in 1..n /\ n + 1 # 1 /\ n + 1 \in 1..(n + 1) /\ (n + 1) - 1 = n  BY <1>1, <1>5
  <2>4. g[n + 1] = g[(n + 1) - 1] \o t[n + 1]  BY <1>1, <1>3, <2>3 DEF Flattens
  <2>5. g[n + 1] = g[n] \o x  BY <1>1, <2>3, <2>4
  <2>6. FlattenSeq(t) = FlattenSeq(s) \o x  BY ONLY <1>1, <1>3, <2>1, <2>2, <2>3, <2>5
  <2> QED BY <2>6 DEF t
<1> QED BY <1>4, <1>5

\* Two lists of sequences one after the other.
LEMMA FlattenConcat ==
    ASSUME NEW S, NEW s \in Seq(Seq(S)), NEW t \in Seq(Seq(S))
    PROVE  FlattenSeq(s \o t) = FlattenSeq(s) \o FlattenSeq(t)
<1> DEFINE P(n) == SubSeq(t, 1, n)
           Good(n) == FlattenSeq(s \o P(n)) = FlattenSeq(s) \o FlattenSeq(P(n))
           Bad == {n \in 0..Len(t) : ~Good(n)}
<1>0. Len(t) \in Nat /\ t = P(Len(t))  OBVIOUS
<1> SUFFICES ASSUME Bad # {} PROVE FALSE
  <2>1. Len(t) \notin Bad  OBVIOUS
  <2> HIDE DEF P
  <2> QED BY <2>1, <1>0
<1> HIDE DEF Good, P
<1>1. PICK m \in Bad : \A n \in Bad : m <= n
  <2>1. Bad \in SUBSET Nat  BY <1>0
  <2> QED BY <2>1, LeastNat
<1>2. m \in 0..Len(t) /\ m \in Nat /\ ~Good(m)  BY <1>0
<1>3. CASE m = 0
  <2>1. P(0) = <<>>  BY DEF P
  <2>2. FlattenSeq(s) \in Seq(S)  BY FlattenType
  <2>3. s \o <<>> = s /\ FlattenSeq(s) \o <<>> = FlattenSeq(s)  BY <2>2, ConcatEmptySeq
  <2>4. FlattenSeq(P(0)) = <<>>  BY <2>1, FlattenEmpty
  <2> QED BY <1>2, <1>3, <2>1, <2>3, <2>4 DEF Good
<1>4. CASE m # 0
  <2>1. m - 1 \in 0..Len(t) /\ m \in 1..Len(t)  BY <1>0, <1>2, <1>4
  <2>2. m - 1 \notin Bad
    <3> HIDE DEF Bad
    <3> QED BY <1>1, <1>2
  <2>3. Good(m - 1)  BY <2>1, <2>2
  <2>4. t[m] \in Seq(S)  BY <2>1
  <2>5. P(m - 1) \in Seq(Seq(S)) /\ P(m) \in Seq(Seq(S))  BY <2>1 DEF P
  <2>6. P(m) = Append(P(m - 1), t[m])  BY <2>1, SubSeqRecursiveSecond DEF P
  <2>7. s \o P(m) = Append(s \o P(m - 1), t[m])
    <3>1. PICK p \in Seq(Seq(S)), x \in Seq(S) : p = P(m - 1) /\ x = t[m]  BY <2>4, <2>5
    <3>2. s \o Append(p, x) = Append(s \o p, x)  BY ONLY s \in Seq(Seq(S)), p \in Seq(Seq(S)), x \in Seq(S)
    <3> QED BY <2>6, <3>1, <3>2
  <2>8. s \o P(m - 1) \in Seq(Seq(S))  BY <2>5
  <2>9. FlattenSeq(s \o P(m)) = FlattenSeq(s \o P(m - 1)) \o t[m]  BY <2>4, <2>7, <2>8, FlattenAppend
  <2>10. FlattenSeq(P(m)) = FlattenSeq(P(m - 1)) \o t[m]  BY <2>4, <2>5, <2>6, FlattenAppend
  <2>11. FlattenSeq(s) \in Seq(S) /\ FlattenSeq(P(m - 1)) \in Seq(S)  BY <2>5, FlattenType
  <2>12. (FlattenSeq(s) \o FlattenSeq(P(m - 1))) \o t[m] = FlattenSeq(s) \o (FlattenSeq(P(m - 1)) \o t[m])
    <3>1. PICK a \in Seq(S), b \in Seq(S), c \in Seq(S) :
              a = FlattenSeq(s) /\ b = FlattenSeq(P(m - 1)) /\ c = t[m]
      BY <2>4, <2>11
    <3>2. (a \o b) \o c = a \o (b \o c)  BY ONLY a \in Seq(S), b \in Seq(S), c \in Seq(S), ConcatAssociative
    <3> QED BY <3>1, <3>2
  <2> QED BY <1>2, <2>3, <2>9, <2>10, <2>12 DEF Good
<1> QED BY <1>3, <1>4

\* Nothing but empty sequences.
LEMMA FlattenNothing ==
    ASSUME NEW S, NEW s \in Seq(Seq(S)), \A i \in 1..Len(s) : s[i] = <<>>
    PROVE  FlattenSeq(s) = <<>>
<1>1. CASE Len(s) = 0
  <2>1. s = <<>>  BY <1>1, EmptySeq
  <2> QED BY <2>1, FlattenEmpty
<1>2. CASE Len(s) # 0
  <2>1. PICK f \in [1..Len(s) -> Seq(S)] : Flattens(f, s, Len(s)) /\ FlattenSeq(s) = f[Len(s)]
    BY <1>2, FlattenIs
  <2> DEFINE Bad == {i \in 1..Len(s) : f[i] # <<>>}
  <2>2. Len(s) \in Nat /\ Len(s) \in 1..Len(s)  BY <1>2
  <2> SUFFICES ASSUME Bad # {} PROVE FALSE  BY <2>1, <2>2
  <2>3. PICK m \in Bad : \A n \in Bad : m <= n
    <3>1. Bad \in SUBSET Nat  BY <2>2
    <3> QED BY <3>1, LeastNat
  <2>4. m \in Nat /\ m \in 1..Len(s) /\ f[m] # <<>> /\ s[m] = <<>>  OBVIOUS
  <2>5. m # 1  BY <2>1, <2>4 DEF Flattens
  <2>6. m - 1 \in 1..Len(s)  BY <2>2, <2>4, <2>5
  <2>7. m - 1 \notin Bad
    <3> HIDE DEF Bad
    <3> QED BY <2>3, <2>4
  <2>8. f[m - 1] = <<>>  BY <2>6, <2>7
  <2>9. f[m] = f[m - 1] \o s[m]  BY <2>1, <2>4, <2>5 DEF Flattens
  <2>10. <<>> \o <<>> = <<>>  OBVIOUS
  <2> QED BY <2>4, <2>8, <2>9, <2>10
<1> QED BY <1>1, <1>2

\* One sequence.
LEMMA FlattenSingle ==
    ASSUME NEW S, NEW x \in Seq(S)
    PROVE  FlattenSeq(<<x>>) = x
<1>1. <<>> \in Seq(Seq(S)) /\ <<x>> = Append(<<>>, x)  OBVIOUS
<1>2. FlattenSeq(Append(<<>>, x)) = FlattenSeq(<<>>) \o x  BY <1>1, FlattenAppend
<1>3. <<>> \o x = x  BY ConcatEmptySeq
<1> QED BY <1>1, <1>2, <1>3, FlattenEmpty

\* The sequences before and after the first k.
LEMMA FlattenSplit ==
    ASSUME NEW S, NEW s \in Seq(Seq(S)), NEW k \in 0..Len(s)
    PROVE  /\ SubSeq(s, 1, k) \in Seq(Seq(S)) /\ SubSeq(s, k + 1, Len(s)) \in Seq(Seq(S))
           /\ FlattenSeq(s) = FlattenSeq(SubSeq(s, 1, k)) \o FlattenSeq(SubSeq(s, k + 1, Len(s)))
<1>0. Len(s) \in Nat /\ k \in Nat  OBVIOUS
<1>1. SubSeq(s, 1, k) \in Seq(Seq(S)) /\ SubSeq(s, k + 1, Len(s)) \in Seq(Seq(S))  BY <1>0
<1>2. SubSeq(s, 1, k) \o SubSeq(s, k + 1, Len(s)) = s
  <2>1. 1 \in 1..(Len(s) + 1) /\ k \in (1 - 1)..Len(s) /\ Len(s) \in k..Len(s)  BY <1>0
  <2>2. SubSeq(s, 1, k) \o SubSeq(s, k + 1, Len(s)) = SubSeq(s, 1, Len(s))  BY <2>1, ConcatAdjacentSubSeq
  <2> QED BY <2>2, SubSeqFull
<1> QED BY <1>1, <1>2, FlattenConcat

\* The lists s and t of sequences are the same but for the j-th.
DifferAt(s, t, j) ==
    /\ Len(t) = Len(s) /\ j \in 1..Len(s)
    /\ \A i \in 1..Len(s) : i # j => t[i] = s[i]

\* The sequences before the j-th are empty.
EmptyBefore(s, j) == \A i \in 1..(j - 1) : s[i] = <<>>

\* One of the sequences is replaced.
LEMMA FlattenReplace ==
    ASSUME NEW S, NEW s \in Seq(Seq(S)), NEW t \in Seq(Seq(S)), NEW j, DifferAt(s, t, j)
    PROVE  \E a \in Seq(S), b \in Seq(S) :
               /\ FlattenSeq(s) = (a \o s[j]) \o b /\ FlattenSeq(t) = (a \o t[j]) \o b
               /\ EmptyBefore(s, j) => a = <<>>
               /\ j = Len(s) => b = <<>>
<1> DEFINE p == SubSeq(s, 1, j - 1)
           q == SubSeq(s, j + 1, Len(s))
<1>0. Len(s) \in Nat /\ j \in Nat /\ j \in 1..Len(s) /\ s[j] \in Seq(S) /\ t[j] \in Seq(S)  BY DEF DifferAt
<1>1. p \in Seq(Seq(S)) /\ q \in Seq(Seq(S))  BY <1>0
<1>2. PICK a \in Seq(S), b \in Seq(S) : a = FlattenSeq(p) /\ b = FlattenSeq(q)  BY <1>1, FlattenType
<1>3. ASSUME NEW u \in Seq(Seq(S)), Len(u) = Len(s), \A i \in 1..Len(s) : i # j => u[i] = s[i]
      PROVE  FlattenSeq(u) = (a \o u[j]) \o b
  <2>0. u[j] \in Seq(S)  BY <1>0, <1>3
  <2>1. SubSeq(u, 1, j) = Append(p, u[j])
    <3>1. SubSeq(u, 1, j) = SubSeq(u, 1, j - 1) \o <<u[j]>>
      <4>1. 1 \in 1..Len(u) /\ j \in 1..Len(u)  BY <1>0, <1>3
      <4> QED BY <4>1, SubSeqRecursiveSecond
    <3>2. SubSeq(u, 1, j - 1) = p
      <4>1. \A i \in 1..(j - 1) : u[i] = s[i]  BY <1>0, <1>3
      <4> QED BY <1>0, <4>1
    <3> HIDE DEF p
    <3>3. p \o <<u[j]>> = Append(p, u[j])  BY <1>1, <2>0, AppendIsConcat
    <3> QED BY <3>1, <3>2, <3>3
  <2>2. SubSeq(u, j + 1, Len(u)) = q
    <3>1. \A i \in (j + 1)..Len(s) : u[i] = s[i]  BY <1>0, <1>3
    <3> QED BY <1>0, <1>3, <3>1
  <2>3. FlattenSeq(u) = FlattenSeq(SubSeq(u, 1, j)) \o FlattenSeq(SubSeq(u, j + 1, Len(u)))
    <3>1. j \in 0..Len(u)  BY <1>0, <1>3
    <3> QED BY <3>1, FlattenSplit
  <2> HIDE DEF p, q
  <2>4. FlattenSeq(Append(p, u[j])) = a \o u[j]  BY <1>1, <1>2, <2>0, FlattenAppend
  <2> QED BY <1>2, <2>1, <2>2, <2>3, <2>4
<1>4. FlattenSeq(s) = (a \o s[j]) \o b  BY <1>3
<1>5. FlattenSeq(t) = (a \o t[j]) \o b
  <2>1. Len(t) = Len(s) /\ \A i \in 1..Len(s) : i # j => t[i] = s[i]  BY DEF DifferAt
  <2> HIDE DEF p, q
  <2> QED BY <1>3, <2>1
<1>6. ASSUME EmptyBefore(s, j) PROVE a = <<>>
  <2>1. \A i \in 1..Len(p) : p[i] = <<>>  BY <1>0, <1>6 DEF EmptyBefore
  <2> HIDE DEF p
  <2> QED BY <1>1, <1>2, <2>1, FlattenNothing
<1>7. ASSUME j = Len(s) PROVE b = <<>>
  <2>1. q = <<>>  BY <1>0, <1>7
  <2> HIDE DEF q
  <2> QED BY <1>2, <2>1, FlattenEmpty
<1> QED BY <1>4, <1>5, <1>6, <1>7

\* The first d elements of a sequence, and the others.
LEMMA PrefixFacts ==
    ASSUME NEW S, NEW s \in Seq(S), NEW d \in 0..Len(s)
    PROVE  /\ SubSeq(s, 1, d) \in Seq(S) /\ Len(SubSeq(s, 1, d)) = d
           /\ \A k \in 1..d : SubSeq(s, 1, d)[k] = s[k]
OBVIOUS

LEMMA SuffixFacts ==
    ASSUME NEW S, NEW s \in Seq(S), NEW d \in 0..Len(s)
    PROVE  /\ SubSeq(s, d + 1, Len(s)) \in Seq(S) /\ Len(SubSeq(s, d + 1, Len(s))) = Len(s) - d
           /\ \A k \in 1..(Len(s) - d) : SubSeq(s, d + 1, Len(s))[k] = s[d + k]
OBVIOUS

\* Joining sequences, as an operator that the provers do not look into.
Joined(s, t) == s \o t

LEMMA JoinedFacts ==
    ASSUME NEW S
    PROVE  /\ \A s, t \in Seq(S) : Joined(s, t) \in Seq(S)
           /\ \A s, t, u \in Seq(S) : Joined(Joined(s, t), u) = Joined(s, Joined(t, u))
           /\ \A s \in Seq(S) : Joined(s, <<>>) = s /\ Joined(<<>>, s) = s
<1>1. \A s, t \in Seq(S) : s \o t \in Seq(S)  OBVIOUS
<1>2. \A s, t, u \in Seq(S) : (s \o t) \o u = s \o (t \o u)  BY ConcatAssociative
<1>3. \A s \in Seq(S) : s \o <<>> = s /\ <<>> \o s = s  BY ConcatEmptySeq
<1> QED BY <1>1, <1>2, <1>3 DEF Joined

\* What is in the middle of the middle is in the middle.
Regrouped(a, l, p, r, d) ==
    /\ (a \o ((l \o p) \o r)) \o d = ((a \o l) \o p) \o (r \o d)
    /\ (a \o ((l \o <<>>) \o r)) \o d = (a \o l) \o (r \o d)

LEMMA Regroup ==
    ASSUME NEW S, NEW a \in Seq(S), NEW l \in Seq(S), NEW p \in Seq(S), NEW r \in Seq(S), NEW d \in Seq(S)
    PROVE  Regrouped(a, l, p, r, d)
<1>1. Joined(Joined(a, Joined(Joined(l, p), r)), d) = Joined(Joined(Joined(a, l), p), Joined(r, d))
  BY JoinedFacts
<1>2. Joined(Joined(a, Joined(Joined(l, <<>>), r)), d) = Joined(Joined(a, l), Joined(r, d))
  BY JoinedFacts
<1> QED BY <1>1, <1>2, Zenon DEF Joined, Regrouped
-----------------------------------------------------------------------------
(* Sets of numbers in increasing order *)

\* s enumerates the set S in increasing order.
Enumerates(s, S) == s \in Seq(Nat) /\ Increasing(s) /\ ToSet(s) = S

\* Adding a number behind the others.
LEMMA EnumAppend ==
    ASSUME NEW s, NEW S, Enumerates(s, S), NEW e \in Nat, \A x \in S : x < e
    PROVE  Enumerates(Append(s, e), S \cup {e})
<1>1. s \in Seq(Nat) /\ Increasing(s) /\ ToSet(s) = S  BY DEF Enumerates
<1> DEFINE t == Append(s, e)
<1>2. /\ t \in Seq(Nat) /\ Len(t) = Len(s) + 1 /\ t[Len(s) + 1] = e /\ \A i \in 1..Len(s) : t[i] = s[i]
      /\ ToSet(t) = S \cup {e}
  BY <1>1, AppendFacts
<1>3. Len(s) \in Nat /\ DOMAIN s = 1..Len(s) /\ \A i \in 1..Len(s) : s[i] < e
  <2>1. \A i \in 1..Len(s) : s[i] \in S  BY <1>1, InToSet
  <2> QED BY <1>1, <2>1
<1> HIDE DEF t
<1>4. DOMAIN t = 1..Len(t)  BY <1>2
<1>5. Increasing(t)
  <2> SUFFICES ASSUME NEW i \in 1..Len(t), NEW j \in 1..Len(t), i < j PROVE t[i] < t[j]
    BY <1>4 DEF Increasing
  <2>1. i \in 1..Len(s) /\ t[i] = s[i]  BY <1>2, <1>3
  <2>2. CASE j = Len(s) + 1  BY <1>2, <1>3, <2>1, <2>2
  <2>3. CASE j # Len(s) + 1
    <3>1. j \in 1..Len(s) /\ t[j] = s[j]  BY <1>2, <1>3, <2>3
    <3> QED BY <1>1, <1>3, <2>1, <3>1 DEF Increasing
  <2> QED BY <2>2, <2>3
<1> QED BY <1>2, <1>5 DEF Enumerates, t

\* Every set of numbers up to n can be listed: the least n of which that is
\* false would not be 0, and the list of S \ {n} extends to one of S.
LEMMA EnumExists ==
    ASSUME NEW n \in Nat, NEW S \in SUBSET (1..n)
    PROVE  \E s : Enumerates(s, S)
<1> DEFINE Bad == {k \in Nat : \E T \in SUBSET (1..k) : ~\E s : Enumerates(s, T)}
<1> SUFFICES ASSUME Bad # {} PROVE FALSE  OBVIOUS
<1>1. PICK k \in Bad : \A j \in Bad : k <= j
  <2>1. Bad \in SUBSET Nat  OBVIOUS
  <2> QED BY <2>1, LeastNat
<1>2. k \in Nat  OBVIOUS
<1>3. PICK T \in SUBSET (1..k) : ~\E s : Enumerates(s, T)  OBVIOUS
<1>4. T # {}
  <2>1. ASSUME T = {} PROVE Enumerates(<<>>, T)
    <3>1. <<>> \in Seq(Nat) /\ Increasing(<<>>)  BY DEF Increasing
    <3> QED BY <2>1, <3>1, EmptyQueue DEF Enumerates
  <2> QED BY <1>3, <2>1
<1>5. k # 0 /\ k - 1 \in Nat /\ ~(k <= k - 1)
  <2>1. PICK x \in 1..k : x \in T  BY <1>4
  <2> QED BY ONLY <1>2, x \in 1..k
<1>6. k - 1 \notin Bad
  <2> HIDE DEF Bad
  <2> QED BY <1>1, <1>5
<1>7. T \ {k} \in SUBSET (1..(k - 1))  BY <1>2
<1>8. PICK s : Enumerates(s, T \ {k})  BY <1>5, <1>6, <1>7
<1> HIDE DEF Bad
<1>9. CASE k \notin T
  <2>1. T \ {k} = T  BY <1>9
  <2> QED BY <1>3, <1>8, <2>1
<1>10. CASE k \in T
  <2>1. \A x \in T \ {k} : x < k  BY <1>2, <1>7
  <2>2. Enumerates(Append(s, k), (T \ {k}) \cup {k})  BY <1>2, <1>8, <2>1, EnumAppend
  <2>3. (T \ {k}) \cup {k} = T  BY <1>10
  <2> QED BY <1>3, <2>2, <2>3
<1> QED BY <1>9, <1>10

\* An initial segment of a set is listed first.
LEMMA EnumPrefix ==
    ASSUME NEW s, NEW S, NEW t, NEW T, Enumerates(s, S), Enumerates(t, T), T \subseteq S,
           \A x \in S, y \in T : x <= y => x \in T
    PROVE  Len(t) \in 0..Len(s) /\ \A i \in 1..Len(t) : t[i] = s[i]
<1>1. /\ s \in Seq(Nat) /\ Increasing(s) /\ ToSet(s) = S /\ Len(s) \in Nat /\ DOMAIN s = 1..Len(s)
      /\ t \in Seq(Nat) /\ Increasing(t) /\ ToSet(t) = T /\ Len(t) \in Nat /\ DOMAIN t = 1..Len(t)
  BY DEF Enumerates
<1>2. /\ \A i \in 1..Len(s) : s[i] \in Nat /\ s[i] \in S
      /\ \A i \in 1..Len(t) : t[i] \in Nat /\ t[i] \in T
  BY <1>1, InToSet
<1> DEFINE Bad == {i \in 1..Len(t) : ~(i <= Len(s) /\ t[i] = s[i])}
<1>3. Bad = {}
  <2> SUFFICES ASSUME Bad # {} PROVE FALSE  OBVIOUS
  <2>1. PICK m \in Bad : \A i \in Bad : m <= i
    <3>1. Bad \in SUBSET Nat  BY <1>1
    <3> QED BY <3>1, LeastNat
  <2>2. m \in 1..Len(t) /\ m \in Nat /\ ~(m <= Len(s) /\ t[m] = s[m])  BY <1>1
  <2>3. ASSUME NEW i \in 1..Len(t), i < m PROVE i <= Len(s) /\ t[i] = s[i]
    <3>1. i \notin Bad
      <4> HIDE DEF Bad
      <4> QED BY <1>1, <2>1, <2>2, <2>3
    <3> QED BY <3>1
  <2> HIDE DEF Bad
  <2>4. PICK j \in 1..Len(s) : s[j] = t[m]
    <3>1. t[m] \in ToSet(s)  BY <1>1, <1>2, <2>2
    <3> QED BY <1>1, <3>1, InToSet
  <2>5. ~(j < m)
    <3>1. ASSUME j < m PROVE FALSE
      <4>1. j \in 1..Len(t)  BY <1>1, <2>2, <3>1
      <4>2. t[j] = t[m]  BY <2>3, <2>4, <3>1, <4>1
      <4>3. t[j] < t[m]  BY <1>1, <2>2, <3>1, <4>1 DEF Increasing
      <4> QED BY <1>2, <2>2, <4>2, <4>3
    <3> QED BY <3>1
  <2>6. m < j /\ m \in 1..Len(s)  BY <1>1, <2>2, <2>4, <2>5
  <2>7. s[m] < t[m]  BY <1>1, <2>4, <2>6 DEF Increasing
  <2>8. s[m] \in T  BY <1>2, <2>2, <2>6, <2>7
  <2>9. PICK k \in 1..Len(t) : t[k] = s[m]  BY <1>1, <2>8, InToSet
  <2>10. k < m
    <3>1. ASSUME ~(k < m) PROVE FALSE
      <4>1. k = m \/ m < k  BY <1>1, <2>2, <3>1
      <4>2. t[m] = t[k] \/ t[m] < t[k]  BY <1>1, <2>2, <4>1 DEF Increasing
      <4>3. t[k] < t[m] /\ t[k] \in Nat /\ t[m] \in Nat  BY <1>2, <2>2, <2>7, <2>9
      <4> QED BY <4>2, <4>3
    <3> QED BY <3>1
  <2>11. k \in 1..Len(s) /\ s[k] = s[m]  BY <1>1, <2>3, <2>9, <2>10
  <2>12. s[k] < s[m]  BY <1>1, <2>6, <2>10, <2>11 DEF Increasing
  <2> QED BY <1>2, <2>6, <2>11, <2>12
<1>4. \A i \in 1..Len(t) : i <= Len(s) /\ t[i] = s[i]  BY <1>3
<1> HIDE DEF Bad
<1>5. Len(t) <= Len(s)
  <2>1. CASE Len(t) = 0  BY <1>1, <2>1
  <2>2. CASE Len(t) # 0
    <3>1. Len(t) \in 1..Len(t)  BY <1>1, <2>2
    <3> QED BY <1>4, <3>1
  <2> QED BY <2>1, <2>2
<1> QED BY <1>1, <1>4, <1>5

\* A set has one list.
LEMMA EnumUnique ==
    ASSUME NEW s, NEW t, NEW S, Enumerates(s, S), Enumerates(t, S)
    PROVE  s = t
<1>1. s \in Seq(Nat) /\ t \in Seq(Nat) /\ Len(s) \in Nat /\ Len(t) \in Nat  BY DEF Enumerates
<1>2. Len(t) \in 0..Len(s) /\ \A i \in 1..Len(t) : t[i] = s[i]  BY EnumPrefix
<1>3. Len(s) \in 0..Len(t)  BY EnumPrefix
<1>4. Len(s) = Len(t)  BY <1>1, <1>2, <1>3
<1> QED BY <1>1, <1>2, <1>4, SeqEqual

\* Taking the least number away.
LEMMA EnumTail ==
    ASSUME NEW s, NEW S, Enumerates(s, S), NEW m \in S, \A x \in S : m <= x
    PROVE  s # <<>> /\ Head(s) = m /\ Enumerates(Tail(s), S \ {m})
<1>1. s \in Seq(Nat) /\ Increasing(s) /\ ToSet(s) = S  BY DEF Enumerates
<1>2. s # <<>>  BY <1>1, EmptyQueue
<1>3. s[1] \in S /\ \A x \in S : s[1] <= x  BY <1>1, <1>2, FirstOfIncreasing
<1>4. S \in SUBSET Nat
  <2>1. \A i \in 1..Len(s) : s[i] \in Nat  BY <1>1
  <2> QED BY <1>1, <2>1, InToSet
<1>5. s[1] = m
  <2>1. s[1] <= m /\ m <= s[1] /\ s[1] \in Nat /\ m \in Nat  BY <1>3, <1>4
  <2> QED BY <2>1
<1>6. Tail(s) \in Seq(Nat) /\ ToSet(Tail(s)) = ToSet(s) \ {s[1]} /\ Increasing(Tail(s))
  BY <1>1, <1>2, TailFacts
<1>7. Head(s) = s[1]  BY <1>1, <1>2
<1> QED BY <1>1, <1>2, <1>5, <1>6, <1>7 DEF Enumerates

\* The upper end of an interval bounds it.
LEMMA UpperBound == ASSUME NEW n, NEW m \in 0..n PROVE m <= n
OBVIOUS

\* What is behind an initial segment.
LEMMA EnumCut ==
    ASSUME NEW s, NEW S, NEW t, NEW T, Enumerates(s, S), Enumerates(t, T), T \subseteq S,
           \A x \in S, y \in T : x <= y => x \in T
    PROVE  /\ Len(t) \in 0..Len(s) /\ t = SubSeq(s, 1, Len(t))
           /\ Enumerates(SubSeq(s, Len(t) + 1, Len(s)), S \ T)
<1>1. /\ s \in Seq(Nat) /\ Increasing(s) /\ ToSet(s) = S /\ Len(s) \in Nat /\ DOMAIN s = 1..Len(s)
      /\ t \in Seq(Nat) /\ ToSet(t) = T /\ Len(t) \in Nat
  BY DEF Enumerates
<1>2. Len(t) \in 0..Len(s) /\ \A i \in 1..Len(t) : t[i] = s[i]  BY EnumPrefix
<1>3. t = SubSeq(s, 1, Len(t))
  <2>1. PICK p : p = SubSeq(s, 1, Len(t))  OBVIOUS
  <2>2. p \in Seq(Nat) /\ Len(p) = Len(t) /\ \A k \in 1..Len(t) : p[k] = s[k]
    BY ONLY <1>1, <1>2, <2>1, PrefixFacts
  <2> QED BY <1>1, <1>2, <2>1, <2>2, SeqEqual
<1>4. PICK d \in Nat, q \in Seq(Nat) :
          /\ d = Len(t) /\ q = SubSeq(s, d + 1, Len(s)) /\ Len(q) = Len(s) - d
          /\ \A k \in 1..(Len(s) - d) : q[k] = s[d + k]
  <2>1. /\ SubSeq(s, Len(t) + 1, Len(s)) \in Seq(Nat) /\ Len(SubSeq(s, Len(t) + 1, Len(s))) = Len(s) - Len(t)
        /\ \A k \in 1..(Len(s) - Len(t)) : SubSeq(s, Len(t) + 1, Len(s))[k] = s[Len(t) + k]
    BY ONLY <1>1, <1>2, SuffixFacts
  <2> QED BY <1>1, <2>1, Zenon
<1>5. PICK n \in Nat : n = Len(s)  BY <1>1
<1>6. d <= n /\ Len(q) = n - d /\ DOMAIN q = 1..(n - d) /\ \A k \in 1..(n - d) : d + k \in 1..n /\ q[k] = s[d + k]
  <2>1. d <= n  BY <1>2, <1>4, <1>5, Zenon, UpperBound
  <2>2. DOMAIN q = 1..Len(q) /\ Len(q) = n - d  BY <1>4, <1>5
  <2>3. \A k \in 1..(n - d) : q[k] = s[d + k]  BY <1>4, <1>5
  <2>4. \A k \in 1..(n - d) : d + k \in 1..n  BY <2>1
  <2> QED BY <2>1, <2>2, <2>3, <2>4
<1>7. Increasing(q)
  <2> SUFFICES ASSUME NEW i \in 1..(n - d), NEW j \in 1..(n - d), i < j PROVE q[i] < q[j]
    BY <1>6 DEF Increasing
  <2>1. d + i < d + j  BY ONLY i \in 1..(n - d), j \in 1..(n - d), i < j, d \in Nat, n \in Nat
  <2> QED BY <1>1, <1>5, <1>6, <2>1 DEF Increasing
<1>8. \A i \in 1..n, j \in 1..n : s[i] = s[j] => i = j
  <2>1. IsInjective(s)  BY <1>1, IncreasingIsInjective
  <2> QED BY <1>1, <1>5, <2>1 DEF IsInjective
<1>9. ASSUME NEW x PROVE x \in ToSet(q) <=> x \in S \ T
  <2>1. ASSUME x \in ToSet(q) PROVE x \in S \ T
    <3>0. PICK k \in 1..Len(q) : q[k] = x  BY ONLY q \in Seq(Nat), <2>1, InToSet
    <3>1. k \in 1..(n - d) /\ q[k] = x  BY <1>6, <3>0
    <3>2. d + k \in 1..n /\ s[d + k] = x /\ ~(d + k <= d)  BY <1>4, <1>6, <3>1
    <3>3. x \in S  BY <1>1, <1>5, <3>2, InToSet
    <3>4. ASSUME x \in T PROVE FALSE
      <4>0. x \in ToSet(t)  BY <1>1, <3>4
      <4>a. PICK i \in 1..Len(t) : t[i] = x  BY <1>1, <4>0, InToSet
      <4>1. i \in 1..d /\ t[i] = x  BY <1>4, <4>a
      <4>2. s[i] = x /\ i \in 1..n /\ i <= d  BY <1>2, <1>4, <1>6, <4>1
      <4> QED BY <1>8, <3>2, <4>2
    <3> QED BY <3>3, <3>4
  <2>2. ASSUME x \in S, x \notin T PROVE x \in ToSet(q)
    <3>1. PICK i \in 1..n : s[i] = x  BY <1>1, <1>5, <2>2, InToSet
    <3>2. ~(i <= d)
      <4>1. ASSUME i <= d PROVE FALSE
        <5>1. i \in 1..Len(t)  BY <1>4, <4>1
        <5>2. t[i] = x  BY <1>2, <3>1, <5>1
        <5> QED BY <1>1, <2>2, <5>1, <5>2, InToSet
      <4> QED BY <4>1
    <3>3. PICK k \in 1..(n - d) : d + k = i  BY <1>6, <3>2
    <3>4. q[k] = x  BY <1>6, <3>1, <3>3
    <3> QED BY <1>4, <1>5, <3>4, InToSet
  <2> QED BY <2>1, <2>2
<1>10. Enumerates(q, S \ T)  BY <1>7, <1>9 DEF Enumerates
<1> QED BY <1>2, <1>3, <1>4, <1>10
=============================================================================
