----------------------- MODULE BreakerRegistryProofs ------------------------
(***************************************************************************)
(* Proofs about BreakerRegistry, for every set of destinations, every      *)
(* finite set of requests, every size of the registry and every threshold  *)
(* and timeout.                                                            *)
(***************************************************************************)
EXTENDS BreakerRegistry, SequenceTheorems, FiniteSetTheorems, TLAPS

-----------------------------------------------------------------------------
(* The order of the keys.                                                  *)

\* A sequence of keys of an OrderedDict.
Keys == {k \in Seq(Destinations) :
            \A i, j \in 1..Len(k) : k[i] = k[j] => i = j}

\* Where a key that is used goes: what was behind it moves up by one.
LEMMA UsedHit ==
    ASSUME NEW k \in Keys, NEW d \in Destinations, NEW i \in 1..Len(k),
           k[i] = d
    PROVE  /\ Used(k, d) \in Seq(Destinations)
           /\ Len(Used(k, d)) = Len(k)
           /\ \A j \in 1..Len(k) :
                Used(k, d)[j] = IF j < i THEN k[j]
                                ELSE IF j < Len(k) THEN k[j + 1] ELSE d
<1>1. k \in Seq(Destinations) /\ Len(k) \in Nat /\ DOMAIN k = 1..Len(k)
  BY DEF Keys
<1>2. d \in ToSet(k)
  BY <1>1 DEF ToSet
<1>3. (CHOOSE m \in DOMAIN k : k[m] = d) = i
  BY <1>1 DEF Keys
<1> DEFINE a == SubSeq(k, 1, i - 1)
           b == SubSeq(k, i + 1, Len(k))
<1>4. Used(k, d) = Append(a \o b, d)
  BY <1>2, <1>3 DEF Used, RemoveAt
<1>5. /\ a \in Seq(Destinations) /\ Len(a) = i - 1
      /\ \A j \in 1..(i - 1) : a[j] = k[j]
  BY <1>1, SubSeqProperties
<1>6. /\ b \in Seq(Destinations) /\ Len(b) = Len(k) - i
      /\ \A j \in 1..(Len(k) - i) : b[j] = k[i + j]
  <2>1. \A j \in (i + 1)..Len(k) : k[j] \in Destinations
    BY <1>1
  <2>2. /\ b \in Seq(Destinations)
        /\ Len(b) = IF i + 1 <= Len(k) THEN Len(k) - (i + 1) + 1 ELSE 0
        /\ \A j \in 1..(Len(k) - (i + 1) + 1) : b[j] = k[(i + 1) + j - 1]
    BY <1>1, <2>1, SubSeqProperties
  <2> HIDE DEF b
  <2>3. Len(b) = Len(k) - i
    <3>1. Len(b) = IF i + 1 <= Len(k) THEN Len(k) - (i + 1) + 1 ELSE 0
      BY <2>2
    <3>2. Len(k) \in Nat /\ i \in Nat /\ i <= Len(k)
      BY <1>1
    <3>3. CASE i + 1 <= Len(k)
      BY <3>1, <3>2, <3>3
    <3>4. CASE ~(i + 1 <= Len(k))
      BY <3>1, <3>2, <3>4
    <3> QED
      BY <3>3, <3>4
  <2>4. ASSUME NEW j \in 1..(Len(k) - i)
        PROVE  b[j] = k[i + j]
    <3>1. /\ j \in 1..(Len(k) - (i + 1) + 1)
          /\ (i + 1) + j - 1 = i + j
      BY <1>1
    <3>2. b[j] = k[(i + 1) + j - 1]
      BY <2>2, <3>1
    <3> QED
      BY <3>1, <3>2, Zenon
  <2> QED
    BY <2>2, <2>3, <2>4
<1> HIDE DEF a, b
<1>7. /\ a \o b \in Seq(Destinations) /\ Len(a \o b) = Len(k) - 1
      /\ \A j \in 1..(Len(k) - 1) :
           (a \o b)[j] = IF j < i THEN k[j] ELSE k[j + 1]
  <2>1. /\ a \o b \in Seq(Destinations) /\ Len(a \o b) = Len(a) + Len(b)
        /\ \A j \in 1..(Len(a) + Len(b)) :
             (a \o b)[j] = IF j <= Len(a) THEN a[j] ELSE b[j - Len(a)]
    BY <1>5, <1>6, ConcatProperties
  <2>2. ASSUME NEW j \in 1..(Len(k) - 1), j >= i
        PROVE  b[j - (i - 1)] = k[j + 1]
    <3>1. j - (i - 1) \in 1..(Len(k) - i) /\ i + (j - (i - 1)) = j + 1
      BY <1>1, <2>2
    <3> QED
      BY <1>6, <3>1
  <2>3. Len(a) + Len(b) = Len(k) - 1 /\ Len(a) = i - 1
    BY <1>1, <1>5, <1>6
  <2>4. ASSUME NEW j \in 1..(Len(k) - 1)
        PROVE  (a \o b)[j] = IF j < i THEN k[j] ELSE k[j + 1]
    <3>1. (a \o b)[j] = IF j <= Len(a) THEN a[j] ELSE b[j - (i - 1)]
      BY <2>1, <2>3
    <3>2. j < i => a[j] = k[j] /\ j <= Len(a)
      BY <1>1, <1>5
    <3>3. ~(j < i) => b[j - (i - 1)] = k[j + 1] /\ ~(j <= Len(a))
      BY <1>1, <1>5, <2>2
    <3> QED
      BY <3>1, <3>2, <3>3
  <2> QED
    BY <2>1, <2>3, <2>4
<1> DEFINE c == a \o b
<1>8. /\ Append(c, d) \in Seq(Destinations) /\ Len(Append(c, d)) = Len(c) + 1
      /\ \A j \in 1..Len(c) : Append(c, d)[j] = c[j]
      /\ Append(c, d)[Len(c) + 1] = d
  BY <1>7, AppendProperties
<1> HIDE DEF c
<1> QED
  BY <1>1, <1>4, <1>7, <1>8 DEF c

\* A new key goes to the end.
LEMMA UsedMiss ==
    ASSUME NEW k \in Keys, NEW d \in Destinations, d \notin ToSet(k)
    PROVE  /\ Used(k, d) \in Seq(Destinations)
           /\ Len(Used(k, d)) = Len(k) + 1
           /\ \A j \in 1..Len(k) : Used(k, d)[j] = k[j]
           /\ Used(k, d)[Len(k) + 1] = d
  BY AppendProperties DEF Keys, Used

\* The keys of a used registry are the old ones and the key, once each.
LEMMA UsedKeys ==
    ASSUME NEW k \in Keys, NEW d \in Destinations
    PROVE  /\ Used(k, d) \in Keys
           /\ Len(Used(k, d)) >= 1
           /\ Used(k, d)[Len(Used(k, d))] = d
           /\ \A e \in Destinations :
                e \in ToSet(Used(k, d)) <=> e \in ToSet(k) \/ e = d
<1> DEFINE u == Used(k, d)
<1>1. k \in Seq(Destinations) /\ Len(k) \in Nat /\ DOMAIN k = 1..Len(k)
      /\ \A i, j \in 1..Len(k) : k[i] = k[j] => i = j
  BY DEF Keys
<1>2. CASE d \in ToSet(k)
  <2>1. PICK i \in 1..Len(k) : k[i] = d
    BY <1>1, <1>2 DEF ToSet
  <2>2. /\ u \in Seq(Destinations) /\ Len(u) = Len(k)
        /\ \A j \in 1..Len(k) :
             u[j] = IF j < i THEN k[j]
                    ELSE IF j < Len(k) THEN k[j + 1] ELSE d
    BY <2>1, UsedHit
  <2> HIDE DEF u
  <2>3. DOMAIN u = 1..Len(k)
    BY <2>2
  <2>4. ASSUME NEW m \in 1..Len(k), NEW n \in 1..Len(k), u[m] = u[n], m < n
        PROVE  FALSE
    <3> DEFINE p == IF m < i THEN m ELSE m + 1
               q == IF n = Len(k) THEN i ELSE IF n < i THEN n ELSE n + 1
    <3>1. /\ Len(k) \in Nat /\ m \in Nat /\ n \in Nat /\ i \in Nat
          /\ 1 <= m /\ m < n /\ n <= Len(k) /\ 1 <= i /\ i <= Len(k)
      BY <1>1, <2>4
    <3>2. p \in 1..Len(k) /\ u[m] = k[p]
      BY <1>1, <2>2, <2>4
    <3>3. q \in 1..Len(k) /\ u[n] = k[q]
      <4>1. CASE n = Len(k)
        <5>1. ~(n < i) /\ ~(n < Len(k)) /\ q = i
          BY <3>1, <4>1
        <5> QED
          BY <2>1, <2>2, <5>1
      <4>2. CASE n # Len(k)
        <5>1. n < Len(k) /\ q = IF n < i THEN n ELSE n + 1
          BY <3>1, <4>2
        <5>2. q \in 1..Len(k)
          BY <3>1, <5>1
        <5> QED
          BY <2>2, <5>1, <5>2
      <4> QED
        BY <4>1, <4>2
    <3>4. p # q
      BY <3>1
    <3> HIDE DEF p, q
    <3> QED
      BY <1>1, <2>4, <3>2, <3>3, <3>4
  <2>5. u \in Keys
    BY <1>1, <2>2, <2>4 DEF Keys
  <2>6. u[Len(u)] = d
    BY <1>1, <2>1, <2>2
  <2>7. ASSUME NEW e \in Destinations
        PROVE  e \in ToSet(u) <=> e \in ToSet(k) \/ e = d
    <3>1. ASSUME NEW j \in 1..Len(k), u[j] = e
          PROVE  e \in ToSet(k)
      BY <1>1, <1>2, <2>2, <3>1 DEF ToSet
    <3>2. ASSUME NEW j \in 1..Len(k), k[j] = e
          PROVE  e \in ToSet(u)
      <4>1. CASE j < i
        BY <1>1, <2>2, <2>3, <3>2, <4>1 DEF ToSet
      <4>2. CASE j = i
        BY <1>1, <2>1, <2>2, <2>3, <2>6, <3>2, <4>2 DEF ToSet
      <4>3. CASE j > i
        <5>1. j - 1 \in 1..Len(k) /\ u[j - 1] = k[j]
          <6>1. j - 1 \in 1..Len(k) /\ ~(j - 1 < i) /\ j - 1 < Len(k)
                /\ (j - 1) + 1 = j
            BY <1>1, <4>3
          <6> QED
            BY <2>2, <6>1
        <5> QED
          BY <2>3, <3>2, <5>1 DEF ToSet
      <4> QED
        BY <1>1, <4>1, <4>2, <4>3
    <3>3. e = d => e \in ToSet(k)
      BY <1>2
    <3> QED
      BY <1>1, <2>3, <3>1, <3>2, <3>3 DEF ToSet
  <2>8. Len(u) >= 1
    BY <1>1, <2>1, <2>2
  <2> QED
    BY <2>5, <2>6, <2>7, <2>8 DEF u
<1>3. CASE d \notin ToSet(k)
  <2>1. /\ u \in Seq(Destinations) /\ Len(u) = Len(k) + 1
        /\ \A j \in 1..Len(k) : u[j] = k[j]
        /\ u[Len(k) + 1] = d
    BY <1>3, UsedMiss
  <2> HIDE DEF u
  <2>2. \A j \in 1..Len(k) : k[j] # d
    BY <1>1, <1>3 DEF ToSet
  <2>3. DOMAIN u = 1..(Len(k) + 1)
    BY <2>1
  <2>4. u \in Keys
    BY <1>1, <2>1, <2>2 DEF Keys
  <2>5. ASSUME NEW e \in Destinations
        PROVE  e \in ToSet(u) <=> e \in ToSet(k) \/ e = d
    BY <1>1, <2>1, <2>3 DEF ToSet
  <2> QED
    BY <1>1, <2>1, <2>4, <2>5 DEF u
<1> QED
  BY <1>2, <1>3

\* How many of the oldest keys popitem(last=False) removes.
Drop(k) == IF Len(k) > Maximum THEN Len(k) - Maximum ELSE 0

\* What is left are the last keys, in their order.
LEMMA TrimmedKeys ==
    ASSUME NEW k \in Keys
    PROVE  /\ Trimmed(k) \in Keys
           /\ Drop(k) \in 0..Len(k)
           /\ Len(Trimmed(k)) = Len(k) - Drop(k)
           /\ Len(Trimmed(k)) <= Maximum
           /\ \A j \in 1..(Len(k) - Drop(k)) : Trimmed(k)[j] = k[j + Drop(k)]
<1>1. k \in Seq(Destinations) /\ Len(k) \in Nat /\ DOMAIN k = 1..Len(k)
      /\ \A i, j \in 1..Len(k) : k[i] = k[j] => i = j
  BY DEF Keys
<1>2. CASE Len(k) > Maximum
  <2> DEFINE p == Len(k) - Maximum + 1
             t == SubSeq(k, p, Len(k))
  <2>1. p \in Int /\ Len(k) \in Int /\ p <= Len(k)
        /\ \A j \in p..Len(k) : k[j] \in Destinations
    BY <1>1, <1>2, MaximumAssumption
  <2>2. /\ t \in Seq(Destinations)
        /\ Len(t) = IF p <= Len(k) THEN Len(k) - p + 1 ELSE 0
        /\ \A j \in 1..(Len(k) - p + 1) : t[j] = k[p + j - 1]
    BY <2>1, SubSeqProperties
  <2> HIDE DEF t
  <2>3. Len(t) = Maximum /\ Drop(k) = Len(k) - Maximum
    BY <1>1, <1>2, <2>1, <2>2, MaximumAssumption DEF Drop
  <2>4. ASSUME NEW j \in 1..Maximum
        PROVE  t[j] = k[j + Drop(k)] /\ j + Drop(k) \in 1..Len(k)
    <3>1. j \in 1..(Len(k) - p + 1) /\ p + j - 1 = j + Drop(k)
          /\ j + Drop(k) \in 1..Len(k)
      BY <1>1, <1>2, <2>3, MaximumAssumption
    <3>2. t[j] = k[p + j - 1]
      BY <2>2, <3>1
    <3> QED
      BY <3>1, <3>2, Zenon
  <2>5. \A i, j \in 1..Maximum : t[i] = t[j] => i = j
    BY <1>1, <1>2, <2>3, <2>4, MaximumAssumption
  <2>6. Trimmed(k) = t
    BY <1>2 DEF Trimmed, t
  <2>7. t \in Keys
    BY <2>2, <2>3, <2>5 DEF Keys
  <2>8. Drop(k) \in 0..Len(k) /\ Len(k) - Drop(k) = Maximum
    BY <1>1, <1>2, <2>3, MaximumAssumption
  <2> QED
    BY <2>3, <2>4, <2>6, <2>7, <2>8, MaximumAssumption
<1>3. CASE ~(Len(k) > Maximum)
  <2>1. Trimmed(k) = k /\ Drop(k) = 0
    BY <1>3 DEF Trimmed, Drop
  <2>2. \A j \in 1..Len(k) : j + 0 = j
    BY <1>1
  <2> QED
    BY <1>1, <1>3, <2>1, <2>2, MaximumAssumption
<1> QED
  BY <1>2, <1>3

\* The keys used last are the same whether or not older ones were remembered:
\* trimming after each lookup keeps an LRU order.
LEMMA TrimUsed ==
    ASSUME NEW k \in Keys, NEW d \in Destinations
    PROVE  Trimmed(Used(Trimmed(k), d)) = Trimmed(Used(k, d))
<1> DEFINE t == Trimmed(k)
           n == Len(k)
<1>1. k \in Seq(Destinations) /\ n \in Nat /\ DOMAIN k = 1..n
      /\ \A i, j \in 1..n : k[i] = k[j] => i = j
  BY DEF Keys
<1>2. CASE n <= Maximum
  <2>1. t = k
    BY <1>1, <1>2, MaximumAssumption DEF Trimmed
  <2> QED
    BY <2>1
<1>3. CASE n > Maximum
  <2> DEFINE c == n - Maximum
  <2>1. c \in Nat /\ c + Maximum = n /\ Drop(k) = c /\ Maximum \in Nat
        /\ Maximum >= 1 /\ c >= 1
    BY <1>1, <1>3, MaximumAssumption DEF Drop
  <2>2. /\ t \in Keys /\ Len(t) = Maximum
        /\ \A j \in 1..Maximum : t[j] = k[j + c]
    <3>1. /\ t \in Keys /\ Len(t) = n - Drop(k)
          /\ \A j \in 1..(n - Drop(k)) : t[j] = k[j + Drop(k)]
      BY TrimmedKeys
    <3>2. n - Drop(k) = Maximum
      BY <1>1, <2>1
    <3> QED
      BY <2>1, <3>1, <3>2
  <2> HIDE DEF c, t, n
  <2>3. t \in Seq(Destinations) /\ DOMAIN t = 1..Maximum
    BY <2>2 DEF Keys
  <2> DEFINE a == Used(t, d)
             b == Used(k, d)
  <2>4. a \in Keys /\ b \in Keys
    BY <2>2, UsedKeys
  <2>5. /\ Trimmed(a) \in Seq(Destinations) /\ Len(Trimmed(a)) = Len(a) - Drop(a)
        /\ \A j \in 1..(Len(a) - Drop(a)) : Trimmed(a)[j] = a[j + Drop(a)]
    BY <2>4, TrimmedKeys DEF Keys
  <2>6. /\ Trimmed(b) \in Seq(Destinations) /\ Len(Trimmed(b)) = Len(b) - Drop(b)
        /\ \A j \in 1..(Len(b) - Drop(b)) : Trimmed(b)[j] = b[j + Drop(b)]
    BY <2>4, TrimmedKeys DEF Keys
  <2> SUFFICES /\ Len(a) - Drop(a) = Maximum /\ Len(b) - Drop(b) = Maximum
               /\ \A j \in 1..Maximum : a[j + Drop(a)] = b[j + Drop(b)]
    <3>1. ASSUME /\ Len(a) - Drop(a) = Maximum /\ Len(b) - Drop(b) = Maximum
                 /\ \A j \in 1..Maximum : a[j + Drop(a)] = b[j + Drop(b)]
          PROVE  Trimmed(a) = Trimmed(b)
      <4> HIDE DEF a, b
      <4>1. Len(Trimmed(a)) = Len(Trimmed(b))
        BY <2>5, <2>6, <3>1
      <4>2. \A j \in 1..Len(Trimmed(a)) : Trimmed(a)[j] = Trimmed(b)[j]
        BY <2>5, <2>6, <3>1
      <4> QED
        BY <2>5, <2>6, <4>1, <4>2, SeqEqual
    <3> QED
      BY <3>1 DEF t
  <2>7. CASE \E i \in 1..n : k[i] = d
    <3>1. PICK i \in 1..n : k[i] = d
      BY <2>7
    <3>2. /\ Len(b) = n
          /\ \A j \in 1..n : b[j] = IF j < i THEN k[j]
                                    ELSE IF j < n THEN k[j + 1] ELSE d
      BY <3>1, UsedHit DEF n
    <3>3. Drop(b) = c
      BY <1>3, <2>1, <3>2 DEF Drop, c
    <3>4. CASE i > c
      <4>1. i - c \in 1..Maximum /\ (i - c) + c = i
        BY <1>1, <2>1, <3>4
      <4>2. t[i - c] = d
        BY <2>2, <3>1, <4>1
      <4>3. /\ Len(a) = Maximum
            /\ \A j \in 1..Maximum :
                 a[j] = IF j < i - c THEN t[j]
                        ELSE IF j < Maximum THEN t[j + 1] ELSE d
        BY <2>2, <4>1, <4>2, UsedHit
      <4>4. Drop(a) = 0
        BY <2>1, <4>3 DEF Drop
      <4> HIDE DEF a, b
      <4>5. ASSUME NEW j \in 1..Maximum
            PROVE  a[j + Drop(a)] = b[j + Drop(b)]
        <5>1. j + Drop(a) = j /\ j + Drop(b) = j + c /\ j + c \in 1..n
          BY <2>1, <3>3, <4>4
        <5>2. CASE j < i - c
          BY <1>1, <2>1, <2>2, <3>2, <4>3, <5>1, <5>2
        <5>3. CASE ~(j < i - c) /\ j < Maximum
          <6>1. j + 1 \in 1..Maximum /\ (j + 1) + c = (j + c) + 1
                /\ ~(j + c < i) /\ j + c < n
            BY <1>1, <2>1, <5>3
          <6>2. a[j] = t[j + 1] /\ b[j + c] = k[(j + c) + 1]
            BY <3>2, <4>3, <5>1, <5>3, <6>1
          <6>3. t[j + 1] = k[(j + 1) + c]
            BY <2>2, <6>1
          <6> QED
            BY <5>1, <6>1, <6>2, <6>3, Zenon
        <5>4. CASE ~(j < i - c) /\ ~(j < Maximum)
          BY <1>1, <2>1, <3>2, <4>3, <5>1, <5>4
        <5> QED
          BY <5>2, <5>3, <5>4
      <4> QED
        BY <2>1, <3>2, <3>3, <4>3, <4>4, <4>5
    <3>5. CASE ~(i > c)
      <4>1. d \notin ToSet(t)
        <5>1. ASSUME NEW j \in 1..Maximum, t[j] = d
              PROVE  FALSE
          <6>1. j + c \in 1..n /\ j + c # i
            BY <1>1, <2>1, <3>5
          <6> QED
            BY <1>1, <2>2, <3>1, <5>1, <6>1
        <5> QED
          BY <2>3, <5>1 DEF ToSet
      <4>2. /\ Len(a) = Maximum + 1
            /\ \A j \in 1..Maximum : a[j] = t[j]
            /\ a[Maximum + 1] = d
        BY <2>2, <4>1, UsedMiss
      <4>3. Drop(a) = 1
        BY <2>1, <4>2 DEF Drop
      <4> HIDE DEF a, b
      <4>4. ASSUME NEW j \in 1..Maximum
            PROVE  a[j + Drop(a)] = b[j + Drop(b)]
        <5>1. j + Drop(a) = j + 1 /\ j + Drop(b) = j + c /\ j + c \in 1..n
              /\ ~(j + c < i)
          BY <1>1, <2>1, <3>3, <3>5, <4>3
        <5>2. CASE j < Maximum
          <6>1. j + 1 \in 1..Maximum /\ (j + 1) + c = (j + c) + 1 /\ j + c < n
            BY <1>1, <2>1, <5>2
          <6>2. a[j + 1] = t[j + 1] /\ b[j + c] = k[(j + c) + 1]
            BY <3>2, <4>2, <5>1, <6>1
          <6>3. t[j + 1] = k[(j + 1) + c]
            BY <2>2, <6>1
          <6> QED
            BY <5>1, <6>1, <6>2, <6>3, Zenon
        <5>3. CASE ~(j < Maximum)
          BY <1>1, <2>1, <3>2, <4>2, <5>1, <5>3
        <5> QED
          BY <5>2, <5>3
      <4> QED
        BY <2>1, <3>2, <3>3, <4>2, <4>3, <4>4
    <3> QED
      BY <3>4, <3>5
  <2>8. CASE ~(\E i \in 1..n : k[i] = d)
    <3>1. d \notin ToSet(k)
      BY <1>1, <2>8 DEF ToSet
    <3>2. /\ Len(b) = n + 1
          /\ \A j \in 1..n : b[j] = k[j]
          /\ b[n + 1] = d
      BY <3>1, UsedMiss DEF n
    <3>3. Drop(b) = c + 1
      BY <1>1, <1>3, <2>1, <3>2 DEF Drop
    <3>4. d \notin ToSet(t)
      <4>1. ASSUME NEW j \in 1..Maximum, t[j] = d
            PROVE  FALSE
        BY <1>1, <2>1, <2>2, <2>8, <4>1
      <4> QED
        BY <2>3, <4>1 DEF ToSet
    <3>5. /\ Len(a) = Maximum + 1
          /\ \A j \in 1..Maximum : a[j] = t[j]
          /\ a[Maximum + 1] = d
      BY <2>2, <3>4, UsedMiss
    <3>6. Drop(a) = 1
      BY <2>1, <3>5 DEF Drop
    <3> HIDE DEF a, b
    <3>7. ASSUME NEW j \in 1..Maximum
          PROVE  a[j + Drop(a)] = b[j + Drop(b)]
      <4>1. j + Drop(a) = j + 1 /\ j + Drop(b) = (j + 1) + c
        BY <1>1, <2>1, <3>3, <3>6
      <4>2. CASE j < Maximum
        <5>1. j + 1 \in 1..Maximum /\ (j + 1) + c \in 1..n
          BY <1>1, <2>1, <4>2
        <5> QED
          BY <2>2, <3>2, <3>5, <4>1, <5>1
      <4>3. CASE ~(j < Maximum)
        BY <1>1, <2>1, <3>2, <3>5, <4>1, <4>3
      <4> QED
        BY <4>2, <4>3
    <3> QED
      BY <1>1, <2>1, <3>2, <3>3, <3>5, <3>6, <3>7
  <2> QED
    BY <2>7, <2>8
<1> QED
  BY <1>1, <1>2, <1>3, MaximumAssumption

-----------------------------------------------------------------------------
(* The inductive invariant.                                                *)

\* A request has an object from its constructor to its end, and locals of
\* run() only while it calls.
RequestInv ==
    \A r \in Requests :
        /\ phase[r] = "idle" <=> obj[r] = NoObject
        /\ phase[r] # "calling" => trialling[r] = FALSE /\ age[r] = 0

\* An object is of one destination, whoever has it.
OwnInv ==
    /\ \A d, e \in Destinations :
         breakerOf[d] = breakerOf[e] /\ breakerOf[d] # NoObject => d = e
    /\ \A r \in Requests, d \in Destinations :
         obj[r] = breakerOf[d] /\ obj[r] # NoObject => dest[r] = d
    /\ \A r, q \in Requests :
         obj[r] = obj[q] /\ obj[r] # NoObject => dest[r] = dest[q]

\* A closed breaker has not reached its threshold.
Below(b) == b.state = "closed" => b.failures < Single!Threshold

\* What nobody reaches is as new.
HeapInv ==
    \A o \in Objects : /\ o \notin Live => heap[o] = NewBreaker
                       /\ Below(heap[o])

\* Nothing has been recorded with the breaker.
Clean(b) == b.state = "closed" /\ b.failures = 0

\* The objects of the watched destination, also one no longer registered.
CleanInv ==
    ~failed =>
        /\ \A r \in Requests :
             phase[r] # "idle" /\ dest[r] = Watched => Clean(heap[obj[r]])
        /\ breakerOf[Watched] # NoObject => Clean(heap[breakerOf[Watched]])

Inv == /\ TypeOK
       /\ recency \in Keys
       /\ RegistryIsLRU
       /\ SharedBreaker
       /\ RequestInv
       /\ OwnInv
       /\ HeapInv
       /\ CleanInv

USE DEF NoObject

-----------------------------------------------------------------------------
(* The methods of a breaker.                                               *)

\* A new breaker is below its threshold, which is never zero.
LEMMA NewBreakerFacts ==
    NewBreaker \in Breaker /\ Below(NewBreaker) /\ Clean(NewBreaker)
  BY MaxFailuresAssumption, ResetAssumption
     DEF NewBreaker, Breaker, BreakerState, Below, Clean, Single!Threshold

\* What run() does to a breaker leaves one, below its threshold if closed.
LEMMA BreakerSteps ==
    ASSUME NEW b \in Breaker, Below(b), NEW t \in BOOLEAN
    PROVE  /\ Claimed(b) \in Breaker /\ Below(Claimed(b))
           /\ Aged(b) \in Breaker /\ Below(Aged(b))
           /\ RecordSuccess(b) \in Breaker /\ Below(RecordSuccess(b))
           /\ RecordFailure(b) \in Breaker /\ Below(RecordFailure(b))
           /\ ReleaseTrial(b, t) \in Breaker /\ Below(ReleaseTrial(b, t))
<1> USE MaxFailuresAssumption, ResetAssumption
    DEF Breaker, BreakerState, Below, Single!Threshold
<1>1. Claimed(b) \in Breaker /\ Below(Claimed(b))
  BY DEF Claimed
<1>2. Aged(b) \in Breaker /\ Below(Aged(b))
  BY DEF Aged
<1>3. RecordSuccess(b) \in Breaker /\ Below(RecordSuccess(b))
  <2>1. RecordSuccess(b) \in Breaker /\ RecordSuccess(b).failures = 0
    BY DEF RecordSuccess
  <2>2. 0 < Single!Threshold
    OBVIOUS
  <2> QED
    BY <2>1, <2>2
<1>4. RecordFailure(b) \in Breaker /\ Below(RecordFailure(b))
  BY DEF RecordFailure, Open
<1>5. ReleaseTrial(b, t) \in Breaker /\ Below(ReleaseTrial(b, t))
  BY DEF ReleaseTrial
<1> QED
  BY <1>1, <1>2, <1>3, <1>4, <1>5

\* Nothing but a failure disturbs a breaker that is clean.
LEMMA CleanSteps ==
    ASSUME NEW b \in Breaker, NEW t \in BOOLEAN
    PROVE  /\ Clean(b) => Claimed(b) = b /\ Aged(b) = b
           /\ Clean(RecordSuccess(b))
           /\ Clean(b) => Clean(ReleaseTrial(b, t))
  BY DEF Breaker, BreakerState, Clean, Claimed, Aged, RecordSuccess,
         ReleaseTrial

-----------------------------------------------------------------------------
(* The objects.                                                            *)

\* There is always an identity for a new object: the registry has at most
\* Maximum of them and each request one.
LEMMA FreshIsFree ==
    ASSUME TypeOK, RegistryIsLRU
    PROVE  Fresh \in Objects /\ Fresh \notin Live
<1> DEFINE I == 1..Len(registry)
           A == {breakerOf[registry[i]] : i \in I}
           B == {obj[r] : r \in Requests}
<1>1. /\ registry \in Seq(Destinations) /\ Len(registry) \in Nat
      /\ DOMAIN registry = I
      /\ Len(registry) <= Maximum /\ Maximum \in Nat
  BY MaximumAssumption DEF TypeOK
<1>2. IsFiniteSet(I) /\ Cardinality(I) = Len(registry)
  <2>1. 1 \in Int /\ Len(registry) \in Int
    BY <1>1
  <2>2. /\ IsFiniteSet(I)
        /\ Cardinality(I) = IF 1 > Len(registry) THEN 0
                                                 ELSE Len(registry) - 1 + 1
    BY <2>1, FS_Interval, Zenon
  <2> HIDE DEF I
  <2> QED
    BY <1>1, <2>2
<1>3. IsFiniteSet(A) /\ Cardinality(A) <= Len(registry)
  <2> DEFINE f == [i \in I |-> breakerOf[registry[i]]]
  <2>1. f \in Surjection(I, A)
    BY DEF Surjection
  <2> QED
    BY <1>2, <2>1, FS_Surjection
<1>4. IsFiniteSet(B) /\ Cardinality(B) <= Cardinality(Requests)
  <2> DEFINE g == [r \in Requests |-> obj[r]]
  <2>1. g \in Surjection(Requests, B)
    BY DEF Surjection
  <2> QED
    BY <2>1, RequestsAssumption, FS_Surjection
<1>5. Cardinality(Requests) \in Nat /\ Cardinality(A) \in Nat
      /\ Cardinality(B) \in Nat
  BY <1>3, <1>4, RequestsAssumption, FS_CardinalityType
<1>6. IsFiniteSet(A \cup B)
      /\ Cardinality(A \cup B) <= Maximum + Cardinality(Requests)
  <2> HIDE DEF A, B
  <2>1. Cardinality(A \cap B) \in Nat
    BY <1>3, FS_Intersection, FS_CardinalityType
  <2>2. IsFiniteSet(A \cup B)
        /\ Cardinality(A \cup B)
             = Cardinality(A) + Cardinality(B) - Cardinality(A \cap B)
    BY <1>3, <1>4, FS_Union
  <2> QED
    BY <1>1, <1>3, <1>4, <1>5, <2>1, <2>2
<1>7. Cardinality(Objects) = Maximum + Cardinality(Requests) + 1
  BY <1>1, <1>5, FS_Interval DEF Objects
<1>8. ~(Objects \subseteq A \cup B)
  <2> HIDE DEF A, B
  <2>1. Objects \subseteq A \cup B
          => Cardinality(Objects) <= Cardinality(A \cup B)
    BY <1>6, FS_Subset
  <2>2. Cardinality(A \cup B) \in Nat
    BY <1>6, FS_CardinalityType
  <2> QED
    BY <1>1, <1>5, <1>6, <1>7, <2>1, <2>2
<1>9. ASSUME NEW o \in Objects, o \in Live
      PROVE  o \in A \cup B
  <2>1. CASE \E d \in Destinations : o = breakerOf[d]
    <3>1. PICK d \in Destinations : o = breakerOf[d]
      BY <2>1
    <3>2. o # NoObject
      BY <1>1, <1>5 DEF Objects
    <3>3. d \in ToSet(registry)
      BY <3>1, <3>2 DEF RegistryIsLRU
    <3> QED
      BY <1>1, <3>1, <3>3 DEF ToSet
  <2>2. CASE \E r \in Requests : o = obj[r]
    BY <2>2
  <2> QED
    BY <1>9, <2>1, <2>2 DEF Live
<1>10. \E o \in Objects : o \notin Live
  BY <1>8, <1>9
<1> QED
  BY <1>10 DEF Fresh

\* What get_breaker returns: the object registered, or one nobody has.
LEMMA GetBreakerFacts ==
    ASSUME Inv, NEW d \in Destinations
    PROVE  /\ GetBreaker(d) \in Objects
           /\ GetBreaker(d) # NoObject
           /\ \/ breakerOf[d] # NoObject /\ GetBreaker(d) = breakerOf[d]
              \/ /\ breakerOf[d] = NoObject
                 /\ GetBreaker(d) \notin Live
                 /\ heap[GetBreaker(d)] = NewBreaker
<1>1. Fresh \in Objects /\ Fresh \notin Live
  BY FreshIsFree DEF Inv
<1>2. NoObject \notin Objects
  BY RequestsAssumption, MaximumAssumption, FS_CardinalityType DEF Objects
<1>3. breakerOf[d] \in Objects \cup {NoObject}
  BY DEF Inv, TypeOK
<1> QED
  BY <1>1, <1>2, <1>3 DEF GetBreaker, Inv, HeapInv

-----------------------------------------------------------------------------
(* One lemma per action.                                                   *)

\* An empty registry satisfies the invariant.
LEMMA InitInv == Init => Inv
<1> SUFFICES ASSUME Init PROVE Inv
  OBVIOUS
<1> USE NewBreakerFacts DEF Init
<1>1. <<>> \in Seq(Destinations) /\ Len(<<>>) = 0 /\ ToSet(<<>>) = {}
  BY DEF ToSet
<1>2. TypeOK
  <2>1. 0 \in 0..AttemptLimit /\ 0 <= Maximum
    BY AttemptLimitAssumption, MaximumAssumption
  <2>2. trialling \in [Requests -> BOOLEAN] /\ failed \in BOOLEAN
    BY Zenon
  <2>3. age \in [Requests -> 0..AttemptLimit]
    BY <2>1
  <2>4. heap \in [Objects -> Breaker]
    OBVIOUS
  <2> QED
    BY <1>1, <2>1, <2>2, <2>3, <2>4, WatchedAssumption DEF TypeOK
<1>3. recency \in Keys
  BY <1>1 DEF Keys
<1>4. RegistryIsLRU
  BY <1>1, MaximumAssumption DEF RegistryIsLRU, Trimmed
<1>5. SharedBreaker /\ OwnInv /\ CleanInv
  BY WatchedAssumption DEF SharedBreaker, OwnInv, CleanInv
<1>7. RequestInv
  BY DEF RequestInv
<1>6. HeapInv
  BY DEF HeapInv
<1> QED
  BY <1>2, <1>3, <1>4, <1>5, <1>6, <1>7 DEF Inv

\* What a lookup does: the key is registered with its object, another one
\* keeps its object or leaves.
LEMMA LookUpFacts ==
    ASSUME Inv, NEW d \in Destinations, LookUp(d)
    PROVE  /\ recency' \in Keys
           /\ registry' \in Keys
           /\ Len(registry') <= Maximum
           /\ RegistryIsLRU'
           /\ breakerOf' \in [Destinations -> Objects \cup {NoObject}]
           /\ breakerOf'[d] = GetBreaker(d)
           /\ \A e \in Destinations \ {d} :
                breakerOf'[e] \in {NoObject, breakerOf[e]}
<1> DEFINE k == Trimmed(Used(registry, d))
<1>1. /\ registry' = k /\ recency' = Used(recency, d)
      /\ breakerOf' = [e \in Destinations |->
                         IF e \notin ToSet(k) THEN NoObject
                         ELSE IF e = d THEN GetBreaker(d) ELSE breakerOf[e]]
  BY DEF LookUp
<1>2. recency \in Keys /\ registry = Trimmed(recency)
      /\ \A e \in Destinations : breakerOf[e] # NoObject <=> e \in ToSet(registry)
  BY DEF Inv, RegistryIsLRU
<1>3. recency' \in Keys /\ registry \in Keys
  BY <1>1, <1>2, UsedKeys, TrimmedKeys
<1>4. k = Trimmed(recency')
  BY <1>1, <1>2, TrimUsed
<1> DEFINE u == Used(registry, d)
<1>5. /\ u \in Keys /\ Len(u) >= 1 /\ u[Len(u)] = d
      /\ \A e \in Destinations :
           e \in ToSet(u) <=> e \in ToSet(registry) \/ e = d
  BY <1>3, UsedKeys
<1>6. u \in Seq(Destinations) /\ Len(u) \in Nat /\ DOMAIN u = 1..Len(u)
  BY <1>5 DEF Keys
<1> HIDE DEF u
<1>7. /\ k \in Keys /\ Len(k) <= Maximum
      /\ Drop(u) \in 0..Len(u) /\ Len(k) = Len(u) - Drop(u)
      /\ \A j \in 1..Len(k) : k[j] = u[j + Drop(u)]
  BY <1>5, TrimmedKeys DEF u
<1>8. k \in Seq(Destinations) /\ DOMAIN k = 1..Len(k) /\ Len(k) \in Nat
  BY <1>7 DEF Keys
<1> HIDE DEF k
<1>9. d \in ToSet(k)
  <2>1. Len(k) >= 1 /\ Len(k) + Drop(u) = Len(u)
    BY <1>5, <1>6, <1>7, MaximumAssumption DEF Drop
  <2>2. k[Len(k)] = d
    BY <1>5, <1>7, <1>8, <2>1
  <2> QED
    BY <1>8, <2>1, <2>2 DEF ToSet
<1>10. ASSUME NEW e \in ToSet(k)
       PROVE  e \in ToSet(registry) \/ e = d
  <2>1. PICK j \in 1..Len(k) : e = k[j]
    BY <1>8 DEF ToSet
  <2>2. j + Drop(u) \in 1..Len(u) /\ e = u[j + Drop(u)]
    BY <1>6, <1>7, <1>8, <2>1
  <2>3. e \in ToSet(u) /\ e \in Destinations
    BY <1>6, <2>2 DEF ToSet
  <2> QED
    BY <1>5, <2>3
<1>11. GetBreaker(d) \in Objects /\ GetBreaker(d) # NoObject
  BY GetBreakerFacts
<1>12. breakerOf \in [Destinations -> Objects \cup {NoObject}]
  BY DEF Inv, TypeOK
<1>13. \A e \in Destinations : breakerOf'[e] # NoObject <=> e \in ToSet(k)
  BY <1>1, <1>2, <1>10, <1>11
<1>14. RegistryIsLRU'
  BY <1>1, <1>4, <1>13 DEF RegistryIsLRU, Trimmed
<1>15. registry' \in Keys /\ Len(registry') <= Maximum
  BY <1>1, <1>7
<1>16. /\ breakerOf' \in [Destinations -> Objects \cup {NoObject}]
       /\ breakerOf'[d] = GetBreaker(d)
       /\ \A e \in Destinations \ {d} :
            breakerOf'[e] \in {NoObject, breakerOf[e]}
  BY <1>1, <1>9, <1>11, <1>12
<1> QED
  BY <1>3, <1>14, <1>15, <1>16

\* A lookup, whether its request is built or rejected.
LEMMA LookedUpInv ==
    ASSUME Inv, NEW r \in Requests, NEW d \in Destinations,
           Construct(r, d) \/ ConstructRejected(r, d)
    PROVE  Inv'
<1>1. /\ phase[r] = "idle" /\ LookUp(d)
      /\ dropped' = dropped \cup HoldersOf(Evicted)
      /\ heap' = Collected(heap, Live')
      /\ trialling' = trialling /\ age' = age /\ failed' = failed
      /\ \/ phase' = phase /\ dest' = dest /\ obj' = obj
         \/ /\ phase' = [phase EXCEPT ![r] = "built"]
            /\ dest' = [dest EXCEPT ![r] = d]
            /\ obj' = [obj EXCEPT ![r] = GetBreaker(d)]
  BY DEF Construct, ConstructRejected, reqVars
<1>2. /\ TypeOK /\ SharedBreaker /\ RequestInv /\ OwnInv /\ HeapInv /\ CleanInv
  BY DEF Inv
<1>3. /\ recency' \in Keys /\ registry' \in Keys
      /\ Len(registry') <= Maximum /\ RegistryIsLRU'
      /\ breakerOf' \in [Destinations -> Objects \cup {NoObject}]
      /\ breakerOf'[d] = GetBreaker(d)
      /\ \A e \in Destinations \ {d} :
           breakerOf'[e] \in {NoObject, breakerOf[e]}
  BY <1>1, LookUpFacts
<1> DEFINE g == GetBreaker(d)
<1>4. /\ g \in Objects /\ g # NoObject
      /\ \/ breakerOf[d] # NoObject /\ g = breakerOf[d]
         \/ breakerOf[d] = NoObject /\ g \notin Live /\ heap[g] = NewBreaker
  BY GetBreakerFacts
<1> HIDE DEF g
<1>5. /\ phase' \in [Requests -> {"idle", "built", "calling"}]
      /\ dest' \in [Requests -> Destinations]
      /\ obj' \in [Requests -> Objects \cup {NoObject}]
      /\ \A q \in Requests \ {r} :
           phase'[q] = phase[q] /\ dest'[q] = dest[q] /\ obj'[q] = obj[q]
      /\ \/ phase'[r] = "idle" /\ obj'[r] = NoObject /\ dest'[r] = dest[r]
         \/ phase'[r] = "built" /\ obj'[r] = g /\ dest'[r] = d
  BY <1>1, <1>2, <1>4 DEF TypeOK, RequestInv, g
<1>6. \A o \in Objects : heap'[o] = IF o \in Live' THEN heap[o] ELSE NewBreaker
  BY <1>1 DEF Collected
<1>7. heap' \in [Objects -> Breaker]
  BY <1>1, <1>2, NewBreakerFacts DEF Collected, TypeOK
<1>8. \A e \in Destinations : breakerOf[e] \in Live
  BY DEF Live
<1>9. \A q \in Requests : obj[q] \in Live
  BY DEF Live
<1>10. \A e \in Destinations : breakerOf'[e] \in Live'
  BY DEF Live
<1>11. \A q \in Requests : obj'[q] \in Live'
  BY DEF Live
<1>12. TypeOK'
  <2>1. HoldersOf(Evicted) \subseteq Requests
    BY DEF HoldersOf
  <2>2. dropped' \subseteq Requests
    BY <1>1, <1>2, <2>1 DEF TypeOK
  <2> QED
    BY <1>1, <1>2, <1>3, <1>5, <1>7, <2>2 DEF TypeOK, Keys
<1>13. RequestInv'
  BY <1>1, <1>2, <1>4, <1>5 DEF RequestInv
<1>14. SharedBreaker'
  <2> SUFFICES ASSUME NEW q \in Requests, phase'[q] # "idle", q \notin dropped'
               PROVE  obj'[q] = breakerOf'[dest'[q]]
    BY DEF SharedBreaker
  <2>1. CASE q = r
    BY <1>3, <1>5, <2>1 DEF g
  <2>2. CASE q # r
    <3>1. /\ phase[q] # "idle" /\ q \notin dropped /\ dest[q] \in Destinations
          /\ obj'[q] = obj[q] /\ dest'[q] = dest[q]
      BY <1>1, <1>2, <1>5, <2>2 DEF TypeOK
    <3>2. obj[q] = breakerOf[dest[q]] /\ obj[q] # NoObject
      BY <1>2, <3>1 DEF SharedBreaker, RequestInv
    <3>3. dest[q] \notin Evicted
      BY <1>1, <3>1 DEF HoldersOf
    <3>4. breakerOf'[dest[q]] # NoObject
      BY <3>1, <3>2, <3>3 DEF Evicted
    <3>5. breakerOf'[dest[q]] = breakerOf[dest[q]]
      BY <1>3, <1>4, <3>1, <3>2, <3>4 DEF g
    <3> QED
      BY <3>1, <3>2, <3>5
  <2> QED
    BY <2>1, <2>2
<1>15. OwnInv'
  <2>1. ASSUME NEW e \in Destinations, NEW f \in Destinations,
               breakerOf'[e] = breakerOf'[f], breakerOf'[e] # NoObject
        PROVE  e = f
    BY <1>2, <1>3, <1>4, <1>8, <2>1 DEF OwnInv, g
  <2>2. ASSUME NEW q \in Requests, NEW e \in Destinations,
               obj'[q] = breakerOf'[e], obj'[q] # NoObject
        PROVE  dest'[q] = e
    <3>1. CASE q = r
      BY <1>2, <1>3, <1>4, <1>5, <1>8, <2>2, <3>1 DEF OwnInv, g
    <3>2. CASE q # r
      BY <1>2, <1>3, <1>4, <1>5, <1>9, <2>2, <3>2 DEF OwnInv, g
    <3> QED
      BY <3>1, <3>2
  <2>3. ASSUME NEW q \in Requests, NEW p \in Requests,
               obj'[q] = obj'[p], obj'[q] # NoObject
        PROVE  dest'[q] = dest'[p]
    BY <1>2, <1>4, <1>5, <1>9, <2>3 DEF OwnInv, g
  <2> QED
    BY <2>1, <2>2, <2>3 DEF OwnInv
<1>16. HeapInv'
  BY <1>2, <1>6, NewBreakerFacts DEF HeapInv, Below
<1>17. CleanInv'
  <2> SUFFICES ASSUME ~failed'
               PROVE  /\ \A q \in Requests :
                           phase'[q] # "idle" /\ dest'[q] = Watched
                             => Clean(heap'[obj'[q]])
                      /\ breakerOf'[Watched] # NoObject
                           => Clean(heap'[breakerOf'[Watched]])
    BY DEF CleanInv
  <2>1. /\ \A q \in Requests :
             phase[q] # "idle" /\ dest[q] = Watched => Clean(heap[obj[q]])
        /\ breakerOf[Watched] # NoObject => Clean(heap[breakerOf[Watched]])
    BY <1>1, <1>2 DEF CleanInv
  <2>2. d = Watched => Clean(heap[g])
    BY <1>4, <2>1, NewBreakerFacts
  <2>3. ASSUME NEW q \in Requests, phase'[q] # "idle", dest'[q] = Watched
        PROVE  Clean(heap'[obj'[q]])
    <3>1. obj'[q] \in Objects /\ Clean(heap[obj'[q]])
      BY <1>2, <1>4, <1>5, <2>1, <2>2, <2>3 DEF RequestInv, TypeOK
    <3> QED
      BY <1>6, <1>11, <3>1
  <2>4. ASSUME breakerOf'[Watched] # NoObject
        PROVE  Clean(heap'[breakerOf'[Watched]])
    <3>1. /\ breakerOf'[Watched] \in Objects
          /\ Clean(heap[breakerOf'[Watched]])
      BY <1>3, <2>1, <2>2, <2>4, WatchedAssumption DEF g
    <3> QED
      BY <1>6, <1>10, <3>1, WatchedAssumption
  <2> QED
    BY <2>3, <2>4
<1> QED
  BY <1>3, <1>12, <1>13, <1>14, <1>15, <1>16, <1>17 DEF Inv

\* reset() leaves the objects with the requests that have them.
LEMMA ResetRegistryInv ==
    ASSUME Inv, ResetRegistry
    PROVE  Inv'
<1>1. /\ TypeOK /\ SharedBreaker /\ RequestInv /\ OwnInv /\ HeapInv /\ CleanInv
      /\ RegistryIsLRU
  BY DEF Inv
<1>2. /\ registry' = <<>> /\ recency' = <<>>
      /\ breakerOf' = [d \in Destinations |-> NoObject]
      /\ phase' = phase /\ dest' = dest /\ obj' = obj
      /\ trialling' = trialling /\ age' = age /\ failed' = failed
      /\ dropped' = dropped \cup HoldersOf(ToSet(registry))
      /\ heap' = Collected(heap, Live')
  BY DEF ResetRegistry, reqVars
<1>3. <<>> \in Seq(Destinations) /\ Len(<<>>) = 0 /\ ToSet(<<>>) = {}
  BY DEF ToSet
<1>4. recency' \in Keys
  BY <1>2, <1>3 DEF Keys
<1>5. RegistryIsLRU'
  BY <1>2, <1>3, MaximumAssumption DEF RegistryIsLRU, Trimmed
<1>6. heap' \in [Objects -> Breaker]
      /\ \A o \in Objects : heap'[o] = IF o \in Live' THEN heap[o] ELSE NewBreaker
  BY <1>1, <1>2, NewBreakerFacts DEF Collected, TypeOK
<1>7. \A q \in Requests : obj[q] \in Live'
  BY <1>2 DEF Live
<1>8. TypeOK'
  <2>1. dropped' \subseteq Requests
    BY <1>1, <1>2 DEF TypeOK, HoldersOf
  <2> QED
    BY <1>1, <1>2, <1>3, <1>6, <2>1, MaximumAssumption DEF TypeOK
<1>9. SharedBreaker'
  <2> SUFFICES ASSUME NEW q \in Requests, phase[q] # "idle", q \notin dropped'
               PROVE  FALSE
    BY <1>2 DEF SharedBreaker
  <2>1. dest[q] \notin ToSet(registry) /\ q \notin dropped
    BY <1>2 DEF HoldersOf
  <2>2. obj[q] = breakerOf[dest[q]] /\ obj[q] # NoObject
    BY <1>1, <2>1 DEF SharedBreaker, RequestInv
  <2> QED
    BY <1>1, <2>1, <2>2 DEF RegistryIsLRU, TypeOK
<1>10. RequestInv' /\ OwnInv'
  BY <1>1, <1>2 DEF RequestInv, OwnInv
<1>11. HeapInv'
  BY <1>1, <1>6, NewBreakerFacts DEF HeapInv, Below
<1>12. CleanInv'
  BY <1>1, <1>2, <1>6, <1>7, WatchedAssumption
     DEF CleanInv, TypeOK, RequestInv, Clean
<1> QED
  BY <1>4, <1>5, <1>8, <1>9, <1>10, <1>11, <1>12 DEF Inv

\* The object a request has.
LEMMA HeldFacts ==
    ASSUME Inv, NEW r \in Requests, phase[r] # "idle"
    PROVE  /\ obj[r] \in Objects /\ obj[r] # NoObject /\ obj[r] \in Live
           /\ heap[obj[r]] \in Breaker /\ Below(heap[obj[r]])
           /\ trialling[r] \in BOOLEAN
           /\ ~failed /\ dest[r] = Watched => Clean(heap[obj[r]])
<1>1. TypeOK /\ RequestInv /\ HeapInv /\ CleanInv
  BY DEF Inv
<1>2. obj[r] \in Objects /\ obj[r] # NoObject /\ obj[r] \in Live
  BY <1>1 DEF TypeOK, RequestInv, Live
<1> QED
  BY <1>1, <1>2 DEF TypeOK, HeapInv, CleanInv

\* allows_execution() says yes.
LEMMA StartInv ==
    ASSUME Inv, NEW r \in Requests, Start(r)
    PROVE  Inv'
<1> DEFINE b == heap[obj[r]]
<1>1. /\ TypeOK /\ SharedBreaker /\ RequestInv /\ OwnInv /\ HeapInv /\ CleanInv
      /\ RegistryIsLRU /\ recency \in Keys
  BY DEF Inv
<1>2. /\ phase[r] = "built"
      /\ heap' = [heap EXCEPT ![obj[r]] = Claimed(b)]
      /\ phase' = [phase EXCEPT ![r] = "calling"]
      /\ trialling' = [trialling EXCEPT ![r] = (Claimed(b).state = "half_open")]
      /\ registry' = registry /\ breakerOf' = breakerOf /\ dest' = dest
      /\ obj' = obj /\ age' = age /\ recency' = recency /\ dropped' = dropped
      /\ failed' = failed
  BY DEF Start, regVars
<1>3. /\ obj[r] \in Objects /\ obj[r] # NoObject /\ obj[r] \in Live
      /\ b \in Breaker /\ Below(b)
  BY <1>2, HeldFacts
<1>4. Claimed(b) \in Breaker /\ Below(Claimed(b)) /\ (Clean(b) => Claimed(b) = b)
  BY <1>3, BreakerSteps, CleanSteps
<1> HIDE DEF b
<1>5. heap' \in [Objects -> Breaker] /\ heap'[obj[r]] = Claimed(b)
      /\ \A o \in Objects \ {obj[r]} : heap'[o] = heap[o]
  BY <1>1, <1>2, <1>3, <1>4 DEF TypeOK
<1>6. TypeOK'
  <2>1. trialling' \in [Requests -> BOOLEAN]
    BY <1>1, <1>2 DEF TypeOK
  <2>2. phase' \in [Requests -> {"idle", "built", "calling"}]
    BY <1>1, <1>2 DEF TypeOK
  <2> QED
    BY <1>1, <1>2, <1>5, <2>1, <2>2 DEF TypeOK
<1>7. /\ phase'[r] = "calling"
      /\ \A q \in Requests \ {r} :
           phase'[q] = phase[q] /\ trialling'[q] = trialling[q]
  BY <1>1, <1>2 DEF TypeOK
<1>8. RequestInv'
  BY <1>1, <1>2, <1>3, <1>7 DEF RequestInv
<1>9. SharedBreaker' /\ OwnInv'
  BY <1>1, <1>2, <1>7 DEF SharedBreaker, OwnInv
<1>10. Live' = Live
  BY <1>2 DEF Live
<1>11. HeapInv'
  BY <1>1, <1>3, <1>4, <1>5, <1>10 DEF HeapInv, Below
<1>12. \A o \in Objects : Clean(heap[o]) => heap'[o] = heap[o]
  BY <1>4, <1>5 DEF b
<1>13. CleanInv'
  <2>1. \A q \in Requests : phase[q] # "idle" => obj[q] \in Objects
    BY HeldFacts
  <2>2. breakerOf[Watched] \in Objects \cup {NoObject}
    BY <1>1, WatchedAssumption DEF TypeOK
  <2> QED
    BY <1>1, <1>2, <1>7, <1>12, <2>1, <2>2 DEF CleanInv
<1>14. RegistryIsLRU' /\ recency' \in Keys
  BY <1>1, <1>2 DEF RegistryIsLRU, Trimmed
<1> QED
  BY <1>6, <1>8, <1>9, <1>11, <1>13, <1>14 DEF Inv

\* A request ends, leaving its breaker as b.
LEMMA EndInv ==
    ASSUME Inv, NEW r \in Requests, phase[r] # "idle",
           NEW b \in Breaker, Below(b), End(r, b),
           failed' \in BOOLEAN, ~failed' => ~failed,
           ~failed' /\ dest[r] = Watched => Clean(b)
    PROVE  Inv'
<1>1. /\ TypeOK /\ SharedBreaker /\ RequestInv /\ OwnInv /\ HeapInv /\ CleanInv
      /\ RegistryIsLRU /\ recency \in Keys
  BY DEF Inv
<1>2. /\ phase' = [phase EXCEPT ![r] = "idle"]
      /\ dest' = [dest EXCEPT ![r] = Watched]
      /\ obj' = [obj EXCEPT ![r] = NoObject]
      /\ trialling' = [trialling EXCEPT ![r] = FALSE]
      /\ age' = [age EXCEPT ![r] = 0]
      /\ dropped' = dropped \ {r}
      /\ registry' = registry /\ breakerOf' = breakerOf /\ recency' = recency
      /\ heap' = Collected([heap EXCEPT ![obj[r]] = b], Live')
  BY DEF End, regVars
<1>3. obj[r] \in Objects /\ obj[r] # NoObject
  BY HeldFacts
<1>4. /\ phase'[r] = "idle" /\ obj'[r] = NoObject /\ trialling'[r] = FALSE
      /\ age'[r] = 0
      /\ \A q \in Requests \ {r} :
           /\ phase'[q] = phase[q] /\ dest'[q] = dest[q] /\ obj'[q] = obj[q]
           /\ trialling'[q] = trialling[q] /\ age'[q] = age[q]
  BY <1>1, <1>2 DEF TypeOK
<1>5. /\ heap' \in [Objects -> Breaker]
      /\ \A o \in Objects :
           heap'[o] = IF o \in Live' THEN (IF o = obj[r] THEN b ELSE heap[o])
                                     ELSE NewBreaker
  BY <1>1, <1>2, <1>3, NewBreakerFacts DEF Collected, TypeOK
<1>6. TypeOK'
  <2>1. trialling' \in [Requests -> BOOLEAN]
    BY <1>1, <1>2 DEF TypeOK
  <2>2. age' \in [Requests -> 0..AttemptLimit]
    BY <1>1, <1>2, AttemptLimitAssumption DEF TypeOK
  <2>3. /\ phase' \in [Requests -> {"idle", "built", "calling"}]
        /\ dest' \in [Requests -> Destinations]
        /\ obj' \in [Requests -> Objects \cup {NoObject}]
        /\ dropped' \subseteq Requests
    BY <1>1, <1>2, WatchedAssumption DEF TypeOK
  <2> QED
    BY <1>1, <1>2, <1>5, <2>1, <2>2, <2>3 DEF TypeOK
<1>7. RequestInv'
  BY <1>1, <1>4 DEF RequestInv
<1>8. SharedBreaker'
  BY <1>1, <1>2, <1>4 DEF SharedBreaker
<1>9. OwnInv'
  BY <1>1, <1>2, <1>4 DEF OwnInv
<1>10. HeapInv'
  BY <1>1, <1>5, NewBreakerFacts DEF HeapInv, Below
<1>11. CleanInv'
  <2> SUFFICES ASSUME ~failed'
               PROVE  /\ \A q \in Requests :
                           phase'[q] # "idle" /\ dest'[q] = Watched
                             => Clean(heap'[obj'[q]])
                      /\ breakerOf'[Watched] # NoObject
                           => Clean(heap'[breakerOf'[Watched]])
    BY DEF CleanInv
  <2>1. ASSUME NEW q \in Requests, phase'[q] # "idle", dest'[q] = Watched
        PROVE  Clean(heap'[obj'[q]])
    <3>1. /\ q # r /\ phase[q] # "idle" /\ dest[q] = Watched /\ obj'[q] = obj[q]
      BY <1>4, <2>1
    <3>2. obj[q] \in Objects /\ obj[q] # NoObject /\ Clean(heap[obj[q]])
      BY <3>1, HeldFacts
    <3>3. obj[q] \in Live'
      BY <3>1 DEF Live
    <3>4. obj[q] = obj[r] => dest[r] = Watched
      BY <1>1, <3>1, <3>2 DEF OwnInv
    <3> QED
      BY <1>5, <3>1, <3>2, <3>3, <3>4
  <2>2. ASSUME breakerOf'[Watched] # NoObject
        PROVE  Clean(heap'[breakerOf'[Watched]])
    <3>1. /\ breakerOf[Watched] # NoObject /\ breakerOf[Watched] \in Objects
          /\ breakerOf'[Watched] = breakerOf[Watched]
          /\ Clean(heap[breakerOf[Watched]])
      BY <1>1, <1>2, <2>2, WatchedAssumption DEF CleanInv, TypeOK
    <3>2. breakerOf[Watched] \in Live'
      BY <1>2, WatchedAssumption DEF Live
    <3>3. obj[r] = breakerOf[Watched] => dest[r] = Watched
      BY <1>1, <3>1, WatchedAssumption DEF OwnInv
    <3> QED
      BY <1>5, <3>1, <3>2, <3>3
  <2> QED
    BY <2>1, <2>2
<1>12. RegistryIsLRU' /\ recency' \in Keys
  BY <1>1, <1>2 DEF RegistryIsLRU, Trimmed
<1> QED
  BY <1>6, <1>7, <1>8, <1>9, <1>10, <1>11, <1>12 DEF Inv

\* A request that is refused, or fails before run(), leaves its breaker alone.
LEMMA UnrunInv ==
    ASSUME Inv, NEW r \in Requests, Refused(r) \/ NeverRun(r)
    PROVE  Inv'
<1>1. phase[r] # "idle" /\ End(r, heap[obj[r]]) /\ failed' = failed
  BY DEF Refused, NeverRun
<1>2. failed \in BOOLEAN
  BY DEF Inv, TypeOK
<1> QED
  BY <1>1, <1>2, HeldFacts, EndInv

\* The outcomes of an attempt.
LEMMA OutcomeInv ==
    ASSUME Inv, NEW r \in Requests, Succeed(r) \/ Fail(r) \/ Escape(r)
    PROVE  Inv'
<1> DEFINE b == heap[obj[r]]
           t == trialling[r]
<1>1. phase[r] # "idle" /\ failed \in BOOLEAN
  BY DEF Succeed, Fail, Escape, Inv, TypeOK
<1>2. /\ b \in Breaker /\ Below(b) /\ t \in BOOLEAN
      /\ ~failed /\ dest[r] = Watched => Clean(b)
  BY <1>1, HeldFacts
<1> HIDE DEF b, t
<1>3. CASE Succeed(r)
  <2> DEFINE n == RecordSuccess(b)
             c == ReleaseTrial(n, t)
  <2>1. n \in Breaker /\ Below(n) /\ Clean(n)
    BY <1>2, BreakerSteps, CleanSteps
  <2>2. End(r, c) /\ failed' = failed
    BY <1>3 DEF Succeed, b, t
  <2> HIDE DEF n
  <2>3. c \in Breaker /\ Below(c) /\ Clean(c)
    BY <1>2, <2>1, BreakerSteps, CleanSteps
  <2> HIDE DEF c
  <2> QED
    BY <1>1, <2>2, <2>3, EndInv
<1>4. CASE Fail(r)
  <2> DEFINE n == RecordFailure(b)
             c == ReleaseTrial(n, t)
  <2>1. n \in Breaker /\ Below(n)
    BY <1>2, BreakerSteps
  <2>2. End(r, c) /\ failed' = (failed \/ dest[r] = Watched)
    BY <1>4 DEF Fail, b, t
  <2> HIDE DEF n
  <2>3. c \in Breaker /\ Below(c)
    BY <1>2, <2>1, BreakerSteps
  <2> HIDE DEF c
  <2>4. /\ failed' \in BOOLEAN /\ (~failed' => ~failed)
        /\ (~failed' /\ dest[r] = Watched => Clean(c))
    BY <1>1, <2>2
  <2> QED
    BY <1>1, <2>2, <2>3, <2>4, EndInv
<1>5. CASE Escape(r)
  <2> DEFINE c == ReleaseTrial(b, t)
  <2>1. End(r, c) /\ failed' = failed
    BY <1>5 DEF Escape, b, t
  <2>2. c \in Breaker /\ Below(c)
        /\ (~failed /\ dest[r] = Watched => Clean(c))
    BY <1>2, BreakerSteps, CleanSteps
  <2> HIDE DEF c
  <2> QED
    BY <1>1, <2>1, <2>2, EndInv
<1> QED
  BY <1>3, <1>4, <1>5

\* Time passes for all objects alike.
LEMMA TickInv ==
    ASSUME Inv, Tick
    PROVE  Inv'
<1>1. /\ TypeOK /\ SharedBreaker /\ RequestInv /\ OwnInv /\ HeapInv /\ CleanInv
      /\ RegistryIsLRU /\ recency \in Keys
  BY DEF Inv
<1>2. /\ \A r \in Requests : phase[r] = "calling" => age[r] < AttemptLimit
      /\ heap' = [o \in Objects |-> Aged(heap[o])]
      /\ age' = [r \in Requests |-> IF phase[r] = "calling" THEN age[r] + 1
                                                            ELSE 0]
      /\ registry' = registry /\ breakerOf' = breakerOf /\ phase' = phase
      /\ dest' = dest /\ obj' = obj /\ trialling' = trialling
      /\ recency' = recency /\ dropped' = dropped /\ failed' = failed
  BY DEF Tick, regVars
<1>3. \A o \in Objects : /\ Aged(heap[o]) \in Breaker /\ Below(Aged(heap[o]))
                         /\ Clean(heap[o]) => Aged(heap[o]) = heap[o]
  <2> SUFFICES ASSUME NEW o \in Objects
               PROVE  /\ Aged(heap[o]) \in Breaker /\ Below(Aged(heap[o]))
                      /\ Clean(heap[o]) => Aged(heap[o]) = heap[o]
    OBVIOUS
  <2>1. heap[o] \in Breaker /\ Below(heap[o]) /\ TRUE \in BOOLEAN
    BY <1>1 DEF TypeOK, HeapInv
  <2> QED
    BY <2>1, BreakerSteps, CleanSteps
<1>4. /\ heap' \in [Objects -> Breaker]
      /\ \A o \in Objects : /\ Below(heap'[o])
                            /\ Clean(heap[o]) => heap'[o] = heap[o]
  BY <1>2, <1>3
<1>5. age' \in [Requests -> 0..AttemptLimit]
  BY <1>1, <1>2, AttemptLimitAssumption DEF TypeOK
<1>6. TypeOK'
  BY <1>1, <1>2, <1>4, <1>5 DEF TypeOK
<1>7. RequestInv' /\ SharedBreaker' /\ OwnInv'
  BY <1>1, <1>2 DEF RequestInv, SharedBreaker, OwnInv
<1>8. HeapInv'
  <2>1. Live' = Live
    BY <1>2 DEF Live
  <2> QED
    BY <1>1, <1>4, <2>1, NewBreakerFacts DEF HeapInv
<1>9. CleanInv'
  <2>1. \A q \in Requests : phase[q] # "idle" => obj[q] \in Objects
    BY HeldFacts
  <2>2. breakerOf[Watched] \in Objects \cup {NoObject}
    BY <1>1, WatchedAssumption DEF TypeOK
  <2> QED
    BY <1>1, <1>2, <1>4, <2>1, <2>2 DEF CleanInv
<1>10. RegistryIsLRU' /\ recency' \in Keys
  BY <1>1, <1>2 DEF RegistryIsLRU, Trimmed
<1> QED
  BY <1>6, <1>7, <1>8, <1>9, <1>10 DEF Inv

\* Nothing happens.
LEMMA StutterInv ==
    ASSUME Inv, UNCHANGED vars
    PROVE  Inv'
<1>1. Live' = Live
  BY DEF vars, Live
<1> QED
  BY <1>1 DEF Inv, vars, TypeOK, RegistryIsLRU, Trimmed, SharedBreaker,
              RequestInv, OwnInv, HeapInv, CleanInv

-----------------------------------------------------------------------------
(* The theorems.                                                           *)

\* The inductive invariant holds in every reachable state, also of a program
\* that calls reset(): its parts are named for what they say of get_breaker
\* and of the requests that keep what it returned.
THEOREM Invariance == TestSpec => []Inv
<1>1. Init => Inv
  BY InitInv
<1>2. Inv /\ [Next \/ ResetRegistry]_vars => Inv'
  <2> SUFFICES ASSUME Inv, [Next \/ ResetRegistry]_vars
               PROVE  Inv'
    OBVIOUS
  <2>1. ASSUME NEW r \in Requests, NEW d \in Destinations,
               Construct(r, d) \/ ConstructRejected(r, d)
        PROVE  Inv'
    BY <2>1, LookedUpInv
  <2>2. ASSUME NEW r \in Requests, Start(r)
        PROVE  Inv'
    BY <2>2, StartInv
  <2>3. ASSUME NEW r \in Requests, Refused(r) \/ NeverRun(r)
        PROVE  Inv'
    BY <2>3, UnrunInv
  <2>4. ASSUME NEW r \in Requests, Succeed(r) \/ Fail(r) \/ Escape(r)
        PROVE  Inv'
    BY <2>4, OutcomeInv
  <2>5. CASE Tick
    BY <2>5, TickInv
  <2>6. CASE ResetRegistry
    BY <2>6, ResetRegistryInv
  <2>7. CASE UNCHANGED vars
    BY <2>7, StutterInv
  <2> QED
    BY <2>1, <2>2, <2>3, <2>4, <2>5, <2>6, <2>7 DEF Next
<1> QED
  BY <1>1, <1>2, PTL DEF TestSpec

\* get_breaker keeps the Maximum destinations used last, gives all requests of
\* a registered destination its one breaker, and no failure of one destination
\* disturbs the breaker of another.
THEOREM SpecRegistry == TestSpec => []RegistryInv
<1>1. Inv => RegistryInv
  BY DEF Inv, RegistryInv, CleanInv, Clean, Isolation
<1> QED
  BY <1>1, Invariance, PTL

-----------------------------------------------------------------------------
(* The refinement: what happens to the breaker of the watched destination. *)

\* The variables of CircuitBreaker under the refinement mapping.
Pc == [r \in Requests |-> IF Watching(r) THEN "calling" ELSE "idle"]
Attempts == [r \in Requests |-> IF Watching(r) THEN 1 ELSE 0]
Trialling == [r \in Requests |-> Watching(r) /\ trialling[r]]
Age == [r \in Requests |-> IF Watching(r) THEN age[r] ELSE 0]
Count(b) == IF b.state = "closed"
            THEN b.failures
            ELSE IF MaxFailures = 0 THEN 1 ELSE MaxFailures
Streak == Count(WatchedBreaker)

\* What a request contributes to them is left alone.
Still(q) ==
    /\ Watching(q)' <=> Watching(q)
    /\ Watching(q) => (trialling'[q] <=> trialling[q]) /\ age'[q] = age[q]

\* The methods of a breaker are the same on both sides of the mapping.
LEMMA SameMethods ==
    /\ Single!NewBreaker = NewBreaker
    /\ \A b : /\ Single!Admits(b) <=> Admits(b)
             /\ Single!Claimed(b) = Claimed(b)
             /\ Single!RecordSuccess(b) = RecordSuccess(b)
             /\ Single!RecordFailure(b) = RecordFailure(b)
             /\ Single!Aged(b) = Aged(b)
             /\ \A t : Single!ReleaseTrial(b, t) = ReleaseTrial(b, t)
<1>1. Single!NewBreaker = NewBreaker
  BY DEF Single!NewBreaker, NewBreaker
<1>2. \A b : Single!Admits(b) <=> Admits(b)
  BY DEF Single!Admits, Admits
<1>3. \A b : Single!Claimed(b) = Claimed(b)
  BY DEF Single!Claimed, Claimed
<1>4. \A b : Single!RecordSuccess(b) = RecordSuccess(b)
  BY DEF Single!RecordSuccess, RecordSuccess
<1>5. \A b : Single!RecordFailure(b) = RecordFailure(b)
  BY DEF Single!RecordFailure, RecordFailure, Single!Open, Open
<1>6. \A b : Single!Aged(b) = Aged(b)
  BY DEF Single!Aged, Aged
<1>7. \A b, t : Single!ReleaseTrial(b, t) = ReleaseTrial(b, t)
  BY DEF Single!ReleaseTrial, ReleaseTrial
<1> QED
  BY <1>1, <1>2, <1>3, <1>4, <1>5, <1>6, <1>7

\* A step that touches neither the breaker nor the calls of the destination.
LEMMA StutterStep ==
    ASSUME WatchedBreaker' = WatchedBreaker, \A q \in Requests : Still(q)
    PROVE  UNCHANGED Single!vars
<1>1. Pc' = Pc /\ Attempts' = Attempts /\ Age' = Age
  BY DEF Pc, Attempts, Age, Still
<1>2. Trialling' = Trialling
  BY DEF Trialling, Still
<1>3. Streak' = Streak
  BY DEF Streak
<1> QED
  BY <1>1, <1>2, <1>3 DEF Single!vars, Pc, Attempts, Trialling, Age, Streak, Count

\* Its locals in run() are gone.
Left(r) == /\ Pc' = [Pc EXCEPT ![r] = "idle"]
           /\ Attempts' = [Attempts EXCEPT ![r] = 0]
           /\ Trialling' = [Trialling EXCEPT ![r] = FALSE]
           /\ Age' = [Age EXCEPT ![r] = 0]

\* A request of the destination, and only it, ends its call.
LEMMA LeftStep ==
    ASSUME NEW r \in Requests, ~Watching(r)',
           \A q \in Requests \ {r} : Still(q)
    PROVE  Left(r)
<1>1. /\ Pc' = [Pc EXCEPT ![r] = "idle"]
      /\ Attempts' = [Attempts EXCEPT ![r] = 0]
      /\ Age' = [Age EXCEPT ![r] = 0]
  BY DEF Pc, Attempts, Age, Still
<1>2. Trialling' = [Trialling EXCEPT ![r] = FALSE]
  BY DEF Trialling, Still
<1> QED
  BY <1>1, <1>2 DEF Left

\* Nobody calls, and the breaker is as good as new: at first, and when the
\* destination has left the registry.
LEMMA NewStep ==
    /\ WatchedBreaker = NewBreaker /\ (\A r \in Requests : ~Watching(r))
         => Single!Init
    /\ WatchedBreaker' = NewBreaker /\ (\A r \in Requests : ~Watching(r)')
         => Single!Init'
<1>1. NewBreaker.state = "closed" /\ NewBreaker.failures = 0
  BY DEF NewBreaker
<1>2. ASSUME WatchedBreaker = NewBreaker, \A r \in Requests : ~Watching(r)
      PROVE  Single!Init
  <2>1. Trialling = [r \in Requests |-> FALSE]
    BY <1>2 DEF Trialling
  <2>2. /\ Pc = [r \in Requests |-> "idle"]
        /\ Attempts = [r \in Requests |-> 0]
        /\ Age = [r \in Requests |-> 0]
    BY <1>2 DEF Pc, Attempts, Age
  <2>3. Streak = 0
    BY <1>1, <1>2 DEF Streak, Count
  <2> QED
    BY <1>2, <2>1, <2>2, <2>3, SameMethods, Zenon
       DEF Single!Init, Pc, Attempts, Trialling, Age, Streak, Count
<1>3. ASSUME WatchedBreaker' = NewBreaker, \A r \in Requests : ~Watching(r)'
      PROVE  Single!Init'
  <2>1. Trialling' = [r \in Requests |-> FALSE]
    BY <1>3 DEF Trialling
  <2>2. /\ Pc' = [r \in Requests |-> "idle"]
        /\ Attempts' = [r \in Requests |-> 0]
        /\ Age' = [r \in Requests |-> 0]
    BY <1>3 DEF Pc, Attempts, Age
  <2>3. Streak' = 0
    BY <1>1, <1>3 DEF Streak, Count
  <2> QED
    BY <1>3, <2>1, <2>2, <2>3, SameMethods, Zenon
       DEF Single!Init, Pc, Attempts, Trialling, Age, Streak, Count
<1> QED
  BY <1>2, <1>3

\* Nobody calls through a destination that is not registered.
LEMMA CallingFacts ==
    ASSUME Inv, NEW q \in Requests, phase[q] = "calling"
    PROVE  obj[q] # NoObject /\ obj[q] \in Objects /\ obj[q] \in Live
  BY HeldFacts

\* A lookup by a new request, or reset(), does nothing to the breaker, unless
\* it removes it.
LEMMA LookedUpStep ==
    ASSUME Inv,
           \/ ResetRegistry
           \/ \E r \in Requests, d \in Destinations :
                 Construct(r, d) \/ ConstructRejected(r, d)
    PROVE  UNCHANGED Single!vars \/ (Watched \in Evicted /\ Single!Init')
<1> DEFINE o == breakerOf[Watched]
           n == breakerOf'[Watched]
<1>1. /\ heap' = Collected(heap, Live')
      /\ trialling' = trialling /\ age' = age
  BY DEF Construct, ConstructRejected, ResetRegistry, reqVars
<1>2. /\ n \in Objects \cup {NoObject}
      /\ \/ n \in {NoObject, o}
         \/ o = NoObject /\ n \notin Live /\ heap[n] = NewBreaker
  <2>1. CASE ResetRegistry
    BY <2>1, WatchedAssumption DEF ResetRegistry
  <2>2. ASSUME NEW r \in Requests, NEW d \in Destinations,
               Construct(r, d) \/ ConstructRejected(r, d)
        PROVE  <1>2!:
    <3>1. LookUp(d)
      BY <2>2 DEF Construct, ConstructRejected
    <3>2. /\ n \in Objects \cup {NoObject}
          /\ d # Watched => n \in {NoObject, o}
          /\ d = Watched => n = GetBreaker(d)
      BY <3>1, LookUpFacts, WatchedAssumption
    <3> QED
      BY <3>2, GetBreakerFacts
  <2> QED
    BY <2>1, <2>2
<1>3. \A q \in Requests :
        /\ phase'[q] = "calling" <=> phase[q] = "calling"
        /\ phase[q] = "calling" => obj'[q] = obj[q]
  BY DEF Construct, ConstructRejected, ResetRegistry, reqVars, Inv, TypeOK
<1>4. \A q \in Requests : phase[q] = "calling" =>
        obj[q] # NoObject /\ obj[q] \in Live
  BY CallingFacts
<1>5. n # NoObject => WatchedBreaker' = heap[n]
  <2>1. n \in Live'
    BY WatchedAssumption DEF Live
  <2> QED
    BY <1>1, <1>2, <2>1 DEF WatchedBreaker, Collected
<1>6. CASE n = NoObject
  <2>1. WatchedBreaker' = NewBreaker /\ \A q \in Requests : ~Watching(q)'
    BY <1>3, <1>4, <1>6 DEF WatchedBreaker, Watching
  <2>2. CASE o # NoObject
    BY <1>6, <2>1, <2>2, NewStep, WatchedAssumption DEF Evicted
  <2>3. CASE o = NoObject
    <3>1. WatchedBreaker = NewBreaker /\ \A q \in Requests : ~Watching(q)
      BY <1>4, <2>3 DEF WatchedBreaker, Watching
    <3> QED
      BY <2>1, <3>1, StutterStep DEF Still
  <2> QED
    BY <2>2, <2>3
<1>7. CASE n # NoObject
  <2>1. WatchedBreaker' = WatchedBreaker
    BY <1>2, <1>5, <1>7 DEF WatchedBreaker
  <2>2. \A q \in Requests : Watching(q)' <=> Watching(q)
    BY <1>2, <1>3, <1>4, <1>7 DEF Watching
  <2> QED
    BY <1>1, <2>1, <2>2, StutterStep DEF Still
<1> QED
  BY <1>6, <1>7

\* An attempt starts on the watched breaker, or on another.
LEMMA StartStep ==
    ASSUME Inv, NEW r \in Requests, Start(r)
    PROVE  UNCHANGED Single!vars \/ Single!Enter(r)
<1> DEFINE b == heap[obj[r]]
<1>1. TypeOK /\ RequestInv
  BY DEF Inv
<1>2. /\ phase[r] = "built" /\ Admits(b)
      /\ heap' = [heap EXCEPT ![obj[r]] = Claimed(b)]
      /\ phase' = [phase EXCEPT ![r] = "calling"]
      /\ trialling' = [trialling EXCEPT ![r] = (Claimed(b).state = "half_open")]
      /\ breakerOf' = breakerOf /\ obj' = obj /\ age' = age
  BY DEF Start, regVars
<1>3. obj[r] \in Objects /\ obj[r] # NoObject /\ b \in Breaker
  BY <1>2, HeldFacts
<1>4. ~Watching(r) /\ age[r] = 0
  BY <1>1, <1>2 DEF Watching, RequestInv
<1>5. \A q \in Requests \ {r} : Still(q)
  BY <1>1, <1>2 DEF Still, Watching, TypeOK
<1>6. breakerOf[Watched] \in Objects \cup {NoObject}
  BY <1>1, WatchedAssumption DEF TypeOK
<1>7. CASE obj[r] # breakerOf[Watched]
  <2>1. WatchedBreaker' = WatchedBreaker
    BY <1>1, <1>2, <1>3, <1>6, <1>7 DEF WatchedBreaker, TypeOK
  <2>2. ~Watching(r)'
    BY <1>2, <1>7 DEF Watching
  <2> QED
    BY <1>4, <1>5, <2>1, <2>2, StutterStep DEF Still
<1>8. CASE obj[r] = breakerOf[Watched]
  <2>1. WatchedBreaker = b /\ WatchedBreaker' = Claimed(b)
    BY <1>1, <1>2, <1>3, <1>8 DEF WatchedBreaker, TypeOK
  <2>2. Watching(r)' /\ age'[r] = 0
        /\ trialling'[r] = (Claimed(b).state = "half_open")
    BY <1>1, <1>2, <1>4, <1>8 DEF Watching, TypeOK
  <2> HIDE DEF b
  <2>3. Pc' = [Pc EXCEPT ![r] = "calling"] /\ Pc[r] = "idle"
    BY <1>4, <1>5, <2>2 DEF Pc, Still
  <2>9. Attempts' = [Attempts EXCEPT ![r] = Attempts[r] + 1]
    <3>1. Attempts[r] + 1 = 1
      BY <1>4 DEF Attempts
    <3>2. Attempts' = [Attempts EXCEPT ![r] = 1]
      BY <1>5, <2>2 DEF Attempts, Still
    <3> QED
      BY <3>1, <3>2
  <2>10. Age' = [Age EXCEPT ![r] = 0]
    BY <1>5, <2>2 DEF Age, Still
  <2>4. Trialling' = [Trialling EXCEPT ![r] = (Claimed(b).state = "half_open")]
    BY <1>5, <2>2 DEF Trialling, Still
  <2>5. Streak' = Streak
    BY <1>3, <2>1 DEF Streak, Count, Claimed, Breaker, BreakerState, b
  <2>6. Admits(b)
    BY <1>2 DEF b
  <2>7. /\ Single!Admits(WatchedBreaker)
        /\ WatchedBreaker' = Single!Claimed(WatchedBreaker)
        /\ Trialling' = [Trialling EXCEPT
              ![r] = (Single!Claimed(WatchedBreaker).state = "half_open")]
    BY <2>1, <2>4, <2>6, SameMethods, Zenon
  <2>8. Single!StartAttempt(r, WatchedBreaker)
    BY <2>3, <2>9, <2>10, <2>7, Zenon
       DEF Single!StartAttempt, Pc, Attempts, Trialling, Age
  <2> QED
    BY <2>3, <2>5, <2>8, Zenon DEF Single!Enter, Pc, Streak, Count
<1> QED
  BY <1>7, <1>8

\* The end of a request that does not call through the watched breaker.
LEMMA EndElsewhereStep ==
    ASSUME Inv, NEW r \in Requests, phase[r] # "idle", NEW b, End(r, b),
           ~Watching(r), obj[r] = breakerOf[Watched] => b = heap[obj[r]]
    PROVE  UNCHANGED Single!vars
<1>1. TypeOK
  BY DEF Inv
<1>2. /\ phase' = [phase EXCEPT ![r] = "idle"]
      /\ obj' = [obj EXCEPT ![r] = NoObject]
      /\ trialling' = [trialling EXCEPT ![r] = FALSE]
      /\ age' = [age EXCEPT ![r] = 0]
      /\ breakerOf' = breakerOf
      /\ heap' = Collected([heap EXCEPT ![obj[r]] = b], Live')
  BY DEF End, regVars
<1>3. \A q \in Requests \ {r} : Still(q)
  BY <1>1, <1>2 DEF Still, Watching, TypeOK
<1>4. ~Watching(r)'
  BY <1>1, <1>2 DEF Watching, TypeOK
<1>5. WatchedBreaker' = WatchedBreaker
  <2>1. breakerOf[Watched] \in Live'
    BY <1>2, WatchedAssumption DEF Live
  <2>2. breakerOf[Watched] \in Objects \cup {NoObject}
    BY <1>1, WatchedAssumption DEF TypeOK
  <2> QED
    BY <1>1, <1>2, <2>1, <2>2 DEF WatchedBreaker, Collected, TypeOK
<1> QED
  BY <1>3, <1>4, <1>5, StutterStep DEF Still

\* The end of one that does.
LEMMA EndHereStep ==
    ASSUME Inv, NEW r \in Requests, Watching(r), NEW b, End(r, b)
    PROVE  WatchedBreaker' = b /\ Left(r)
<1>1. TypeOK /\ phase[r] = "calling" /\ obj[r] = breakerOf[Watched]
  BY DEF Inv, Watching
<1>2. /\ phase' = [phase EXCEPT ![r] = "idle"]
      /\ obj' = [obj EXCEPT ![r] = NoObject]
      /\ trialling' = [trialling EXCEPT ![r] = FALSE]
      /\ age' = [age EXCEPT ![r] = 0]
      /\ breakerOf' = breakerOf
      /\ heap' = Collected([heap EXCEPT ![obj[r]] = b], Live')
  BY DEF End, regVars
<1>3. \A q \in Requests \ {r} : Still(q)
  BY <1>1, <1>2 DEF Still, Watching, TypeOK
<1>4. ~Watching(r)'
  BY <1>1, <1>2 DEF Watching, TypeOK
<1>5. WatchedBreaker' = b
  <2>1. breakerOf[Watched] \in Live'
    BY <1>2, WatchedAssumption DEF Live
  <2>2. obj[r] \in Objects /\ obj[r] # NoObject
    BY <1>1, HeldFacts
  <2> QED
    BY <1>1, <1>2, <2>1, <2>2 DEF WatchedBreaker, Collected, TypeOK
<1> QED
  BY <1>3, <1>4, <1>5, LeftStep

\* What the streak of the destination is after an outcome.
LEMMA StreakSteps ==
    ASSUME NEW b \in Breaker, Below(b), NEW t \in BOOLEAN
    PROVE  /\ Count(ReleaseTrial(b, t)) = Count(b)
           /\ Count(ReleaseTrial(RecordSuccess(b), t)) = 0
           /\ Count(ReleaseTrial(RecordFailure(b), t))
                = IF Count(b) < Single!Threshold THEN Count(b) + 1 ELSE Count(b)
           /\ Count(Aged(b)) = Count(b)
<1> USE MaxFailuresAssumption, ResetAssumption
    DEF Breaker, BreakerState, Count
<1>1. ASSUME NEW x \in Breaker
      PROVE  Count(ReleaseTrial(x, t)) = Count(x)
  <2>1. /\ ReleaseTrial(x, t).state = x.state
        /\ ReleaseTrial(x, t).failures = x.failures
    BY DEF ReleaseTrial
  <2> QED
    BY <2>1
<1>2. Count(RecordSuccess(b)) = 0 /\ RecordSuccess(b) \in Breaker
  <2>1. RecordSuccess(b).state = "closed" /\ RecordSuccess(b).failures = 0
    BY DEF RecordSuccess
  <2> QED
    BY <2>1, BreakerSteps
<1>3. /\ RecordFailure(b) \in Breaker
      /\ Count(RecordFailure(b))
           = IF Count(b) < Single!Threshold THEN Count(b) + 1 ELSE Count(b)
  <2>1. RecordFailure(b) \in Breaker
    BY BreakerSteps
  <2>2. CASE b.state = "half_open" \/ b.failures + 1 >= MaxFailures
    <3>1. RecordFailure(b).state = "open"
      BY <2>2 DEF RecordFailure, Open
    <3>2. Count(RecordFailure(b)) = Single!Threshold
      BY <3>1 DEF Single!Threshold
    <3> QED
      BY <2>1, <2>2, <3>2 DEF Single!Threshold, Below
  <2>3. CASE ~(b.state = "half_open" \/ b.failures + 1 >= MaxFailures)
    <3>1. /\ RecordFailure(b).state = b.state
          /\ RecordFailure(b).failures = b.failures + 1
      BY <2>3 DEF RecordFailure
    <3> QED
      BY <2>1, <2>3, <3>1 DEF Single!Threshold
  <2> QED
    BY <2>2, <2>3
<1>4. Count(Aged(b)) = Count(b)
  <2>1. Aged(b).state = b.state /\ Aged(b).failures = b.failures
    BY DEF Aged
  <2> QED
    BY <2>1
<1> HIDE DEF Count, Breaker
<1> QED
  BY <1>1, <1>2, <1>3, <1>4

\* The end of a call through the watched breaker is the end of a call in
\* CircuitBreaker, with the same outcome.
LEMMA OutcomeHereStep ==
    ASSUME Inv, NEW r \in Requests, Watching(r),
           Succeed(r) \/ Fail(r) \/ Escape(r)
    PROVE  Single!Succeed(r) \/ Single!FailForGood(r) \/ Single!Escape(r)
<1> DEFINE b == heap[obj[r]]
           t == trialling[r]
<1>1. phase[r] = "calling" /\ obj[r] = breakerOf[Watched]
  BY DEF Watching
<1>2. /\ obj[r] # NoObject /\ b \in Breaker /\ Below(b)
      /\ t \in BOOLEAN
  BY <1>1, HeldFacts
<1>3. WatchedBreaker = b
  BY <1>1, <1>2 DEF WatchedBreaker
<1>4. Pc[r] = "calling"
  BY DEF Pc
<1>5. Trialling[r] = t
  BY <1>2 DEF Trialling
<1>6. Streak = Count(b)
  BY <1>3 DEF Streak
<1>7. CASE Succeed(r)
  <2>1. End(r, ReleaseTrial(RecordSuccess(b), t))
    BY <1>7 DEF Succeed
  <2>2. WatchedBreaker' = ReleaseTrial(RecordSuccess(b), t) /\ Left(r)
    BY <2>1, EndHereStep
  <2>3. Streak' = 0
    BY <1>2, <2>2, StreakSteps DEF Streak
  <2> HIDE DEF b, t
  <2>4. WatchedBreaker' =
          Single!ReleaseTrial(Single!RecordSuccess(WatchedBreaker), Trialling[r])
    BY <1>3, <1>5, <2>2, SameMethods, Zenon
  <2>5. Single!Finish(r,
          Single!ReleaseTrial(Single!RecordSuccess(WatchedBreaker), Trialling[r]))
    BY <2>2, <2>4, Zenon
       DEF Single!Finish, Left, Pc, Attempts, Trialling, Age
  <2>6. Single!Succeed(r)
    BY <1>4, <2>3, <2>5, Zenon DEF Single!Succeed, Pc, Trialling, Streak, Count
  <2> QED
    BY <2>6
<1>8. CASE Fail(r)
  <2>1. End(r, ReleaseTrial(RecordFailure(b), t))
    BY <1>8 DEF Fail
  <2>2. WatchedBreaker' = ReleaseTrial(RecordFailure(b), t) /\ Left(r)
    BY <2>1, EndHereStep
  <2>3. Streak' = IF Streak < Single!Threshold THEN Streak + 1 ELSE Streak
    BY <1>2, <1>6, <2>2, StreakSteps DEF Streak
  <2> HIDE DEF b, t
  <2>4. WatchedBreaker' =
          Single!ReleaseTrial(Single!RecordFailure(WatchedBreaker), Trialling[r])
    BY <1>3, <1>5, <2>2, SameMethods, Zenon
  <2>5. Single!Finish(r,
          Single!ReleaseTrial(Single!RecordFailure(WatchedBreaker), Trialling[r]))
    BY <2>2, <2>4, Zenon
       DEF Single!Finish, Left, Pc, Attempts, Trialling, Age
  <2>6. Single!FailForGood(r)
    BY <1>4, <2>3, <2>5, Zenon
       DEF Single!FailForGood, Single!CountFailure, Pc, Trialling, Streak, Count
  <2> QED
    BY <2>6
<1>9. CASE Escape(r)
  <2>1. End(r, ReleaseTrial(b, t))
    BY <1>9 DEF Escape
  <2>2. WatchedBreaker' = ReleaseTrial(b, t) /\ Left(r)
    BY <2>1, EndHereStep
  <2>3. Streak' = Streak
    BY <1>2, <1>6, <2>2, StreakSteps DEF Streak
  <2> HIDE DEF b, t
  <2>4. WatchedBreaker' = Single!ReleaseTrial(WatchedBreaker, Trialling[r])
    BY <1>3, <1>5, <2>2, SameMethods, Zenon
  <2>5. Single!Finish(r, Single!ReleaseTrial(WatchedBreaker, Trialling[r]))
    BY <2>2, <2>4, Zenon
       DEF Single!Finish, Left, Pc, Attempts, Trialling, Age
  <2>6. Single!Escape(r)
    BY <1>4, <2>3, <2>5, Zenon DEF Single!Escape, Pc, Trialling, Streak, Count
  <2> QED
    BY <2>6
<1> QED
  BY <1>7, <1>8, <1>9

\* Any outcome, of any call.
LEMMA OutcomeStep ==
    ASSUME Inv, NEW r \in Requests, Succeed(r) \/ Fail(r) \/ Escape(r)
    PROVE  \/ UNCHANGED Single!vars
           \/ Single!Succeed(r) \/ Single!FailForGood(r) \/ Single!Escape(r)
<1>1. CASE Watching(r)
  BY <1>1, OutcomeHereStep
<1>2. CASE ~Watching(r)
  <2>1. phase[r] = "calling" /\ phase[r] # "idle"
    BY DEF Succeed, Fail, Escape
  <2>2. obj[r] # breakerOf[Watched]
    BY <1>2, <2>1 DEF Watching
  <2>3. PICK b : End(r, b)
    BY DEF Succeed, Fail, Escape
  <2> QED
    BY <1>2, <2>1, <2>2, <2>3, EndElsewhereStep
<1> QED
  BY <1>1, <1>2

\* A request that never calls leaves its breaker as it is.
LEMMA UnrunStep ==
    ASSUME Inv, NEW r \in Requests, Refused(r) \/ NeverRun(r)
    PROVE  UNCHANGED Single!vars
<1>1. phase[r] = "built" /\ phase[r] # "idle" /\ End(r, heap[obj[r]])
  BY DEF Refused, NeverRun
<1>2. ~Watching(r)
  BY <1>1 DEF Watching
<1> QED
  BY <1>1, <1>2, EndElsewhereStep

\* Time passes for all breakers alike.
LEMMA TickStep ==
    ASSUME Inv, Tick
    PROVE  Single!Tick
<1>1. TypeOK /\ HeapInv
  BY DEF Inv
<1>2. /\ \A q \in Requests : phase[q] = "calling" => age[q] < AttemptLimit
      /\ heap' = [o \in Objects |-> Aged(heap[o])]
      /\ age' = [q \in Requests |-> IF phase[q] = "calling" THEN age[q] + 1
                                                            ELSE 0]
      /\ breakerOf' = breakerOf /\ phase' = phase /\ obj' = obj
      /\ trialling' = trialling
  BY DEF Tick, regVars
<1>3. WatchedBreaker' = Aged(WatchedBreaker)
  <2>1. CASE breakerOf[Watched] = NoObject
    <3>1. Aged(NewBreaker) = NewBreaker
      BY DEF Aged, NewBreaker
    <3> QED
      BY <1>2, <2>1, <3>1 DEF WatchedBreaker
  <2>2. CASE breakerOf[Watched] # NoObject
    <3>1. breakerOf[Watched] \in Objects
      BY <1>1, <2>2, WatchedAssumption DEF TypeOK
    <3> QED
      BY <1>2, <2>2, <3>1 DEF WatchedBreaker
  <2> QED
    BY <2>1, <2>2
<1>4. \A q \in Requests : Watching(q)' <=> Watching(q)
  BY <1>2 DEF Watching
<1>5. Pc' = Pc /\ Attempts' = Attempts
  BY <1>4 DEF Pc, Attempts
<1>6. Trialling' = Trialling
  BY <1>2, <1>4 DEF Trialling
<1>7. Age' = [q \in Requests |-> IF Pc[q] = "idle" THEN 0 ELSE Age[q] + 1]
  BY <1>2, <1>4 DEF Age, Pc, Watching
<1>8. \A q \in Requests : /\ Pc[q] = "calling" => Age[q] < AttemptLimit
                          /\ Pc[q] # "sleeping"
  BY <1>2 DEF Age, Pc, Watching
<1>9. Streak' = Streak
  <2>1. WatchedBreaker \in Breaker /\ Below(WatchedBreaker)
    BY <1>1, NewBreakerFacts, WatchedAssumption
       DEF WatchedBreaker, TypeOK, HeapInv
  <2> QED
    BY <1>3, <2>1, StreakSteps DEF Streak
<1>10. WatchedBreaker' = Single!Aged(WatchedBreaker)
  BY <1>3, SameMethods, Zenon
<1> QED
  BY <1>5, <1>6, <1>7, <1>8, <1>9, <1>10, Zenon
     DEF Single!Tick, Pc, Attempts, Trialling, Age, Streak, Count

\* The requests of one destination share one circuit breaker: through every
\* lookup, hit, miss, eviction and outcome, what they do to the registered
\* object is what CircuitBreaker allows, and only eviction (or reset()) starts
\* the destination over.
THEOREM SpecImplementsBreaker == TestSpec => ImplementsBreaker
<1> DEFINE Step == Single!Next \/ (Watched \in Evicted /\ Single!Init')
<1>1. Init => Single!Init
  <2> SUFFICES ASSUME Init PROVE Single!Init
    OBVIOUS
  <2>1. WatchedBreaker = NewBreaker /\ \A r \in Requests : ~Watching(r)
    BY WatchedAssumption DEF Init, WatchedBreaker, Watching
  <2> QED
    BY <2>1, NewStep
<1>2. Inv /\ [Next \/ ResetRegistry]_vars => [Step]_(Single!vars)
  <2> SUFFICES ASSUME Inv, [Next \/ ResetRegistry]_vars
               PROVE  Step \/ UNCHANGED Single!vars
    OBVIOUS
  <2>1. ASSUME \/ ResetRegistry
               \/ \E r \in Requests, d \in Destinations :
                     Construct(r, d) \/ ConstructRejected(r, d)
        PROVE  Step \/ UNCHANGED Single!vars
    BY <2>1, LookedUpStep
  <2>2. ASSUME NEW r \in Requests, Start(r)
        PROVE  Step \/ UNCHANGED Single!vars
    <3>1. CASE Single!Enter(r)
      BY <3>1 DEF Single!Next
    <3> QED
      BY <2>2, <3>1, StartStep
  <2>3. ASSUME NEW r \in Requests, Refused(r) \/ NeverRun(r)
        PROVE  Step \/ UNCHANGED Single!vars
    BY <2>3, UnrunStep
  <2>4. ASSUME NEW r \in Requests, Succeed(r) \/ Fail(r) \/ Escape(r)
        PROVE  Step \/ UNCHANGED Single!vars
    <3>1. CASE Single!Succeed(r) \/ Single!FailForGood(r) \/ Single!Escape(r)
      BY <3>1 DEF Single!Next, Single!EndAttempt
    <3> QED
      BY <2>4, <3>1, OutcomeStep
  <2>5. CASE Tick
    BY <2>5, TickStep DEF Single!Next
  <2>6. CASE UNCHANGED vars
    <3>1. WatchedBreaker' = WatchedBreaker /\ \A q \in Requests : Still(q)
      BY <2>6 DEF vars, WatchedBreaker, Watching, Still
    <3> QED
      BY <3>1, StutterStep
  <2> QED
    BY <2>1, <2>2, <2>3, <2>4, <2>5, <2>6 DEF Next
<1> QED
  BY <1>1, <1>2, Invariance, PTL DEF TestSpec, ImplementsBreaker
=============================================================================
