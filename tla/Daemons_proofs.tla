--------------------------- MODULE Daemons_proofs ---------------------------
(***************************************************************************)
(* Theorems about Daemons, for every value of its constants: the queue of  *)
(* rows and the batches taken from it, and what a shutdown does to them.   *)
(***************************************************************************)
EXTENDS Daemons, SequenceTheorems, FiniteSetTheorems, TLAPS

-----------------------------------------------------------------------------
(* The rows R as a queue q, of which d is the part that is due.             *)

Queue(q, R, d) ==
  /\ q \in Seq(ContractIds)
  /\ {q[i] : i \in DOMAIN q} = R
  /\ Len(q) = Cardinality(R)
  /\ d \subseteq R
  /\ d = {q[i] : i \in 1..Cardinality(d)}

LEMMA IdsFinite == IsFiniteSet(ContractIds)
BY DaemonsAssumption, FS_Interval DEF ContractIds

\* As many places as rows: each row has one place.
LEMMA QueueOnce ==
  ASSUME NEW q, NEW R, NEW d, Queue(q, R, d)
  PROVE  /\ IsFiniteSet(R) /\ R \subseteq ContractIds
         /\ IsFiniteSet(d) /\ Cardinality(d) \in Nat /\ Cardinality(d) <= Len(q)
         /\ Len(q) \in Nat /\ DOMAIN q = 1..Len(q)
         /\ \A i \in DOMAIN q : q[i] \in R
         /\ \A c \in R : \E i \in DOMAIN q : q[i] = c
         /\ \A i, j \in DOMAIN q : q[i] = q[j] => i = j
<1>1. /\ Len(q) \in Nat /\ DOMAIN q = 1..Len(q)
      /\ \A i \in DOMAIN q : q[i] \in ContractIds
  BY LenProperties DEF Queue
<1>2. /\ \A i \in DOMAIN q : q[i] \in R
      /\ \A c \in R : \E i \in DOMAIN q : q[i] = c
  BY DEF Queue
<1>3. R \subseteq ContractIds
  BY <1>1, <1>2
<1>4. IsFiniteSet(R) /\ IsFiniteSet(d) /\ Cardinality(d) <= Cardinality(R)
  <2>1. IsFiniteSet(R)
    BY <1>3, IdsFinite, FS_Subset
  <2> QED
    BY <2>1, FS_Subset DEF Queue
<1>5. IsFiniteSet(DOMAIN q) /\ Cardinality(DOMAIN q) = Cardinality(R)
  BY <1>1, FS_Interval DEF Queue
<1>6. q \in [DOMAIN q -> R]
  <2>1. q \in [1..Len(q) -> ContractIds]
    BY LenProperties DEF Queue
  <2> QED
    BY <1>1, <1>2, <2>1
<1>7. q \in Surjection(DOMAIN q, R)
  BY <1>2, <1>6 DEF Surjection
<1>8. q \in Injection(DOMAIN q, R)
  BY <1>5, <1>7, FS_SurjSameCardinalityImpliesInj
<1>9. Cardinality(d) \in Nat
  BY <1>4, FS_CardinalityType
<1>10. \A i, j \in DOMAIN q : q[i] = q[j] => i = j
  BY <1>8 DEF Injection, IsInjective
<1>11. Cardinality(d) <= Len(q)
  BY <1>4 DEF Queue
<1> QED
  BY <1>1, <1>2, <1>3, <1>4, <1>9, <1>10, <1>11

\* The row at place p goes to the end.
LEMMA MovedBack ==
  ASSUME NEW q, NEW R, NEW d, Queue(q, R, d), NEW p \in DOMAIN q
  PROVE  LET m == Append(RemoveAt(q, p), q[p]) IN
           /\ m \in Seq(ContractIds) /\ Len(m) = Len(q)
           /\ \A i \in 1..Len(q) : m[i] = IF i < p THEN q[i]
                                          ELSE IF i = Len(q) THEN q[p] ELSE q[i + 1]
<1> DEFINE s == SubSeq(q, 1, p - 1)
           t == SubSeq(q, p + 1, Len(q))
<1>1. /\ Len(q) \in Nat /\ p \in 1..Len(q)
      /\ \A i \in 1..Len(q) : q[i] \in ContractIds
  BY QueueOnce
<1>2. /\ s \in Seq(ContractIds) /\ Len(s) = p - 1
      /\ \A i \in 1..(p - 1) : s[i] = q[i]
  <2>1. \A i \in 1..(p - 1) : q[i] \in ContractIds
    BY <1>1
  <2> QED
    BY <1>1, <2>1, SubSeqProperties
<1>3. /\ t \in Seq(ContractIds) /\ Len(t) = Len(q) - p
      /\ \A i \in 1..(Len(q) - p) : t[i] = q[p + i]
  <2>1. \A i \in (p + 1)..Len(q) : q[i] \in ContractIds
    BY <1>1
  <2>2. /\ t \in Seq(ContractIds)
        /\ Len(t) = IF p + 1 <= Len(q) THEN Len(q) - (p + 1) + 1 ELSE 0
        /\ \A i \in 1..(Len(q) - (p + 1) + 1) : t[i] = q[(p + 1) + i - 1]
    BY <1>1, <2>1, SubSeqProperties
  <2>3. Len(t) = Len(q) - p
    BY <1>1, <2>2
  <2>4. ASSUME NEW i \in 1..(Len(q) - p)
        PROVE  t[i] = q[p + i]
    <3>1. i \in 1..(Len(q) - (p + 1) + 1) /\ (p + 1) + i - 1 = p + i
      BY <1>1
    <3> QED
      BY <2>2, <3>1
  <2> QED
    BY <2>2, <2>3, <2>4
<1> HIDE DEF s, t
<1>4. /\ s \o t \in Seq(ContractIds) /\ Len(s \o t) = Len(q) - 1
      /\ \A i \in 1..(Len(q) - 1) :
           (s \o t)[i] = IF i < p THEN q[i] ELSE q[i + 1]
  <2>1. /\ s \o t \in Seq(ContractIds)
        /\ Len(s \o t) = Len(s) + Len(t)
        /\ \A i \in 1..(Len(s) + Len(t)) :
             (s \o t)[i] = IF i <= Len(s) THEN s[i] ELSE t[i - Len(s)]
    BY <1>2, <1>3, ConcatProperties
  <2>2. Len(s) + Len(t) = Len(q) - 1
    BY <1>1, <1>2, <1>3
  <2>3. ASSUME NEW i \in 1..(Len(q) - 1)
        PROVE  (s \o t)[i] = IF i < p THEN q[i] ELSE q[i + 1]
    <3>1. CASE i < p
      BY <1>1, <1>2, <2>1, <2>2, <3>1
    <3>2. CASE ~(i < p)
      <4>1. i - Len(s) \in 1..(Len(q) - p) /\ p + (i - Len(s)) = i + 1
        BY <1>1, <1>2, <3>2
      <4>2. (s \o t)[i] = t[i - Len(s)]
        BY <1>1, <1>2, <2>1, <2>2, <3>2
      <4> QED
        BY <1>3, <3>2, <4>1, <4>2
    <3> QED
      BY <3>1, <3>2
  <2> QED
    BY <2>1, <2>2, <2>3
<1>5. RemoveAt(q, p) = s \o t
  BY DEF RemoveAt, s, t
<1>6. q[p] \in ContractIds
  BY <1>1
<1>7. /\ Append(s \o t, q[p]) \in Seq(ContractIds)
      /\ Len(Append(s \o t, q[p])) = Len(q)
      /\ \A i \in 1..(Len(q) - 1) : Append(s \o t, q[p])[i] = (s \o t)[i]
      /\ Append(s \o t, q[p])[Len(q)] = q[p]
  BY <1>1, <1>4, <1>6, AppendProperties
<1> QED
  <2> DEFINE m == Append(s \o t, q[p])
  <2>1. ASSUME NEW i \in 1..Len(q)
        PROVE  m[i] = IF i < p THEN q[i] ELSE IF i = Len(q) THEN q[p] ELSE q[i + 1]
    BY <1>1, <1>4, <1>7
  <2> QED
    BY <1>5, <1>7, <2>1

\* A check leaves a queue, with one row less that is due.
LEMMA QueueMoves ==
  ASSUME NEW q, NEW R, NEW d, Queue(q, R, d), NEW p \in DOMAIN q
  PROVE  Queue(Append(RemoveAt(q, p), q[p]), R, d \ {q[p]})
<1> DEFINE k == Cardinality(d)
<1>1. PICK m : m = Append(RemoveAt(q, p), q[p])
  OBVIOUS
<1>2. /\ m \in Seq(ContractIds) /\ Len(m) = Len(q)
      /\ \A i \in 1..Len(q) : m[i] = IF i < p THEN q[i]
                                     ELSE IF i = Len(q) THEN q[p] ELSE q[i + 1]
  BY <1>1, MovedBack
<1>3. /\ IsFiniteSet(d) /\ k \in Nat /\ k <= Len(q)
      /\ Len(q) \in Nat /\ DOMAIN q = 1..Len(q) /\ p \in 1..Len(q)
      /\ \A i \in DOMAIN q : q[i] \in R
      /\ \A c \in R : \E i \in DOMAIN q : q[i] = c
      /\ \A i, j \in DOMAIN q : q[i] = q[j] => i = j
  BY QueueOnce
<1>4. DOMAIN m = 1..Len(q)
  BY <1>2, LenProperties
<1>5. {m[i] : i \in DOMAIN m} = R
  <2>1. ASSUME NEW i \in 1..Len(q)
        PROVE  m[i] \in R
    BY <1>2, <1>3
  <2>2. ASSUME NEW c \in R
        PROVE  \E i \in 1..Len(q) : m[i] = c
    <3>1. PICK i \in 1..Len(q) : q[i] = c
      BY <1>3
    <3>2. CASE i < p
      BY <1>2, <3>1, <3>2
    <3>3. CASE i = p
      BY <1>2, <1>3, <3>1, <3>3
    <3>4. CASE i > p
      <4>1. /\ i - 1 \in 1..Len(q) /\ ~(i - 1 < p) /\ i - 1 # Len(q)
            /\ (i - 1) + 1 = i
        BY <1>3, <3>4
      <4>2. m[i - 1] = q[i]
        BY <1>2, <4>1
      <4> QED
        BY <3>1, <4>1, <4>2
    <3> QED
      BY <1>3, <3>2, <3>3, <3>4
  <2> QED
    BY <1>4, <2>1, <2>2
<1>6. d = {q[i] : i \in 1..k}
  BY DEF Queue
<1>7. CASE q[p] \in d
  <2>1. p \in 1..k
    BY <1>3, <1>6, <1>7
  <2>2. Cardinality(d \ {q[p]}) = k - 1
    BY <1>3, <1>7, FS_RemoveElement
  <2>3. ASSUME NEW c \in d, c # q[p]
        PROVE  \E i \in 1..(k - 1) : m[i] = c
    <3>1. PICK i \in 1..k : q[i] = c
      BY <1>6
    <3>2. CASE i < p
      <4>1. i \in 1..(k - 1) /\ i \in 1..Len(q)
        BY <1>3, <2>1, <3>2
      <4> QED
        BY <1>2, <3>1, <3>2, <4>1
    <3>3. CASE i > p
      <4>1. /\ i - 1 \in 1..(k - 1) /\ i - 1 \in 1..Len(q)
            /\ ~(i - 1 < p) /\ i - 1 # Len(q) /\ (i - 1) + 1 = i
        BY <1>3, <2>1, <3>3
      <4>2. m[i - 1] = q[i]
        BY <1>2, <4>1
      <4> QED
        BY <3>1, <4>1, <4>2
    <3>4. i # p
      BY <2>3, <3>1
    <3> QED
      BY <2>1, <3>2, <3>3, <3>4
  <2>4. ASSUME NEW i \in 1..(k - 1)
        PROVE  m[i] \in d \ {q[p]}
    <3>1. i \in 1..Len(q) /\ i # Len(q) /\ i + 1 \in 1..Len(q)
      <4>1. i \in Nat /\ 1 <= i /\ i <= k - 1
        BY <1>3
      <4>2. k \in Nat /\ k <= Len(q) /\ Len(q) \in Nat
        BY <1>3
      <4> HIDE DEF k
      <4>3. i <= Len(q) /\ i # Len(q) /\ i + 1 <= Len(q)
        BY <4>1, <4>2
      <4> QED
        BY <4>1, <4>2, <4>3
    <3>2. CASE i < p
      <4>1. m[i] = q[i] /\ i # p /\ i \in 1..k
        BY <1>2, <1>3, <3>1, <3>2
      <4>2. q[i] # q[p]
        BY <1>3, <3>1, <4>1
      <4> QED
        BY <1>6, <4>1, <4>2
    <3>3. CASE ~(i < p)
      <4>1. m[i] = q[i + 1] /\ i + 1 # p /\ i + 1 \in 1..k
        BY <1>2, <1>3, <3>1, <3>3
      <4>2. q[i + 1] # q[p]
        BY <1>3, <3>1, <4>1
      <4> QED
        BY <1>6, <4>1, <4>2
    <3> QED
      BY <3>2, <3>3
  <2>5. d \ {q[p]} = {m[i] : i \in 1..(k - 1)}
    BY <2>3, <2>4
  <2>6. d \ {q[p]} \subseteq R /\ Len(m) = Cardinality(R)
    BY <1>2 DEF Queue
  <2>7. Queue(m, R, d \ {q[p]})
    BY <1>2, <1>5, <2>2, <2>5, <2>6 DEF Queue
  <2> QED
    BY <1>1, <2>7
<1>8. CASE q[p] \notin d
  <2>1. p > k
    BY <1>3, <1>6, <1>8
  <2>2. d \ {q[p]} = d
    BY <1>8
  <2>3. \A i \in 1..k : m[i] = q[i]
    BY <1>2, <1>3, <2>1
  <2>4. d = {m[i] : i \in 1..k}
    BY <1>6, <2>3
  <2>5. d \subseteq R /\ Len(m) = Cardinality(R)
    BY <1>2 DEF Queue
  <2>6. Queue(m, R, d)
    BY <1>2, <1>5, <2>4, <2>5 DEF Queue
  <2> QED
    BY <1>1, <2>2, <2>6
<1> QED
  BY <1>7, <1>8

\* So does a new row,
LEMMA QueueGrows ==
  ASSUME NEW q, NEW R, NEW d, Queue(q, R, d), NEW c \in ContractIds, c \notin R
  PROVE  Queue(Append(q, c), R \cup {c}, d)
<1> DEFINE m == Append(q, c)
<1>1. /\ IsFiniteSet(R) /\ Cardinality(d) \in Nat /\ Cardinality(d) <= Len(q)
      /\ Len(q) \in Nat /\ DOMAIN q = 1..Len(q)
      /\ \A i \in DOMAIN q : q[i] \in R
      /\ \A r \in R : \E i \in DOMAIN q : q[i] = r
  BY QueueOnce
<1>2. /\ m \in Seq(ContractIds) /\ Len(m) = Len(q) + 1
      /\ \A i \in 1..Len(q) : m[i] = q[i]
      /\ m[Len(q) + 1] = c
  BY AppendProperties DEF Queue
<1> HIDE DEF m
<1>3. DOMAIN m = 1..(Len(q) + 1)
  BY <1>2, LenProperties
<1>4. {m[i] : i \in DOMAIN m} = R \cup {c}
  <2>1. ASSUME NEW i \in 1..(Len(q) + 1)
        PROVE  m[i] \in R \cup {c}
    <3>1. i = Len(q) + 1 \/ i \in 1..Len(q)
      BY <1>1
    <3> QED
      BY <1>1, <1>2, <3>1
  <2>2. ASSUME NEW r \in R \cup {c}
        PROVE  \E i \in 1..(Len(q) + 1) : m[i] = r
    <3>1. CASE r = c
      <4>1. Len(q) + 1 \in 1..(Len(q) + 1)
        BY <1>1
      <4> QED
        BY <1>2, <3>1, <4>1
    <3>2. CASE r \in R
      <4>1. PICK i \in 1..Len(q) : q[i] = r
        BY <1>1, <3>2
      <4>2. i \in 1..(Len(q) + 1)
        BY <1>1
      <4> QED
        BY <1>2, <4>1, <4>2
    <3> QED
      BY <3>1, <3>2
  <2> QED
    BY <1>3, <2>1, <2>2
<1>5. Cardinality(R \cup {c}) = Len(q) + 1
  <2>1. Cardinality(R \cup {c}) = Cardinality(R) + 1
    BY <1>1, FS_AddElement
  <2> QED
    BY <2>1 DEF Queue
<1>6. \A i \in 1..Cardinality(d) : m[i] = q[i]
  BY <1>1, <1>2
<1>7. d \subseteq R /\ d = {q[i] : i \in 1..Cardinality(d)}
  BY DEF Queue
<1>8. d = {m[i] : i \in 1..Cardinality(d)}
  BY <1>6, <1>7
<1>9. Queue(m, R \cup {c}, d)
  BY <1>2, <1>4, <1>5, <1>7, <1>8 DEF Queue
<1> QED
  BY <1>9 DEF m

\* and time, which makes the next row due.
LEMMA QueueAges ==
  ASSUME NEW q, NEW R, NEW d, Queue(q, R, d), d # R
  PROVE  Queue(q, R, d \cup {q[Cardinality(d) + 1]})
<1> DEFINE k == Cardinality(d)
<1>1. /\ IsFiniteSet(R) /\ IsFiniteSet(d) /\ k \in Nat /\ k <= Len(q)
      /\ Len(q) \in Nat /\ DOMAIN q = 1..Len(q)
      /\ \A i \in DOMAIN q : q[i] \in R
      /\ \A i, j \in DOMAIN q : q[i] = q[j] => i = j
  BY QueueOnce
<1>2. d \subseteq R /\ d = {q[i] : i \in 1..k} /\ Len(q) = Cardinality(R)
  BY DEF Queue
<1>3. k < Len(q)
  <2>1. k # Cardinality(R)
    BY <1>1, <1>2, FS_Subset
  <2> QED
    BY <1>1, <1>2, <2>1
<1>4. k + 1 \in DOMAIN q /\ q[k + 1] \in R
  BY <1>1, <1>3
<1>5. q[k + 1] \notin d
  <2>1. ASSUME NEW i \in 1..k, q[i] = q[k + 1]
        PROVE  FALSE
    BY <1>1, <1>4, <2>1
  <2> QED
    BY <1>2, <2>1
<1>6. Cardinality(d \cup {q[k + 1]}) = k + 1
  BY <1>1, <1>5, FS_AddElement
<1>7. 1..(k + 1) = (1..k) \cup {k + 1}
  BY <1>1
<1>8. d \cup {q[k + 1]} = {q[i] : i \in 1..(k + 1)}
  BY <1>2, <1>7
<1> QED
  BY <1>2, <1>4, <1>6, <1>8 DEF Queue

-----------------------------------------------------------------------------
(* The rows a query returns.                                                *)

\* The number of members of P up to i.
Rank(P, i) == Cardinality({j \in P : j <= i})

LEMMA RankIncreases ==
  ASSUME NEW n \in Nat, NEW P \in SUBSET (1..n), NEW i \in P, NEW k \in P, i < k
  PROVE  Rank(P, i) < Rank(P, k)
<1> DEFINE I == {j \in P : j <= i}
           K == {j \in P : j <= k}
<1>1. IsFiniteSet(P)
  <2>1. IsFiniteSet(1..n)
    BY FS_Interval
  <2> QED
    BY <2>1, FS_Subset
<1>2. I \in SUBSET K /\ K \in SUBSET P
  <2>1. i \in Int /\ k \in Int /\ \A j \in P : j \in Int
    OBVIOUS
  <2>2. \A j \in P : j <= i => j <= k
    BY <2>1
  <2> QED
    BY <2>2
<1>3. k \in K /\ k \notin I
  OBVIOUS
<1> HIDE DEF I, K
<1>4. IsFiniteSet(K) /\ IsFiniteSet(I)
  BY <1>1, <1>2, FS_Subset
<1>5. Cardinality(I) <= Cardinality(K) /\ Cardinality(I) # Cardinality(K)
  BY <1>2, <1>3, <1>4, FS_Subset
<1>6. Cardinality(I) \in Nat /\ Cardinality(K) \in Nat
  BY <1>4, FS_CardinalityType
<1> QED
  BY <1>5, <1>6 DEF Rank, I, K

\* A set of n places has one of each rank from 1 to n.
LEMMA NthExists ==
  ASSUME NEW n \in Nat, NEW P \in SUBSET (1..n)
  PROVE  /\ IsFiniteSet(P) /\ Cardinality(P) \in Nat
         /\ \A i \in P : Rank(P, i) \in 1..Cardinality(P)
         /\ \A k \in 1..Cardinality(P) : Nth(P, k) \in P /\ Rank(P, Nth(P, k)) = k
         /\ \A i, j \in P : Rank(P, i) = Rank(P, j) => i = j
         /\ \A i, j \in P : Rank(P, i) < Rank(P, j) => i < j
<1>1. IsFiniteSet(P) /\ Cardinality(P) \in Nat
  <2>1. IsFiniteSet(1..n)
    BY FS_Interval
  <2>2. IsFiniteSet(P)
    BY <2>1, FS_Subset
  <2> QED
    BY <2>2, FS_CardinalityType
<1>2. ASSUME NEW i \in P
      PROVE  Rank(P, i) \in 1..Cardinality(P)
  <2> DEFINE I == {j \in P : j <= i}
  <2>1. I \in SUBSET P
    OBVIOUS
  <2>2. i \in I
    OBVIOUS
  <2> HIDE DEF I
  <2>3. IsFiniteSet(I) /\ Cardinality(I) <= Cardinality(P)
    BY <1>1, <2>1, FS_Subset
  <2>4. Cardinality(I) \in Nat /\ Cardinality(I) # 0
    BY <2>2, <2>3, FS_CardinalityType, FS_EmptySet
  <2>5. Cardinality(I) \in 1..Cardinality(P)
    BY <1>1, <2>3, <2>4
  <2> QED
    BY <2>5 DEF Rank, I
<1>3. ASSUME NEW i \in P, NEW j \in P, Rank(P, i) = Rank(P, j)
      PROVE  i = j
  <2>1. i \in Int /\ j \in Int /\ Rank(P, i) \in Int
    BY <1>2
  <2>2. i < j => Rank(P, i) < Rank(P, j)
    BY RankIncreases
  <2>3. j < i => Rank(P, j) < Rank(P, i)
    BY RankIncreases
  <2> QED
    BY <1>3, <2>1, <2>2, <2>3
<1>4. ASSUME NEW i \in P, NEW j \in P, Rank(P, i) < Rank(P, j)
      PROVE  i < j
  <2>1. i \in Int /\ j \in Int /\ Rank(P, i) \in Int /\ Rank(P, j) \in Int
    BY <1>2
  <2>2. j < i => Rank(P, j) < Rank(P, i)
    BY RankIncreases
  <2>3. i # j
    BY <1>4, <2>1
  <2> QED
    BY <1>4, <2>1, <2>2, <2>3
<1> DEFINE r == [i \in P |-> Rank(P, i)]
<1>5. r \in Injection(P, 1..Cardinality(P))
  <2>1. r \in [P -> 1..Cardinality(P)]
    BY <1>2
  <2>2. IsInjective(r)
    BY <1>3 DEF IsInjective
  <2> QED
    BY <2>1, <2>2 DEF Injection
<1>6. /\ IsFiniteSet(1..Cardinality(P))
      /\ Cardinality(1..Cardinality(P)) = Cardinality(P)
  BY <1>1, FS_Interval
<1>7. r \in Surjection(P, 1..Cardinality(P))
  <2> HIDE DEF r
  <2> QED
    BY <1>5, <1>6, FS_Injection
<1>8. ASSUME NEW k \in 1..Cardinality(P)
      PROVE  Nth(P, k) \in P /\ Rank(P, Nth(P, k)) = k
  <2>1. \E i \in P : Rank(P, i) = k
    BY <1>7 DEF Surjection
  <2> QED
    BY <2>1 DEF Nth, Rank
<1> QED
  BY <1>1, <1>2, <1>3, <1>4, <1>8

\* A query returns rows of the places it selects, in a sequence as long as the
\* LIMIT allows, each once if the queue has each once.
LEMMA OldestRows ==
  ASSUME NEW S, byCheck \in Seq(S), NEW P \in SUBSET DOMAIN byCheck, NEW n \in Nat
  PROVE  /\ DOMAIN Oldest(P, n) = 1..Len(Oldest(P, n))
         /\ Oldest(P, n) \in Seq(S)
         /\ Len(Oldest(P, n)) = IF Cardinality(P) < n THEN Cardinality(P) ELSE n
         /\ Cardinality(P) \in Nat
         /\ \A k \in DOMAIN Oldest(P, n) :
              Oldest(P, n)[k] = byCheck[Nth(P, k)] /\ Nth(P, k) \in P
         /\ (\A i, j \in DOMAIN byCheck : byCheck[i] = byCheck[j] => i = j) =>
              \A k, l \in DOMAIN Oldest(P, n) :
                Oldest(P, n)[k] = Oldest(P, n)[l] => k = l
<1> DEFINE m == IF Cardinality(P) < n THEN Cardinality(P) ELSE n
           o == Oldest(P, n)
<1>1. /\ Len(byCheck) \in Nat /\ DOMAIN byCheck = 1..Len(byCheck)
      /\ \A i \in DOMAIN byCheck : byCheck[i] \in S
  BY LenProperties
<1>2. /\ Cardinality(P) \in Nat
      /\ \A k \in 1..Cardinality(P) : Nth(P, k) \in P /\ Rank(P, Nth(P, k)) = k
  BY <1>1, NthExists
<1>3. m \in Nat /\ m <= Cardinality(P)
  BY <1>2
<1>4. o = [k \in 1..m |-> byCheck[Nth(P, k)]]
  BY DEF Oldest
<1> HIDE DEF m, o
<1>5. \A k \in 1..m : k \in 1..Cardinality(P)
  BY <1>2, <1>3
<1>6. o \in [1..m -> S]
  BY <1>1, <1>2, <1>4, <1>5
<1>7. o \in Seq(S)
  BY <1>3, <1>6, SeqDef
<1>8. DOMAIN o = 1..m /\ DOMAIN o = 1..Len(o) /\ Len(o) = m
  <2>1. DOMAIN o = 1..m /\ DOMAIN o = 1..Len(o) /\ Len(o) \in Nat
    BY <1>6, <1>7, LenProperties
  <2> QED
    BY <1>3, <2>1
<1>9. \A k \in 1..m : o[k] = byCheck[Nth(P, k)] /\ Nth(P, k) \in P
  BY <1>2, <1>4, <1>5
<1>10. ASSUME \A i, j \in DOMAIN byCheck : byCheck[i] = byCheck[j] => i = j,
              NEW k \in 1..m, NEW l \in 1..m, o[k] = o[l]
       PROVE  k = l
  <2>1. Nth(P, k) = Nth(P, l)
    BY <1>9, <1>10
  <2> QED
    BY <1>2, <1>5, <2>1
<1>11. m = IF Cardinality(P) < n THEN Cardinality(P) ELSE n
  BY DEF m
<1> QED
  BY <1>2, <1>7, <1>8, <1>9, <1>10, <1>11 DEF o

\* A selected row that is not returned is behind all those that are, of which
\* there are as many as the LIMIT.
LEMMA OldestFirst ==
  ASSUME NEW S, byCheck \in Seq(S), NEW P \in SUBSET DOMAIN byCheck, NEW n \in Nat,
         NEW i \in P, \A k \in DOMAIN Oldest(P, n) : Nth(P, k) # i
  PROVE  /\ Len(Oldest(P, n)) = n
         /\ \A k \in DOMAIN Oldest(P, n) : Nth(P, k) < i
<1>1. Len(byCheck) \in Nat /\ DOMAIN byCheck = 1..Len(byCheck)
  BY LenProperties
<1>2. /\ Cardinality(P) \in Nat
      /\ \A j \in P : Rank(P, j) \in 1..Cardinality(P)
      /\ \A k \in 1..Cardinality(P) : Nth(P, k) \in P /\ Rank(P, Nth(P, k)) = k
      /\ \A j, l \in P : Rank(P, j) = Rank(P, l) => j = l
      /\ \A j, l \in P : Rank(P, j) < Rank(P, l) => j < l
  BY <1>1, NthExists
<1>3. PICK m : m = IF Cardinality(P) < n THEN Cardinality(P) ELSE n
  OBVIOUS
<1>4. DOMAIN Oldest(P, n) = 1..m /\ Len(Oldest(P, n)) = m
  BY <1>3, OldestRows
<1>5. Rank(P, i) \notin 1..m
  <2>1. SUFFICES ASSUME Rank(P, i) \in 1..m PROVE FALSE
    OBVIOUS
  <2>2. Nth(P, Rank(P, i)) = i
    BY <1>2
  <2> QED
    BY <1>4, <2>1, <2>2
<1>6. m = n /\ \A k \in 1..m : k < Rank(P, i) /\ k \in 1..Cardinality(P)
  BY <1>2, <1>3, <1>5
<1>7. ASSUME NEW k \in 1..m
      PROVE  Nth(P, k) < i
  <2>1. Nth(P, k) \in P /\ Rank(P, Nth(P, k)) < Rank(P, i)
    BY <1>2, <1>6
  <2> QED
    BY <1>2, <2>1
<1> QED
  BY <1>4, <1>6, <1>7

-----------------------------------------------------------------------------
(* The invariant.                                                           *)

\* The part of TypeOK that is about the table.
TableOK ==
  /\ status \in [ContractIds -> RowStatus \cup {"none"}]
  /\ Queue(byCheck, Rows, due)

LEMMA TableTyped == TypeOK => TableOK
BY DEF TypeOK, TableOK, Queue

\* A batch of auditor a, and what one can rely on while it is held.
BatchOK(a, batch) ==
  /\ batch \in Seq(Snapshot) \ {<<>>}
  /\ \A i \in DOMAIN batch : batch[i].id \in Rows \cap Share(a, NumAuditors)
  /\ \A i, j \in DOMAIN batch : batch[i].id = batch[j].id => i = j

Holding == {"batch", "probe", "write"}

LEMMA AuditorHolds ==
  ASSUME DaemonsInv, NEW a \in Auditors
  PROVE  /\ aud[a] \in AuditorState
         /\ aud[a].pc \in Holding => BatchOK(a, aud[a].batch)
         /\ aud[a].pc = "write" => aud[a].outcome \in Outcome
<1>1. aud[a] \in AuditorState
  BY DEF DaemonsInv, TypeOK
<1>2. aud[a].pc \in Holding => aud[a].batch \in Seq(Snapshot) \ {<<>>}
  BY <1>1 DEF AuditorState, Holding
<1>3. aud[a].pc = "write" => aud[a].outcome \in Outcome
  BY <1>1 DEF AuditorState
<1> QED
  BY <1>1, <1>2, <1>3 DEF DaemonsInv, BatchesApart, BatchOK, Holding

\* What a query for the audit returns.
LEMMA AuditBatch ==
  ASSUME DaemonsInv, NEW a \in Auditors, GetContractsForAudit(a) # <<>>
  PROVE  BatchOK(a, GetContractsForAudit(a))
<1> DEFINE rows == Oldest(AuditRows(a), AuditLimit)
           batch == [k \in DOMAIN rows |-> [id |-> rows[k], status |-> status[rows[k]]]]
<1>1. TableOK
  BY TableTyped DEF DaemonsInv
<1>2. /\ byCheck \in Seq(ContractIds)
      /\ \A i \in DOMAIN byCheck : byCheck[i] \in Rows
      /\ \A i, j \in DOMAIN byCheck : byCheck[i] = byCheck[j] => i = j
  <2>1. Queue(byCheck, Rows, due)
    BY <1>1 DEF TableOK
  <2>2. byCheck \in Seq(ContractIds)
    BY <2>1 DEF Queue
  <2> QED
    BY <2>1, <2>2, QueueOnce
<1>3. AuditRows(a) \in SUBSET DOMAIN byCheck
  BY DEF AuditRows
<1>4. AuditLimit \in Nat
  BY DaemonsAssumption
<1>5. /\ rows \in Seq(ContractIds)
      /\ DOMAIN rows = 1..Len(rows)
      /\ \A k \in DOMAIN rows :
           rows[k] = byCheck[Nth(AuditRows(a), k)] /\ Nth(AuditRows(a), k) \in AuditRows(a)
      /\ \A k, l \in DOMAIN rows : rows[k] = rows[l] => k = l
  BY <1>2, <1>3, <1>4, OldestRows
<1> HIDE DEF rows
<1>6. \A k \in DOMAIN rows : /\ rows[k] \in Rows \cap Share(a, NumAuditors)
                            /\ status[rows[k]] \in Live
  BY <1>2, <1>3, <1>5 DEF AuditRows
<1>7. \A k \in DOMAIN rows : rows[k] \in ContractIds
  BY <1>6 DEF Rows
<1>8. batch \in [1..Len(rows) -> Snapshot]
  BY <1>5, <1>6, <1>7 DEF Snapshot
<1>9. batch \in Seq(Snapshot)
  <2>1. Len(rows) \in Nat
    BY <1>5, LenProperties
  <2> HIDE DEF batch
  <2> QED
    BY <1>8, <2>1, SeqDef
<1>10. GetContractsForAudit(a) = batch
  BY DEF GetContractsForAudit, rows
<1>11. /\ DOMAIN batch = DOMAIN rows
       /\ \A k \in DOMAIN rows : batch[k].id = rows[k]
  OBVIOUS
<1> HIDE DEF batch
<1> QED
  BY <1>5, <1>6, <1>9, <1>10, <1>11 DEF BatchOK

LEMMA PingBatch ==
  ASSUME DaemonsInv, NEW p \in Pingers
  PROVE  GetAllContracts(p) \in Seq(ContractIds)
<1>1. byCheck \in Seq(ContractIds) /\ PingRows(p) \in SUBSET DOMAIN byCheck
  BY DEF DaemonsInv, TypeOK, PingRows
<1>2. PingLimit \in Nat
  BY DaemonsAssumption
<1> QED
  BY <1>1, <1>2, OldestRows DEF GetAllContracts

\* The place of a row in the table.
LEMMA PlaceOfRow ==
  ASSUME TableOK, NEW c \in Rows
  PROVE  Place(c) \in DOMAIN byCheck /\ byCheck[Place(c)] = c
<1>1. Queue(byCheck, Rows, due)
  BY DEF TableOK
<1>2. \E i \in DOMAIN byCheck : byCheck[i] = c
  BY <1>1, QueueOnce
<1> QED
  BY <1>2 DEF Place

LEMMA CheckKeeps ==
  ASSUME TableOK, NEW c \in Rows, NEW s \in RowStatus, Check(c, s)
  PROVE  TableOK' /\ Rows' = Rows
<1>1. /\ status' = [status EXCEPT ![c] = s]
      /\ byCheck' = Append(RemoveAt(byCheck, Place(c)), c)
      /\ due' = due \ {c}
  BY DEF Check
<1>2. c \in ContractIds /\ s # "none"
  BY DEF Rows, RowStatus, Live
<1>3. status' \in [ContractIds -> RowStatus \cup {"none"}]
  BY <1>1, <1>2 DEF TableOK
<1>4. Rows' = Rows
  BY <1>1, <1>2 DEF Rows, TableOK
<1>5. Queue(byCheck, Rows, due)
  BY DEF TableOK
<1>6. PICK p : p = Place(c) /\ p \in DOMAIN byCheck /\ byCheck[p] = c
  BY PlaceOfRow
<1>7. Queue(Append(RemoveAt(byCheck, p), byCheck[p]), Rows, due \ {byCheck[p]})
  BY <1>5, <1>6, QueueMoves
<1>8. Queue(byCheck', Rows', due')
  BY <1>1, <1>4, <1>6, <1>7
<1> QED
  BY <1>3, <1>4, <1>8 DEF TableOK

\* The next id is new.
LEMMA RegisterKeeps ==
  ASSUME TableOK, IdsInOrder, NEW c \in ContractIds, RegisterContract(c)
  PROVE  TableOK' /\ IdsInOrder' /\ Rows' = Rows \cup {c}
<1>1. /\ c = Cardinality(Rows) + 1
      /\ status' = [status EXCEPT ![c] = "pending"]
      /\ byCheck' = Append(byCheck, c)
      /\ due' = due
  BY DEF RegisterContract
<1>2. Queue(byCheck, Rows, due)
  BY DEF TableOK
<1>3. IsFiniteSet(Rows) /\ Cardinality(Rows) \in Nat
  BY <1>2, QueueOnce, FS_CardinalityType
<1>4. Rows = 1..Cardinality(Rows)
  BY DEF IdsInOrder
<1>5. c \notin Rows
  BY <1>1, <1>3, <1>4
<1>6. Rows' = Rows \cup {c}
  BY <1>1 DEF Rows, TableOK
<1>7. status' \in [ContractIds -> RowStatus \cup {"none"}]
  BY <1>1 DEF TableOK, RowStatus, Live
<1>8. Queue(byCheck', Rows', due')
  BY <1>1, <1>2, <1>5, <1>6, QueueGrows
<1>9. Cardinality(Rows') = c
  BY <1>1, <1>3, <1>5, <1>6, FS_AddElement
<1>10. Rows' = 1..Cardinality(Rows')
  <2>1. Rows \cup {c} = 1..c
    BY <1>1, <1>3, <1>4
  <2> QED
    BY <1>6, <1>9, <2>1
<1> QED
  BY <1>6, <1>7, <1>8, <1>10 DEF TableOK, IdsInOrder

LEMMA AgeKeeps ==
  ASSUME TableOK, Age
  PROVE  TableOK' /\ Rows' = Rows
<1>1. /\ status' = status /\ byCheck' = byCheck
      /\ due # Rows /\ due' = due \cup {byCheck[Cardinality(due) + 1]}
  BY DEF Age
<1>2. Rows' = Rows
  BY <1>1 DEF Rows
<1>3. Queue(byCheck, Rows, due \cup {byCheck[Cardinality(due) + 1]})
  BY <1>1, QueueAges DEF TableOK
<1> QED
  BY <1>1, <1>2, <1>3 DEF TableOK

\* What a step of auditor a makes of it.
AuditorMoves(a) ==
  \E s \in AuditorState :
     /\ aud' = [aud EXCEPT ![a] = s]
     /\ s.pc \in Holding => BatchOK(a, s.batch)
     /\ s.pc = "write" /\ s.outcome = "cut" => Done("auditors")

LEMMA NextContractMoves ==
  ASSUME DaemonsInv, NEW a \in Auditors, aud[a].pc = "write", NextContract(a)
  PROVE  AuditorMoves(a)
<1> DEFINE b == aud[a].batch
           s == [pc |-> "batch", batch |-> Tail(b)]
<1>1. BatchOK(a, b)
  BY AuditorHolds DEF Holding
<1>2. CASE Len(b) = 1
  <2>1. aud' = [aud EXCEPT ![a] = Loop]
    BY <1>2 DEF NextContract
  <2>2. Loop \in AuditorState /\ Loop.pc = "loop"
    BY DEF Loop, AuditorState
  <2> QED
    BY <2>1, <2>2 DEF AuditorMoves, Holding
<1>3. CASE Len(b) # 1
  <2>1. aud' = [aud EXCEPT ![a] = s]
    BY <1>3 DEF NextContract
  <2>2. b \in Seq(Snapshot) /\ b # <<>>
    BY <1>1 DEF BatchOK
  <2>3. /\ Len(b) \in Nat /\ Len(b) # 0 /\ DOMAIN b = 1..Len(b)
        /\ Tail(b) \in Seq(Snapshot)
        /\ Len(Tail(b)) = Len(b) - 1
        /\ DOMAIN Tail(b) = 1..(Len(b) - 1)
        /\ \A i \in 1..(Len(b) - 1) : Tail(b)[i] = b[i + 1]
    <3>1. Len(b) \in Nat /\ Len(b) # 0 /\ DOMAIN b = 1..Len(b)
      BY <2>2, LenProperties, EmptySeq
    <3>2. /\ Tail(b) \in Seq(Snapshot)
          /\ Len(Tail(b)) = Len(b) - 1
          /\ \A i \in 1..Len(Tail(b)) : Tail(b)[i] = b[i + 1]
      BY <2>2, HeadTailProperties
    <3>3. DOMAIN Tail(b) = 1..Len(Tail(b))
      BY <3>2, LenProperties
    <3> QED
      BY <3>1, <3>2, <3>3
  <2>4. Tail(b) # <<>>
    <3>1. Len(Tail(b)) # 0
      BY <1>3, <2>3
    <3> QED
      BY <3>1, EmptySeq
  <2>5. \A i \in 1..(Len(b) - 1) : i + 1 \in DOMAIN b
    BY <2>3
  <2>6. BatchOK(a, Tail(b))
    <3>1. ASSUME NEW i \in DOMAIN Tail(b)
          PROVE  Tail(b)[i].id \in Rows \cap Share(a, NumAuditors)
      BY <1>1, <2>3, <2>5, <3>1 DEF BatchOK
    <3>2. ASSUME NEW i \in DOMAIN Tail(b), NEW j \in DOMAIN Tail(b),
                 Tail(b)[i].id = Tail(b)[j].id
          PROVE  i = j
      <4>1. i + 1 = j + 1
        BY <1>1, <2>3, <2>5, <3>2 DEF BatchOK
      <4> QED
        BY <2>3, <4>1
    <3> QED
      BY <2>3, <2>4, <3>1, <3>2 DEF BatchOK
  <2>7. s \in AuditorState
    BY <2>3, <2>4 DEF AuditorState
  <2>8. s.pc = "batch" /\ s.batch = Tail(b)
    OBVIOUS
  <2> HIDE DEF s
  <2> QED
    BY <2>1, <2>6, <2>7, <2>8 DEF AuditorMoves
<1> QED
  BY <1>2, <1>3

LEMMA AuditorMovesStep ==
  ASSUME DaemonsInv, NEW a \in Auditors, AuditorStep(a)
  PROVE  AuditorMoves(a) /\ UNCHANGED <<rep, ping, mainVars>>
<1>1. ASSUME AuditorStops(a)
      PROVE  AuditorMoves(a)
  <2>1. aud' = [aud EXCEPT ![a] = Stopped]
    BY <1>1 DEF AuditorStops
  <2>2. Stopped \in AuditorState /\ Stopped.pc = "stopped"
    BY DEF Stopped, AuditorState
  <2> QED
    BY <2>1, <2>2 DEF AuditorMoves, Holding
<1>2. ASSUME AuditorQuery(a)
      PROVE  AuditorMoves(a)
  <2> DEFINE s == [pc |-> "batch", batch |-> GetContractsForAudit(a)]
  <2>1. aud' = [aud EXCEPT ![a] = s] /\ GetContractsForAudit(a) # <<>>
    BY <1>2 DEF AuditorQuery
  <2>2. BatchOK(a, GetContractsForAudit(a))
    BY <2>1, AuditBatch
  <2>3. s \in AuditorState
    BY <2>2 DEF BatchOK, AuditorState
  <2>4. s.pc = "batch" /\ s.batch = GetContractsForAudit(a)
    OBVIOUS
  <2> HIDE DEF s
  <2> QED
    BY <2>1, <2>2, <2>3, <2>4 DEF AuditorMoves
<1>3. ASSUME AuditorBegins(a)
      PROVE  AuditorMoves(a)
  <2> DEFINE s == [aud[a] EXCEPT !.pc = "probe"]
  <2>1. aud[a].pc = "batch" /\ aud' = [aud EXCEPT ![a] = s]
    BY <1>3 DEF AuditorBegins, At
  <2>2. aud[a] \in AuditorState /\ BatchOK(a, aud[a].batch)
    BY <2>1, AuditorHolds DEF Holding
  <2>3. s \in AuditorState /\ s.pc = "probe" /\ s.batch = aud[a].batch
    BY <2>1, <2>2 DEF AuditorState
  <2> HIDE DEF s
  <2> QED
    BY <2>1, <2>2, <2>3 DEF AuditorMoves
<1>4. ASSUME AuditProvider(a)
      PROVE  AuditorMoves(a)
  <2>1. PICK outcome \in Outcome :
          /\ outcome = "cut" => Done("auditors")
          /\ aud' = [aud EXCEPT ![a] = [pc |-> "write", batch |-> aud[a].batch,
                                        outcome |-> outcome]]
    BY <1>4 DEF AuditProvider
  <2> DEFINE s == [pc |-> "write", batch |-> aud[a].batch, outcome |-> outcome]
  <2>2. BatchOK(a, aud[a].batch)
    BY <1>4, AuditorHolds DEF AuditProvider, At, Holding
  <2>3. s \in AuditorState
    BY <2>2 DEF BatchOK, AuditorState
  <2>4. s.pc = "write" /\ s.batch = aud[a].batch /\ s.outcome = outcome
    OBVIOUS
  <2>5. aud' = [aud EXCEPT ![a] = s]
    BY <2>1
  <2> HIDE DEF s
  <2> QED
    BY <2>1, <2>2, <2>3, <2>4, <2>5 DEF AuditorMoves
<1>5. ASSUME NEW c \in ContractIds, AuditorWrites(a, c)
      PROVE  AuditorMoves(a)
  BY <1>5, NextContractMoves DEF AuditorWrites, At
<1>6. ASSUME AuditorFails(a)
      PROVE  AuditorMoves(a)
  BY <1>6, NextContractMoves DEF AuditorFails, At
<1>7. UNCHANGED <<rep, ping, mainVars>>
  BY DEF AuditorStep, AuditorStops, AuditorQuery, AuditorBegins, AuditProvider,
         AuditorWrites, AuditorFails
<1> QED
  BY <1>1, <1>2, <1>3, <1>4, <1>5, <1>6, <1>7 DEF AuditorStep

\* What it does to the table: nothing, or a check of the row it is writing.
LEMMA AuditorTable ==
  ASSUME DaemonsInv, NEW a \in Auditors, AuditorStep(a)
  PROVE  \/ UNCHANGED tableVars
         \/ \E c \in Rows : \E s \in RowStatus :
              /\ Check(c, s) /\ c \in Share(a, NumAuditors)
              /\ \E d \in ContractIds : AuditorWrites(a, d)
              /\ aud[a].pc = "write" /\ Head(aud[a].batch).id = c
<1>1. ASSUME NEW c \in ContractIds, AuditorWrites(a, c)
      PROVE  \E s \in RowStatus : Check(c, s) /\ c \in Rows \cap Share(a, NumAuditors)
  <2>1. aud[a].pc = "write" /\ Head(aud[a].batch).id = c
    BY <1>1 DEF AuditorWrites, At
  <2>2. BatchOK(a, aud[a].batch)
    BY <2>1, AuditorHolds DEF Holding
  <2>3. 1 \in DOMAIN aud[a].batch /\ Head(aud[a].batch) = aud[a].batch[1]
    <3>1. aud[a].batch \in Seq(Snapshot) /\ aud[a].batch # <<>>
      BY <2>2 DEF BatchOK
    <3>2. /\ Len(aud[a].batch) \in Nat \ {0}
          /\ DOMAIN aud[a].batch = 1..Len(aud[a].batch)
      BY <3>1, LenProperties, EmptySeq
    <3> QED
      BY <3>2
  <2>4. c \in Rows \cap Share(a, NumAuditors)
    BY <2>1, <2>2, <2>3 DEF BatchOK
  <2>5. status[c] \in RowStatus
    BY <2>4 DEF Rows, DaemonsInv, TypeOK
  <2>6. \E s \in {"failed", "active", status[c]} : Check(c, s)
    BY <1>1 DEF AuditorWrites, MarkContractFailed, MarkContractActive,
                UpdateContractCheck
  <2> QED
    BY <2>4, <2>5, <2>6 DEF RowStatus, Live
<1>2. ASSUME NEW c \in ContractIds, AuditorWrites(a, c)
      PROVE  aud[a].pc = "write" /\ Head(aud[a].batch).id = c
  BY <1>2 DEF AuditorWrites, At
<1>3. \/ UNCHANGED tableVars
      \/ \E c \in ContractIds : AuditorWrites(a, c)
  BY DEF AuditorStep, AuditorStops, AuditorQuery, AuditorBegins, AuditProvider,
         AuditorFails
<1> QED
  BY <1>1, <1>2, <1>3

LEMMA PingerMovesStep ==
  ASSUME DaemonsInv, NEW p \in Pingers, Pinger(p)
  PROVE  \E s \in PingerState : ping' = [ping EXCEPT ![p] = s]
<1>1. ping[p] \in PingerState
  BY DEF DaemonsInv, TypeOK
<1>2. CASE PingerStops(p)
  <2>1. Stopped \in PingerState
    BY DEF Stopped, PingerState
  <2> QED
    BY <1>2, <2>1 DEF PingerStops
<1>3. CASE PingerQuery(p)
  <2>1. /\ GetAllContracts(p) # <<>>
        /\ ping' = [ping EXCEPT ![p] = [pc |-> "ping", batch |-> GetAllContracts(p)]]
    BY <1>3 DEF PingerQuery
  <2>2. [pc |-> "ping", batch |-> GetAllContracts(p)] \in PingerState
    BY <2>1, PingBatch DEF PingerState
  <2> QED
    BY <2>1, <2>2
<1>4. CASE ProcessPing(p)
  <2> DEFINE b == ping[p].batch
  <2>1. b \in Seq(ContractIds) /\ b # <<>>
    BY <1>1, <1>4 DEF ProcessPing, PingerState
  <2>2. CASE Len(b) = 1
    <3>1. ping' = [ping EXCEPT ![p] = Loop]
      BY <1>4, <2>2 DEF ProcessPing
    <3>2. Loop \in PingerState
      BY DEF Loop, PingerState
    <3> QED
      BY <3>1, <3>2
  <2>3. CASE Len(b) # 1
    <3>1. ping' = [ping EXCEPT ![p] = [pc |-> "ping", batch |-> Tail(b)]]
      BY <1>4, <2>3 DEF ProcessPing
    <3>2. Tail(b) \in Seq(ContractIds) /\ Len(Tail(b)) # 0
      <4>1. Tail(b) \in Seq(ContractIds) /\ Len(Tail(b)) = Len(b) - 1
        BY <2>1, HeadTailProperties
      <4>2. Len(b) \in Nat
        BY <2>1, LenProperties
      <4> QED
        BY <2>3, <4>1, <4>2
    <3>3. Tail(b) # <<>>
      BY <3>2, EmptySeq
    <3>4. [pc |-> "ping", batch |-> Tail(b)] \in PingerState
      BY <3>2, <3>3 DEF PingerState
    <3> QED
      BY <3>1, <3>4
  <2> QED
    BY <2>2, <2>3
<1> QED
  BY <1>2, <1>3, <1>4 DEF Pinger

\* What a step does to the table, in terms of the rows: none goes, and an id that
\* is handed out is the next one.
LEMMA TableStep ==
  ASSUME DaemonsInv, [Next]_vars
  PROVE  TableOK' /\ IdsInOrder' /\ Rows \subseteq Rows'
<1>1. TableOK /\ IdsInOrder
  BY TableTyped DEF DaemonsInv
<1>2. CASE UNCHANGED tableVars
  <2>1. status' = status /\ byCheck' = byCheck /\ due' = due
    BY <1>2 DEF tableVars
  <2>2. Rows' = Rows
    BY <2>1 DEF Rows
  <2> QED
    BY <1>1, <2>1, <2>2 DEF TableOK, IdsInOrder
<1>3. CASE Age
  BY <1>1, <1>3, AgeKeeps DEF IdsInOrder
<1>4. ASSUME NEW r \in Replicators, Replicator(r)
      PROVE  UNCHANGED tableVars \/ \E c \in ContractIds : RegisterContract(c)
  BY <1>4 DEF Replicator, ReplicatorStops, ReplicatorTakes, ReplicatorEnds
<1>5. ASSUME NEW c \in ContractIds, RegisterContract(c)
      PROVE  TableOK' /\ IdsInOrder' /\ Rows \subseteq Rows'
  BY <1>1, <1>5, RegisterKeeps
<1>6. ASSUME NEW c \in Rows, NEW s \in RowStatus, Check(c, s)
      PROVE  TableOK' /\ IdsInOrder' /\ Rows \subseteq Rows'
  BY <1>1, <1>6, CheckKeeps DEF IdsInOrder
<1>7. ASSUME NEW a \in Auditors, AuditorStep(a)
      PROVE  TableOK' /\ IdsInOrder' /\ Rows \subseteq Rows'
  BY <1>2, <1>6, <1>7, AuditorTable
<1>8. ASSUME \/ \E p \in Pingers : Pinger(p)
             \/ ServerFails \/ StopReplicators \/ StopAuditors \/ Exit \/ Restart
             \/ UNCHANGED vars
      PROVE  UNCHANGED tableVars
  BY <1>8 DEF Pinger, ServerFails, StopReplicators, StopAuditors, Exit, Restart, vars
<1> QED
  BY <1>2, <1>3, <1>4, <1>5, <1>7, <1>8 DEF Next

\* The workers and main.
WorkersOK ==
  /\ rep \in [Replicators -> {"loop", "busy", "stopped"}]
  /\ aud \in [Auditors -> AuditorState]
  /\ ping \in [Pingers -> PingerState]
  /\ main \in {"running", "replicators", "auditors", "done"}
  /\ cancelled \subseteq {"main", "replicators", "auditors"}

LEMMA WorkersStep ==
  ASSUME DaemonsInv, [Next]_vars
  PROVE  WorkersOK'
<1>1. WorkersOK
  BY DEF DaemonsInv, TypeOK, WorkersOK
<1>2. CASE Age \/ UNCHANGED vars
  BY <1>1, <1>2 DEF Age, vars, workerVars, mainVars, WorkersOK
<1>3. ASSUME NEW r \in Replicators, Replicator(r)
      PROVE  WorkersOK'
  <2>1. UNCHANGED <<aud, ping, main, cancelled>>
    BY <1>3 DEF Replicator, mainVars
  <2>2. rep' \in [Replicators -> {"loop", "busy", "stopped"}]
    BY <1>1, <1>3
    DEF Replicator, ReplicatorStops, ReplicatorTakes, ReplicatorEnds, WorkersOK
  <2> QED
    BY <1>1, <2>1, <2>2 DEF WorkersOK
<1>4. ASSUME NEW a \in Auditors, AuditorStep(a)
      PROVE  WorkersOK'
  <2>1. UNCHANGED <<rep, ping, main, cancelled>>
    BY <1>4, AuditorMovesStep DEF mainVars
  <2>2. aud' \in [Auditors -> AuditorState]
    BY <1>1, <1>4, AuditorMovesStep DEF AuditorMoves, WorkersOK
  <2> QED
    BY <1>1, <2>1, <2>2 DEF WorkersOK
<1>5. ASSUME NEW p \in Pingers, Pinger(p)
      PROVE  WorkersOK'
  <2>1. UNCHANGED <<rep, aud, main, cancelled>>
    BY <1>5 DEF Pinger, mainVars
  <2>2. ping' \in [Pingers -> PingerState]
    BY <1>1, <1>5, PingerMovesStep DEF WorkersOK
  <2> QED
    BY <1>1, <2>1, <2>2 DEF WorkersOK
<1>6. CASE ServerFails \/ StopReplicators \/ StopAuditors \/ Exit
  BY <1>1, <1>6
  DEF ServerFails, StopReplicators, StopAuditors, Exit, Cancel, workerVars, WorkersOK
<1>7. CASE Restart
  <2>1. Loop \in AuditorState /\ Loop \in PingerState
    BY DEF Loop, AuditorState, PingerState
  <2> QED
    BY <1>7, <2>1 DEF Restart, Start, WorkersOK
<1> QED
  BY <1>2, <1>3, <1>4, <1>5, <1>6, <1>7 DEF Next

\* A context that is done stays done until the program is started again.
LEMMA DoneStays ==
  ASSUME [Next]_vars, ~Restart, Done("auditors")
  PROVE  Done("auditors")'
<1>1. CASE Age \/ UNCHANGED vars
  BY <1>1 DEF Age, vars, mainVars, Done
<1>2. ASSUME NEW r \in Replicators, Replicator(r)
      PROVE  Done("auditors")'
  BY <1>2 DEF Replicator, mainVars, Done
<1>3. ASSUME NEW a \in Auditors, AuditorStep(a)
      PROVE  Done("auditors")'
  BY <1>3
  DEF AuditorStep, AuditorStops, AuditorQuery, AuditorBegins, AuditProvider,
      AuditorWrites, AuditorFails, mainVars, Done
<1>4. ASSUME NEW p \in Pingers, Pinger(p)
      PROVE  Done("auditors")'
  BY <1>4 DEF Pinger, mainVars, Done
<1>5. CASE ServerFails \/ StopReplicators \/ StopAuditors \/ Exit
  BY <1>5 DEF ServerFails, StopReplicators, StopAuditors, Exit, Cancel, Done
<1> QED
  BY <1>1, <1>2, <1>3, <1>4, <1>5 DEF Next

\* A batch stays what it is while rows are only added.
LEMMA BatchStays ==
  ASSUME NEW a, NEW batch, BatchOK(a, batch), Rows \subseteq Rows'
  PROVE  /\ \A i \in DOMAIN batch : batch[i].id \in Rows' \cap Share(a, NumAuditors)
         /\ \A i, j \in DOMAIN batch : batch[i].id = batch[j].id => i = j
BY DEF BatchOK

LEMMA BatchesStep ==
  ASSUME DaemonsInv, [Next]_vars
  PROVE  BatchesApart' /\ CutMeansDone'
<1>1. Rows \subseteq Rows'
  BY TableStep
<1>2. aud \in [Auditors -> AuditorState]
  BY DEF DaemonsInv, TypeOK
<1> DEFINE Held(s, b) ==
      s.pc \in Holding =>
        /\ \A i \in DOMAIN s.batch : s.batch[i].id \in Rows' \cap Share(b, NumAuditors)
        /\ \A i, j \in DOMAIN s.batch : s.batch[i].id = s.batch[j].id => i = j
      Cut(s) == s.pc = "write" /\ s.outcome = "cut" => Done("auditors")'
<1>3. SUFFICES \A b \in Auditors : Held(aud'[b], b) /\ Cut(aud'[b])
  BY DEF BatchesApart, CutMeansDone, Holding, Share
<1>4. CASE Restart
  BY <1>4 DEF Restart, Start, Loop, Holding
<1>5. ASSUME ~Restart, NEW b \in Auditors, aud'[b] = aud[b]
      PROVE  Held(aud'[b], b) /\ Cut(aud'[b])
  <2>1. aud[b].pc \in Holding => BatchOK(b, aud[b].batch)
    BY AuditorHolds
  <2>2. Held(aud[b], b)
    BY <1>1, <2>1, BatchStays
  <2>3. Cut(aud[b])
    BY <1>5, DoneStays DEF DaemonsInv, CutMeansDone
  <2> QED
    BY <1>5, <2>2, <2>3
<1>6. ASSUME ~Restart, NEW a \in Auditors, AuditorStep(a), NEW b \in Auditors
      PROVE  Held(aud'[b], b) /\ Cut(aud'[b])
  <2>1. PICK s \in AuditorState :
          /\ aud' = [aud EXCEPT ![a] = s]
          /\ s.pc \in Holding => BatchOK(a, s.batch)
          /\ s.pc = "write" /\ s.outcome = "cut" => Done("auditors")
    BY <1>6, AuditorMovesStep DEF AuditorMoves
  <2>2. CASE b # a
    BY <1>2, <1>5, <1>6, <2>1, <2>2
  <2>3. CASE b = a
    <3>1. aud'[b] = s
      BY <1>2, <2>1, <2>3
    <3>2. Held(s, b)
      BY <1>1, <2>1, <2>3, BatchStays
    <3>3. Cut(s)
      BY <1>6, <2>1, DoneStays
    <3> QED
      BY <3>1, <3>2, <3>3
  <2> QED
    BY <2>2, <2>3
<1>7. CASE ~Restart /\ \A a \in Auditors : ~AuditorStep(a)
  <2>1. aud' = aud
    BY <1>7
    DEF Next, Age, Replicator, Pinger, ServerFails, StopReplicators, StopAuditors,
        Exit, workerVars, vars
  <2> QED
    BY <1>5, <1>7, <2>1
<1> QED
  BY <1>4, <1>6, <1>7

LEMMA DaemonsInit == Init => DaemonsInv
<1> SUFFICES ASSUME Init PROVE DaemonsInv
  OBVIOUS
<1>1. Rows = {} /\ byCheck = <<>> /\ due = {} /\ Cardinality({}) = 0
  BY FS_EmptySet DEF Init, Rows
<1>2. Loop \in AuditorState /\ Loop \in PingerState /\ Loop.pc = "loop"
  BY DEF Loop, AuditorState, PingerState
<1>3. /\ byCheck \in Seq(ContractIds) /\ Len(byCheck) = 0
      /\ {byCheck[i] : i \in DOMAIN byCheck} = Rows
  <2>1. byCheck \in Seq(ContractIds) /\ Len(byCheck) = 0
    BY <1>1, EmptySeq
  <2>2. DOMAIN byCheck = 1..0
    BY <2>1, LenProperties
  <2> QED
    BY <1>1, <2>1, <2>2
<1>4. TypeOK
  <2>1. status \in [ContractIds -> RowStatus \cup {"none"}]
    BY DEF Init
  <2>2. due = {byCheck[i] : i \in 1..Cardinality(due)}
    BY <1>1
  <2> QED
    BY <1>1, <1>2, <1>3, <2>1, <2>2 DEF Init, TypeOK
<1>5. IdsInOrder
  BY <1>1 DEF IdsInOrder
<1>6. BatchesApart /\ CutMeansDone
  BY <1>2 DEF Init, BatchesApart, CutMeansDone
<1> QED
  BY <1>4, <1>5, <1>6 DEF DaemonsInv

LEMMA DaemonsNext == DaemonsInv /\ [Next]_vars => DaemonsInv'
<1> SUFFICES ASSUME DaemonsInv, [Next]_vars PROVE DaemonsInv'
  OBVIOUS
<1>1. TableOK' /\ IdsInOrder'
  BY TableStep
<1>2. WorkersOK' /\ BatchesApart' /\ CutMeansDone'
  BY WorkersStep, BatchesStep
<1>3. TypeOK'
  BY <1>1, <1>2 DEF TypeOK, TableOK, Queue, WorkersOK
<1> QED
  BY <1>1, <1>2, <1>3 DEF DaemonsInv

\* Every row is queued once, ids are handed out in order, no two auditors hold the
\* same row or one of them a row twice, and a probe that was cut off is only held
\* while the context is done.
THEOREM DaemonsInvariant == Spec => []DaemonsInv
BY DaemonsInit, DaemonsNext, PTL DEF Spec

\* The types, among them that the order of last_check has each row once and that
\* the rows that are due come first.
THEOREM DaemonsTypeCorrect == Spec => []TypeOK
<1>1. DaemonsInv => TypeOK
  BY DEF DaemonsInv
<1> QED
  BY <1>1, DaemonsInvariant, PTL

-----------------------------------------------------------------------------
(* Who comes before whom.                                                   *)

PlaceIn(q, c) == CHOOSE i \in DOMAIN q : q[i] = c
AheadIn(q, c) == {q[i] : i \in 1..(PlaceIn(q, c) - 1)}

LEMMA PlaceUnique ==
  ASSUME NEW q, NEW R, NEW d, Queue(q, R, d), NEW i \in DOMAIN q
  PROVE  PlaceIn(q, q[i]) = i
BY QueueOnce DEF PlaceIn

\* A row that goes to the end lets the others move up.
LEMMA OthersMoveUp ==
  ASSUME NEW q, NEW R, NEW d, Queue(q, R, d), NEW p \in DOMAIN q,
         NEW c \in R, c # q[p]
  PROVE  AheadIn(Append(RemoveAt(q, p), q[p]), c) \subseteq AheadIn(q, c)
<1>1. PICK m : m = Append(RemoveAt(q, p), q[p])
  OBVIOUS
<1>2. /\ Queue(m, R, d \ {q[p]})
      /\ Len(m) = Len(q)
      /\ \A i \in 1..Len(q) : m[i] = IF i < p THEN q[i]
                                     ELSE IF i = Len(q) THEN q[p] ELSE q[i + 1]
  BY <1>1, QueueMoves, MovedBack
<1>3. Len(q) \in Nat /\ DOMAIN q = 1..Len(q) /\ DOMAIN m = 1..Len(q)
  BY <1>2, QueueOnce
<1>4. PICK i \in DOMAIN q : q[i] = c
  BY QueueOnce
<1>5. PlaceIn(q, c) = i /\ i # p
  BY <1>4, PlaceUnique
<1>6. CASE i < p
  <2>1. m[i] = c /\ PlaceIn(m, c) = i
    BY <1>2, <1>3, <1>4, <1>6, PlaceUnique
  <2>2. ASSUME NEW j \in 1..(i - 1)
        PROVE  m[j] = q[j]
    <3>1. i \in Nat /\ i <= Len(q) /\ Len(q) \in Nat /\ p \in Nat
      BY <1>3
    <3>2. j \in 1..Len(q) /\ j < p
      BY <1>6, <3>1
    <3> QED
      BY <1>2, <3>2
  <2> QED
    BY <1>1, <1>5, <2>1, <2>2 DEF AheadIn
<1>7. CASE p < i
  <2>1. /\ i - 1 \in 1..Len(q) /\ ~(i - 1 < p) /\ i - 1 # Len(q)
        /\ (i - 1) + 1 = i
    BY <1>3, <1>7
  <2>2. m[i - 1] = c
    BY <1>2, <1>4, <2>1
  <2>3. PlaceIn(m, c) = i - 1
    BY <1>2, <1>3, <2>1, <2>2, PlaceUnique
  <2>4. ASSUME NEW j \in 1..((i - 1) - 1)
        PROVE  m[j] \in {q[k] : k \in 1..(i - 1)}
    <3>1. /\ j \in 1..Len(q) /\ j # Len(q)
          /\ j \in 1..(i - 1) /\ j + 1 \in 1..(i - 1)
      <4>1. i \in Nat /\ i <= Len(q) /\ Len(q) \in Nat
        BY <1>3
      <4>2. j \in Nat /\ 1 <= j /\ j <= i - 2
        BY <4>1
      <4> QED
        BY <4>1, <4>2
    <3>2. m[j] = q[j] \/ m[j] = q[j + 1]
      BY <1>2, <3>1
    <3> QED
      BY <3>1, <3>2
  <2> QED
    BY <1>1, <1>5, <2>3, <2>4 DEF AheadIn
<1> QED
  BY <1>3, <1>5, <1>6, <1>7

\* A new row changes nothing for the others.
LEMMA OthersStay ==
  ASSUME NEW q, NEW R, NEW d, Queue(q, R, d), NEW x \in ContractIds, x \notin R,
         NEW c \in R
  PROVE  AheadIn(Append(q, x), c) = AheadIn(q, c)
<1> DEFINE m == Append(q, x)
<1>1. Queue(m, R \cup {x}, d)
  BY QueueGrows
<1>2. Len(m) = Len(q) + 1 /\ \A i \in 1..Len(q) : m[i] = q[i]
  BY AppendProperties DEF Queue
<1> HIDE DEF m
<1>3. Len(q) \in Nat /\ DOMAIN q = 1..Len(q) /\ DOMAIN m = 1..(Len(q) + 1)
  BY <1>1, <1>2, QueueOnce
<1>4. PICK i \in DOMAIN q : q[i] = c
  BY QueueOnce
<1>5. PlaceIn(q, c) = i
  BY <1>4, PlaceUnique
<1>6. i \in DOMAIN m /\ m[i] = c
  BY <1>2, <1>3, <1>4
<1>7. PlaceIn(m, c) = i
  BY <1>1, <1>6, PlaceUnique
<1>8. \A j \in 1..(i - 1) : m[j] = q[j]
  BY <1>2, <1>3
<1>9. AheadIn(m, c) = AheadIn(q, c)
  BY <1>5, <1>7, <1>8 DEF AheadIn
<1> QED
  BY <1>9 DEF m

LEMMA OvertakesStep ==
  ASSUME DaemonsInv, [Next]_vars, NEW c \in Rows
  PROVE  \/ Ahead(c)' \subseteq Ahead(c)
         \/ \E a \in Auditors : c \in Share(a, NumAuditors) /\ Finishes(a, c)
<1>1. TableOK
  BY TableTyped DEF DaemonsInv
<1>2. Queue(byCheck, Rows, due)
  BY <1>1 DEF TableOK
<1>3. Ahead(c) = AheadIn(byCheck, c) /\ Ahead(c)' = AheadIn(byCheck', c)
  BY DEF Ahead, Place, AheadIn, PlaceIn
<1>4. CASE byCheck' = byCheck
  BY <1>3, <1>4
<1>5. ASSUME NEW r \in Replicators, Replicator(r)
      PROVE  byCheck' = byCheck \/ \E d \in ContractIds : RegisterContract(d)
  BY <1>5
  DEF Replicator, ReplicatorStops, ReplicatorTakes, ReplicatorEnds, tableVars
<1>6. ASSUME NEW d \in ContractIds, RegisterContract(d)
      PROVE  Ahead(c)' \subseteq Ahead(c)
  <2>1. byCheck' = Append(byCheck, d)
    BY <1>6 DEF RegisterContract
  <2>2. d \notin Rows
    <3>1. d = Cardinality(Rows) + 1 /\ Rows = 1..Cardinality(Rows)
      BY <1>6 DEF RegisterContract, DaemonsInv, IdsInOrder
    <3>2. Cardinality(Rows) \in Nat
      BY <1>2, QueueOnce, FS_CardinalityType
    <3> QED
      BY <3>1, <3>2
  <2> QED
    BY <1>2, <1>3, <2>1, <2>2, OthersStay
<1>7. ASSUME NEW a \in Auditors, AuditorStep(a), byCheck' # byCheck
      PROVE  \/ Ahead(c)' \subseteq Ahead(c)
             \/ c \in Share(a, NumAuditors) /\ Finishes(a, c)
  <2>1. PICK d \in Rows, s \in RowStatus :
          /\ Check(d, s) /\ d \in Share(a, NumAuditors)
          /\ \E e \in ContractIds : AuditorWrites(a, e)
          /\ aud[a].pc = "write" /\ Head(aud[a].batch).id = d
    BY <1>7, AuditorTable DEF tableVars
  <2>2. CASE d = c
    <3>1. NextContract(a)
      BY <2>1 DEF AuditorWrites
    <3>2. aud \in [Auditors -> AuditorState]
      BY DEF DaemonsInv, TypeOK
    <3>3. aud'[a].pc # "write"
      BY <3>1, <3>2 DEF NextContract, Loop
    <3> QED
      BY <2>1, <2>2, <3>3 DEF Finishes
  <2>3. CASE d # c
    <3>1. Place(d) \in DOMAIN byCheck /\ byCheck[Place(d)] = d
      BY <1>1, PlaceOfRow
    <3>2. byCheck' = Append(RemoveAt(byCheck, Place(d)), d)
      BY <2>1 DEF Check
    <3>3. PICK p \in DOMAIN byCheck :
            byCheck[p] = d /\ byCheck' = Append(RemoveAt(byCheck, p), byCheck[p])
      BY <3>1, <3>2
    <3>4. AheadIn(byCheck', c) \subseteq AheadIn(byCheck, c)
      BY <1>2, <2>3, <3>3, OthersMoveUp
    <3> QED
      BY <1>3, <3>4
  <2> QED
    BY <2>2, <2>3
<1>8. ASSUME \/ Age \/ \E p \in Pingers : Pinger(p)
             \/ ServerFails \/ StopReplicators \/ StopAuditors \/ Exit \/ Restart
             \/ UNCHANGED vars
      PROVE  byCheck' = byCheck
  BY <1>8
  DEF Age, Pinger, ServerFails, StopReplicators, StopAuditors, Exit, Restart, vars,
      tableVars
<1> QED
  BY <1>4, <1>5, <1>6, <1>7, <1>8 DEF Next

\* Whoever registers, audits, pings, stops or starts: a row falls back in the order
\* of last_check only when the auditor of its share has finished with it.
THEOREM OvertakesNobodyCorrect == Spec => OvertakesNobody
<1>1. DaemonsInv /\ [Next]_vars =>
        [\A c \in Rows :
           \/ Ahead(c)' \subseteq Ahead(c)
           \/ \E a \in Auditors : c \in Share(a, NumAuditors) /\ Finishes(a, c)]_vars
  BY OvertakesStep
<1> QED
  BY <1>1, DaemonsInvariant, PTL DEF OvertakesNobody, Spec

-----------------------------------------------------------------------------
(* The LIMITs.                                                              *)

LEMMA RowsQueued ==
  ASSUME DaemonsInv
  PROVE  /\ byCheck \in Seq(ContractIds)
         /\ Queue(byCheck, Rows, due)
         /\ \A c \in Rows : Place(c) \in DOMAIN byCheck /\ byCheck[Place(c)] = c
         /\ \A i \in DOMAIN byCheck : byCheck[i] \in Rows /\ Place(byCheck[i]) = i
<1>1. TableOK
  BY TableTyped DEF DaemonsInv
<1>2. Queue(byCheck, Rows, due)
  BY <1>1 DEF TableOK
<1>3. \A i \in DOMAIN byCheck : byCheck[i] \in Rows /\ Place(byCheck[i]) = i
  BY <1>2, QueueOnce, PlaceUnique DEF Place, PlaceIn
<1>4. \A c \in Rows : Place(c) \in DOMAIN byCheck /\ byCheck[Place(c)] = c
  BY <1>1, PlaceOfRow
<1> QED
  BY <1>2, <1>3, <1>4 DEF Queue

\* A contract that is due and yet not in the batch of its auditor waits for a full
\* batch of others that are before it.  A row that is written goes to the end, and by
\* OvertakesNobody none comes before it again: it waits until each of those has been
\* written once.  This is the safety part of AuditedAgain.
THEOREM LimitTakesOldest ==
  ASSUME DaemonsInv, NEW a \in Auditors, NEW c \in Rows,
         status[c] \in Live, c \in Share(a, NumAuditors) \cap due,
         \A k \in DOMAIN GetContractsForAudit(a) : GetContractsForAudit(a)[k].id # c
  PROVE  /\ Len(GetContractsForAudit(a)) = AuditLimit
         /\ \A k \in DOMAIN GetContractsForAudit(a) :
              GetContractsForAudit(a)[k].id \in Ahead(c)
<1> DEFINE P == AuditRows(a)
           rows == Oldest(P, AuditLimit)
           batch == GetContractsForAudit(a)
<1>1. /\ byCheck \in Seq(ContractIds)
      /\ Place(c) \in DOMAIN byCheck /\ byCheck[Place(c)] = c
  BY RowsQueued
<1>2. P \in SUBSET DOMAIN byCheck /\ Place(c) \in P /\ AuditLimit \in Nat
  BY <1>1, DaemonsAssumption DEF AuditRows
<1> HIDE DEF P
<1>3. /\ DOMAIN rows = 1..Len(rows) /\ rows \in Seq(ContractIds)
      /\ \A k \in DOMAIN rows : rows[k] = byCheck[Nth(P, k)] /\ Nth(P, k) \in P
  BY <1>1, <1>2, OldestRows
<1>4. batch = [k \in DOMAIN rows |-> [id |-> rows[k], status |-> status[rows[k]]]]
  BY DEF GetContractsForAudit, P
<1>5. DOMAIN batch = DOMAIN rows /\ \A k \in DOMAIN rows : batch[k].id = rows[k]
  BY <1>4
<1>6. Len(batch) = Len(rows)
  <2>1. Len(rows) \in Nat
    BY <1>3, LenProperties
  <2>2. batch \in [1..Len(rows) -> {[id |-> rows[k], status |-> status[rows[k]]] :
                                    k \in DOMAIN rows}]
    BY <1>3, <1>4
  <2>3. batch \in Seq({[id |-> rows[k], status |-> status[rows[k]]] : k \in DOMAIN rows})
    BY <2>1, <2>2, SeqDef
  <2>4. DOMAIN batch = 1..Len(batch) /\ Len(batch) \in Nat
    BY <2>3, LenProperties
  <2> QED
    BY <1>3, <1>5, <2>1, <2>4
<1>7. \A k \in DOMAIN rows : Nth(P, k) # Place(c)
  BY <1>1, <1>3, <1>5
<1>8. /\ Len(rows) = AuditLimit
      /\ \A k \in DOMAIN rows : Nth(P, k) < Place(c)
  BY <1>1, <1>2, <1>7, OldestFirst
<1>9. ASSUME NEW k \in DOMAIN rows
      PROVE  rows[k] \in Ahead(c)
  <2>1. DOMAIN byCheck = 1..Len(byCheck) /\ Len(byCheck) \in Nat
    BY <1>1, LenProperties
  <2>2. Nth(P, k) \in 1..Len(byCheck) /\ Place(c) \in 1..Len(byCheck)
    BY <1>1, <1>2, <1>3, <2>1
  <2>3. Nth(P, k) \in 1..(Place(c) - 1)
    BY <1>8, <2>1, <2>2
  <2> QED
    BY <1>3, <2>3 DEF Ahead
<1> QED
  BY <1>5, <1>6, <1>8, <1>9

\* As long as the contracts of a share, the failed ones included, fit into one
\* batch, a ping batch has them all: the failed ones keep nobody out.
THEOREM FewArePinged ==
  ASSUME DaemonsInv, NEW p \in Pingers, NEW c \in Share(p, NumPingers) \cap Rows,
         Cardinality(Share(p, NumPingers) \cap Rows) <= PingLimit
  PROVE  \E k \in DOMAIN GetAllContracts(p) : GetAllContracts(p)[k] = c
<1> DEFINE P == PingRows(p)
           rows == Oldest(P, PingLimit)
           R == Share(p, NumPingers) \cap Rows
<1>1. GetAllContracts(p) = rows
  BY DEF GetAllContracts
<1>2. SUFFICES ASSUME \A k \in DOMAIN rows : rows[k] # c PROVE FALSE
  BY <1>1
<1>3. /\ byCheck \in Seq(ContractIds)
      /\ Place(c) \in DOMAIN byCheck /\ byCheck[Place(c)] = c
      /\ \A i \in DOMAIN byCheck : byCheck[i] \in Rows
      /\ \A i, j \in DOMAIN byCheck : byCheck[i] = byCheck[j] => i = j
  BY RowsQueued, QueueOnce
<1>4. /\ P \in SUBSET DOMAIN byCheck /\ Place(c) \in P /\ PingLimit \in Nat \ {0}
      /\ \A i \in P : byCheck[i] \in R
  BY <1>3, DaemonsAssumption DEF PingRows
<1> HIDE DEF P
<1>5. /\ DOMAIN rows = 1..Len(rows) /\ rows \in Seq(ContractIds)
      /\ \A k \in DOMAIN rows : rows[k] = byCheck[Nth(P, k)] /\ Nth(P, k) \in P
      /\ \A k, l \in DOMAIN rows : rows[k] = rows[l] => k = l
  BY <1>3, <1>4, OldestRows
<1>6. Len(rows) = PingLimit
  <2>1. \A k \in DOMAIN rows : Nth(P, k) # Place(c)
    BY <1>2, <1>3, <1>5
  <2> QED
    BY <1>3, <1>4, <2>1, OldestFirst
<1>7. IsFiniteSet(R) /\ Cardinality(R) \in Nat
  <2>1. IsFiniteSet(Rows)
    BY RowsQueued, QueueOnce
  <2> QED
    BY <2>1, FS_Intersection, FS_CardinalityType
<1>8. /\ IsFiniteSet(R \ {c})
      /\ Cardinality(R \ {c}) = Cardinality(R) - 1
  BY <1>7, FS_RemoveElement
<1> HIDE DEF rows, R
<1>9. rows \in Injection(1..PingLimit, R \ {c})
  <2>1. rows \in [1..PingLimit -> ContractIds]
    BY <1>5, <1>6, LenProperties
  <2>2. \A k \in 1..PingLimit : rows[k] \in R \ {c}
    BY <1>2, <1>4, <1>5, <1>6
  <2>3. rows \in [1..PingLimit -> R \ {c}]
    BY <2>1, <2>2
  <2>4. IsInjective(rows)
    BY <1>5 DEF IsInjective
  <2> QED
    BY <2>3, <2>4 DEF Injection
<1>10. Cardinality(1..PingLimit) <= Cardinality(R \ {c})
  BY <1>8, <1>9, FS_Injection
<1>11. Cardinality(1..PingLimit) = PingLimit
  BY <1>4, FS_Interval
<1>12. Cardinality(R) <= PingLimit
  BY DEF R
<1> QED
  BY <1>4, <1>7, <1>8, <1>10, <1>11, <1>12

-----------------------------------------------------------------------------
(* The shutdown.                                                            *)

\* A row becomes failed only in an auditor's write.
LEMMA FailsInWrite ==
  ASSUME [Next]_vars, NEW c \in ContractIds, status[c] # "failed", status'[c] = "failed"
  PROVE  \E a \in Auditors : \E d \in ContractIds : AuditorWrites(a, d)
<1>1. status' # status
  OBVIOUS
<1>2. ASSUME NEW r \in Replicators, Replicator(r)
      PROVE  FALSE
  <2>1. \E d \in ContractIds : RegisterContract(d)
    BY <1>1, <1>2
    DEF Replicator, ReplicatorStops, ReplicatorTakes, ReplicatorEnds, tableVars
  <2> QED
    BY <2>1 DEF RegisterContract
<1>3. ASSUME NEW a \in Auditors, AuditorStep(a)
      PROVE  \E d \in ContractIds : AuditorWrites(a, d)
  BY <1>1, <1>3
  DEF AuditorStep, AuditorStops, AuditorQuery, AuditorBegins, AuditProvider,
      AuditorFails, tableVars
<1>4. ASSUME \/ Age \/ \E p \in Pingers : Pinger(p)
             \/ ServerFails \/ StopReplicators \/ StopAuditors \/ Exit \/ Restart
             \/ UNCHANGED vars
      PROVE  FALSE
  BY <1>1, <1>4
  DEF Age, Pinger, ServerFails, StopReplicators, StopAuditors, Exit, Restart, vars,
      tableVars
<1> QED
  BY <1>2, <1>3, <1>4 DEF Next

LEMMA NoFiringStep ==
  ASSUME DaemonsInv, [Next]_vars, NEW c \in ContractIds,
         status[c] \in Live, status'[c] = "failed", NEW a \in Auditors,
         aud[a].pc = "write", aud'[a].pc # "write"
  PROVE  aud[a].outcome # "cut"
<1>1. PICK b \in Auditors, d \in ContractIds : AuditorWrites(b, d)
  BY FailsInWrite DEF Live
<1>2. ~Done("auditors")
  BY <1>1 DEF AuditorWrites, Executes
<1> QED
  BY <1>2 DEF DaemonsInv, CutMeansDone

\* However the shutdown, the probes and the writes of any number of auditors
\* interleave, nobody is fired because a probe was cut off by it.
THEOREM NoFiringByShutdownCorrect == Spec => NoFiringByShutdown
<1>1. DaemonsInv /\ [Next]_vars =>
        [\A c \in ContractIds :
           status[c] \in Live /\ status'[c] = "failed" =>
             ~\E a \in Auditors :
                /\ aud[a].pc = "write" /\ aud'[a].pc # "write"
                /\ aud[a].outcome = "cut"]_vars
  BY NoFiringStep
<1> QED
  BY <1>1, DaemonsInvariant, PTL DEF Spec, NoFiringByShutdown
=============================================================================
