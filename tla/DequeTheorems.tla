--------------------------- MODULE DequeTheorems ---------------------------
(***************************************************************************)
(* What erase(remove_if(...)) leaves of a sequence, for every sequence:    *)
(* the facts about KeepAt and EraseAt that the proofs about the server's   *)
(* queues rest on.                                                         *)
(***************************************************************************)
EXTENDS Deque, FiniteSetTheorems, WellFoundedInduction, SequenceTheorems, TLAPS

\* Every non-empty set of naturals has a smallest element.
LEMMA SmallestElement ==
    ASSUME NEW M \in SUBSET Nat, M # {}
    PROVE  \E m \in M : \A k \in M : m <= k
<1>1. PICK m \in M : \A k \in M : ~(<<k, m>> \in OpToRel(<, Nat))
    BY NatLessThanWellFounded, WFMin, Zenon
<1>2. \A k \in M : ~(k < m)
    BY <1>1, Zenon DEF OpToRel
<1>. QED
    BY <1>2

\* The ranks of the positions of K are 1 to their number, without a gap: the
\* smallest m up to which K has n positions is itself a position of rank n.
LEMMA RankExists ==
    ASSUME NEW L \in Nat, NEW K \in SUBSET (1..L), NEW n \in 1..Cardinality(K)
    PROVE  \E i \in K : Rank(K, i) = n
<1> DEFINE Upto(m) == {j \in K : j <= m}
           M == {m \in Nat : Cardinality(Upto(m)) >= n}
<1>0. \A j \in K : j \in Nat /\ 1 <= j /\ j <= L
    OBVIOUS
<1>1. IsFiniteSet(K) /\ Cardinality(K) \in Nat
    <2>1. IsFiniteSet(1..L)
        BY FS_Interval
    <2>2. IsFiniteSet(K)
        BY <2>1, FS_Subset
    <2>. QED
        BY <2>2, FS_CardinalityType
<1>2. \A m \in Int : IsFiniteSet(Upto(m)) /\ Cardinality(Upto(m)) \in Nat
    <2> TAKE m \in Int
    <2>1. Upto(m) \in SUBSET K
        OBVIOUS
    <2>2. IsFiniteSet(Upto(m))
        BY <1>1, <2>1, FS_Subset
    <2>. QED
        BY <2>2, FS_CardinalityType
<1>3. L \in M
    <2>1. Upto(L) = K
        BY <1>0
    <2>. QED
        BY <2>1, <1>1
<1>4. PICK m \in M : \A k \in M : m <= k
    <2>1. M \in SUBSET Nat /\ M # {}
        BY <1>3
    <2>. QED
        BY <2>1, SmallestElement
<1>5. ~(Cardinality(Upto(m - 1)) >= n)
    <2>1. CASE m = 0
        <3>0. \A j \in K : ~(j <= m - 1)
            BY <1>0, <2>1
        <3>1. Upto(m - 1) = {}
            BY <3>0
        <3>2. Cardinality(Upto(m - 1)) = 0
            BY <3>1, FS_EmptySet
        <3>. QED
            BY <3>2
    <2>2. CASE m # 0
        <3>1. m - 1 \in Nat /\ ~(m <= m - 1)
            BY <2>2
        <3>2. m - 1 \notin M
            BY <3>1, <1>4
        <3>. QED
            BY <3>1, <3>2
    <2>. QED
        BY <2>1, <2>2
<1>6. m \in K /\ Cardinality(Upto(m)) = Cardinality(Upto(m - 1)) + 1
    <2>1. m \in Nat /\ m - 1 \in Int
        OBVIOUS
    <2>2. m \in K
        <3>1. SUFFICES ASSUME m \notin K PROVE FALSE
            OBVIOUS
        <3>2. \A j \in K : j <= m <=> j <= m - 1
            BY <1>0, <2>1, <3>1
        <3>3. Upto(m) = Upto(m - 1)
            BY <3>2
        <3>. QED
            BY <3>3, <1>5
    <2>3. Upto(m) = Upto(m - 1) \cup {m} /\ m \notin Upto(m - 1)
        <3>1. \A j \in K : j <= m <=> j <= m - 1 \/ j = m
            BY <1>0, <2>1
        <3>2. ~(m <= m - 1)
            BY <2>1
        <3>. QED
            BY <2>2, <3>1, <3>2
    <2>4. Cardinality(Upto(m - 1) \cup {m}) = Cardinality(Upto(m - 1)) + 1
        BY <2>1, <2>3, <1>2, FS_AddElement
    <2>. QED
        BY <2>2, <2>3, <2>4
<1>7. Cardinality(Upto(m)) >= n
    OBVIOUS
<1>8. Cardinality(Upto(m)) = n
    <2>1. m \in Int /\ m - 1 \in Int
        OBVIOUS
    <2>2. Cardinality(Upto(m - 1)) \in Nat
        BY <2>1, <1>2
    <2> HIDE DEF Upto, M
    <2>. QED
        BY <2>2, <1>5, <1>6, <1>7
<1>9. Rank(K, m) = n
    BY <1>8 DEF Rank
<1>. QED
    BY <1>6, <1>9

\* KeepAt keeps the elements at the positions K and no others, each once: e is
\* where the elements of the result come from.
LEMMA KeepAtOrigin ==
    ASSUME NEW S, NEW s \in Seq(S), NEW K \in SUBSET DOMAIN s
    PROVE  /\ KeepAt(s, K) \in Seq(S)
           /\ \E e \in [DOMAIN KeepAt(s, K) -> K] :
                 /\ \A n \in DOMAIN KeepAt(s, K) : KeepAt(s, K)[n] = s[e[n]]
                 /\ \A n, m \in DOMAIN KeepAt(s, K) : e[n] = e[m] => n = m
                 /\ \A i \in K : \E n \in DOMAIN KeepAt(s, K) : e[n] = i
<1> DEFINE c == Cardinality(K)
           e == [n \in 1..c |-> CHOOSE i \in K : Rank(K, i) = n]
<1>1. Len(s) \in Nat /\ K \in SUBSET (1..Len(s)) /\ \A i \in K : s[i] \in S
    BY LenProperties, ElementOfSeq
<1>2. IsFiniteSet(K) /\ c \in Nat
    <2>1. IsFiniteSet(1..Len(s))
        BY <1>1, FS_Interval
    <2>2. IsFiniteSet(K)
        BY <1>1, <2>1, FS_Subset
    <2>. QED
        BY <2>2, FS_CardinalityType
<1>3. \A n \in 1..c : e[n] \in K /\ Rank(K, e[n]) = n
    BY <1>1, RankExists
<1>4. KeepAt(s, K) = [n \in 1..c |-> s[e[n]]]
    BY DEF KeepAt
<1>5. KeepAt(s, K) \in Seq(S) /\ DOMAIN KeepAt(s, K) = 1..c
    <2>1. \A n \in 1..c : s[e[n]] \in S
        BY <1>1, <1>3
    <2> HIDE DEF e, c
    <2>. QED
        BY <1>2, <1>4, <2>1, IsASeq
<1>6. \A i \in K : Rank(K, i) \in 1..c
    <2> TAKE i \in K
    <2> DEFINE U == {j \in K : j <= i}
    <2>1. U \in SUBSET K /\ i \in U
        BY <1>1
    <2>2. IsFiniteSet(U) /\ Cardinality(U) <= c
        BY <1>2, <2>1, FS_Subset
    <2>3. Cardinality(U) \in Nat /\ Cardinality(U) # 0
        BY <2>1, <2>2, FS_CardinalityType, FS_EmptySet
    <2>. QED
        BY <1>2, <2>2, <2>3 DEF Rank
<1>7. \A i, j \in K : Rank(K, i) = Rank(K, j) => i = j
    <2> SUFFICES ASSUME NEW i \in K, NEW j \in K, Rank(K, i) = Rank(K, j), i < j
                 PROVE  FALSE
        BY <1>1
    <2> DEFINE U == {k \in K : k <= i}
               V == {k \in K : k <= j}
    <2>1. U \in SUBSET V /\ V \in SUBSET K /\ j \in V /\ j \notin U
        BY <1>1
    <2>2. IsFiniteSet(V)
        BY <1>2, <2>1, FS_Subset
    <2>3. Cardinality(V) = Cardinality(U) => V = U
        BY <2>1, <2>2, FS_Subset
    <2>. QED
        BY <2>1, <2>3 DEF Rank
<1>8. \A i \in K : \E n \in 1..c : e[n] = i
    <2> TAKE i \in K
    <2>1. Rank(K, i) \in 1..c
        BY <1>6
    <2>2. e[Rank(K, i)] = i
        BY <1>3, <1>7, <2>1
    <2>. QED
        BY <2>1, <2>2
<1>9. /\ e \in [1..c -> K]
      /\ \A n, m \in 1..c : e[n] = e[m] => n = m
    BY <1>3
<1> HIDE DEF e, c
<1>. QED
    BY <1>4, <1>5, <1>8, <1>9

\* KeepAt keeps them in their order.
LEMMA KeepAtOrdered ==
    ASSUME NEW S, NEW s \in Seq(S), NEW K \in SUBSET DOMAIN s
    PROVE  \E e \in [DOMAIN KeepAt(s, K) -> K] :
              /\ \A n \in DOMAIN KeepAt(s, K) : KeepAt(s, K)[n] = s[e[n]]
              /\ \A n, m \in DOMAIN KeepAt(s, K) : e[m] <= e[n] => m <= n
<1> DEFINE c == Cardinality(K)
           e == [n \in 1..c |-> CHOOSE i \in K : Rank(K, i) = n]
<1>1. Len(s) \in Nat /\ K \in SUBSET (1..Len(s))
    BY LenProperties
<1>2. IsFiniteSet(K)
    <2>1. IsFiniteSet(1..Len(s))
        BY <1>1, FS_Interval
    <2>. QED
        BY <1>1, <2>1, FS_Subset
<1>3. \A n \in 1..c : e[n] \in K /\ Rank(K, e[n]) = n
    BY <1>1, RankExists
<1>4. KeepAt(s, K) = [n \in 1..c |-> s[e[n]]] /\ e \in [1..c -> K]
    BY <1>3 DEF KeepAt
<1>5. ASSUME NEW n \in 1..c, NEW m \in 1..c, e[m] <= e[n]
      PROVE  m <= n
    <2> DEFINE x == e[m]
               y == e[n]
               U == {k \in K : k <= x}
               V == {k \in K : k <= y}
    <2>1. x \in Int /\ y \in Int /\ x <= y /\ \A k \in K : k \in Int
        BY <1>1, <1>3, <1>5
    <2>2. Cardinality(U) = m /\ Cardinality(V) = n
        BY <1>3 DEF Rank
    <2> HIDE DEF x, y
    <2>3. U \in SUBSET V /\ V \in SUBSET K
        BY <2>1
    <2>4. IsFiniteSet(V)
        BY <1>2, <2>3, FS_Subset
    <2>5. Cardinality(U) <= Cardinality(V)
        BY <2>3, <2>4, FS_Subset
    <2>. QED
        BY <2>2, <2>5
<1> HIDE DEF e, c
<1>6. DOMAIN KeepAt(s, K) = 1..c /\ \A n \in 1..c : KeepAt(s, K)[n] = s[e[n]]
    BY <1>4
<1>. QED
    BY <1>4, <1>5, <1>6

\* The elements KeepAt leaves are those at the positions K.
THEOREM KeepAtProperties ==
    ASSUME NEW S, NEW s \in Seq(S), NEW K \in SUBSET DOMAIN s
    PROVE  /\ KeepAt(s, K) \in Seq(S)
           /\ Range(KeepAt(s, K)) = {s[i] : i \in K}
<1>1. KeepAt(s, K) \in Seq(S)
    BY KeepAtOrigin
<1>2. PICK e \in [DOMAIN KeepAt(s, K) -> K] :
          /\ \A n \in DOMAIN KeepAt(s, K) : KeepAt(s, K)[n] = s[e[n]]
          /\ \A i \in K : \E n \in DOMAIN KeepAt(s, K) : e[n] = i
    BY KeepAtOrigin
<1>3. ASSUME NEW x \in Range(KeepAt(s, K))
      PROVE  x \in {s[i] : i \in K}
    BY <1>2, <1>3 DEF Range
<1>4. ASSUME NEW i \in K
      PROVE  s[i] \in Range(KeepAt(s, K))
    BY <1>2, <1>4 DEF Range
<1>. QED
    BY <1>1, <1>3, <1>4

\* KeepAt keeps distinct elements distinct.
THEOREM KeepAtInjective ==
    ASSUME NEW S, NEW s \in Seq(S), NEW K \in SUBSET DOMAIN s,
           \A i, j \in DOMAIN s : s[i] = s[j] => i = j
    PROVE  \A n, m \in DOMAIN KeepAt(s, K) :
               KeepAt(s, K)[n] = KeepAt(s, K)[m] => n = m
<1>1. PICK e \in [DOMAIN KeepAt(s, K) -> K] :
          /\ \A n \in DOMAIN KeepAt(s, K) : KeepAt(s, K)[n] = s[e[n]]
          /\ \A n, m \in DOMAIN KeepAt(s, K) : e[n] = e[m] => n = m
    BY KeepAtOrigin
<1>. QED
    BY <1>1

\* What appending, concatenating and taking the tail do to the elements.
LEMMA RangeOfTail ==
    ASSUME NEW S, NEW s \in Seq(S), s # <<>>
    PROVE  /\ Head(s) \in Range(s) /\ Tail(s) \in Seq(S)
           /\ Range(s) = Range(Tail(s)) \cup {Head(s)}
<1>1. /\ Head(s) = s[1] /\ Tail(s) \in Seq(S) /\ Len(s) \in Nat \ {0}
      /\ DOMAIN s = 1..Len(s) /\ DOMAIN Tail(s) = 1..(Len(s) - 1)
      /\ \A i \in 1..(Len(s) - 1) : Tail(s)[i] = s[i + 1]
    OBVIOUS
<1>2. \A i \in 1..Len(s) : i = 1 \/ (i - 1 \in 1..(Len(s) - 1) /\ s[i] = Tail(s)[i - 1])
    BY <1>1
<1>3. ASSUME NEW x \in Range(s) PROVE x \in Range(Tail(s)) \cup {Head(s)}
    <2>1. PICK i \in 1..Len(s) : x = s[i]
        BY <1>1, <1>3 DEF Range
    <2>2. CASE i = 1
        BY <1>1, <2>1, <2>2
    <2>3. CASE i # 1
        <3>1. i - 1 \in DOMAIN Tail(s) /\ x = Tail(s)[i - 1]
            BY <1>1, <1>2, <2>1, <2>3
        <3>. QED
            BY <3>1 DEF Range
    <2>. QED
        BY <2>2, <2>3
<1>4. ASSUME NEW x \in Range(Tail(s)) PROVE x \in Range(s)
    <2>1. PICK i \in 1..(Len(s) - 1) : x = Tail(s)[i]
        BY <1>1, <1>4 DEF Range
    <2>2. i + 1 \in 1..Len(s) /\ x = s[i + 1]
        BY <1>1, <2>1
    <2>. QED
        BY <1>1, <2>2 DEF Range
<1>5. Head(s) \in Range(s)
    BY <1>1 DEF Range
<1>. QED
    BY <1>1, <1>3, <1>4, <1>5

LEMMA RangeOfAppend ==
    ASSUME NEW S, NEW s \in Seq(S), NEW x \in S
    PROVE  Append(s, x) \in Seq(S) /\ Range(Append(s, x)) = Range(s) \cup {x}
<1>1. /\ Append(s, x) \in Seq(S) /\ Len(s) \in Nat /\ DOMAIN s = 1..Len(s)
      /\ DOMAIN Append(s, x) = 1..(Len(s) + 1)
      /\ \A i \in 1..Len(s) : Append(s, x)[i] = s[i]
      /\ Append(s, x)[Len(s) + 1] = x
    OBVIOUS
<1>2. ASSUME NEW y \in Range(Append(s, x)) PROVE y \in Range(s) \cup {x}
    <2>1. PICK i \in 1..(Len(s) + 1) : y = Append(s, x)[i]
        BY <1>1, <1>2 DEF Range
    <2>2. i \in 1..Len(s) \/ i = Len(s) + 1
        BY <1>1
    <2>. QED
        BY <1>1, <2>1, <2>2 DEF Range
<1>3. x \in Range(Append(s, x))
    BY <1>1 DEF Range
<1>4. ASSUME NEW y \in Range(s) PROVE y \in Range(Append(s, x))
    <2>1. PICK i \in 1..Len(s) : y = s[i]
        BY <1>1, <1>4 DEF Range
    <2>2. i \in 1..(Len(s) + 1)
        BY <1>1
    <2>. QED
        BY <1>1, <2>1, <2>2 DEF Range
<1>. QED
    BY <1>1, <1>2, <1>3, <1>4

LEMMA RangeOfConcat ==
    ASSUME NEW S, NEW s \in Seq(S), NEW t \in Seq(S)
    PROVE  s \o t \in Seq(S) /\ Range(s \o t) = Range(s) \cup Range(t)
    BY RangeConcatenation, ConcatProperties

\* Sequences of one and of two elements.
LEMMA ShortSequences ==
    ASSUME NEW S, NEW x \in S, NEW y \in S
    PROVE  /\ <<>> \o <<y>> \in Seq(S) /\ DOMAIN (<<>> \o <<y>>) = {1}
           /\ (<<>> \o <<y>>)[1] = y
           /\ <<x>> \o <<y>> \in Seq(S) /\ DOMAIN (<<x>> \o <<y>>) = {1, 2}
           /\ (<<x>> \o <<y>>)[1] = x /\ (<<x>> \o <<y>>)[2] = y
<1>1. /\ <<>> \in Seq(S) /\ <<x>> \in Seq(S) /\ <<y>> \in Seq(S)
      /\ Len(<<>>) = 0 /\ Len(<<x>>) = 1 /\ Len(<<y>>) = 1
      /\ <<x>>[1] = x /\ <<y>>[1] = y
    OBVIOUS
<1>2. /\ <<>> \o <<y>> \in Seq(S) /\ Len(<<>> \o <<y>>) = 1
      /\ (<<>> \o <<y>>)[1] = y
    BY <1>1
<1>3. /\ <<x>> \o <<y>> \in Seq(S) /\ Len(<<x>> \o <<y>>) = 2
      /\ (<<x>> \o <<y>>)[1] = x /\ (<<x>> \o <<y>>)[2] = y
    BY <1>1
<1>4. 1..1 = {1} /\ 1..2 = {1, 2}
    OBVIOUS
<1>. QED
    BY <1>2, <1>3, <1>4, LenProperties

-----------------------------------------------------------------------------
(* Sequences of records with an id, in which a record of E is the last one *)
(* of S with its id, and does not have an id of F.                         *)

LastOfId(q, E, S, F) ==
    \A i \in DOMAIN q : q[i] \in E =>
        /\ q[i].id \notin F
        /\ \A j \in DOMAIN q : q[j] \in S /\ q[j].id = q[i].id => j <= i

\* Records that are erased, wherever they are, leave the others in their order.
LEMMA LastKept ==
    ASSUME NEW R, NEW q \in Seq(R), NEW K \in SUBSET DOMAIN q, NEW E, NEW S, NEW F,
           LastOfId(q, E, S, F)
    PROVE  KeepAt(q, K) \in Seq(R) /\ LastOfId(KeepAt(q, K), E, S, F)
<1> DEFINE k == KeepAt(q, K)
<1>1. k \in Seq(R)
    BY KeepAtOrigin
<1>2. PICK e \in [DOMAIN k -> K] :
          /\ \A n \in DOMAIN k : k[n] = q[e[n]]
          /\ \A n, m \in DOMAIN k : e[m] <= e[n] => m <= n
    BY KeepAtOrdered
<1> HIDE DEF k
<1>3. ASSUME NEW n \in DOMAIN k, k[n] \in E
      PROVE  /\ k[n].id \notin F
             /\ \A m \in DOMAIN k : k[m] \in S /\ k[m].id = k[n].id => m <= n
    <2>1. e[n] \in DOMAIN q /\ q[e[n]] \in E /\ q[e[n]] = k[n]
        BY <1>2, <1>3
    <2>2. k[n].id \notin F
        BY <2>1 DEF LastOfId
    <2>3. ASSUME NEW m \in DOMAIN k, k[m] \in S, k[m].id = k[n].id
          PROVE  m <= n
        <3>1. e[m] \in DOMAIN q /\ q[e[m]] \in S /\ q[e[m]].id = q[e[n]].id
            BY <1>2, <2>1, <2>3
        <3>2. e[m] <= e[n]
            BY <2>1, <3>1 DEF LastOfId
        <3>. QED
            BY <1>2, <3>2
    <2>. QED
        BY <2>2, <2>3
<1>4. LastOfId(k, E, S, F)
    BY <1>3 DEF LastOfId
<1>. QED
    BY <1>1, <1>4 DEF k

\* Records r with ids of F may be appended, as long as r ends all that leave F.
LEMMA LastAppended ==
    ASSUME NEW R, NEW q \in Seq(R), NEW r \in Seq(R), NEW E, NEW S, NEW F, NEW G,
           LastOfId(q, E, S, F), LastOfId(r, E, S, G), G \subseteq F,
           \A j \in DOMAIN r : r[j] \in S => r[j].id \in F
    PROVE  q \o r \in Seq(R) /\ LastOfId(q \o r, E, S, G)
<1> DEFINE s == q \o r
           n == Len(q)
<1>1. /\ s \in Seq(R) /\ n \in Nat /\ Len(r) \in Nat
      /\ DOMAIN s = 1..(n + Len(r)) /\ DOMAIN q = 1..n /\ DOMAIN r = 1..Len(r)
      /\ \A i \in 1..n : s[i] = q[i]
      /\ \A i \in 1..Len(r) : s[n + i] = r[i]
    BY ConcatProperties, LenProperties
<1> HIDE DEF s, n
<1>2. \A i \in DOMAIN s : \/ i \in DOMAIN q /\ s[i] = q[i]
                          \/ i - n \in DOMAIN r /\ s[i] = r[i - n] /\ n < i
    <2> TAKE i \in DOMAIN s
    <2>1. i \in 1..n \/ (i - n \in 1..Len(r) /\ n < i /\ n + (i - n) = i)
        BY <1>1
    <2>. QED
        BY <1>1, <2>1
<1>3. ASSUME NEW i \in DOMAIN s, s[i] \in E
      PROVE  s[i].id \notin G /\ \A j \in DOMAIN s : s[j] \in S /\ s[j].id = s[i].id => j <= i
    <2>1. CASE i \in DOMAIN q /\ s[i] = q[i]
        <3>1. q[i].id \notin F
            BY <1>3, <2>1 DEF LastOfId
        <3>2. ASSUME NEW j \in DOMAIN s, s[j] \in S, s[j].id = s[i].id
              PROVE  j <= i
            <4>1. j \in DOMAIN q /\ s[j] = q[j]
                BY <1>2, <2>1, <3>1, <3>2
            <4>. QED
                BY <1>3, <2>1, <3>2, <4>1 DEF LastOfId
        <3>. QED
            BY <2>1, <3>1, <3>2
    <2>2. CASE i - n \in DOMAIN r /\ s[i] = r[i - n] /\ n < i
        <3>1. r[i - n].id \notin G
            BY <1>3, <2>2 DEF LastOfId
        <3>2. ASSUME NEW j \in DOMAIN s, s[j] \in S, s[j].id = s[i].id
              PROVE  j <= i
            <4>1. CASE j \in DOMAIN q
                BY <1>1, <2>2, <4>1
            <4>2. CASE j - n \in DOMAIN r /\ s[j] = r[j - n]
                <5>1. j - n <= i - n
                    BY <1>3, <2>2, <3>2, <4>2 DEF LastOfId
                <5>. QED
                    BY <1>1, <5>1
            <4>. QED
                BY <1>2, <3>2, <4>1, <4>2
        <3>. QED
            BY <2>2, <3>1, <3>2
    <2>. QED
        BY <1>2, <2>1, <2>2
<1>4. LastOfId(s, E, S, G)
    BY <1>3 DEF LastOfId
<1>. QED
    BY <1>1, <1>4 DEF s
=============================================================================
