----------------------------- MODULE NumberLemmas -----------------------------
(***************************************************************************)
(* Facts about sets of numbers and about sequences that several proofs     *)
(* use.                                                                    *)
(***************************************************************************)
EXTENDS Counting, SequencesExt, SequenceTheorems, FiniteSetTheorems, WellFoundedInduction,
        TLAPS

LEMMA LeastExists ==
  ASSUME NEW T, T \subseteq Nat, T # {}
  PROVE  \E n \in T : \A m \in T : n <= m
  <1> DEFINE less == {ss \in Nat \X Nat : ss[1] < ss[2]}
  <1>1. IsWellFoundedOn(less, Nat)
    BY NatLessThanWellFounded DEF OpToRel
  <1>2. PICK n \in T : \A m \in T : <<m, n>> \notin less
    <2> HIDE DEF less
    <2> QED
      BY <1>1, WFMin
  <1>3. ASSUME NEW m \in T PROVE n <= m
    <2>1. m \in Nat /\ n \in Nat /\ <<m, n>> \notin less
      BY <1>2
    <2> QED
      BY <2>1
  <1> QED
    BY <1>3

\* How many members of S there are up to n.
LEMMA CountUpTo ==
  ASSUME NEW n \in Nat, NEW S \in SUBSET (1..n)
  PROVE  /\ IsFiniteSet(S) /\ Cardinality(S) \in Nat
         /\ \A i : /\ IsFiniteSet({j \in S : j <= i})
                   /\ Cardinality({j \in S : j <= i}) \in Nat
                   /\ Cardinality({j \in S : j <= i}) <= Cardinality(S)
  <1>1. IsFiniteSet(S)
    <2>1. IsFiniteSet(1..n)
      BY FS_Interval
    <2> QED
      BY <2>1, FS_Subset
  <1>2. ASSUME NEW i
        PROVE  /\ IsFiniteSet({j \in S : j <= i})
               /\ Cardinality({j \in S : j <= i}) \in Nat
               /\ Cardinality({j \in S : j <= i}) <= Cardinality(S)
    <2>1. {j \in S : j <= i} \in SUBSET S
      OBVIOUS
    <2> QED
      BY <1>1, <2>1, FS_Subset, FS_CardinalityType
  <1> QED
    BY <1>1, <1>2, FS_CardinalityType

\* Every count up to the size of S is reached, and at a member of S.
LEMMA CountReached ==
  ASSUME NEW n \in Nat, NEW S \in SUBSET (1..n), NEW k \in 1..Cardinality(S)
  PROVE  \E i \in S : Cardinality({j \in S : j <= i}) = k
  <1> DEFINE C(i) == Cardinality({j \in S : j <= i})
             T == {i \in 0..n : C(i) >= k}
  <1>0. \A j \in S : j \in Int /\ 1 <= j /\ j <= n
    OBVIOUS
  <1>1. Cardinality(S) \in Nat /\ k \in Nat /\ k >= 1 /\ k <= Cardinality(S) /\ \A i : C(i) \in Nat
    <2>1. Cardinality(S) \in Nat /\ \A i : C(i) \in Nat
      BY CountUpTo
    <2> HIDE DEF C
    <2> QED
      BY <2>1
  <1>2. n \in T
    <2>1. {j \in S : j <= n} = S
      BY <1>0
    <2>2. C(n) = Cardinality(S)
      BY <2>1
    <2> HIDE DEF C
    <2> QED
      BY <1>1, <2>2
  <1>3. PICK m \in T : \A i \in T : m <= i
    <2> HIDE DEF C
    <2>1. T \subseteq Nat
      OBVIOUS
    <2> HIDE DEF T
    <2>2. T # {}
      BY <1>2
    <2> QED
      BY <2>1, <2>2, LeastExists
  <1>4. m \in 0..n /\ C(m) >= k
    BY <1>3
  <1>5. m # 0
    <2>1. {j \in S : j <= 0} = {}
      <3>1. \A j \in S : ~(j <= 0)
        BY <1>0
      <3> QED
        BY <3>1
    <2>2. C(0) = 0
      BY <2>1, FS_EmptySet
    <2> HIDE DEF C
    <2> QED
      BY <1>1, <1>4, <2>2
  <1>6. m - 1 \in 0..n /\ m - 1 < m
    BY <1>4, <1>5
  <1>7. C(m - 1) < k
    <2>1. m - 1 \notin T
      <3> HIDE DEF T
      <3> QED
        BY <1>3, <1>4, <1>6
    <2> HIDE DEF C
    <2> QED
      BY <1>1, <1>6, <2>1
  <1>8. m \in S
    <2> SUFFICES ASSUME m \notin S PROVE FALSE
      OBVIOUS
    <2>1. \A j \in S : j <= m <=> j <= m - 1
      BY <1>0, <1>4
    <2>2. {j \in S : j <= m} = {j \in S : j <= m - 1}
      BY <2>1
    <2>3. C(m) = C(m - 1)
      BY <2>2
    <2> HIDE DEF C
    <2> QED
      BY <1>1, <1>4, <1>7, <2>3
  <1>9. C(m) = C(m - 1) + 1
    <2>0. (\A j \in S : j <= m <=> j <= m - 1 \/ j = m) /\ ~(m <= m - 1)
      BY <1>0, <1>4
    <2>1. {j \in S : j <= m} = {j \in S : j <= m - 1} \cup {m} /\ m \notin {j \in S : j <= m - 1}
      BY <1>4, <1>8, <2>0
    <2>2. IsFiniteSet({j \in S : j <= m - 1})
      BY CountUpTo
    <2> QED
      BY <2>1, <2>2, FS_AddElement
  <1>10. C(m) = k
    <2> HIDE DEF C
    <2> QED
      BY <1>1, <1>4, <1>7, <1>9
  <1> QED
    BY <1>8, <1>10

\* Members of S with equal counts are equal.
LEMMA CountIdentifies ==
  ASSUME NEW n \in Nat, NEW S \in SUBSET (1..n), NEW i \in S, NEW j \in S,
         Cardinality({a \in S : a <= i}) = Cardinality({a \in S : a <= j})
  PROVE  i = j
  <1>1. ASSUME NEW x \in S, NEW y \in S, x < y,
               Cardinality({a \in S : a <= x}) = Cardinality({a \in S : a <= y})
        PROVE  FALSE
    <2>1. {a \in S : a <= x} \in SUBSET {a \in S : a <= y}
      <3>1. \A a \in S : a <= x => a <= y
        BY <1>1
      <3> QED
        BY <3>1
    <2>2. IsFiniteSet({a \in S : a <= y})
      BY CountUpTo
    <2>3. {a \in S : a <= x} = {a \in S : a <= y}
      BY <1>1, <2>1, <2>2, FS_Subset
    <2>4. y \in {a \in S : a <= x}
      BY <2>3
    <2> QED
      BY <1>1, <2>4
  <1>2. i \in 1..n /\ j \in 1..n
    OBVIOUS
  <1>3. i < j \/ j < i \/ i = j
    BY <1>2
  <1> QED
    BY <1>1, <1>3

\* A member of S is counted itself.
LEMMA CountIsPositive ==
  ASSUME NEW n \in Nat, NEW S \in SUBSET (1..n), NEW i \in S
  PROVE  Cardinality({j \in S : j <= i}) \in 1..Cardinality(S)
  <1>1. i \in {j \in S : j <= i}
    OBVIOUS
  <1>2. /\ IsFiniteSet({j \in S : j <= i}) /\ Cardinality({j \in S : j <= i}) \in Nat
        /\ Cardinality({j \in S : j <= i}) <= Cardinality(S) /\ Cardinality(S) \in Nat
    BY CountUpTo
  <1>3. Cardinality({j \in S : j <= i}) # 0
    BY <1>1, <1>2, FS_EmptySet
  <1> QED
    BY <1>2, <1>3

\* The k-th member of S is one, and stands at place k.
LEMMA NthIsMember ==
  ASSUME NEW n \in Nat, NEW S \in SUBSET (1..n), NEW k \in 1..Cardinality(S)
  PROVE  Nth(S, k) \in S /\ UpTo(S, Nth(S, k)) = k
  <1>1. \E i \in S : UpTo(S, i) = k
    BY CountReached DEF UpTo
  <1> QED
    BY <1>1 DEF Nth

\* The member at the place of i is i.
LEMMA NthOfPosition ==
  ASSUME NEW n \in Nat, NEW S \in SUBSET (1..n), NEW i \in S
  PROVE  UpTo(S, i) \in 1..Cardinality(S) /\ Nth(S, UpTo(S, i)) = i
  <1>1. UpTo(S, i) \in 1..Cardinality(S)
    BY CountIsPositive DEF UpTo
  <1>2. Nth(S, UpTo(S, i)) \in S /\ UpTo(S, Nth(S, UpTo(S, i))) = UpTo(S, i)
    <2>1. PICK k : k = UpTo(S, i)
      OBVIOUS
    <2>2. k \in 1..Cardinality(S)
      BY <1>1, <2>1
    <2>3. Nth(S, k) \in S /\ UpTo(S, Nth(S, k)) = k
      BY <2>2, NthIsMember
    <2> QED
      BY <2>1, <2>3
  <1>3. PICK j : j = Nth(S, UpTo(S, i))
    OBVIOUS
  <1>4. j \in S /\ UpTo(S, j) = UpTo(S, i)
    BY <1>2, <1>3
  <1>5. Cardinality({a \in S : a <= j}) = Cardinality({a \in S : a <= i})
    BY <1>4 DEF UpTo
  <1>6. j = i
    BY <1>4, <1>5, CountIdentifies
  <1> QED
    BY <1>1, <1>3, <1>6

\* A member beyond all others comes last and leaves their places alone.
LEMMA NthOfGrown ==
  ASSUME NEW n \in Nat, NEW S \in SUBSET (1..n)
  PROVE  LET T == S \cup {n + 1}
         IN /\ Cardinality(T) = Cardinality(S) + 1
            /\ \A k \in 1..Cardinality(S) : Nth(T, k) = Nth(S, k)
            /\ Nth(T, Cardinality(T)) = n + 1
  <1> DEFINE T == S \cup {n + 1}
  <1>1. /\ \A i \in S : i \in Nat /\ 1 <= i /\ i <= n
        /\ n + 1 \in Nat /\ n + 1 \notin S
        /\ T \in SUBSET (1..(n + 1))
    OBVIOUS
  <1>2. IsFiniteSet(S) /\ Cardinality(S) \in Nat
    BY CountUpTo
  <1>3. Cardinality(T) = Cardinality(S) + 1
    BY <1>1, <1>2, FS_AddElement
  <1>4. ASSUME NEW i \in S PROVE UpTo(T, i) = UpTo(S, i)
    <2>1. {j \in T : j <= i} = {j \in S : j <= i}
      BY <1>1
    <2> QED
      BY <2>1 DEF UpTo
  <1>5. UpTo(T, n + 1) = Cardinality(T)
    <2>1. \A j \in T : j <= n + 1
      BY <1>1
    <2>2. {j \in T : j <= n + 1} = T
      BY <2>1
    <2> QED
      BY <2>2 DEF UpTo
  <1> HIDE DEF T
  <1>6. ASSUME NEW k \in 1..Cardinality(S) PROVE Nth(T, k) = Nth(S, k)
    <2> DEFINE i == Nth(S, k)
    <2>1. i \in S /\ UpTo(S, i) = k
      BY NthIsMember
    <2> HIDE DEF i
    <2>2. i \in T /\ UpTo(T, i) = k
      BY <1>4, <2>1 DEF T
    <2>3. Nth(T, k) = i
      BY <1>1, <2>2, NthOfPosition
    <2> QED
      BY <2>3 DEF i
  <1>7. Nth(T, Cardinality(T)) = n + 1
    <2>1. n + 1 \in T
      BY DEF T
    <2> QED
      BY <1>1, <1>5, <2>1, NthOfPosition
  <1> QED
    BY <1>3, <1>6, <1>7 DEF T

-----------------------------------------------------------------------------
(* Concatenation: Joined(s, n) are the first n sequences of s in one.       *)

LEMMA FlatIsDefined ==
  ASSUME NEW s, Len(s) \in Nat
  PROVE  \A i \in 1..Len(s) : Flat(s)[i] = IF i = 1 THEN s[i] ELSE Flat(s)[i-1] \o s[i]
  <1> DEFINE Body(f, n) == [i \in 1..n |-> IF i = 1 THEN s[i] ELSE f[i-1] \o s[i]]
             T == {n \in Nat : ~\E f : f = Body(f, n)}
  <1>1. T = {}
    <2> SUFFICES ASSUME T # {} PROVE FALSE
      OBVIOUS
    <2>1. PICK n \in T : \A m \in T : n <= m
      <3>1. T \subseteq Nat
        OBVIOUS
      <3> HIDE DEF T
      <3> QED
        BY <3>1, LeastExists
    <2>2. n # 0
      <3>1. Body(<<>>, 0) = Body(Body(<<>>, 0), 0)
        OBVIOUS
      <3> QED
        BY <3>1
    <2>3. n - 1 \in Nat /\ n - 1 \notin T
      <3> HIDE DEF T
      <3>1. n \in Nat
        BY DEF T
      <3> QED
        BY <2>1, <2>2, <3>1
    <2>4. PICK f : f = Body(f, n - 1)
      BY <2>3
    <2> DEFINE g == Body(f, n)
    <2>5. ASSUME NEW i \in 1..(n - 1) PROVE g[i] = f[i]
      <3>1. f[i] = IF i = 1 THEN s[i] ELSE f[i-1] \o s[i]
        BY <2>4
      <3>2. i \in 1..n
        BY <2>3
      <3> QED
        BY <3>1, <3>2
    <2>6. g = Body(g, n)
      <3>1. \A i \in 1..n : i # 1 => i - 1 \in 1..(n - 1)
        BY <2>3
      <3>2. \A i \in 1..n : i # 1 => g[i-1] = f[i-1]
        <4> HIDE DEF g
        <4> QED
          BY <2>5, <3>1
      <3> QED
        BY <3>2
    <2> QED
      BY <2>6
  <1>2. \E f : f = Body(f, Len(s))
    BY <1>1
  <1>3. Flat(s) = Body(Flat(s), Len(s))
    BY <1>2 DEF Flat
  <1> QED
    BY <1>3

LEMMA FlattenIsJoined ==
  ASSUME NEW E, NEW s \in Seq(Seq(E))
  PROVE  FlattenSeq(s) = Joined(s, Len(s))
  BY DEF FlattenSeq, Joined, Flat

LEMMA JoinedGrows ==
  ASSUME NEW E, NEW s \in Seq(Seq(E)), NEW n \in 0..(Len(s) - 1), Joined(s, n) \in Seq(E)
  PROVE  Joined(s, n + 1) = Joined(s, n) \o s[n + 1] /\ Joined(s, n + 1) \in Seq(E)
  <1>1. s[n + 1] \in Seq(E) /\ n + 1 \in 1..Len(s) /\ n + 1 # 0
    OBVIOUS
  <1>2. Flat(s)[n + 1] = IF n + 1 = 1 THEN s[n + 1] ELSE Flat(s)[n + 1 - 1] \o s[n + 1]
    BY <1>1, FlatIsDefined
  <1>3. Flat(s)[n + 1] = IF n + 1 = 1 THEN s[n + 1] ELSE Flat(s)[n] \o s[n + 1]
    <2>1. n + 1 - 1 = n
      OBVIOUS
    <2> QED
      BY <1>2, <2>1
  <1>4. CASE n = 0
    BY <1>1, <1>3, <1>4 DEF Joined
  <1>5. CASE n # 0
    <2>1. n + 1 # 1 /\ n + 1 # 0
      BY <1>5
    <2>2. Joined(s, n + 1) = Joined(s, n) \o s[n + 1]
      BY <1>3, <1>5, <2>1 DEF Joined
    <2> QED
      BY <1>1, <2>2, ConcatProperties
  <1> QED
    BY <1>4, <1>5

LEMMA JoinedIsSequence ==
  ASSUME NEW E, NEW s \in Seq(Seq(E)), NEW n \in 0..Len(s)
  PROVE  Joined(s, n) \in Seq(E)
  <1> DEFINE T == {m \in Nat : m <= Len(s) /\ Joined(s, m) \notin Seq(E)}
  <1>1. T = {}
    <2> SUFFICES ASSUME T # {} PROVE FALSE
      OBVIOUS
    <2>1. PICK m \in T : \A k \in T : m <= k
      <3>1. T \subseteq Nat
        OBVIOUS
      <3> HIDE DEF T
      <3> QED
        BY <3>1, LeastExists
    <2>2. m # 0
      BY DEF Joined
    <2>3. m - 1 \in 0..(Len(s) - 1) /\ m - 1 \notin T
      BY <2>1, <2>2
    <2>4. Joined(s, m - 1) \in Seq(E)
      BY <2>3
    <2>5. Joined(s, m - 1 + 1) \in Seq(E)
      BY <2>3, <2>4, JoinedGrows
    <2> QED
      BY <2>5
  <1> QED
    BY <1>1

\* The concatenation has the elements of its parts.
LEMMA FlattenedElements ==
  ASSUME NEW E, NEW s \in Seq(Seq(E))
  PROVE  /\ FlattenSeq(s) \in Seq(E)
         /\ ToSet(FlattenSeq(s)) = UNION {ToSet(s[i]) : i \in DOMAIN s}
  <1> DEFINE Parts(n) == UNION {ToSet(s[i]) : i \in 1..n}
             T == {n \in Nat : n <= Len(s) /\ ToSet(Joined(s, n)) # Parts(n)}
  <1>1. T = {}
    <2> SUFFICES ASSUME T # {} PROVE FALSE
      OBVIOUS
    <2>1. PICK n \in T : \A m \in T : n <= m
      <3>1. T \subseteq Nat
        OBVIOUS
      <3> HIDE DEF T
      <3> QED
        BY <3>1, LeastExists
    <2>2. n \in Nat /\ n <= Len(s) /\ ToSet(Joined(s, n)) # Parts(n)
      BY <2>1
    <2>3. n # 0
      <3>1. ToSet(Joined(s, 0)) = {} /\ Parts(0) = {}
        BY DEF Joined, ToSet
      <3> QED
        BY <2>2, <3>1
    <2>4. n - 1 \in 0..(Len(s) - 1) /\ n - 1 \notin T /\ n - 1 + 1 = n /\ n \in 1..Len(s)
      <3> HIDE DEF T
      <3>1. Len(s) \in Nat /\ n \in Nat /\ n <= Len(s)
        BY <2>2
      <3> QED
        BY <2>1, <2>3, <3>1
    <2> HIDE DEF T
    <2>5. ToSet(Joined(s, n - 1)) = Parts(n - 1)
      <3>1. PICK k : k = n - 1
        OBVIOUS
      <3>2. k \in Nat /\ k <= Len(s) /\ k \notin T
        BY <2>2, <2>4, <3>1
      <3> HIDE DEF Parts
      <3>3. ToSet(Joined(s, k)) = Parts(k)
        BY <3>2 DEF T
      <3> QED
        BY <3>1, <3>3
    <2>6. /\ Joined(s, n) = Joined(s, n - 1) \o s[n]
          /\ Joined(s, n - 1) \in Seq(E) /\ s[n] \in Seq(E)
      <3>1. Joined(s, n - 1) \in Seq(E)
        BY <2>4, JoinedIsSequence
      <3>2. Joined(s, n - 1 + 1) = Joined(s, n - 1) \o s[n - 1 + 1]
        BY <2>4, <3>1, JoinedGrows
      <3>3. s[n] \in Seq(E)
        BY <2>4
      <3>4. n - 1 + 1 = n
        BY <2>4
      <3>5. Joined(s, n) = Joined(s, n - 1) \o s[n]
        BY <3>2, <3>4
      <3> QED
        BY <3>1, <3>3, <3>5
    <2>7. ToSet(Joined(s, n)) = ToSet(Joined(s, n - 1)) \cup ToSet(s[n])
      <3> DEFINE a == Joined(s, n - 1)
                 b == s[n]
      <3>1. a \in Seq(E) /\ b \in Seq(E) /\ Joined(s, n) = a \o b
        BY <2>6
      <3> HIDE DEF a, b
      <3>2. /\ DOMAIN (a \o b) = 1..(Len(a) + Len(b)) /\ DOMAIN a = 1..Len(a) /\ DOMAIN b = 1..Len(b)
            /\ Len(a) \in Nat /\ Len(b) \in Nat
            /\ \A i \in 1..(Len(a) + Len(b)) :
                 (a \o b)[i] = IF i <= Len(a) THEN a[i] ELSE b[i - Len(a)]
        BY <3>1
      <3>3. \A i \in DOMAIN a : i \in DOMAIN (a \o b) /\ (a \o b)[i] = a[i]
        BY <3>2
      <3>4. \A i \in DOMAIN b : i + Len(a) \in DOMAIN (a \o b) /\ (a \o b)[i + Len(a)] = b[i]
        BY <3>2
      <3>5. \A i \in DOMAIN (a \o b) : \/ i \in DOMAIN a /\ (a \o b)[i] = a[i]
                                       \/ i - Len(a) \in DOMAIN b /\ (a \o b)[i] = b[i - Len(a)]
        BY <3>2
      <3>6. ASSUME NEW x \in ToSet(a \o b) PROVE x \in ToSet(a) \cup ToSet(b)
        <4>1. PICK i \in DOMAIN (a \o b) : x = (a \o b)[i]
          BY <3>6 DEF ToSet
        <4> QED
          BY <3>5, <4>1 DEF ToSet
      <3>7. ToSet(a) \subseteq ToSet(a \o b) /\ ToSet(b) \subseteq ToSet(a \o b)
        BY <3>3, <3>4 DEF ToSet
      <3> QED
        BY <3>1, <3>6, <3>7 DEF a, b
    <2>8. Parts(n) = Parts(n - 1) \cup ToSet(s[n])
      <3>1. 1..n = (1..(n - 1)) \cup {n}
        BY <2>2, <2>3
      <3> QED
        BY <3>1
    <2> QED
      BY <2>2, <2>5, <2>7, <2>8
  <1>2. Len(s) \in Nat /\ DOMAIN s = 1..Len(s)
    OBVIOUS
  <1>3. ToSet(Joined(s, Len(s))) = Parts(Len(s))
    BY <1>1, <1>2
  <1>4. FlattenSeq(s) = Joined(s, Len(s)) /\ Joined(s, Len(s)) \in Seq(E)
    BY <1>2, FlattenIsJoined, JoinedIsSequence
  <1> QED
    BY <1>2, <1>3, <1>4

-----------------------------------------------------------------------------
(* The members of a set in their order.                                    *)

LEMMA NthIsMonotone ==
  ASSUME NEW n \in Nat, NEW S \in SUBSET (1..n),
         NEW k \in 1..Cardinality(S), NEW l \in 1..Cardinality(S), k < l
  PROVE  Nth(S, k) < Nth(S, l)
  <1> DEFINE a == Nth(S, k)
             b == Nth(S, l)
  <1>1. a \in S /\ UpTo(S, a) = k /\ b \in S /\ UpTo(S, b) = l
    BY NthIsMember
  <1> HIDE DEF a, b
  <1>2. a \in 1..n /\ b \in 1..n
    BY <1>1
  <1>3. ASSUME b <= a PROVE FALSE
    <2>1. \A j \in S : j <= b => j <= a
      BY <1>2, <1>3
    <2>2. {j \in S : j <= b} \in SUBSET {j \in S : j <= a}
      BY <2>1
    <2>3. Cardinality({j \in S : j <= b}) <= Cardinality({j \in S : j <= a})
      BY <2>2, CountUpTo, FS_Subset
    <2>4. l <= k
      BY <1>1, <2>3 DEF UpTo
    <2>5. Cardinality(S) \in Nat
      BY CountUpTo
    <2> QED
      BY <2>4, <2>5
  <1> QED
    BY <1>2, <1>3 DEF a, b

-----------------------------------------------------------------------------
(* The least and the greatest member of a set.                             *)

LEMMA LeastIsMember ==
  ASSUME NEW S, S \subseteq Nat, S # {}
  PROVE  Min(S) \in S /\ \A y \in S : Min(S) <= y
  <1>1. \E x \in S : \A y \in S : x =< y
    BY LeastExists
  <1> QED
    BY <1>1 DEF Min

LEMMA GreatestIsMember ==
  ASSUME NEW n \in Nat, NEW S \in SUBSET (0..n), S # {}
  PROVE  Max(S) \in S /\ \A y \in S : y <= Max(S)
  <1> DEFINE T == {n - x : x \in S}
  <1>1. \A x \in S : x \in Nat /\ x <= n
    OBVIOUS
  <1>2. T \subseteq Nat /\ T # {}
    <2>1. \A x \in S : n - x \in Nat
      BY <1>1
    <2> QED
      BY <2>1
  <1>3. PICK d \in T : \A e \in T : d <= e
    <2> HIDE DEF T
    <2> QED
      BY <1>2, LeastExists
  <1>4. PICK x \in S : d = n - x
    OBVIOUS
  <1>5. \A y \in S : x >= y
    <2>1. \A y \in S : n - x <= n - y
      BY <1>3, <1>4
    <2> QED
      BY <1>1, <2>1
  <1>6. \E z \in S : \A y \in S : z >= y
    BY <1>5
  <1>7. Max(S) \in S /\ \A y \in S : Max(S) >= y
    BY <1>6 DEF Max
  <1> QED
    BY <1>1, <1>7

LEMMA GreaterOfTwo ==
  ASSUME NEW a \in Nat, NEW b \in Nat
  PROVE  Max({a, b}) = IF a >= b THEN a ELSE b
  <1>1. {a, b} \in SUBSET (0..(a + b)) /\ {a, b} # {}
    OBVIOUS
  <1>2. Max({a, b}) \in {a, b} /\ \A y \in {a, b} : y <= Max({a, b})
    BY <1>1, GreatestIsMember
  <1> QED
    BY <1>2

-----------------------------------------------------------------------------
\* One sequence behind the other, by a name: the provers expand \o wherever
\* they see it, and then no fact about it matches.
Cat(s, t) == s \o t

LEMMA CatIsThere ==
  ASSUME NEW E, NEW s \in Seq(E), NEW t \in Seq(E)
  PROVE  Cat(s, t) \in Seq(E) /\ Len(Cat(s, t)) = Len(s) + Len(t)
  BY ConcatProperties DEF Cat

LEMMA CatAssociates ==
  ASSUME NEW E, NEW s \in Seq(E), NEW t \in Seq(E), NEW u \in Seq(E)
  PROVE  Cat(Cat(s, t), u) = Cat(s, Cat(t, u))
  BY ConcatAssociative DEF Cat
=============================================================================
