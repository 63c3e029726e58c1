---------------------------- MODULE ArchiveProofs -----------------------------
(***************************************************************************)
(* Proof that the archive is the one the inputs determine, and that the    *)
(* payloads held stay within the cap, for any number of jobs, cap and      *)
(* interleaving.                                                           *)
(***************************************************************************)
EXTENDS PipelineProps, PipelineProofs, NumberLemmas

-----------------------------------------------------------------------------
(* The first-seen table of a sequence, and what one more element does.     *)

Firsts(s) == {k \in DOMAIN s : \A j \in 1..(k - 1) : s[j] # s[k]}
Times(s, h) == Cardinality({j \in DOMAIN s : s[j] = h})

LEMMA FirstsOf ==
  ASSUME NEW E, NEW s \in Seq(E)
  PROVE  /\ Len(s) \in Nat /\ DOMAIN s = 1..Len(s)
         /\ Firsts(s) \in SUBSET (1..Len(s))
         /\ IsFiniteSet(Firsts(s)) /\ Cardinality(Firsts(s)) \in Nat
         /\ \A h : IsFiniteSet({j \in DOMAIN s : s[j] = h}) /\ Times(s, h) \in Nat
  <1>1. Len(s) \in Nat /\ DOMAIN s = 1..Len(s)
    OBVIOUS
  <1>2. Firsts(s) \in SUBSET (1..Len(s))
    BY <1>1 DEF Firsts
  <1>3. ASSUME NEW h
        PROVE  IsFiniteSet({j \in DOMAIN s : s[j] = h}) /\ Times(s, h) \in Nat
    <2>1. {j \in DOMAIN s : s[j] = h} \in SUBSET (1..Len(s))
      BY <1>1
    <2> QED
      BY <1>1, <2>1, CountUpTo DEF Times
  <1> QED
    BY <1>1, <1>2, <1>3, CountUpTo

LEMMA TableOf ==
  ASSUME NEW E, NEW s \in Seq(E)
  PROVE  /\ DOMAIN FirstSeen(s) = 1..Cardinality(Firsts(s))
         /\ Len(FirstSeen(s)) = Cardinality(Firsts(s))
         /\ \A n \in 1..Cardinality(Firsts(s)) :
              /\ FirstSeen(s)[n] = [hash |-> s[Nth(Firsts(s), n)],
                                    refs |-> Times(s, s[Nth(Firsts(s), n)])]
              /\ FirstSeen(s)[n].hash = s[Nth(Firsts(s), n)]
  <1>1. FirstSeen(s) = [n \in 1..Cardinality(Firsts(s)) |->
                          [hash |-> s[Nth(Firsts(s), n)], refs |-> Times(s, s[Nth(Firsts(s), n)])]]
    BY DEF FirstSeen, Firsts, Times
  <1>2. Cardinality(Firsts(s)) \in Nat
    BY FirstsOf
  <1> QED
    BY <1>1, <1>2

\* Every element has a first occurrence, which has a row.
LEMMA EveryElementIsListed ==
  ASSUME NEW E, NEW s \in Seq(E), NEW j \in DOMAIN s
  PROVE  \E n \in DOMAIN FirstSeen(s) : FirstSeen(s)[n].hash = s[j]
  <1> DEFINE T == {k \in 1..Len(s) : s[k] = s[j]}
  <1>1. PICK k \in T : \A m \in T : k <= m
    <2>1. T \subseteq Nat /\ T # {}
      OBVIOUS
    <2> HIDE DEF T
    <2> QED
      BY <2>1, LeastExists
  <1>2. k \in Firsts(s) /\ s[k] = s[j]
    <2>1. \A m \in 1..(k - 1) : m \in 1..Len(s) /\ ~(k <= m)
      OBVIOUS
    <2>2. \A m \in 1..(k - 1) : s[m] # s[k]
      BY <1>1, <2>1
    <2> QED
      BY <2>2 DEF Firsts
  <1>3. UpTo(Firsts(s), k) \in 1..Cardinality(Firsts(s)) /\ Nth(Firsts(s), UpTo(Firsts(s), k)) = k
    BY <1>2, FirstsOf, NthOfPosition
  <1> DEFINE n == UpTo(Firsts(s), k)
  <1>4. n \in DOMAIN FirstSeen(s) /\ FirstSeen(s)[n].hash = s[Nth(Firsts(s), n)]
    BY <1>3, TableOf
  <1> HIDE DEF n
  <1> QED
    BY <1>2, <1>3, <1>4 DEF n

\* No element is listed twice.
LEMMA ListedOnce ==
  ASSUME NEW E, NEW s \in Seq(E), NEW m \in DOMAIN FirstSeen(s), NEW n \in DOMAIN FirstSeen(s),
         FirstSeen(s)[m].hash = FirstSeen(s)[n].hash
  PROVE  m = n
  <1> DEFINE a == Nth(Firsts(s), m)
             b == Nth(Firsts(s), n)
  <1>1. m \in 1..Cardinality(Firsts(s)) /\ n \in 1..Cardinality(Firsts(s))
    BY TableOf
  <1>2. a \in Firsts(s) /\ UpTo(Firsts(s), a) = m /\ b \in Firsts(s) /\ UpTo(Firsts(s), b) = n
    BY <1>1, FirstsOf, NthIsMember
  <1>3. s[a] = s[b]
    BY <1>1, TableOf
  <1> HIDE DEF a, b
  <1>4. a \in 1..Len(s) /\ b \in 1..Len(s)
    BY <1>2, FirstsOf
  <1>5. ~(a < b) /\ ~(b < a)
    BY <1>2, <1>3, <1>4 DEF Firsts
  <1> QED
    BY <1>2, <1>4, <1>5

LEMMA AppendedElements ==
  ASSUME NEW E, NEW s \in Seq(E), NEW h \in E
  PROVE  /\ Append(s, h) \in Seq(E) /\ Len(Append(s, h)) = Len(s) + 1
         /\ DOMAIN Append(s, h) = 1..(Len(s) + 1)
         /\ \A j \in 1..Len(s) : Append(s, h)[j] = s[j]
         /\ Append(s, h)[Len(s) + 1] = h
  OBVIOUS

LEMMA TimesGrows ==
  ASSUME NEW E, NEW s \in Seq(E), NEW h \in E, NEW x
  PROVE  Times(Append(s, h), x) = IF x = h THEN Times(s, x) + 1 ELSE Times(s, x)
  <1> DEFINE t == Append(s, h)
             At(u) == {j \in DOMAIN u : u[j] = x}
  <1>1. /\ DOMAIN t = 1..(Len(s) + 1) /\ Len(s) \in Nat /\ DOMAIN s = 1..Len(s)
        /\ \A j \in 1..Len(s) : t[j] = s[j]
        /\ t[Len(s) + 1] = h
    BY AppendedElements, FirstsOf
  <1>2. IsFiniteSet(At(s)) /\ Len(s) + 1 \notin At(s)
    <2>1. Len(s) + 1 \notin 1..Len(s)
      BY <1>1
    <2> QED
      BY <1>1, <2>1, FirstsOf
  <1>3. \A j \in 1..(Len(s) + 1) : j \in 1..Len(s) \/ j = Len(s) + 1
    BY <1>1
  <1> HIDE DEF t
  <1>4. CASE x = h
    <2>1. At(t) = At(s) \cup {Len(s) + 1}
      BY <1>1, <1>3, <1>4
    <2>2. Cardinality(At(t)) = Cardinality(At(s)) + 1
      <3> HIDE DEF At
      <3> QED
        BY <1>2, <2>1, FS_AddElement
    <2> QED
      BY <1>4, <2>2 DEF Times, t
  <1>5. CASE x # h
    <2>1. At(t) = At(s)
      BY <1>1, <1>3, <1>5
    <2> QED
      BY <1>5, <2>1 DEF Times, t
  <1> QED
    BY <1>4, <1>5

\* A new element gets a row of its own, at the end ...
LEMMA FirstSeenOfNew ==
  ASSUME NEW E, NEW s \in Seq(E), NEW h \in E, \A j \in DOMAIN s : s[j] # h
  PROVE  FirstSeen(Append(s, h)) = Append(FirstSeen(s), [hash |-> h, refs |-> 1])
  <1> DEFINE t == Append(s, h)
             F == Firsts(s)
             G == Firsts(t)
             c == Cardinality(F)
             u == Append(FirstSeen(s), [hash |-> h, refs |-> 1])
  <1>1. /\ t \in Seq(E) /\ Len(t) = Len(s) + 1 /\ DOMAIN t = 1..(Len(s) + 1)
        /\ Len(s) \in Nat /\ DOMAIN s = 1..Len(s)
        /\ \A j \in 1..Len(s) : t[j] = s[j]
        /\ t[Len(s) + 1] = h
        /\ F \in SUBSET (1..Len(s)) /\ c \in Nat
    BY AppendedElements, FirstsOf
  <1> HIDE DEF t
  <1>2. G = F \cup {Len(s) + 1}
    <2>1. ASSUME NEW k \in 1..Len(s) PROVE k \in G <=> k \in F
      <3>1. \A j \in 1..(k - 1) : j \in 1..Len(s)
        BY <1>1
      <3> QED
        BY <1>1, <3>1 DEF Firsts
    <2>2. Len(s) + 1 \in G
      <3>1. \A j \in 1..(Len(s) + 1 - 1) : j \in 1..Len(s)
        BY <1>1
      <3> QED
        BY <1>1, <3>1 DEF Firsts
    <2>3. G \subseteq 1..(Len(s) + 1)
      BY <1>1 DEF Firsts
    <2>4. \A j \in 1..(Len(s) + 1) : j \in 1..Len(s) \/ j = Len(s) + 1
      BY <1>1
    <2> HIDE DEF F, G
    <2> QED
      BY <1>1, <2>1, <2>2, <2>3, <2>4
  <1> HIDE DEF G
  <1>3. /\ Cardinality(G) = c + 1
        /\ \A k \in 1..c : Nth(G, k) = Nth(F, k)
        /\ Nth(G, c + 1) = Len(s) + 1
    <2> HIDE DEF F
    <2>1. LET T == F \cup {Len(s) + 1}
          IN /\ Cardinality(T) = Cardinality(F) + 1
             /\ \A k \in 1..Cardinality(F) : Nth(T, k) = Nth(F, k)
             /\ Nth(T, Cardinality(T)) = Len(s) + 1
      BY <1>1, NthOfGrown
    <2> QED
      BY <1>2, <2>1
  <1>4. /\ DOMAIN FirstSeen(t) = 1..(c + 1)
        /\ \A n \in 1..(c + 1) :
             FirstSeen(t)[n] = [hash |-> t[Nth(G, n)], refs |-> Times(t, t[Nth(G, n)])]
    BY <1>1, <1>3, TableOf DEF G
  <1>5. /\ Len(FirstSeen(s)) = c /\ DOMAIN FirstSeen(s) = 1..c
        /\ \A n \in 1..c : FirstSeen(s)[n] = [hash |-> s[Nth(F, n)], refs |-> Times(s, s[Nth(F, n)])]
    BY TableOf
  <1>6. FirstSeen(s) = [n \in 1..c |-> FirstSeen(s)[n]]
    BY DEF FirstSeen, Firsts
  <1>7. DOMAIN u = 1..(c + 1) /\ (\A n \in 1..c : u[n] = FirstSeen(s)[n]) /\ u[c + 1] = [hash |-> h, refs |-> 1]
    <2>1. FirstSeen(s) \in Seq({FirstSeen(s)[n] : n \in 1..c})
      <3> HIDE DEF F, c
      <3> QED
        BY <1>1, <1>6
    <2> HIDE DEF F, c
    <2> QED
      BY <1>5, <2>1
  <1>8. ASSUME NEW n \in 1..c PROVE FirstSeen(t)[n] = u[n]
    <2>1. Nth(F, n) \in F
      BY <1>1, NthIsMember
    <2>2. t[Nth(G, n)] = s[Nth(F, n)] /\ s[Nth(F, n)] # h
      <3> HIDE DEF F
      <3> QED
        BY <1>1, <1>3, <2>1
    <2>3. Times(t, s[Nth(F, n)]) = Times(s, s[Nth(F, n)])
      BY <2>2, TimesGrows DEF t
    <2>4. n \in 1..(c + 1)
      BY <1>1
    <2> HIDE DEF F, c, u
    <2> QED
      BY <1>4, <1>5, <1>7, <2>2, <2>3, <2>4
  <1>9. FirstSeen(t)[c + 1] = u[c + 1]
    <2>1. t[Nth(G, c + 1)] = h
      <3> HIDE DEF F
      <3> QED
        BY <1>1, <1>3
    <2>2. Times(t, h) = 1
      <3>1. {j \in DOMAIN s : s[j] = h} = {}
        OBVIOUS
      <3>2. Times(s, h) = 0
        BY <3>1, FS_EmptySet DEF Times
      <3> QED
        BY <3>2, TimesGrows DEF t
    <2>3. c + 1 \in 1..(c + 1)
      BY <1>1
    <2> HIDE DEF F, c, u
    <2> QED
      BY <1>4, <1>7, <2>1, <2>2, <2>3
  <1>10. FirstSeen(t) = u
    <2>1. FirstSeen(t) = [n \in 1..Cardinality(G) |-> FirstSeen(t)[n]]
      BY DEF FirstSeen, Firsts, G
    <2>2. u = [n \in 1..(c + 1) |-> u[n]]
      <3>1. FirstSeen(s) \in Seq({FirstSeen(s)[n] : n \in 1..c})
        <4> HIDE DEF F, c
        <4> QED
          BY <1>1, <1>6
      <3> HIDE DEF F, c
      <3> QED
        BY <1>5, <3>1
    <2>3. \A n \in 1..(c + 1) : n \in 1..c \/ n = c + 1
      BY <1>1
    <2> HIDE DEF u, F, c
    <2> QED
      BY <1>3, <1>8, <1>9, <2>1, <2>2, <2>3
  <1> QED
    BY <1>10 DEF t

\* ... a repeated one is counted at the row it has.
LEMMA FirstSeenOfRepeated ==
  ASSUME NEW E, NEW s \in Seq(E), NEW h \in E,
         NEW m \in DOMAIN FirstSeen(s), FirstSeen(s)[m].hash = h
  PROVE  FirstSeen(Append(s, h)) = [FirstSeen(s) EXCEPT ![m].refs = @ + 1]
  <1> DEFINE t == Append(s, h)
             F == Firsts(s)
             c == Cardinality(F)
             u == [FirstSeen(s) EXCEPT ![m].refs = @ + 1]
  <1>1. /\ t \in Seq(E) /\ Len(t) = Len(s) + 1 /\ DOMAIN t = 1..(Len(s) + 1)
        /\ Len(s) \in Nat /\ DOMAIN s = 1..Len(s)
        /\ \A j \in 1..Len(s) : t[j] = s[j]
        /\ t[Len(s) + 1] = h
        /\ F \in SUBSET (1..Len(s)) /\ c \in Nat
    BY AppendedElements, FirstsOf
  <1>2. /\ DOMAIN FirstSeen(s) = 1..c
        /\ \A n \in 1..c : /\ FirstSeen(s)[n] = [hash |-> s[Nth(F, n)], refs |-> Times(s, s[Nth(F, n)])]
                           /\ FirstSeen(s)[n].hash = s[Nth(F, n)]
    BY TableOf
  <1> HIDE DEF t
  <1>3. \E j \in 1..Len(s) : s[j] = h
    <2>1. m \in 1..c /\ s[Nth(F, m)] = h
      <3> HIDE DEF F
      <3> QED
        BY <1>2
    <2>2. Nth(F, m) \in F
      BY <1>1, <2>1, NthIsMember
    <2> HIDE DEF F
    <2> QED
      BY <1>1, <2>1, <2>2
  <1>4. Firsts(t) = F
    <2>1. ASSUME NEW k \in 1..Len(s) PROVE k \in Firsts(t) <=> k \in F
      <3>1. \A j \in 1..(k - 1) : j \in 1..Len(s)
        BY <1>1
      <3> QED
        BY <1>1, <3>1 DEF Firsts
    <2>2. Len(s) + 1 \notin Firsts(t)
      <3>1. PICK j \in 1..Len(s) : s[j] = h
        BY <1>3
      <3>2. j \in 1..(Len(s) + 1 - 1) /\ t[j] = t[Len(s) + 1]
        BY <1>1, <3>1
      <3> QED
        BY <3>2 DEF Firsts
    <2>3. Firsts(t) \subseteq 1..(Len(s) + 1)
      BY <1>1 DEF Firsts
    <2>4. \A j \in 1..(Len(s) + 1) : j \in 1..Len(s) \/ j = Len(s) + 1
      BY <1>1
    <2> HIDE DEF F
    <2> QED
      BY <1>1, <2>1, <2>2, <2>3, <2>4
  <1>5. /\ DOMAIN FirstSeen(t) = 1..c
        /\ \A n \in 1..c : FirstSeen(t)[n] = [hash |-> t[Nth(F, n)], refs |-> Times(t, t[Nth(F, n)])]
    BY <1>1, <1>4, TableOf
  <1>6. ASSUME NEW n \in 1..c PROVE FirstSeen(t)[n] = u[n]
    <2>1. Nth(F, n) \in F
      BY <1>1, NthIsMember
    <2>2. t[Nth(F, n)] = s[Nth(F, n)]
      <3> HIDE DEF F
      <3> QED
        BY <1>1, <2>1
    <2>3. s[Nth(F, n)] = h <=> n = m
      <3>1. s[Nth(F, n)] = FirstSeen(s)[n].hash /\ n \in DOMAIN FirstSeen(s)
        <4> HIDE DEF F
        <4> QED
          BY <1>2
      <3> QED
        BY <3>1, ListedOnce
    <2>4. Times(t, s[Nth(F, n)]) = IF n = m THEN Times(s, s[Nth(F, n)]) + 1 ELSE Times(s, s[Nth(F, n)])
      BY <2>3, TimesGrows DEF t
    <2> HIDE DEF F, c
    <2> QED
      BY <1>2, <1>5, <2>2, <2>4
  <1>7. FirstSeen(t) = u
    <2>1. FirstSeen(t) = [n \in 1..c |-> FirstSeen(t)[n]]
      BY <1>4 DEF FirstSeen, Firsts
    <2>2. u = [n \in 1..c |-> u[n]]
      BY <1>2
    <2> HIDE DEF u, F, c
    <2> QED
      BY <1>6, <2>1, <2>2
  <1> QED
    BY <1>7 DEF t

\* remember_blob keeps the rows and counts that one more blob asks for.
LEMMA RememberAppends ==
  ASSUME SinkTypeOK, SeenIndexesBlobs, NEW s \in Seq(Hash), blobs = FirstSeen(s),
         NEW h \in Hash, RememberBlob(h)
  PROVE  blobs' = FirstSeen(Append(s, h))
  <1>1. CASE h \in DOMAIN seen
    <2>1. seen[h] \in DOMAIN FirstSeen(s) /\ FirstSeen(s)[seen[h]].hash = h
      BY <1>1 DEF SinkTypeOK, SeenIndexesBlobs
    <2>2. blobs' = [FirstSeen(s) EXCEPT ![seen[h]].refs = @ + 1]
      BY <1>1 DEF RememberBlob
    <2> QED
      BY <2>1, <2>2, FirstSeenOfRepeated
  <1>2. CASE h \notin DOMAIN seen
    <2>1. \A j \in DOMAIN s : s[j] # h
      <3> SUFFICES ASSUME NEW j \in DOMAIN s, s[j] = h PROVE FALSE
        OBVIOUS
      <3>1. PICK n \in DOMAIN FirstSeen(s) : FirstSeen(s)[n].hash = h
        BY EveryElementIsListed
      <3> QED
        BY <1>2, <3>1 DEF SeenIndexesBlobs
    <2>2. blobs' = Append(FirstSeen(s), [hash |-> h, refs |-> 1])
      BY <1>2 DEF RememberBlob
    <2> QED
      BY <2>1, <2>2, FirstSeenOfNew
  <1> QED
    BY <1>1, <1>2

-----------------------------------------------------------------------------
(* The blobs of the inputs.                                                *)

LEMMA InputTypes ==
  ASSUME NEW i \in DOMAIN Inputs
  PROVE  /\ Inputs[i].items \in Seq(Item) /\ Inputs[i].own \in Seq(Hash)
         /\ \A k \in DOMAIN Inputs[i].items : Inputs[i].items[k].blobs \in Seq(Hash)
  <1> DEFINE Input == [readable : BOOLEAN, signed : BOOLEAN, items : Seq(Item),
                       offset : Seq(Nat), own : Seq(Hash)]
  <1>1. Inputs \in Seq(Input)
    BY InputsAssumption
  <1> HIDE DEF Input
  <1>2. Inputs[i] \in Input
    BY <1>1
  <1>3. Inputs[i].items \in Seq(Item) /\ Inputs[i].own \in Seq(Hash)
    BY <1>2 DEF Input
  <1>4. \A k \in DOMAIN Inputs[i].items : Inputs[i].items[k] \in Item
    BY <1>3
  <1> QED
    BY <1>3, <1>4 DEF Item

LEMMA BlobsOfInput ==
  ASSUME NEW i \in DOMAIN Inputs
  PROVE  /\ EntryBlobs(i) \in Seq(Seq(Hash)) /\ Len(EntryBlobs(i)) = Len(Inputs[i].items)
         /\ \A k \in 1..Len(Inputs[i].items) : EntryBlobs(i)[k] = Inputs[i].items[k].blobs
         /\ JarBlobs(i) = Joined(EntryBlobs(i), Len(Inputs[i].items)) \o Inputs[i].own
         /\ JarBlobs(i) \in Seq(Hash)
  <1>1. Len(Inputs[i].items) \in Nat /\ DOMAIN Inputs[i].items = 1..Len(Inputs[i].items)
    BY InputTypes
  <1>2. /\ EntryBlobs(i) \in Seq(Seq(Hash)) /\ Len(EntryBlobs(i)) = Len(Inputs[i].items)
        /\ \A k \in 1..Len(Inputs[i].items) : EntryBlobs(i)[k] = Inputs[i].items[k].blobs
    BY <1>1, InputTypes DEF EntryBlobs
  <1>3. JarBlobs(i) = Joined(EntryBlobs(i), Len(Inputs[i].items)) \o Inputs[i].own
    BY <1>2, FlattenIsJoined DEF JarBlobs
  <1>4. Joined(EntryBlobs(i), Len(Inputs[i].items)) \in Seq(Hash)
    BY <1>1, <1>2, JoinedIsSequence
  <1> QED
    BY <1>2, <1>3, <1>4, InputTypes, ConcatProperties

LEMMA BlobsOfInputs ==
  /\ InputBlobs \in Seq(Seq(Hash)) /\ Len(InputBlobs) = Len(Inputs)
  /\ \A i \in DOMAIN Inputs : InputBlobs[i] = IF Inputs[i].readable THEN JarBlobs(i) ELSE <<>>
  /\ AllBlobs = Joined(InputBlobs, Len(Inputs))
  <1>1. \A i \in DOMAIN Inputs : JarBlobs(i) \in Seq(Hash)
    BY BlobsOfInput
  <1>2. /\ InputBlobs \in Seq(Seq(Hash)) /\ Len(InputBlobs) = Len(Inputs)
        /\ \A i \in DOMAIN Inputs : InputBlobs[i] = IF Inputs[i].readable THEN JarBlobs(i) ELSE <<>>
    BY <1>1, InputsDomain DEF InputBlobs
  <1>3. AllBlobs = Joined(InputBlobs, Len(Inputs))
    BY <1>2, FlattenIsJoined DEF AllBlobs
  <1> QED
    BY <1>2, <1>3

-----------------------------------------------------------------------------
(* The inductive invariant of packing with one job.                        *)

SeqInv ==
  /\ SinkTypeOK /\ SeenIndexesBlobs
  /\ entries \in Seq(Nat) /\ nth \in Nat
  /\ PackedSoFar

\* The parts that make up what is stored are sequences of hashes.
LEMMA StoredParts ==
  ASSUME SeqInv
  PROVE  /\ input \in Nat /\ Len(Inputs) \in Nat /\ DOMAIN Inputs = 1..Len(Inputs)
         /\ Joined(InputBlobs, input - 1) \in Seq(Hash)
         /\ input \in DOMAIN Inputs =>
              /\ Len(Items) \in Nat /\ Len(entries) \in 0..Len(Items)
              /\ Joined(EntryBlobs(input), Len(entries)) \in Seq(Hash)
              /\ NextBlobs \in Seq(Hash) /\ nth \in 0..Len(NextBlobs)
              /\ SubSeq(NextBlobs, 1, nth) \in Seq(Hash)
              /\ CurrentBlobs \in Seq(Hash)
         /\ Stored \in Seq(Hash)
  <1>1. Len(Inputs) \in Nat /\ DOMAIN Inputs = 1..Len(Inputs) /\ input \in 1..(Len(Inputs) + 1)
    BY InputsDomain DEF SeqInv, PackedSoFar
  <1>2. Joined(InputBlobs, input - 1) \in Seq(Hash)
    <2>1. input - 1 \in 0..Len(InputBlobs)
      BY <1>1, BlobsOfInputs
    <2> QED
      BY <2>1, BlobsOfInputs, JoinedIsSequence
  <1>3. ASSUME input \in DOMAIN Inputs
        PROVE  /\ Len(Items) \in Nat /\ Len(entries) \in 0..Len(Items)
               /\ Joined(EntryBlobs(input), Len(entries)) \in Seq(Hash)
               /\ NextBlobs \in Seq(Hash) /\ nth \in 0..Len(NextBlobs)
               /\ SubSeq(NextBlobs, 1, nth) \in Seq(Hash)
               /\ CurrentBlobs \in Seq(Hash)
    <2>1. /\ Items \in Seq(Item) /\ Own \in Seq(Hash)
          /\ \A k \in DOMAIN Items : Items[k].blobs \in Seq(Hash)
      BY <1>3, InputTypes DEF Items, Own
    <2>2. Len(Items) \in Nat /\ Len(entries) \in 0..Len(Items)
      BY <1>3, <2>1 DEF SeqInv, PackedSoFar
    <2>3. Joined(EntryBlobs(input), Len(entries)) \in Seq(Hash)
      <3>1. Len(EntryBlobs(input)) = Len(Items) /\ EntryBlobs(input) \in Seq(Seq(Hash))
        BY <1>3, BlobsOfInput DEF Items
      <3> QED
        BY <2>2, <3>1, JoinedIsSequence
    <2>4. NextBlobs \in Seq(Hash)
      <3>1. CASE Len(entries) < Len(Items)
        <4>1. Len(entries) + 1 \in DOMAIN Items
          BY <2>1, <2>2, <3>1
        <4> QED
          BY <2>1, <3>1, <4>1 DEF NextBlobs
      <3>2. CASE ~(Len(entries) < Len(Items))
        BY <2>1, <3>2 DEF NextBlobs
      <3> QED
        BY <3>1, <3>2
    <2>5. nth \in 0..Len(NextBlobs)
      BY <1>3, <2>4 DEF SeqInv, PackedSoFar
    <2>6. SubSeq(NextBlobs, 1, nth) \in Seq(Hash)
      BY <2>4, <2>5
    <2>7. CurrentBlobs \in Seq(Hash)
      BY <2>3, <2>6, ConcatProperties DEF CurrentBlobs
    <2> QED
      BY <2>2, <2>3, <2>4, <2>5, <2>6, <2>7
  <1>4. Stored \in Seq(Hash)
    BY <1>2, <1>3, ConcatProperties, EmptySeq DEF Stored
  <1> QED
    BY <1>1, <1>2, <1>3, <1>4

LEMMA StoredNext ==
  /\ Stored' = Joined(InputBlobs, input' - 1)
                 \o (IF input' \in DOMAIN Inputs THEN CurrentBlobs' ELSE <<>>)
  /\ CurrentBlobs' = Joined(EntryBlobs(input'), Len(entries')) \o SubSeq(NextBlobs', 1, nth')
  /\ NextBlobs' = IF Len(entries') < Len(Inputs[input'].items)
                    THEN Inputs[input'].items[Len(entries') + 1].blobs
                    ELSE Inputs[input'].own
  BY DEF Stored, CurrentBlobs, NextBlobs, Items, Own, InputBlobs, EntryBlobs, JarBlobs

LEMMA PackedNext ==
  PackedSoFar' <=>
  /\ input' \in 1..(Len(Inputs) + 1)
  /\ entries' = [k \in 1..Len(entries') |-> k]
  /\ input' \in DOMAIN Inputs => Len(entries') <= Len(Inputs[input'].items) /\ nth' <= Len(NextBlobs')
  /\ input' \in DOMAIN Inputs => Inputs[input'].readable \/ (entries' = <<>> /\ nth' = 0)
  /\ input' \notin DOMAIN Inputs => entries' = <<>> /\ nth' = 0
  /\ status' = "done" => input' = Len(Inputs) + 1
  /\ blobs' = FirstSeen(Stored')
  /\ jars' = CatalogOf({i \in DOMAIN Inputs : i < input' /\ Inputs[i].readable})
  BY DEF PackedSoFar, Items, CatalogOf, FirstSeen

\* What is put behind the last of three parts is put behind them all.
LEMMA OneBehindThree ==
  ASSUME NEW E, NEW a \in Seq(E), NEW b \in Seq(E), NEW c \in Seq(E), NEW d \in Seq(E)
  PROVE  Cat(a, Cat(b, Cat(c, d))) = Cat(Cat(a, Cat(b, c)), d)
  <1>1. Cat(b, c) \in Seq(E)
    BY CatIsThere
  <1>2. Cat(Cat(b, c), d) = Cat(b, Cat(c, d))
    BY CatAssociates
  <1>3. Cat(Cat(a, Cat(b, c)), d) = Cat(a, Cat(Cat(b, c), d))
    BY <1>1, CatAssociates
  <1> QED
    BY <1>2, <1>3

\* One more blob of the current entry, or of the JAR itself.
LEMMA StoreKeepsInv ==
  ASSUME SeqInv, OnReadable, nth < Len(NextBlobs), RememberBlob(NextBlobs[nth + 1]),
         nth' = nth + 1, UNCHANGED <<input, entries, jars, status>>
  PROVE  SeqInv'
  <1> DEFINE J == Joined(InputBlobs, input - 1)
             B == Joined(EntryBlobs(input), Len(entries))
             S == SubSeq(NextBlobs, 1, nth)
             h == NextBlobs[nth + 1]
  <1>1. /\ input \in DOMAIN Inputs /\ J \in Seq(Hash) /\ B \in Seq(Hash) /\ S \in Seq(Hash)
        /\ NextBlobs \in Seq(Hash) /\ nth \in 0..Len(NextBlobs) /\ Stored \in Seq(Hash)
    BY StoredParts DEF OnReadable
  <1>2. Len(NextBlobs) \in Nat /\ nth + 1 \in 1..Len(NextBlobs) /\ h \in Hash /\ nth + 1 - 1 = nth
    BY <1>1
  <1>3. NextBlobs' = NextBlobs
    BY StoredNext DEF NextBlobs, Items, Own
  <1>4. SubSeq(NextBlobs, 1, nth + 1) = S \o <<h>>
    <2>1. 1 \in 1..Len(NextBlobs) /\ nth + 1 \in 1..Len(NextBlobs)
      BY <1>2
    <2>2. SubSeq(NextBlobs, 1, nth + 1) = SubSeq(NextBlobs, 1, nth + 1 - 1) \o <<NextBlobs[nth + 1]>>
      BY <1>1, <2>1, SubSeqRecursiveSecond
    <2> QED
      BY <1>2, <2>2
  <1>5. Stored = Cat(J, Cat(B, S))
    BY <1>1 DEF Stored, CurrentBlobs, Cat
  <1>6. Stored' = Cat(J, Cat(B, Cat(S, <<h>>)))
    BY <1>1, <1>3, <1>4, StoredNext DEF Cat
  <1>7. Stored' = Append(Stored, h)
    <2> HIDE DEF J, B, S, h
    <2>1. PICK d : d = <<h>>
      OBVIOUS
    <2>2. d \in Seq(Hash)
      BY <1>2, <2>1
    <2>3. Cat(J, Cat(B, Cat(S, d))) = Cat(Cat(J, Cat(B, S)), d)
      BY <1>1, <2>2, OneBehindThree
    <2>4. Stored' = Cat(Stored, d)
      BY <1>5, <1>6, <2>1, <2>3
    <2>5. Append(Stored, h) = Stored \o d
      BY <1>1, <1>2, <2>1, AppendIsConcat
    <2> QED
      BY <2>4, <2>5 DEF Cat
  <1>8. blobs' = FirstSeen(Stored')
    <2>1. blobs = FirstSeen(Stored)
      BY DEF SeqInv, PackedSoFar
    <2> QED
      BY <1>1, <1>2, <1>7, <2>1, RememberAppends DEF SeqInv
  <1>9. SinkTypeOK' /\ SeenIndexesBlobs'
    BY <1>2, RememberKeepsSink DEF SeqInv
  <1>10. PackedSoFar'
    BY <1>1, <1>2, <1>3, <1>8, PackedNext DEF SeqInv, PackedSoFar, OnReadable, Items
  <1> QED
    BY <1>1, <1>2, <1>9, <1>10 DEF SeqInv

LEMMA StoreEntryBlobSeq == ASSUME SeqInv, StoreEntryBlob PROVE SeqInv'
  <1>1. NextBlobs = Items[Len(entries) + 1].blobs
    BY DEF StoreEntryBlob, NextBlobs
  <1> QED
    BY <1>1, StoreKeepsInv DEF StoreEntryBlob

LEMMA StoreJarBlobSeq == ASSUME SeqInv, StoreJarBlob PROVE SeqInv'
  <1>1. input \in DOMAIN Inputs /\ Len(entries) = Len(Items)
    BY DEF StoreJarBlob, OnReadable
  <1>2. NextBlobs = Own
    BY <1>1, StoredParts DEF NextBlobs
  <1> QED
    BY <1>2, StoreKeepsInv DEF StoreJarBlob

\* An entry is complete: its blobs become part of those of the entries.
LEMMA PushEntrySeq == ASSUME SeqInv, PushEntry PROVE SeqInv'
  <1> DEFINE n == Len(entries)
             J == Joined(InputBlobs, input - 1)
             B == Joined(EntryBlobs(input), n)
  <1>1. /\ input \in DOMAIN Inputs /\ J \in Seq(Hash) /\ B \in Seq(Hash)
        /\ NextBlobs \in Seq(Hash) /\ Len(Items) \in Nat /\ n \in 0..Len(Items) /\ n < Len(Items)
    BY StoredParts DEF PushEntry, OnReadable
  <1>2. NextBlobs = Items[n + 1].blobs /\ nth = Len(NextBlobs)
    BY <1>1 DEF NextBlobs, PushEntry
  <1>3. entries' = [k \in 1..(n + 1) |-> k] /\ Len(entries') = n + 1 /\ entries' \in Seq(Nat)
    <2>1. entries \in Seq(Nat) /\ entries = [k \in 1..n |-> k] /\ entries' = Append(entries, n + 1)
      BY DEF SeqInv, PackedSoFar, PushEntry
    <2> QED
      BY <1>1, <2>1
  <1>4. B \o NextBlobs = Joined(EntryBlobs(input), n + 1) /\ Joined(EntryBlobs(input), n + 1) \in Seq(Hash)
    <2>1. /\ EntryBlobs(input) \in Seq(Seq(Hash)) /\ Len(EntryBlobs(input)) = Len(Items)
          /\ \A k \in 1..Len(Items) : EntryBlobs(input)[k] = Items[k].blobs
      BY <1>1, BlobsOfInput DEF Items
    <2>2. n + 1 \in 1..Len(Items) /\ n \in 0..(Len(EntryBlobs(input)) - 1)
      BY <1>1, <2>1
    <2>3. Joined(EntryBlobs(input), n + 1) = B \o EntryBlobs(input)[n + 1]
          /\ Joined(EntryBlobs(input), n + 1) \in Seq(Hash)
      BY <1>1, <2>1, <2>2, JoinedGrows
    <2> QED
      BY <1>2, <2>1, <2>2, <2>3
  <1>5. NextBlobs' \in Seq(Hash) /\ SubSeq(NextBlobs', 1, 0) = <<>>
    <2>1. NextBlobs' = IF n + 1 < Len(Items) THEN Items[n + 2].blobs ELSE Own
      <3>1. input' = input /\ n + 1 + 1 = n + 2
        BY <1>1 DEF PushEntry
      <3> QED
        BY <1>3, <3>1, StoredNext DEF Items, Own
    <2>2. /\ Items \in Seq(Item) /\ Own \in Seq(Hash)
          /\ \A k \in DOMAIN Items : Items[k].blobs \in Seq(Hash)
      BY <1>1, InputTypes DEF Items, Own
    <2>3. n + 1 < Len(Items) => n + 2 \in DOMAIN Items
      BY <1>1, <2>2
    <2> QED
      BY <2>1, <2>2, <2>3, SubSeqEmpty
  <1>6. Stored' = Stored
    <2>1. Stored = J \o (B \o NextBlobs)
      BY <1>1, <1>2, SubSeqFull DEF Stored, CurrentBlobs
    <2>2. Stored' = J \o (Joined(EntryBlobs(input), n + 1) \o <<>>)
      BY <1>1, <1>3, <1>5, StoredNext DEF PushEntry
    <2> QED
      BY <1>4, <2>1, <2>2, ConcatEmptySeq
  <1>7. PackedSoFar'
    <2>1. Len(NextBlobs') \in Nat
      BY <1>5
    <2> QED
      BY <1>1, <1>3, <1>6, <2>1, PackedNext DEF SeqInv, PackedSoFar, PushEntry, OnReadable, Items
  <1>8. SinkTypeOK' /\ SeenIndexesBlobs'
    BY DEF SeqInv, SinkTypeOK, SeenIndexesBlobs, PushEntry
  <1> QED
    BY <1>3, <1>7, <1>8 DEF SeqInv, PushEntry

\* The readable inputs before the next one.
PackedInputs(i) == {k \in DOMAIN Inputs : k < i /\ Inputs[k].readable}

LEMMA PackedInputsGrow ==
  ASSUME NEW i \in DOMAIN Inputs
  PROVE  PackedInputs(i + 1) = IF Inputs[i].readable THEN PackedInputs(i) \cup {i} ELSE PackedInputs(i)
  <1>1. DOMAIN Inputs = 1..Len(Inputs) /\ Len(Inputs) \in Nat
    BY InputsDomain
  <1>2. \A k \in DOMAIN Inputs : k < i + 1 <=> (k < i \/ k = i)
    BY <1>1
  <1>3. ~(i < i)
    BY <1>1
  <1> QED
    BY <1>2, <1>3 DEF PackedInputs

\* A JAR after all that are packed is listed after them.
LEMMA CatalogGrows ==
  ASSUME NEW i \in DOMAIN Inputs
  PROVE  CatalogOf(PackedInputs(i) \cup {i}) =
           Append(CatalogOf(PackedInputs(i)),
                  [input |-> i, entries |-> [k \in DOMAIN Inputs[i].items |-> k]])
  <1> DEFINE S == PackedInputs(i)
             T == S \cup {i}
             Row(k) == [input |-> k, entries |-> [m \in DOMAIN Inputs[k].items |-> m]]
             c == Cardinality(S)
  <1>1. i - 1 \in Nat /\ i - 1 + 1 = i /\ S \in SUBSET (1..(i - 1))
    BY InputsDomain DEF PackedInputs
  <1> HIDE DEF S
  <1>2. c \in Nat
    BY <1>1, CountUpTo
  <1>3. Cardinality(T) = c + 1 /\ (\A k \in 1..c : Nth(T, k) = Nth(S, k)) /\ Nth(T, c + 1) = i
    <2>1. LET U == S \cup {i - 1 + 1}
          IN /\ Cardinality(U) = Cardinality(S) + 1
             /\ \A k \in 1..Cardinality(S) : Nth(U, k) = Nth(S, k)
             /\ Nth(U, Cardinality(U)) = i - 1 + 1
      BY <1>1, NthOfGrown
    <2> QED
      BY <1>1, <2>1
  <1>4. CatalogOf(T) = [n \in 1..(c + 1) |-> Row(Nth(T, n))]
    BY <1>3 DEF CatalogOf
  <1>5. CatalogOf(S) = [n \in 1..c |-> Row(Nth(S, n))]
    BY DEF CatalogOf
  <1>6. Nth(T, c + 1) = i /\ \A n \in 1..c : Row(Nth(T, n)) = Row(Nth(S, n))
    BY <1>3
  <1> HIDE DEF Row, T, c
  <1>7. Append(CatalogOf(S), Row(i)) = [n \in 1..(c + 1) |-> IF n = c + 1 THEN Row(i) ELSE Row(Nth(S, n))]
    BY <1>2, <1>5
  <1>8. \A n \in 1..(c + 1) : n # c + 1 => n \in 1..c
    BY <1>2
  <1>9. CatalogOf(T) = Append(CatalogOf(S), Row(i))
    BY <1>4, <1>6, <1>7, <1>8
  <1> QED
    BY <1>9 DEF S, T, Row

\* At the start of an input nothing of it is stored yet.
LEMMA StartOfInput ==
  ASSUME input' \in DOMAIN Inputs, entries' = <<>>, nth' = 0
  PROVE  CurrentBlobs' = <<>> /\ Len(Inputs[input'].items) >= 0 /\ Len(NextBlobs') >= 0
  <1>1. Inputs[input'].items \in Seq(Item) /\ Inputs[input'].own \in Seq(Hash)
        /\ \A k \in DOMAIN Inputs[input'].items : Inputs[input'].items[k].blobs \in Seq(Hash)
    BY InputTypes
  <1>2. Len(entries') = 0 /\ Len(Inputs[input'].items) \in Nat
    BY <1>1
  <1>3. 0 < Len(Inputs[input'].items) => 1 \in DOMAIN Inputs[input'].items
    BY <1>1
  <1>4. NextBlobs' \in Seq(Hash)
    BY <1>1, <1>2, <1>3, StoredNext
  <1>5. SubSeq(NextBlobs', 1, 0) = <<>>
    BY SubSeqEmpty
  <1>6. CurrentBlobs' = <<>> \o <<>>
    BY <1>2, <1>5, StoredNext DEF Joined
  <1> QED
    BY <1>2, <1>4, <1>6

\* A complete JAR: its blobs and its row of the catalog join the others.
LEMMA NextInput ==
  ASSUME SeqInv, input \in DOMAIN Inputs, status = "packing", input' = input + 1, entries' = <<>>, nth' = 0,
         UNCHANGED <<blobs, seen, status>>,
         InputBlobs[input] = CurrentBlobs,
         jars' = CatalogOf(PackedInputs(input + 1))
  PROVE  SeqInv'
  <1>1. /\ input \in 1..Len(Inputs) /\ Len(Inputs) \in Nat /\ input + 1 \in 1..(Len(Inputs) + 1)
        /\ input + 1 - 1 = input /\ input - 1 + 1 = input
        /\ Joined(InputBlobs, input - 1) \in Seq(Hash)
    BY StoredParts
  <1>2. /\ Joined(InputBlobs, input) = Joined(InputBlobs, input - 1) \o CurrentBlobs
        /\ Joined(InputBlobs, input) \in Seq(Hash)
    <2>1. input - 1 \in 0..(Len(InputBlobs) - 1)
      BY <1>1, BlobsOfInputs
    <2>2. /\ Joined(InputBlobs, input - 1 + 1) = Joined(InputBlobs, input - 1) \o InputBlobs[input - 1 + 1]
          /\ Joined(InputBlobs, input - 1 + 1) \in Seq(Hash)
      BY <1>1, <2>1, BlobsOfInputs, JoinedGrows
    <2> QED
      BY <1>1, <2>2
  <1>3. Stored = Joined(InputBlobs, input)
    BY <1>2 DEF Stored
  <1>4. Stored' = Joined(InputBlobs, input)
    <2>1. input' \in DOMAIN Inputs => CurrentBlobs' = <<>>
      BY StartOfInput
    <2>2. (IF input' \in DOMAIN Inputs THEN CurrentBlobs' ELSE <<>>) = <<>>
      BY <2>1
    <2>3. input' - 1 = input
      BY <1>1
    <2>4. Stored' = Joined(InputBlobs, input' - 1) \o <<>>
      BY <2>2, StoredNext
    <2> QED
      BY <1>2, <2>3, <2>4, ConcatEmptySeq
  <1>5. entries' = [k \in 1..Len(entries') |-> k] /\ entries' \in Seq(Nat)
    BY EmptySeq
  <1>6. PackedSoFar'
    <2>1. blobs' = FirstSeen(Stored')
      BY <1>3, <1>4 DEF SeqInv, PackedSoFar
    <2>2. jars' = CatalogOf({i \in DOMAIN Inputs : i < input' /\ Inputs[i].readable})
      BY DEF PackedInputs
    <2>3. Len(entries') = 0
      OBVIOUS
    <2> QED
      BY <1>1, <1>5, <2>1, <2>2, <2>3, StartOfInput, PackedNext
  <1>7. SinkTypeOK' /\ SeenIndexesBlobs'
    BY DEF SeqInv, SinkTypeOK, SeenIndexesBlobs
  <1> QED
    BY <1>5, <1>6, <1>7 DEF SeqInv

LEMMA PushJarSeq == ASSUME SeqInv, PushJar PROVE SeqInv'
  <1>1. /\ input \in DOMAIN Inputs /\ Inputs[input].readable /\ Len(entries) = Len(Items)
        /\ Len(Items) \in Nat /\ nth = Len(Own)
    BY StoredParts DEF PushJar, OnReadable
  <1>2. Own \in Seq(Hash) /\ Items \in Seq(Item)
    BY <1>1, InputTypes DEF Own, Items
  <1>3. NextBlobs = Own
    BY <1>1 DEF NextBlobs
  <1>4. CurrentBlobs = Joined(EntryBlobs(input), Len(Items)) \o Own
    BY <1>1, <1>2, <1>3, SubSeqFull DEF CurrentBlobs
  <1>5. InputBlobs[input] = CurrentBlobs
    BY <1>1, <1>4, BlobsOfInput, BlobsOfInputs DEF Items, Own
  <1>6. jars' = CatalogOf(PackedInputs(input + 1))
    <2>1. jars = CatalogOf(PackedInputs(input))
      BY DEF SeqInv, PackedSoFar, PackedInputs
    <2>2. entries = [k \in DOMAIN Inputs[input].items |-> k]
      BY <1>1, <1>2 DEF SeqInv, PackedSoFar, Items
    <2>3. jars' = Append(jars, [input |-> input, entries |-> entries])
      BY DEF PushJar
    <2> QED
      BY <1>1, <2>1, <2>2, <2>3, CatalogGrows, PackedInputsGrow
  <1> QED
    BY <1>1, <1>5, <1>6, NextInput DEF PushJar, OnReadable

LEMMA SkipInputSeq == ASSUME SeqInv, SkipInput PROVE SeqInv'
  <1>1. /\ input \in DOMAIN Inputs /\ ~Inputs[input].readable
        /\ entries = <<>> /\ nth = 0 /\ entries' = <<>> /\ nth' = 0
    BY DEF SkipInput, SeqInv, PackedSoFar
  <1>2. InputBlobs[input] = CurrentBlobs
    <2>1. CurrentBlobs = <<>> \o <<>>
      BY <1>1, SubSeqEmpty DEF CurrentBlobs, Joined
    <2> QED
      BY <1>1, <2>1, BlobsOfInputs
  <1>3. jars' = CatalogOf(PackedInputs(input + 1))
    <2>1. jars = CatalogOf(PackedInputs(input))
      BY DEF SeqInv, PackedSoFar, PackedInputs
    <2> QED
      BY <1>1, <2>1, PackedInputsGrow DEF SkipInput
  <1> QED
    BY <1>1, <1>2, <1>3, NextInput DEF SkipInput

LEMMA EndKeepsInv ==
  ASSUME SeqInv, UNCHANGED <<blobs, seen, input, entries, nth, jars>>,
         status' = "done" => input = Len(Inputs) + 1
  PROVE  SeqInv'
  <1>1. NextBlobs' = NextBlobs
    BY StoredNext DEF NextBlobs, Items, Own
  <1>2. Stored' = Stored
    BY <1>1, StoredNext DEF Stored, CurrentBlobs
  <1>3. PackedSoFar'
    BY <1>1, <1>2, PackedNext DEF SeqInv, PackedSoFar, Items
  <1> QED
    BY <1>3 DEF SeqInv, SinkTypeOK, SeenIndexesBlobs

LEMMA SeqStep == SeqInv /\ [Next]_packVars => SeqInv'
  <1> SUFFICES ASSUME SeqInv, [Next]_packVars PROVE SeqInv'
    OBVIOUS
  <1>1. CASE SkipInput
    BY <1>1, SkipInputSeq
  <1>2. CASE StoreEntryBlob
    BY <1>2, StoreEntryBlobSeq
  <1>3. CASE PushEntry
    BY <1>3, PushEntrySeq
  <1>4. CASE StoreJarBlob
    BY <1>4, StoreJarBlobSeq
  <1>5. CASE PushJar
    BY <1>5, PushJarSeq
  <1>6. CASE Finish
    BY <1>6, EndKeepsInv DEF Finish
  <1>7. CASE Fail
    BY <1>7, EndKeepsInv DEF Fail
  <1>8. CASE UNCHANGED packVars
    BY <1>8, EndKeepsInv DEF packVars, SeqInv, PackedSoFar
  <1> QED
    BY <1>1, <1>2, <1>3, <1>4, <1>5, <1>6, <1>7, <1>8 DEF Next

LEMMA SeqStart == Init => SeqInv
  <1> SUFFICES ASSUME Init PROVE SeqInv
    OBVIOUS
  <1>1. input = 1 /\ entries = <<>> /\ nth = 0 /\ jars = <<>> /\ blobs = <<>> /\ status = "packing"
    BY DEF Init, SinkInit
  <1>2. Len(Inputs) \in Nat /\ DOMAIN Inputs = 1..Len(Inputs) /\ Len(entries) = 0
    BY <1>1, InputsDomain
  <1>3. input \in DOMAIN Inputs => CurrentBlobs = <<>> /\ Len(NextBlobs) \in Nat /\ Len(Items) \in Nat
    <2> SUFFICES ASSUME input \in DOMAIN Inputs
                 PROVE  CurrentBlobs = <<>> /\ Len(NextBlobs) \in Nat /\ Len(Items) \in Nat
      OBVIOUS
    <2>1. /\ Items \in Seq(Item) /\ Own \in Seq(Hash)
          /\ \A k \in DOMAIN Items : Items[k].blobs \in Seq(Hash)
      BY InputTypes DEF Items, Own
    <2>2. Len(entries) < Len(Items) => 1 \in DOMAIN Items
      BY <1>2, <2>1
    <2>3. NextBlobs \in Seq(Hash)
      BY <1>2, <2>1, <2>2 DEF NextBlobs
    <2>4. CurrentBlobs = <<>> \o <<>>
      BY <1>1, <1>2, SubSeqEmpty DEF CurrentBlobs, Joined
    <2> QED
      BY <2>1, <2>3, <2>4
  <1>4. Stored = <<>>
    <2>1. Joined(InputBlobs, input - 1) = <<>>
      BY <1>1 DEF Joined
    <2> QED
      BY <1>3, <2>1 DEF Stored
  <1>5. FirstSeen(<<>>) = <<>>
    <2>1. {k \in DOMAIN <<>> : \A j \in 1..(k - 1) : <<>>[j] # <<>>[k]} = {}
      OBVIOUS
    <2> QED
      BY <2>1, FS_EmptySet DEF FirstSeen
  <1>6. CatalogOf({i \in DOMAIN Inputs : i < input /\ Inputs[i].readable}) = <<>>
    <2>1. {i \in DOMAIN Inputs : i < input /\ Inputs[i].readable} = {}
      BY <1>1, <1>2
    <2>2. CatalogOf({}) = <<>>
      BY FS_EmptySet DEF CatalogOf
    <2> QED
      BY <2>1, <2>2
  <1>7. PackedSoFar
    <2>1. entries = [k \in 1..Len(entries) |-> k]
      BY <1>1, <1>2
    <2> QED
      BY <1>1, <1>2, <1>3, <1>4, <1>5, <1>6, <2>1 DEF PackedSoFar
  <1>8. SinkTypeOK /\ SeenIndexesBlobs
    BY DEF Init, SinkInit, SinkTypeOK, SeenIndexesBlobs
  <1> QED
    BY <1>1, <1>7, <1>8, EmptySeq DEF SeqInv

\* Packing with one job keeps the invariant ...
THEOREM SequentialPacking == Spec => []SeqInv
  <1>1. Init => SeqInv
    BY SeqStart
  <1>2. SeqInv /\ [Next]_packVars => SeqInv'
    BY SeqStep
  <1> QED
    BY <1>1, <1>2, PTL DEF Spec

\* ... and so does the pipeline, which implements it: at every moment the blob
\* table is the first-seen table of the blobs applied so far (dehydrate with
\* any number of jobs).
THEOREM PackingIsFirstSeen == PipeSpec => []PackedSoFar
  <1>1. SeqInv => PackedSoFar
    BY DEF SeqInv
  <1> QED
    BY <1>1, SequentialPacking, ImplementsSequential, PTL

\* The finished archive depends on the inputs only.
THEOREM ArchiveIsTheInputs == PipeSpec => []ArchiveIsDeterministic
  <1>1. SeqInv => ArchiveIsDeterministic
    <2> SUFFICES ASSUME SeqInv, status = "done" PROVE ArchiveIsDeterministic
      BY DEF ArchiveIsDeterministic
    <2>1. /\ input = Len(Inputs) + 1 /\ blobs = FirstSeen(Stored)
          /\ jars = CatalogOf({i \in DOMAIN Inputs : i < input /\ Inputs[i].readable})
      BY DEF SeqInv, PackedSoFar
    <2>2. Len(Inputs) \in Nat /\ DOMAIN Inputs = 1..Len(Inputs)
          /\ Joined(InputBlobs, input - 1) \in Seq(Hash)
      BY StoredParts
    <2>3. input \notin DOMAIN Inputs /\ input - 1 = Len(Inputs)
      BY <2>1, <2>2
    <2>4. Stored = AllBlobs
      BY <2>2, <2>3, ConcatEmptySeq, BlobsOfInputs DEF Stored
    <2>5. {i \in DOMAIN Inputs : i < input /\ Inputs[i].readable} = {i \in DOMAIN Inputs : Inputs[i].readable}
      BY <2>1, <2>2
    <2> QED
      BY <2>1, <2>4, <2>5 DEF ArchiveIsDeterministic
  <1> QED
    BY <1>1, SequentialPacking, ImplementsSequential, PTL

-----------------------------------------------------------------------------
(* The bytes of a set of items, and that they fit between two offsets.     *)

Chosen(s) == CHOOSE x \in s : TRUE
BytesOf(S) == MapThenSumSet(Bytes, S)
SumBody(f, s) == IF s = {} THEN 0 ELSE Bytes(Chosen(s)) + f[s \ {Chosen(s)}]
Adds(f, S) == \A s \in SUBSET S : f[s] = SumBody(f, s)
AddsInAnyOrder(f, S) ==
  \A s \in SUBSET S : f[s] \in Nat /\ \A x \in s : f[s] = Bytes(x) + f[s \ {x}]

LEMMA SumIsDefined ==
  ASSUME NEW S, IsFiniteSet(S)
  PROVE  \E f : /\ f = [s \in SUBSET S |-> SumBody(f, s)]
                /\ BytesOf(S) = f[S]
  <1> DEFINE Small(n) == {s \in SUBSET S : Cardinality(s) <= n}
             Sums(n) == \E f : f = [s \in Small(n) |-> SumBody(f, s)]
             T == {n \in Nat : ~Sums(n)}
  <1>1. \A s \in SUBSET S : IsFiniteSet(s) /\ Cardinality(s) \in Nat /\ Cardinality(s) <= Cardinality(S)
    BY FS_Subset, FS_CardinalityType
  <1>2. \A s \in SUBSET S : s # {} =>
          /\ Chosen(s) \in s /\ s \ {Chosen(s)} \in SUBSET S
          /\ Cardinality(s \ {Chosen(s)}) = Cardinality(s) - 1
    <2> SUFFICES ASSUME NEW s \in SUBSET S, s # {}
                 PROVE  /\ Chosen(s) \in s /\ s \ {Chosen(s)} \in SUBSET S
                        /\ Cardinality(s \ {Chosen(s)}) = Cardinality(s) - 1
      OBVIOUS
    <2>1. Chosen(s) \in s
      BY DEF Chosen
    <2>2. Cardinality(s \ {Chosen(s)}) = Cardinality(s) - 1
      BY <1>1, <2>1, FS_RemoveElement
    <2> QED
      BY <2>1, <2>2
  <1>3. T = {}
    <2> SUFFICES ASSUME T # {} PROVE FALSE
      OBVIOUS
    <2>1. PICK n \in T : \A m \in T : n <= m
      <3>1. T \subseteq Nat
        OBVIOUS
      <3> HIDE DEF T
      <3> QED
        BY <3>1, LeastExists
    <2>2. n # 0
      <3> SUFFICES ASSUME n = 0 PROVE FALSE
        OBVIOUS
      <3> DEFINE f == [s \in Small(0) |-> 0]
      <3>1. \A s \in Small(0) : s = {}
        BY <1>1, FS_EmptySet
      <3>2. f = [s \in Small(0) |-> SumBody(f, s)]
        <4>1. \A s \in Small(0) : SumBody(f, s) = 0
          BY <3>1 DEF SumBody
        <4> QED
          BY <4>1
      <3> QED
        BY <3>2
    <2>3. n \in Nat /\ n - 1 \in Nat /\ n - 1 \notin T
      <3>1. n \in Nat
        OBVIOUS
      <3> HIDE DEF T
      <3> QED
        BY <2>1, <2>2, <3>1
    <2>4. PICK f : f = [s \in Small(n - 1) |-> SumBody(f, s)]
      BY <2>3
    <2> DEFINE g == [s \in Small(n) |-> SumBody(f, s)]
    <2>5. \A s \in Small(n - 1) : s \in Small(n) /\ g[s] = f[s]
      <3> SUFFICES ASSUME NEW s \in Small(n - 1) PROVE s \in Small(n) /\ g[s] = f[s]
        OBVIOUS
      <3>1. s \in Small(n)
        BY <1>1, <2>3
      <3>2. f[s] = SumBody(f, s)
        BY <2>4
      <3> QED
        BY <3>1, <3>2
    <2>6. ASSUME NEW s \in Small(n), s # {} PROVE g[s \ {Chosen(s)}] = f[s \ {Chosen(s)}]
      <3>1. s \in SUBSET S /\ Cardinality(s) <= n
        OBVIOUS
      <3>2. Cardinality(s) \in Nat /\ s \ {Chosen(s)} \in SUBSET S
            /\ Cardinality(s \ {Chosen(s)}) = Cardinality(s) - 1
        BY <1>1, <1>2, <2>6, <3>1
      <3>3. s \ {Chosen(s)} \in Small(n - 1)
        BY <2>3, <3>1, <3>2
      <3> HIDE DEF g, Small
      <3> QED
        BY <2>5, <3>3
    <2>7. g = [s \in Small(n) |-> SumBody(g, s)]
      <3>1. \A s \in Small(n) : SumBody(g, s) = SumBody(f, s)
        <4> HIDE DEF g, Small
        <4> QED
          BY <2>6 DEF SumBody
      <3> HIDE DEF Small
      <3> QED
        BY <3>1
    <2> QED
      BY <2>3, <2>7
  <1>4. Small(Cardinality(S)) = SUBSET S
    BY <1>1
  <1>5. \E f : f = [s \in SUBSET S |-> SumBody(f, s)]
    <2>1. Cardinality(S) \in Nat
      BY FS_CardinalityType
    <2>2. Sums(Cardinality(S))
      <3> HIDE DEF Sums
      <3> QED
        BY <1>3, <2>1
    <2> HIDE DEF Small
    <2> QED
      BY <1>4, <2>2
  <1> DEFINE iter == CHOOSE f : f = [s \in SUBSET S |-> SumBody(f, s)]
  <1>6. iter = [s \in SUBSET S |-> SumBody(iter, s)]
    BY <1>5
  <1>7. BytesOf(S) = iter[S]
    BY DEF BytesOf, MapThenSumSet, MapThenFoldSet, SumBody, Chosen
  <1> QED
    BY <1>6, <1>7

\* The order in which the members are added does not matter.
LEMMA SumFromAny ==
  ASSUME input \in DOMAIN Inputs, NEW S \in SUBSET (1..Len(Items)),
         NEW f, Adds(f, S)
  PROVE  AddsInAnyOrder(f, S)
  <1> DEFINE Good(s) == f[s] \in Nat /\ \A x \in s : f[s] = Bytes(x) + f[s \ {x}]
             T == {n \in Nat : \E s \in SUBSET S : Cardinality(s) = n /\ ~Good(s)}
  <1>1. Len(Items) \in Nat /\ \A x \in S : Bytes(x) \in Nat
    BY ItemFacts
  <1>2. IsFiniteSet(S) /\ \A s \in SUBSET S : IsFiniteSet(s) /\ Cardinality(s) \in Nat
    <2>1. IsFiniteSet(S)
      BY <1>1, CountUpTo
    <2> QED
      BY <2>1, FS_Subset, FS_CardinalityType
  <1>3. ASSUME NEW s \in SUBSET S, NEW x \in s
        PROVE  s \ {x} \in SUBSET S /\ Cardinality(s \ {x}) = Cardinality(s) - 1
    BY <1>2, FS_RemoveElement
  <1>4. T = {}
    <2> SUFFICES ASSUME T # {} PROVE FALSE
      OBVIOUS
    <2>1. PICK n \in T : \A m \in T : n <= m
      <3>1. T \subseteq Nat
        OBVIOUS
      <3> HIDE DEF T
      <3> QED
        BY <3>1, LeastExists
    <2>2. PICK s \in SUBSET S : Cardinality(s) = n /\ ~Good(s)
      OBVIOUS
    <2>3. \A r \in SUBSET S : Cardinality(r) < n => Good(r)
      <3> SUFFICES ASSUME NEW r \in SUBSET S, Cardinality(r) < n, ~Good(r) PROVE FALSE
        OBVIOUS
      <3>1. Cardinality(r) \in T /\ Cardinality(r) \in Nat /\ n \in Nat
        <4> HIDE DEF Good
        <4> QED
          BY <1>2
      <3> HIDE DEF T, Good
      <3> QED
        BY <2>1, <3>1
    <2>4. f[s] = SumBody(f, s)
      BY DEF Adds
    <2>5. s # {}
      <3> SUFFICES ASSUME s = {} PROVE Good(s)
        BY <2>2
      <3>1. f[s] = 0
        BY <2>4 DEF SumBody
      <3> QED
        BY <3>1
    <2> DEFINE y == Chosen(s)
    <2>6. y \in s /\ f[s] = Bytes(y) + f[s \ {y}]
      BY <2>4, <2>5 DEF SumBody, Chosen
    <2>7. n \in Nat /\ Cardinality(s) = n
      BY <1>2, <2>2
    <2>8. Good(s \ {y})
      <3>1. s \ {y} \in SUBSET S /\ Cardinality(s \ {y}) < n
        <4> HIDE DEF T, Good, y
        <4> QED
          BY <1>3, <2>6, <2>7
      <3> HIDE DEF T, Good, y
      <3> QED
        BY <2>3, <3>1
    <2>9. f[s] \in Nat /\ Bytes(y) \in Nat
      <3>1. f[s \ {y}] \in Nat /\ Bytes(y) \in Nat
        <4> HIDE DEF T, y
        <4> QED
          BY <1>1, <2>6, <2>8
      <3> HIDE DEF T, Good, y
      <3> QED
        BY <2>6, <3>1
    <2>10. ASSUME NEW x \in s PROVE f[s] = Bytes(x) + f[s \ {x}]
      <3> HIDE DEF T, y
      <3>1. CASE x = y
        BY <2>6, <3>1
      <3>2. CASE x # y
        <4>1. Good(s \ {x})
          <5>1. s \ {x} \in SUBSET S /\ Cardinality(s \ {x}) < n
            <6> HIDE DEF Good
            <6> QED
              BY <1>3, <2>7
          <5> HIDE DEF Good
          <5> QED
            BY <2>3, <5>1
        <4>2. f[s \ {y}] = Bytes(x) + f[(s \ {y}) \ {x}]
          BY <2>8, <3>2
        <4>3. f[s \ {x}] = Bytes(y) + f[(s \ {x}) \ {y}] /\ f[s \ {x}] \in Nat
          BY <2>6, <3>2, <4>1
        <4>4. (s \ {y}) \ {x} = (s \ {x}) \ {y}
          OBVIOUS
        <4>5. Bytes(x) \in Nat /\ Bytes(y) \in Nat
          BY <1>1, <2>6
        <4>6. f[(s \ {x}) \ {y}] \in Nat
          <5>1. (s \ {x}) \ {y} \in SUBSET S /\ Cardinality((s \ {x}) \ {y}) < n
            <6>1. Cardinality(s \ {x}) = n - 1 /\ s \ {x} \in SUBSET S /\ y \in s \ {x}
              BY <1>3, <2>6, <2>7, <3>2
            <6> HIDE DEF Good
            <6> QED
              BY <1>3, <2>7, <6>1
          <5>2. Good((s \ {x}) \ {y})
            <6> HIDE DEF Good
            <6> QED
              BY <2>3, <5>1
          <5> QED
            BY <5>2
        <4>7. f[(s \ {y}) \ {x}] = f[(s \ {x}) \ {y}]
          BY <4>4
        <4> HIDE DEF Good
        <4> QED
          BY <2>6, <2>9, <4>2, <4>3, <4>5, <4>6, <4>7
      <3> QED
        BY <3>1, <3>2
    <2> QED
      BY <2>2, <2>9, <2>10
  <1>5. ASSUME NEW s \in SUBSET S PROVE Good(s)
    <2>1. Cardinality(s) \in Nat /\ Cardinality(s) \notin T
      BY <1>2, <1>4
    <2> QED
      BY <2>1
  <1> QED
    BY <1>5 DEF AddsInAnyOrder

\* Items between two offsets hold no more bytes than lie between them.
LEMMA SumIsWithinOffsets ==
  ASSUME input \in DOMAIN Inputs, NEW a \in 0..Len(Items), NEW b \in a..Len(Items),
         NEW S \in SUBSET ((a + 1)..b)
  PROVE  BytesOf(S) \in Nat /\ BytesOf(S) <= Offset(b) - Offset(a)
  <1>1. Len(Items) \in Nat
    BY ItemFacts
  <1>2. S \in SUBSET (1..Len(Items)) /\ IsFiniteSet(S)
    <2>1. \A k \in (a + 1)..b : k \in 1..Len(Items)
      BY <1>1
    <2>2. S \in SUBSET (1..Len(Items))
      BY <2>1
    <2> QED
      BY <1>1, <2>2, CountUpTo
  <1>3. PICK f : f = [s \in SUBSET S |-> SumBody(f, s)] /\ BytesOf(S) = f[S]
    BY <1>2, SumIsDefined
  <1>4. \A s \in SUBSET S : f[s] \in Nat /\ \A x \in s : f[s] = Bytes(x) + f[s \ {x}]
    <2>1. Adds(f, S)
      BY <1>3 DEF Adds
    <2>2. AddsInAnyOrder(f, S)
      BY <1>2, <2>1, SumFromAny
    <2> QED
      BY <2>2 DEF AddsInAnyOrder
  <1> DEFINE Within(c) == \A s \in SUBSET S : s \subseteq (a + 1)..c => f[s] <= Offset(c) - Offset(a)
             T == {c \in Nat : c \in a..b /\ ~Within(c)}
  <1>5. \A c \in a..b : Offset(c) \in Nat
    BY <1>1, OffsetType
  <1>6. T = {}
    <2> SUFFICES ASSUME T # {} PROVE FALSE
      OBVIOUS
    <2>1. PICK c \in T : \A m \in T : c <= m
      <3>1. T \subseteq Nat
        OBVIOUS
      <3> HIDE DEF T
      <3> QED
        BY <3>1, LeastExists
    <2>2. c \in a..b /\ ~Within(c) /\ c \in Nat
      OBVIOUS
    <2>3. c # a
      <3>1. \A s \in SUBSET S : s \subseteq (a + 1)..a => s = {}
        OBVIOUS
      <3>2. f[{}] = 0
        <4>1. {} \in SUBSET S
          OBVIOUS
        <4>2. f[{}] = SumBody(f, {})
          BY <1>3, <4>1
        <4> QED
          BY <4>2 DEF SumBody
      <3>3. Offset(a) \in Nat
        BY <1>1, OffsetType
      <3>4. Offset(a) - Offset(a) = 0
        BY <3>3
      <3>5. Within(a)
        <4> SUFFICES ASSUME NEW s \in SUBSET S, s \subseteq (a + 1)..a
                     PROVE  f[s] <= Offset(a) - Offset(a)
          OBVIOUS
        <4>1. s = {}
          BY <3>1
        <4> QED
          BY <3>2, <3>4, <4>1
      <3> HIDE DEF T, Within
      <3> QED
        BY <2>2, <3>5
    <2>4. c - 1 \in a..b /\ c - 1 \in Nat /\ ~(c <= c - 1) /\ c - 1 + 1 = c /\ c - 1 < Len(Items)
      BY <1>1, <2>2, <2>3
    <2>5. Within(c - 1)
      <3> HIDE DEF Within
      <3> QED
        BY <2>1, <2>4
    <2>6. Offset(c) = Offset(c - 1) + Bytes(c) /\ Bytes(c) \in Nat /\ Offset(c - 1) \in Nat
          /\ Offset(c) \in Nat /\ Offset(a) \in Nat
      <3>1. /\ Offset(c - 1) \in Nat /\ Offset(c - 1 + 1) \in Nat /\ Bytes(c - 1 + 1) \in Nat
            /\ Offset(c - 1 + 1) = Offset(c - 1) + Bytes(c - 1 + 1)
        BY <2>4, OffsetStep
      <3>2. Offset(a) \in Nat
        BY <1>1, OffsetType
      <3> QED
        BY <2>4, <3>1, <3>2
    <2>7. ASSUME NEW s \in SUBSET S, s \subseteq (a + 1)..c PROVE f[s] <= Offset(c) - Offset(a)
      <3> HIDE DEF T
      <3>1. CASE c \in s
        <4>1. s \ {c} \in SUBSET S /\ s \ {c} \subseteq (a + 1)..(c - 1)
          BY <2>2, <2>7
        <4>2. f[s \ {c}] <= Offset(c - 1) - Offset(a) /\ f[s \ {c}] \in Nat
          BY <1>4, <2>5, <4>1
        <4>3. f[s] = Bytes(c) + f[s \ {c}]
          BY <1>4, <3>1
        <4> HIDE DEF Within
        <4> QED
          BY <2>6, <4>2, <4>3
      <3>2. CASE c \notin s
        <4>1. s \subseteq (a + 1)..(c - 1)
          BY <2>2, <2>7, <3>2
        <4>2. f[s] <= Offset(c - 1) - Offset(a) /\ f[s] \in Nat
          BY <1>4, <2>5, <4>1
        <4> HIDE DEF Within
        <4> QED
          BY <2>6, <4>2
      <3> QED
        BY <3>1, <3>2
    <2> QED
      BY <2>2, <2>7
  <1>7. Within(b)
    <2>1. b \in Nat /\ b \in a..b
      BY <1>1
    <2> HIDE DEF Within
    <2> QED
      BY <1>6, <2>1
  <1>8. S \in SUBSET S /\ S \subseteq (a + 1)..b
    OBVIOUS
  <1> QED
    BY <1>3, <1>4, <1>7, <1>8

-----------------------------------------------------------------------------
(* Payload bytes from the last applied entry to the last one handed over.  *)

HandedOver == IF Flushed THEN NumItems ELSE nextSeq
Span == Offset(HandedOver) - Offset(Len(entries))
SpanBounded ==
  status = "packing" /\ input \in DOMAIN Inputs =>
    Span <= MaxInflight \/ \E k \in 1..Len(Items) : Span <= Bytes(k)

\* What IInv says of the place of the main thread and of the batch.
LEMMA Places ==
  ASSUME IInv, status = "packing", input \in DOMAIN Inputs
  PROVE  /\ Len(Items) \in Nat /\ nextSeq \in Nat /\ nextEmit \in Nat
         /\ nextEmit <= nextSeq /\ nextSeq <= Len(Items)
         /\ Len(entries) \in Nat /\ Len(batch) \in Nat
         /\ HandedOver \in 0..Len(Items) /\ Len(entries) + Len(batch) <= HandedOver
         /\ ~Flushed => Len(entries) + Len(batch) = nextEmit /\ HandedOver = nextSeq
         /\ Flushed => nextSeq = 0 /\ nextEmit = 0 /\ HandedOver = Len(Items)
         /\ Len(entries) \in 0..Len(Items)
         /\ Offset(HandedOver) \in Nat /\ Offset(Len(entries)) \in Nat
         /\ \A k \in 1..Len(Items) : Bytes(k) \in Nat
  <1>1. /\ Len(Items) \in Nat /\ nextSeq \in Nat /\ nextEmit \in Nat
        /\ nextEmit <= nextSeq /\ nextSeq <= Len(Items)
        /\ Len(entries) \in Nat /\ Len(batch) \in Nat
        /\ Len(entries) + Len(batch) = Taken
        /\ Flushed => nextSeq = 0
    <2>1. TypeOK /\ ControlInv /\ BatchInv
      BY DEF IInv
    <2>2. nextSeq \in Nat /\ nextEmit \in Nat /\ Len(entries) \in Nat /\ Len(batch) \in Nat
      BY <2>1 DEF TypeOK
    <2>3. nextEmit <= nextSeq /\ nextSeq <= Len(Items) /\ (Flushed => nextSeq = 0)
      BY <2>1 DEF ControlInv
    <2>4. Len(entries) + Len(batch) = Taken
      BY <2>1 DEF BatchInv
    <2>5. Len(Items) \in Nat
      BY ItemFacts
    <2> QED
      BY <2>2, <2>3, <2>4, <2>5
  <1>2. /\ ~Flushed => Taken = nextEmit /\ HandedOver = nextSeq
        /\ Flushed => Taken = Len(Items) /\ HandedOver = Len(Items) /\ nextEmit = 0
    BY <1>1 DEF Taken, HandedOver, NumItems
  <1>3. HandedOver \in 0..Len(Items) /\ Len(entries) + Len(batch) <= HandedOver
        /\ Len(entries) \in 0..Len(Items)
    BY <1>1, <1>2
  <1> QED
    BY <1>1, <1>2, <1>3, ItemFacts

\* Every payload held is of an entry in that span.
LEMMA HeldInSpan ==
  ASSUME IInv, status = "packing", input \in DOMAIN Inputs, pc # "attach"
  PROVE  HeldItems \in SUBSET ((Len(entries) + 1)..HandedOver)
  <1>1. /\ nextSeq \in Nat /\ nextEmit \in Nat /\ Len(entries) \in Nat /\ Len(batch) \in Nat
        /\ HandedOver \in Nat /\ Len(entries) + Len(batch) <= HandedOver
        /\ ~Flushed => Len(entries) + Len(batch) = nextEmit /\ HandedOver = nextSeq
        /\ Flushed => nextSeq = 0 /\ nextEmit = 0
    BY Places
  <1>2. PlaceInv /\ batch \in Seq(Nat \ {0}) /\ \A k \in DOMAIN batch : batch[k] = Len(entries) + k
    BY DEF IInv, TypeOK, BatchInv
  <1>3. ASSUME NEW s \in nextEmit..(nextSeq - 1)
        PROVE  s + 1 \in (Len(entries) + 1)..HandedOver
    BY <1>1
  <1>4. \A job \in hashing : job.item \in (Len(entries) + 1)..HandedOver
    BY <1>2, <1>3 DEF PlaceInv, InFlight
  <1>5. \A k \in DOMAIN channel : channel[k].ok => channel[k].item \in (Len(entries) + 1)..HandedOver
    BY <1>2, <1>3 DEF PlaceInv, InFlight
  <1>6. \A s \in DOMAIN pending : pending[s] \in (Len(entries) + 1)..HandedOver
    BY <1>2, <1>3 DEF PlaceInv
  <1>7. \A k \in DOMAIN batch : batch[k] \in (Len(entries) + 1)..HandedOver
    BY <1>1, <1>2
  <1> QED
    BY <1>4, <1>5, <1>6, <1>7 DEF HeldItems

LEMMA HeldIsBounded ==
  ASSUME IInv, SpanBounded
  PROVE  HeldBounded
  <1> SUFFICES ASSUME status = "packing", pc # "attach", input \in DOMAIN Inputs
               PROVE  HeldBytes <= MaxInflight \/ \E k \in 1..Len(Items) : HeldBytes <= Bytes(k)
    BY DEF HeldBounded
  <1>1. /\ Len(entries) \in 0..Len(Items) /\ HandedOver \in Len(entries)..Len(Items)
        /\ Offset(HandedOver) \in Nat /\ Offset(Len(entries)) \in Nat
        /\ \A k \in 1..Len(Items) : Bytes(k) \in Nat
    BY Places
  <1>2. HeldItems \in SUBSET ((Len(entries) + 1)..HandedOver)
    BY HeldInSpan
  <1>3. BytesOf(HeldItems) \in Nat /\ BytesOf(HeldItems) <= Span
    BY <1>1, <1>2, SumIsWithinOffsets DEF Span
  <1>4. HeldBytes = BytesOf(HeldItems)
    BY DEF HeldBytes, BytesOf
  <1>5. Span <= MaxInflight \/ \E k \in 1..Len(Items) : Span <= Bytes(k)
    BY DEF SpanBounded
  <1>6. Span \in Int /\ MaxInflight \in Nat
    BY <1>1, PipelineAssumption DEF Span
  <1> QED
    BY <1>1, <1>3, <1>4, <1>5, <1>6

\* A step that hands over, applies and finishes nothing.
LEMMA SpanKept ==
  ASSUME IInv, SpanBounded, status = "packing", UNCHANGED <<input, entries, nextSeq>>,
         Flushed' <=> Flushed
  PROVE  SpanBounded'
  <1>1. HandedOver' = HandedOver
    BY DEF HandedOver, NumItems, Items
  <1>2. Span' = Span
    BY <1>1 DEF Span, Offset
  <1> QED
    BY <1>2 DEF SpanBounded, Bytes, Offset, Items

LEMMA SpanAfterFailure == ASSUME status' # "packing" PROVE SpanBounded'
  BY DEF SpanBounded

LEMMA SpanOfTakeEnds == ASSUME IInv, SpanBounded, status = "packing", TakeEnds PROVE SpanBounded'
  <1>1. CASE call # "flush"
    BY <1>1, SpanKept DEF TakeEnds, PackUnchanged, Goto, Flushed
  <1>2. CASE call = "flush"
    <2>1. nextSeq = Len(Items) /\ input \in DOMAIN Inputs /\ input' = input /\ entries' = entries
      BY <1>2 DEF TakeEnds, IInv, ControlInv, PackUnchanged
    <2>2. HandedOver' = HandedOver
      BY <1>2, <2>1 DEF TakeEnds, Goto, HandedOver, Flushed, NumItems, Items
    <2>3. Span' = Span
      BY <2>1, <2>2 DEF Span, Offset
    <2> QED
      BY <2>1, <2>3 DEF SpanBounded, Bytes, Offset, Items, TakeEnds, PackUnchanged
  <1> QED
    BY <1>1, <1>2

\* Room was made for what is handed over, and nothing waits to be applied.
LEMMA SpanOfHandOver ==
  ASSUME IInv, SpanBounded, status = "packing", input \in DOMAIN Inputs, nextSeq < Len(Items),
         ~Flushed, batch = <<>>, Fits \/ Bytes(Current) = 0,
         nextSeq' = nextSeq + 1, UNCHANGED <<input, entries, status>>, ~Flushed'
  PROVE  SpanBounded'
  <1>1. /\ Len(Items) \in Nat /\ nextSeq \in Nat /\ Len(entries) = nextEmit /\ HandedOver = nextSeq
        /\ \A k \in 1..Len(Items) : Bytes(k) \in Nat
        /\ Offset(nextSeq) \in Nat /\ Offset(nextEmit) \in Nat
    <2>1. Len(batch) = 0
      OBVIOUS
    <2> QED
      BY <2>1, Places
  <1>2. inflight = Span /\ inflight \in Nat /\ MaxInflight \in Nat
    BY <1>1, PipelineAssumption DEF IInv, InflightExact, TypeOK, Span
  <1>3. /\ Current \in 1..Len(Items)
        /\ Offset(nextSeq + 1) = Offset(nextSeq) + Bytes(Current) /\ Bytes(Current) \in Nat
    <2>1. Current \in 1..Len(Items) /\ Current = nextSeq + 1
      BY <1>1 DEF Current
    <2> QED
      BY <1>1, <2>1, OffsetStep
  <1>4. Span' = Span + Bytes(Current)
    <2>1. HandedOver' = nextSeq + 1
      BY DEF HandedOver
    <2>2. Span' = Offset(nextSeq + 1) - Offset(Len(entries))
      BY <2>1 DEF Span, Offset
    <2> QED
      BY <1>1, <1>3, <2>2 DEF Span
  <1>5. Span' <= MaxInflight \/ \E k \in 1..Len(Items) : Span' <= Bytes(k)
    <2>1. CASE Bytes(Current) = 0
      BY <1>2, <1>4, <2>1 DEF SpanBounded
    <2>2. CASE inflight = 0
      BY <1>2, <1>3, <1>4, <2>2
    <2>3. CASE inflight + Bytes(Current) <= MaxInflight
      BY <1>2, <1>4, <2>3
    <2> QED
      BY <2>1, <2>2, <2>3 DEF Fits
  <1> QED
    BY <1>5 DEF SpanBounded, Bytes, Offset, Items

LEMMA SpanOfSpawnFile == ASSUME IInv, SpanBounded, status = "packing", SpawnFile PROVE SpanBounded'
  <1>1. /\ input \in DOMAIN Inputs /\ nextSeq < Len(Items) /\ batch = <<>> /\ Fits /\ ~Flushed
    BY DEF SpawnFile, IInv, ControlInv, BatchInv, RoomInv, Flushed
  <1> QED
    BY <1>1, SpanOfHandOver DEF SpawnFile, PackUnchanged, Goto, Flushed

LEMMA SpanOfInsertReady == ASSUME IInv, SpanBounded, status = "packing", InsertReady PROVE SpanBounded'
  <1>1. /\ input \in DOMAIN Inputs /\ nextSeq < Len(Items) /\ batch = <<>> /\ ~Flushed
        /\ Items[Current].kind \in {"dir", "zip"} /\ (Items[Current].kind = "zip" => Fits)
    BY DEF InsertReady, IInv, ControlInv, BatchInv, RoomInv, Flushed
  <1>2. Items[Current].kind = "dir" => Bytes(Current) = 0
    <2>1. nextSeq \in Nat
      BY <1>1, Places
    <2> QED
      BY <1>1, <2>1, OffsetStep DEF Current
  <1> QED
    BY <1>1, <1>2, SpanOfHandOver DEF InsertReady, PackUnchanged, Goto, Flushed

\* An applied entry leaves the span.
LEMMA SpanOfApplyEntry == ASSUME IInv, SpanBounded, status = "packing", ApplyEntry PROVE SpanBounded'
  <1>1. input \in DOMAIN Inputs /\ pc = "apply" /\ batch # <<>> /\ batch \in Seq(Nat \ {0})
        /\ entries \in Seq(Nat \ {0})
    BY DEF ApplyEntry, Applying, IInv, ControlInv, TypeOK
  <1>2. Len(batch) \in Nat \ {0}
    BY <1>1
  <1>3. Len(entries') = Len(entries) + 1
    BY <1>1 DEF ApplyEntry
  <1>4. /\ Len(Items) \in Nat /\ Len(entries) \in 0..Len(Items) /\ Len(entries) + 1 \in 0..Len(Items)
        /\ Len(entries) <= Len(entries) + 1
        /\ Offset(HandedOver) \in Nat /\ \A k \in 1..Len(Items) : Bytes(k) \in Nat
    BY <1>1, <1>2, Places
  <1>5. /\ Offset(Len(entries)) <= Offset(Len(entries) + 1)
        /\ Offset(Len(entries)) \in Nat /\ Offset(Len(entries) + 1) \in Nat
    BY <1>1, <1>4, OffsetsIncrease, OffsetType
  <1>6. HandedOver' = HandedOver
    BY DEF ApplyEntry, HandedOver, Flushed, NumItems, Items
  <1>7. Span' = Offset(HandedOver) - Offset(Len(entries) + 1)
    BY <1>3, <1>6 DEF Span, Offset, ApplyEntry
  <1>8. Span' <= Span /\ Span' \in Int /\ Span \in Int
    BY <1>4, <1>5, <1>7 DEF Span
  <1>9. Span' <= MaxInflight \/ \E k \in 1..Len(Items) : Span' <= Bytes(k)
    BY <1>1, <1>4, <1>8, PipelineAssumption DEF SpanBounded
  <1> QED
    BY <1>9 DEF SpanBounded, Bytes, Offset, Items, ApplyEntry

\* The next input starts with an empty span.
LEMMA SpanOfNextInput ==
  ASSUME nextSeq' = 0, entries' = <<>>, ~Flushed'
  PROVE  SpanBounded'
  <1>1. HandedOver' = 0 /\ Len(entries') = 0
    BY DEF HandedOver
  <1>2. Span' = 0
    BY <1>1 DEF Span, Offset
  <1> QED
    BY <1>2, PipelineAssumption DEF SpanBounded

LEMMA SpanStep == IInv /\ SpanBounded /\ [PipeNext]_vars => SpanBounded'
  <1> SUFFICES ASSUME IInv, SpanBounded, [PipeNext]_vars PROVE SpanBounded'
    OBVIOUS
  <1>1. CASE status # "packing"
    <2>1. pc = "stop" /\ status # "packing"
      BY <1>1 DEF IInv
    <2>2. status' = status
      BY <2>1 DEF PipeNext, MainStep, Worker, vars, UnreadableInput, ScanEntry, ScanEnds,
         AllPacked, Receive, ReceivePanic, ReceivedAll, TakeOne, TakeEnds, Admit, ReturnBatch,
         WaitForRoom, SpawnFile, InsertReady, FinishWaits, FinishFlushes, ApplyCrcFails,
         ApplyBlob, ApplyEntry, Applied, SignatureFails, AttachBlob, AttachJar, HashDone,
         HashPanics, HashAborts, ScanFails, StoreFails, AtInput, Deciding, Applying
    <2> QED
      BY <2>1, <2>2, SpanAfterFailure
  <1>2. CASE status = "packing"
    <2> USE <1>2
    <2> USE DEF PackUnchanged, CountersUnchanged, Goto, Flushed, mainVars
    <2>1. ASSUME NEW reason, FailWith(reason) PROVE SpanBounded'
      BY <2>1, SpanAfterFailure DEF FailWith
    <2>2. CASE UnreadableInput
      <3>1. CASE Strict
        BY <2>1, <2>2, <3>1 DEF UnreadableInput
      <3>2. CASE ~Strict
        <4>1. nextSeq = 0 /\ pc = "scan" /\ entries = <<>>
          <5>1. nextSeq = 0 /\ pc = "scan" /\ input \in DOMAIN Inputs
            BY <2>2 DEF UnreadableInput, AtInput, IInv, ControlInv
          <5>2. Len(entries) = 0 /\ entries \in Seq(Nat \ {0})
            BY <5>1, Places DEF IInv, TypeOK
          <5> QED
            BY <5>1, <5>2
        <4> QED
          BY <2>2, <3>2, <4>1, SpanOfNextInput DEF UnreadableInput
      <3> QED
        BY <3>1, <3>2
    <2>3. CASE ScanEntry
      BY <2>3, SpanKept DEF ScanEntry, AtInput
    <2>4. CASE ScanEnds
      BY <2>4, SpanKept DEF ScanEnds, AtInput
    <2>5. CASE AllPacked
      BY <2>5, SpanAfterFailure DEF AllPacked
    <2>6. CASE Receive
      BY <2>6, SpanKept DEF Receive
    <2>7. CASE ReceivePanic
      BY <2>1, <2>7 DEF ReceivePanic
    <2>8. CASE ReceivedAll
      BY <2>8, SpanKept DEF ReceivedAll
    <2>9. CASE TakeOne
      BY <2>9, SpanKept DEF TakeOne
    <2>10. CASE TakeEnds
      BY <2>10, SpanOfTakeEnds
    <2>11. CASE Admit
      BY <2>11, SpanKept DEF Admit, Deciding
    <2>12. CASE ReturnBatch
      BY <2>12, SpanKept DEF ReturnBatch, Deciding
    <2>13. CASE WaitForRoom
      BY <2>1, <2>13, SpanKept DEF WaitForRoom, Deciding
    <2>14. CASE SpawnFile
      BY <2>14, SpanOfSpawnFile
    <2>15. CASE InsertReady
      BY <2>15, SpanOfInsertReady
    <2>16. CASE FinishWaits
      BY <2>16, SpanKept DEF FinishWaits
    <2>17. CASE FinishFlushes
      BY <2>17, SpanKept DEF FinishFlushes
    <2>18. CASE ApplyCrcFails
      BY <2>1, <2>18 DEF ApplyCrcFails
    <2>19. CASE ApplyBlob
      BY <2>19, SpanKept DEF ApplyBlob
    <2>20. CASE ApplyEntry
      BY <2>20, SpanOfApplyEntry
    <2>21. CASE Applied
      BY <2>21, SpanKept DEF Applied
    <2>22. CASE SignatureFails
      BY <2>1, <2>22 DEF SignatureFails
    <2>23. CASE AttachBlob
      BY <2>23, SpanKept DEF AttachBlob
    <2>24. CASE AttachJar
      <3>1. nextSeq = 0
        BY <2>24 DEF AttachJar, IInv, ControlInv
      <3> QED
        BY <2>24, <3>1, SpanOfNextInput DEF AttachJar
    <2>25. CASE Worker
      BY <2>25, SpanKept DEF Worker, HashDone, HashPanics
    <2>26. CASE HashAborts
      BY <2>1, <2>26 DEF HashAborts
    <2>27. CASE ScanFails
      BY <2>1, <2>27 DEF ScanFails
    <2>28. CASE StoreFails
      BY <2>1, <2>28 DEF StoreFails
    <2>29. CASE UNCHANGED vars
      BY <2>29, SpanKept DEF vars
    <2> QED
      BY <2>2, <2>3, <2>4, <2>5, <2>6, <2>7, <2>8, <2>9, <2>10, <2>11, <2>12, <2>13, <2>14,
         <2>15, <2>16, <2>17, <2>18, <2>19, <2>20, <2>21, <2>22, <2>23, <2>24, <2>25, <2>26,
         <2>27, <2>28, <2>29 DEF PipeNext, MainStep
  <1> QED
    BY <1>1, <1>2

\* The charged payloads alive at any moment stay within --max-inflight-bytes,
\* or within one entry that is larger than it (wait_admit, take_in_order).
THEOREM MemoryIsBounded == PipeSpec => []HeldBounded
  <1>1. PipeInit => SpanBounded
    <2> SUFFICES ASSUME PipeInit PROVE SpanBounded
      OBVIOUS
    <2>1. nextSeq = 0 /\ entries = <<>> /\ ~Flushed /\ Len(entries) = 0
      BY DEF PipeInit, Init, Flushed
    <2>2. Span = 0
      BY <2>1 DEF Span, HandedOver, Offset
    <2> QED
      BY <2>2, PipelineAssumption DEF SpanBounded
  <1>2. IInv /\ SpanBounded /\ [PipeNext]_vars => SpanBounded'
    BY SpanStep
  <1>3. IInv /\ SpanBounded => HeldBounded
    BY HeldIsBounded
  <1> QED
    BY <1>1, <1>2, <1>3, PipelineInvariant, PTL DEF PipeSpec

=============================================================================
