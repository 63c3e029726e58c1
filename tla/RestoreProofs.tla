---------------------------- MODULE RestoreProofs -----------------------------
(***************************************************************************)
(* Proof that the names in a pack are unique, and that it has each path    *)
(* that the command reaches once; that a restore without                   *)
(* --overwrite, --clean and --restore-paths leaves every file alone that   *)
(* was there; and that a run that succeeds has restored every JAR and one  *)
(* that does not leaves each destination old or new, provided no JAR has   *)
(* the sibling name of another one.  All for any arguments, number of JARs *)
(* and runs.                                                               *)
(***************************************************************************)
EXTENDS RestoreInv, NumberLemmas

IsSeq(s) == \E S : s \in Seq(S)

LEMMA AppendIsSeq ==
  ASSUME NEW s, IsSeq(s), NEW e
  PROVE  /\ IsSeq(Append(s, e)) /\ Len(Append(s, e)) = Len(s) + 1
         /\ Len(s) \in Nat /\ DOMAIN s = 1..Len(s)
         /\ DOMAIN Append(s, e) = 1..(Len(s) + 1)
         /\ \A i \in DOMAIN s : Append(s, e)[i] = s[i]
         /\ Append(s, e)[Len(s) + 1] = e
  <1>1. PICK S : s \in Seq(S)
    BY DEF IsSeq
  <1>2. s \in Seq(S \cup {e})
    BY <1>1
  <1>3. Append(s, e) \in Seq(S \cup {e})
    BY <1>2
  <1> QED
    BY <1>2, <1>3 DEF IsSeq

-----------------------------------------------------------------------------
(* The names.                                                              *)

\* What unique_basename returns is a base name, and one no JAR has.
LEMMA NewNameIsNew ==
  ASSUME NEW p, NEW used, unique_basename(BaseName(p), used) # None
  PROVE  LET name == unique_basename(BaseName(p), used)[1]
         IN  name \notin used /\ name = BaseName(name)
  <1> DEFINE base == BaseName(p)
  <1> DEFINE free == {n \in 1..MaxCopies : Candidate(base, n) \notin used}
             first == CHOOSE n \in free : \A m \in free : n <= m
  <1>1. unique_basename(base, used) = Some(Candidate(base, first)) /\ free # {}
    BY DEF unique_basename
  <1>2. \E n \in free : \A m \in free : n <= m
    <2>1. free \subseteq Nat
      BY CopiesAssumption
    <2> HIDE DEF free
    <2> QED
      BY <1>1, <2>1, LeastExists
  <1>3. first \in free
    <2> HIDE DEF free
    <2> QED
      BY <1>2
  <1>4. Candidate(base, first) \notin used
    BY <1>3
  <1>5. Candidate(base, first) = BaseName(Candidate(base, first))
    <2> HIDE DEF first
    <2> QED
      BY DEF Candidate, BaseName
  <1> HIDE DEF first
  <1> QED
    BY <1>1, <1>4, <1>5 DEF Some

NamesInv ==
  /\ IsSeq(jars)
  /\ NamesAreUnique
  /\ \A j \in DOMAIN jars : jars[j].name = BaseName(jars[j].name)

LEMMA OthersKeepJars == Next => NameJar \/ UNCHANGED jars
  BY DEF Next, SkipInput, Packed, Start, SkipUnselected, GuardHome, GuardName,
         CreateTmp, CreateTmpFails, WriteJar, WriteJarFails, Replaced, Rename,
         RenameFails, UnlinkDest, UnlinkFails, RenameAgain, RenameAgainFails,
         ApplyAttrs, DropTmp, Finish, Kill, Rerun, Goto, Same, ToNext, packing

LEMMA NameJarKeepsUnique == NamesInv /\ NameJar => NamesInv'
  <1> SUFFICES ASSUME NamesInv, NameJar PROVE NamesInv'
    OBVIOUS
  <1> DEFINE used == {jars[j].name : j \in DOMAIN jars}
             name == unique_basename(BaseName(Head(todo)), used)
             jar == [name |-> name[1], source_path |-> Head(todo),
                     restore_path |-> IF stamped THEN Some(Canonical[Head(todo)]) ELSE None]
  <1>1. CASE name = None
    BY <1>1 DEF NameJar, NamesInv, NamesAreUnique
  <1>2. CASE name # None
    <2>1. jars' = Append(jars, jar)
      BY <1>2 DEF NameJar
    <2>2. name[1] \notin used /\ name[1] = BaseName(name[1])
      BY <1>2, NewNameIsNew
    <2>3. jar.name \notin used /\ jar.name = BaseName(jar.name)
      BY <2>2
    <2> HIDE DEF jar, name
    <2> QED
      BY <2>1, <2>3, AppendIsSeq DEF NamesInv, NamesAreUnique
  <1> QED
    BY <1>1, <1>2

LEMMA NamesInductive == Spec => []NamesInv
  <1>1. Init => NamesInv
    <2>1. <<>> \in Seq({})
      OBVIOUS
    <2> QED
      BY <2>1 DEF Init, NamesInv, IsSeq, NamesAreUnique
  <1>2. NamesInv /\ [Next]_vars => NamesInv'
    <2>1. NamesInv /\ UNCHANGED jars => NamesInv'
      BY DEF NamesInv, NamesAreUnique
    <2> QED
      BY <2>1, OthersKeepJars, NameJarKeepsUnique DEF vars, packing
  <1> QED
    BY <1>1, <1>2, PTL DEF Spec

\* No two JARs of a pack have one name, whatever the arguments, the order of the
\* walk and the number of JARs: NameJar appends a name that is not there yet.
THEOREM PackHasUniqueNames == Spec => []NamesAreUnique
  <1>1. NamesInv => NamesAreUnique
    BY DEF NamesInv
  <1> QED
    BY <1>1, NamesInductive, PTL

-----------------------------------------------------------------------------
(* The inputs: selections, duplicates and the sort.                        *)

LEMMA PickedElements ==
  ASSUME NEW E, NEW s \in Seq(E), NEW S \in SUBSET (DOMAIN s)
  PROVE  /\ Picked(s, S) \in Seq(E)
         /\ ToSet(Picked(s, S)) = {s[i] : i \in S}
         /\ \A k, l \in DOMAIN Picked(s, S) : k < l =>
              \E i, j \in S : i < j /\ Picked(s, S)[k] = s[i] /\ Picked(s, S)[l] = s[j]
  <1>1. Len(s) \in Nat /\ S \in SUBSET (1..Len(s)) /\ \A i \in S : s[i] \in E
    OBVIOUS
  <1>2. Cardinality(S) \in Nat /\ DOMAIN Picked(s, S) = 1..Cardinality(S)
    BY <1>1, CountUpTo DEF Picked
  <1>3. \A k \in 1..Cardinality(S) : Nth(S, k) \in S /\ Picked(s, S)[k] = s[Nth(S, k)]
    BY <1>1, NthIsMember DEF Picked
  <1>4. Picked(s, S) \in Seq(E)
    BY <1>1, <1>2, <1>3 DEF Picked
  <1>5. \A i \in S : UpTo(S, i) \in 1..Cardinality(S) /\ Nth(S, UpTo(S, i)) = i
    BY <1>1, NthOfPosition
  <1>6. \A i \in S : \E k \in DOMAIN Picked(s, S) : Picked(s, S)[k] = s[i]
    <2> TAKE i \in S
    <2>1. UpTo(S, i) \in DOMAIN Picked(s, S)
      BY <1>2, <1>5
    <2>2. Picked(s, S)[UpTo(S, i)] = s[i]
      BY <1>3, <1>5
    <2> QED
      BY <2>1, <2>2
  <1>7. ToSet(Picked(s, S)) = {s[i] : i \in S}
    BY <1>2, <1>3, <1>6 DEF ToSet
  <1>8. ASSUME NEW k \in DOMAIN Picked(s, S), NEW l \in DOMAIN Picked(s, S), k < l
        PROVE  \E i, j \in S : i < j /\ Picked(s, S)[k] = s[i] /\ Picked(s, S)[l] = s[j]
    <2>1. k \in 1..Cardinality(S) /\ l \in 1..Cardinality(S)
      BY <1>2
    <2>2. Nth(S, k) < Nth(S, l)
      BY <1>1, <1>8, <2>1, NthIsMonotone
    <2> QED
      BY <1>3, <2>1, <2>2
  <1> QED
    BY <1>4, <1>7, <1>8

\* Without duplicates a list has the same elements, in the order in which each
\* is met first.
LEMMA DedupedInputs ==
  ASSUME NEW E, NEW s \in Seq(E)
  PROVE  /\ dedupe_inputs(s) \in Seq(E)
         /\ ToSet(dedupe_inputs(s)) = ToSet(s)
         /\ IsInjective(dedupe_inputs(s))
         /\ \A k, l \in DOMAIN dedupe_inputs(s) : k < l =>
              \E i, j \in DOMAIN s : i < j /\ dedupe_inputs(s)[k] = s[i] /\ dedupe_inputs(s)[l] = s[j]
  <1> DEFINE S == {i \in DOMAIN s : \A j \in 1..(i - 1) : s[j] # s[i]}
             d == dedupe_inputs(s)
  <1>1. d = Picked(s, S) /\ S \in SUBSET (DOMAIN s)
    BY DEF dedupe_inputs
  <1>2. \A i \in DOMAIN s : \E k \in S : s[k] = s[i]
    <2> TAKE i \in DOMAIN s
    <2> DEFINE T == {k \in DOMAIN s : s[k] = s[i]}
    <2>1. PICK k \in T : \A m \in T : k <= m
      <3>1. T \subseteq Nat /\ T # {}
        OBVIOUS
      <3> HIDE DEF T
      <3> QED
        BY <3>1, LeastExists
    <2>2. \A m \in 1..(k - 1) : m \in DOMAIN s /\ ~(k <= m)
      OBVIOUS
    <2>3. \A m \in 1..(k - 1) : s[m] # s[k]
      BY <2>1, <2>2
    <2> QED
      BY <2>3
  <1>3. \A i, j \in S : i < j => s[i] # s[j]
    <2> TAKE i, j \in S
    <2> HAVE i < j
    <2>1. i \in 1..(j - 1)
      OBVIOUS
    <2> QED
      BY <2>1
  <1> HIDE DEF S
  <1>4. /\ d \in Seq(E) /\ ToSet(d) = {s[i] : i \in S}
        /\ \A k, l \in DOMAIN d : k < l =>
              \E i, j \in S : i < j /\ d[k] = s[i] /\ d[l] = s[j]
    BY <1>1, PickedElements
  <1>5. ToSet(d) = ToSet(s)
    <2> HIDE DEF d
    <2>1. \A i \in S : i \in DOMAIN s
      BY <1>1
    <2>2. {s[i] : i \in S} = {s[i] : i \in DOMAIN s}
      BY <1>2, <2>1
    <2> QED
      BY <1>4, <2>2 DEF ToSet
  <1> HIDE DEF d
  <1>6. \A k, l \in DOMAIN d : k < l => d[k] # d[l]
    BY <1>3, <1>4
  <1>7. \A k, l \in DOMAIN d : k < l \/ l < k \/ k = l
    BY <1>4
  <1>8. IsInjective(d)
    BY <1>6, <1>7 DEF IsInjective
  <1>9. \A k, l \in DOMAIN d : k < l =>
              \E i, j \in DOMAIN s : i < j /\ d[k] = s[i] /\ d[l] = s[j]
    BY <1>1, <1>4
  <1> QED
    BY <1>4, <1>5, <1>8, <1>9 DEF d

\* The order of paths is a strict total order.
LEMMA PathsAreOrdered ==
  /\ \A p \in DOMAIN Kind : ~PathLess(p, p)
  /\ \A p, q \in DOMAIN Kind : PathLess(p, q) \/ PathLess(q, p) \/ p = q
  /\ \A p, q, r \in DOMAIN Kind : PathLess(p, q) /\ PathLess(q, r) => PathLess(p, r)
  <1>1. /\ \A i, j \in DOMAIN PathOrder : PathOrder[i] = PathOrder[j] => i = j
        /\ \A p \in DOMAIN Kind : \E i \in DOMAIN PathOrder : PathOrder[i] = p
        /\ \A i \in DOMAIN PathOrder : i \in Int
    BY PathsAssumption DEF IsInjective, ToSet
  <1>2. \A p \in DOMAIN Kind : ~PathLess(p, p)
    BY <1>1 DEF PathLess
  <1>3. ASSUME NEW p \in DOMAIN Kind, NEW q \in DOMAIN Kind
        PROVE  PathLess(p, q) \/ PathLess(q, p) \/ p = q
    <2>1. PICK i \in DOMAIN PathOrder : PathOrder[i] = p
      BY <1>1
    <2>2. PICK j \in DOMAIN PathOrder : PathOrder[j] = q
      BY <1>1
    <2>3. i < j \/ j < i \/ i = j
      BY <1>1
    <2> QED
      BY <2>1, <2>2, <2>3 DEF PathLess
  <1>4. ASSUME NEW p \in DOMAIN Kind, NEW q \in DOMAIN Kind, NEW r \in DOMAIN Kind,
               PathLess(p, q), PathLess(q, r)
        PROVE  PathLess(p, r)
    <2>1. PICK i \in DOMAIN PathOrder, j \in DOMAIN PathOrder :
            i < j /\ PathOrder[i] = p /\ PathOrder[j] = q
      BY <1>4 DEF PathLess
    <2>2. PICK k \in DOMAIN PathOrder, l \in DOMAIN PathOrder :
            k < l /\ PathOrder[k] = q /\ PathOrder[l] = r
      BY <1>4 DEF PathLess
    <2>3. j = k
      BY <1>1, <2>1, <2>2
    <2>4. i < l
      BY <1>1, <2>1, <2>2, <2>3
    <2> QED
      BY <2>1, <2>2, <2>4 DEF PathLess
  <1> QED
    BY <1>2, <1>3, <1>4

\* The sort is a permutation, and what it puts earlier is not larger.
LEMMA SortedInputs ==
  ASSUME NEW s \in Seq(DOMAIN Kind)
  PROVE  /\ Sorted(s) \in Seq(DOMAIN Kind)
         /\ ToSet(Sorted(s)) = ToSet(s)
         /\ \A k, l \in DOMAIN Sorted(s) : k < l =>
              PathLess(Sorted(s)[k], Sorted(s)[l]) \/ Sorted(s)[k] = Sorted(s)[l]
  <1> DEFINE n == Len(s)
             Before(j, i) == PathLess(s[j], s[i]) \/ (s[j] = s[i] /\ j <= i)
             Down(i) == {j \in 1..n : Before(j, i)}
             place == [i \in 1..n |-> Place(s, i)]
             At(k) == CHOOSE i \in 1..n : Place(s, i) = k
  <1>1. n \in Nat /\ DOMAIN s = 1..n /\ \A i \in 1..n : s[i] \in DOMAIN Kind
    OBVIOUS
  <1>2. IsFiniteSet(1..n) /\ Cardinality(1..n) = n
    <2>1. PICK m : m = n
      OBVIOUS
    <2>2. 1 \in Int /\ m \in Nat /\ m \in Int
      BY <1>1, <2>1
    <2>3. /\ IsFiniteSet(1..m)
          /\ Cardinality(1..m) = IF 1 > m THEN 0 ELSE m - 1 + 1
      BY <2>2, FS_Interval
    <2>4. Cardinality(1..m) = m
      BY <2>2, <2>3
    <2> QED
      BY <2>1, <2>3, <2>4
  <1>3. \A i \in 1..n : Place(s, i) = Cardinality(Down(i))
    BY <1>1 DEF Place
  <1>4. /\ \A i \in 1..n : Before(i, i)
        /\ \A i, j \in 1..n : Before(i, j) \/ Before(j, i)
        /\ \A i, j \in 1..n : Before(i, j) /\ Before(j, i) => i = j
        /\ \A i, j, k \in 1..n : Before(i, j) /\ Before(j, k) => Before(i, k)
    <2>1. \A i \in 1..n : Before(i, i)
      BY <1>1
    <2>2. ASSUME NEW i \in 1..n, NEW j \in 1..n PROVE Before(i, j) \/ Before(j, i)
      <3>1. i <= j \/ j <= i
        BY <1>1
      <3> QED
        BY <1>1, <3>1, PathsAreOrdered
    <2>3. ASSUME NEW i \in 1..n, NEW j \in 1..n, Before(i, j), Before(j, i) PROVE i = j
      <3>1. ~(PathLess(s[i], s[j]) /\ PathLess(s[j], s[i]))
        BY <1>1, PathsAreOrdered
      <3>2. s[i] = s[j] => ~PathLess(s[i], s[j]) /\ ~PathLess(s[j], s[i])
        BY <1>1, PathsAreOrdered
      <3>3. i <= j /\ j <= i
        BY <2>3, <3>1, <3>2
      <3> QED
        BY <1>1, <3>3
    <2>4. ASSUME NEW i \in 1..n, NEW j \in 1..n, NEW k \in 1..n, Before(i, j), Before(j, k)
          PROVE  Before(i, k)
      <3>1. i <= j /\ j <= k => i <= k
        BY <1>1
      <3>2. s[i] \in DOMAIN Kind /\ s[j] \in DOMAIN Kind /\ s[k] \in DOMAIN Kind
        BY <1>1
      <3>3. PathLess(s[i], s[j]) /\ PathLess(s[j], s[k]) => PathLess(s[i], s[k])
        BY <3>2, PathsAreOrdered
      <3> QED
        BY <2>4, <3>1, <3>3
    <2> QED
      BY <2>1, <2>2, <2>3, <2>4
  <1> HIDE DEF Before
  <1>5. \A i \in 1..n : /\ IsFiniteSet(Down(i)) /\ Cardinality(Down(i)) \in 1..n
    <2> TAKE i \in 1..n
    <2>1. Down(i) \in SUBSET (1..n) /\ i \in Down(i)
      BY <1>4
    <2>2. IsFiniteSet(Down(i)) /\ Cardinality(Down(i)) <= n
      BY <1>2, <2>1, FS_Subset
    <2>3. Cardinality(Down(i)) \in Nat /\ Cardinality(Down(i)) # 0
      BY <2>1, <2>2, FS_CardinalityType, FS_EmptySet
    <2> QED
      BY <1>1, <2>2, <2>3
  <1>6. \A i, j \in 1..n : Before(i, j) => Down(i) \in SUBSET Down(j)
    BY <1>4
  <1>7. ASSUME NEW i \in 1..n, NEW j \in 1..n, Place(s, i) = Place(s, j) PROVE i = j
    <2>1. ASSUME NEW x \in 1..n, NEW y \in 1..n, Place(s, x) = Place(s, y), Before(x, y)
          PROVE  x = y
      <3>1. Down(x) = Down(y)
        BY <1>3, <1>5, <1>6, <2>1, FS_Subset
      <3>2. Before(y, x)
        BY <1>4, <3>1
      <3> QED
        BY <1>4, <2>1, <3>2
    <2> QED
      BY <1>4, <1>7, <2>1
  <1>8. place \in Surjection(1..n, 1..n)
    <2>1. place \in [1..n -> 1..n]
      BY <1>3, <1>5
    <2>2. place \in Injection(1..n, 1..n)
      BY <1>7, <2>1 DEF Injection, IsInjective
    <2> HIDE DEF place
    <2> QED
      BY <1>2, <2>2, FS_Injection
  <1>9. \A k \in 1..n : \E i \in 1..n : Place(s, i) = k
    BY <1>8 DEF Surjection
  <1>10. \A k \in 1..n : At(k) \in 1..n /\ Place(s, At(k)) = k
    BY <1>9
  <1>11. Sorted(s) = [k \in 1..n |-> s[At(k)]]
    BY <1>1 DEF Sorted
  <1> HIDE DEF At
  <1>12. DOMAIN Sorted(s) = 1..n /\ \A k \in 1..n : Sorted(s)[k] = s[At(k)]
    BY <1>11
  <1>13. Sorted(s) \in Seq(DOMAIN Kind)
    BY <1>1, <1>10, <1>11
  <1>14. ASSUME NEW i \in 1..n PROVE Place(s, i) \in 1..n /\ At(Place(s, i)) = i
    <2>1. Place(s, i) \in 1..n
      BY <1>3, <1>5
    <2>2. At(Place(s, i)) \in 1..n /\ Place(s, At(Place(s, i))) = Place(s, i)
      BY <1>10, <2>1
    <2> QED
      BY <1>7, <2>1, <2>2
  <1>15. ToSet(Sorted(s)) = ToSet(s)
    BY <1>1, <1>10, <1>12, <1>14 DEF ToSet
  <1>16. ASSUME NEW k \in 1..n, NEW l \in 1..n, k < l
         PROVE  PathLess(s[At(k)], s[At(l)]) \/ s[At(k)] = s[At(l)]
    <2>1. ~Before(At(l), At(k))
      <3>1. SUFFICES ASSUME Before(At(l), At(k)) PROVE FALSE
        OBVIOUS
      <3>2. Cardinality(Down(At(l))) <= Cardinality(Down(At(k)))
        BY <1>5, <1>6, <1>10, <3>1, FS_Subset
      <3>3. l <= k
        BY <1>3, <1>10, <3>2
      <3> QED
        BY <1>1, <1>16, <3>3
    <2> QED
      BY <1>4, <1>10, <2>1 DEF Before
  <1> QED
    BY <1>12, <1>13, <1>15, <1>16

\* A walk lists what is below the directory, each path once.
LEMMA WalkedPaths ==
  ASSUME NEW d \in DOMAIN Below, NEW walk \in WalkOrders(d)
  PROVE  walk \in Seq(DOMAIN Kind) /\ ToSet(walk) = Below[d]
  <1> DEFINE n == Cardinality(Below[d])
  <1>1. IsFiniteSet(Below[d]) /\ n \in Nat /\ Below[d] \subseteq DOMAIN Kind
    <2>1. IsFiniteSet(1..Len(PathOrder))
      <3>1. Len(PathOrder) \in Int
        BY PathsAssumption
      <3> QED
        BY <3>1, FS_Interval
    <2>2. PathOrder \in Surjection(1..Len(PathOrder), DOMAIN Kind)
      BY PathsAssumption DEF Surjection, ToSet
    <2>3. IsFiniteSet(DOMAIN Kind)
      BY <2>1, <2>2, FS_Surjection
    <2> QED
      BY <2>3, PathsAssumption, FS_Subset, FS_CardinalityType
  <1>2. walk \in [1..n -> Below[d]] /\ \A i, j \in 1..n : i # j => walk[i] # walk[j]
    BY DEF WalkOrders, SetToSeqs
  <1>3. walk \in Injection(1..n, Below[d])
    BY <1>2 DEF Injection, IsInjective
  <1>4. Cardinality(1..n) = n
    BY <1>1, FS_Interval
  <1>5. walk \in Surjection(1..n, Below[d])
    BY <1>1, <1>3, <1>4, FS_Injection
  <1>6. ToSet(walk) = Below[d]
    BY <1>2, <1>5 DEF Surjection, ToSet
  <1>7. walk \in Seq(DOMAIN Kind)
    BY <1>1, <1>2
  <1> QED
    BY <1>6, <1>7

\* What expand_inputs returns has each path once, the files among them are those
\* the command reaches, and with --sort-inputs they are in order.
LEMMA ExpandedInputs ==
  ASSUME NEW c \in Commands, NEW walks, \A d \in DOMAIN Below : walks[d] \in WalkOrders(d),
         expand_inputs(c.args, c, walks) # None
  PROVE  LET inputs == expand_inputs(c.args, c, walks)[1]
         IN  /\ inputs \in Seq(DOMAIN Kind) /\ IsInjective(inputs)
             /\ {p \in ToSet(inputs) : Kind[p] = "file"} = Reached(c)
             /\ c.sort => \A k, l \in DOMAIN inputs : k < l => PathLess(inputs[k], inputs[l])
  <1> DEFINE S == {i \in DOMAIN c.args : ~path_excluded(c.args[i], c.exclude)}
             kept == Picked(c.args, S)
             part(p) == IF Kind[p] = "dir" /\ c.recursive
                        THEN expand_dir(walks[p], c.exclude, c.strict) ELSE Some(<<p>>)
             parts == [i \in DOMAIN kept |-> part(kept[i])[1]]
             all == FlattenSeq(parts)
             ordered == IF c.sort THEN Sorted(all) ELSE all
             inputs == expand_inputs(c.args, c, walks)[1]
             Keep == {p \in ToSet(c.args) : ~path_excluded(p, c.exclude)}
             Found(d) == {p \in Below[d] : /\ Kind[p] = "file" /\ is_archive_path(p)
                                           /\ ~path_excluded(p, c.exclude)}
  <1>1. inputs = dedupe_inputs(ordered) /\ \A i \in DOMAIN kept : part(kept[i]) # None
    BY DEF expand_inputs, Some
  <1>2. kept \in Seq(DOMAIN Kind) /\ ToSet(kept) = Keep
    <2>1. c.args \in Seq(DOMAIN Kind) /\ S \in SUBSET (DOMAIN c.args)
      BY RestoreAssumption
    <2>2. kept \in Seq(DOMAIN Kind) /\ ToSet(kept) = {c.args[i] : i \in S}
      <3> HIDE DEF S
      <3> QED
        BY <2>1, PickedElements
    <2>3. {c.args[i] : i \in S} = Keep
      BY DEF ToSet
    <2> QED
      BY <2>2, <2>3
  <1> HIDE DEF S, kept
  <1>3. ASSUME NEW p \in DOMAIN Kind, part(p) # None
        PROVE  /\ part(p)[1] \in Seq(DOMAIN Kind)
               /\ ToSet(part(p)[1]) = IF Kind[p] = "dir" /\ c.recursive THEN Found(p) ELSE {p}
    <2>1. CASE Kind[p] = "dir" /\ c.recursive
      <3> DEFINE walk == walks[p]
                 F == {i \in DOMAIN walk : /\ Kind[walk[i]] = "file" /\ is_archive_path(walk[i])
                                           /\ ~path_excluded(walk[i], c.exclude)}
      <3>1. walk \in Seq(DOMAIN Kind) /\ ToSet(walk) = Below[p]
        BY <2>1, PathsAssumption, WalkedPaths
      <3>2. part(p)[1] = Picked(walk, F) /\ F \in SUBSET (DOMAIN walk)
        BY <1>3, <2>1 DEF expand_dir, Some
      <3>3. {walk[i] : i \in F} = Found(p)
        BY <3>1 DEF ToSet
      <3> HIDE DEF F, walk
      <3>4. Picked(walk, F) \in Seq(DOMAIN Kind) /\ ToSet(Picked(walk, F)) = {walk[i] : i \in F}
        BY <3>1, <3>2, PickedElements
      <3> QED
        BY <2>1, <3>2, <3>3, <3>4
    <2>2. CASE ~(Kind[p] = "dir" /\ c.recursive)
      <3>1. part(p)[1] = <<p>>
        BY <2>2 DEF Some
      <3>2. <<p>> \in Seq(DOMAIN Kind) /\ ToSet(<<p>>) = {p}
        BY DEF ToSet
      <3> QED
        BY <2>2, <3>1, <3>2
    <2> QED
      BY <2>1, <2>2
  <1>4. \A i \in DOMAIN kept : kept[i] \in DOMAIN Kind
    BY <1>2
  <1> HIDE DEF part
  <1>5. parts \in Seq(Seq(DOMAIN Kind)) /\ DOMAIN parts = DOMAIN kept
    <2>1. \A i \in DOMAIN kept : part(kept[i])[1] \in Seq(DOMAIN Kind)
      BY <1>1, <1>3, <1>4
    <2>2. DOMAIN kept = 1..Len(kept) /\ Len(kept) \in Nat
      BY <1>2
    <2> QED
      BY <2>1, <2>2
  <1>6. all \in Seq(DOMAIN Kind) /\ ToSet(all) = UNION {ToSet(parts[i]) : i \in DOMAIN parts}
    <2> HIDE DEF parts
    <2> QED
      BY <1>5, FlattenedElements
  <1>7. ToSet(all) = UNION {IF Kind[p] = "dir" /\ c.recursive THEN Found(p) ELSE {p} : p \in Keep}
    <2> DEFINE Part(p) == IF Kind[p] = "dir" /\ c.recursive THEN Found(p) ELSE {p}
    <2>1. \A i \in DOMAIN kept : ToSet(parts[i]) = Part(kept[i])
      BY <1>1, <1>3, <1>4
    <2>2. Keep = {kept[i] : i \in DOMAIN kept}
      BY <1>2 DEF ToSet
    <2> HIDE DEF parts, all, Part, Keep
    <2>3. UNION {ToSet(parts[i]) : i \in DOMAIN parts} = UNION {Part(p) : p \in Keep}
      BY <1>5, <2>1, <2>2
    <2> QED
      BY <1>6, <2>3 DEF Part
  <1> HIDE DEF all
  <1>8. /\ ordered \in Seq(DOMAIN Kind) /\ ToSet(ordered) = ToSet(all)
        /\ c.sort => \A k, l \in DOMAIN ordered : k < l =>
                       PathLess(ordered[k], ordered[l]) \/ ordered[k] = ordered[l]
    BY <1>6, SortedInputs
  <1> HIDE DEF ordered
  <1>9. /\ inputs \in Seq(DOMAIN Kind) /\ ToSet(inputs) = ToSet(all) /\ IsInjective(inputs)
        /\ \A k, l \in DOMAIN inputs : k < l =>
             \E i, j \in DOMAIN ordered : i < j /\ inputs[k] = ordered[i] /\ inputs[l] = ordered[j]
    BY <1>1, <1>8, DedupedInputs
  <1> HIDE DEF inputs
  <1>10. {p \in ToSet(inputs) : Kind[p] = "file"} = Reached(c)
    <2>1. Keep \subseteq DOMAIN Kind
      BY <1>2 DEF ToSet
    <2>2. Keep \cap DOMAIN Below = {p \in Keep : Kind[p] = "dir"}
      BY <2>1, PathsAssumption
    <2>3. Reached(c) = {p \in Keep : Kind[p] = "file"}
                         \cup UNION {Found(d) : d \in {p \in Keep : Kind[p] = "dir" /\ c.recursive}}
      BY <2>2 DEF Reached
    <2>4. \A p : Kind[p] = "file" => Kind[p] # "dir"
      OBVIOUS
    <2>5. \A d : \A p \in Found(d) : Kind[p] = "file"
      OBVIOUS
    <2> HIDE DEF Found, Keep
    <2> QED
      BY <1>7, <1>9, <2>3, <2>4, <2>5
  <1>11. c.sort => \A k, l \in DOMAIN inputs : k < l => PathLess(inputs[k], inputs[l])
    <2>1. \A k, l \in DOMAIN inputs : k < l => inputs[k] # inputs[l]
      BY <1>9 DEF IsInjective
    <2> QED
      BY <1>8, <1>9, <2>1
  <1> QED
    BY <1>9, <1>10, <1>11 DEF inputs

\* While dehydrate names the JARs, those in the catalog and the files still to do
\* are the files that the command reaches, each once and in order; once it is
\* done nothing is left to do.
Source(j) == jars[j].source_path

PackInv ==
  pc # "unpacked" =>
    /\ todo \in Seq(DOMAIN Kind)
    /\ pc # "pack" => todo = <<>>
    /\ {Source(j) : j \in DOMAIN jars} \cup {p \in ToSet(todo) : Kind[p] = "file"} = Reached(command)
    /\ IsInjective(todo)
    /\ \A i, j \in DOMAIN jars : Source(i) = Source(j) => i = j
    /\ \A j \in DOMAIN jars : Source(j) \notin ToSet(todo)
    /\ command.sort =>
         /\ \A i, j \in DOMAIN jars : i < j => PathLess(Source(i), Source(j))
         /\ \A k, l \in DOMAIN todo : k < l => PathLess(todo[k], todo[l])
         /\ \A j \in DOMAIN jars, k \in DOMAIN todo : PathLess(Source(j), todo[k])

LEMMA PackStarts == Init => PackInv
  <1> SUFFICES ASSUME Init PROVE PackInv
    OBVIOUS
  <1>1. PICK walks : /\ \A d \in DOMAIN Below : walks[d] \in WalkOrders(d)
                     /\ LET inputs == expand_inputs(command.args, command, walks)
                        IN  /\ todo = IF inputs = None THEN <<>> ELSE inputs[1]
                            /\ pc = IF inputs = None THEN "unpacked" ELSE "pack"
    BY DEF Init
  <1>2. CASE expand_inputs(command.args, command, walks) = None
    BY <1>1, <1>2 DEF PackInv
  <1>3. CASE expand_inputs(command.args, command, walks) # None
    <2>1. /\ todo \in Seq(DOMAIN Kind) /\ IsInjective(todo) /\ pc = "pack"
          /\ {p \in ToSet(todo) : Kind[p] = "file"} = Reached(command)
          /\ command.sort => \A k, l \in DOMAIN todo : k < l => PathLess(todo[k], todo[l])
      <3>1. command \in Commands
        BY DEF Init
      <3> QED
        BY <1>1, <1>3, <3>1, ExpandedInputs
    <2>2. jars = <<>> /\ DOMAIN jars = {}
      BY DEF Init
    <2> QED
      BY <2>1, <2>2 DEF PackInv
  <1> QED
    BY <1>2, <1>3

LEMMA TailOf ==
  ASSUME NEW E, NEW s \in Seq(E), s # <<>>
  PROVE  /\ Tail(s) \in Seq(E) /\ 1 \in DOMAIN s /\ Head(s) = s[1]
         /\ \A k \in DOMAIN Tail(s) : k \in Int /\ k > 0 /\ k + 1 \in DOMAIN s /\ Tail(s)[k] = s[k + 1]
         /\ ToSet(s) = {Head(s)} \cup ToSet(Tail(s))
         /\ IsInjective(s) => IsInjective(Tail(s)) /\ Head(s) \notin ToSet(Tail(s))
  <1>1. /\ Len(s) \in Nat /\ Len(s) > 0 /\ DOMAIN s = 1..Len(s) /\ Head(s) = s[1]
        /\ Tail(s) \in Seq(E) /\ DOMAIN Tail(s) = 1..(Len(s) - 1)
        /\ \A k \in 1..(Len(s) - 1) : Tail(s)[k] = s[k + 1]
    OBVIOUS
  <1>2. /\ 1 \in DOMAIN s
        /\ \A k \in DOMAIN Tail(s) : k \in Int /\ k > 0 /\ k + 1 \in DOMAIN s /\ Tail(s)[k] = s[k + 1]
    BY <1>1
  <1>3. \A i \in DOMAIN s : i = 1 \/ (i - 1 \in DOMAIN Tail(s) /\ s[i] = Tail(s)[i - 1])
    BY <1>1
  <1>4. ToSet(s) = {Head(s)} \cup ToSet(Tail(s))
    <2>1. ASSUME NEW i \in DOMAIN s PROVE s[i] \in {Head(s)} \cup ToSet(Tail(s))
      BY <1>1, <1>3 DEF ToSet
    <2>2. Head(s) \in ToSet(s)
      BY <1>1, <1>2 DEF ToSet
    <2>3. ToSet(Tail(s)) \subseteq ToSet(s)
      BY <1>2 DEF ToSet
    <2>4. ToSet(s) \subseteq {Head(s)} \cup ToSet(Tail(s))
      BY <2>1 DEF ToSet
    <2> QED
      BY <2>2, <2>3, <2>4
  <1>5. ASSUME IsInjective(s) PROVE IsInjective(Tail(s)) /\ Head(s) \notin ToSet(Tail(s))
    <2>1. ASSUME NEW k \in DOMAIN Tail(s), NEW l \in DOMAIN Tail(s), Tail(s)[k] = Tail(s)[l]
          PROVE  k = l
      <3>1. k + 1 = l + 1
        BY <1>2, <1>5, <2>1 DEF IsInjective
      <3> QED
        BY <1>2, <3>1
    <2>2. ASSUME NEW k \in DOMAIN Tail(s), Head(s) = Tail(s)[k] PROVE FALSE
      <3>1. k + 1 = 1
        BY <1>1, <1>2, <1>5, <2>2 DEF IsInjective
      <3> QED
        BY <1>2, <3>1
    <2> QED
      BY <2>1, <2>2 DEF IsInjective, ToSet
  <1> QED
    BY <1>1, <1>2, <1>4, <1>5

LEMMA SkipInputPacks == PackInv /\ SkipInput => PackInv'
  <1> SUFFICES ASSUME PackInv, SkipInput, pc' # "unpacked" PROVE PackInv'
    BY DEF PackInv, SkipInput, PackUnchanged
  <1>1. /\ pc = "pack" /\ pc' = "pack" /\ todo # <<>> /\ todo' = Tail(todo)
        /\ Kind[Head(todo)] # "file" /\ UNCHANGED <<jars, command>>
    BY DEF SkipInput, Packing, PackUnchanged
  <1>2. todo \in Seq(DOMAIN Kind) /\ IsInjective(todo)
    BY <1>1 DEF PackInv
  <1>3. /\ todo' \in Seq(DOMAIN Kind) /\ IsInjective(todo')
        /\ ToSet(todo) = {Head(todo)} \cup ToSet(todo')
        /\ \A k \in DOMAIN todo' : k \in Int /\ k + 1 \in DOMAIN todo /\ todo'[k] = todo[k + 1]
    BY <1>1, <1>2, TailOf
  <1>4. {p \in ToSet(todo) : Kind[p] = "file"} = {p \in ToSet(todo') : Kind[p] = "file"}
    BY <1>1, <1>3
  <1>5. command.sort =>
          /\ \A k, l \in DOMAIN todo' : k < l => PathLess(todo'[k], todo'[l])
          /\ \A j \in DOMAIN jars, k \in DOMAIN todo' : PathLess(Source(j), todo'[k])
    <2>1. \A k, l \in DOMAIN todo' : k < l => k + 1 < l + 1
      BY <1>3
    <2> QED
      BY <1>1, <1>3, <2>1 DEF PackInv
  <1> QED
    BY <1>1, <1>3, <1>4, <1>5 DEF PackInv, Source

LEMMA NameJarPacks == NamesInv /\ PackInv /\ NameJar => PackInv'
  <1> SUFFICES ASSUME NamesInv, PackInv, NameJar, pc' # "unpacked" PROVE PackInv'
    BY DEF PackInv, NameJar, PackUnchanged
  <1> DEFINE p == Head(todo)
             n == Len(jars)
  <1>1. /\ pc = "pack" /\ pc' = "pack" /\ todo # <<>> /\ todo' = Tail(todo)
        /\ Kind[p] = "file" /\ UNCHANGED command
        /\ \E name, home :
             jars' = Append(jars, [name |-> name, source_path |-> p, restore_path |-> home])
    BY DEF NameJar, Packing, PackUnchanged
  <1>2. todo \in Seq(DOMAIN Kind) /\ IsInjective(todo)
    BY <1>1 DEF PackInv
  <1>3. /\ todo' \in Seq(DOMAIN Kind) /\ IsInjective(todo')
        /\ ToSet(todo) = {p} \cup ToSet(todo') /\ p \notin ToSet(todo')
        /\ 1 \in DOMAIN todo /\ p = todo[1]
        /\ \A k \in DOMAIN todo' :
             k \in Int /\ k > 0 /\ k + 1 \in DOMAIN todo /\ todo'[k] = todo[k + 1]
    BY <1>1, <1>2, TailOf
  <1>4. /\ n \in Nat /\ DOMAIN jars = 1..n /\ DOMAIN jars' = 1..(n + 1)
        /\ \A j \in DOMAIN jars : jars'[j].source_path = Source(j)
        /\ jars'[n + 1].source_path = p
    <2>1. PICK name, home :
            jars' = Append(jars, [name |-> name, source_path |-> p, restore_path |-> home])
      BY <1>1
    <2> DEFINE jar == [name |-> name, source_path |-> p, restore_path |-> home]
    <2>2. jar.source_path = p
      OBVIOUS
    <2> HIDE DEF jar
    <2>3. /\ n \in Nat /\ DOMAIN jars = 1..n /\ DOMAIN jars' = 1..(n + 1)
          /\ \A j \in DOMAIN jars : jars'[j] = jars[j]
          /\ jars'[n + 1] = jar
      BY <2>1, AppendIsSeq DEF NamesInv, jar
    <2> QED
      BY <2>2, <2>3 DEF Source
  <1> DEFINE new(j) == jars'[j].source_path
  <1>5. /\ DOMAIN jars' = DOMAIN jars \cup {n + 1}
        /\ \A j \in DOMAIN jars : j < n + 1 /\ new(j) = Source(j)
        /\ new(n + 1) = p
    BY <1>4
  <1>6. /\ {Source(j) : j \in DOMAIN jars} \cup {q \in ToSet(todo) : Kind[q] = "file"} = Reached(command)
        /\ \A i, j \in DOMAIN jars : Source(i) = Source(j) => i = j
        /\ \A j \in DOMAIN jars : Source(j) # p /\ Source(j) \notin ToSet(todo')
    BY <1>1, <1>3 DEF PackInv
  <1>7. command.sort =>
          /\ \A i, j \in DOMAIN jars : i < j => PathLess(Source(i), Source(j))
          /\ \A k, l \in DOMAIN todo : k < l => PathLess(todo[k], todo[l])
          /\ \A j \in DOMAIN jars, k \in DOMAIN todo : PathLess(Source(j), todo[k])
    BY <1>1 DEF PackInv
  <1> HIDE DEF new, p
  <1>8. {new(j) : j \in DOMAIN jars'} \cup {q \in ToSet(todo') : Kind[q] = "file"} = Reached(command)
    <2>1. {new(j) : j \in DOMAIN jars'} = {Source(j) : j \in DOMAIN jars} \cup {p}
      BY <1>5
    <2>2. {q \in ToSet(todo) : Kind[q] = "file"} = {q \in ToSet(todo') : Kind[q] = "file"} \cup {p}
      BY <1>1, <1>3 DEF p
    <2> QED
      BY <1>6, <2>1, <2>2
  <1>9. \A i, j \in DOMAIN jars' : new(i) = new(j) => i = j
    BY <1>5, <1>6
  <1>10. \A j \in DOMAIN jars' : new(j) \notin ToSet(todo')
    BY <1>3, <1>5, <1>6
  <1>11. ASSUME command.sort
         PROVE  /\ \A i, j \in DOMAIN jars' : i < j => PathLess(new(i), new(j))
                /\ \A k, l \in DOMAIN todo' : k < l => PathLess(todo'[k], todo'[l])
                /\ \A j \in DOMAIN jars', k \in DOMAIN todo' : PathLess(new(j), todo'[k])
    <2>1. \A j \in DOMAIN jars : PathLess(Source(j), p)
      BY <1>3, <1>7, <1>11
    <2>2. \A k \in DOMAIN todo' : PathLess(p, todo'[k]) /\ \A j \in DOMAIN jars : PathLess(Source(j), todo'[k])
      <3>1. \A k \in DOMAIN todo' : 1 < k + 1
        BY <1>3
      <3> QED
        BY <1>3, <1>7, <1>11, <3>1
    <2>3. \A k, l \in DOMAIN todo' : k < l => PathLess(todo'[k], todo'[l])
      <3>1. \A k, l \in DOMAIN todo' : k < l => k + 1 < l + 1
        BY <1>3
      <3> QED
        BY <1>3, <1>7, <1>11, <3>1
    <2>4. \A i, j \in DOMAIN jars' : i < j => i \in DOMAIN jars
      BY <1>4
    <2> QED
      BY <1>5, <1>7, <1>11, <2>1, <2>2, <2>3, <2>4
  <1> QED
    BY <1>1, <1>3, <1>8, <1>9, <1>10, <1>11 DEF PackInv, Source, new

LEMMA OthersKeepPacking ==
  Next => \/ SkipInput \/ NameJar
          \/ UNCHANGED packing /\ pc # "unpacked" /\ (pc = "pack" => todo = <<>>)
  BY DEF Next, Packed, Start, SkipUnselected, Guarding, GuardHome, GuardName,
         CreateTmp, CreateTmpFails, WriteJar, WriteJarFails, Replaced, Rename,
         RenameFails, UnlinkDest, UnlinkFails, RenameAgain, RenameAgainFails,
         ApplyAttrs, DropTmp, Finish, Kill, Rerun, Running, Goto, Same, ToNext, packing

LEMMA PackInductive == Spec => []PackInv
  <1>1. NamesInv /\ PackInv /\ [Next]_vars => PackInv'
    <2> SUFFICES ASSUME NamesInv, PackInv, [Next]_vars PROVE PackInv'
      OBVIOUS
    <2>1. CASE UNCHANGED packing /\ (pc' # "unpacked" => pc # "unpacked")
                 /\ (pc' # "pack" => pc # "pack" \/ todo = <<>>)
      BY <2>1 DEF PackInv, packing, Source
    <2> QED
      BY <2>1, SkipInputPacks, NameJarPacks, OthersKeepPacking DEF vars, packing
  <1> QED
    BY <1>1, PackStarts, NamesInductive, PTL DEF Spec

\* A pack has every path to a file that its command reaches, and each path once,
\* whatever the arguments, what is found below directories and in which order;
\* with --sort-inputs in the order of the paths (expand_inputs, dedupe_inputs).
\* A file that is reached under two paths is packed under both.
THEOREM PackHasEachPathOnce == Spec => []PacksEachPathOnce
  <1>1. PackInv => PacksEachPathOnce
    <2> SUFFICES ASSUME PackInv, pc \notin {"pack", "unpacked"}
                 PROVE  LET path == [j \in DOMAIN jars |-> Source(j)]
                        IN  /\ IsInjective(path) /\ ToSet(path) = Reached(command)
                            /\ command.sort =>
                                 \A i, j \in DOMAIN path : i < j => PathLess(path[i], path[j])
      BY DEF PacksEachPathOnce, Source
    <2>1. ToSet(todo) = {}
      BY DEF PackInv, ToSet
    <2> QED
      BY <2>1 DEF PackInv, IsInjective, ToSet
  <1> QED
    BY <1>1, PackInductive, PTL

-----------------------------------------------------------------------------
(* What is there stays there.                                              *)

Careful == ~opts.overwrite /\ ~opts.clean /\ ~opts.restorePaths
Siblings == {Tmp(j) : j \in selected}
ToReplace == pc \in {"create", "write", "rename", "unlink", "rename2"}

\* From create_restore_tmp to the end of the JAR the run is at a selected one,
\* and until the rename its destination is as free as guard_dest found it, or is
\* itself somebody's sibling name.
FreeInv ==
  /\ files = [p \in Path |-> files[p]]
  /\ AtJar => next \in selected
  /\ Careful /\ ToReplace /\ Dest(next) \in Path \ Siblings => files[Dest(next)] = Absent

LEMMA PutLeavesOthers ==
  ASSUME NEW f, f = [p \in Path |-> f[p]], NEW q, NEW c
  PROVE  /\ [f EXCEPT ![q] = c] = [p \in Path |-> [f EXCEPT ![q] = c][p]]
         /\ \A p \in Path : p # q => [f EXCEPT ![q] = c][p] = f[p]
  OBVIOUS

LEMMA CommandStays ==
  Next /\ pc \notin {"pack"} => UNCHANGED <<jars, opts, selected>>
  BY DEF Next, SkipInput, NameJar, Packed, Packing, Start, SkipUnselected, GuardHome,
         GuardName, CreateTmp, CreateTmpFails, WriteJar, WriteJarFails, Replaced, Rename,
         RenameFails, UnlinkDest, UnlinkFails, RenameAgain, RenameAgainFails, ApplyAttrs, DropTmp, Finish, Kill, Rerun, Goto, Same, packing

LEMMA NamesStay ==
  ASSUME UNCHANGED <<jars, opts, selected>>
  PROVE  /\ Careful' = Careful
         /\ Siblings' = Siblings
         /\ \A j : Dest(j)' = Dest(j) /\ Tmp(j)' = Tmp(j)
  BY DEF Careful, Siblings, Tmp, Dest

\* What a step of the invariant does to the files.
LEMMA StepKeepsFiles ==
  ASSUME FreeInv, Next, Careful, NEW p \in Path \ Siblings, files[p] # Absent
  PROVE  files'[p] = files[p]
  <1>1. CASE CreateTmp
    <2>1. p # Tmp(next)
      BY <1>1 DEF CreateTmp, FreeInv, Siblings, AtJar
    <2> QED
      BY <1>1, <2>1, PutLeavesOthers DEF CreateTmp, Put, FreeInv
  <1>2. CASE WriteJar
    <2>1. p # Tmp(next)
      BY <1>2 DEF WriteJar, FreeInv, Siblings, AtJar
    <2> QED
      BY <1>2, <2>1, PutLeavesOthers DEF WriteJar, Put, FreeInv
  <1>3. CASE DropTmp
    <2>1. p # Tmp(next)
      BY <1>3 DEF DropTmp, FreeInv, Siblings, AtJar
    <2> QED
      BY <1>3, <2>1, PutLeavesOthers DEF DropTmp, Put, FreeInv
  <1>4. CASE Rename \/ RenameAgain
    <2>1. p # Tmp(next) /\ p # Dest(next)
      BY <1>4 DEF Rename, RenameAgain, FreeInv, Siblings, AtJar, ToReplace
    <2>2. files' = [[files EXCEPT ![Dest(next)] = files[Tmp(next)]]
                      EXCEPT ![Tmp(next)] = Absent]
      BY <1>4 DEF Rename, RenameAgain, Replaced
    <2> QED
      BY <2>1, <2>2, PutLeavesOthers DEF FreeInv
  <1>5. CASE GuardName
    BY <1>5 DEF GuardName, Goto, Careful
  <1>6. CASE UnlinkDest
    <2>1. p # Dest(next)
      BY <1>6 DEF UnlinkDest, FreeInv, ToReplace
    <2> QED
      BY <1>6, <2>1, PutLeavesOthers DEF UnlinkDest, Put, FreeInv
  <1> QED
    BY <1>1, <1>2, <1>3, <1>4, <1>5, <1>6
    DEF Next, SkipInput, NameJar, Packed, Start, SkipUnselected, GuardHome,
        CreateTmpFails, WriteJarFails, RenameFails, UnlinkFails, RenameAgainFails,
        ApplyAttrs, Finish, Kill, Rerun, Goto, Same, PackUnchanged

LEMMA StepKeepsFree == FreeInv /\ Next => FreeInv'
  <1> SUFFICES ASSUME FreeInv, Next PROVE FreeInv'
    OBVIOUS
  <1>1. files' = [p \in Path |-> files'[p]]
    <2>1. \A q, c : [files EXCEPT ![q] = c] = [p \in Path |-> [files EXCEPT ![q] = c][p]]
      BY PutLeavesOthers DEF FreeInv
    <2>2. CASE GuardName
      BY <2>1, <2>2 DEF GuardName, Goto, Put, FreeInv
    <2>3. CASE CreateTmp
      BY <2>1, <2>3 DEF CreateTmp, Put
    <2>4. CASE WriteJar
      BY <2>1, <2>4 DEF WriteJar, Put
    <2>5. CASE DropTmp
      BY <2>1, <2>5 DEF DropTmp, Put, FreeInv
    <2>6. CASE Rename \/ RenameAgain
      BY <2>6 DEF Rename, RenameAgain, Replaced, FreeInv
    <2>7. CASE UnlinkDest
      BY <2>1, <2>7 DEF UnlinkDest, Put
    <2> QED
      BY <2>2, <2>3, <2>4, <2>5, <2>6, <2>7
      DEF FreeInv, Next, SkipInput, NameJar, Packed, Start, SkipUnselected, GuardHome,
          CreateTmpFails, WriteJarFails, RenameFails, UnlinkFails, RenameAgainFails,
          ApplyAttrs, Finish, Kill, Rerun, Goto, Same, PackUnchanged
  <1>2. ASSUME AtJar'
        PROVE  pc # "pack" /\ next' = next /\ next \in selected
    BY <1>2
    DEF AtJar, FreeInv, Next, SkipInput, NameJar, Packed, Packing, Start, SkipUnselected,
        GuardHome, GuardName, Guarding, CreateTmp, CreateTmpFails, WriteJar,
        WriteJarFails, Replaced, Rename, RenameFails, UnlinkDest, UnlinkFails,
        RenameAgain, RenameAgainFails, ApplyAttrs, DropTmp, Finish, Kill, Rerun,
        Goto, Same, ToNext
  <1>3. ASSUME ToReplace', Careful,
               Dest(next) \in Path \ Siblings
        PROVE  files'[Dest(next)] = Absent
    <2>1. CASE GuardName
      BY <1>3, <2>1 DEF GuardName, Goto, Careful, ToReplace
    <2>2. CASE CreateTmp
      <3>1. Dest(next) # Tmp(next)
        BY <1>3, <2>2 DEF CreateTmp, FreeInv, Siblings, AtJar
      <3> QED
        BY <1>3, <2>2, <3>1, PutLeavesOthers DEF CreateTmp, Put, FreeInv, ToReplace
    <2>3. CASE WriteJar
      <3>1. Dest(next) # Tmp(next)
        BY <1>3, <2>3 DEF WriteJar, FreeInv, Siblings, AtJar
      <3> QED
        BY <1>3, <2>3, <3>1, PutLeavesOthers DEF WriteJar, Put, FreeInv, ToReplace
    <2>4. CASE RenameFails
      BY <1>3, <2>4 DEF RenameFails, Goto, FreeInv, ToReplace
    <2>5. CASE UnlinkDest
      BY <1>3, <2>5 DEF UnlinkDest, Put, FreeInv
    <2> QED
      BY <1>3, <2>1, <2>2, <2>3, <2>4, <2>5
      DEF Next, SkipInput, NameJar, Packed, Packing, Start, SkipUnselected, GuardHome,
          CreateTmpFails, WriteJarFails, Replaced, Rename, UnlinkFails, RenameAgain,
          RenameAgainFails, ApplyAttrs, DropTmp, Finish, Kill, Rerun, Goto, Same,
          ToNext, Careful, ToReplace
  <1> QED
    <2>1. CASE AtJar'
      <3>1. UNCHANGED <<jars, opts, selected>> /\ next' = next
        BY <1>2, <2>1, CommandStays
      <3>2. /\ Careful' = Careful /\ Siblings' = Siblings
            /\ \A j : Dest(j)' = Dest(j)
        BY <3>1, NamesStay
      <3>3. Dest(next)' = Dest(next)
        BY <3>1 DEF Dest
      <3> QED
        BY <1>1, <1>2, <1>3, <2>1, <3>1, <3>2, <3>3 DEF FreeInv
    <2>2. CASE ~AtJar'
      BY <1>1, <2>2 DEF FreeInv, AtJar, ToReplace
    <2> QED
      BY <2>1, <2>2

LEMMA FreeInductive == Spec => []FreeInv
  <1>1. Init => FreeInv
    <2> SUFFICES ASSUME Init PROVE FreeInv
      OBVIOUS
    <2>1. files \in [Path -> {Absent, Directory, Own}]
      BY RestoreAssumption DEF Init
    <2>2. pc \in {"unpacked", "pack"}
      BY DEF Init
    <2> QED
      BY <2>1, <2>2 DEF FreeInv, AtJar, ToReplace
  <1>2. FreeInv /\ UNCHANGED vars => FreeInv'
    BY DEF FreeInv, AtJar, ToReplace, vars, packing, Careful, Siblings, Tmp, Dest
  <1> QED
    BY <1>1, <1>2, StepKeepsFree, PTL DEF Spec

\* Without --overwrite, --clean and --restore-paths a run of restores changes no
\* file that was there, but at the sibling names: every write of restore_jars
\* goes to a sibling, and a rename only to a path guard_dest has seen free.
THEOREM CarefulRestoreKeepsFiles == Spec => NothingIsClobbered
  <1>1. FreeInv /\ [Next]_vars =>
          [Careful => \A p \in Path \ Siblings :
                        files[p] # Absent => files'[p] = files[p]]_vars
    BY StepKeepsFiles
  <1> QED
    BY <1>1, FreeInductive, PTL DEF Spec, NothingIsClobbered, Careful, Siblings

-----------------------------------------------------------------------------
(* What is restored.                                                       *)

Held == TypeOK /\ PlaceInv /\ DoneInv /\ CleanInv

\* Nothing has been written yet.
FreshState ==
  /\ IsSeq(jars) /\ opts \in Options
  /\ before \in [Path -> {Absent, Directory, Own}] /\ files = before
  /\ selected \subseteq DOMAIN jars
  /\ next = 1 /\ unlinked = {} /\ runs = 1
  /\ pc \in {"pack", "unpacked", "start"} /\ (pc # "start" => selected = {})

LEMMA FreshHolds == FreshState => RestoreInvariant
  <1> SUFFICES ASSUME FreshState PROVE RestoreInvariant
    OBVIOUS
  <1> USE DEF FreshState
  <1>1. Len(jars) \in Nat /\ DOMAIN jars = 1..Len(jars)
    BY AppendIsSeq
  <1>2. TypeOK
    <2>1. files \in [Path -> Content]
      BY DEF Content
    <2> QED
      BY <1>1, <2>1, RestoreAssumption DEF TypeOK
  <1>3. Emptied = {} /\ Cardinality(Emptied) = 0
    BY FS_EmptySet DEF Emptied
  <1>4. PlaceInv /\ BeforeRestore
    BY DEF PlaceInv, BeforeRestore, AtJar
  <1>5. DoneInv
    BY DEF DoneInv, AtJar
  <1>6. CleanInv
    BY <1>3 DEF CleanInv, AtJar
  <1> QED
    BY <1>2, <1>4, <1>5, <1>6 DEF RestoreInvariant

PackStep == SkipInput \/ NameJar \/ Packed

LEMMA PackStepHolds == RestoreInvariant /\ NamesInv /\ NamesInv' /\ PackStep => RestoreInvariant'
  <1> SUFFICES ASSUME RestoreInvariant, NamesInv, NamesInv', PackStep PROVE RestoreInvariant'
    OBVIOUS
  <1>1. pc = "pack" /\ files = before /\ selected = {} /\ next = 1 /\ unlinked = {} /\ runs = 1
    BY DEF PackStep, SkipInput, NameJar, Packed, Packing, RestoreInvariant, BeforeRestore
  <1>2. TypeOK
    BY <1>1 DEF RestoreInvariant, DestsApart
  <1>3. UNCHANGED <<files, before, opts, next, unlinked, runs>>
    BY DEF PackStep, SkipInput, NameJar, Packed, PackUnchanged
  <1>4. IsSeq(jars)'
    BY DEF NamesInv
  <1>5. selected' \subseteq DOMAIN jars' /\ pc' \in {"pack", "unpacked", "start"}
        /\ (pc' # "start" => selected' = {})
    BY <1>1 DEF PackStep, SkipInput, NameJar, Packed, PackUnchanged, packing
  <1>6. FreshState'
    BY <1>1, <1>2, <1>3, <1>4, <1>5 DEF FreshState, TypeOK
  <1> QED
    BY <1>6, FreshHolds, PTL

LEMMA EmptiedIsFinite ==
  ASSUME NamesInv, TypeOK
  PROVE  IsFiniteSet(Emptied) /\ Cardinality(Emptied) \in Nat
         /\ \A T \in SUBSET Emptied :
              IsFiniteSet(T) /\ Cardinality(T) \in Nat /\ Cardinality(T) <= Cardinality(Emptied)
  <1>1. IsFiniteSet(selected)
    <2>1. Len(jars) \in Nat /\ DOMAIN jars = 1..Len(jars)
      BY AppendIsSeq DEF NamesInv
    <2>2. IsFiniteSet(1..Len(jars))
      BY <2>1, FS_Interval
    <2>3. selected \subseteq 1..Len(jars)
      BY <2>1 DEF TypeOK
    <2> QED
      BY <2>2, <2>3, FS_Subset
  <1> DEFINE dest == [j \in selected |-> Dest(j)]
             Dests == {Dest(j) : j \in selected}
  <1>2. dest \in Surjection(selected, Dests)
    BY DEF Surjection
  <1>3. IsFiniteSet(Dests)
    <2> HIDE DEF dest, Dests
    <2> QED
      BY <1>1, <1>2, FS_Surjection
  <1>4. IsFiniteSet(Emptied)
    <2>1. Emptied \subseteq Dests
      BY DEF Emptied
    <2> HIDE DEF Dests
    <2> QED
      BY <1>3, <2>1, FS_Subset
  <1> QED
    BY <1>4, FS_Subset, FS_CardinalityType

\* The command line and the pack no longer change.
CommandKept == UNCHANGED <<jars, opts, selected, before>>

LEMMA PredicatesStay ==
  ASSUME CommandKept
  PROVE  /\ Located' = Located /\ Content' = Content
         /\ DestsApart' = DestsApart
         /\ \A j : Dest(j)' = Dest(j) /\ Tmp(j)' = Tmp(j) /\ Copies(j)' = Copies(j)
  BY DEF CommandKept, Located, Content, DestsApart, Dest, Tmp, Copies

LEMMA EmptiedStays ==
  ASSUME CommandKept, \A j \in selected : files'[Dest(j)] = files[Dest(j)]
  PROVE  Emptied' = Emptied
  BY DEF CommandKept, Emptied, Dest

\* When one destination changes, it is the only one that can be emptied or filled.
LEMMA OneDestChanges ==
  ASSUME NamesInv, TypeOK, CommandKept, NEW d,
         \A j \in selected : Dest(j) # d => files'[Dest(j)] = files[Dest(j)]
  PROVE  /\ Cardinality(Emptied \ {d}) \in Nat /\ Cardinality(Emptied') \in Nat
         /\ Emptied' \ {d} = Emptied \ {d}
         /\ Cardinality(Emptied') <= Cardinality(Emptied \ {d}) + 1
         /\ d \notin Emptied' => Emptied' = Emptied \ {d}
  <1>1. Emptied' = {p \in {Dest(j) : j \in selected} : files'[p] = Absent /\ before[p] # Absent}
    BY DEF CommandKept, Emptied, Dest
  <1>2. Emptied' \ {d} = Emptied \ {d}
    BY <1>1 DEF Emptied
  <1>3. IsFiniteSet(Emptied \ {d}) /\ Cardinality(Emptied \ {d}) \in Nat
    BY EmptiedIsFinite
  <1>4. PICK rest : rest = Emptied \ {d}
    OBVIOUS
  <1>5. Emptied' = rest \/ Emptied' = rest \cup {d}
    <2> HIDE DEF Emptied
    <2> QED
      BY <1>2, <1>4
  <1>6. Cardinality(Emptied') \in Nat /\ Cardinality(Emptied') <= Cardinality(rest) + 1
    <2>1. IsFiniteSet(rest) /\ Cardinality(rest) \in Nat
      BY <1>3, <1>4
    <2>2. Cardinality(rest \cup {d}) = IF d \in rest THEN Cardinality(rest) ELSE Cardinality(rest) + 1
      BY <2>1, FS_AddElement
    <2>3. PICK new : new = Emptied'
      OBVIOUS
    <2>4. new = rest \/ new = rest \cup {d}
      BY <1>5, <2>3
    <2>5. PICK n, m : n = Cardinality(new) /\ m = Cardinality(rest)
      OBVIOUS
    <2>6. m \in Nat /\ (n = m \/ n = m + 1)
      <3>1. new = rest => n = m
        BY <2>5
      <3>2. new = rest \cup {d} => n = m \/ n = m + 1
        BY <2>2, <2>5
      <3> QED
        BY <2>1, <2>4, <2>5, <3>1, <3>2
    <2>7. n \in Nat /\ n <= m + 1
      BY <2>6
    <2> QED
      BY <2>3, <2>5, <2>7
  <1>7. d \notin Emptied' => Emptied' = Emptied \ {d}
    BY <1>4, <1>5
  <1> QED
    BY <1>2, <1>3, <1>4, <1>6, <1>7

-----------------------------------------------------------------------------
(* Steps that leave every destination as it is: they go from one place of  *)
(* the program to another, and may write to a sibling.                     *)

LEMMA QuietStep ==
  ASSUME Held, NamesInv, CommandKept, Located,
         files' \in [Path -> Content], next' \in 1..(Len(jars) + 1),
         UNCHANGED <<unlinked, runs>>,
         pc' \in {"guard", "create", "write", "rename", "unlink", "attrs", "drop", "ok", "err", "killed"},
         \A j \in selected : files'[Dest(j)] = files[Dest(j)],
         PlaceInv', DoneInv',
         \* no place to which more is owed than to the one it comes from
         pc' \in {"guard", "attrs"} => pc \in {"start", "guard", "attrs"},
         AtJar' => pc \in {"start", "guard", "attrs"} \/ (AtJar /\ next' = next)
  PROVE  Held'
  <1>1. TypeOK'
    BY PredicatesStay DEF Held, TypeOK, CommandKept
  <1>2. Emptied' = Emptied
    BY EmptiedStays
  <1>3. \A d : Emptied \ {d} \in SUBSET Emptied
    OBVIOUS
  <1>4. /\ Cardinality(Emptied) \in Nat /\ runs \in Nat
        /\ \A d : Cardinality(Emptied \ {d}) \in Nat
                    /\ Cardinality(Emptied \ {d}) <= Cardinality(Emptied)
    <2>1. runs \in Nat
      BY RestoreAssumption DEF Held, TypeOK
    <2> QED
      BY <1>3, <2>1, EmptiedIsFinite DEF Held
  <1>5. \A j : Dest(j)' = Dest(j) /\ Copies(j)' = Copies(j)
    BY PredicatesStay
  <1>6. CleanInv'
    <2>1. \A j \in selected :
            \/ files'[Dest(j)] \in {before[Dest(j)]} \cup Copies(j)
            \/ /\ files'[Dest(j)] = Absent
               /\ (opts.clean /\ ~opts.restorePaths) \/ Dest(j) \in unlinked
      BY DEF Held, CleanInv
    <2>2. Cardinality(Emptied) <= runs
      BY DEF Held, CleanInv
    <2>3. pc' \in {"guard", "attrs"} => Cardinality(Emptied) < runs
      BY DEF Held, CleanInv
    <2>4. pc' # "start"
      OBVIOUS
    <2>5. AtJar' => Cardinality(Emptied \ {Dest(next')}) < runs
      <3>1. CASE pc \in {"start", "guard", "attrs"}
        <4>1. Cardinality(Emptied) < runs
          BY <3>1 DEF Held, CleanInv
        <4>2. PICK d : d = Dest(next')
          OBVIOUS
        <4>3. PICK n, m : n = Cardinality(Emptied) /\ m = Cardinality(Emptied \ {d})
          OBVIOUS
        <4>4. n \in Nat /\ m \in Nat /\ m <= n /\ runs \in Nat
          BY <1>4, <4>3
        <4>5. m < runs
          BY <4>1, <4>3, <4>4
        <4> QED
          BY <4>2, <4>3, <4>5
      <3>2. CASE AtJar /\ next' = next
        BY <3>2 DEF Held, CleanInv
      <3> QED
        BY <3>1, <3>2
    <2>6. Dest(next)' = Dest(next')
      BY DEF CommandKept, Dest
    <2>7. Located'
      BY PredicatesStay
    <2> QED
      BY <1>2, <1>5, <2>1, <2>2, <2>3, <2>4, <2>5, <2>6, <2>7 DEF CleanInv, CommandKept
  <1> QED
    BY <1>1, <1>6 DEF Held

\* The destinations, when only a sibling is written.
LEMMA SiblingIsNoDest ==
  ASSUME Held, DestsApart, Located, AtJar, NEW c \in Content, Put(Tmp(next), c)
  PROVE  /\ files' \in [Path -> Content]
         /\ files'[Tmp(next)] = c
         /\ \A j \in selected : files'[Dest(j)] = files[Dest(j)]
  <1>1. next \in selected /\ files \in [Path -> Content]
    BY DEF Held, PlaceInv, TypeOK
  <1>2. Tmp(next) \in Path /\ \A j \in selected : Dest(j) \in Path /\ Dest(j) # Tmp(next)
    BY <1>1 DEF DestsApart
  <1> QED
    BY <1>1, <1>2 DEF Put

Stopping ==
  GuardHome \/ CreateTmpFails \/ WriteJarFails \/ RenameFails \/ UnlinkFails \/ RenameAgainFails
  \/ Finish

QuietAction ==
  SkipUnselected \/ ApplyAttrs \/ Stopping \/ CreateTmp \/ WriteJar \/ DropTmp

LEMMA QuietActionHolds ==
  ASSUME Held, NamesInv, DestsApart, QuietAction
  PROVE  Held'
  <1> USE DEF QuietAction, Stopping
  <1>1. CommandKept /\ UNCHANGED <<unlinked, runs>>
    BY DEF SkipUnselected, GuardHome, CreateTmp, CreateTmpFails, WriteJar, WriteJarFails,
       RenameFails, UnlinkFails, RenameAgainFails, ApplyAttrs, DropTmp, Finish, Goto, Same,
       packing, CommandKept
  <1>2. pc = "guard" \/ AtJar
    BY DEF SkipUnselected, GuardHome, Guarding, CreateTmp, CreateTmpFails, WriteJar,
       WriteJarFails, RenameFails, UnlinkFails, RenameAgainFails, ApplyAttrs, DropTmp, Finish,
       AtJar
  <1>3. Located
    BY <1>2 DEF Held, PlaceInv
  <1>4. Len(jars) \in Nat /\ DOMAIN jars = 1..Len(jars) /\ next \in 1..(Len(jars) + 1)
        /\ selected \subseteq DOMAIN jars /\ files \in [Path -> Content]
    BY AppendIsSeq DEF NamesInv, Held, TypeOK
  <1>5. /\ Located' /\ \A j : Dest(j)' = Dest(j) /\ Tmp(j)' = Tmp(j) /\ Copies(j)' = Copies(j)
        /\ jars' = jars /\ opts' = opts /\ selected' = selected
        /\ Dest(next)' = Dest(next') /\ Tmp(next)' = Tmp(next')
    BY <1>1, <1>3, PredicatesStay DEF CommandKept, Dest, Tmp
  <1>6. AtJar => next \in selected
    BY DEF Held, PlaceInv
  <1>7. \A j \in selected : j < next =>
          files[Dest(j)] \in Copies(j) \/ (AtJar /\ Dest(j) = Dest(next))
    BY <1>2 DEF Held, DoneInv
  <1>8. CASE SkipUnselected
    <2>1. /\ pc = "guard" /\ pc' = "guard" /\ next' = next + 1 /\ files' = files
          /\ next \in DOMAIN jars \ selected
      BY <1>8 DEF SkipUnselected, ToNext
    <2>2. next' \in 1..(Len(jars) + 1)
      BY <1>4, <2>1
    <2>3. \A j \in selected : j < next' => files'[Dest(j)] \in Copies(j)
      <3>1. \A j \in selected : j < next + 1 => j < next
        BY <1>4, <2>1
      <3>2. ~AtJar
        BY <2>1 DEF AtJar
      <3> QED
        BY <1>7, <2>1, <3>1, <3>2
    <2>4. PlaceInv'
      BY <1>5, <2>1 DEF PlaceInv, AtJar
    <2>5. DoneInv'
      BY <1>5, <2>1, <2>3 DEF DoneInv, AtJar
    <2>6. ~AtJar'
      BY <2>1 DEF AtJar
    <2> QED
      BY <1>1, <1>3, <1>4, <2>1, <2>2, <2>4, <2>5, <2>6, QuietStep
  <1>9. CASE ApplyAttrs
    <2>1. pc = "attrs" /\ files' = files /\ next \in selected
      BY <1>6, <1>9 DEF ApplyAttrs, Goto, AtJar
    <2>2. \/ pc' = "guard" /\ next' = next + 1
          \/ pc' = "err" /\ next' = next
      BY <1>9 DEF ApplyAttrs, Goto, ToNext
    <2>3. next' \in 1..(Len(jars) + 1)
      BY <1>4, <2>1, <2>2
    <2>4. next' = next + 1 => \A j \in selected : j < next' => files'[Dest(j)] \in Copies(j)
      <3>1. \A j \in selected : j < next + 1 => j < next \/ j = next
        BY <1>4, <2>1
      <3>2. files[Dest(next)] = next
        BY <2>1 DEF Held, DoneInv
      <3>3. \A j \in selected : Dest(j) = Dest(next) => files[Dest(j)] \in Copies(j)
        BY <2>1, <3>2 DEF Copies
      <3> QED
        BY <1>7, <2>1, <3>1, <3>3
    <2>5. PlaceInv'
      BY <1>5, <2>2 DEF PlaceInv, AtJar
    <2>6. DoneInv'
      BY <1>5, <2>2, <2>4 DEF DoneInv, AtJar
    <2>7. ~AtJar'
      BY <2>2 DEF AtJar
    <2> QED
      BY <1>1, <1>3, <1>4, <2>1, <2>2, <2>3, <2>5, <2>6, <2>7, QuietStep
  <1>10. CASE Stopping
    <2>1. files' = files /\ next' = next
      BY <1>10 DEF GuardHome, CreateTmpFails, WriteJarFails, RenameFails, UnlinkFails,
         RenameAgainFails, Finish, Goto
    <2>2. \/ pc = "guard" /\ pc' \in {"create", "err"} /\ next \in selected
          \/ AtJar /\ pc' = "drop"
          \/ pc = "rename" /\ pc' = "unlink"
          \/ pc = "guard" /\ pc' = "ok" /\ next = Len(jars) + 1
      BY <1>10 DEF GuardHome, Guarding, CreateTmpFails, WriteJarFails, RenameFails, UnlinkFails,
         RenameAgainFails, Finish, Goto, AtJar
    <2>3. PlaceInv'
      BY <1>5, <1>6, <2>1, <2>2 DEF PlaceInv, AtJar
    <2>4. DoneInv'
      <3>1. pc = "rename" => files[Tmp(next)] = next
        BY DEF Held, DoneInv
      <3> QED
        BY <1>5, <1>7, <2>1, <2>2, <3>1 DEF DoneInv, AtJar
    <2> QED
      BY <1>1, <1>3, <1>4, <2>1, <2>2, <2>3, <2>4, QuietStep DEF AtJar
  <1>11. CASE CreateTmp \/ WriteJar \/ DropTmp
    <2>1. AtJar /\ next' = next /\ next \in selected
      BY <1>6, <1>11 DEF CreateTmp, WriteJar, DropTmp, AtJar
    <2>2. {Unfinished, Absent, next} \subseteq Content
      BY <1>4, <2>1 DEF Content
    <2>3. /\ files' \in [Path -> Content]
          /\ \A j \in selected : files'[Dest(j)] = files[Dest(j)]
          /\ WriteJar => files'[Tmp(next)] = next
      BY <1>3, <1>4, <1>11, <2>1, <2>2, SiblingIsNoDest DEF CreateTmp, WriteJar, DropTmp
    <2>4. /\ pc' \in {"write", "rename", "err"}
          /\ pc' = "rename" => WriteJar
      BY <1>11 DEF CreateTmp, WriteJar, DropTmp
    <2>5. PlaceInv'
      BY <1>5, <2>1, <2>4 DEF PlaceInv, AtJar
    <2>6. DoneInv'
      BY <1>5, <1>7, <2>1, <2>3, <2>4 DEF DoneInv, AtJar
    <2> QED
      BY <1>1, <1>3, <1>4, <2>1, <2>3, <2>4, <2>5, <2>6, QuietStep
  <1> QED
    BY <1>8, <1>9, <1>10, <1>11

-----------------------------------------------------------------------------
(* The other steps.                                                        *)

LEMMA RunsBound ==
  ASSUME Held, NamesInv
  PROVE  /\ runs \in Nat /\ Cardinality(Emptied) \in Nat
         /\ \A d : Cardinality(Emptied \ {d}) \in Nat
                     /\ Cardinality(Emptied \ {d}) <= Cardinality(Emptied)
  <1>1. Cardinality(Emptied) \in Nat
        /\ \A T \in SUBSET Emptied : Cardinality(T) \in Nat /\ Cardinality(T) <= Cardinality(Emptied)
    BY EmptiedIsFinite DEF Held
  <1>2. \A d : Emptied \ {d} \in SUBSET Emptied
    OBVIOUS
  <1>3. runs \in Nat
    BY RestoreAssumption DEF Held, TypeOK
  <1> HIDE DEF Emptied
  <1> QED
    BY <1>1, <1>2, <1>3

LEMMA StartHolds ==
  ASSUME Held, NamesInv, Start
  PROVE  Held'
  <1>1. /\ pc = "start" /\ next = 1 /\ CommandKept /\ UNCHANGED <<files, next, unlinked, runs>>
        /\ pc' = IF Located THEN "guard" ELSE "err"
    BY DEF Start, Goto, Same, packing, CommandKept, Held, PlaceInv, Located
  <1>2. /\ Located' = Located /\ Content' = Content
        /\ \A j : Dest(j)' = Dest(j) /\ Tmp(j)' = Tmp(j) /\ Copies(j)' = Copies(j)
        /\ jars' = jars /\ opts' = opts /\ selected' = selected /\ before' = before
    BY <1>1, PredicatesStay DEF CommandKept
  <1>3. TypeOK'
    BY <1>1, <1>2 DEF Held, TypeOK
  <1>4. PlaceInv'
    BY <1>1, <1>2 DEF PlaceInv, AtJar
  <1>5. DoneInv'
    <2>1. \A j \in selected : ~(j < 1)
      BY AppendIsSeq DEF NamesInv, Held, TypeOK
    <2> QED
      BY <1>1, <1>2, <2>1 DEF DoneInv, AtJar
  <1>6. CleanInv'
    <2>1. Emptied' = Emptied
      BY <1>1, EmptiedStays
    <2> QED
      BY <1>1, <1>2, <2>1 DEF Held, CleanInv, AtJar
  <1> QED
    BY <1>3, <1>4, <1>5, <1>6 DEF Held

\* The steps that may empty a destination empty that of the JAR at hand, and no
\* other: --clean before it is written, replace_file between its two renames.
LEMMA EmptyingHolds ==
  ASSUME Held, NamesInv, DestsApart, GuardName \/ UnlinkDest
  PROVE  Held'
  <1>1. /\ CommandKept /\ UNCHANGED <<next, runs>>
        /\ \/ pc = "guard" /\ next \in selected /\ pc' \in {"create", "err"}
           \/ pc = "unlink" /\ pc' = "rename2"
    BY DEF GuardName, Guarding, UnlinkDest, Goto, Same, Put, packing, CommandKept
  <1>2. \/ files' = files /\ unlinked' = unlinked /\ pc = "guard"
        \/ /\ files' = [files EXCEPT ![Dest(next)] = Absent] /\ pc' # "err"
           /\ unlinked' \in {unlinked, unlinked \cup {Dest(next)}}
           /\ (opts.clean /\ ~opts.restorePaths) \/ Dest(next) \in unlinked'
    BY DEF GuardName, Guarding, UnlinkDest, Goto, Same, Put
  <1>3. /\ Located' = Located /\ Content' = Content
        /\ \A j : Dest(j)' = Dest(j) /\ Tmp(j)' = Tmp(j) /\ Copies(j)' = Copies(j)
        /\ Dest(next)' = Dest(next) /\ Tmp(next)' = Tmp(next)
        /\ jars' = jars /\ opts' = opts /\ selected' = selected /\ before' = before
    BY <1>1, PredicatesStay DEF CommandKept, Dest, Tmp
  <1>4. /\ Located /\ next \in selected
        /\ \A j \in selected : j < next =>
             files[Dest(j)] \in Copies(j) \/ (AtJar /\ Dest(j) = Dest(next))
        /\ pc = "unlink" => files[Tmp(next)] = next
        /\ pc = "guard" => ~AtJar
    BY <1>1 DEF Held, PlaceInv, DoneInv, AtJar
  <1>5. /\ files \in [Path -> Content] /\ Absent \in Content /\ unlinked \subseteq Path
        /\ \A j \in selected : Dest(j) \in Path
        /\ Tmp(next) \in Path /\ Dest(next) # Tmp(next)
    BY <1>4 DEF Held, TypeOK, DestsApart, Content
  <1>6. /\ \A j \in selected : Dest(j) # Dest(next) => files'[Dest(j)] = files[Dest(j)]
        /\ files'[Tmp(next)] = files[Tmp(next)]
    BY <1>2, <1>5
  <1>7. \/ files'[Dest(next)] = files[Dest(next)] /\ unlinked' = unlinked
        \/ /\ files'[Dest(next)] = Absent
           /\ (opts.clean /\ ~opts.restorePaths) \/ Dest(next) \in unlinked'
    BY <1>2, <1>4, <1>5
  <1>8. TypeOK'
    <2>1. files' \in [Path -> Content] /\ unlinked' \subseteq Path
      BY <1>2, <1>4, <1>5
    <2>2. pc' \in {"create", "err", "rename2"}
      BY <1>1
    <2> QED
      BY <1>1, <1>3, <2>1, <2>2 DEF Held, TypeOK
  <1>9. PlaceInv'
    BY <1>1, <1>3, <1>4 DEF PlaceInv, AtJar
  <1>10. DoneInv'
    <2>1. \A j \in selected : j < next =>
            files'[Dest(j)] \in Copies(j) \/ Dest(j) = Dest(next)
      BY <1>4, <1>6
    <2>2. AtJar' \/ pc' = "err"
      BY <1>1 DEF AtJar
    <2>3. pc' = "rename2" => files'[Tmp(next)] = next
      BY <1>1, <1>4, <1>6
    <2>4. pc' \notin {"guard", "ok", "rename", "unlink", "attrs"} /\ (pc' = "err" => ~AtJar')
      BY <1>1 DEF AtJar
    <2> QED
      BY <1>1, <1>3, <2>1, <2>2, <2>3, <2>4 DEF DoneInv
  <1>11. CleanInv'
    <2>1. Cardinality(Emptied \ {Dest(next)}) < runs
      <3>1. CASE pc = "guard"
        <4>1. Cardinality(Emptied) < runs
          BY <1>4, <3>1 DEF Held, CleanInv
        <4> HIDE DEF Emptied
        <4> QED
          BY <4>1, RunsBound
      <3>2. CASE pc = "unlink"
        BY <1>4, <3>2 DEF Held, CleanInv, AtJar
      <3> QED
        BY <1>1, <3>1, <3>2
    <2>2. /\ Cardinality(Emptied \ {Dest(next)}) \in Nat /\ Cardinality(Emptied') \in Nat
          /\ Emptied' \ {Dest(next)} = Emptied \ {Dest(next)}
          /\ Cardinality(Emptied') <= Cardinality(Emptied \ {Dest(next)}) + 1
      BY <1>1, <1>6, OneDestChanges DEF Held
    <2>3. Cardinality(Emptied') <= runs
      <3> HIDE DEF Emptied
      <3> QED
        BY <2>1, <2>2, RunsBound
    <2>4. \A j \in selected :
            \/ files'[Dest(j)] \in {before[Dest(j)]} \cup Copies(j)
            \/ /\ files'[Dest(j)] = Absent
               /\ (opts.clean /\ ~opts.restorePaths) \/ Dest(j) \in unlinked'
      <3>1. unlinked \subseteq unlinked'
        BY <1>2
      <3>2. \A j \in selected :
              \/ files[Dest(j)] \in {before[Dest(j)]} \cup Copies(j)
              \/ /\ files[Dest(j)] = Absent
                 /\ (opts.clean /\ ~opts.restorePaths) \/ Dest(j) \in unlinked
        BY <1>4 DEF Held, CleanInv
      <3> TAKE j \in selected
      <3>3. CASE Dest(j) = Dest(next)
        BY <1>7, <3>1, <3>2, <3>3
      <3>4. CASE Dest(j) # Dest(next)
        BY <1>6, <3>1, <3>2, <3>4
      <3> QED
        BY <3>3, <3>4
    <2>5. pc' \notin {"start", "guard", "attrs"}
      BY <1>1
    <2>6. (Emptied \ {Dest(next)})' = Emptied \ {Dest(next)}
      BY <1>3, <2>2
    <2> QED
      BY <1>1, <1>3, <2>1, <2>3, <2>4, <2>5, <2>6 DEF CleanInv
  <1> QED
    BY <1>8, <1>9, <1>10, <1>11 DEF Held

\* A rename puts the JAR at hand in its place and takes nothing from another but
\* an equal one.
LEMMA RenameHolds ==
  ASSUME Held, NamesInv, DestsApart, Rename \/ RenameAgain
  PROVE  Held'
  <1>1. /\ pc \in {"rename", "rename2"} /\ CommandKept /\ UNCHANGED <<unlinked, runs>>
        /\ files' = [[files EXCEPT ![Dest(next)] = files[Tmp(next)]] EXCEPT ![Tmp(next)] = Absent]
        /\ IF opts.restorePaths THEN pc' = "attrs" /\ next' = next
           ELSE pc' = "guard" /\ next' = next + 1
    BY DEF Rename, RenameAgain, Replaced, ToNext, Same, packing, CommandKept
  <1>2. /\ Located' = Located /\ Content' = Content
        /\ \A j : Dest(j)' = Dest(j) /\ Tmp(j)' = Tmp(j) /\ Copies(j)' = Copies(j)
        /\ Dest(next)' = Dest(next')
        /\ jars' = jars /\ opts' = opts /\ selected' = selected /\ before' = before
    BY <1>1, PredicatesStay DEF CommandKept, Dest
  <1>3. /\ Located /\ next \in selected /\ files[Tmp(next)] = next
        /\ \A j \in selected : j < next =>
             files[Dest(j)] \in Copies(j) \/ (AtJar /\ Dest(j) = Dest(next))
    BY <1>1 DEF Held, PlaceInv, DoneInv, AtJar
  <1>4. /\ files \in [Path -> Content] /\ Dest(next) \in Path /\ Tmp(next) \in Path
        /\ \A j \in selected : Dest(j) \in Path /\ Dest(j) # Tmp(next)
    BY <1>3 DEF Held, TypeOK, DestsApart
  <1>5. /\ Len(jars) \in Nat /\ DOMAIN jars = 1..Len(jars) /\ next \in 1..Len(jars)
        /\ selected \subseteq 1..Len(jars)
    BY <1>3, AppendIsSeq DEF NamesInv, Held, TypeOK
  <1>6. files'[Dest(next)] = next
    BY <1>1, <1>3, <1>4
  <1>7. \A j \in selected : Dest(j) # Dest(next) => files'[Dest(j)] = files[Dest(j)]
    BY <1>1, <1>4
  <1>8. \A j \in selected : Dest(j) = Dest(next) => files'[Dest(j)] \in Copies(j)
    BY <1>3, <1>6 DEF Copies
  <1>9. TypeOK'
    <2>1. next \in Content /\ Absent \in Content
      BY <1>5 DEF Content
    <2>2. files' \in [Path -> Content]
      BY <1>1, <1>3, <1>4, <2>1
    <2>3. next' \in 1..(Len(jars) + 1)
      BY <1>1, <1>5
    <2> QED
      BY <1>1, <1>2, <2>2, <2>3 DEF Held, TypeOK
  <1>10. PlaceInv'
    BY <1>1, <1>2, <1>3 DEF PlaceInv, AtJar
  <1>11. DoneInv'
    <2>1. \A j \in selected : j < next + 1 => j < next \/ j = next
      BY <1>5
    <2>2. \A j \in selected : j < next' => files'[Dest(j)] \in Copies(j)
      BY <1>1, <1>3, <1>7, <1>8, <2>1
    <2>3. pc' = "attrs" => files'[Dest(next')] = next'
      BY <1>1, <1>6
    <2> QED
      BY <1>1, <1>2, <2>2, <2>3 DEF DoneInv, AtJar
  <1>12. CleanInv'
    <2>1. Cardinality(Emptied \ {Dest(next)}) < runs
      BY <1>1, <1>3 DEF Held, CleanInv, AtJar
    <2>2. Dest(next) \notin Emptied'
      <3>1. next # Absent
        BY <1>5 DEF Absent
      <3> QED
        BY <1>6, <3>1 DEF Emptied
    <2>3. Emptied' = Emptied \ {Dest(next)}
      BY <1>1, <1>7, <2>2, OneDestChanges DEF Held
    <2>4. Cardinality(Emptied') \in Nat
          /\ \A d : Cardinality(Emptied' \ {d}) \in Nat
                      /\ Cardinality(Emptied' \ {d}) <= Cardinality(Emptied')
      <3>1. \A d : (Emptied \ {Dest(next)}) \ {d} \in SUBSET (Emptied \ {Dest(next)})
                     /\ IsFiniteSet(Emptied \ {Dest(next)})
        BY EmptiedIsFinite DEF Held
      <3> QED
        BY <2>3, <3>1, FS_Subset, FS_CardinalityType
    <2>5. Cardinality(Emptied') < runs
      BY <2>1, <2>3
    <2>6. Cardinality(Emptied') <= runs
          /\ Cardinality((Emptied \ {Dest(next)})') < runs
      <3>1. (Emptied \ {Dest(next)})' = Emptied' \ {Dest(next')}
        BY <1>2
      <3>2. PICK n, m : n = Cardinality(Emptied') /\ m = Cardinality(Emptied' \ {Dest(next')})
        OBVIOUS
      <3>3. n \in Nat /\ m \in Nat /\ m <= n /\ n < runs
        BY <2>4, <2>5, <3>2
      <3>4. n <= runs /\ m < runs
        BY <3>3, RunsBound
      <3> QED
        BY <3>1, <3>2, <3>4
    <2>7. \A j \in selected :
            \/ files'[Dest(j)] \in {before[Dest(j)]} \cup Copies(j)
            \/ /\ files'[Dest(j)] = Absent
               /\ (opts.clean /\ ~opts.restorePaths) \/ Dest(j) \in unlinked
      BY <1>3, <1>7, <1>8 DEF Held, CleanInv
    <2> QED
      BY <1>1, <1>2, <2>5, <2>6, <2>7 DEF CleanInv
  <1> QED
    BY <1>9, <1>10, <1>11, <1>12 DEF Held

\* A kill leaves the files as they are; a rerun may empty one more destination.
LEMMA KillOrRerunHolds ==
  ASSUME Held, NamesInv, Kill \/ Rerun
  PROVE  Held'
  <1>1. /\ CommandKept /\ files' = files /\ unlinked' = unlinked
        /\ \/ pc' = "killed" /\ UNCHANGED <<next, runs>>
           \/ pc' = "start" /\ next' = 1 /\ runs' = runs + 1 /\ runs < MaxRuns
    BY DEF Kill, Rerun, Goto, Same, packing, CommandKept
  <1>2. /\ Located' = Located /\ Content' = Content
        /\ \A j : Dest(j)' = Dest(j) /\ Tmp(j)' = Tmp(j) /\ Copies(j)' = Copies(j)
        /\ jars' = jars /\ opts' = opts /\ selected' = selected /\ before' = before
    BY <1>1, PredicatesStay DEF CommandKept
  <1>3. TypeOK'
    <2>1. Len(jars) \in Nat
      BY AppendIsSeq DEF NamesInv
    <2>2. next' \in 1..(Len(jars) + 1) /\ runs' \in 1..MaxRuns
      BY <1>1, <2>1, RestoreAssumption DEF Held, TypeOK
    <2> QED
      BY <1>1, <1>2, <2>2 DEF Held, TypeOK
  <1>4. PlaceInv' /\ DoneInv'
    BY <1>1 DEF PlaceInv, DoneInv, AtJar
  <1>5. CleanInv'
    <2>1. Emptied' = Emptied
      BY <1>1, EmptiedStays
    <2>2. Located => Cardinality(Emptied) <= runs' /\ (pc' = "start" => Cardinality(Emptied) < runs')
      <3>1. Located => Cardinality(Emptied) <= runs
        BY DEF Held, CleanInv
      <3> QED
        BY <1>1, <3>1, RunsBound
    <2>3. Located => \A j \in selected :
            \/ files[Dest(j)] \in {before[Dest(j)]} \cup Copies(j)
            \/ /\ files[Dest(j)] = Absent
               /\ (opts.clean /\ ~opts.restorePaths) \/ Dest(j) \in unlinked
      BY DEF Held, CleanInv
    <2> QED
      BY <1>1, <1>2, <2>1, <2>2, <2>3 DEF CleanInv, AtJar
  <1> QED
    BY <1>3, <1>4, <1>5 DEF Held

-----------------------------------------------------------------------------
(* The theorems.                                                           *)

LEMMA RestoreStepHolds ==
  RestoreInvariant /\ NamesInv /\ NamesInv' /\ [Next]_vars => RestoreInvariant'
  <1> SUFFICES ASSUME RestoreInvariant, NamesInv, NamesInv', [Next]_vars PROVE RestoreInvariant'
    OBVIOUS
  <1>1. CASE PackStep
    BY <1>1, PackStepHolds
  <1>2. CASE Next /\ ~PackStep
    <2>1. \/ QuietAction \/ Start \/ GuardName \/ UnlinkDest \/ Rename \/ RenameAgain
          \/ Kill \/ Rerun
      BY <1>2 DEF Next, PackStep, QuietAction, Stopping
    <2>2. CommandKept
      BY <2>1 DEF QuietAction, Stopping, SkipUnselected, GuardHome, CreateTmp, CreateTmpFails,
         WriteJar, WriteJarFails, RenameFails, UnlinkFails, RenameAgainFails, ApplyAttrs,
         DropTmp, Finish, Start, GuardName, UnlinkDest, Replaced, Rename, RenameAgain, Kill,
         Rerun, Goto, Same, packing, CommandKept
    <2>3. pc' \notin {"pack", "unpacked"}
      BY <2>1 DEF QuietAction, Stopping, SkipUnselected, GuardHome, CreateTmp, CreateTmpFails,
         WriteJar, WriteJarFails, RenameFails, UnlinkFails, RenameAgainFails, ApplyAttrs,
         DropTmp, Finish, Start, GuardName, UnlinkDest, Replaced, Rename, RenameAgain, Kill,
         Rerun, Goto, ToNext
    <2>4. ASSUME DestsApart PROVE Held'
      <3>1. Held
        BY <2>4 DEF RestoreInvariant, Held
      <3> QED
        BY <2>1, <2>4, <3>1, QuietActionHolds, StartHolds, EmptyingHolds, RenameHolds,
           KillOrRerunHolds
    <2>5. DestsApart' = DestsApart
      BY <2>2, PredicatesStay
    <2> QED
      BY <2>3, <2>4, <2>5 DEF RestoreInvariant, Held, BeforeRestore
  <1>3. CASE UNCHANGED vars
    <2>1. CommandKept /\ UNCHANGED <<files, next, pc, unlinked, runs>>
      BY <1>3 DEF vars, packing, CommandKept
    <2>2. /\ Located' = Located /\ Content' = Content /\ DestsApart' = DestsApart
          /\ \A j : Dest(j)' = Dest(j) /\ Tmp(j)' = Tmp(j) /\ Copies(j)' = Copies(j)
          /\ Dest(next)' = Dest(next) /\ Tmp(next)' = Tmp(next)
          /\ Emptied' = Emptied
      BY <2>1, PredicatesStay, EmptiedStays DEF Dest, Tmp, CommandKept
    <2> QED
      BY <2>1, <2>2 DEF RestoreInvariant, BeforeRestore, TypeOK, PlaceInv, DoneInv, CleanInv,
         AtJar, CommandKept
  <1> QED
    BY <1>1, <1>2, <1>3

\* restore_jars keeps the JARs it has restored, the one at hand and the files in
\* the way in step, run after run, also where a rename is refused and the
\* destination is unlinked first.
THEOREM RestoreInvariantHolds == Spec => []RestoreInvariant
  <1>1. Init => RestoreInvariant
    <2> SUFFICES ASSUME Init PROVE RestoreInvariant
      OBVIOUS
    <2>1. IsSeq(jars)
      <3>1. <<>> \in Seq({})
        OBVIOUS
      <3> QED
        BY <3>1 DEF Init, IsSeq
    <2>2. FreshState
      BY <2>1, RestoreAssumption DEF Init, FreshState
    <2> QED
      BY <2>2, FreshHolds
  <1> QED
    BY <1>1, RestoreStepHolds, NamesInductive, PTL DEF Spec

\* The state keeps its types as long as the sibling names are nobody's.
THEOREM RestoreTypes == Spec => [](DestsApart => TypeOK)
  <1>1. RestoreInvariant => (DestsApart => TypeOK)
    BY DEF RestoreInvariant
  <1> QED
    BY <1>1, RestoreInvariantHolds, PTL

\* A run that returns Ok has every selected JAR, or an equal one, at its
\* destination, whatever the runs before it left: only a JAR called like another
\* one's sibling can be lost.
THEOREM SuccessRestoresEveryJar == Spec => [](DestsApart => EveryJarIsRestored)
  <1>1. RestoreInvariant /\ NamesInv => (DestsApart => EveryJarIsRestored)
    <2> SUFFICES ASSUME RestoreInvariant, NamesInv, DestsApart, pc = "ok", NEW j \in selected
                 PROVE  files[Dest(j)] \in Copies(j)
      BY DEF EveryJarIsRestored
    <2>1. /\ next = Len(jars) + 1
          /\ \A i \in selected : i < next => files[Dest(i)] \in Copies(i)
      BY DEF RestoreInvariant, PlaceInv, DoneInv, AtJar
    <2>2. j \in 1..Len(jars) /\ Len(jars) \in Nat
      BY AppendIsSeq DEF RestoreInvariant, TypeOK, NamesInv
    <2> QED
      BY <2>1, <2>2
  <1> QED
    BY <1>1, RestoreInvariantHolds, NamesInductive, PTL

\* At any moment a destination holds what it held before the first run or a
\* whole JAR; where it is empty --clean or replace_file has emptied it, one at
\* most per run.
THEOREM DestinationsAreOldOrNew == Spec => [](DestsApart => DestsAreOldOrNew)
  <1>1. RestoreInvariant /\ NamesInv => (DestsApart => DestsAreOldOrNew)
    <2> SUFFICES ASSUME RestoreInvariant, NamesInv, DestsApart, Located PROVE
          /\ \A j \in selected :
               Dest(j) \in Emptied \/ files[Dest(j)] \in {before[Dest(j)]} \cup Copies(j)
          /\ \A p \in Emptied : (opts.clean /\ ~opts.restorePaths) \/ p \in unlinked
          /\ Cardinality(Emptied) <= runs
      BY DEF DestsAreOldOrNew, Located
    <2>1. \A j \in selected :
            \/ files[Dest(j)] \in {before[Dest(j)]} \cup Copies(j)
            \/ /\ files[Dest(j)] = Absent
               /\ (opts.clean /\ ~opts.restorePaths) \/ Dest(j) \in unlinked
      BY DEF RestoreInvariant, CleanInv
    <2>2. \A j \in selected :
            Dest(j) \in Emptied \/ files[Dest(j)] \in {before[Dest(j)]} \cup Copies(j)
      BY <2>1 DEF Emptied
    <2>3. ASSUME NEW p \in Emptied PROVE (opts.clean /\ ~opts.restorePaths) \/ p \in unlinked
      <3>1. PICK j \in selected : /\ p = Dest(j) /\ files[Dest(j)] = Absent
                                  /\ before[Dest(j)] # Absent
        BY DEF Emptied
      <3>2. Absent \notin Copies(j)
        BY AppendIsSeq DEF RestoreInvariant, TypeOK, NamesInv, Absent, Copies
      <3> QED
        BY <2>1, <3>1, <3>2
    <2>4. Cardinality(Emptied) <= runs
      BY DEF RestoreInvariant, CleanInv
    <2> QED
      BY <2>2, <2>3, <2>4
  <1> QED
    BY <1>1, RestoreInvariantHolds, NamesInductive, PTL
=============================================================================
