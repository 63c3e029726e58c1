------------------------------ MODULE PackNames -------------------------------
(***************************************************************************)
(* From the arguments of dehydrate to the names of the JARs in the pack:   *)
(* expand_inputs (excludes, the walk of directories, sorting, duplicates)  *)
(* and unique_basename.                                                    *)
(*                                                                         *)
(* A path is [dir, stem, ext], a base name [stem, ext]: a.jar.tmp has the  *)
(* stem "a.jar" and the extension "tmp".                                   *)
(***************************************************************************)
EXTENDS Counting, Sequences, SequencesExt, TLC

CONSTANTS Kind,             \* path -> "file", "dir" or "gone"; the paths there are
          Below,            \* directory -> the paths under it, however deep
          PathOrder,        \* every path, in the order of PathBuf
          ArchiveExts,      \* "jar", "zip", "war", "ear"
          UnsafeNames,      \* base names with a backslash, or not UTF-8
          MaxCopies         \* u32::MAX, the largest number in a name

ASSUME CopiesAssumption == MaxCopies \in Nat \ {0}

\* Ord compares any two paths, and only a directory has something below it.
ASSUME PathsAssumption ==
  /\ PathOrder \in Seq(DOMAIN Kind)
  /\ ToSet(PathOrder) = DOMAIN Kind /\ IsInjective(PathOrder)
  /\ DOMAIN Below = {p \in DOMAIN Kind : Kind[p] = "dir"}
  /\ \A d \in DOMAIN Below : Below[d] \subseteq DOMAIN Kind

None == <<>>
Some(v) == <<v>>

BaseName(p) == [stem |-> p.stem, ext |-> p.ext]

\* A pattern is a base name or a whole path.
path_excluded(p, exclude) == {p, BaseName(p)} \cap exclude # {}

is_archive_path(p) == p.ext \in ArchiveExts

-----------------------------------------------------------------------------
(* The inputs.  A directory cannot be listed when something in it is gone: *)
(* a warning, or the end of a strict run.  `walk` is the order the system  *)
(* lists in.                                                               *)

WalkOrders(dir) == SetToSeqs(Below[dir])

expand_dir(walk, exclude, strict) ==
  IF strict /\ \E i \in DOMAIN walk : Kind[walk[i]] = "gone" THEN None
  ELSE Some(Picked(walk, {i \in DOMAIN walk : /\ Kind[walk[i]] = "file"
                                              /\ is_archive_path(walk[i])
                                              /\ ~path_excluded(walk[i], exclude)}))

dedupe_inputs(s) == Picked(s, {i \in DOMAIN s : \A j \in 1..(i - 1) : s[j] # s[i]})

\* PathBuf's Ord, and the stable sort by it: the place of an element is the
\* number of those that do not come after it.
PathLess(p, q) ==
  \E i, j \in DOMAIN PathOrder : i < j /\ PathOrder[i] = p /\ PathOrder[j] = q
Place(s, i) ==
  Cardinality({j \in DOMAIN s : PathLess(s[j], s[i]) \/ (s[j] = s[i] /\ j <= i)})
Sorted(s) == [k \in DOMAIN s |-> s[CHOOSE i \in DOMAIN s : Place(s, i) = k]]

\* Faulty variant: every argument is sorted for itself.
expand_inputs_sorts_parts(args, o, walks) ==
  LET kept == Picked(args, {i \in DOMAIN args : ~path_excluded(args[i], o.exclude)})
      part(p) == IF Kind[p] = "dir" /\ o.recursive
                 THEN expand_dir(walks[p], o.exclude, o.strict) ELSE Some(<<p>>)
      all == FlattenSeq([i \in DOMAIN kept |->
               IF o.sort THEN Sorted(part(kept[i])[1]) ELSE part(kept[i])[1]])
  IN  IF \E i \in DOMAIN kept : part(kept[i]) = None THEN None ELSE Some(dedupe_inputs(all))

\* The paths to pack, or None when a strict run fails.
expand_inputs(args, o, walks) ==
  LET kept == Picked(args, {i \in DOMAIN args : ~path_excluded(args[i], o.exclude)})
      part(p) == IF Kind[p] = "dir" /\ o.recursive
                 THEN expand_dir(walks[p], o.exclude, o.strict) ELSE Some(<<p>>)
      all == FlattenSeq([i \in DOMAIN kept |-> part(kept[i])[1]])
  IN  IF \E i \in DOMAIN kept : part(kept[i]) = None THEN None
      ELSE Some(dedupe_inputs(IF o.sort THEN Sorted(all) ELSE all))

-----------------------------------------------------------------------------
\* The n-th name for a base name.
Candidate(base, n) == IF n = 1 THEN base ELSE [base EXCEPT !.stem = @ \o "__" \o ToString(n)]

\* Faulty variant: the names that the base name has led to are counted.
unique_basename_counts(base, used) ==
  LET copies == {n \in 1..MaxCopies : Candidate(base, n) \in used}
      n == Cardinality(copies) + 1
  IN  IF base \in UnsafeNames \/ n > MaxCopies THEN None
      ELSE Some(Candidate(base, n))

\* The first that no JAR of the pack has; None when the name is unsafe or the
\* numbers run out.
unique_basename(base, used) ==
  LET free == {n \in 1..MaxCopies : Candidate(base, n) \notin used}
  IN  IF base \in UnsafeNames \/ free = {} THEN None
      ELSE Some(Candidate(base, CHOOSE n \in free : \A m \in free : n <= m))

=============================================================================
