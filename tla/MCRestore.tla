----------------------------- MODULE MCRestore ------------------------------
(***************************************************************************)
(* Packs of up to three JARs.  One command packs two JARs, the first from  *)
(* another directory, the second from the restore directory itself, and    *)
(* any of the destinations and their siblings may be taken before the      *)
(* restore, one of them by a directory.  The other commands have names     *)
(* that collide, arguments that repeat, are excluded, gone or unsafe, two  *)
(* spellings of one path, and directories; their JARs are restored into an *)
(* empty place, the file with two spellings also over itself.              *)
(***************************************************************************)
EXTENDS RestoreInv

File(dir, stem, ext) == [dir |-> dir, stem |-> stem, ext |-> ext]
Top(name) == File("", name, "")

a == File("lib", "a", "jar")
a2 == File("./lib", "a", "jar")       \* a once more
notes == File("lib", "notes", "txt")
b == File("out", "b", "jar")
x == File("x", "a", "jar")
x2 == File("x", "a__2", "jar")
y == File("y", "a", "jar")
tmp == File("y", "a.jar", "tmp")
unsafe == File("y", "a\\b", "jar")
lost == File("z", "lost", "jar")
lib == Top("lib")
z == Top("z")

MCBelow == lib :> {a, notes} @@ z :> {lost}
MCPathOrder == <<a2, lib, a, notes, b, x, x2, y, tmp, unsafe, z, lost>>
MCKind == [p \in ToSet(MCPathOrder) |-> IF p \in {lib, z} THEN "dir" ELSE IF p = lost THEN "gone" ELSE "file"]
MCCanonical == [p \in DOMAIN MCKind |-> IF p = a2 THEN a ELSE p]
MCUnsafe == {BaseName(unsafe)}

Pack(args) == [args |-> args, exclude |-> {}, recursive |-> FALSE, sort |-> FALSE, strict |-> FALSE]
Two == Pack(<<a, b>>)
Respelled == Pack(<<a2, a>>)
Variants(c) == {c, [c EXCEPT !.strict = TRUE], [c EXCEPT !.sort = TRUE]}

MCCommands ==
  {Two, Respelled, [Pack(<<lib, a2>>) EXCEPT !.recursive = TRUE],
   Pack(<<x2, a>>), Pack(<<a, x, x2>>), Pack(<<a, y, x>>), Pack(<<a, unsafe>>), Pack(<<>>),
   [Pack(<<x, notes, a>>) EXCEPT !.sort = TRUE]}
    \cup UNION {Variants(Pack(<<x, lost, lib>>)),
                Variants([Pack(<<x, lib, a>>) EXCEPT !.recursive = TRUE]),
                Variants([Pack(<<z, b>>) EXCEPT !.recursive = TRUE])}
    \cup {[Pack(<<x, lib, notes>>) EXCEPT !.recursive = TRUE, !.exclude = {e}] :
            e \in {BaseName(a), lib, notes}}

Files == {p \in DOMAIN MCKind : MCKind[p] = "file"}
Dests == {InOut(BaseName(p)) : p \in Files} \cup {InOut(Candidate(BaseName(x2), 2))}
           \cup {MCCanonical[p] : p \in Files}
MCPath == Dests \cup {Sibling(p) : p \in Dests}
Empty == [p \in MCPath |-> Absent]

Taken == UNION {{d, Sibling(d)} : d \in {a, InOut(BaseName(a)), b}}
FullTrees ==
  {[p \in MCPath |-> IF p \in Taken THEN t[p] ELSE Absent] :
     t \in {t \in [Taken -> {Absent, Directory, Own}] :
              Cardinality({p \in Taken : t[p] = Directory}) <= 1}}
MCTrees ==
  [c \in MCCommands |-> IF c = Two THEN FullTrees
                        ELSE IF c = Respelled THEN {Empty, [Empty EXCEPT ![a] = Own]}
                        ELSE {Empty}]

\* A pack in which a JAR is called like another one's sibling.
ClashCommands == {Pack(<<tmp, a>>)}
ClashTrees == [c \in ClashCommands |-> {Empty}]
=============================================================================
