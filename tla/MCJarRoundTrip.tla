---------------------------- MODULE MCJarRoundTrip ----------------------------
(***************************************************************************)
(* Sources for JarRoundTrip: archives built from members (what is in them  *)
(* and how it was stored) and a shape (what is in front, how offsets are   *)
(* recorded, what is at the end).                                          *)
(***************************************************************************)
EXTENDS JarRoundTripInv

Raw(v) == [t |-> "raw", v |-> v]

\* A stored member; the others are variations of it.
Member(name, content) ==
    [name |-> name, content |-> content, method |-> 0, codec |-> StoredCodec, hint |-> 0,
     desc |-> 0, large |-> FALSE, pad |-> <<>>]
Deflated(name, content, codec) == [Member(name, content) EXCEPT !.method = 8, !.codec = codec]

Plain == [front |-> <<>>, abs |-> FALSE, comment |-> <<>>, junk |-> <<>>, odd |-> FALSE,
          foot |-> "classic", aliases |-> <<>>]

Data(m) == IF m.method = 0 THEN m.content ELSE encode_codec(m.codec, m.content)

\* desc is the number of cells of the data descriptor, -1 if it is missing.
LocalCells(m) ==
    LET u == Len(m.content)
        c == Len(Data(m))
        inline == m.desc = 0
    IN <<[t |-> "lfh", name |-> m.name, bit3 |-> ~inline, hint |-> m.hint, method |-> m.method,
          crc |-> IF inline THEN Crc(m.content) ELSE <<>>,
          uncomp |-> IF m.large THEN MaxU32 ELSE IF inline THEN u ELSE 0,
          comp |-> IF m.large THEN MaxU32 ELSE IF inline THEN c ELSE 0,
          x |-> IF m.large THEN <<u, c>> ELSE <<>>]>>
       \o Data(m)
       \o SubSeq(<<[t |-> "desc", crc |-> Crc(m.content), comp |-> c, uncomp |-> u],
                   [t |-> "wide"]>>, 1, m.desc)
       \o m.pad

Row(m, name, off, odd) ==
    LET w == <<Len(m.content), Len(Data(m)), off>>
        v == IF m.large THEN <<MaxU32, MaxU32>> \o <<Zip64Fields(w)[3]>> ELSE Zip64Fields(w)
    IN [t |-> "cd", name |-> name, bit3 |-> m.desc # 0, method |-> m.method, crc |-> Crc(m.content),
        uncomp |-> v[1], comp |-> v[2], off |-> v[3], odd |-> odd,
        x |-> IF m.large THEN SubSeq(w, 1, 2) \o Zip64Extra(<<off>>) ELSE Zip64Extra(w)]

ArchiveCells(shape, ms) ==
    LET parts == [i \in DOMAIN ms |-> LocalCells(ms[i])]
        body == FlattenSeq(parts)
        shift == IF shape.abs THEN Len(shape.front) ELSE 0
        rows == [i \in DOMAIN ms |-> Row(ms[i], ms[i].name, shift + Offsets(parts)[i],
                                         shape.odd /\ i = 1)]
                  \o [i \in DOMAIN shape.aliases |-> Row(ms[1], shape.aliases[i], shift, FALSE)]
        size == Len(rows) + Len(shape.junk)
        start == shift + Len(body)
        wide == shape.foot # "classic" \/ start >= MaxU32 \/ Len(rows) > MaxU16
        ext == IF shape.foot = "extended" THEN <<Raw("ext")>> ELSE <<>>
        footer == IF ~wide THEN <<>>
                  ELSE <<[t |-> "z64", n |-> Len(rows), size |-> size, off |-> start, ext |-> Len(ext)]>>
                         \o ext \o <<[t |-> "loc", at |-> start + size]>>
        full == shape.foot = "classic" /\ wide
    IN shape.front \o body \o rows \o shape.junk \o footer
         \o <<[t |-> "eocd", n |-> IF full THEN MaxU16 ELSE Len(rows),
               size |-> IF full THEN MaxU32 ELSE size, off |-> IF full THEN MaxU32 ELSE start,
               com |-> Len(shape.comment)]>>
         \o shape.comment

\* A name listed twice has the content of its last member.
Source(shape, ms) ==
    LET isFile(i) == ms[i].name \notin DirNames
        content(i) == IF isFile(i) THEN ms[i].content ELSE <<>>
        last == {i \in DOMAIN ms : \A j \in DOMAIN ms : ms[j].name = ms[i].name => j <= i}
        launcher == shape.front # <<>> /\ shape.front[1].t = "raw"
    IN [bytes |-> ArchiveCells(shape, ms), comment |-> shape.comment, heirs |-> {},
        rows |-> Len(ms) + Len(shape.aliases),
        counted |-> shape.abs \/ shape.front = <<>>,
        prefix |-> IF launcher THEN shape.front ELSE <<>>,
        listing |-> {<<ms[i].name, content(i)>> : i \in last}
                      \union {<<shape.aliases[i], ms[1].content>> : i \in DOMAIN shape.aliases}]

-----------------------------------------------------------------------------
(* Members: hits and misses of the codec match, of the sizes a rebuild     *)
(* keeps, grows and shrinks, with and without descriptor and Zip64 extra.  *)

one == <<Raw("p")>>
two == <<Raw("p"), Raw("q")>>
Hit == <<"zlib", 9>>
Grows == <<"other", 1>>
Shrinks == <<"other", 3>>

Inner == ArchiveCells(Plain, <<Member("n", one)>>)
InnerHit == ArchiveCells([Plain EXCEPT !.front = <<Raw("stub")>>],
                         <<Deflated("n", one, <<"flate2", 1>>)>>)
InnerMiss == ArchiveCells(Plain, <<Deflated("n", two, Shrinks)>>)

Kinds ==
    {Member("a", one),
     Deflated("a", two, Hit),
     Deflated("a", one, StoredCodec),
     Deflated("a", two, Grows),
     Deflated("a", two, Shrinks),
     [Deflated("a", two, Hit) EXCEPT !.desc = 1],
     [Deflated("a", two, Shrinks) EXCEPT !.desc = 1],
     [Deflated("a", two, Grows) EXCEPT !.desc = 2, !.large = TRUE],
     [Deflated("long", two, Grows) EXCEPT !.large = TRUE],
     Member("d/", <<>>),
     [Deflated("a", two, Shrinks) EXCEPT !.desc = -1],
     Member("../x", two),
     Deflated("../x", two, Shrinks),
     Deflated("d/", <<>>, Hit),
     Deflated("d/", <<>>, Shrinks),
     Member("d/", one),
     Member("a", Inner),
     Member("a", InnerHit),
     Member("a", InnerMiss)}

Cells(n) == Repeat(Raw("p"), n)
Large ==
    {[Member("a", Cells(n)) EXCEPT !.large = n >= MaxU32] : n \in (MaxU32 - 2)..(MaxU32 + 1)}
      \union {[Deflated("a", Cells(MaxU32 + 1), c) EXCEPT !.desc = d, !.large = TRUE] :
                c \in {Hit, Shrinks, Grows}, d \in {2, -1}}

Second == [Deflated("b", one, <<"flate2", 3>>) EXCEPT !.hint = 2, !.pad = <<Zero>>]
Third == [Member("c", two) EXCEPT !.pad = <<Raw("junk")>>]
Miss == Deflated("b", two, Shrinks)
Nested == {m \in Kinds : m.content \in {Inner, InnerHit, InnerMiss}}

-----------------------------------------------------------------------------
(* Shapes. *)

decoy == LocalCells(Member("decoy", <<>>))
stub == <<Raw("stub")>>

Launcher == [Plain EXCEPT !.front = stub \o decoy]

Fronts ==
    {Plain,
     Launcher,
     [Plain EXCEPT !.front = stub \o decoy, !.abs = TRUE],
     [Plain EXCEPT !.front = decoy \o stub, !.abs = TRUE],
     [Plain EXCEPT !.front = decoy],
     [Plain EXCEPT !.front = decoy \o stub],
     [Plain EXCEPT !.front = decoy \o stub \o stub],
     [Plain EXCEPT !.front = decoy, !.abs = TRUE]}

Ends(shape) ==
    {shape,
     [shape EXCEPT !.comment = <<Raw("note")>>],
     [shape EXCEPT !.junk = <<Raw("left")>>],
     [shape EXCEPT !.odd = TRUE],
     [shape EXCEPT !.aliases = <<"alias">>],
     [shape EXCEPT !.foot = "zip64"],
     [shape EXCEPT !.foot = "extended"]}

Shapes == UNION {Ends(front) : front \in Fronts}

Replaced(shape, m) ==
    LET pair(k) == Source(shape, <<k, Second>>)
    IN [pair(m) EXCEPT !.heirs = {pair(k).bytes : k \in Kinds} \union {Source(shape, <<m>>).bytes}]

\* Members that the directory does not list any more.  (In front of a
\* file-absolute empty directory they would count as the launcher.)
Emptied(shape, ms) ==
    LET body == FlattenSeq([i \in DOMAIN ms |-> LocalCells(ms[i])])
        eocd == [t |-> "eocd", n |-> 0, size |-> 0, off |-> Len(body), com |-> 0]
    IN [Source(shape, <<>>) EXCEPT !.bytes = shape.front \o body \o <<eocd>>]

EmptiedSources ==
    {Emptied(shape, <<m>>) : shape \in {Plain, Launcher}, m \in Kinds \ Nested}

MCSources ==
    {Source(shape, <<m>>) : shape \in Shapes, m \in Kinds}
      \union {Source(shape, <<m, Second, Third>>) : shape \in Fronts, m \in Kinds}
      \union {Source(shape, <<Second, m>>) : shape \in Ends(Plain), m \in Kinds}
      \union {Source(shape, <<m, Miss>>) : shape \in Shapes, m \in Large \union Nested}
      \union {Source(shape, <<m, Second>>) : shape \in Shapes, m \in Large}
      \union {Source(shape, <<m, Member(m.name, two)>>) : shape \in Fronts, m \in Kinds}
      \union {Source(shape, <<>>) : shape \in {f \in Fronts : f.front = <<>> \/ f.front[1] = stub[1]}}
      \union {Replaced(shape, m) : shape \in {Plain, Launcher}, m \in Kinds}
      \union EmptiedSources

\* An archive past the 32-bit fields whose entry no codec reproduces.
LeftoverSources ==
    {Source([Plain EXCEPT !.junk = junk], <<Member("a", Cells(MaxU32 - 1)), Miss>>) : junk \in {<<>>, <<Raw("left")>>}}

=============================================================================
