------------------------------- MODULE ZipCells -------------------------------
(***************************************************************************)
(* What a JAR file is to ayzenpack: the vocabulary the ZIP modules share.  *)
(*                                                                         *)
(* A file is a sequence of cells addressed from 0.  Every ZIP structure is *)
(* one cell, and so is every unit of payload; offsets, sizes and counts    *)
(* are numbers of cells.  MaxU32 and MaxU16 are the sentinels 0xFFFFFFFF   *)
(* and 0xFFFF, scaled so that small files reach them.                      *)
(*                                                                         *)
(*   lfh   local header  [name, bit3, hint, method, crc, comp, uncomp, x]  *)
(*   cd    central row   [name, bit3, method, crc, comp, uncomp, off, x,   *)
(*                        odd]; odd: a disk number other than 0            *)
(*   desc  data descriptor [crc, comp, uncomp]; a wide one, with 64-bit    *)
(*         sizes, is followed by a cell wide                               *)
(*   z64, loc, eocd   Zip64 record [n, size, off, ext], its locator [at],  *)
(*         end of central directory [n, size, off, com]                    *)
(*   z     one cell of the DEFLATE stream of payload "of" under codec "c"  *)
(*   raw, zero        any other data, zero bytes                           *)
(*                                                                         *)
(* The field x of a header is the payload of its Zip64 extra, as 64-bit    *)
(* slots.  Hashes and checksums are the content itself: no collisions.     *)
(***************************************************************************)
EXTENDS Counting, Sequences, SequencesExt

CONSTANTS MaxU32,      \* the value a 32-bit field has when Zip64 holds the real one
          MaxU16,      \* the same for the 16-bit entry counts of the EOCD
          DirNames     \* the entry names that end in "/"

ASSUME SentinelAssumption == MaxU32 \in Nat \ {0} /\ MaxU16 \in Nat \ {0}

\* Rust's Option, and_then and or.
None == <<>>
Some(v) == <<v>>
AndThen(option, F(_)) == IF option = None THEN None ELSE F(option[1])
OrElse(option, other) == IF option = None THEN other ELSE option

-----------------------------------------------------------------------------
(* Reading a file by offset. *)

\* The fields of a structure are unsigned numbers, an extra is a list of
\* them, and a payload is a sequence.
IsCell(c) ==
    /\ c.t = "cd" => {c.uncomp, c.comp, c.off} \subseteq Nat /\ c.x \in Seq(Nat)
    /\ c.t \in {"z64", "eocd"} => {c.n, c.size, c.off} \subseteq Nat
    /\ c.t = "z64" => c.ext \in Nat
    /\ c.t = "loc" => c.at \in Nat
    /\ c.t = "eocd" => c.com \in Nat
    /\ c.t = "z" => c.of \in Seq(ToSet(c.of))

IsFile(f) == f \in Seq(ToSet(f)) /\ \A i \in DOMAIN f : IsCell(f[i])

At(f, i) == f[i + 1]
Is(f, i, t) == 0 <= i /\ i < Len(f) /\ f[i + 1].t = t
Slice(f, i, j) == SubSeq(f, i + 1, j)
From(f, i) == SubSeq(f, i + 1, Len(f))
Repeat(cell, n) == [i \in 1..n |-> cell]
Zero == [t |-> "zero"]
Crc(content) == content

-----------------------------------------------------------------------------
(* Zip64: a 32-bit field that is the sentinel has its value in the next    *)
(* unused slot of the extra, in the order of the fields v.                 *)

Slots(v, i) == Cardinality({j \in 1..i : v[j] = MaxU32})

resolve_zip64(x, v) ==
    IF Slots(v, Len(v)) > Len(x) THEN None
    ELSE Some([i \in DOMAIN v |-> IF v[i] = MaxU32 THEN x[Slots(v, i)] ELSE v[i]])

\* What a writer stores for the values w: the fields and the extra they need.
Zip64Fields(w) == [i \in DOMAIN w |-> IF w[i] >= MaxU32 THEN MaxU32 ELSE w[i]]
Zip64Extra(w) == SelectSeq(w, LAMBDA value : value >= MaxU32)

\* The central row of an entry [name, bit3, method, crc, uncomp, comp, off].
write_cd_record(e) ==
    LET w == <<e.uncomp, e.comp, e.off>>
        v == Zip64Fields(w)
    IN [t |-> "cd", name |-> e.name, bit3 |-> e.bit3, method |-> e.method, crc |-> e.crc,
        uncomp |-> v[1], comp |-> v[2], off |-> v[3], x |-> Zip64Extra(w), odd |-> FALSE]

\* The fields of a header in the order the Zip64 extra lists them.
CdFields(r) == <<r.uncomp, r.comp, r.off>>
LocalFields(h) == <<h.uncomp, h.comp>>

-----------------------------------------------------------------------------
(* The end of the central directory, as scan.rs finds it. *)

\* The last EOCD whose comment reaches the end of the file.
find_eocd(f) ==
    LET ends == {i \in 0..(Len(f) - 1) : Is(f, i, "eocd") /\ i + 1 + At(f, i).com = Len(f)}
    IN IF ends = {} THEN None ELSE Some(Max(ends))

\* The Zip64 record that ends at the locator in front of the EOCD at e.
find_zip64(f, e) ==
    LET ends == {i \in 0..(e - 2) : Is(f, i, "z64") /\ i + 1 + At(f, i).ext = e - 1}
    IN IF Is(f, e - 1, "loc") /\ ends # {} THEN Some(Max(ends)) ELSE None

\* Where the structure behind the central directory is, and what it records;
\* Zip64 is preferred even when no classic field is a sentinel.
find_cd_bounds(f) ==
    AndThen(find_eocd(f), LAMBDA e :
    AndThen(OrElse(find_zip64(f, e), Some(e)), LAMBDA at :
      Some([at |-> at, size |-> At(f, at).size, off |-> At(f, at).off, n |-> At(f, at).n])))

-----------------------------------------------------------------------------
(* Raw DEFLATE.  A codec is <<library, level>>: "zlib" and "flate2" are    *)
(* the two encoders ayzenpack has, "stored" the BTYPE 00 blocks it writes  *)
(* itself, "other" an encoder it cannot reproduce.                         *)

ZlibLevels == <<1, 3, 6, 9>>
RebuildCodec == <<"flate2", 6>>
StoredCodec == <<"stored", 0>>

\* Bits 1-2 of the general purpose flags name the level the writer used.
gpbf_deflate_hint(hint) == CASE hint = 0 -> 6 [] hint = 1 -> 9 [] hint = 2 -> 3 [] hint = 3 -> 1

\* A stored stream is longer than its payload, an unknown encoder's has the
\* length its level says: a rebuilt slot may shrink, grow or keep its size.
DeflatedLen(content, c) ==
    CASE c[1] = "stored" -> Len(content) + 1
      [] c[1] = "other" -> c[2]
      [] OTHER -> 2

encode_codec(c, content) ==
    [k \in 1..DeflatedLen(content, c) |-> [t |-> "z", of |-> content, c |-> c, k |-> k]]

inflate(cells) ==
    IF /\ Len(cells) > 0
       /\ cells[1].t = "z"
       /\ cells = encode_codec(cells[1].c, cells[1].of)
    THEN Some(cells[1].of) ELSE None

\* The hint first, then the list (the hint again, if it is in it: what did
\* not hit the first time does not hit the second time either).
HintFirst(hint, levels) == <<gpbf_deflate_hint(hint)>> \o levels

trial_levels(hint) == HintFirst(hint, <<6, 9, 1>>)

\* The codecs in the order they are tried; the first that reproduces want wins.
match_deflate(content, want, hint) ==
    LET with(lib, levels) == [i \in DOMAIN levels |-> <<lib, levels[i]>>]
        trials == with("zlib", HintFirst(hint, ZlibLevels)) \o with("flate2", trial_levels(hint))
                    \o <<StoredCodec>>
        hits == {i \in DOMAIN trials : encode_codec(trials[i], content) = want}
    IN IF hits = {} THEN None ELSE Some(trials[Min(hits)])

-----------------------------------------------------------------------------
(* Writing. *)

\* write_all at a position of a seekable file: a gap left by the seek reads
\* as zeros, what was there is overwritten.
WriteAt(file, pos, cells) ==
    [i \in 1..Max({Len(file), pos + Len(cells)}) |->
        IF pos < i /\ i <= pos + Len(cells) THEN cells[i - pos]
        ELSE IF i <= Len(file) THEN file[i] ELSE Zero]

=============================================================================
