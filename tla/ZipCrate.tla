------------------------------- MODULE ZipCrate -------------------------------
(***************************************************************************)
(* The zip crate (2.4, a dependency: external) as ayzenpack relies on it:  *)
(* ZipArchive, which lists an archive through a ZipView, by_index, which   *)
(* reads one entry, and ZipWriter.                                         *)
(*                                                                         *)
(* Two of its habits matter to the code that calls it.  ZipArchive tries   *)
(* the EOCD records from the end backward and takes the first one that     *)
(* leads to a directory, which may be the one of a ZIP stored inside; and  *)
(* a name listed twice keeps its first place and its last value.           *)
(***************************************************************************)
EXTENDS ZipCells

\* The crate keeps the sentinel when the extra has no slot for it.
CrateFields(r) ==
    LET v == CdFields(r)
    IN [i \in DOMAIN v |-> IF v[i] = MaxU32 /\ Slots(v, i) <= Len(r.x)
                           THEN r.x[Slots(v, i)] ELSE v[i]]

\* Where the directory of the EOCD at e starts in v, and how many bytes lie
\* in front of the archive (base); None if e does not lead to one.
DirectoryAt(v, e) ==
    LET d == At(v, e)
        wide == (d.n = MaxU16 \/ d.off = MaxU32) /\ Is(v, e - 1, "loc")
        records == {p \in 0..(e - 2) : /\ At(v, e - 1).at <= p
                                       /\ Is(v, p, "z64")
                                       /\ p + 1 + At(v, p).ext = e - 1
                                       /\ At(v, p).n + At(v, p).off <= p}
        rows == {q \in 0..(e - 1) : d.off <= q /\ Is(v, q, "cd")}
    IN IF wide
       THEN IF records = {} THEN None
            ELSE LET p == Min(records)
                     base == p - At(v, e - 1).at
                 IN Some([base |-> base, start |-> base + At(v, p).off, n |-> At(v, p).n])
       ELSE IF d.n = 0 THEN Some([base |-> 0, start |-> 0, n |-> 0])
       ELSE IF rows = {} THEN None
       ELSE Some([base |-> Min(rows) - d.off, start |-> Min(rows), n |-> d.n])

\* The rows of that directory, each with its local header in front of it.
RowsAt(v, dir) ==
    LET row(i) == At(v, dir.start + i - 1)
        entry(i) == LET w == CrateFields(row(i))
                    IN [name |-> row(i).name, method |-> row(i).method, crc |-> row(i).crc,
                        uncomp |-> w[1], comp |-> w[2], start |-> dir.base + w[3]]
    IN IF /\ dir.n \in 0..(Len(v) - dir.start)
          /\ \A i \in 1..dir.n : /\ Is(v, dir.start + i - 1, "cd")
                                 /\ Is(v, entry(i).start, "lfh")
                                 /\ entry(i).start < dir.start
       THEN Some([i \in 1..dir.n |-> entry(i)]) ELSE None

\* One entry per name: the place of its first row, the value of its last.
ByName(rows) ==
    LET firsts == {i \in DOMAIN rows : \A j \in 1..(i - 1) : rows[j].name # rows[i].name}
        lastOf(name) == Max({i \in DOMAIN rows : rows[i].name = name})
    IN [k \in 1..Cardinality(firsts) |-> rows[lastOf(rows[Nth(firsts, k)].name)]]

\* What the EOCD at e of v leads to.
ArchiveAt(v, e) ==
    IF ~Is(v, e, "eocd") \/ e + 1 + At(v, e).com > Len(v) THEN None
    ELSE AndThen(DirectoryAt(v, e), LAMBDA dir :
         AndThen(RowsAt(v, dir), LAMBDA rows :
           Some([view |-> v, entries |-> ByName(rows),
                 comment |-> Slice(v, e + 1, e + 1 + At(v, e).com)])))

LastSome(options) ==
    LET some == {i \in DOMAIN options : options[i] # None}
        last == {i \in some : \A j \in some : j <= i}
    IN IF last = {} THEN None ELSE options[CHOOSE i \in last : TRUE]

\* ZipArchive::new(ZipView::new(file, view_shift)).
ZipArchive(file, view_shift) ==
    LastSome([e \in 0..(Len(file) - view_shift - 1) |-> ArchiveAt(From(file, view_shift), e)])

\* by_index(i), read to its end: the content, if size and checksum agree.
ReadEntry(archive, i) ==
    LET e == archive.entries[i]
        stored == Slice(archive.view, e.start + 1, e.start + 1 + e.comp)
        content == IF e.method = 0 THEN Some(stored) ELSE inflate(stored)
    IN IF content # None /\ Crc(content[1]) = e.crc /\ Len(content[1]) = e.uncomp
       THEN content ELSE None

-----------------------------------------------------------------------------
(* ZipWriter: rows w of [name, method, data, crc, size], then finish. *)

\* large_file reserves a Zip64 extra in the local header.
WrittenLocal(w) ==
    LET large == w.size >= MaxU32
    IN <<[t |-> "lfh", name |-> w.name, bit3 |-> FALSE, hint |-> 0, method |-> w.method,
          crc |-> w.crc, comp |-> IF large THEN MaxU32 ELSE Len(w.data),
          uncomp |-> IF large THEN MaxU32 ELSE w.size,
          x |-> IF large THEN <<w.size, Len(w.data)>> ELSE <<>>]>> \o w.data

Offsets(parts) == [i \in DOMAIN parts |-> Len(FlattenSeq(SubSeq(parts, 1, i - 1)))]

\* The directory gets a Zip64 record when a count, a size or an offset needs one.
ZipWriterFile(ws, comment) ==
    LET locals == [i \in DOMAIN ws |-> WrittenLocal(ws[i])]
        start == Len(FlattenSeq(locals))
        n == Len(ws)
        rows == [i \in 1..n |->
                   write_cd_record([name |-> ws[i].name, bit3 |-> FALSE, method |-> ws[i].method,
                                    crc |-> ws[i].crc, uncomp |-> ws[i].size,
                                    comp |-> Len(ws[i].data), off |-> Offsets(locals)[i]])]
        large == n > MaxU16 \/ start > MaxU32 \/ \E i \in 1..n : ws[i].size >= MaxU32
        footer == IF large THEN <<[t |-> "z64", n |-> n, size |-> n, off |-> start, ext |-> 0],
                                  [t |-> "loc", at |-> start + n]>> ELSE <<>>
        least(a, b) == IF a < b THEN a ELSE b
        eocd == [t |-> "eocd", n |-> least(n, MaxU16), size |-> least(n, MaxU32),
                 off |-> least(start, MaxU32), com |-> Len(comment)]
    IN FlattenSeq(locals) \o rows \o footer \o <<eocd>> \o comment

=============================================================================
