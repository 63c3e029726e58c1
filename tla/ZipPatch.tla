------------------------------- MODULE ZipPatch -------------------------------
(***************************************************************************)
(* exact.rs, second half, and cd.rs: what a restore changes in captured    *)
(* headers when the stored bytes of a slot get another length, and the     *)
(* central directory it writes when there is no captured one to patch.     *)
(*                                                                         *)
(* A patch keeps the form the source chose.  A field that was the Zip64    *)
(* sentinel stays one and its slot of the extra changes; a field that was  *)
(* not must still fit, because the extra cannot grow.                      *)
(***************************************************************************)
EXTENDS ZipCells

CONSTANT DotDotNames    \* entry names with a component ".."

entry_has_dotdot(name) == name \in DotDotNames

-----------------------------------------------------------------------------
(* Headers. *)

\* The new values w into the fields v and the slots x; None if one that has
\* no slot does not fit, or its slot is missing.
PatchFields(v, x, w) ==
    LET fits(i) == IF v[i] = MaxU32 THEN Slots(v, i) <= Len(x) ELSE w[i] <= MaxU32
        owner(k) == {i \in DOMAIN v : v[i] = MaxU32 /\ Slots(v, i) = k}
    IN IF \E i \in DOMAIN v : ~fits(i) THEN None
       ELSE Some([v |-> [i \in DOMAIN v |-> IF v[i] = MaxU32 THEN MaxU32 ELSE w[i]],
                  x |-> [k \in DOMAIN x |-> IF owner(k) = {} THEN x[k]
                                            ELSE w[CHOOSE i \in owner(k) : TRUE]]])

\* With a data descriptor only the method is in the local header.
patch_local_rebuild_fields(h, method, crc, comp, uncomp) ==
    LET p == PatchFields(LocalFields(h), h.x, <<uncomp, comp>>)
    IN IF h.bit3 THEN Some([h EXCEPT !.method = method])
       ELSE IF p = None THEN None
       ELSE Some([h EXCEPT !.method = method, !.crc = crc,
                           !.uncomp = p[1].v[1], !.comp = p[1].v[2], !.x = p[1].x])

patch_data_descriptor(desc, crc, comp, uncomp) ==
    IF Len(desc) = 1 /\ (comp > MaxU32 \/ uncomp > MaxU32) THEN None
    ELSE Some([desc EXCEPT ![1] = [t |-> "desc", crc |-> crc, comp |-> comp, uncomp |-> uncomp]])

-----------------------------------------------------------------------------
(* The captured tail. *)

PatchOffset(r, off) ==
    LET v == resolve_zip64(r.x, CdFields(r))
        p == PatchFields(CdFields(r), r.x, <<v[1][1], v[1][2], off>>)
    IN IF v = None THEN None ELSE IF p = None THEN None
       ELSE Some([r EXCEPT !.off = p[1].v[3], !.x = p[1].x])

first_cd_local_offset(tail) ==
    IF ~Is(tail, 0, "cd") THEN None
    ELSE LET v == resolve_zip64(tail[1].x, CdFields(tail[1]))
         IN IF v = None THEN None ELSE Some(v[1][3])

\* Faulty variant: zip -A is not thought of.
detect_zip_rel_mode(tail, first_local, prefix_len) ==
    IF first_cd_local_offset(tail) = Some(first_local) THEN Some("ZipRel") ELSE None

\* Whether the source recorded offsets from the archive or from the file.
detect_offset_mode(tail, first_local, prefix_len) ==
    LET off == first_cd_local_offset(tail)
    IN IF off = None THEN None
       ELSE IF off[1] = first_local THEN Some("ZipRel")
       ELSE IF prefix_len > 0 /\ off[1] = prefix_len + first_local THEN Some("FileAbs")
       ELSE None

\* Faulty variant: offsets are always those of the archive.
encode_offset_rel(mode, zip_rel, prefix_len) == zip_rel

encode_offset(mode, zip_rel, prefix_len) == IF mode = "FileAbs" THEN prefix_len + zip_rel ELSE zip_rel

\* The updates [method, crc, comp, uncomp, off] into the first rows.
patch_central_directory(tail, updates, mode, prefix_len) ==
    LET row(i) == PatchFields(CdFields(tail[i]), tail[i].x,
                              <<updates[i].uncomp, updates[i].comp,
                                encode_offset(mode, updates[i].off, prefix_len)>>)
        patched(i) == [tail[i] EXCEPT !.method = updates[i].method, !.crc = updates[i].crc,
                                      !.uncomp = row(i)[1].v[1], !.comp = row(i)[1].v[2],
                                      !.off = row(i)[1].v[3], !.x = row(i)[1].x]
    IN IF \E i \in DOMAIN updates : ~Is(tail, i - 1, "cd") THEN None
       ELSE IF \E i \in DOMAIN updates : row(i) = None THEN None
       ELSE Some([i \in DOMAIN tail |-> IF i \in DOMAIN updates THEN patched(i) ELSE tail[i]])

\* The new start of a directory of size rows into the EOCD, the locator and
\* the Zip64 record.
patch_eocd_cd_start(tail, size, start) ==
    LET wide(e) == At(tail, e).off = MaxU32
        located(e) == Is(tail, e - 1, "loc")
        patched(e, z, i) ==
            IF i = e + 1 /\ ~wide(e) THEN [tail[i] EXCEPT !.off = start]
            ELSE IF located(e) /\ i = e THEN [tail[i] EXCEPT !.at = start + size]
            ELSE IF located(e) /\ i = z[1] + 1 THEN [tail[i] EXCEPT !.off = start]
            ELSE tail[i]
    IN AndThen(find_eocd(tail), LAMBDA e :
         LET z == find_zip64(tail, e)
         IN IF (~wide(e) /\ start > MaxU32) \/ (located(e) /\ z = None) THEN None
            ELSE Some([i \in DOMAIN tail |-> patched(e, z, i)]))

\* The ZIP a ZipWriter wrote behind a prefix: its offsets become those of
\* the file.
fileabs_shift_tail(file, prefix_len) ==
    LET shifted(row) == PatchOffset(row, resolve_zip64(row.x, CdFields(row))[1][3] + prefix_len)
        patched(tail, b) ==
          IF \E i \in 1..b.size : ~Is(tail, i - 1, "cd") \/ shifted(tail[i]) = None THEN None
          ELSE patch_eocd_cd_start([i \in DOMAIN tail |-> IF i <= b.size THEN shifted(tail[i])[1]
                                                          ELSE tail[i]],
                                   b.size, b.off + prefix_len)
    IN IF prefix_len = 0 THEN Some(file)
       ELSE AndThen(find_cd_bounds(file), LAMBDA b :
              LET cd == b.at - b.size
              IN IF cd < 0 THEN None
                 ELSE AndThen(patched(From(file, cd), b), LAMBDA tail : Some(WriteAt(file, cd, tail))))

-----------------------------------------------------------------------------
(* A directory of its own, for JARs whose tail was not kept. *)

\* The entries [name, bit3, method, crc, comp, uncomp, off], which start at
\* cd_start; one Zip64 row, or a start that does not fit, needs the footer,
\* and then every field of the classic record is a sentinel.
write_synthetic_cd(entries, cd_start, comment) ==
    LET rows == [i \in DOMAIN entries |-> write_cd_record(entries[i])]
        n == Len(rows)
        zip64 == n > MaxU16 \/ n >= MaxU32 \/ cd_start >= MaxU32 \/ \E i \in 1..n : rows[i].x # <<>>
        footer == IF zip64 THEN <<[t |-> "z64", n |-> n, size |-> n, off |-> cd_start, ext |-> 0],
                                  [t |-> "loc", at |-> cd_start + n]>> ELSE <<>>
        eocd == [t |-> "eocd", n |-> IF zip64 THEN MaxU16 ELSE n, size |-> IF zip64 THEN MaxU32 ELSE n,
                 off |-> IF zip64 THEN MaxU32 ELSE cd_start, com |-> Len(comment)]
    IN IF \E i \in 1..n : entry_has_dotdot(entries[i].name) THEN None
       ELSE Some(rows \o footer \o <<eocd>> \o comment)

=============================================================================
