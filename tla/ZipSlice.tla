------------------------------- MODULE ZipSlice -------------------------------
(***************************************************************************)
(* exact.rs, first half: how dehydrate cuts a JAR into the parts a restore *)
(* splices together again.                                                 *)
(*                                                                         *)
(* A slice has the prefix, the bytes in front of the first local header of *)
(* an unprefixed file (leading_pad), per listed entry the local header,    *)
(* the stored data, the data descriptor and what lies behind them up to    *)
(* the next local (pad), and the tail from the central directory to the    *)
(* end.  The tail is kept only if the code's own reading of the central    *)
(* directory (homemade) agrees with the crate's listing.                   *)
(***************************************************************************)
EXTENDS ZipLayout

\* A recorded offset as an offset in the archive; after zip -A the recorded
\* one is file-absolute, and may lie inside the prefix.
cd_offset_to_zip_rel(recorded, layout) ==
    IF layout.view_shift = 0 /\ layout.prefix_len > 0
    THEN IF recorded < layout.prefix_len THEN None ELSE Some(recorded - layout.prefix_len)
    ELSE Some(recorded)

\* [crc, comp, uncomp, at] of every entry the crate lists; at is ZIP-relative.
archive_local_records(f, layout) ==
    LET rel(e) == cd_offset_to_zip_rel(e.start, layout)
        record(e) == [crc |-> e.crc, comp |-> e.comp, uncomp |-> e.uncomp, at |-> rel(e)[1]]
    IN AndThen(ZipArchive(f, layout.view_shift), LAMBDA archive :
         IF \E e \in ToSet(archive.entries) : rel(e) = None THEN None
         ELSE Some([i \in DOMAIN archive.entries |-> record(archive.entries[i])]))

-----------------------------------------------------------------------------
(* The homemade reading of the central directory: how many rows it has,    *)
(* or None.  Leftover bytes behind at least one row are let through; a row *)
(* that does not resolve, of another disk, or in front of the prefix makes *)
(* the whole reading fail.                                                 *)

RowResolves(r, layout) ==
    LET v == resolve_zip64(r.x, CdFields(r))
    IN IF v = None THEN FALSE ELSE ~r.odd /\ cd_offset_to_zip_rel(v[1][3], layout) # None

parse_central_directory(cd, layout) ==
    LET rows == {k \in DOMAIN cd : \A j \in 1..k : cd[j].t = "cd"}
    IN IF \E k \in rows : ~RowResolves(cd[k], layout) THEN None
       ELSE IF rows = {} /\ cd # <<>> THEN None
       ELSE Some(Cardinality(rows))

-----------------------------------------------------------------------------
(* One local: its header, data, descriptor and pad.                        *)

\* Narrow descriptors first unless the sizes say Zip64.  The checksum has to
\* match; a wide one is recognised by its length alone.
split_descriptor(after, crc, zip64_likely) ==
    LET fits(n) == Len(after) >= n /\ after[1].t = "desc" /\ after[1].crc = crc
        first == IF zip64_likely THEN 2 ELSE 1
        n == IF fits(first) THEN first ELSE 3 - first
    IN IF fits(n) THEN Some([desc |-> SubSeq(after, 1, n), pad |-> From(after, n)]) ELSE None

\* The local at r, which ends where the next one (or the directory) starts.
read_local(f, layout, r, next) ==
    LET h == At(f, layout.prefix_len + r.at)
        end == r.at + 1 + r.comp
        after == Slice(f, layout.prefix_len + end, layout.prefix_len + next)
        split == IF h.bit3
                 THEN split_descriptor(after, r.crc, r.comp >= MaxU32 \/ r.uncomp >= MaxU32)
                 ELSE Some([desc |-> <<>>, pad |-> after])
    IN IF ~Is(f, layout.prefix_len + r.at, "lfh") \/ end > next THEN None
       ELSE IF split = None THEN None
       ELSE Some([at |-> r.at, header |-> h,
                  cdata |-> Slice(f, layout.prefix_len + r.at + 1, layout.prefix_len + end),
                  desc |-> split[1].desc, pad |-> split[1].pad])

-----------------------------------------------------------------------------
(* The whole slice, or None when it fails; the JAR is then packed without. *)

\* The parts when the directory starts at cd and the crate lists recs.
SliceParts(f, layout, recs, cd, homemade) ==
    LET hole == IF recs = <<>> THEN 0 ELSE Min({recs[i].at : i \in DOMAIN recs})
        \* Entries with one offset share the next greater one, so the bytes
        \* in between are the pad of each of them.
        next(i) == Min({recs[j].at : j \in {k \in DOMAIN recs : recs[k].at > recs[i].at}}
                         \union {cd - layout.prefix_len})
        local(i) == read_local(f, layout, recs[i], next(i))
    IN IF hole # 0 /\ layout.prefix_len # 0 THEN None
       ELSE IF cd < layout.prefix_len THEN None
       ELSE IF homemade # None /\ homemade # Some(Len(recs)) THEN None
       ELSE IF \E i \in DOMAIN recs : recs[i].at >= cd - layout.prefix_len THEN None
       ELSE IF \E i \in DOMAIN recs : local(i) = None THEN None
       ELSE Some([prefix |-> Slice(f, 0, layout.prefix_len),
                  leading_pad |-> Slice(f, 0, hole),
                  locals |-> [i \in DOMAIN recs |-> local(i)[1]],
                  tail |-> IF homemade = None THEN None ELSE Some(From(f, cd)),
                  homemade_ok |-> homemade # None])

slice_from_reader(f) ==
    AndThen(detect_zip_layout(f), LAMBDA layout :
    AndThen(archive_local_records(f, layout), LAMBDA recs :
    AndThen(find_cd_bounds(f), LAMBDA b :
      SliceParts(f, layout, recs, b.at - b.size,
                 parse_central_directory(Slice(f, b.at - b.size, b.at), layout)))))

=============================================================================
