------------------------------ MODULE ZipStencil ------------------------------
(***************************************************************************)
(* What the manifest keeps of a JAR, and how dehydrate fills it: the class *)
(* of every entry (classify_local), the parts attach_exact adds when the   *)
(* JAR can be sliced, and the stored ZIPs that are taken apart             *)
(* (probe_explode) once rebuilding them in hand gave the same bytes.       *)
(*                                                                         *)
(* A blob reference is an option of the content it names, and a store is   *)
(* the set of contents a reader can get.  A jar is                         *)
(*   [source, comment, prefix, leading_pad, tail, nested, entries]         *)
(* where source stands for the recorded size and hashes; an element of     *)
(* nested has prefix, leading_pad, tail and entries.                       *)
(***************************************************************************)
EXTENDS ZipSlice

CONSTANTS LongNames,    \* names whose local header exceeds HEX_INLINE_MAX
          MaxNested     \* NESTED_MAX_FILE_ENTRIES: more files stay opaque

get_blob(ref, store) == IF ref = None THEN None ELSE IF ref[1] \in store THEN ref ELSE None

SomeUnlessEmpty(content) == IF content = <<>> THEN None ELSE Some(content)
OrEmpty(ref) == IF ref = None THEN <<>> ELSE ref[1]

entry_from_scan(meta, blob) ==
    [name |-> meta.name, is_dir |-> meta.is_dir, crc |-> meta.crc, method |-> meta.method,
     uncomp |-> meta.uncomp, comp |-> meta.comp, blob |-> blob, codec |-> None, zip_index |-> None,
     local_header_offset |-> None, offsetheader |-> None, header_hex |-> None, header_blob |-> None,
     desc |-> <<>>, pad_zeros |-> None, pad_blob |-> None]

-----------------------------------------------------------------------------
(* The class of an entry: whether its stored bytes can be made again.      *)

Class(kind, codec) == [kind |-> kind, codec |-> codec]

classify_local(e, local) ==
    LET plain == inflate(local.cdata)
        hit == match_deflate(plain[1], local.cdata, local.header.hint)
    IN IF e.zip_index # None THEN Class("ZipIndex", None)
       ELSE IF e.is_dir /\ local.cdata = <<>> THEN Class("EmptyDir", None)
       ELSE IF e.is_dir /\ (e.uncomp # 0 \/ e.method # 8) THEN Class("Unreproducible", None)
       ELSE IF ~e.is_dir /\ e.method = 0
       THEN Class(IF e.blob = Some(local.cdata) THEN "Store" ELSE "Unreproducible", None)
       ELSE IF e.method # 8 \/ plain = None THEN Class("Unreproducible", None)
       ELSE IF Len(plain[1]) # e.uncomp \/ Crc(plain[1]) # e.crc THEN Class("Unreproducible", None)
       ELSE IF hit = None THEN Class("DeflateMiss", None) ELSE Class("DeflateHit", hit)

\* The header, descriptor and pad of one local; a long header and a pad that
\* is not all zeros become blobs.
fill_exact_entry(e, local, prefix, class) ==
    LET long == local.header.name \in LongNames
        zeros == local.pad # <<>> /\ \A i \in DOMAIN local.pad : local.pad[i] = Zero
    IN [e EXCEPT !.local_header_offset = Some(local.at),
                 !.offsetheader = Some(prefix + local.at),
                 !.header_hex = IF long THEN None ELSE Some(<<local.header>>),
                 !.header_blob = IF long THEN Some(<<local.header>>) ELSE None,
                 !.codec = class.codec,
                 !.desc = local.desc,
                 !.pad_zeros = IF zeros THEN Some(Len(local.pad)) ELSE None,
                 !.pad_blob = IF zeros THEN None ELSE SomeUnlessEmpty(local.pad)]

-----------------------------------------------------------------------------
(* Reading a stencil back (reconstruct.rs). *)

load_header(e, store) == IF e.header_hex # None THEN e.header_hex ELSE get_blob(e.header_blob, store)

PadOf(e, store) ==
    IF e.pad_zeros # None THEN Some(Repeat(Zero, e.pad_zeros[1]))
    ELSE IF e.pad_blob # None THEN get_blob(e.pad_blob, store) ELSE Some(<<>>)

\* The stored bytes of a slot.  Only a rebuild may compress anew, and then
\* it ignores the codec of a directory.
resolve_slot_cdata(e, store, allow_rebuild) ==
    LET plain == IF e.is_dir /\ e.blob = None THEN Some(<<>>) ELSE get_blob(e.blob, store)
        coded == encode_codec(e.codec[1], plain[1])
    IN IF e.zip_index # None THEN None
       ELSE IF e.codec # None /\ ~(allow_rebuild /\ e.is_dir)
       THEN IF plain = None THEN None ELSE IF Len(coded) # e.comp THEN None ELSE Some(coded)
       ELSE IF e.is_dir
       THEN Some(IF allow_rebuild /\ e.method = 8 /\ e.uncomp = 0
                 THEN encode_codec(RebuildCodec, <<>>) ELSE <<>>)
       ELSE IF e.method = 0 THEN get_blob(e.blob, store)
       ELSE IF ~allow_rebuild \/ plain = None THEN None
       ELSE Some(encode_codec(RebuildCodec, plain[1]))

slot_start(e, prefix_len) ==
    IF e.offsetheader # None THEN e.offsetheader[1] ELSE prefix_len + e.local_header_offset[1]

\* One slot at its place: header, data, descriptor, pad.
write_slot(file, e, prefix_len, header, cdata, pad) ==
    WriteAt(file, slot_start(e, prefix_len), header \o cdata \o e.desc \o pad)

Headers(entries, store) == [i \in DOMAIN entries |-> load_header(entries[i], store)]
Pads(entries, store) == [i \in DOMAIN entries |-> PadOf(entries[i], store)]

\* The file after the first i slots, in the order of the entries, were
\* written over what it had already.
Written(file, entries, prefix_len, headers, cdata, pads) ==
    LET written[i \in 0..Len(entries)] ==
          IF i = 0 THEN file
          ELSE write_slot(written[i - 1], entries[i], prefix_len,
                          headers[i][1], cdata[i][1], pads[i][1])
    IN written

WriteSlots(file, entries, prefix_len, headers, cdata, pads) ==
    Written(file, entries, prefix_len, headers, cdata, pads)[Len(entries)]

SlotsReadable(entries, store) ==
    \A i \in DOMAIN entries : load_header(entries[i], store) # None /\ PadOf(entries[i], store) # None

PartReadable(ref, store) == ref # None => ref[1] \in store

reconstruct_child_zip(index, len, store) ==
    LET cdata == [i \in DOMAIN index.entries |-> resolve_slot_cdata(index.entries[i], store, FALSE)]
        prefix_len == Len(OrEmpty(index.prefix))
        front == WriteAt(Repeat(Zero, len), 0, OrEmpty(index.prefix) \o OrEmpty(index.leading_pad))
        slots == WriteSlots(front, index.entries, prefix_len, Headers(index.entries, store),
                            cdata, Pads(index.entries, store))
        whole == WriteAt(slots, len - Len(index.tail[1]), index.tail[1])
    IN IF ~PartReadable(index.prefix, store) \/ ~PartReadable(index.leading_pad, store) THEN None
       ELSE IF get_blob(index.tail, store) = None \/ ~SlotsReadable(index.entries, store) THEN None
       ELSE IF \E i \in DOMAIN cdata : cdata[i] = None THEN None
       ELSE IF len < Len(index.tail[1]) THEN None
       ELSE IF Len(whole) # len THEN None ELSE Some(whole)

-----------------------------------------------------------------------------
(* The blobs a manifest names. *)

Refs(parts) == UNION {{ref[i] : i \in DOMAIN ref} : ref \in parts}

\* Faulty variant: the pads are not written.
EntryBlobsNoPads(e) == Refs({e.blob, e.header_blob})

EntryBlobs(e) == Refs({e.blob, e.header_blob, e.pad_blob})
StencilBlobs(s) ==
    Refs({s.prefix, s.leading_pad, s.tail})
      \union UNION {EntryBlobs(s.entries[i]) : i \in DOMAIN s.entries}
JarBlobs(jar) == StencilBlobs(jar) \union UNION {StencilBlobs(jar.nested[i]) : i \in DOMAIN jar.nested}

-----------------------------------------------------------------------------
(* dehydrate: a stored member that is a ZIP of its own. *)

\* The parts of a child that was listed and sliced, if every slot of it can be
\* reproduced and writing them again gives the member back.
NestedIndex(content, listed, slice) ==
    LET metas == listed.entries
        entry(i) == entry_from_scan(metas[i], IF metas[i].is_dir THEN None ELSE Some(listed.payload[i]))
        class(i) == classify_local(entry(i), slice.locals[i])
        nested == [prefix |-> SomeUnlessEmpty(slice.prefix),
                   leading_pad |-> SomeUnlessEmpty(slice.leading_pad),
                   tail |-> slice.tail,
                   entries |-> [i \in DOMAIN metas |->
                                  fill_exact_entry(entry(i), slice.locals[i], Len(slice.prefix), class(i))]]
        checked(index) ==
          IF reconstruct_child_zip(index, Len(content), StencilBlobs(index)) = Some(content)
          THEN Some(index) ELSE None
    IN IF metas = <<>> \/ ~slice.homemade_ok THEN None
       ELSE IF Cardinality({i \in DOMAIN metas : ~metas[i].is_dir}) > MaxNested THEN None
       ELSE IF Len(slice.locals) # Len(metas) THEN None
       ELSE IF \E i \in DOMAIN metas : class(i).kind \notin {"EmptyDir", "Store", "DeflateHit"}
       THEN None
       ELSE checked(nested)

\* Only a stored member is looked into.
probe_explode(meta, content) ==
    IF meta.method # 0 \/ Crc(content) # meta.crc THEN None
    ELSE AndThen(scan_from_bytes(content), LAMBDA listed :
         AndThen(slice_from_reader(content), LAMBDA slice : NestedIndex(content, listed, slice)))

\* The jar after its entries were scanned; exploded are the nested indexes of
\* those that have one.
JarOf(f, scanned, exploded) ==
    LET metas == scanned.entries
        taken == {i \in DOMAIN exploded : exploded[i] # None}
        entry(i) == IF metas[i].is_dir THEN entry_from_scan(metas[i], None)
                    ELSE IF exploded[i] = None
                    THEN entry_from_scan(metas[i], Some(scanned.payload[i]))
                    ELSE [entry_from_scan(metas[i], None) EXCEPT
                            !.zip_index = Some(UpTo(taken, i))]
    IN [source |-> f, comment |-> scanned.comment, prefix |-> SomeUnlessEmpty(scanned.prefix),
        leading_pad |-> None, tail |-> None,
        nested |-> [k \in 1..Cardinality(taken) |-> exploded[Nth(taken, k)][1]],
        entries |-> [i \in DOMAIN metas |-> entry(i)]]

JarOfScan(f, scanned) ==
    JarOf(f, scanned, [i \in DOMAIN scanned.entries |->
                         IF scanned.entries[i].is_dir THEN None
                         ELSE probe_explode(scanned.entries[i], scanned.payload[i])])

\* The parts a second reading of the file adds; without a slice, or with one
\* of another length, the jar stays as it was (skip-exact).
attach_exact(f, jar) ==
    LET prefix == Len(OrEmpty(jar.prefix))
        entry(e, local) == fill_exact_entry(e, local, prefix, classify_local(e, local))
        attached == AndThen(slice_from_reader(f), LAMBDA slice :
          IF Len(slice.locals) # Len(jar.entries) THEN None
          ELSE Some([jar EXCEPT !.entries = [i \in DOMAIN @ |-> entry(@[i], slice.locals[i])],
                                !.leading_pad = SomeUnlessEmpty(slice.leading_pad),
                                !.tail = slice.tail]))
    IN OrElse(attached, Some(jar))[1]

-----------------------------------------------------------------------------
(* manifest.rs: what kind of restore a jar gets. *)

can_exact_cdata(e) ==
    /\ e.zip_index = None
    /\ \/ e.codec # None
       \/ e.is_dir /\ e.uncomp = 0 /\ e.comp = 0
       \/ ~e.is_dir /\ e.method = 0 /\ e.blob # None /\ e.comp = e.uncomp

NestedIsExact(index) ==
    /\ index.tail # None
    /\ \A i \in DOMAIN index.entries :
          index.entries[i].zip_index = None /\ can_exact_cdata(index.entries[i])

slot_exact(jar, e) ==
    IF e.zip_index # None
    THEN e.blob = None /\ NestedIsExact(jar.nested[e.zip_index[1]])
    ELSE can_exact_cdata(e)

bit_identical_restore(jar) ==
    jar.tail # None /\ \A i \in DOMAIN jar.entries : slot_exact(jar, jar.entries[i])

metadata_rebuild(jar) == jar.tail # None /\ ~bit_identical_restore(jar)

slot_resolves_at_recorded_csize(jar, e) ==
    slot_exact(jar, e) /\ (e.zip_index # None => e.comp = e.uncomp)

skip_exact_arm(jar) ==
    LET all(P(_)) == \A i \in DOMAIN jar.entries : P(jar.entries[i])
    IN IF ~all(LAMBDA e : e.header_hex # None \/ e.header_blob # None) THEN "skip_exact_zipwriter"
       ELSE IF all(LAMBDA e : slot_resolves_at_recorded_csize(jar, e))
       THEN "skip_exact_seek_synthetic_cd" ELSE "skip_exact_concat_synthetic_cd"

restore_backend(jar) ==
    IF bit_identical_restore(jar) THEN "exact"
    ELSE IF metadata_rebuild(jar) THEN "rebuild" ELSE skip_exact_arm(jar)

=============================================================================
