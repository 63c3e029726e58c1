------------------------------ MODULE JarWriters ------------------------------
(***************************************************************************)
(* The five ways rehydrate writes a JAR, one per restore_backend.  Each    *)
(* gives the file it leaves at the destination, or None when the restore   *)
(* of the JAR fails: a blob of the store is missing, a value does not fit  *)
(* where it has to go, or the finished file is not the recorded source.    *)
(***************************************************************************)
EXTENDS ZipStencil, ZipPatch

\* read_entry_content: the content of a member, a nested ZIP put together.
read_entry_content(jar, e, store) ==
    IF e.zip_index = None THEN get_blob(e.blob, store)
    ELSE IF e.blob # None THEN None
    ELSE reconstruct_child_zip(jar.nested[e.zip_index[1]], e.uncomp, store)

resolve_cdata(jar, e, store, allow_rebuild) ==
    IF e.zip_index # None THEN read_entry_content(jar, e, store)
    ELSE resolve_slot_cdata(e, store, allow_rebuild)

SetLen(file, len) == [i \in 1..len |-> IF i <= Len(file) THEN file[i] ELSE Zero]

\* Faulty variant: only the size.
verify_source_size(file, jar) == Len(file) = Len(jar.source)

\* The recorded size and hashes of the source.
verify_source_identity(file, jar) == file = jar.source

-----------------------------------------------------------------------------
(* exact: the captured parts at their places, the tail at the end. *)

write_exact_jar(jar, store) ==
    LET cdata == [i \in DOMAIN jar.entries |-> resolve_cdata(jar, jar.entries[i], store, FALSE)]
        prefix == OrEmpty(jar.prefix)
        tail == jar.tail[1]
        size == Len(jar.source)
        slots == WriteSlots(prefix \o OrEmpty(jar.leading_pad), jar.entries, Len(prefix),
                            Headers(jar.entries, store), cdata, Pads(jar.entries, store))
        file == SetLen(WriteAt(slots, size - Len(tail), tail), size)
    IN IF ~PartReadable(jar.prefix, store) \/ ~PartReadable(jar.leading_pad, store) THEN None
       ELSE IF get_blob(jar.tail, store) = None \/ ~SlotsReadable(jar.entries, store) THEN None
       ELSE IF size < Len(prefix) + Len(tail) \/ \E i \in DOMAIN cdata : cdata[i] = None THEN None
       ELSE IF verify_source_identity(file, jar) THEN Some(file) ELSE None

-----------------------------------------------------------------------------
(* skip_exact_seek_synthetic_cd: the captured locals at their places, and  *)
(* a directory of our own behind the last of them.                         *)

arm1_cd_local_offset(e, prefix_len) ==
    IF prefix_len > 0 THEN slot_start(e, prefix_len) ELSE e.local_header_offset[1]

write_skip_exact_seek(jar, store) ==
    LET es == jar.entries
        cdata == [i \in DOMAIN es |-> resolve_cdata(jar, es[i], store, FALSE)]
        prefix_len == Len(OrEmpty(jar.prefix))
        front == OrEmpty(jar.prefix) \o OrEmpty(jar.leading_pad)
        slots == WriteSlots(front, es, prefix_len, Headers(es, store), cdata, Pads(es, store))
        slot_end(e) == slot_start(e, prefix_len) + 1 + e.comp + Len(e.desc) + Len(PadOf(e, store)[1])
        cd_start == Max({Len(front)} \union {slot_end(es[i]) : i \in DOMAIN es})
        row(e) == [name |-> e.name, bit3 |-> load_header(e, store)[1][1].bit3, method |-> e.method,
                   crc |-> e.crc, comp |-> e.comp, uncomp |-> e.uncomp,
                   off |-> arm1_cd_local_offset(e, prefix_len)]
        cd == write_synthetic_cd([i \in DOMAIN es |-> row(es[i])], cd_start, jar.comment)
    IN IF ~PartReadable(jar.prefix, store) \/ ~PartReadable(jar.leading_pad, store) THEN None
       ELSE IF ~SlotsReadable(es, store) \/ \E i \in DOMAIN es : cdata[i] = None THEN None
       ELSE IF \E i \in DOMAIN es : Len(cdata[i][1]) # es[i].comp THEN None
       ELSE IF cd = None THEN None
       ELSE Some(SetLen(WriteAt(slots, cd_start, cd[1]), cd_start + Len(cd[1])))

-----------------------------------------------------------------------------
(* rebuild and skip_exact_concat_synthetic_cd: the locals one behind the   *)
(* other with what changed patched, without pads and the leading pad.      *)

\* The header fields after a rebuild: a directory with left-over data
\* becomes an empty stored one, but an empty DEFLATE directory stays.
rebuild_index_fields(e) ==
    IF /\ e.is_dir
       /\ ~(e.method = 8 /\ e.uncomp = 0)
       /\ (e.uncomp # 0 \/ e.comp # 0 \/ e.method # 0)
    THEN [method |-> 0, crc |-> Crc(<<>>), uncomp |-> 0]
    ELSE [method |-> e.method, crc |-> e.crc, uncomp |-> e.uncomp]

\* A rebuilt local: its cells and the values its central row has to get.
RebuiltLocal(jar, e, store) ==
    LET new == rebuild_index_fields(e)
        header(h, comp) == patch_local_rebuild_fields(h, new.method, new.crc, comp, new.uncomp)
        desc(comp) == IF e.desc = <<>> THEN Some(<<>>)
                      ELSE patch_data_descriptor(e.desc, new.crc, comp, new.uncomp)
    IN AndThen(load_header(e, store), LAMBDA h :
       AndThen(resolve_cdata(jar, e, store, TRUE), LAMBDA cdata :
       AndThen(header(h[1], Len(cdata)), LAMBDA patched :
       AndThen(desc(Len(cdata)), LAMBDA d :
         Some([cells |-> <<patched>> \o cdata \o d, name |-> e.name, bit3 |-> h[1].bit3,
               method |-> new.method, crc |-> new.crc, comp |-> Len(cdata), uncomp |-> new.uncomp])))))

\* All of them, each with its place behind the first.
RebuiltLocals(jar, store) ==
    LET placed(found) ==
          LET parts == [i \in DOMAIN found |-> found[i][1].cells]
          IN IF \E i \in DOMAIN found : found[i] = None THEN None
             ELSE Some([cells |-> FlattenSeq(parts),
                        rows |-> [i \in DOMAIN found |->
                                    [name |-> found[i][1].name, bit3 |-> found[i][1].bit3,
                                     method |-> found[i][1].method, crc |-> found[i][1].crc,
                                     comp |-> found[i][1].comp, uncomp |-> found[i][1].uncomp,
                                     off |-> Offsets(parts)[i]]]])
    IN placed([i \in DOMAIN jar.entries |-> RebuiltLocal(jar, jar.entries[i], store)])

write_rebuilt_jar(jar, store) ==
    LET prefix == OrEmpty(jar.prefix)
        first == jar.entries[1].local_header_offset[1]
    IN IF ~PartReadable(jar.prefix, store) \/ get_blob(jar.tail, store) = None THEN None
       ELSE IF jar.entries = <<>> THEN Some(prefix \o jar.tail[1])
       ELSE AndThen(detect_offset_mode(jar.tail[1], first, Len(prefix)), LAMBDA mode :
            AndThen(RebuiltLocals(jar, store), LAMBDA locals :
            AndThen(patch_central_directory(jar.tail[1], locals.rows, mode, Len(prefix)), LAMBDA rows :
            AndThen(patch_eocd_cd_start(rows, Len(locals.rows),
                                        encode_offset(mode, Len(locals.cells), Len(prefix))), LAMBDA tail :
              Some(prefix \o locals.cells \o tail)))))

write_skip_exact_concat(jar, store) ==
    LET prefix == OrEmpty(jar.prefix)
    IN IF ~PartReadable(jar.prefix, store) THEN None
       ELSE AndThen(RebuiltLocals(jar, store), LAMBDA locals :
            AndThen(write_synthetic_cd([i \in DOMAIN locals.rows |->
                                          [locals.rows[i] EXCEPT !.off = Len(prefix) + @]],
                                       Len(prefix) + Len(locals.cells), jar.comment), LAMBDA cd :
              Some(prefix \o locals.cells \o cd)))

-----------------------------------------------------------------------------
(* skip_exact_zipwriter: nothing was captured, the contents are zipped     *)
(* anew, and behind a prefix the offsets become those of the file.         *)

write_jar(jar, store, store_all) ==
    LET es == Picked(jar.entries,
                     {i \in DOMAIN jar.entries : ~entry_has_dotdot(jar.entries[i].name)})
        prefix == OrEmpty(jar.prefix)
        content(e) == IF e.is_dir THEN Some(<<>>) ELSE read_entry_content(jar, e, store)
        stored(e) == e.is_dir \/ store_all \/ e.method = 0 \/ e.zip_index # None
        member(e, plain) == [name |-> e.name, method |-> IF stored(e) THEN 0 ELSE 8,
                             crc |-> Crc(plain), size |-> Len(plain),
                             data |-> IF stored(e) THEN plain ELSE encode_codec(RebuildCodec, plain)]
        write(e) == member(e, content(e)[1])
    IN IF ~PartReadable(jar.prefix, store) \/ \E i \in DOMAIN es : content(es[i]) = None THEN None
       ELSE IF \E i \in DOMAIN es : ~es[i].is_dir /\ Crc(content(es[i])[1]) # es[i].crc THEN None
       ELSE fileabs_shift_tail(prefix \o ZipWriterFile([i \in DOMAIN es |-> write(es[i])], jar.comment),
                               Len(prefix))

-----------------------------------------------------------------------------
(* restore_jars, for one JAR: the writer its class asks for. *)

RestoreJar(jar, store, store_all) ==
    LET backend == restore_backend(jar)
    IN CASE backend = "exact" -> write_exact_jar(jar, store)
         [] backend = "rebuild" -> write_rebuilt_jar(jar, store)
         [] backend = "skip_exact_seek_synthetic_cd" -> write_skip_exact_seek(jar, store)
         [] backend = "skip_exact_concat_synthetic_cd" -> write_skip_exact_concat(jar, store)
         [] backend = "skip_exact_zipwriter" -> write_jar(jar, store, store_all)

=============================================================================
