--------------------------- MODULE JarRoundTripInv ----------------------------
(***************************************************************************)
(* What a JAR in the manifest is like, and the inductive invariant of its  *)
(* way through ayzenpack.  The theorems are in JarRoundTripProofs.tla; TLC *)
(* checks that it holds.                                                   *)
(***************************************************************************)
EXTENDS JarRoundTrip

IsOption(ref) == ref = None \/ ref = Some(ref[1])

EntryFields ==
    {"name", "is_dir", "crc", "method", "uncomp", "comp", "blob", "codec", "zip_index",
     "local_header_offset", "offsetheader", "header_hex", "header_blob", "desc", "pad_zeros",
     "pad_blob"}

JarFields == {"source", "comment", "prefix", "leading_pad", "tail", "nested", "entries"}

\* An entry has its content as a blob, or it is a directory or taken apart.
EntrySound(e) ==
    /\ DOMAIN e = EntryFields
    /\ IsOption(e.blob) /\ IsOption(e.header_blob) /\ IsOption(e.pad_blob)
    /\ e.is_dir \/ e.zip_index # None => e.blob = None
    /\ ~e.is_dir /\ e.zip_index = None => e.blob # None /\ Crc(e.blob[1]) = e.crc

StencilSound(s) ==
    /\ IsOption(s.prefix) /\ IsOption(s.leading_pad) /\ IsOption(s.tail)
    /\ \A i \in DOMAIN s.entries : EntrySound(s.entries[i])

NestedSound(index) ==
    StencilSound(index) /\ \A i \in DOMAIN index.entries : index.entries[i].zip_index = None

\* Its own blobs put the nested ZIP of the entry together, as it was scanned.
ChildSound(e, nested) ==
    LET index == nested[e.zip_index[1]]
        child == reconstruct_child_zip(index, e.uncomp, StencilBlobs(index))
    IN /\ e.zip_index[1] \in DOMAIN nested
       /\ child # None /\ Len(child[1]) = e.uncomp /\ Crc(child[1]) = e.crc

JarSound(j) ==
    /\ DOMAIN j = JarFields
    /\ StencilSound(j)
    /\ \A k \in DOMAIN j.nested : NestedSound(j.nested[k])
    /\ \A i \in DOMAIN j.entries :
         j.entries[i].zip_index # None => ChildSound(j.entries[i], j.nested)

\* What dehydrate makes of the source it scanned, before and after it sliced
\* the file that was there then.
JarIsAsRead ==
    \E scanned \in ToSet(for_each_jar_entry_with_len(origin.bytes)) :
       LET listed == JarOfScan(origin.bytes, scanned)
       IN jar[1] = IF pc = "scanned" THEN listed ELSE attach_exact(now, listed)

RoundTripInv ==
    /\ IsFile(origin.bytes)
    /\ TypeOK
    /\ pc = "listed" => now = origin.bytes
    /\ jar # None => jar[1].source = origin.bytes /\ JarSound(jar[1]) /\ JarIsAsRead
    /\ pc \in {"packed", "verified", "restored"} /\ lost = None => blobs = FullStore
    /\ verdict # None => verdict = Some(verify_jar(jar[1], blobs))
    /\ pc = "restored" =>
         \E store_all \in BOOLEAN : dest = RestoreJar(jar[1], blobs, store_all)

\* The classes whose writers put no new value into a captured field and move
\* no offset the zip crate wrote.
NothingIsPatched ==
    \/ Backend \in {"exact", "skip_exact_seek_synthetic_cd"}
    \/ Backend = "skip_exact_zipwriter" /\ jar[1].prefix = None

=============================================================================
