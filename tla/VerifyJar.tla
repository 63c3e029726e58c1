------------------------------- MODULE VerifyJar ------------------------------
(***************************************************************************)
(* The last part of verify (lib.rs), for one JAR: every blob the manifest  *)
(* names is in the payload, every content has the recorded checksum, and   *)
(* every nested ZIP can be put together again.  The records, the catalog   *)
(* and the digest, which verify checks first, are AyzWriter's and Spill's. *)
(***************************************************************************)
EXTENDS ZipStencil

\* Faulty variant: only contents are looked up.
require_nothing(ref, store) == TRUE

\* A part the manifest does not name is not required.
require_sized_blob(ref, store) == ref # None => ref[1] \in store

\* An entry of the JAR or, with nested = <<>>, of a nested ZIP, which may
\* not have nested ZIPs of its own.
verify_entry(e, nested, store) ==
    LET child == reconstruct_child_zip(nested[e.zip_index[1]], e.uncomp, store)
    IN /\ e.blob = None \/ e.zip_index = None
       /\ e.zip_index # None =>
             /\ e.zip_index[1] \in DOMAIN nested
             /\ child # None
             /\ Len(child[1]) = e.uncomp /\ Crc(child[1]) = e.crc
       /\ e.zip_index = None /\ ~e.is_dir =>
             /\ get_blob(e.blob, store) # None
             /\ Crc(e.blob[1]) = e.crc
       /\ require_sized_blob(e.header_blob, store)
       /\ require_sized_blob(e.pad_blob, store)

verify_nested_index(index, store) ==
    /\ \A ref \in {index.prefix, index.leading_pad, index.tail} : require_sized_blob(ref, store)
    /\ \A i \in DOMAIN index.entries : verify_entry(index.entries[i], <<>>, store)

verify_jar(jar, store) ==
    /\ \A ref \in {jar.prefix, jar.leading_pad, jar.tail} : require_sized_blob(ref, store)
    /\ \A i \in DOMAIN jar.entries : verify_entry(jar.entries[i], jar.nested, store)
    /\ \A i \in DOMAIN jar.nested : verify_nested_index(jar.nested[i], store)

=============================================================================
