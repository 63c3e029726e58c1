-------------------------- MODULE JarRoundTripProofs --------------------------
(***************************************************************************)
(* Proofs about one JAR's way through ayzenpack, for every source and      *)
(* every file that may take its place.  A restore of class exact gives the *)
(* scanned bytes, and fails only if a blob is lost, the source was         *)
(* replaced or no part has some of its bytes.  The other classes that      *)
(* patch nothing restore what was packed.  `verify` has no objection to    *)
(* what dehydrate wrote, and what it accepts has every blob.               *)
(*                                                                         *)
(* The first one takes most of the module: the parts slice_from_reader     *)
(* cuts cover the file (LocalsTile, SliceIsCut), every slot of class exact *)
(* gives its stored bytes again (SlotOfJarReproduces), and writing the     *)
(* parts at their places gives the file (SlotsAreWritten, TailCompletes).  *)
(* They meet in ExactIsWhole.                                              *)
(***************************************************************************)
EXTENDS JarRoundTripInv, NumberLemmas

-----------------------------------------------------------------------------
(* What the scanner finds.                                                 *)

\* The listing and the contents of a JAR that is not refused belong together.
ScanSound(scanned) ==
  /\ \E n \in Nat : DOMAIN scanned.entries = 1..n
  /\ \A i \in DOMAIN scanned.entries :
       ~scanned.entries[i].is_dir =>
         /\ Crc(scanned.payload[i]) = scanned.entries[i].crc
         /\ Len(scanned.payload[i]) = scanned.entries[i].uncomp

\* A member that reads back has the checksum and size its row says.
LEMMA ReadEntryChecks ==
  ASSUME NEW archive, NEW i, ReadEntry(archive, i) # None
  PROVE  /\ Crc(ReadEntry(archive, i)[1]) = archive.entries[i].crc
         /\ Len(ReadEntry(archive, i)[1]) = archive.entries[i].uncomp
  BY DEF ReadEntry

\* Every archive the zip crate finds has a list of entries.
LEMMA ListingIsNumbered ==
  ASSUME NEW v, NEW e, ArchiveAt(v, e) # None
  PROVE  \E n \in Nat : DOMAIN ArchiveAt(v, e)[1].entries = 1..n
  <1> DEFINE dir == DirectoryAt(v, e)[1]
             rows == RowsAt(v, dir)[1]
             firsts == {i \in DOMAIN rows : \A j \in 1..(i - 1) : rows[j].name # rows[i].name}
  <1>1. RowsAt(v, dir) # None /\ ArchiveAt(v, e)[1].entries = ByName(rows)
    BY DEF ArchiveAt, AndThen, Some, None
  <1>2. dir.n \in Nat /\ DOMAIN rows = 1..dir.n
    <2> HIDE DEF dir
    <2> QED
      BY <1>1 DEF RowsAt, Some, None
  <1>3. Cardinality(firsts) \in Nat
    <2>1. firsts \in SUBSET (1..dir.n)
      BY <1>2
    <2> HIDE DEF firsts, dir
    <2> QED
      BY <1>2, <2>1, CountUpTo
  <1>4. DOMAIN ByName(rows) = 1..Cardinality(firsts)
    BY DEF ByName
  <1> QED
    BY <1>1, <1>3, <1>4

\* So has the one it settles for.
LEMMA ArchiveIsNumbered ==
  ASSUME NEW f, NEW shift, ZipArchive(f, shift) # None
  PROVE  \E n \in Nat : DOMAIN ZipArchive(f, shift)[1].entries = 1..n
  <1> DEFINE positions == 0..(Len(f) - shift - 1)
             options == [e \in positions |-> ArchiveAt(From(f, shift), e)]
             some == {e \in DOMAIN options : options[e] # None}
             last == {e \in some : \A d \in some : d <= e}
             latest == CHOOSE e \in last : TRUE
  <1>1. last # {} /\ ZipArchive(f, shift) = options[latest]
    <2> HIDE DEF options
    <2>1. ZipArchive(f, shift) = LastSome(options)
      BY DEF ZipArchive, options
    <2> QED
      BY <2>1 DEF LastSome
  <1>2. latest \in positions
    <2>1. last \subseteq positions
      OBVIOUS
    <2> HIDE DEF last
    <2> QED
      BY <1>1, <2>1
  <1>3. ZipArchive(f, shift) = ArchiveAt(From(f, shift), latest)
    <2> HIDE DEF latest, positions
    <2> QED
      BY <1>1, <1>2
  <1> HIDE DEF latest
  <1> QED
    BY <1>3, ListingIsNumbered

\* A scan that is not refused is sound.
LEMMA ScanIsSound ==
  ASSUME NEW f, NEW child, Scan(f, child) # None
  PROVE  ScanSound(Scan(f, child)[1])
  <1> DEFINE layout == detect_zip_layout(f)[1]
             archive == ZipArchive(f, layout.view_shift)[1]
             content(i) == IF is_dir(archive.entries[i].name) THEN Some(<<>>)
                           ELSE ReadEntry(archive, i)
             scanned == Scan(f, child)[1]
  <1>1. /\ ZipArchive(f, layout.view_shift) # None
        /\ \A i \in DOMAIN archive.entries : content(i) # None
        /\ scanned.entries = [i \in DOMAIN archive.entries |-> ScannedEntry(archive.entries[i])]
        /\ scanned.payload = [i \in DOMAIN archive.entries |-> content(i)[1]]
    BY DEF Scan, AndThen, Some, None
  <1>2. \E n \in Nat : DOMAIN archive.entries = 1..n
    BY <1>1, ArchiveIsNumbered
  <1>3. ASSUME NEW i \in DOMAIN archive.entries, ~scanned.entries[i].is_dir
        PROVE  /\ Crc(scanned.payload[i]) = scanned.entries[i].crc
               /\ Len(scanned.payload[i]) = scanned.entries[i].uncomp
    <2>1. scanned.entries[i] = ScannedEntry(archive.entries[i]) /\ scanned.payload[i] = content(i)[1]
      BY <1>1
    <2>2. content(i) = ReadEntry(archive, i) /\ ReadEntry(archive, i) # None
      <3> HIDE DEF archive, scanned
      <3>1. ~is_dir(archive.entries[i].name)
        <4>1. scanned.entries[i].is_dir = is_dir(archive.entries[i].name)
          BY <2>1 DEF ScannedEntry
        <4> QED
          BY <1>3, <4>1
      <3>2. content(i) = ReadEntry(archive, i)
        BY <3>1
      <3>3. content(i) # None
        <4> HIDE DEF content
        <4> QED
          BY <1>1, <1>3
      <3> HIDE DEF content
      <3> QED
        BY <3>2, <3>3
    <2> HIDE DEF archive, scanned, content
    <2> QED
      BY <2>1, <2>2, ReadEntryChecks DEF ScannedEntry
  <1>4. DOMAIN scanned.entries = DOMAIN archive.entries
    BY <1>1
  <1>5. ScanSound(scanned)
    <2>1. \E n \in Nat : DOMAIN scanned.entries = 1..n
      BY <1>2, <1>4
    <2> HIDE DEF archive, scanned
    <2> QED
      BY <1>3, <1>4, <2>1 DEF ScanSound
  <1> QED
    BY <1>5

-----------------------------------------------------------------------------
(* The source a jar records.                                               *)

\* Size and hashes are those of the scanned file,
LEMMA ScanKeepsSource ==
  ASSUME NEW f, NEW scanned
  PROVE  JarOfScan(f, scanned).source = f
  BY DEF JarOfScan, JarOf

\* also after a second reading of the path,
LEMMA AttachKeepsSource ==
  ASSUME NEW f, NEW j, DOMAIN j = JarFields
  PROVE  attach_exact(f, j).source = j.source /\ DOMAIN attach_exact(f, j) = JarFields
  BY DEF JarFields, attach_exact, AndThen, OrElse, Some, None

\* and a restore of class exact is compared with them.
LEMMA ExactGivesSource ==
  ASSUME NEW j, NEW store, write_exact_jar(j, store) # None
  PROVE  write_exact_jar(j, store)[1] = j.source
  BY DEF write_exact_jar, verify_source_identity, Some, None

-----------------------------------------------------------------------------
(* What dehydrate makes of a listing and a slice.                          *)

\* The tail of a slice is there or not.
LEMMA TailIsOption ==
  ASSUME NEW f, slice_from_reader(f) # None
  PROVE  IsOption(slice_from_reader(f)[1].tail)
  <1>1. ASSUME NEW layout, NEW recs, NEW cd, NEW homemade,
               SliceParts(f, layout, recs, cd, homemade) # None
        PROVE  IsOption(SliceParts(f, layout, recs, cd, homemade)[1].tail)
    BY <1>1 DEF SliceParts, IsOption, Some, None
  <1> QED
    BY <1>1 DEF slice_from_reader, AndThen

LEMMA UnlessEmptyIsOption ==
  ASSUME NEW content
  PROVE  IsOption(SomeUnlessEmpty(content))
  BY DEF SomeUnlessEmpty, IsOption, Some, None

\* An entry as the listing gives it: what attaching a slice leaves alone.
LEMMA FilledEntryIsSound ==
  ASSUME NEW e, NEW local, NEW prefix, NEW class, EntrySound(e)
  PROVE  LET filled == fill_exact_entry(e, local, prefix, class)
         IN /\ EntrySound(filled)
            /\ filled.blob = e.blob /\ filled.zip_index = e.zip_index
            /\ filled.crc = e.crc /\ filled.uncomp = e.uncomp /\ filled.is_dir = e.is_dir
  BY DEF fill_exact_entry, EntrySound, EntryFields, IsOption, SomeUnlessEmpty, Some, None

\* An entry of a listing is sound with its content, and it is not nested yet.
LEMMA ScannedEntryIsSound ==
  ASSUME NEW meta, NEW content, ~meta.is_dir => Crc(content) = meta.crc
  PROVE  LET e == entry_from_scan(meta, IF meta.is_dir THEN None ELSE Some(content))
         IN EntrySound(e) /\ e.zip_index = None
  BY DEF entry_from_scan, EntrySound, EntryFields, IsOption, Some, None

\* A member is taken apart only if its parts put together are the member.
LEMMA NestedIndexIsSound ==
  ASSUME NEW content, NEW listed, NEW slice, ScanSound(listed), IsOption(slice.tail),
         NestedIndex(content, listed, slice) # None
  PROVE  LET index == NestedIndex(content, listed, slice)[1]
         IN /\ NestedSound(index)
            /\ reconstruct_child_zip(index, Len(content), StencilBlobs(index)) = Some(content)
  <1> DEFINE metas == listed.entries
             entry(i) == entry_from_scan(metas[i], IF metas[i].is_dir THEN None
                                                   ELSE Some(listed.payload[i]))
             class(i) == classify_local(entry(i), slice.locals[i])
             filled(i) == fill_exact_entry(entry(i), slice.locals[i], Len(slice.prefix), class(i))
             nested == [prefix |-> SomeUnlessEmpty(slice.prefix),
                        leading_pad |-> SomeUnlessEmpty(slice.leading_pad),
                        tail |-> slice.tail,
                        entries |-> [i \in DOMAIN metas |-> filled(i)]]
             whole == reconstruct_child_zip(nested, Len(content), StencilBlobs(nested))
  <1>1. NestedIndex(content, listed, slice) = Some(nested) /\ whole = Some(content)
    <2> HIDE DEF filled
    <2> QED
      BY DEF NestedIndex, filled
  <1>2. ASSUME NEW i \in DOMAIN metas
        PROVE  EntrySound(filled(i)) /\ filled(i).zip_index = None
    <2>1. EntrySound(entry(i)) /\ entry(i).zip_index = None
      BY ScannedEntryIsSound DEF ScanSound
    <2> HIDE DEF entry, class
    <2> QED
      BY <2>1, FilledEntryIsSound
  <1>3. StencilSound(nested)
    <2> HIDE DEF filled
    <2> QED
      BY <1>2, UnlessEmptyIsOption DEF StencilSound
  <1>4. NestedSound(nested)
    <2> HIDE DEF filled
    <2> QED
      BY <1>2, <1>3 DEF NestedSound
  <1> HIDE DEF nested
  <1> QED
    BY <1>1, <1>4 DEF Some

\* So is whatever a probe finds.
LEMMA ProbeIsSound ==
  ASSUME NEW meta, NEW content, probe_explode(meta, content) # None
  PROVE  LET index == probe_explode(meta, content)[1]
         IN /\ NestedSound(index)
            /\ reconstruct_child_zip(index, Len(content), StencilBlobs(index)) = Some(content)
  <1> DEFINE listed == scan_from_bytes(content)[1]
             slice == slice_from_reader(content)[1]
  <1>1. /\ probe_explode(meta, content) = NestedIndex(content, listed, slice)
        /\ scan_from_bytes(content) # None /\ slice_from_reader(content) # None
    BY DEF probe_explode, AndThen
  <1>2. ScanSound(listed) /\ IsOption(slice.tail)
    BY <1>1, ScanIsSound, TailIsOption DEF scan_from_bytes
  <1> HIDE DEF listed, slice
  <1> QED
    BY <1>1, <1>2, NestedIndexIsSound

\* The entry that is taken apart names the index of its own content.
LEMMA ScannedJarIsSound ==
  ASSUME NEW f, NEW scanned, ScanSound(scanned)
  PROVE  JarSound(JarOfScan(f, scanned))
  <1> DEFINE metas == scanned.entries
             exploded == [i \in DOMAIN metas |->
                            IF metas[i].is_dir THEN None ELSE probe_explode(metas[i], scanned.payload[i])]
             taken == {i \in DOMAIN exploded : exploded[i] # None}
             plain(i) == entry_from_scan(metas[i], IF metas[i].is_dir THEN None
                                                   ELSE Some(scanned.payload[i]))
             apart(i) == [entry_from_scan(metas[i], None) EXCEPT !.zip_index = Some(UpTo(taken, i))]
             j == JarOfScan(f, scanned)
  <1>1. PICK n \in Nat : DOMAIN metas = 1..n
    BY DEF ScanSound
  <1>2. taken \in SUBSET (1..n)
    BY <1>1
  <1>3. \A i \in DOMAIN metas : exploded[i] = IF metas[i].is_dir THEN None
                                              ELSE probe_explode(metas[i], scanned.payload[i])
    OBVIOUS
  <1>4. \A i \in taken : i \in DOMAIN metas /\ ~metas[i].is_dir /\ exploded[i] # None
    BY <1>3
  <1>5. \A i \in DOMAIN metas : i \notin taken => exploded[i] = None
    OBVIOUS
  <1>6. /\ DOMAIN j = JarFields
        /\ j.prefix = SomeUnlessEmpty(scanned.prefix) /\ j.leading_pad = None /\ j.tail = None
        /\ j.nested = [k \in 1..Cardinality(taken) |-> exploded[Nth(taken, k)][1]]
    BY DEF JarOfScan, JarOf, JarFields
  <1>7. DOMAIN j.entries = DOMAIN metas
    BY DEF JarOfScan, JarOf
  <1>8. ASSUME NEW i \in DOMAIN metas
        PROVE  j.entries[i] = IF i \in taken THEN apart(i) ELSE plain(i)
    <2>1. j.entries[i] = IF metas[i].is_dir THEN entry_from_scan(metas[i], None)
                         ELSE IF exploded[i] = None
                         THEN entry_from_scan(metas[i], Some(scanned.payload[i]))
                         ELSE apart(i)
      BY DEF JarOfScan, JarOf
    <2> HIDE DEF exploded, j, apart, metas
    <2> QED
      BY <2>1, <1>4, <1>5
  <1> HIDE DEF j
  <1>9. ASSUME NEW i \in DOMAIN metas, i \notin taken
        PROVE  EntrySound(j.entries[i]) /\ j.entries[i].zip_index = None
    <2>1. EntrySound(plain(i)) /\ plain(i).zip_index = None
      BY ScannedEntryIsSound DEF ScanSound
    <2> HIDE DEF plain, taken
    <2> QED
      BY <1>8, <1>9, <2>1
  <1>10. ASSUME NEW i \in taken
         PROVE  /\ EntrySound(j.entries[i]) /\ j.entries[i].zip_index = Some(UpTo(taken, i))
                /\ j.entries[i].uncomp = metas[i].uncomp /\ j.entries[i].crc = metas[i].crc
    <2>1. j.entries[i] = apart(i)
      <3> HIDE DEF taken, apart
      <3> QED
        BY <1>4, <1>8
    <2> HIDE DEF taken
    <2> QED
      BY <2>1 DEF entry_from_scan, EntrySound, EntryFields, IsOption, Some, None
  <1>11. ASSUME NEW i \in taken
         PROVE  LET index == exploded[i][1]
                IN /\ NestedSound(index)
                   /\ reconstruct_child_zip(index, metas[i].uncomp, StencilBlobs(index))
                        = Some(scanned.payload[i])
                   /\ Crc(scanned.payload[i]) = metas[i].crc
                   /\ Len(scanned.payload[i]) = metas[i].uncomp
    <2>1. i \in DOMAIN metas /\ ~metas[i].is_dir /\ exploded[i] # None
      BY <1>4
    <2>2. exploded[i] = probe_explode(metas[i], scanned.payload[i])
      <3> HIDE DEF exploded
      <3> QED
        BY <1>3, <2>1
    <2>3. Crc(scanned.payload[i]) = metas[i].crc /\ Len(scanned.payload[i]) = metas[i].uncomp
      BY <2>1 DEF ScanSound
    <2> HIDE DEF exploded
    <2> QED
      BY <2>1, <2>2, <2>3, ProbeIsSound
  <1>12. ASSUME NEW k \in DOMAIN j.nested
         PROVE  NestedSound(j.nested[k])
    <2>1. k \in 1..Cardinality(taken) /\ j.nested[k] = exploded[Nth(taken, k)][1]
      <3> HIDE DEF taken, exploded
      <3> QED
        BY <1>6
    <2>2. Nth(taken, k) \in taken
      <3> HIDE DEF taken
      <3> QED
        BY <1>2, <2>1, NthIsMember
    <2> HIDE DEF taken, exploded
    <2> QED
      BY <1>11, <2>1, <2>2
  <1>13. ASSUME NEW i \in taken
         PROVE  ChildSound(j.entries[i], j.nested)
    <2> HIDE DEF taken, exploded
    <2>1. UpTo(taken, i) \in 1..Cardinality(taken) /\ Nth(taken, UpTo(taken, i)) = i
      BY <1>2, NthOfPosition
    <2>2. j.entries[i].zip_index[1] = UpTo(taken, i)
      BY <1>10 DEF Some
    <2>3. j.entries[i].zip_index[1] \in DOMAIN j.nested
          /\ j.nested[j.entries[i].zip_index[1]] = exploded[i][1]
      BY <1>6, <2>1, <2>2
    <2> HIDE DEF metas
    <2> QED
      BY <1>10, <1>11, <2>3 DEF ChildSound, Some, None
  <1>14. StencilSound(j)
    <2>1. \A i \in DOMAIN j.entries : EntrySound(j.entries[i])
      <3> HIDE DEF taken, metas
      <3> QED
        BY <1>7, <1>9, <1>10
    <2>2. IsOption(j.prefix) /\ IsOption(j.leading_pad) /\ IsOption(j.tail)
      <3>1. IsOption(SomeUnlessEmpty(scanned.prefix)) /\ IsOption(None)
        BY UnlessEmptyIsOption DEF IsOption
      <3> HIDE DEF taken, exploded
      <3> QED
        BY <1>6, <3>1
    <2> QED
      BY <2>1, <2>2 DEF StencilSound
  <1>15. ASSUME NEW i \in DOMAIN j.entries, j.entries[i].zip_index # None
         PROVE  ChildSound(j.entries[i], j.nested)
    <2> HIDE DEF taken, metas
    <2> QED
      BY <1>7, <1>9, <1>13, <1>15
  <1>16. JarSound(j)
    BY <1>6, <1>12, <1>14, <1>15 DEF JarSound
  <1> QED
    BY <1>16 DEF j

\* Attaching the parts of a slice keeps a jar sound.
LEMMA AttachedJarIsSound ==
  ASSUME NEW f, NEW j, JarSound(j)
  PROVE  JarSound(attach_exact(f, j))
  <1> DEFINE slice == slice_from_reader(f)[1]
             prefix == Len(OrEmpty(j.prefix))
             filled(i) == fill_exact_entry(j.entries[i], slice.locals[i], prefix,
                                           classify_local(j.entries[i], slice.locals[i]))
             attached == attach_exact(f, j)
  <1>1. CASE attached = j
    BY <1>1
  <1>2. CASE attached # j
    <2>1. /\ slice_from_reader(f) # None
          /\ DOMAIN attached = JarFields
          /\ attached.prefix = j.prefix /\ attached.nested = j.nested
          /\ attached.leading_pad = SomeUnlessEmpty(slice.leading_pad)
          /\ attached.tail = slice.tail
          /\ attached.entries = [i \in DOMAIN j.entries |-> filled(i)]
      <3> HIDE DEF filled
      <3> QED
        BY <1>2 DEF attach_exact, AndThen, OrElse, Some, None, JarSound, JarFields, filled
    <2>2. ASSUME NEW i \in DOMAIN j.entries
          PROVE  /\ EntrySound(filled(i))
                 /\ filled(i).blob = j.entries[i].blob /\ filled(i).zip_index = j.entries[i].zip_index
                 /\ filled(i).crc = j.entries[i].crc /\ filled(i).uncomp = j.entries[i].uncomp
      BY FilledEntryIsSound DEF JarSound, StencilSound
    <2> HIDE DEF filled, attached, slice
    <2>3. StencilSound(attached)
      BY <2>1, <2>2, TailIsOption, UnlessEmptyIsOption DEF StencilSound, JarSound, slice
    <2>4. ASSUME NEW i \in DOMAIN attached.entries, attached.entries[i].zip_index # None
          PROVE  ChildSound(attached.entries[i], attached.nested)
      <3>1. PICK x, y : x = attached.entries[i] /\ y = j.entries[i]
        OBVIOUS
      <3>2. i \in DOMAIN j.entries /\ attached.entries[i] = filled(i)
        BY <2>1, <2>4
      <3>3. x.zip_index = y.zip_index /\ x.crc = y.crc /\ x.uncomp = y.uncomp
        BY <2>2, <3>1, <3>2
      <3>4. attached.nested = j.nested
        BY <2>1
      <3>5. ChildSound(y, j.nested)
        <4>1. y.zip_index # None
          BY <2>4, <3>1, <3>3
        <4> QED
          BY <3>1, <3>2, <4>1 DEF JarSound
      <3>6. ChildSound(x, j.nested)
        BY <3>3, <3>5 DEF ChildSound
      <3> QED
        BY <3>1, <3>4, <3>6
    <2>5. JarSound(attached)
      BY <2>1, <2>3, <2>4 DEF JarSound
    <2> QED
      BY <2>5 DEF attached
  <1> QED
    BY <1>1, <1>2

-----------------------------------------------------------------------------
(* The blobs a jar names, and what is made of them.                        *)

\* Every blob the stencil names is in the store.
HasParts(s, store) ==
  /\ \A ref \in {s.prefix, s.leading_pad, s.tail} : PartReadable(ref, store)
  /\ \A i \in DOMAIN s.entries :
       \A ref \in {s.entries[i].blob, s.entries[i].header_blob, s.entries[i].pad_blob} :
         PartReadable(ref, store)

\* A store has the blobs of a set of references when each can be read.
LEMMA RefsAreIn ==
  ASSUME NEW parts, \A ref \in parts : IsOption(ref), NEW store
  PROVE  Refs(parts) \subseteq store <=> \A ref \in parts : PartReadable(ref, store)
  <1>1. ASSUME NEW ref \in parts
        PROVE  {ref[i] : i \in DOMAIN ref} = IF ref = None THEN {} ELSE {ref[1]}
    BY DEF IsOption, Some, None
  <1>2. ASSUME Refs(parts) \subseteq store, NEW ref \in parts, ref # None
        PROVE  ref[1] \in store
    BY <1>1, <1>2 DEF Refs
  <1>3. ASSUME \A ref \in parts : PartReadable(ref, store), NEW b \in Refs(parts)
        PROVE  b \in store
    <2>1. PICK ref \in parts : b \in {ref[i] : i \in DOMAIN ref}
      BY DEF Refs
    <2>2. ref # None /\ b = ref[1]
      BY <1>1, <2>1
    <2> QED
      BY <1>3, <2>2 DEF PartReadable
  <1> QED
    BY <1>2, <1>3 DEF PartReadable

\* The same for all that a stencil names,
LEMMA StencilBlobsAreIn ==
  ASSUME NEW s, StencilSound(s), NEW store
  PROVE  StencilBlobs(s) \subseteq store <=> HasParts(s, store)
  <1>1. Refs({s.prefix, s.leading_pad, s.tail}) \subseteq store
          <=> \A ref \in {s.prefix, s.leading_pad, s.tail} : PartReadable(ref, store)
    BY RefsAreIn DEF StencilSound
  <1>2. ASSUME NEW i \in DOMAIN s.entries
        PROVE  EntryBlobs(s.entries[i]) \subseteq store
                 <=> \A ref \in {s.entries[i].blob, s.entries[i].header_blob, s.entries[i].pad_blob} :
                       PartReadable(ref, store)
    <2> DEFINE parts == {s.entries[i].blob, s.entries[i].header_blob, s.entries[i].pad_blob}
    <2>1. \A ref \in parts : IsOption(ref)
      BY DEF StencilSound, EntrySound
    <2> HIDE DEF parts
    <2>2. Refs(parts) \subseteq store <=> \A ref \in parts : PartReadable(ref, store)
      BY <2>1, RefsAreIn
    <2> QED
      BY <2>2 DEF EntryBlobs, parts
  <1>3. StencilBlobs(s) \subseteq store
          <=> /\ Refs({s.prefix, s.leading_pad, s.tail}) \subseteq store
              /\ \A i \in DOMAIN s.entries : EntryBlobs(s.entries[i]) \subseteq store
    BY DEF StencilBlobs
  <1> QED
    BY <1>1, <1>2, <1>3 DEF HasParts

\* A reference that can be read is its content.
LEMMA GetBlobFinds ==
  ASSUME NEW ref, NEW store, PartReadable(ref, store)
  PROVE  get_blob(ref, store) = ref
  BY DEF get_blob, PartReadable

\* A slot is the same from every store that has its blobs.
LEMMA SlotIsTheSame ==
  ASSUME NEW e, NEW A, NEW B,
         \A ref \in {e.blob, e.header_blob, e.pad_blob} : PartReadable(ref, A) /\ PartReadable(ref, B)
  PROVE  /\ load_header(e, A) = load_header(e, B)
         /\ PadOf(e, A) = PadOf(e, B)
         /\ resolve_slot_cdata(e, A, FALSE) = resolve_slot_cdata(e, B, FALSE)
  <1>1. /\ get_blob(e.blob, A) = get_blob(e.blob, B)
        /\ get_blob(e.header_blob, A) = get_blob(e.header_blob, B)
        /\ get_blob(e.pad_blob, A) = get_blob(e.pad_blob, B)
    BY GetBlobFinds
  <1> QED
    BY <1>1 DEF load_header, PadOf, resolve_slot_cdata

\* So is a nested ZIP.
LEMMA ChildIsTheSame ==
  ASSUME NEW s, NEW len, NEW A, NEW B, HasParts(s, A), HasParts(s, B)
  PROVE  reconstruct_child_zip(s, len, A) = reconstruct_child_zip(s, len, B)
  <1> DEFINE cdata(store) == [i \in DOMAIN s.entries |-> resolve_slot_cdata(s.entries[i], store, FALSE)]
  <1>1. \A i \in DOMAIN s.entries :
          /\ load_header(s.entries[i], A) = load_header(s.entries[i], B)
          /\ PadOf(s.entries[i], A) = PadOf(s.entries[i], B)
          /\ resolve_slot_cdata(s.entries[i], A, FALSE) = resolve_slot_cdata(s.entries[i], B, FALSE)
    BY SlotIsTheSame DEF HasParts
  <1>2. cdata(A) = cdata(B)
    BY <1>1
  <1>3. Headers(s.entries, A) = Headers(s.entries, B) /\ Pads(s.entries, A) = Pads(s.entries, B)
    BY <1>1 DEF Headers, Pads
  <1>4. SlotsReadable(s.entries, A) = SlotsReadable(s.entries, B)
    BY <1>1 DEF SlotsReadable
  <1>5. /\ PartReadable(s.prefix, A) /\ PartReadable(s.prefix, B)
        /\ PartReadable(s.leading_pad, A) /\ PartReadable(s.leading_pad, B)
        /\ get_blob(s.tail, A) = get_blob(s.tail, B)
    BY GetBlobFinds DEF HasParts
  <1> QED
    BY <1>2, <1>3, <1>4, <1>5 DEF reconstruct_child_zip

-----------------------------------------------------------------------------
(* verify.                                                                 *)

\* The same for a jar and its nested indexes.
LEMMA JarBlobsAreIn ==
  ASSUME NEW j, JarSound(j), NEW store
  PROVE  JarBlobs(j) \subseteq store
           <=> HasParts(j, store) /\ \A k \in DOMAIN j.nested : HasParts(j.nested[k], store)
  <1>1. JarBlobs(j) \subseteq store
          <=> /\ StencilBlobs(j) \subseteq store
              /\ \A k \in DOMAIN j.nested : StencilBlobs(j.nested[k]) \subseteq store
    BY DEF JarBlobs
  <1>2. StencilBlobs(j) \subseteq store <=> HasParts(j, store)
    BY StencilBlobsAreIn DEF JarSound
  <1>3. \A k \in DOMAIN j.nested : StencilBlobs(j.nested[k]) \subseteq store <=> HasParts(j.nested[k], store)
    BY StencilBlobsAreIn DEF JarSound, NestedSound
  <1> QED
    BY <1>1, <1>2, <1>3

\* verify has no objection to a sound jar whose blobs are all there ...
LEMMA VerifyAccepts ==
  ASSUME NEW j, JarSound(j)
  PROVE  verify_jar(j, JarBlobs(j))
  <1> DEFINE store == JarBlobs(j)
  <1>1. HasParts(j, store) /\ \A k \in DOMAIN j.nested : HasParts(j.nested[k], store)
    BY JarBlobsAreIn
  <1>2. ASSUME NEW k \in DOMAIN j.nested, NEW len
        PROVE  reconstruct_child_zip(j.nested[k], len, store)
                 = reconstruct_child_zip(j.nested[k], len, StencilBlobs(j.nested[k]))
    <2>1. HasParts(j.nested[k], StencilBlobs(j.nested[k]))
      BY StencilBlobsAreIn DEF JarSound, NestedSound
    <2> HIDE DEF store
    <2> QED
      BY <1>1, <2>1, ChildIsTheSame
  <1> HIDE DEF store
  <1>3. ASSUME NEW i \in DOMAIN j.entries
        PROVE  verify_entry(j.entries[i], j.nested, store)
    <2> DEFINE e == j.entries[i]
               index == j.nested[e.zip_index[1]]
    <2>1. EntrySound(e)
      BY DEF JarSound, StencilSound
    <2>2. PartReadable(e.blob, store) /\ PartReadable(e.header_blob, store) /\ PartReadable(e.pad_blob, store)
      BY <1>1 DEF HasParts
    <2>3. ASSUME e.zip_index # None
          PROVE  /\ e.zip_index[1] \in DOMAIN j.nested
                 /\ reconstruct_child_zip(index, e.uncomp, store) # None
                 /\ Len(reconstruct_child_zip(index, e.uncomp, store)[1]) = e.uncomp
                 /\ Crc(reconstruct_child_zip(index, e.uncomp, store)[1]) = e.crc
      <3>1. ChildSound(e, j.nested)
        BY <2>3 DEF JarSound
      <3> QED
        BY <1>2, <3>1 DEF ChildSound
    <2> HIDE DEF e
    <2>4. verify_entry(e, j.nested, store)
      BY <2>1, <2>2, <2>3, GetBlobFinds DEF verify_entry, EntrySound, require_sized_blob, PartReadable
    <2> QED
      BY <2>4 DEF e
  <1>4. ASSUME NEW k \in DOMAIN j.nested
        PROVE  verify_nested_index(j.nested[k], store)
    <2>1. ASSUME NEW i \in DOMAIN j.nested[k].entries
          PROVE  verify_entry(j.nested[k].entries[i], <<>>, store)
      <3> DEFINE e == j.nested[k].entries[i]
      <3>1. EntrySound(e) /\ e.zip_index = None
        BY DEF JarSound, NestedSound, StencilSound
      <3>2. PartReadable(e.blob, store) /\ PartReadable(e.header_blob, store) /\ PartReadable(e.pad_blob, store)
        BY <1>1 DEF HasParts
      <3> HIDE DEF e
      <3>3. verify_entry(e, <<>>, store)
        BY <3>1, <3>2, GetBlobFinds DEF verify_entry, EntrySound, require_sized_blob, PartReadable
      <3> QED
        BY <3>3 DEF e
    <2> QED
      BY <1>1, <2>1 DEF verify_nested_index, HasParts, require_sized_blob, PartReadable
  <1>5. verify_jar(j, store)
    BY <1>1, <1>3, <1>4 DEF verify_jar, HasParts, require_sized_blob, PartReadable
  <1> QED
    BY <1>5 DEF store

\* ... and lets none of them be missing.
LEMMA VerifiedIsComplete ==
  ASSUME NEW j, JarSound(j), NEW store, verify_jar(j, store)
  PROVE  JarBlobs(j) \subseteq store
  <1>1. ASSUME NEW e, NEW nested, EntrySound(e), verify_entry(e, nested, store),
               NEW ref \in {e.blob, e.header_blob, e.pad_blob}
        PROVE  PartReadable(ref, store)
    <2>1. e.blob # None => get_blob(e.blob, store) # None
      BY <1>1 DEF verify_entry, EntrySound
    <2>2. PartReadable(e.blob, store)
      BY <2>1 DEF get_blob, PartReadable
    <2> QED
      BY <1>1, <2>2 DEF verify_entry, require_sized_blob, PartReadable
  <1>2. HasParts(j, store)
    <2>1. \A i \in DOMAIN j.entries : EntrySound(j.entries[i]) /\ verify_entry(j.entries[i], j.nested, store)
      BY DEF JarSound, StencilSound, verify_jar
    <2> QED
      BY <1>1, <2>1 DEF HasParts, verify_jar, require_sized_blob, PartReadable
  <1>3. ASSUME NEW k \in DOMAIN j.nested
        PROVE  HasParts(j.nested[k], store)
    <2>1. verify_nested_index(j.nested[k], store)
      BY DEF verify_jar
    <2>2. \A i \in DOMAIN j.nested[k].entries :
            /\ EntrySound(j.nested[k].entries[i])
            /\ verify_entry(j.nested[k].entries[i], <<>>, store)
      BY <2>1 DEF JarSound, NestedSound, StencilSound, verify_nested_index
    <2> QED
      BY <1>1, <2>1, <2>2 DEF HasParts, verify_nested_index, require_sized_blob, PartReadable
  <1> QED
    BY <1>2, <1>3, JarBlobsAreIn

-----------------------------------------------------------------------------
(* Parts of a file. *)

\* A slice has the cells between its bounds.
LEMMA SliceIsThere ==
  ASSUME NEW E, NEW f \in Seq(E), NEW a \in Nat, NEW b \in Nat, a <= b, b <= Len(f)
  PROVE  /\ Slice(f, a, b) \in Seq(E) /\ Len(Slice(f, a, b)) = b - a
         /\ \A i \in 1..(b - a) : Slice(f, a, b)[i] = f[a + i]
  <1>1. \A i \in (a + 1)..b : f[i] \in E
    BY ElementOfSeq
  <1>2. /\ SubSeq(f, a + 1, b) \in Seq(E)
        /\ Len(SubSeq(f, a + 1, b)) = IF a + 1 <= b THEN b - (a + 1) + 1 ELSE 0
        /\ \A i \in 1..(b - (a + 1) + 1) : SubSeq(f, a + 1, b)[i] = f[a + 1 + i - 1]
    BY <1>1, SubSeqProperties
  <1>3. \A i \in 1..(b - a) : i \in 1..(b - (a + 1) + 1) /\ a + 1 + i - 1 = a + i
    OBVIOUS
  <1> QED
    BY <1>2, <1>3 DEF Slice

\* The same by a name, which keeps the facts of a part together until they are
\* wanted.
IsPart(E, f, a, b, v) ==
  /\ v \in Seq(E) /\ Len(v) = b - a
  /\ \A i \in 1..(b - a) : v[i] = f[a + i]

LEMMA PartIsThere ==
  ASSUME NEW E, NEW f \in Seq(E), NEW a \in Nat, NEW b \in Nat, a <= b, b <= Len(f)
  PROVE  IsPart(E, f, a, b, Slice(f, a, b))
  BY SliceIsThere DEF IsPart

LEMMA FromIsSlice ==
  ASSUME NEW f, NEW a
  PROVE  From(f, a) = Slice(f, a, Len(f))
  BY DEF From, Slice

\* A part of a part is a part of the whole.
LEMMA SliceOfSlice ==
  ASSUME NEW E, NEW f \in Seq(E), NEW s \in Nat, NEW t \in Nat, NEW a \in Nat, NEW b \in Nat,
         s <= t, t <= Len(f), a <= b, b <= t - s
  PROVE  Slice(Slice(f, s, t), a, b) = Slice(f, s + a, s + b)
  <1>0. Len(f) \in Nat
    OBVIOUS
  <1>1. PICK v : v = Slice(f, s, t)
    OBVIOUS
  <1>2. v \in Seq(E) /\ Len(v) = t - s /\ \A i \in 1..(t - s) : v[i] = f[s + i]
    <2>1. IsPart(E, f, s, t, v)
      BY <1>1, PartIsThere
    <2> QED
      BY <2>1 DEF IsPart
  <1>3. b <= Len(v)
    BY <1>2
  <1>4. PICK x : x = Slice(v, a, b)
    OBVIOUS
  <1>5. x \in Seq(E) /\ Len(x) = b - a /\ \A i \in 1..(b - a) : x[i] = v[a + i]
    <2>1. IsPart(E, v, a, b, x)
      BY <1>2, <1>3, <1>4, PartIsThere
    <2> QED
      BY <2>1 DEF IsPart
  <1>6. PICK c \in Nat, d \in Nat : c = s + a /\ d = s + b
    OBVIOUS
  <1>7. c <= d /\ d <= Len(f) /\ d - c = b - a
    BY <1>0, <1>6
  <1>8. PICK y : y = Slice(f, c, d)
    OBVIOUS
  <1>9. y \in Seq(E) /\ Len(y) = d - c /\ \A i \in 1..(d - c) : y[i] = f[c + i]
    <2>1. IsPart(E, f, c, d, y)
      BY <1>7, <1>8, PartIsThere
    <2> QED
      BY <2>1 DEF IsPart
  <1>10. ASSUME NEW i \in 1..Len(x)
         PROVE  x[i] = y[i]
    <2>1. i \in 1..(b - a) /\ i \in 1..(d - c) /\ a + i \in 1..(t - s) /\ s + (a + i) = c + i
      BY <1>5, <1>6, <1>7
    <2> QED
      BY <1>2, <1>5, <1>9, <2>1
  <1>11. x = y
    BY <1>5, <1>7, <1>9, <1>10, SeqEqual
  <1> QED
    BY <1>1, <1>4, <1>6, <1>8, <1>11

\* Nothing in front of a sequence or behind it.
LEMMA CatOfEmpty ==
  ASSUME NEW E, NEW s \in Seq(E)
  PROVE  Cat(<<>>, s) = s /\ Cat(s, <<>>) = s /\ <<>> \in Seq(E)
  BY ConcatEmptySeq, EmptySeq DEF Cat

\* Two parts side by side are one.
LEMMA SlicesJoin ==
  ASSUME NEW E, NEW f \in Seq(E), NEW a \in Nat, NEW b \in Nat, NEW c \in Nat,
         a <= b, b <= c, c <= Len(f)
  PROVE  Cat(Slice(f, a, b), Slice(f, b, c)) = Slice(f, a, c)
  <1>0. Len(f) \in Nat /\ b <= Len(f) /\ a <= c
    OBVIOUS
  <1>1. PICK x, y, z : x = Slice(f, a, b) /\ y = Slice(f, b, c) /\ z = Slice(f, a, c)
    OBVIOUS
  <1>2. x \in Seq(E) /\ Len(x) = b - a /\ \A i \in 1..(b - a) : x[i] = f[a + i]
    <2>1. IsPart(E, f, a, b, x)
      BY <1>0, <1>1, PartIsThere
    <2> QED
      BY <2>1 DEF IsPart
  <1>3. y \in Seq(E) /\ Len(y) = c - b /\ \A i \in 1..(c - b) : y[i] = f[b + i]
    <2>1. IsPart(E, f, b, c, y)
      BY <1>1, PartIsThere
    <2> QED
      BY <2>1 DEF IsPart
  <1>4. z \in Seq(E) /\ Len(z) = c - a /\ \A i \in 1..(c - a) : z[i] = f[a + i]
    <2>1. IsPart(E, f, a, c, z)
      BY <1>0, <1>1, PartIsThere
    <2> QED
      BY <2>1 DEF IsPart
  <1>5. /\ x \o y \in Seq(E) /\ Len(x \o y) = Len(x) + Len(y)
        /\ \A i \in 1..(Len(x) + Len(y)) : (x \o y)[i] = IF i <= Len(x) THEN x[i] ELSE y[i - Len(x)]
    BY <1>2, <1>3, ConcatProperties
  <1>6. Len(x \o y) = Len(z)
    BY <1>2, <1>3, <1>4, <1>5
  <1>7. ASSUME NEW i \in 1..Len(x \o y)
        PROVE  (x \o y)[i] = z[i]
    <2>1. i \in 1..(Len(x) + Len(y)) /\ i \in 1..(c - a)
      BY <1>2, <1>3, <1>5
    <2>2. (x \o y)[i] = IF i <= Len(x) THEN x[i] ELSE y[i - Len(x)]
      BY <1>5, <2>1
    <2>3. CASE i <= Len(x)
      <3>1. i \in 1..(b - a)
        BY <1>2, <2>1, <2>3
      <3> QED
        BY <1>2, <1>4, <2>1, <2>2, <2>3, <3>1
    <2>4. CASE ~(i <= Len(x))
      <3>1. i - Len(x) \in 1..(c - b) /\ b + (i - Len(x)) = a + i
        BY <1>2, <2>1, <2>4
      <3> QED
        BY <1>3, <1>4, <2>1, <2>2, <2>4, <3>1
    <2> QED
      BY <2>3, <2>4
  <1>8. x \o y = z
    BY <1>4, <1>5, <1>6, <1>7, SeqEqual
  <1> QED
    BY <1>1, <1>8 DEF Cat

LEMMA SliceOfOne ==
  ASSUME NEW E, NEW f \in Seq(E), NEW a \in Nat, a < Len(f)
  PROVE  <<At(f, a)>> = Slice(f, a, a + 1)
  <1>0. Len(f) \in Nat /\ a + 1 \in Nat /\ a <= a + 1 /\ a + 1 <= Len(f) /\ a + 1 - a = 1
    OBVIOUS
  <1>1. Slice(f, a, a + 1) \in Seq(E) /\ Len(Slice(f, a, a + 1)) = 1
        /\ \A i \in 1..1 : Slice(f, a, a + 1)[i] = f[a + i]
    <2>1. PICK c \in Nat : c = a + 1
      BY <1>0
    <2>2. a <= c /\ c <= Len(f) /\ c - a = 1
      BY <1>0, <2>1
    <2>3. Slice(f, a, c) \in Seq(E) /\ Len(Slice(f, a, c)) = c - a
          /\ \A i \in 1..(c - a) : Slice(f, a, c)[i] = f[a + i]
      <3>1. IsPart(E, f, a, c, Slice(f, a, c))
        BY <2>2, PartIsThere
      <3> QED
        BY <3>1 DEF IsPart
    <2> QED
      BY <2>1, <2>2, <2>3
  <1>2. f[a + 1] \in E
    BY <1>0, ElementOfSeq
  <1>3. <<f[a + 1]>> \in Seq(E) /\ Len(<<f[a + 1]>>) = 1 /\ <<f[a + 1]>>[1] = f[a + 1]
    BY <1>2
  <1>4. Slice(f, a, a + 1)[1] = f[a + 1]
    BY <1>1
  <1>5. \A i \in 1..Len(<<f[a + 1]>>) : <<f[a + 1]>>[i] = Slice(f, a, a + 1)[i]
    BY <1>3, <1>4
  <1>6. <<f[a + 1]>> = Slice(f, a, a + 1)
    BY <1>1, <1>3, <1>5, SeqEqual
  <1> QED
    BY <1>6 DEF At

-----------------------------------------------------------------------------
(* What the structures of a file hold.                                     *)

\* What is at a place that was tested is a cell of the file.
LEMMA CellsAreTyped ==
  ASSUME NEW f, IsFile(f), NEW i \in Int, NEW t, Is(f, i, t)
  PROVE  /\ i \in Nat /\ i < Len(f) /\ At(f, i) = f[i + 1] /\ At(f, i).t = t
         /\ IsCell(At(f, i))
  <1>1. Len(f) \in Nat /\ DOMAIN f = 1..Len(f)
    BY DEF IsFile
  <1>2. 0 <= i /\ i < Len(f) /\ f[i + 1].t = t
    BY DEF Is
  <1>3. i + 1 \in DOMAIN f
    BY <1>1, <1>2
  <1> QED
    BY <1>2, <1>3 DEF At, IsFile

\* The directory lies in front of the structure that records it.
LEMMA BoundsAreTyped ==
  ASSUME NEW f, IsFile(f), find_cd_bounds(f) # None
  PROVE  LET b == find_cd_bounds(f)[1]
         IN /\ b.at \in Nat /\ b.at < Len(f)
            /\ b.size \in Nat /\ b.off \in Nat /\ b.n \in Nat
  <1> DEFINE ends == {i \in 0..(Len(f) - 1) : Is(f, i, "eocd") /\ i + 1 + At(f, i).com = Len(f)}
             e == find_eocd(f)[1]
             found == OrElse(find_zip64(f, e), Some(e))
             at == found[1]
             records == {i \in 0..(e - 2) : Is(f, i, "z64") /\ i + 1 + At(f, i).ext = e - 1}
  <1>0. Len(f) \in Nat
    BY DEF IsFile
  <1>1. find_eocd(f) # None
    BY DEF find_cd_bounds, AndThen
  <1>2. ends # {} /\ e = Max(ends)
    <2> HIDE DEF ends
    <2>1. find_eocd(f) = IF ends = {} THEN None ELSE Some(Max(ends))
      BY DEF find_eocd, ends
    <2> QED
      BY <1>1, <2>1 DEF Some
  <1>3. Len(f) # 0
    BY <1>0, <1>2
  <1>4. e \in ends
    <2>1. Len(f) - 1 \in Nat /\ ends \in SUBSET (0..(Len(f) - 1))
      BY <1>0, <1>3
    <2> HIDE DEF ends, e
    <2> QED
      BY <1>2, <2>1, GreatestIsMember
  <1>5. e \in Nat /\ e < Len(f) /\ Is(f, e, "eocd")
    BY <1>0, <1>4
  <1> HIDE DEF e, ends
  <1>6. at \in Nat /\ at <= e /\ (Is(f, at, "eocd") \/ Is(f, at, "z64"))
    <2>1. CASE find_zip64(f, e) = None
      <3>1. at = e
        BY <2>1 DEF OrElse, Some
      <3> QED
        BY <1>5, <3>1
    <2>2. CASE find_zip64(f, e) # None
      <3> HIDE DEF records
      <3>1. find_zip64(f, e) = IF Is(f, e - 1, "loc") /\ records # {} THEN Some(Max(records)) ELSE None
        BY DEF find_zip64, records
      <3>2. records # {} /\ at = Max(records)
        BY <2>2, <3>1 DEF OrElse, Some
      <3> USE DEF records
      <3>3. e - 2 \in Nat /\ records \in SUBSET (0..(e - 2))
        BY <1>5, <3>2
      <3>4. at \in records
        <4> HIDE DEF records, at
        <4> QED
          BY <3>2, <3>3, GreatestIsMember
      <3> QED
        BY <1>5, <3>4
    <2> QED
      BY <2>1, <2>2
  <1>7. find_cd_bounds(f) = Some([at |-> at, size |-> At(f, at).size, off |-> At(f, at).off,
                                  n |-> At(f, at).n])
    <2>1. found # None
      BY DEF OrElse, Some, None
    <2> QED
      BY <1>1, <2>1 DEF find_cd_bounds, AndThen, e
  <1> HIDE DEF at
  <1>8. IsCell(At(f, at)) /\ At(f, at).t \in {"z64", "eocd"}
    BY <1>6, CellsAreTyped
  <1>9. /\ At(f, at).size \in Nat /\ At(f, at).off \in Nat /\ At(f, at).n \in Nat
    BY <1>8 DEF IsCell
  <1> QED
    BY <1>0, <1>5, <1>6, <1>7, <1>9 DEF Some

\* The slot of a Zip64 extra that a field uses is one of the extra's.
LEMMA SlotIsThere ==
  ASSUME NEW n \in Nat, NEW v, NEW i \in 1..n, v[i] = MaxU32
  PROVE  Slots(v, i) \in Nat /\ Slots(v, i) >= 1
  <1> DEFINE used == {j \in 1..i : v[j] = MaxU32}
  <1>1. used \in SUBSET (1..i) /\ i \in used /\ i \in Nat
    OBVIOUS
  <1> HIDE DEF used
  <1>2. Cardinality(used) \in Nat /\ IsFiniteSet(used)
    BY <1>1, CountUpTo
  <1>3. Cardinality(used) # 0
    BY <1>1, <1>2, FS_EmptySet
  <1> QED
    BY <1>2, <1>3 DEF Slots, used

\* An offset of a row that resolves is a number,
LEMMA OffsetIsTyped ==
  ASSUME NEW r, IsCell(r), r.t = "cd", cd_local_offset(r) # None
  PROVE  cd_local_offset(r)[1] \in Nat
  <1>1. r.off \in Nat /\ r.x \in Seq(Nat)
    BY DEF IsCell
  <1> DEFINE v == CdFields(r)
  <1>2. v[3] = r.off
    BY DEF CdFields
  <1>3. CASE r.off # MaxU32
    BY <1>1, <1>3 DEF cd_local_offset, Some
  <1>4. CASE r.off = MaxU32
    <2> HIDE DEF v
    <2>1. Slots(v, 3) \in Nat /\ Slots(v, 3) >= 1
      BY <1>2, <1>4, SlotIsThere
    <2>2. cd_local_offset(r) = IF Slots(v, 3) > Len(r.x) THEN None ELSE Some(r.x[Slots(v, 3)])
      BY <1>4 DEF cd_local_offset, v
    <2>3. ~(Slots(v, 3) > Len(r.x)) /\ cd_local_offset(r)[1] = r.x[Slots(v, 3)]
      BY <2>2 DEF Some
    <2>4. Slots(v, 3) \in 1..Len(r.x)
      BY <1>1, <2>1, <2>3
    <2> QED
      BY <1>1, <2>3, <2>4
  <1> QED
    BY <1>3, <1>4

\* and so is the least of them.
LEMMA MinLocalIsTyped ==
  ASSUME NEW f, IsFile(f), NEW cd \in Int, NEW size \in Nat, cd >= 0, cd + size <= Len(f),
         read_cd_min_local(f, cd, size) # None
  PROVE  read_cd_min_local(f, cd, size)[1].off \in Nat
  <1> DEFINE complete(i) == Is(f, i, "cd") /\ cd_local_offset(At(f, i)) # None
             read == {i \in cd..(cd + size - 1) : \A j \in cd..i : complete(j)}
             off(i) == cd_local_offset(At(f, i))[1]
             best == {i \in read : \A j \in read : off(i) < off(j) \/ (off(i) = off(j) /\ i <= j)}
             first == CHOOSE i \in best : TRUE
  <1>1. read # {} /\ read_cd_min_local(f, cd, size)[1].off = off(first)
    <2> HIDE DEF read, first
    <2>1. read_cd_min_local(f, cd, size)
            = IF read = {} THEN None ELSE Some([off |-> off(first), name |-> At(f, first).name])
      BY DEF read_cd_min_local, read, first
    <2> QED
      BY <2>1 DEF Some
  <1>2. ASSUME NEW i \in read
        PROVE  i \in Nat /\ off(i) \in Nat
    <2>1. i \in Int /\ i \in cd..i /\ i \in Nat
      OBVIOUS
    <2>2. complete(i)
      BY <2>1
    <2> HIDE DEF read
    <2>3. IsCell(At(f, i)) /\ At(f, i).t = "cd"
      BY <2>1, <2>2, CellsAreTyped
    <2> QED
      BY <2>1, <2>2, <2>3, OffsetIsTyped
  <1> HIDE DEF read, off
  <1>3. PICK a \in read : \A j \in read : off(a) <= off(j)
    <2> DEFINE T == {off(j) : j \in read}
    <2>1. T \subseteq Nat /\ T # {}
      BY <1>1, <1>2
    <2>2. PICK m \in T : \A y \in T : m <= y
      <3> HIDE DEF T
      <3> QED
        BY <2>1, LeastExists
    <2> QED
      BY <2>2
  <1>4. PICK b \in read : off(b) = off(a) /\ \A j \in read : off(j) = off(a) => b <= j
    <2> DEFINE T == {j \in read : off(j) = off(a)}
    <2>1. T \subseteq Nat /\ T # {}
      BY <1>2, <1>3
    <2>2. PICK m \in T : \A y \in T : m <= y
      <3> HIDE DEF T
      <3> QED
        BY <2>1, LeastExists
    <2> QED
      BY <2>2
  <1>5. b \in best
    <2>1. ASSUME NEW j \in read
          PROVE  off(b) < off(j) \/ (off(b) = off(j) /\ b <= j)
      <3>1. off(a) <= off(j) /\ off(a) \in Nat /\ off(j) \in Nat /\ off(b) = off(a)
        BY <1>2, <1>3, <1>4
      <3> QED
        BY <1>4, <3>1
    <2> QED
      BY <2>1
  <1>6. first \in read
    <2>1. first \in best
      <3> HIDE DEF best
      <3> QED
        BY <1>5
    <2> QED
      BY <2>1
  <1> QED
    BY <1>1, <1>2, <1>6

\* The first local header of the outer directory is at a place of the file.
LEMMA FirstLocalIsTyped ==
  ASSUME NEW f, IsFile(f), find_cd_first_local(f) # None
  PROVE  find_cd_first_local(f)[1] \in Nat
  <1> DEFINE b == find_cd_bounds(f)[1]
             cd == b.at - b.size
             found == read_cd_min_local(f, cd, b.size)
             least == found[1]
             hits == {i \in 1..MaxPrefix : local_name_eq(f, i, least.name)}
  <1>1. /\ find_cd_bounds(f) # None /\ Is(f, cd, "cd") /\ found # None
        /\ find_cd_first_local(f) = IF local_name_eq(f, least.off, least.name) THEN Some(least.off)
                                    ELSE find_local_named(f, least.name)
    BY DEF find_cd_first_local, AndThen
  <1>2. b.at \in Nat /\ b.at < Len(f) /\ b.size \in Nat /\ Len(f) \in Nat
    BY <1>1, BoundsAreTyped DEF IsFile
  <1> HIDE DEF b
  <1>3. cd \in Int /\ cd + b.size <= Len(f)
    BY <1>2
  <1>4. cd >= 0
    BY <1>1, <1>3 DEF Is
  <1>5. least.off \in Nat
    <2> HIDE DEF cd
    <2> QED
      BY <1>1, <1>2, <1>3, <1>4, MinLocalIsTyped
  <1>6. CASE local_name_eq(f, least.off, least.name)
    BY <1>1, <1>5, <1>6 DEF Some
  <1>7. CASE ~local_name_eq(f, least.off, least.name)
    <2> HIDE DEF found
    <2>1. find_local_named(f, least.name) = IF hits = {} THEN None ELSE Some(Min(hits))
      BY DEF find_local_named
    <2>2. hits # {} /\ find_cd_first_local(f)[1] = Min(hits)
      <3> HIDE DEF hits
      <3> QED
        BY <1>1, <1>7, <2>1 DEF Some
    <2>3. hits \subseteq Nat
      BY PrefixAssumption
    <2> HIDE DEF hits
    <2> QED
      BY <2>2, <2>3, LeastIsMember
  <1> QED
    BY <1>6, <1>7

LayoutIsTyped(layout) ==
  layout.prefix_len \in Nat /\ layout.view_shift \in {0, layout.prefix_len}

\* Offsets are relative to the launcher's end or to the start of the file.
LEMMA DetectedLayoutIsTyped ==
  ASSUME NEW f, IsFile(f), detect_zip_layout(f) # None
  PROVE  LayoutIsTyped(detect_zip_layout(f)[1])
  <1>1. ASSUME layout_from_first_pk(f) # None
        PROVE  LayoutIsTyped(layout_from_first_pk(f)[1])
    <2> DEFINE first == find_cd_first_local(f)[1]
    <2>1. /\ find_cd_first_local(f) # None
          /\ layout_from_first_pk(f) \in {Some(Layout(first, first)), Some(Layout(first, 0))}
      BY <1>1 DEF layout_from_first_pk, AndThen
    <2>2. first \in Nat
      BY <2>1, FirstLocalIsTyped
    <2> HIDE DEF first
    <2> QED
      BY <2>1, <2>2 DEF LayoutIsTyped, Layout, Some
  <1>2. ASSUME layout_from_eocd_empty(f) # None
        PROVE  LayoutIsTyped(layout_from_eocd_empty(f)[1])
    <2> DEFINE b == find_cd_bounds(f)[1]
               extra == b.at - b.size - b.off
    <2>1. find_cd_bounds(f) # None
      BY <1>2 DEF layout_from_eocd_empty, AndThen
    <2>2. b.at \in Nat /\ b.size \in Nat /\ b.off \in Nat
      BY <2>1, BoundsAreTyped
    <2>3. /\ ~(extra < 0)
          /\ layout_from_eocd_empty(f) \in {Some(Layout(extra, extra)), Some(Layout(b.off, 0))}
      BY <1>2, <2>1 DEF layout_from_eocd_empty, AndThen
    <2> HIDE DEF b
    <2>4. extra \in Nat
      BY <2>2, <2>3
    <2> HIDE DEF extra
    <2> QED
      BY <2>2, <2>3, <2>4 DEF LayoutIsTyped, Layout, Some
  <1>3. LayoutIsTyped(Layout(0, 0))
    BY DEF LayoutIsTyped, Layout
  <1> QED
    BY <1>1, <1>2, <1>3 DEF detect_zip_layout, OrElse, Some

-----------------------------------------------------------------------------
(* The listing of the zip crate.                                           *)

\* The fields of a row, and those of its local the listing has.
LEMMA CrateFieldsAreTyped ==
  ASSUME NEW r, IsCell(r), r.t = "cd"
  PROVE  \A i \in 1..3 : CrateFields(r)[i] \in Nat
  <1> DEFINE v == CdFields(r)
  <1>1. r.x \in Seq(Nat) /\ v = <<r.uncomp, r.comp, r.off>>
        /\ r.uncomp \in Nat /\ r.comp \in Nat /\ r.off \in Nat
    BY DEF IsCell, CdFields
  <1>2. DOMAIN v = 1..3 /\ \A i \in 1..3 : v[i] \in Nat
    BY <1>1
  <1> HIDE DEF v
  <1>3. CrateFields(r) = [i \in DOMAIN v |-> IF v[i] = MaxU32 /\ Slots(v, i) <= Len(r.x)
                                             THEN r.x[Slots(v, i)] ELSE v[i]]
    BY DEF CrateFields, v
  <1> SUFFICES ASSUME NEW i \in 1..3 PROVE CrateFields(r)[i] \in Nat
    OBVIOUS
  <1>4. CASE v[i] = MaxU32 /\ Slots(v, i) <= Len(r.x)
    <2>1. Slots(v, i) \in Nat /\ Slots(v, i) >= 1
      BY <1>4, SlotIsThere
    <2>2. Slots(v, i) \in 1..Len(r.x)
      BY <1>1, <1>4, <2>1
    <2>3. r.x[Slots(v, i)] \in Nat
      BY <1>1, <2>2
    <2> QED
      BY <1>2, <1>3, <1>4, <2>3
  <1>5. CASE ~(v[i] = MaxU32 /\ Slots(v, i) <= Len(r.x))
    BY <1>2, <1>3, <1>5
  <1> QED
    BY <1>4, <1>5

\* The crate counts offsets from a place that may lie in front of the view.
LEMMA DirectoryIsTyped ==
  ASSUME NEW v, IsFile(v), NEW e \in Nat, Is(v, e, "eocd"), DirectoryAt(v, e) # None
  PROVE  LET dir == DirectoryAt(v, e)[1]
         IN dir.base \in Int /\ dir.start \in Int
  <1> DEFINE d == At(v, e)
             wide == (d.n = MaxU16 \/ d.off = MaxU32) /\ Is(v, e - 1, "loc")
             records == {p \in 0..(e - 2) : /\ At(v, e - 1).at <= p
                                            /\ Is(v, p, "z64")
                                            /\ p + 1 + At(v, p).ext = e - 1
                                            /\ At(v, p).n + At(v, p).off <= p}
             rows == {q \in 0..(e - 1) : d.off <= q /\ Is(v, q, "cd")}
             p == Min(records)
             base == p - At(v, e - 1).at
             first == Min(rows)
  <1>0. d.off \in Nat
    BY CellsAreTyped DEF IsCell
  <1>1. CASE wide
    <2>1. Is(v, e - 1, "loc") /\ e - 1 \in Int
      BY <1>1
    <2>2. records # {} /\ DirectoryAt(v, e)[1] = [base |-> base, start |-> base + At(v, p).off,
                                                  n |-> At(v, p).n]
      <3> HIDE DEF records, base, p, rows, first
      <3> QED
        BY <1>1 DEF DirectoryAt, Some, records, base, p
    <2>3. records \subseteq Nat
      OBVIOUS
    <2>4. p \in records
      <3> HIDE DEF records
      <3> QED
        BY <2>2, <2>3, LeastIsMember
    <2>5. p \in Nat /\ Is(v, p, "z64")
      BY <2>4
    <2> HIDE DEF p, records
    <2>6. At(v, p).off \in Nat /\ At(v, e - 1).at \in Nat
      <3>1. IsCell(At(v, p)) /\ At(v, p).t = "z64" /\ IsCell(At(v, e - 1)) /\ At(v, e - 1).t = "loc"
        BY <2>1, <2>5, CellsAreTyped
      <3> QED
        BY <3>1 DEF IsCell
    <2> QED
      BY <2>2, <2>5, <2>6
  <1>2. CASE ~wide
    <2> HIDE DEF records, p, wide
    <2>1. /\ d.n # 0 => rows # {}
          /\ DirectoryAt(v, e)[1] = IF d.n = 0 THEN [base |-> 0, start |-> 0, n |-> 0]
                                    ELSE [base |-> first - d.off, start |-> first, n |-> d.n]
      <3> HIDE DEF rows, first
      <3> QED
        BY <1>2 DEF DirectoryAt, Some, wide, rows, first
    <2>2. rows \subseteq Nat
      OBVIOUS
    <2>3. rows # {} => first \in Nat
      <3> HIDE DEF rows
      <3> QED
        BY <2>2, LeastIsMember
    <2> HIDE DEF rows, first, d
    <2> QED
      BY <1>0, <2>1, <2>3
  <1> QED
    BY <1>1, <1>2

\* Every row it accepts has its local inside the view,
LEMMA RowsAreTyped ==
  ASSUME NEW v, IsFile(v), NEW dir, dir.base \in Int, dir.start \in Int, RowsAt(v, dir) # None
  PROVE  LET rows == RowsAt(v, dir)[1]
         IN /\ dir.n \in Nat /\ DOMAIN rows = 1..dir.n
            /\ \A i \in 1..dir.n : rows[i].start \in Nat /\ rows[i].start < Len(v) /\ rows[i].comp \in Nat
  <1> DEFINE row(i) == At(v, dir.start + i - 1)
             w(i) == CrateFields(row(i))
             entry(i) == [name |-> row(i).name, method |-> row(i).method, crc |-> row(i).crc,
                          uncomp |-> w(i)[1], comp |-> w(i)[2], start |-> dir.base + w(i)[3]]
  <1>1. /\ dir.n \in 0..(Len(v) - dir.start)
        /\ \A i \in 1..dir.n : Is(v, dir.start + i - 1, "cd") /\ Is(v, entry(i).start, "lfh")
        /\ RowsAt(v, dir) = Some([i \in 1..dir.n |-> entry(i)])
    BY DEF RowsAt
  <1>2. ASSUME NEW i \in 1..dir.n
        PROVE  entry(i).start \in Nat /\ entry(i).start < Len(v) /\ entry(i).comp \in Nat
    <2>1. dir.start + i - 1 \in Int /\ i \in Int
      BY <1>1
    <2>2. IsCell(row(i)) /\ row(i).t = "cd"
      BY <1>1, <2>1, CellsAreTyped
    <2> HIDE DEF row
    <2>3. w(i)[2] \in Nat /\ w(i)[3] \in Nat
      BY <2>2, CrateFieldsAreTyped
    <2> HIDE DEF w
    <2>4. entry(i).start \in Int /\ Is(v, entry(i).start, "lfh")
      BY <1>1, <2>3
    <2>5. entry(i).start \in Nat /\ entry(i).start < Len(v)
      <3> HIDE DEF entry
      <3> QED
        BY <2>4, CellsAreTyped
    <2> QED
      BY <2>3, <2>5
  <1> HIDE DEF entry
  <1> QED
    BY <1>1, <1>2 DEF Some

\* A slice of a file is a file.
LEMMA SliceIsFile ==
  ASSUME NEW f, IsFile(f), NEW a \in Nat, NEW b \in Nat, a <= b, b <= Len(f)
  PROVE  /\ IsFile(Slice(f, a, b)) /\ Len(Slice(f, a, b)) = b - a
         /\ \A i \in 1..(b - a) : Slice(f, a, b)[i] = f[a + i]
  <1>0. f \in Seq(ToSet(f)) /\ Len(f) \in Nat /\ DOMAIN f = 1..Len(f)
    BY DEF IsFile
  <1>1. PICK v : v = Slice(f, a, b)
    OBVIOUS
  <1>2. v \in Seq(ToSet(f)) /\ Len(v) = b - a /\ \A i \in 1..(b - a) : v[i] = f[a + i]
    <2>1. IsPart(ToSet(f), f, a, b, v)
      BY <1>0, <1>1, PartIsThere
    <2> QED
      BY <2>1 DEF IsPart
  <1>3. v \in Seq(ToSet(v))
    <2>1. \A i \in 1..Len(v) : v[i] \in ToSet(v)
      BY <1>2 DEF ToSet
    <2>2. v = [i \in 1..Len(v) |-> v[i]] /\ Len(v) \in Nat
      BY <1>2
    <2> QED
      BY <2>1, <2>2
  <1>4. \A i \in DOMAIN v : IsCell(v[i])
    <2> SUFFICES ASSUME NEW i \in DOMAIN v PROVE IsCell(v[i])
      OBVIOUS
    <2>1. i \in 1..(b - a) /\ a + i \in 1..Len(f)
      BY <1>0, <1>2
    <2> QED
      BY <1>0, <1>2, <2>1 DEF IsFile
  <1>5. IsFile(v)
    BY <1>3, <1>4 DEF IsFile
  <1> QED
    BY <1>1, <1>2, <1>5

\* Where the data of a listed member starts.
EntryIsTyped(e, len) == e.start \in Nat /\ e.start < len /\ e.comp \in Nat

\* also when a name is listed twice.
LEMMA ByNameIsTyped ==
  ASSUME NEW n \in Nat, NEW rows, DOMAIN rows = 1..n, NEW len,
         \A i \in 1..n : EntryIsTyped(rows[i], len),
         NEW k \in DOMAIN ByName(rows)
  PROVE  EntryIsTyped(ByName(rows)[k], len)
  <1> DEFINE firsts == {i \in DOMAIN rows : \A j \in 1..(i - 1) : rows[j].name # rows[i].name}
             named(name) == {i \in DOMAIN rows : rows[i].name = name}
             first == Nth(firsts, k)
             last == Max(named(rows[first].name))
  <1>1. k \in 1..Cardinality(firsts) /\ ByName(rows)[k] = rows[last]
    <2>1. ByName(rows) = [l \in 1..Cardinality(firsts) |-> rows[Max(named(rows[Nth(firsts, l)].name))]]
      BY DEF ByName
    <2> HIDE DEF firsts, named
    <2> QED
      BY <2>1
  <1>2. firsts \in SUBSET (1..n)
    OBVIOUS
  <1> HIDE DEF firsts
  <1>3. first \in firsts
    BY <1>1, <1>2, NthIsMember
  <1>4. first \in 1..n
    BY <1>2, <1>3
  <1> HIDE DEF first
  <1> DEFINE S == named(rows[first].name)
  <1>5. S \in SUBSET (0..n) /\ S # {} /\ S \subseteq 1..n
    BY <1>4
  <1> HIDE DEF S
  <1>6. Max(S) \in S
    BY <1>5, GreatestIsMember
  <1>7. last \in 1..n
    BY <1>5, <1>6 DEF S
  <1> QED
    BY <1>1, <1>7

LEMMA ArchiveAtIsTyped ==
  ASSUME NEW v, IsFile(v), NEW e \in Nat, ArchiveAt(v, e) # None
  PROVE  LET archive == ArchiveAt(v, e)[1]
         IN /\ archive.view = v
            /\ \A k \in DOMAIN archive.entries : EntryIsTyped(archive.entries[k], Len(v))
  <1> DEFINE dir == DirectoryAt(v, e)[1]
             rows == RowsAt(v, dir)[1]
  <1>1. /\ Is(v, e, "eocd") /\ DirectoryAt(v, e) # None /\ RowsAt(v, dir) # None
        /\ ArchiveAt(v, e)[1].view = v /\ ArchiveAt(v, e)[1].entries = ByName(rows)
    BY DEF ArchiveAt, AndThen, Some
  <1>2. dir.base \in Int /\ dir.start \in Int
    BY <1>1, DirectoryIsTyped
  <1> HIDE DEF dir
  <1>3. dir.n \in Nat /\ DOMAIN rows = 1..dir.n /\ \A i \in 1..dir.n : EntryIsTyped(rows[i], Len(v))
    BY <1>1, <1>2, RowsAreTyped DEF EntryIsTyped
  <1> HIDE DEF rows
  <1> QED
    BY <1>1, <1>3, ByNameIsTyped

\* The view is the file from the shift on, and every member starts in it.
LEMMA ArchiveIsTyped ==
  ASSUME NEW f, IsFile(f), NEW shift \in Nat, ZipArchive(f, shift) # None
  PROVE  LET archive == ZipArchive(f, shift)[1]
         IN /\ shift < Len(f) /\ archive.view = Slice(f, shift, Len(f))
            /\ \A k \in DOMAIN archive.entries : EntryIsTyped(archive.entries[k], Len(f) - shift)
  <1> DEFINE positions == 0..(Len(f) - shift - 1)
             options == [e \in positions |-> ArchiveAt(From(f, shift), e)]
             some == {e \in DOMAIN options : options[e] # None}
             last == {e \in some : \A d \in some : d <= e}
             latest == CHOOSE e \in last : TRUE
  <1>1. last # {} /\ ZipArchive(f, shift) = options[latest]
    <2> HIDE DEF options
    <2>1. ZipArchive(f, shift) = LastSome(options)
      BY DEF ZipArchive, options
    <2> QED
      BY <2>1 DEF LastSome
  <1>2. latest \in positions
    <2>1. last \subseteq positions
      OBVIOUS
    <2> HIDE DEF last
    <2> QED
      BY <1>1, <2>1
  <1>3. ZipArchive(f, shift) = ArchiveAt(From(f, shift), latest)
    <2> HIDE DEF latest, positions
    <2> QED
      BY <1>1, <1>2
  <1> HIDE DEF latest
  <1>4. latest \in Nat /\ Len(f) \in Nat /\ shift < Len(f)
    BY <1>2 DEF IsFile
  <1>5. From(f, shift) = Slice(f, shift, Len(f)) /\ IsFile(Slice(f, shift, Len(f)))
        /\ Len(Slice(f, shift, Len(f))) = Len(f) - shift
    <2>1. shift <= Len(f) /\ Len(f) <= Len(f)
      BY <1>4
    <2> QED
      BY <1>4, <2>1, FromIsSlice, SliceIsFile, ZenonT(30)
  <1> QED
    BY <1>3, <1>4, <1>5, ArchiveAtIsTyped

LEMMA EmptySlice ==
  ASSUME NEW E, NEW f \in Seq(E), NEW a \in Nat, a <= Len(f)
  PROVE  Slice(f, a, a) = <<>>
  <1>1. PICK v : v = Slice(f, a, a)
    OBVIOUS
  <1>2. a <= a /\ a - a = 0
    OBVIOUS
  <1>3. v \in Seq(E) /\ Len(v) = a - a
    <2>1. IsPart(E, f, a, a, v)
      BY <1>1, <1>2, PartIsThere
    <2> QED
      BY <2>1 DEF IsPart
  <1>4. v = <<>>
    BY <1>2, <1>3, EmptySeq
  <1> QED
    BY <1>1, <1>4

LEMMA SliceOfAll ==
  ASSUME NEW E, NEW f \in Seq(E)
  PROVE  Slice(f, 0, Len(f)) = f
  <1>1. PICK v, n : v = Slice(f, 0, Len(f)) /\ n = Len(f)
    OBVIOUS
  <1>2. 0 \in Nat /\ n \in Nat /\ 0 <= n /\ n <= n
    BY <1>1
  <1>3. v \in Seq(E) /\ Len(v) = n - 0 /\ \A i \in 1..(n - 0) : v[i] = f[0 + i]
    <2>1. IsPart(E, f, 0, n, v)
      BY <1>1, <1>2, PartIsThere
    <2> QED
      BY <2>1 DEF IsPart
  <1>4. Len(v) = Len(f) /\ \A i \in 1..Len(v) : v[i] = f[i]
    BY <1>1, <1>2, <1>3
  <1> QED
    BY <1>1, <1>3, <1>4, SeqEqual

\* What lies behind the data is the descriptor and the pad.
LEMMA DescriptorSplits ==
  ASSUME NEW E, NEW after \in Seq(E), NEW crc, NEW likely \in BOOLEAN,
         split_descriptor(after, crc, likely) # None
  PROVE  LET split == split_descriptor(after, crc, likely)[1]
         IN /\ split.desc \in Seq(E) /\ split.pad \in Seq(E)
            /\ Cat(split.desc, split.pad) = after
  <1> DEFINE fits(n) == Len(after) >= n /\ after[1].t = "desc" /\ after[1].crc = crc
             first == IF likely THEN 2 ELSE 1
             n == IF fits(first) THEN first ELSE 3 - first
             split == split_descriptor(after, crc, likely)[1]
  <1>1. n \in {1, 2}
    OBVIOUS
  <1>2. fits(n) /\ split = [desc |-> SubSeq(after, 1, n), pad |-> From(after, n)]
    <2> HIDE DEF n, fits
    <2>1. split_descriptor(after, crc, likely)
            = IF fits(n) THEN Some([desc |-> SubSeq(after, 1, n), pad |-> From(after, n)]) ELSE None
      BY DEF split_descriptor, n, fits
    <2> QED
      BY <2>1 DEF Some
  <1>3. n <= Len(after) /\ Len(after) \in Nat
    BY <1>1, <1>2
  <1> HIDE DEF n, split
  <1>4. n \in Nat /\ 0 <= n /\ n <= Len(after) /\ Len(after) <= Len(after) /\ 0 <= Len(after)
    BY <1>1, <1>3
  <1>5. SubSeq(after, 1, n) = Slice(after, 0, n)
    BY DEF Slice
  <1>6. Slice(after, 0, n) \in Seq(E) /\ Slice(after, n, Len(after)) \in Seq(E)
    <2>1. IsPart(E, after, 0, n, Slice(after, 0, n)) /\ IsPart(E, after, n, Len(after), Slice(after, n, Len(after)))
      BY <1>3, <1>4, PartIsThere
    <2> QED
      BY <2>1 DEF IsPart
  <1>7. Cat(Slice(after, 0, n), Slice(after, n, Len(after))) = Slice(after, 0, Len(after))
    BY <1>3, <1>4, SlicesJoin, ZenonT(30)
  <1>8. Slice(after, 0, Len(after)) = after
    BY SliceOfAll
  <1>9. split.desc = Slice(after, 0, n) /\ split.pad = Slice(after, n, Len(after))
    BY <1>2, <1>5, FromIsSlice
  <1>10. split.desc \in Seq(E) /\ split.pad \in Seq(E) /\ Cat(split.desc, split.pad) = after
    BY <1>6, <1>7, <1>8, <1>9
  <1> QED
    BY <1>10 DEF split

\* A header cell, the data, and what lies behind it.
LEMMA PartsJoin ==
  ASSUME NEW E, NEW f \in Seq(E), NEW a \in Nat, NEW c \in Nat, NEW d \in Nat, NEW b \in Nat,
         c = a + 1, c <= d, d <= b, b <= Len(f),
         NEW desc \in Seq(E), NEW pad \in Seq(E), Cat(desc, pad) = Slice(f, d, b)
  PROVE  Cat(Cat(Cat(<<At(f, a)>>, Slice(f, c, d)), desc), pad) = Slice(f, a, b)
  <1>1. Len(f) \in Nat /\ a < Len(f) /\ a <= c /\ a <= d /\ c <= Len(f) /\ d <= Len(f)
    OBVIOUS
  <1>2. PICK w, x : w = <<At(f, a)>> /\ x = Slice(f, c, d)
    OBVIOUS
  <1>3. w = Slice(f, a, c)
    BY <1>1, <1>2, SliceOfOne
  <1>4. w \in Seq(E) /\ x \in Seq(E)
    <2>1. IsPart(E, f, a, c, w) /\ IsPart(E, f, c, d, x)
      BY <1>1, <1>2, <1>3, PartIsThere
    <2> QED
      BY <2>1 DEF IsPart
  <1>5. Cat(w, x) \in Seq(E)
    BY <1>4, CatIsThere
  <1>6. Cat(w, x) = Slice(f, a, d)
    BY <1>1, <1>2, <1>3, SlicesJoin
  <1>7. Cat(Cat(Cat(w, x), desc), pad) = Cat(Cat(w, x), Cat(desc, pad))
    BY <1>5, CatAssociates
  <1>8. Cat(Slice(f, a, d), Slice(f, d, b)) = Slice(f, a, b)
    BY <1>1, SlicesJoin
  <1> QED
    BY <1>2, <1>6, <1>7, <1>8

\* The cells of one local, in their order, are the part [a, b) of the file.
LocalIsPart(f, a, b, local) ==
  /\ local.pad \in Seq(ToSet(f))
  /\ Cat(Cat(Cat(<<local.header>>, local.cdata), local.desc), local.pad) = Slice(f, a, b)

\* So is what read_local gives, up to the place where the next local starts.
ReadAsPart(f, layout, r, next, local) ==
  LET at == layout.prefix_len + r.at
  IN /\ local.at = r.at
     /\ at + 1 + r.comp <= layout.prefix_len + next
     /\ local.cdata = Slice(f, at + 1, at + 1 + r.comp)
     /\ LocalIsPart(f, at, layout.prefix_len + next, local)

LEMMA ReadLocalIsPart ==
  ASSUME NEW f, IsFile(f), NEW layout, NEW r, NEW next,
         layout.prefix_len \in Nat, r.at \in Nat, r.comp \in Nat, next \in Nat,
         layout.prefix_len + next <= Len(f), read_local(f, layout, r, next) # None
  PROVE  ReadAsPart(f, layout, r, next, read_local(f, layout, r, next)[1])
  <1>11. PICK p, at, comp : p = layout.prefix_len /\ at = r.at /\ comp = r.comp
    OBVIOUS
  <1>12. p \in Nat /\ at \in Nat /\ comp \in Nat /\ p + next <= Len(f)
    BY <1>11
  <1> DEFINE E == ToSet(f)
             a == p + at
             c == p + at + 1
             d == p + at + 1 + comp
             b == p + next
             after == Slice(f, d, b)
             likely == r.comp >= MaxU32 \/ r.uncomp >= MaxU32
             h == At(f, a)
             split == IF h.bit3 THEN split_descriptor(after, r.crc, likely)
                      ELSE Some([desc |-> <<>>, pad |-> after])
             local == read_local(f, layout, r, next)[1]
  <1>0. f \in Seq(E) /\ Len(f) \in Nat
    BY DEF IsFile
  <1>1. p + (at + 1 + comp) = d /\ at + 1 + comp \in Nat /\ p + at + 1 = c
    BY <1>12
  <1>2. /\ ~(at + 1 + comp > next) /\ split # None
        /\ local = [at |-> at, header |-> h, cdata |-> Slice(f, c, d),
                    desc |-> split[1].desc, pad |-> split[1].pad]
    <2> HIDE DEF likely, after, split, a, c, d, b, h
    <2>1. read_local(f, layout, r, next)
            = IF ~Is(f, a, "lfh") \/ at + 1 + comp > next THEN None
              ELSE IF split = None THEN None
              ELSE Some([at |-> at, header |-> h, cdata |-> Slice(f, c, d),
                         desc |-> split[1].desc, pad |-> split[1].pad])
      BY <1>11, <1>1 DEF read_local, likely, after, split, a, c, b, h
    <2> QED
      BY <2>1 DEF Some
  <1>3. /\ a \in Nat /\ b \in Nat /\ c \in Nat /\ d \in Nat /\ c = a + 1
        /\ a <= c /\ c <= d /\ d <= b /\ b <= Len(f) /\ a < Len(f) /\ d <= Len(f) /\ a <= d
    BY <1>0, <1>12, <1>2
  <1> HIDE DEF a, b, c, d, E
  <1>4. after \in Seq(E) /\ Slice(f, c, d) \in Seq(E) /\ Slice(f, a, c) \in Seq(E)
    <2>1. c <= Len(f)
      BY <1>0, <1>3
    <2>2. IsPart(E, f, c, d, Slice(f, c, d)) /\ IsPart(E, f, a, c, Slice(f, a, c))
      BY <1>0, <1>3, <2>1, PartIsThere
    <2>3. IsPart(E, f, d, b, Slice(f, d, b))
      BY <1>0, <1>3, <2>1, PartIsThere
    <2> QED
      BY <1>0, <1>3, <2>2, <2>3 DEF IsPart
  <1>6. split[1].desc \in Seq(E) /\ split[1].pad \in Seq(E) /\ Cat(split[1].desc, split[1].pad) = after
    <2> HIDE DEF after
    <2>1. CASE h.bit3
      <3>1. likely \in BOOLEAN
        BY DEF likely
      <3> HIDE DEF likely
      <3> QED
        BY <1>2, <1>4, <2>1, <3>1, DescriptorSplits
    <2>2. CASE ~h.bit3
      <3>1. split[1].desc = <<>> /\ split[1].pad = after
        BY <2>2 DEF Some
      <3> HIDE DEF split
      <3>2. <<>> \in Seq(E) /\ Cat(<<>>, after) = after
        BY <1>4, CatOfEmpty
      <3> QED
        BY <1>4, <3>1, <3>2
    <2> QED
      BY <2>1, <2>2
  <1> HIDE DEF h, split, local
  <1>7. Cat(Cat(Cat(<<At(f, a)>>, Slice(f, c, d)), split[1].desc), split[1].pad) = Slice(f, a, b)
    BY <1>0, <1>3, <1>6, PartsJoin
  <1>8. Cat(Cat(Cat(<<local.header>>, local.cdata), local.desc), local.pad) = Slice(f, a, b)
    BY <1>2, <1>7 DEF h
  <1>10. d <= b /\ LocalIsPart(f, a, b, local)
    BY <1>2, <1>3, <1>6, <1>8 DEF LocalIsPart, E
  <1> QED
    BY <1>11, <1>2, <1>10 DEF a, b, c, d, local, ReadAsPart

\* A function on 1..n is a sequence.
LEMMA NumberedIsSequence ==
  ASSUME NEW n \in Nat, NEW s, s = [i \in DOMAIN s |-> s[i]], DOMAIN s = 1..n
  PROVE  s \in Seq(ToSet(s)) /\ Len(s) = n /\ (s = <<>> <=> n = 0)
  <1>1. \A i \in 1..n : s[i] \in ToSet(s)
    BY DEF ToSet
  <1>2. s \in Seq(ToSet(s)) /\ Len(s) = n
    BY <1>1
  <1> QED
    BY <1>2, EmptySeq

\* The records of the crate's listing, in its order.
LEMMA RecordsAreTyped ==
  ASSUME NEW f, IsFile(f), NEW layout, LayoutIsTyped(layout),
         archive_local_records(f, layout) # None
  PROVE  LET recs == archive_local_records(f, layout)[1]
             entries == ZipArchive(f, layout.view_shift)[1].entries
         IN /\ ZipArchive(f, layout.view_shift) # None
            /\ DOMAIN entries = DOMAIN recs
            /\ \E n \in Nat : DOMAIN recs = 1..n /\ (recs = <<>> <=> n = 0)
            /\ \A i \in DOMAIN recs :
                 /\ recs[i].at \in Nat /\ recs[i].comp \in Nat
                 /\ recs[i].comp = entries[i].comp
                 /\ layout.prefix_len + recs[i].at = layout.view_shift + entries[i].start
  <1> DEFINE rel(e) == cd_offset_to_zip_rel(e.start, layout)
             record(e) == [crc |-> e.crc, comp |-> e.comp, uncomp |-> e.uncomp, at |-> rel(e)[1]]
             entries == ZipArchive(f, layout.view_shift)[1].entries
             recs == archive_local_records(f, layout)[1]
  <1>1. /\ ZipArchive(f, layout.view_shift) # None
        /\ ~\E e \in ToSet(entries) : rel(e) = None
        /\ recs = [i \in DOMAIN entries |-> record(entries[i])]
    BY DEF archive_local_records, AndThen, Some
  <1>2. layout.view_shift \in Nat /\ layout.prefix_len \in Nat
        /\ layout.view_shift \in {0, layout.prefix_len}
    BY DEF LayoutIsTyped
  <1>3. PICK n \in Nat : DOMAIN entries = 1..n
    BY <1>1, ArchiveIsNumbered
  <1>4. \A i \in DOMAIN entries : EntryIsTyped(entries[i], Len(f) - layout.view_shift)
    BY <1>1, <1>2, ArchiveIsTyped
  <1> HIDE DEF recs, entries
  <1>5. ASSUME NEW i \in DOMAIN entries
        PROVE  /\ recs[i].at \in Nat /\ recs[i].comp \in Nat /\ recs[i].comp = entries[i].comp
               /\ layout.prefix_len + recs[i].at = layout.view_shift + entries[i].start
    <2>1. entries[i].start \in Nat /\ entries[i].comp \in Nat
      BY <1>4 DEF EntryIsTyped
    <2>2. rel(entries[i]) # None
      BY <1>1 DEF ToSet
    <2>3. recs[i].at = rel(entries[i])[1] /\ recs[i].comp = entries[i].comp
      BY <1>1
    <2>4. /\ rel(entries[i])[1] \in Nat
          /\ layout.prefix_len + rel(entries[i])[1] = layout.view_shift + entries[i].start
      <3>1. CASE layout.view_shift = 0 /\ layout.prefix_len > 0
        <4>1. ~(entries[i].start < layout.prefix_len)
              /\ rel(entries[i])[1] = entries[i].start - layout.prefix_len
          BY <2>2, <3>1 DEF cd_offset_to_zip_rel, Some
        <4> HIDE DEF rel
        <4> QED
          BY <1>2, <2>1, <3>1, <4>1
      <3>2. CASE ~(layout.view_shift = 0 /\ layout.prefix_len > 0)
        <4>1. rel(entries[i])[1] = entries[i].start
          BY <3>2 DEF cd_offset_to_zip_rel, Some
        <4>2. layout.prefix_len = layout.view_shift
          BY <1>2, <3>2
        <4> HIDE DEF rel
        <4> QED
          BY <1>2, <2>1, <4>1, <4>2
      <3> QED
        BY <3>1, <3>2
    <2> HIDE DEF rel
    <2> QED
      BY <2>1, <2>3, <2>4
  <1>6. DOMAIN recs = 1..n
    BY <1>1, <1>3
  <1>7. recs = <<>> <=> n = 0
    BY <1>1, <1>6, NumberedIsSequence
  <1> QED
    BY <1>1, <1>3, <1>5, <1>6, <1>7 DEF recs, entries

\* Which cells of the file the locals of a slice cover: every one between
\* the front and the directory, unless the directory lists nothing.
Tiles(p, front, cd, recs, next) ==
  /\ front \in Nat /\ p <= front /\ front <= cd
  /\ \A i \in DOMAIN recs :
       /\ next[i] \in Nat /\ p + next[i] <= cd
  /\ recs = <<>> => front = p
  /\ recs # <<>> => \A q \in (front + 1)..cd :
                      \E i \in DOMAIN recs : p + recs[i].at < q /\ q <= p + next[i]

\* The places of the locals.
Ats(recs) == {recs[i].at : i \in DOMAIN recs}

\* Where the first local is, and where the one behind the i-th local is.
Hole(recs) == IF recs = <<>> THEN 0 ELSE Min(Ats(recs))
NextAt(recs, i, end) ==
  Min({recs[j].at : j \in {k \in DOMAIN recs : recs[k].at > recs[i].at}} \union {end})

\* The first local is behind the hole,
LEMMA HoleIsLeast ==
  ASSUME NEW recs, NEW n \in Nat, DOMAIN recs = 1..n, recs = <<>> <=> n = 0,
         \A i \in DOMAIN recs : recs[i].at \in Nat
  PROVE  /\ Hole(recs) \in Nat
         /\ recs # <<>> => Hole(recs) \in Ats(recs)
  <1>1. CASE recs = <<>>
    BY <1>1 DEF Hole
  <1>2. CASE recs # <<>>
    <2>1. Ats(recs) \subseteq Nat
      BY DEF Ats
    <2>2. recs[1].at \in Ats(recs)
      BY <1>2 DEF Ats
    <2>3. Hole(recs) \in Ats(recs)
      BY <1>2, <2>1, <2>2, LeastIsMember DEF Hole
    <2> QED
      BY <2>1, <2>3
  <1> QED
    BY <1>1, <1>2

\* the next one behind the local itself,
LEMMA NextIsBehind ==
  ASSUME NEW recs, NEW n \in Nat, DOMAIN recs = 1..n, NEW end \in Nat,
         \A i \in DOMAIN recs : recs[i].at \in Nat, NEW i \in DOMAIN recs
  PROVE  /\ NextAt(recs, i, end) \in Nat /\ NextAt(recs, i, end) <= end
         /\ \/ NextAt(recs, i, end) = end
            \/ \E a \in Ats(recs) : a > recs[i].at /\ NextAt(recs, i, end) = a
  <1> DEFINE later == {recs[j].at : j \in {k \in DOMAIN recs : recs[k].at > recs[i].at}}
  <1>1. later \subseteq Nat /\ \A a \in later : a \in Ats(recs) /\ a > recs[i].at
    BY DEF Ats
  <1>2. NextAt(recs, i, end) = Min(later \union {end})
    BY DEF NextAt
  <1> HIDE DEF later
  <1>3. later \union {end} \subseteq Nat /\ later \union {end} # {}
    BY <1>1
  <1>4. /\ NextAt(recs, i, end) \in later \union {end}
        /\ \A a \in later \union {end} : NextAt(recs, i, end) <= a
    BY <1>2, <1>3, LeastIsMember
  <1> QED
    BY <1>1, <1>3, <1>4

\* so the locals, each with its pad, leave no cell out.
LEMMA LocalsTile ==
  ASSUME NEW p \in Nat, NEW cd \in Nat, p <= cd, NEW recs, NEW n \in Nat,
         DOMAIN recs = 1..n, recs = <<>> <=> n = 0,
         \A i \in DOMAIN recs : recs[i].at \in Nat /\ recs[i].at < cd - p
  PROVE  Tiles(p, p + Hole(recs), cd, recs, [i \in DOMAIN recs |-> NextAt(recs, i, cd - p)])
  <1> DEFINE next == [i \in DOMAIN recs |-> NextAt(recs, i, cd - p)]
  <1>1. PICK end \in Nat : end = cd - p /\ p + end = cd
    OBVIOUS
  <1>2. PICK ats : ats = Ats(recs)
    OBVIOUS
  <1>3. \A a \in ats : a \in Nat /\ a < end /\ \E i \in DOMAIN recs : recs[i].at = a
    BY <1>1, <1>2 DEF Ats
  <1>4. PICK hole : hole = Hole(recs)
    OBVIOUS
  <1>5. hole \in Nat /\ (recs # <<>> => hole \in ats)
    BY <1>2, <1>4, HoleIsLeast
  <1>6. p + hole <= cd /\ (recs = <<>> => hole = 0)
    BY <1>1, <1>3, <1>4, <1>5 DEF Hole
  <1>7. ASSUME NEW i \in DOMAIN recs
        PROVE  /\ next[i] \in Nat /\ next[i] <= end
               /\ next[i] = end \/ \E a \in ats : a > recs[i].at /\ next[i] = a
    <2>1. next[i] = NextAt(recs, i, end)
      BY <1>1
    <2> HIDE DEF next
    <2> QED
      BY <1>2, <2>1, NextIsBehind
  <1>8. ASSUME recs # <<>>, NEW q \in (p + hole + 1)..cd
        PROVE  \E i \in DOMAIN recs : p + recs[i].at < q /\ q <= p + next[i]
    <2> DEFINE below == {a \in ats : p + a < q}
    <2>1. q \in Nat /\ p + hole < q /\ q <= cd
      BY <1>5
    <2>2. \A a \in below : a \in 0..cd
      BY <1>1, <1>3
    <2>3. hole \in below
      BY <1>5, <1>8, <2>1
    <2>4. Max(below) \in below /\ \A a \in below : a <= Max(below)
      <3> HIDE DEF below
      <3> QED
        BY <2>2, <2>3, GreatestIsMember
    <2>5. PICK m \in ats : p + m < q /\ \A a \in ats : p + a < q => a <= m
      BY <2>4
    <2>6. PICK i \in DOMAIN recs : recs[i].at = m
      BY <1>3
    <2>7. q <= p + next[i]
      <3> HIDE DEF next
      <3>1. CASE next[i] = end
        BY <1>1, <2>1, <3>1
      <3>2. CASE next[i] # end
        <4>1. PICK a \in ats : a > m /\ next[i] = a
          BY <1>7, <2>6, <3>2
        <4>2. m \in Nat /\ a \in Nat /\ ~(a <= m)
          BY <1>3, <4>1
        <4>3. ~(p + a < q)
          BY <2>5, <4>2
        <4> QED
          BY <2>1, <4>1, <4>2, <4>3
      <3> QED
        BY <3>1, <3>2
    <2> QED
      BY <2>5, <2>6, <2>7
  <1>9. \A i \in DOMAIN recs : next[i] \in Nat /\ p + next[i] <= cd
    <2> HIDE DEF next
    <2> QED
      BY <1>1, <1>7
  <1> HIDE DEF next
  <1>10. Tiles(p, p + hole, cd, recs, next)
    BY <1>5, <1>6, <1>8, <1>9 DEF Tiles
  <1> QED
    BY <1>4, <1>10 DEF next

\* What a slice is: parts of the file that cover it, with a tail or without.
Cut(f, layout, entries, slice, front, cd, next) ==
  /\ cd \in Nat /\ cd < Len(f)
  /\ slice.tail # None => slice.tail = Some(From(f, cd))
  /\ Tiles(layout.prefix_len, front, cd, slice.locals, next)
  /\ Cat(Slice(f, 0, layout.prefix_len), slice.leading_pad) = Slice(f, 0, front)
  /\ DOMAIN slice.locals = DOMAIN entries
  /\ \A i \in DOMAIN entries :
       LET local == slice.locals[i]
           data == layout.view_shift + entries[i].start + 1
       IN /\ local.at \in Nat /\ data \in Nat
          /\ local.at <= next[i] /\ data + entries[i].comp <= Len(f)
          /\ local.cdata = Slice(f, data, data + entries[i].comp)
          /\ Len(local.cdata) = entries[i].comp
          /\ LocalIsPart(f, layout.prefix_len + local.at, layout.prefix_len + next[i], local)

\* The parts slice_from_reader returns, for a directory that starts at cd.
LEMMA PartsAreCut ==
  ASSUME NEW f, IsFile(f), NEW layout, LayoutIsTyped(layout),
         archive_local_records(f, layout) # None,
         NEW cd \in Int, cd < Len(f), NEW homemade,
         NEW parts, parts = SliceParts(f, layout, archive_local_records(f, layout)[1], cd, homemade),
         parts # None
  PROVE  \E front, next :
           Cut(f, layout, ZipArchive(f, layout.view_shift)[1].entries, parts[1], front, cd, next)
  <1> DEFINE recs == archive_local_records(f, layout)[1]
             entries == ZipArchive(f, layout.view_shift)[1].entries
             p == layout.prefix_len
             next == [i \in DOMAIN recs |-> NextAt(recs, i, cd - p)]
             front == p + Hole(recs)
             local(i) == read_local(f, layout, recs[i], NextAt(recs, i, cd - p))
             slice == parts[1]
             data(i) == layout.view_shift + entries[i].start + 1
             whole == [prefix |-> Slice(f, 0, p), leading_pad |-> Slice(f, 0, Hole(recs)),
                       locals |-> [i \in DOMAIN recs |-> local(i)[1]],
                       tail |-> IF homemade = None THEN None ELSE Some(From(f, cd)),
                       homemade_ok |-> homemade # None]
  <1>1. PICK n \in Nat : DOMAIN recs = 1..n /\ (recs = <<>> <=> n = 0) /\ DOMAIN entries = 1..n
    BY RecordsAreTyped
  <1>2. \A i \in DOMAIN recs :
          /\ recs[i].at \in Nat /\ recs[i].comp \in Nat /\ recs[i].comp = entries[i].comp
          /\ p + recs[i].at = layout.view_shift + entries[i].start
    BY RecordsAreTyped
  <1> HIDE DEF recs, entries
  <1>3. parts = IF Hole(recs) # 0 /\ p # 0 THEN None
                ELSE IF cd < p THEN None
                ELSE IF homemade # None /\ homemade # Some(Len(recs)) THEN None
                ELSE IF \E i \in DOMAIN recs : recs[i].at >= cd - p THEN None
                ELSE IF \E i \in DOMAIN recs : local(i) = None THEN None
                ELSE Some(whole)
    <2>1. parts = SliceParts(f, layout, recs, cd, homemade)
      BY DEF recs
    <2> HIDE DEF recs
    <2> QED
      BY <2>1 DEF SliceParts, Hole, Ats, NextAt
  <1>4. /\ ~(Hole(recs) # 0 /\ p # 0) /\ ~(cd < p)
        /\ ~\E i \in DOMAIN recs : recs[i].at >= cd - p
        /\ ~\E i \in DOMAIN recs : local(i) = None
        /\ slice = whole
    <2> HIDE DEF local, whole, p
    <2> QED
      BY <1>3 DEF Some
  <1>5. /\ slice.leading_pad = Slice(f, 0, Hole(recs))
        /\ slice.locals = [i \in DOMAIN recs |-> local(i)[1]]
        /\ slice.tail # None => slice.tail = Some(From(f, cd))
    <2> HIDE DEF local
    <2> QED
      BY <1>4
  <1> HIDE DEF slice, whole
  <1>6. /\ f \in Seq(ToSet(f)) /\ Len(f) \in Nat /\ p \in Nat /\ layout.view_shift \in Nat
        /\ cd \in Nat /\ p <= cd /\ cd <= Len(f) /\ p <= Len(f) /\ cd - p \in Nat
        /\ \A i \in DOMAIN recs : recs[i].at < cd - p
    BY <1>2, <1>4 DEF IsFile, LayoutIsTyped
  <1>7. Tiles(p, front, cd, recs, next)
    <2> HIDE DEF p
    <2> QED
      BY <1>1, <1>2, <1>6, LocalsTile
  <1>8. ASSUME NEW i \in DOMAIN entries
        PROVE  /\ slice.locals[i].at = recs[i].at
               /\ data(i) \in Nat /\ recs[i].at <= next[i] /\ data(i) + entries[i].comp <= Len(f)
               /\ slice.locals[i].cdata = Slice(f, data(i), data(i) + entries[i].comp)
               /\ LocalIsPart(f, p + recs[i].at, p + next[i], slice.locals[i])
    <2>1. i \in DOMAIN recs
      BY <1>1
    <2>2. next[i] \in Nat /\ p + next[i] <= Len(f) /\ next[i] = NextAt(recs, i, cd - p)
      <3>1. next[i] \in Nat /\ p + next[i] <= cd
        BY <1>7, <2>1 DEF Tiles
      <3>2. next[i] = NextAt(recs, i, cd - p)
        BY <2>1
      <3> HIDE DEF next
      <3> QED
        BY <1>6, <3>1, <3>2
    <2> HIDE DEF next
    <2>3. slice.locals[i] = local(i)[1] /\ local(i) # None
      <3> HIDE DEF local
      <3> QED
        BY <1>4, <1>5, <2>1
    <2>4. /\ recs[i].at \in Nat /\ recs[i].comp \in Nat /\ recs[i].comp = entries[i].comp
          /\ p + recs[i].at + 1 = data(i) /\ data(i) \in Nat
      BY <1>2, <1>6, <2>1
    <2> HIDE DEF data
    <2>5. PICK at, comp, nx : at = recs[i].at /\ comp = recs[i].comp /\ nx = next[i]
      OBVIOUS
    <2>6. local(i) = read_local(f, layout, recs[i], nx)
      BY <2>2, <2>5
    <2> HIDE DEF local, p
    <2>7. at \in Nat /\ comp \in Nat /\ nx \in Nat /\ p + nx <= Len(f)
      BY <2>2, <2>4, <2>5
    <2>8. /\ local(i)[1].at = at
          /\ p + at + 1 + comp <= p + nx
          /\ local(i)[1].cdata = Slice(f, p + at + 1, p + at + 1 + comp)
          /\ LocalIsPart(f, p + at, p + nx, local(i)[1])
      <3>1. PICK r : r = recs[i]
        OBVIOUS
      <3>2. /\ layout.prefix_len \in Nat /\ r.at \in Nat /\ r.comp \in Nat /\ r.at = at /\ r.comp = comp
            /\ layout.prefix_len + nx <= Len(f) /\ read_local(f, layout, r, nx) # None
        BY <1>6, <2>3, <2>5, <2>6, <2>7, <3>1 DEF p
      <3>3. PICK l : l = read_local(f, layout, r, nx)[1]
        OBVIOUS
      <3>4. /\ l.at = r.at
            /\ layout.prefix_len + r.at + 1 + r.comp <= layout.prefix_len + nx
            /\ l.cdata = Slice(f, layout.prefix_len + r.at + 1, layout.prefix_len + r.at + 1 + r.comp)
            /\ LocalIsPart(f, layout.prefix_len + r.at, layout.prefix_len + nx, l)
        <4>1. ReadAsPart(f, layout, r, nx, l)
          BY <2>7, <3>2, <3>3, ReadLocalIsPart
        <4> QED
          BY <4>1 DEF ReadAsPart
      <3> QED
        BY <2>6, <3>1, <3>2, <3>3, <3>4 DEF p
    <2>9. PICK c : c = data(i) /\ c = p + at + 1 /\ c \in Nat /\ comp = entries[i].comp
      BY <2>4, <2>5
    <2>10. at <= nx /\ c + comp <= Len(f) /\ local(i)[1].cdata = Slice(f, c, c + comp)
      BY <1>6, <2>7, <2>8, <2>9
    <2> QED
      BY <2>3, <2>5, <2>8, <2>9, <2>10
  <1>9. ASSUME NEW i \in DOMAIN entries
        PROVE  Len(slice.locals[i].cdata) = entries[i].comp
    <2>1. PICK c, comp : c = data(i) /\ comp = entries[i].comp
      OBVIOUS
    <2>2. comp \in Nat /\ c \in Nat /\ c + comp <= Len(f) /\ slice.locals[i].cdata = Slice(f, c, c + comp)
      <3>1. i \in DOMAIN recs
        BY <1>1
      <3> HIDE DEF data
      <3> QED
        BY <1>2, <1>8, <2>1, <3>1
    <2>3. PICK d \in Nat : d = c + comp /\ c <= d /\ d <= Len(f) /\ d - c = comp
      BY <2>2
    <2>4. PICK v : v = Slice(f, c, d)
      OBVIOUS
    <2>5. v \in Seq(ToSet(f)) /\ Len(v) = d - c /\ \A k \in 1..(d - c) : v[k] = f[c + k]
      <3>1. f \in Seq(ToSet(f)) /\ c \in Nat /\ d \in Nat /\ c <= d /\ d <= Len(f)
        BY <1>6, <2>2, <2>3
      <3>2. IsPart(ToSet(f), f, c, d, v)
        BY <2>4, <3>1, PartIsThere
      <3> QED
        BY <3>2 DEF IsPart
    <2> QED
      BY <2>1, <2>2, <2>3, <2>4, <2>5
  <1>10. Cat(Slice(f, 0, p), slice.leading_pad) = Slice(f, 0, front)
    <2>1. PICK hole, q : hole = Hole(recs) /\ q = p + hole
      OBVIOUS
    <2>2. hole \in Nat /\ q \in Nat /\ (hole = 0 \/ p = 0) /\ hole <= Len(f) /\ q <= Len(f)
      <3>1. hole \in Nat /\ q <= cd
        BY <1>1, <1>2, <1>7, <2>1, HoleIsLeast DEF Tiles
      <3> HIDE DEF p
      <3> QED
        BY <1>4, <1>6, <2>1, <3>1
    <2> HIDE DEF p
    <2>3. Slice(f, 0, 0) = <<>> /\ Slice(f, 0, p) \in Seq(ToSet(f)) /\ Slice(f, 0, hole) \in Seq(ToSet(f))
      <3>1. 0 \in Nat /\ 0 <= 0 /\ 0 <= Len(f) /\ 0 <= p /\ 0 <= hole
        BY <1>6, <2>2
      <3>2. IsPart(ToSet(f), f, 0, p, Slice(f, 0, p)) /\ IsPart(ToSet(f), f, 0, hole, Slice(f, 0, hole))
        BY <1>6, <2>2, <3>1, PartIsThere
      <3>3. Slice(f, 0, 0) = <<>>
        BY <1>6, <2>2, <3>1, EmptySlice
      <3> QED
        BY <3>2, <3>3 DEF IsPart
    <2>4. Cat(Slice(f, 0, p), Slice(f, 0, hole)) = Slice(f, 0, q)
      <3>1. CASE p = 0
        <4>1. q = hole
          BY <2>1, <2>2, <3>1
        <4> QED
          BY <2>3, <3>1, <4>1, CatOfEmpty
      <3>2. CASE p # 0
        <4>1. q = p /\ hole = 0
          BY <1>6, <2>1, <2>2, <3>2
        <4> QED
          BY <2>3, <4>1, CatOfEmpty
      <3> QED
        BY <3>1, <3>2
    <2> QED
      BY <1>5, <2>1, <2>4
  <1>11. Tiles(p, front, cd, slice.locals, next)
    <2>1. DOMAIN slice.locals = DOMAIN recs /\ (slice.locals = <<>> <=> recs = <<>>)
      <3>1. DOMAIN slice.locals = DOMAIN recs /\ slice.locals = [i \in DOMAIN slice.locals |-> slice.locals[i]]
        <4> HIDE DEF local
        <4> QED
          BY <1>5
      <3> QED
        BY <1>1, <3>1, NumberedIsSequence
    <2>2. \A i \in DOMAIN recs : slice.locals[i].at = recs[i].at
      BY <1>1, <1>8
    <2> HIDE DEF p, front, next
    <2> QED
      BY <1>7, <2>1, <2>2 DEF Tiles
  <1>12. DOMAIN slice.locals = DOMAIN entries
    BY <1>1, <1>5
  <1>13. Cut(f, layout, entries, slice, front, cd, next)
    <2>1. cd < Len(f)
      OBVIOUS
    <2>2. \A i \in DOMAIN entries : slice.locals[i].at \in Nat
      BY <1>1, <1>2, <1>8
    <2> HIDE DEF next, front
    <2> QED
      BY <1>5, <1>6, <1>8, <1>9, <1>10, <1>11, <1>12, <2>1, <2>2 DEF Cut
  <1> QED
    BY <1>13 DEF entries, slice

\* slice_from_reader cuts the file into parts that cover it.
LEMMA SliceIsCut ==
  ASSUME NEW f, IsFile(f), slice_from_reader(f) # None
  PROVE  LET layout == detect_zip_layout(f)[1]
             entries == ZipArchive(f, layout.view_shift)[1].entries
         IN /\ detect_zip_layout(f) # None /\ LayoutIsTyped(layout)
            /\ ZipArchive(f, layout.view_shift) # None
            /\ \E front, cd, next : Cut(f, layout, entries, slice_from_reader(f)[1], front, cd, next)
  <1> DEFINE layout == detect_zip_layout(f)[1]
             recs == archive_local_records(f, layout)[1]
             b == find_cd_bounds(f)[1]
             cd == b.at - b.size
             homemade == parse_central_directory(Slice(f, cd, b.at), layout)
             parts == SliceParts(f, layout, recs, cd, homemade)
  <1>1. /\ detect_zip_layout(f) # None /\ archive_local_records(f, layout) # None
        /\ find_cd_bounds(f) # None /\ slice_from_reader(f) = parts
    BY DEF slice_from_reader, AndThen
  <1>2. LayoutIsTyped(layout)
    BY <1>1, DetectedLayoutIsTyped
  <1>3. b.at \in Nat /\ b.at < Len(f) /\ b.size \in Nat /\ Len(f) \in Nat
    BY <1>1, BoundsAreTyped DEF IsFile
  <1> HIDE DEF layout, homemade, b
  <1>4. cd \in Int /\ cd < Len(f)
    BY <1>3
  <1>5. ZipArchive(f, layout.view_shift) # None
    BY <1>1, <1>2, RecordsAreTyped
  <1> HIDE DEF cd
  <1>6. \E front, next :
          Cut(f, layout, ZipArchive(f, layout.view_shift)[1].entries, parts[1], front, cd, next)
    BY <1>1, <1>2, <1>4, PartsAreCut
  <1> HIDE DEF parts
  <1> QED
    BY <1>1, <1>2, <1>5, <1>6 DEF layout

-----------------------------------------------------------------------------
(* Writing the parts back.                                                 *)

\* The first file is the one given, and every slot is written over the file the
\* slots before it left.
AreWritten(written, file, entries, prefix_len, headers, cdata, pads) ==
    /\ written[0] = file
    /\ \A i \in 1..Len(entries) :
         written[i] = write_slot(written[i - 1], entries[i], prefix_len,
                                 headers[i][1], cdata[i][1], pads[i][1])

\* The recursive function exists, so the slots are written as it says.
LEMMA WrittenIsDefined ==
  ASSUME NEW file, NEW entries, Len(entries) \in Nat, NEW prefix_len,
         NEW headers, NEW cdata, NEW pads,
         NEW written, written = Written(file, entries, prefix_len, headers, cdata, pads)
  PROVE  AreWritten(written, file, entries, prefix_len, headers, cdata, pads)
  <1> DEFINE Body(w, n) ==
               [i \in 0..n |->
                  IF i = 0 THEN file
                  ELSE write_slot(w[i - 1], entries[i], prefix_len,
                                  headers[i][1], cdata[i][1], pads[i][1])]
             T == {n \in Nat : ~\E w : w = Body(w, n)}
  <1>1. T = {}
    <2> SUFFICES ASSUME T # {} PROVE FALSE
      OBVIOUS
    <2>1. PICK n \in T : \A m \in T : n <= m
      <3>1. T \subseteq Nat
        OBVIOUS
      <3> HIDE DEF T
      <3> QED
        BY <3>1, LeastExists
    <2>2. n # 0
      <3>1. Body(<<>>, 0) = Body(Body(<<>>, 0), 0)
        OBVIOUS
      <3> QED
        BY <3>1
    <2>3. n - 1 \in Nat /\ n - 1 \notin T
      <3> HIDE DEF T
      <3>1. n \in Nat
        BY DEF T
      <3> QED
        BY <2>1, <2>2, <3>1
    <2>4. PICK w : w = Body(w, n - 1)
      BY <2>3
    <2> DEFINE g == Body(w, n)
    <2>5. ASSUME NEW i \in 0..(n - 1) PROVE g[i] = w[i]
      <3>1. w[i] = IF i = 0 THEN file
                   ELSE write_slot(w[i - 1], entries[i], prefix_len,
                                   headers[i][1], cdata[i][1], pads[i][1])
        BY <2>4
      <3>2. i \in 0..n
        BY <2>3
      <3> QED
        BY <3>1, <3>2
    <2>6. g = Body(g, n)
      <3>1. \A i \in 0..n : i # 0 => i - 1 \in 0..(n - 1)
        BY <2>3
      <3>2. \A i \in 0..n : i # 0 => g[i - 1] = w[i - 1]
        <4> HIDE DEF g
        <4> QED
          BY <2>5, <3>1
      <3> QED
        BY <3>2
    <2> QED
      BY <2>6
  <1>2. \E w : w = Body(w, Len(entries))
    BY <1>1
  <1>3. written = Body(written, Len(entries))
    BY <1>2 DEF Written
  <1>4. 0 \in 0..Len(entries) /\ \A i \in 1..Len(entries) : i \in 0..Len(entries) /\ i # 0
    OBVIOUS
  <1>5. /\ written[0] = file
        /\ \A i \in 1..Len(entries) :
             written[i] = write_slot(written[i - 1], entries[i], prefix_len,
                                     headers[i][1], cdata[i][1], pads[i][1])
    BY <1>3, <1>4
  <1> QED
    BY <1>5 DEF AreWritten

\* A file that is being written: no longer than f, and at q it is f already.
Partial(f, file) == file \in Seq(ToSet(f) \union {Zero}) /\ Len(file) <= Len(f)
Shows(f, file, q) == q <= Len(file) /\ file[q] = f[q]

\* Writing a part of f at its place shows it and hides nothing of f.
LEMMA PartIsWritten ==
  ASSUME NEW f, IsFile(f), NEW file, Partial(f, file), NEW a \in Nat, NEW b \in Nat,
         a <= b, b <= Len(f)
  PROVE  LET new == WriteAt(file, a, Slice(f, a, b))
         IN /\ Partial(f, new) /\ Len(new) = Max({Len(file), b})
            /\ \A q \in 1..Len(f) : Shows(f, file, q) \/ (a < q /\ q <= b) => Shows(f, new, q)
  <1> DEFINE E == ToSet(f)
             new == WriteAt(file, a, Slice(f, a, b))
  <1>1. f \in Seq(E) /\ Len(f) \in Nat /\ \A q \in 1..Len(f) : f[q] \in E
    BY DEF IsFile, ToSet
  <1>2. file \in Seq(E \union {Zero}) /\ Len(file) \in Nat /\ Len(file) <= Len(f)
        /\ \A q \in 1..Len(file) : file[q] \in E \union {Zero}
    BY DEF Partial
  <1> HIDE DEF E
  <1>3. PICK part : part = Slice(f, a, b)
    OBVIOUS
  <1>4. part \in Seq(E) /\ Len(part) = b - a /\ \A i \in 1..(b - a) : part[i] = f[a + i]
    <2>1. IsPart(E, f, a, b, part)
      BY <1>1, <1>3, PartIsThere
    <2> QED
      BY <2>1 DEF IsPart
  <1>5. PICK len : len = Max({Len(file), b})
    OBVIOUS
  <1>6. len = IF Len(file) >= b THEN Len(file) ELSE b
    BY <1>2, <1>5, GreaterOfTwo
  <1>7. len \in Nat /\ len <= Len(f) /\ Len(file) <= len /\ b <= len
    BY <1>2, <1>6
  <1>8. a + Len(part) = b
    BY <1>4
  <1>9. new = [i \in 1..len |-> IF a < i /\ i <= b THEN part[i - a]
                                ELSE IF i <= Len(file) THEN file[i] ELSE Zero]
    BY <1>3, <1>5, <1>8 DEF WriteAt
  <1> HIDE DEF new
  <1>10. ASSUME NEW q \in 1..len
         PROVE  new[q] = IF a < q /\ q <= b THEN f[q] ELSE IF q <= Len(file) THEN file[q] ELSE Zero
    <2>1. CASE a < q /\ q <= b
      <3>1. q - a \in 1..(b - a) /\ a + (q - a) = q
        BY <2>1
      <3>2. part[q - a] = f[q]
        BY <1>4, <3>1
      <3> QED
        BY <1>9, <2>1, <3>2
    <2>2. CASE ~(a < q /\ q <= b)
      BY <1>9, <2>2
    <2> QED
      BY <2>1, <2>2
  <1>11. \A q \in 1..len : new[q] \in E \union {Zero}
    <2> SUFFICES ASSUME NEW q \in 1..len PROVE new[q] \in E \union {Zero}
      OBVIOUS
    <2>1. q \in 1..Len(f) /\ (q <= Len(file) => q \in 1..Len(file))
      BY <1>1, <1>2, <1>7
    <2> QED
      BY <1>1, <1>2, <1>10, <2>1
  <1>12. new \in Seq(E \union {Zero}) /\ Len(new) = len
    <2>1. new = [i \in 1..len |-> new[i]]
      BY <1>9
    <2> QED
      BY <1>7, <1>11, <2>1
  <1>13. ASSUME NEW q \in 1..Len(f), Shows(f, file, q) \/ (a < q /\ q <= b)
         PROVE  Shows(f, new, q)
    <2>1. q \in 1..len
      BY <1>2, <1>7, <1>13 DEF Shows
    <2> QED
      BY <1>10, <1>12, <1>13, <2>1 DEF Shows
  <1>14. Partial(f, new)
    BY <1>7, <1>12 DEF Partial, E
  <1> QED
    BY <1>5, <1>12, <1>13, <1>14 DEF new

\* A slot holds the part [a, b) of the file.
SlotIsPart(f, a, b, e, prefix_len, header, cdata, pad) ==
  /\ slot_start(e, prefix_len) = a
  /\ Cat(Cat(Cat(header, cdata), e.desc), pad) = Slice(f, a, b)

\* A slot is such a part,
LEMMA SlotIsWritten ==
  ASSUME NEW f, NEW file, NEW a, NEW b, NEW e, NEW prefix_len, NEW header, NEW cdata, NEW pad,
         SlotIsPart(f, a, b, e, prefix_len, header, cdata, pad)
  PROVE  write_slot(file, e, prefix_len, header, cdata, pad) = WriteAt(file, a, Slice(f, a, b))
  <1>1. write_slot(file, e, prefix_len, header, cdata, pad)
          = WriteAt(file, slot_start(e, prefix_len), Cat(Cat(Cat(header, cdata), e.desc), pad))
    BY DEF write_slot, Cat
  <1> QED
    BY <1>1 DEF SlotIsPart

\* and so is the front.
LEMMA FrontIsPartial ==
  ASSUME NEW f, IsFile(f), NEW front \in Nat, front <= Len(f)
  PROVE  LET file == Slice(f, 0, front)
         IN Partial(f, file) /\ \A q \in 1..Len(f) : q <= front => Shows(f, file, q)
  <1>1. f \in Seq(ToSet(f)) /\ 0 \in Nat /\ 0 <= front /\ Len(f) \in Nat
    BY DEF IsFile
  <1>2. PICK file : file = Slice(f, 0, front)
    OBVIOUS
  <1>3. /\ file \in Seq(ToSet(f)) /\ Len(file) = front - 0
        /\ \A q \in 1..(front - 0) : file[q] = f[0 + q]
    <2>1. IsPart(ToSet(f), f, 0, front, file)
      BY <1>1, <1>2, PartIsThere
    <2> QED
      BY <2>1 DEF IsPart
  <1>4. Len(file) = front /\ \A q \in 1..front : file[q] = f[q]
    BY <1>3
  <1>5. file \in Seq(ToSet(f) \union {Zero})
    BY <1>3, SeqMonotonic
  <1> QED
    BY <1>1, <1>2, <1>4, <1>5 DEF Partial, Shows

\* The parts of the slots are the file from its front to the directory.
LEMMA SlotsAreWritten ==
  ASSUME NEW f, IsFile(f), NEW p \in Nat, NEW front, NEW cd \in Nat, cd < Len(f),
         NEW locals, NEW next, Tiles(p, front, cd, locals, next),
         NEW n \in Nat, DOMAIN locals = 1..n, \A i \in 1..n : locals[i].at \in Nat /\ locals[i].at <= next[i],
         locals = <<>> => cd = p,
         NEW entries, n = Len(entries), NEW prefix_len, NEW headers, NEW cdata, NEW pads,
         \A i \in 1..n : SlotIsPart(f, p + locals[i].at, p + next[i], entries[i], prefix_len,
                                    headers[i][1], cdata[i][1], pads[i][1])
  PROVE  LET file == WriteSlots(Slice(f, 0, front), entries, prefix_len, headers, cdata, pads)
         IN Partial(f, file) /\ \A q \in 1..cd : Shows(f, file, q)
  <1> DEFINE w == Written(Slice(f, 0, front), entries, prefix_len, headers, cdata, pads)
             Covered(m, q) == \/ q <= front
                              \/ \E i \in 1..m : p + locals[i].at < q /\ q <= p + next[i]
             Good(m) == Partial(f, w[m]) /\ \A q \in 1..Len(f) : Covered(m, q) => Shows(f, w[m], q)
             T == {m \in Nat : m <= n /\ ~Good(m)}
  <1>0. front \in Nat /\ front <= Len(f) /\ Len(f) \in Nat /\ cd <= Len(f)
    BY DEF Tiles, IsFile
  <1>1. /\ w[0] = Slice(f, 0, front)
        /\ \A i \in 1..n : w[i] = write_slot(w[i - 1], entries[i], prefix_len,
                                             headers[i][1], cdata[i][1], pads[i][1])
    <2>1. Len(entries) \in Nat
      OBVIOUS
    <2>2. /\ w[0] = Slice(f, 0, front)
          /\ \A i \in 1..Len(entries) : w[i] = write_slot(w[i - 1], entries[i], prefix_len,
                                                         headers[i][1], cdata[i][1], pads[i][1])
      <3>1. PICK v : v = Written(Slice(f, 0, front), entries, prefix_len, headers, cdata, pads)
        OBVIOUS
      <3>2. /\ v[0] = Slice(f, 0, front)
            /\ \A i \in 1..Len(entries) : v[i] = write_slot(v[i - 1], entries[i], prefix_len,
                                                           headers[i][1], cdata[i][1], pads[i][1])
        <4>1. AreWritten(v, Slice(f, 0, front), entries, prefix_len, headers, cdata, pads)
          BY <2>1, <3>1, WrittenIsDefined
        <4> QED
          BY <4>1 DEF AreWritten
      <3> QED
        BY <3>1, <3>2
    <2> HIDE DEF w
    <2> QED
      BY <2>2
  <1> HIDE DEF w
  <1>2. Good(0)
    <2>1. Partial(f, w[0]) /\ \A q \in 1..Len(f) : q <= front => Shows(f, w[0], q)
      BY <1>0, <1>1, FrontIsPartial
    <2> QED
      BY <2>1
  <1>3. ASSUME NEW m \in 1..n, Good(m - 1)
        PROVE  Good(m)
    <2>1. PICK a, b : a = p + locals[m].at /\ b = p + next[m]
      OBVIOUS
    <2>2. a \in Nat /\ b \in Nat /\ a <= b /\ b <= Len(f)
      <3>1. PICK x, y : x = locals[m].at /\ y = next[m]
        OBVIOUS
      <3>2. x \in Nat /\ y \in Nat /\ x <= y /\ p + y <= cd
        BY <3>1 DEF Tiles
      <3>3. a = p + x /\ b = p + y
        BY <2>1, <3>1
      <3>4. p + x \in Nat /\ p + y \in Nat /\ p + x <= p + y /\ p + y <= Len(f)
        BY <1>0, <3>2
      <3> QED
        BY <3>3, <3>4
    <2>3. w[m] = WriteAt(w[m - 1], a, Slice(f, a, b))
      <3>1. SlotIsPart(f, a, b, entries[m], prefix_len, headers[m][1], cdata[m][1], pads[m][1])
        BY <2>1
      <3> QED
        BY <1>1, <3>1, SlotIsWritten
    <2>4. Partial(f, w[m - 1])
      BY <1>3
    <2>5. /\ Partial(f, w[m])
          /\ \A q \in 1..Len(f) : Shows(f, w[m - 1], q) \/ (a < q /\ q <= b) => Shows(f, w[m], q)
      <3>1. PICK file, new : file = w[m - 1] /\ new = WriteAt(file, a, Slice(f, a, b))
        OBVIOUS
      <3>2. /\ Partial(f, new)
            /\ \A q \in 1..Len(f) : Shows(f, file, q) \/ (a < q /\ q <= b) => Shows(f, new, q)
        BY <2>2, <2>4, <3>1, PartIsWritten, ZenonT(30)
      <3> QED
        BY <2>3, <3>1, <3>2
    <2>6. ASSUME NEW q \in 1..Len(f), Covered(m, q)
          PROVE  Shows(f, w[m], q)
      <3>1. Covered(m - 1, q) \/ (a < q /\ q <= b)
        <4>1. CASE q <= front
          BY <4>1
        <4>2. CASE \E i \in 1..m : p + locals[i].at < q /\ q <= p + next[i]
          <5>1. PICK i \in 1..m : p + locals[i].at < q /\ q <= p + next[i]
            BY <4>2
          <5>2. i = m \/ i \in 1..(m - 1)
            OBVIOUS
          <5> QED
            BY <2>1, <5>1, <5>2
        <4> QED
          BY <2>6, <4>1, <4>2
      <3>2. Covered(m - 1, q) => Shows(f, w[m - 1], q)
        BY <1>3
      <3> HIDE DEF Covered
      <3> QED
        BY <2>5, <3>1, <3>2
    <2> HIDE DEF Covered
    <2> QED
      BY <2>5, <2>6
  <1> HIDE DEF Good
  <1>4. T = {}
    <2> SUFFICES ASSUME T # {} PROVE FALSE
      OBVIOUS
    <2>1. PICK m \in T : \A k \in T : m <= k
      <3>1. T \subseteq Nat
        OBVIOUS
      <3> HIDE DEF T
      <3> QED
        BY <3>1, LeastExists
    <2>2. m \in Nat /\ m <= n /\ ~Good(m)
      BY <2>1
    <2>3. m # 0
      BY <1>2, <2>2
    <2>4. m \in 1..n /\ m - 1 \in Nat /\ m - 1 <= n /\ ~(m <= m - 1)
      BY <2>2, <2>3
    <2>5. Good(m - 1)
      BY <2>1, <2>4
    <2> QED
      BY <1>3, <2>2, <2>4, <2>5
  <1>5. Good(n)
    <2>1. n \notin T /\ n <= n
      BY <1>4
    <2> QED
      BY <2>1
  <1>6. ASSUME NEW q \in 1..cd
        PROVE  Covered(n, q)
    <2>1. CASE q <= front
      BY <2>1
    <2>2. CASE ~(q <= front)
      <3>1. locals # <<>>
        BY <1>0, <2>2 DEF Tiles
      <3>2. q \in (front + 1)..cd
        BY <1>0, <2>2
      <3>3. \E i \in DOMAIN locals : p + locals[i].at < q /\ q <= p + next[i]
        BY <3>1, <3>2 DEF Tiles
      <3> QED
        BY <3>3
    <2> QED
      BY <2>1, <2>2
  <1>7. \A q \in 1..cd : q \in 1..Len(f)
    BY <1>0
  <1>8. Partial(f, w[n]) /\ \A q \in 1..cd : Shows(f, w[n], q)
    <2> HIDE DEF Covered
    <2> QED
      BY <1>5, <1>6, <1>7 DEF Good
  <1> QED
    BY <1>8 DEF WriteSlots, w

\* With the tail behind them that is the whole file.
LEMMA TailCompletes ==
  ASSUME NEW f, IsFile(f), NEW cd \in Nat, cd < Len(f), NEW file, Partial(f, file),
         \A q \in 1..cd : Shows(f, file, q)
  PROVE  /\ Len(From(f, cd)) = Len(f) - cd /\ Len(f) - Len(From(f, cd)) = cd
         /\ SetLen(WriteAt(file, cd, From(f, cd)), Len(f)) = f
  <1>1. PICK n \in Nat : n = Len(f) /\ cd <= n /\ n <= Len(f)
    BY DEF IsFile
  <1>2. f \in Seq(ToSet(f)) /\ f = [q \in 1..n |-> f[q]]
    BY <1>1 DEF IsFile
  <1>3. PICK tail : tail = Slice(f, cd, n)
    OBVIOUS
  <1>4. tail = From(f, cd)
    BY <1>1, <1>3, FromIsSlice
  <1>5. tail \in Seq(ToSet(f)) /\ Len(tail) = n - cd /\ \A q \in 1..(n - cd) : tail[q] = f[cd + q]
    <2>1. IsPart(ToSet(f), f, cd, n, tail)
      BY <1>1, <1>2, <1>3, PartIsThere
    <2> QED
      BY <2>1 DEF IsPart
  <1>6. PICK new : new = WriteAt(file, cd, Slice(f, cd, n))
    OBVIOUS
  <1>7. Partial(f, new)
        /\ \A q \in 1..Len(f) : Shows(f, file, q) \/ (cd < q /\ q <= n) => Shows(f, new, q)
    BY <1>1, <1>6, PartIsWritten, ZenonT(30)
  <1>8. ASSUME NEW q \in 1..n
        PROVE  q <= Len(new) /\ new[q] = f[q]
    <2>1. q \in 1..cd \/ (cd < q /\ q <= n)
      BY <1>1
    <2> QED
      BY <1>1, <1>7, <2>1 DEF Shows
  <1>9. SetLen(new, n) = [q \in 1..n |-> f[q]]
    BY <1>8 DEF SetLen
  <1>10. Len(From(f, cd)) = Len(f) - cd /\ Len(f) - (Len(f) - cd) = cd
    BY <1>1, <1>4, <1>5
  <1>11. SetLen(WriteAt(file, cd, From(f, cd)), Len(f)) = f
    BY <1>1, <1>2, <1>3, <1>4, <1>6, <1>9
  <1> QED
    BY <1>10, <1>11

-----------------------------------------------------------------------------
(* The data of a slot, made again from the blobs.                          *)

\* A codec that match_deflate finds gives the stream that was asked for.
LEMMA MatchReproduces ==
  ASSUME NEW content, NEW want, NEW hint, match_deflate(content, want, hint) # None
  PROVE  encode_codec(match_deflate(content, want, hint)[1], content) = want
  <1> DEFINE with(lib, levels) == [i \in DOMAIN levels |-> <<lib, levels[i]>>]
             zlib == with("zlib", HintFirst(hint, ZlibLevels))
             flate2 == with("flate2", trial_levels(hint))
             trials == zlib \o flate2 \o <<StoredCodec>>
             hits == {i \in DOMAIN trials : encode_codec(trials[i], content) = want}
  <1>1. match_deflate(content, want, hint) = IF hits = {} THEN None ELSE Some(trials[Min(hits)])
    <2> HIDE DEF hits
    <2> QED
      BY DEF match_deflate, hits
  <1>2. ASSUME NEW lib, NEW levels, NEW n \in Nat, DOMAIN levels = 1..n
        PROVE  with(lib, levels) \in Seq({with(lib, levels)[i] : i \in 1..n})
    BY <1>2
  <1>3. ASSUME NEW n \in Nat, NEW levels, NEW E, levels \in Seq(E)
        PROVE  \E m \in Nat : DOMAIN HintFirst(hint, levels) = 1..m
    <2>1. <<gpbf_deflate_hint(hint)>> \in Seq(E \union {gpbf_deflate_hint(hint)})
          /\ levels \in Seq(E \union {gpbf_deflate_hint(hint)})
      BY <1>3, SeqMonotonic
    <2>2. HintFirst(hint, levels) \in Seq(E \union {gpbf_deflate_hint(hint)})
      BY <2>1, ConcatProperties DEF HintFirst
    <2> QED
      BY <2>2
  <1>4. /\ \E m \in Nat : DOMAIN HintFirst(hint, ZlibLevels) = 1..m
        /\ \E m \in Nat : DOMAIN trial_levels(hint) = 1..m
    <2>1. ZlibLevels \in Seq(Nat) /\ <<6, 9, 1>> \in Seq(Nat)
      BY DEF ZlibLevels
    <2> QED
      BY <1>3, <2>1 DEF trial_levels
  <1>5. \E E : zlib \in Seq(E) /\ flate2 \in Seq(E) /\ <<StoredCodec>> \in Seq(E)
    <2>1. \E A : zlib \in Seq(A)
      <3>1. PICK m \in Nat : DOMAIN HintFirst(hint, ZlibLevels) = 1..m
        BY <1>4
      <3> HIDE DEF with
      <3>2. with("zlib", HintFirst(hint, ZlibLevels))
              \in Seq({with("zlib", HintFirst(hint, ZlibLevels))[i] : i \in 1..m})
        BY <1>2, <3>1
      <3> QED
        BY <3>2
    <2>2. \E B : flate2 \in Seq(B)
      <3>1. PICK m \in Nat : DOMAIN trial_levels(hint) = 1..m
        BY <1>4
      <3> HIDE DEF with
      <3>2. with("flate2", trial_levels(hint))
              \in Seq({with("flate2", trial_levels(hint))[i] : i \in 1..m})
        BY <1>2, <3>1
      <3> QED
        BY <3>2
    <2> HIDE DEF zlib, flate2
    <2>3. PICK A, B : zlib \in Seq(A) /\ flate2 \in Seq(B)
      BY <2>1, <2>2
    <2> DEFINE E == A \union B \union {StoredCodec}
    <2>4. zlib \in Seq(E) /\ flate2 \in Seq(E)
      BY <2>3, SeqMonotonic
    <2>5. <<StoredCodec>> \in Seq(E)
      <3>1. StoredCodec \in E
        OBVIOUS
      <3> HIDE DEF E
      <3> QED
        BY <3>1
    <2> HIDE DEF E
    <2> QED
      BY <2>4, <2>5
  <1> HIDE DEF zlib, flate2
  <1>6. \E n \in Nat : DOMAIN trials = 1..n
    <2>1. PICK E : zlib \in Seq(E) /\ flate2 \in Seq(E) /\ <<StoredCodec>> \in Seq(E)
      BY <1>5
    <2>2. zlib \o flate2 \in Seq(E)
      BY <2>1, ConcatProperties
    <2>3. PICK s \in Seq(E) : s = zlib \o flate2
      BY <2>2
    <2>4. s \o <<StoredCodec>> \in Seq(E)
      BY <2>1, ConcatProperties
    <2> QED
      BY <2>3, <2>4
  <1> HIDE DEF trials
  <1>7. hits \subseteq Nat
    BY <1>6
  <1>8. hits # {}
    <2> HIDE DEF hits
    <2> QED
      BY <1>1
  <1>9. Min(hits) \in hits
    <2> HIDE DEF hits
    <2> QED
      BY <1>7, <1>8, LeastIsMember
  <1>10. encode_codec(trials[Min(hits)], content) = want
    BY <1>9
  <1> HIDE DEF hits
  <1> QED
    BY <1>1, <1>8, <1>10 DEF Some

\* What the scan knows of a member whose stored bytes are cdata.
Stored(meta, payload, cdata) ==
  /\ \E E : cdata \in Seq(E)
  /\ meta.comp = Len(cdata)
  /\ cdata # <<>> => IsCell(cdata[1])
  /\ meta.is_dir => payload = <<>>
  /\ ~meta.is_dir =>
       /\ IF meta.method = 0 THEN payload = cdata ELSE inflate(cdata) = Some(payload)
       /\ payload = meta.crc

\* What is inflated is a sequence, and it has no length only if it is empty.
LEMMA InflatedIsPayload ==
  ASSUME NEW cdata, NEW E, cdata \in Seq(E), cdata # <<>> => IsCell(cdata[1]), inflate(cdata) # None,
         Len(inflate(cdata)[1]) = 0
  PROVE  inflate(cdata)[1] = <<>>
  <1>1. Len(cdata) > 0 /\ cdata[1].t = "z" /\ inflate(cdata)[1] = cdata[1].of
    BY DEF inflate, Some
  <1>2. cdata # <<>>
    BY <1>1
  <1>3. cdata[1].of \in Seq(ToSet(cdata[1].of))
    BY <1>1, <1>2 DEF IsCell
  <1> QED
    BY <1>1, <1>3, EmptySeq

\* The entry dehydrate makes of a member that is not taken apart.
FilledFrom(meta, payload, local, prefix, filled) ==
  \E e : /\ e = entry_from_scan(meta, IF meta.is_dir THEN None ELSE Some(payload))
         /\ filled = fill_exact_entry(e, local, prefix, classify_local(e, local))

\* A slot of class exact gives its stored bytes again.
LEMMA SlotReproduces ==
  ASSUME NEW meta, NEW payload, NEW local, Stored(meta, payload, local.cdata),
         NEW filled, NEW prefix, FilledFrom(meta, payload, local, prefix, filled),
         can_exact_cdata(filled), NEW store, PartReadable(filled.blob, store)
  PROVE  resolve_slot_cdata(filled, store, FALSE) = Some(local.cdata)
  <1>0. PICK e : /\ e = entry_from_scan(meta, IF meta.is_dir THEN None ELSE Some(payload))
                 /\ filled = fill_exact_entry(e, local, prefix, classify_local(e, local))
    BY DEF FilledFrom
  <1> DEFINE class == classify_local(e, local)
             cdata == local.cdata
             plain == inflate(cdata)
             hit == match_deflate(plain[1], cdata, local.header.hint)
  <1>1. /\ e.is_dir = meta.is_dir /\ e.crc = meta.crc /\ e.method = meta.method /\ e.uncomp = meta.uncomp
        /\ e.comp = meta.comp /\ e.blob = (IF meta.is_dir THEN None ELSE Some(payload))
        /\ e.zip_index = None /\ e.codec = None /\ DOMAIN e = EntryFields
    BY <1>0 DEF entry_from_scan, EntryFields
  <1>2. /\ filled.is_dir = e.is_dir /\ filled.method = e.method /\ filled.uncomp = e.uncomp
        /\ filled.comp = e.comp /\ filled.blob = e.blob /\ filled.zip_index = None
        /\ filled.codec = class.codec
    <2> HIDE DEF class
    <2>1. filled = fill_exact_entry(e, local, prefix, class)
      BY <1>0 DEF class
    <2> QED
      BY <1>1, <2>1 DEF fill_exact_entry, EntryFields
  <1>3. get_blob(filled.blob, store) = filled.blob
    BY GetBlobFinds
  <1> HIDE DEF class
  <1>4. CASE filled.codec # None
    <2>1. /\ class = Class("DeflateHit", hit) /\ hit # None /\ plain # None
          /\ e.method = 8 /\ (e.is_dir => e.uncomp = 0) /\ Len(plain[1]) = e.uncomp
      <3> HIDE DEF hit, plain
      <3>1. class.codec # None
        BY <1>2, <1>4
      <3>2. class = IF e.zip_index # None THEN Class("ZipIndex", None)
                    ELSE IF e.is_dir /\ cdata = <<>> THEN Class("EmptyDir", None)
                    ELSE IF e.is_dir /\ (e.uncomp # 0 \/ e.method # 8) THEN Class("Unreproducible", None)
                    ELSE IF ~e.is_dir /\ e.method = 0
                    THEN Class(IF e.blob = Some(cdata) THEN "Store" ELSE "Unreproducible", None)
                    ELSE IF e.method # 8 \/ plain = None THEN Class("Unreproducible", None)
                    ELSE IF Len(plain[1]) # e.uncomp \/ Crc(plain[1]) # e.crc
                    THEN Class("Unreproducible", None)
                    ELSE IF hit = None THEN Class("DeflateMiss", None) ELSE Class("DeflateHit", hit)
        BY DEF class, classify_local, hit, plain
      <3> QED
        BY <3>1, <3>2 DEF Class
    <2>2. encode_codec(hit[1], plain[1]) = cdata
      BY <2>1, MatchReproduces
    <2> DEFINE content == IF filled.is_dir /\ filled.blob = None THEN Some(<<>>)
                          ELSE get_blob(filled.blob, store)
    <2>3. content = Some(plain[1])
      <3>1. CASE meta.is_dir
        <4>1. content = Some(<<>>)
          BY <1>1, <1>2, <3>1
        <4>2. Len(plain[1]) = 0
          BY <1>1, <2>1, <3>1
        <4>3. plain[1] = <<>>
          BY <2>1, <4>2, InflatedIsPayload DEF Stored
        <4> QED
          BY <4>1, <4>3
      <3>2. CASE ~meta.is_dir
        <4>1. content = Some(payload)
          BY <1>1, <1>2, <1>3, <3>2
        <4>2. plain = Some(payload)
          BY <1>1, <2>1, <3>2 DEF Stored
        <4> QED
          BY <4>1, <4>2 DEF Some
      <3> QED
        BY <3>1, <3>2
    <2>4. Len(cdata) = filled.comp
      BY <1>1, <1>2 DEF Stored
    <2>5. filled.codec = hit
      BY <1>2, <2>1 DEF Class
    <2>6. resolve_slot_cdata(filled, store, FALSE)
            = IF content = None THEN None
              ELSE IF Len(encode_codec(filled.codec[1], content[1])) # filled.comp THEN None
              ELSE Some(encode_codec(filled.codec[1], content[1]))
      BY <1>2, <1>4 DEF resolve_slot_cdata
    <2> HIDE DEF content, plain, hit
    <2> QED
      BY <2>2, <2>3, <2>4, <2>5, <2>6 DEF Some, None
  <1>5. CASE filled.codec = None
    <2>1. CASE meta.is_dir
      <3>1. Len(cdata) = 0
        BY <1>1, <1>2, <1>5, <2>1 DEF can_exact_cdata, Stored
      <3>2. cdata = <<>>
        BY <3>1, EmptySeq DEF Stored
      <3> QED
        BY <1>1, <1>2, <1>5, <2>1, <3>2 DEF resolve_slot_cdata
    <2>2. CASE ~meta.is_dir
      <3>1. filled.method = 0 /\ payload = cdata
        BY <1>1, <1>2, <1>5, <2>2 DEF can_exact_cdata, Stored
      <3> QED
        BY <1>1, <1>2, <1>3, <1>5, <2>2, <3>1 DEF resolve_slot_cdata
    <2> QED
      BY <2>1, <2>2
  <1> QED
    BY <1>4, <1>5

-----------------------------------------------------------------------------
(* The rest of a slot, read back from the entry and its blobs.             *)

\* Header, descriptor, pad and place of a slot are those of its local.
LEMMA PartsReadBack ==
  ASSUME NEW e, DOMAIN e = EntryFields, NEW local, NEW prefix, NEW class,
         NEW filled, filled = fill_exact_entry(e, local, prefix, class),
         NEW E, local.pad \in Seq(E),
         NEW store, PartReadable(filled.header_blob, store), PartReadable(filled.pad_blob, store)
  PROVE  /\ load_header(filled, store) = Some(<<local.header>>)
         /\ PadOf(filled, store) = Some(local.pad)
         /\ filled.desc = local.desc
         /\ slot_start(filled, prefix) = prefix + local.at
  <1> DEFINE long == local.header.name \in LongNames
             zeros == local.pad # <<>> /\ \A i \in DOMAIN local.pad : local.pad[i] = Zero
  <1>1. /\ filled.header_hex = (IF long THEN None ELSE Some(<<local.header>>))
        /\ filled.header_blob = (IF long THEN Some(<<local.header>>) ELSE None)
        /\ filled.pad_zeros = (IF zeros THEN Some(Len(local.pad)) ELSE None)
        /\ filled.pad_blob = (IF zeros THEN None ELSE SomeUnlessEmpty(local.pad))
        /\ filled.desc = local.desc
        /\ filled.offsetheader = Some(prefix + local.at)
    <2> HIDE DEF long, zeros
    <2> QED
      BY DEF fill_exact_entry, EntryFields, long, zeros
  <1>2. load_header(filled, store) = Some(<<local.header>>)
    <2>1. get_blob(filled.header_blob, store) = filled.header_blob
      BY GetBlobFinds
    <2> HIDE DEF long, zeros
    <2> QED
      BY <1>1, <2>1 DEF load_header, Some, None
  <1>3. PadOf(filled, store) = Some(local.pad)
    <2>1. get_blob(filled.pad_blob, store) = filled.pad_blob
      BY GetBlobFinds
    <2>2. CASE zeros
      <3>1. Repeat(Zero, Len(local.pad)) = local.pad
        <4>1. local.pad = [i \in 1..Len(local.pad) |-> local.pad[i]]
              /\ DOMAIN local.pad = 1..Len(local.pad)
          OBVIOUS
        <4> QED
          BY <2>2, <4>1 DEF Repeat
      <3>2. filled.pad_zeros = Some(Len(local.pad))
        BY <1>1, <2>2
      <3> HIDE DEF zeros
      <3> QED
        BY <3>1, <3>2 DEF PadOf, Some, None
    <2>3. CASE ~zeros
      <3> HIDE DEF zeros, long
      <3>1. filled.pad_zeros = None /\ filled.pad_blob = SomeUnlessEmpty(local.pad)
        BY <1>1, <2>3
      <3> QED
        BY <2>1, <3>1 DEF PadOf, SomeUnlessEmpty, Some, None
    <2> QED
      BY <2>2, <2>3
  <1>4. slot_start(filled, prefix) = prefix + local.at
    <2> HIDE DEF long, zeros
    <2> QED
      BY <1>1 DEF slot_start, Some, None
  <1> QED
    BY <1>1, <1>2, <1>3, <1>4

-----------------------------------------------------------------------------
(* What the listing says of the stored bytes of a member.                  *)

\* The listing, member by member.
LEMMA ScanReads ==
  ASSUME NEW f, Scan(f, FALSE) # None
  PROVE  LET layout == detect_zip_layout(f)[1]
             archive == ZipArchive(f, layout.view_shift)[1]
             scanned == Scan(f, FALSE)[1]
         IN /\ scanned.prefix = Slice(f, 0, layout.prefix_len)
            /\ DOMAIN scanned.entries = DOMAIN archive.entries
            /\ \A i \in DOMAIN archive.entries :
                 /\ scanned.entries[i] = ScannedEntry(archive.entries[i])
                 /\ scanned.entries[i].is_dir => scanned.payload[i] = <<>>
                 /\ ~scanned.entries[i].is_dir =>
                      ReadEntry(archive, i) # None /\ scanned.payload[i] = ReadEntry(archive, i)[1]
  <1> DEFINE layout == detect_zip_layout(f)[1]
             archive == ZipArchive(f, layout.view_shift)[1]
             content(i) == IF is_dir(archive.entries[i].name) THEN Some(<<>>)
                           ELSE ReadEntry(archive, i)
             scanned == Scan(f, FALSE)[1]
  <1>1. /\ \A i \in DOMAIN archive.entries : content(i) # None
        /\ scanned.prefix = Slice(f, 0, layout.prefix_len)
        /\ scanned.entries = [i \in DOMAIN archive.entries |-> ScannedEntry(archive.entries[i])]
        /\ scanned.payload = [i \in DOMAIN archive.entries |-> content(i)[1]]
    BY DEF Scan, AndThen, Some, None
  <1>2. ASSUME NEW i \in DOMAIN archive.entries
        PROVE  /\ scanned.entries[i] = ScannedEntry(archive.entries[i])
               /\ scanned.entries[i].is_dir => scanned.payload[i] = <<>>
               /\ ~scanned.entries[i].is_dir =>
                    ReadEntry(archive, i) # None /\ scanned.payload[i] = ReadEntry(archive, i)[1]
    <2>1. /\ scanned.entries[i] = ScannedEntry(archive.entries[i])
          /\ scanned.payload[i] = content(i)[1] /\ content(i) # None
      BY <1>1
    <2>2. scanned.entries[i].is_dir = is_dir(archive.entries[i].name)
      <3> HIDE DEF archive, scanned
      <3> QED
        BY <2>1 DEF ScannedEntry
    <2> HIDE DEF archive, scanned
    <2> QED
      BY <2>1, <2>2 DEF Some
  <1>3. DOMAIN scanned.entries = DOMAIN archive.entries
    BY <1>1
  <1> HIDE DEF content
  <1> QED
    BY <1>1, <1>2, <1>3

\* The stored bytes of a member, in the archive and in the file.
LEMMA StoredCells ==
  ASSUME NEW f, IsFile(f), NEW s \in Nat, s < Len(f), NEW c \in Nat, NEW d \in Nat, c <= d,
         NEW a, a = s + c, NEW b, b = s + d, b <= Len(f)
  PROVE  /\ IsFile(Slice(f, a, b)) /\ Len(Slice(f, a, b)) = d - c
         /\ Slice(Slice(f, s, Len(f)), c, d) = Slice(f, a, b)
  <1>1. PICK n : n = Len(f)
    OBVIOUS
  <1>2. n \in Nat /\ f \in Seq(ToSet(f))
    BY <1>1 DEF IsFile
  <1>3. /\ s \in Nat /\ c \in Nat /\ d \in Nat /\ n \in Nat /\ c <= d /\ d <= n - s
        /\ s <= n /\ n <= Len(f)
    BY <1>1, <1>2
  <1>4. Slice(Slice(f, s, n), c, d) = Slice(f, s + c, s + d)
    BY <1>2, <1>3, SliceOfSlice
  <1>5. a \in Nat /\ b \in Nat /\ a <= b /\ b <= Len(f)
    BY <1>1
  <1>6. IsFile(Slice(f, a, b)) /\ Len(Slice(f, a, b)) = b - a
    BY <1>5, SliceIsFile
  <1> QED
    BY <1>1, <1>4, <1>6

\* The content of a member is that of its stored bytes.
LEMMA MemberIsStored ==
  ASSUME NEW f, IsFile(f), NEW layout, LayoutIsTyped(layout), NEW archive,
         archive.view = Slice(f, layout.view_shift, Len(f)), layout.view_shift < Len(f),
         NEW i, NEW len, EntryIsTyped(archive.entries[i], len),
         layout.view_shift + archive.entries[i].start + 1 + archive.entries[i].comp <= Len(f),
         NEW cdata, cdata = Slice(f, layout.view_shift + archive.entries[i].start + 1,
                                  layout.view_shift + archive.entries[i].start + 1
                                    + archive.entries[i].comp),
         NEW meta, meta = ScannedEntry(archive.entries[i]), NEW payload,
         meta.is_dir => payload = <<>>,
         ~meta.is_dir => ReadEntry(archive, i) # None /\ payload = ReadEntry(archive, i)[1]
  PROVE  Stored(meta, payload, cdata)
  <1> DEFINE e == archive.entries[i]
             stored == Slice(archive.view, e.start + 1, e.start + 1 + e.comp)
  <1>1. PICK s, start, comp : /\ s = layout.view_shift /\ start = archive.entries[i].start
                              /\ comp = archive.entries[i].comp
    OBVIOUS
  <1>2. s \in Nat /\ start \in Nat /\ comp \in Nat /\ s < Len(f) /\ s + start + 1 + comp <= Len(f)
    BY <1>1 DEF LayoutIsTyped, EntryIsTyped
  <1>3. PICK c, d, a, b : c = start + 1 /\ d = start + 1 + comp /\ a = s + c /\ b = s + d
    OBVIOUS
  <1>4. PICK v : v = Slice(f, a, b)
    OBVIOUS
  <1>5. /\ IsFile(v) /\ Len(v) = comp
        /\ cdata = v /\ stored = v /\ e.comp = Len(v)
    <2>1. /\ IsFile(f) /\ s \in Nat /\ s < Len(f) /\ c \in Nat /\ d \in Nat /\ c <= d
          /\ a = s + c /\ b = s + d /\ b <= Len(f)
      BY <1>2, <1>3
    <2>2. /\ IsFile(Slice(f, a, b)) /\ Len(Slice(f, a, b)) = d - c
          /\ Slice(Slice(f, s, Len(f)), c, d) = Slice(f, a, b)
      BY <2>1, StoredCells
    <2>3. d - c = comp /\ a = s + start + 1 /\ b = s + start + 1 + comp
      BY <1>2, <1>3
    <2>4. stored = Slice(Slice(f, s, Len(f)), c, d) /\ e.comp = comp
      BY <1>1, <1>3
    <2>5. cdata = Slice(f, a, b)
      BY <1>1, <2>3
    <2> HIDE DEF stored, e
    <2> QED
      BY <1>4, <2>2, <2>3, <2>4, <2>5
  <1>6. ASSUME ~meta.is_dir
        PROVE  /\ IF meta.method = 0 THEN payload = v ELSE inflate(v) = Some(payload)
               /\ payload = meta.crc
    <2>1. ReadEntry(archive, i) # None /\ payload = ReadEntry(archive, i)[1]
      BY <1>6
    <2>2. meta.method = e.method /\ meta.crc = e.crc
      BY DEF ScannedEntry
    <2> DEFINE content == IF e.method = 0 THEN Some(stored) ELSE inflate(stored)
    <2>3. ReadEntry(archive, i) = content /\ content # None /\ content[1] = e.crc
      <3> HIDE DEF content
      <3>1. ReadEntry(archive, i)
              = IF content # None /\ Crc(content[1]) = e.crc /\ Len(content[1]) = e.uncomp
                THEN content ELSE None
        BY DEF ReadEntry, content
      <3> HIDE DEF e
      <3> QED
        BY <2>1, <3>1 DEF Crc
    <2> HIDE DEF stored, e
    <2>4. inflate(v) # None => inflate(v) = Some(inflate(v)[1])
      BY DEF inflate, Some, None
    <2> QED
      BY <1>5, <2>1, <2>2, <2>3, <2>4 DEF Some
  <1>7. meta.comp = Len(v)
    BY <1>5 DEF ScannedEntry
  <1> HIDE DEF stored, e
  <1> QED
    <2>1. /\ \E E : v \in Seq(E)
          /\ v # <<>> => IsCell(v[1])
      <3>1. v \in Seq(ToSet(v)) /\ \A k \in DOMAIN v : IsCell(v[k])
        BY <1>5 DEF IsFile
      <3>2. v # <<>> => 1 \in DOMAIN v
        BY <3>1, EmptySeq
      <3> QED
        BY <3>1, <3>2
    <2> QED
      BY <1>5, <1>6, <1>7, <2>1 DEF Stored

-----------------------------------------------------------------------------
(* The data of a slot of the jar: a stream made again, a stored content,   *)
(* or a nested ZIP put together.                                           *)

\* An entry of a listing holds its content, or names the index it became,
\* and has the size of the member's stored bytes.
EntryAsScanned(meta, payload, nested, e) ==
  /\ e.comp = meta.comp
  /\ \/ e = entry_from_scan(meta, IF meta.is_dir THEN None ELSE Some(payload))
     \/ /\ ~meta.is_dir /\ probe_explode(meta, payload) # None
        /\ DOMAIN e = EntryFields /\ e.blob = None /\ e.zip_index # None
        /\ e.uncomp = Len(payload)
        /\ e.zip_index[1] \in DOMAIN nested
        /\ nested[e.zip_index[1]] = probe_explode(meta, payload)[1]

LEMMA EntryOfScan ==
  ASSUME NEW f, NEW scanned, ScanSound(scanned), NEW i \in DOMAIN scanned.entries
  PROVE  EntryAsScanned(scanned.entries[i], scanned.payload[i], JarOfScan(f, scanned).nested,
                        JarOfScan(f, scanned).entries[i])
  <1> DEFINE metas == scanned.entries
             exploded == [k \in DOMAIN metas |->
                            IF metas[k].is_dir THEN None ELSE probe_explode(metas[k], scanned.payload[k])]
             taken == {k \in DOMAIN exploded : exploded[k] # None}
             plain == entry_from_scan(metas[i], IF metas[i].is_dir THEN None
                                                ELSE Some(scanned.payload[i]))
             apart == [entry_from_scan(metas[i], None) EXCEPT !.zip_index = Some(UpTo(taken, i))]
             j == JarOfScan(f, scanned)
  <1>1. PICK n \in Nat : DOMAIN metas = 1..n
    BY DEF ScanSound
  <1>2. taken \in SUBSET (1..n)
    BY <1>1
  <1>3. exploded[i] = IF metas[i].is_dir THEN None ELSE probe_explode(metas[i], scanned.payload[i])
    OBVIOUS
  <1>4. j.nested = [k \in 1..Cardinality(taken) |-> exploded[Nth(taken, k)][1]]
    BY DEF JarOfScan, JarOf
  <1>5. j.entries[i] = IF metas[i].is_dir THEN entry_from_scan(metas[i], None)
                       ELSE IF exploded[i] = None
                       THEN entry_from_scan(metas[i], Some(scanned.payload[i]))
                       ELSE apart
    BY DEF JarOfScan, JarOf
  <1>6. exploded[i] # None => i \in taken
    OBVIOUS
  <1> HIDE DEF j
  <1>7. CASE metas[i].is_dir \/ exploded[i] = None
    <2>1. j.entries[i] = plain
      <3> HIDE DEF exploded, apart, metas
      <3> QED
        BY <1>5, <1>7
    <2>2. plain.comp = metas[i].comp
      BY DEF entry_from_scan
    <2> QED
      BY <2>1, <2>2 DEF j, EntryAsScanned
  <1>8. CASE ~metas[i].is_dir /\ exploded[i] # None
    <2>1. j.entries[i] = apart /\ i \in taken /\ exploded[i] = probe_explode(metas[i], scanned.payload[i])
      <3> HIDE DEF exploded, apart, metas, taken
      <3> QED
        BY <1>3, <1>5, <1>6, <1>8
    <2> HIDE DEF exploded, taken
    <2>2. UpTo(taken, i) \in 1..Cardinality(taken) /\ Nth(taken, UpTo(taken, i)) = i
      BY <1>2, <2>1, NthOfPosition
    <2>3. /\ DOMAIN apart = EntryFields /\ apart.blob = None
          /\ apart.zip_index = Some(UpTo(taken, i)) /\ apart.uncomp = metas[i].uncomp
          /\ apart.comp = metas[i].comp
      BY DEF entry_from_scan, EntryFields
    <2>4. metas[i].uncomp = Len(scanned.payload[i])
      BY <1>8 DEF ScanSound
    <2> HIDE DEF apart, metas
    <2>5. UpTo(taken, i) \in DOMAIN j.nested /\ j.nested[UpTo(taken, i)] = exploded[i][1]
      BY <1>4, <2>2
    <2>6. /\ DOMAIN j.entries[i] = EntryFields /\ j.entries[i].blob = None
          /\ j.entries[i].zip_index = Some(UpTo(taken, i))
          /\ j.entries[i].uncomp = Len(scanned.payload[i]) /\ j.entries[i].comp = metas[i].comp
      BY <2>1, <2>3, <2>4
    <2>7. j.entries[i].zip_index # None /\ j.entries[i].zip_index[1] = UpTo(taken, i)
      BY <2>6 DEF Some, None
    <2>8. ~metas[i].is_dir /\ probe_explode(metas[i], scanned.payload[i]) # None
      BY <1>8, <2>1
    <2> QED
      BY <2>1, <2>5, <2>6, <2>7, <2>8 DEF j, metas, EntryAsScanned
  <1> QED
    BY <1>7, <1>8

\* The i-th entry of a listing, filled from the local that was cut for it.
Refilled(listed, i, local, prefix, filled) ==
  filled = fill_exact_entry(listed.entries[i], local, prefix, classify_local(listed.entries[i], local))

\* Every slot of class exact gives the stored bytes of its member,
LEMMA SlotOfJarReproduces ==
  ASSUME NEW f, NEW scanned, ScanSound(scanned), NEW i \in DOMAIN scanned.entries,
         NEW local, Stored(scanned.entries[i], scanned.payload[i], local.cdata),
         NEW filled, NEW prefix, Refilled(JarOfScan(f, scanned), i, local, prefix, filled),
         NEW j, j.nested = JarOfScan(f, scanned).nested, slot_exact(j, filled),
         NEW store, PartReadable(filled.blob, store),
         \A k \in DOMAIN j.nested : HasParts(j.nested[k], store)
  PROVE  /\ resolve_cdata(j, filled, store, FALSE) = Some(local.cdata)
         /\ DOMAIN JarOfScan(f, scanned).entries[i] = EntryFields
  <1>0. PICK e : /\ e = JarOfScan(f, scanned).entries[i]
                 /\ filled = fill_exact_entry(e, local, prefix, classify_local(e, local))
    BY DEF Refilled
  <1> DEFINE meta == scanned.entries[i]
             payload == scanned.payload[i]
             index == probe_explode(meta, payload)[1]
  <1>1. ASSUME e = entry_from_scan(meta, IF meta.is_dir THEN None ELSE Some(payload))
        PROVE  resolve_cdata(j, filled, store, FALSE) = Some(local.cdata) /\ DOMAIN e = EntryFields
    <2> HIDE DEF meta, payload
    <2>0. DOMAIN e = EntryFields /\ e.zip_index = None
      BY <1>1 DEF entry_from_scan, EntryFields
    <2>1. DOMAIN e = EntryFields /\ filled.zip_index = None
      BY <1>0, <2>0 DEF EntryFields, fill_exact_entry
    <2>2. can_exact_cdata(filled)
      BY <2>1 DEF slot_exact
    <2>3. Stored(meta, payload, local.cdata)
      BY DEF meta, payload
    <2>4. resolve_slot_cdata(filled, store, FALSE) = Some(local.cdata)
      <3>1. FilledFrom(meta, payload, local, prefix, filled)
        BY <1>0, <1>1 DEF FilledFrom
      <3> QED
        BY <2>2, <2>3, <3>1, SlotReproduces
    <2> QED
      BY <2>1, <2>4 DEF resolve_cdata
  <1>2. ASSUME ~meta.is_dir /\ probe_explode(meta, payload) # None,
               DOMAIN e = EntryFields /\ e.blob = None /\ e.zip_index # None,
               e.uncomp = Len(payload),
               e.zip_index[1] \in DOMAIN j.nested, j.nested[e.zip_index[1]] = index
        PROVE  resolve_cdata(j, filled, store, FALSE) = Some(local.cdata) /\ DOMAIN e = EntryFields
    <2>1. filled.zip_index = e.zip_index /\ filled.blob = None /\ filled.uncomp = Len(payload)
      BY <1>0, <1>2 DEF fill_exact_entry, EntryFields
    <2>2. /\ NestedSound(index)
          /\ reconstruct_child_zip(index, Len(payload), StencilBlobs(index)) = Some(payload)
      <3> HIDE DEF meta, payload
      <3> QED
        BY <1>2, ProbeIsSound
    <2>3. HasParts(index, StencilBlobs(index))
      BY <2>2, StencilBlobsAreIn DEF NestedSound
    <2>4. HasParts(index, store)
      BY <1>2
    <2> HIDE DEF index
    <2>5. reconstruct_child_zip(index, Len(payload), store) = Some(payload)
      BY <2>2, <2>3, <2>4, ChildIsTheSame
    <2>6. payload = local.cdata
      <3>1. meta.method = 0
        <4> HIDE DEF meta, payload
        <4> QED
          BY <1>2 DEF probe_explode, None
      <3> QED
        BY <1>2, <3>1 DEF Stored
    <2> HIDE DEF meta, payload
    <2>7. resolve_cdata(j, filled, store, FALSE)
            = reconstruct_child_zip(j.nested[filled.zip_index[1]], filled.uncomp, store)
      BY <1>2, <2>1 DEF resolve_cdata, read_entry_content
    <2> QED
      BY <1>2, <2>1, <2>5, <2>6, <2>7
  <1>3. /\ e.comp = meta.comp
        /\ \/ e = entry_from_scan(meta, IF meta.is_dir THEN None ELSE Some(payload))
           \/ /\ ~meta.is_dir /\ probe_explode(meta, payload) # None
              /\ DOMAIN e = EntryFields /\ e.blob = None /\ e.zip_index # None
              /\ e.uncomp = Len(payload)
              /\ e.zip_index[1] \in DOMAIN j.nested
              /\ j.nested[e.zip_index[1]] = index
    <2>1. EntryAsScanned(meta, payload, j.nested, e)
      BY <1>0, EntryOfScan
    <2> HIDE DEF meta, payload
    <2> QED
      BY <2>1 DEF EntryAsScanned
  <1> QED
    BY <1>0, <1>1, <1>2, <1>3

\* and as many as the entry says.
LEMMA SlotHasItsSize ==
  ASSUME NEW f, NEW scanned, ScanSound(scanned), NEW i \in DOMAIN scanned.entries,
         NEW local, Stored(scanned.entries[i], scanned.payload[i], local.cdata),
         NEW filled, NEW prefix, Refilled(JarOfScan(f, scanned), i, local, prefix, filled),
         DOMAIN JarOfScan(f, scanned).entries[i] = EntryFields
  PROVE  filled.comp = Len(local.cdata)
  <1>1. PICK e : /\ e = JarOfScan(f, scanned).entries[i]
                 /\ filled = fill_exact_entry(e, local, prefix, classify_local(e, local))
    BY DEF Refilled
  <1>2. filled.comp = e.comp
    BY <1>1 DEF fill_exact_entry, EntryFields
  <1>3. e.comp = scanned.entries[i].comp
    <2>1. EntryAsScanned(scanned.entries[i], scanned.payload[i], JarOfScan(f, scanned).nested, e)
      BY <1>1, EntryOfScan
    <2> QED
      BY <2>1 DEF EntryAsScanned
  <1>4. scanned.entries[i].comp = Len(local.cdata)
    BY DEF Stored
  <1> QED
    BY <1>2, <1>3, <1>4

-----------------------------------------------------------------------------
(* The whole file.                                                         *)

\* The data of a cut is what the listing read.
LEMMA CutIsStored ==
  ASSUME NEW f, IsFile(f), Scan(f, FALSE) # None, NEW scanned, scanned = Scan(f, FALSE)[1],
         NEW layout, layout = detect_zip_layout(f)[1], LayoutIsTyped(layout),
         ZipArchive(f, layout.view_shift) # None,
         NEW entries, entries = ZipArchive(f, layout.view_shift)[1].entries,
         NEW slice, NEW front, NEW cd, NEW next, Cut(f, layout, entries, slice, front, cd, next),
         NEW i \in DOMAIN entries
  PROVE  Stored(scanned.entries[i], scanned.payload[i], slice.locals[i].cdata)
  <1>1. PICK archive : archive = ZipArchive(f, layout.view_shift)[1]
    OBVIOUS
  <1>2. entries = archive.entries
    BY <1>1
  <1>3. layout.view_shift \in Nat
    BY DEF LayoutIsTyped
  <1>4. /\ layout.view_shift < Len(f) /\ archive.view = Slice(f, layout.view_shift, Len(f))
        /\ EntryIsTyped(archive.entries[i], Len(f) - layout.view_shift)
    <2>1. \A k \in DOMAIN archive.entries : EntryIsTyped(archive.entries[k], Len(f) - layout.view_shift)
          /\ layout.view_shift < Len(f) /\ archive.view = Slice(f, layout.view_shift, Len(f))
      BY <1>1, <1>3, ArchiveIsTyped
    <2> QED
      BY <1>2, <2>1
  <1>5. /\ scanned.entries[i] = ScannedEntry(archive.entries[i])
        /\ scanned.entries[i].is_dir => scanned.payload[i] = <<>>
        /\ ~scanned.entries[i].is_dir =>
             ReadEntry(archive, i) # None /\ scanned.payload[i] = ReadEntry(archive, i)[1]
    <2>1. \A k \in DOMAIN archive.entries :
            /\ scanned.entries[k] = ScannedEntry(archive.entries[k])
            /\ scanned.entries[k].is_dir => scanned.payload[k] = <<>>
            /\ ~scanned.entries[k].is_dir =>
                 ReadEntry(archive, k) # None /\ scanned.payload[k] = ReadEntry(archive, k)[1]
      BY <1>1, ScanReads
    <2> QED
      BY <1>2, <2>1
  <1>6. LET data == layout.view_shift + archive.entries[i].start + 1
        IN /\ data + archive.entries[i].comp <= Len(f)
           /\ slice.locals[i].cdata = Slice(f, data, data + archive.entries[i].comp)
    BY <1>2 DEF Cut
  <1>7. PICK m, pl, cdata : m = scanned.entries[i] /\ pl = scanned.payload[i] /\ cdata = slice.locals[i].cdata
    OBVIOUS
  <1> QED
    BY <1>4, <1>5, <1>6, <1>7, MemberIsStored

\* What attach_exact adds to a jar of a listing.
AttachedTo(j, listed, slice) ==
  LET p == Len(OrEmpty(listed.prefix))
      e(i) == listed.entries[i]
  IN /\ j.prefix = listed.prefix /\ j.leading_pad = SomeUnlessEmpty(slice.leading_pad)
     /\ j.tail = slice.tail /\ j.nested = listed.nested /\ j.source = listed.source
     /\ j.entries = [i \in DOMAIN listed.entries |->
                       fill_exact_entry(e(i), slice.locals[i], p, classify_local(e(i), slice.locals[i]))]

\* A jar that is no longer what was listed has all parts of the slice.
LEMMA AttachedParts ==
  ASSUME NEW f, NEW listed, DOMAIN listed = JarFields, attach_exact(f, listed) # listed
  PROVE  /\ slice_from_reader(f) # None
         /\ AttachedTo(attach_exact(f, listed), listed, slice_from_reader(f)[1])
  <1> DEFINE slice == slice_from_reader(f)[1]
             j == attach_exact(f, listed)
             p == Len(OrEmpty(listed.prefix))
             filled(e, local) == fill_exact_entry(e, local, p, classify_local(e, local))
             full == [listed EXCEPT !.entries = [i \in DOMAIN @ |-> filled(@[i], slice.locals[i])],
                                    !.leading_pad = SomeUnlessEmpty(slice.leading_pad),
                                    !.tail = slice.tail]
  <1>1. j = listed \/ (slice_from_reader(f) # None /\ j = full)
    <2> HIDE DEF filled
    <2> QED
      BY DEF attach_exact, AndThen, OrElse, Some, None, filled
  <1>2. slice_from_reader(f) # None /\ j = full
    <2> HIDE DEF full
    <2> QED
      BY <1>1
  <1>3. /\ full.prefix = listed.prefix /\ full.leading_pad = SomeUnlessEmpty(slice.leading_pad)
        /\ full.tail = slice.tail /\ full.nested = listed.nested /\ full.source = listed.source
        /\ full.entries = [i \in DOMAIN listed.entries |-> filled(listed.entries[i], slice.locals[i])]
    <2> HIDE DEF filled, slice
    <2> QED
      BY DEF JarFields
  <1> HIDE DEF full, slice, j
  <1>4. AttachedTo(j, listed, slice)
    BY <1>2, <1>3 DEF AttachedTo
  <1> QED
    BY <1>2, <1>4 DEF j, slice

LEMMA SomeIsThere ==
  ASSUME NEW x
  PROVE  Some(x) # None /\ Some(x)[1] = x
  BY DEF Some, None

LEMMA EmptyOrThere ==
  ASSUME NEW x
  PROVE  OrEmpty(SomeUnlessEmpty(x)) = x
  BY DEF OrEmpty, SomeUnlessEmpty, Some, None

\* The jar dehydrate makes of a file that stays as it is.
MadeFrom(f, scanned, listed, j) ==
  /\ scanned = Scan(f, FALSE)[1]
  /\ listed = JarOfScan(f, scanned)
  /\ j = attach_exact(f, listed)

\* The slot of an entry is read from the store as the local that was cut.
ReadBack(j, e, store, p, local) ==
  /\ load_header(e, store) = Some(<<local.header>>)
  /\ resolve_cdata(j, e, store, FALSE) = Some(local.cdata)
  /\ PadOf(e, store) = Some(local.pad)
  /\ e.desc = local.desc
  /\ slot_start(e, p) = p + local.at
  /\ e.comp = Len(local.cdata)

\* A slot of class exact is, from a complete store.
LEMMA SlotReadsBack ==
  ASSUME NEW f, IsFile(f), Scan(f, FALSE) # None,
         NEW scanned, NEW listed, NEW j, MadeFrom(f, scanned, listed, j), ScanSound(scanned),
         slice_from_reader(f) # None, NEW slice, slice = slice_from_reader(f)[1],
         AttachedTo(j, listed, slice), NEW store, HasParts(j, store),
         \A k \in DOMAIN j.nested : HasParts(j.nested[k], store),
         NEW i \in DOMAIN scanned.entries, slot_exact(j, j.entries[i]),
         NEW p, p = Len(OrEmpty(j.prefix))
  PROVE  ReadBack(j, j.entries[i], store, p, slice.locals[i])
  <1> DEFINE e == listed.entries[i]
  <1>1. PICK layout : layout = detect_zip_layout(f)[1]
    OBVIOUS
  <1>2. PICK entries : entries = ZipArchive(f, layout.view_shift)[1].entries
    OBVIOUS
  <1>3. /\ LayoutIsTyped(layout) /\ ZipArchive(f, layout.view_shift) # None
        /\ \E front, cd, next : Cut(f, layout, entries, slice, front, cd, next)
    BY <1>1, <1>2, SliceIsCut
  <1>4. PICK front, cd, next : Cut(f, layout, entries, slice, front, cd, next)
    BY <1>3
  <1>5. scanned = Scan(f, FALSE)[1] /\ listed = JarOfScan(f, scanned)
    BY DEF MadeFrom
  <1>6. DOMAIN scanned.entries = DOMAIN entries
    BY <1>1, <1>2, <1>5, ScanReads
  <1>7. DOMAIN listed.entries = DOMAIN scanned.entries
    BY <1>5 DEF JarOfScan, JarOf
  <1>8. PICK local, filled : local = slice.locals[i] /\ filled = j.entries[i]
    OBVIOUS
  <1>9. Stored(scanned.entries[i], scanned.payload[i], local.cdata)
    BY <1>1, <1>2, <1>3, <1>4, <1>5, <1>6, <1>8, CutIsStored
  <1>10. /\ j.nested = JarOfScan(f, scanned).nested
         /\ filled = fill_exact_entry(e, local, p, classify_local(e, local))
    <2>1. /\ j.prefix = listed.prefix /\ j.nested = listed.nested
          /\ j.entries[i] = fill_exact_entry(e, slice.locals[i], Len(OrEmpty(listed.prefix)),
                                             classify_local(e, slice.locals[i]))
      BY <1>7 DEF AttachedTo
    <2> HIDE DEF e
    <2> QED
      BY <1>5, <1>8, <2>1
  <1>11. Refilled(JarOfScan(f, scanned), i, local, p, filled)
    BY <1>5, <1>10 DEF Refilled
  <1>12. \A ref \in {filled.blob, filled.header_blob, filled.pad_blob} : PartReadable(ref, store)
    <2>1. i \in DOMAIN j.entries
      BY <1>7 DEF AttachedTo
    <2> QED
      BY <1>8, <2>1 DEF HasParts
  <1>13. /\ resolve_cdata(j, filled, store, FALSE) = Some(local.cdata)
         /\ filled.comp = Len(local.cdata) /\ DOMAIN e = EntryFields
    <2>1. /\ PartReadable(filled.blob, store) /\ slot_exact(j, filled)
          /\ j.nested = JarOfScan(f, scanned).nested
          /\ \A k \in DOMAIN j.nested : HasParts(j.nested[k], store)
      BY <1>8, <1>10, <1>12
    <2>2. /\ resolve_cdata(j, filled, store, FALSE) = Some(local.cdata)
          /\ DOMAIN JarOfScan(f, scanned).entries[i] = EntryFields
      BY <1>9, <1>11, <2>1, SlotOfJarReproduces
    <2>3. filled.comp = Len(local.cdata)
      BY <1>9, <1>11, <2>2, SlotHasItsSize
    <2> QED
      BY <1>5, <2>2, <2>3
  <1>14. PICK class : filled = fill_exact_entry(e, local, p, class)
    BY <1>10
  <1>15. local.pad \in Seq(ToSet(f))
    BY <1>4, <1>6, <1>8 DEF Cut, LocalIsPart
  <1> HIDE DEF e
  <1>16. /\ load_header(filled, store) = Some(<<local.header>>)
         /\ PadOf(filled, store) = Some(local.pad)
         /\ filled.desc = local.desc
         /\ slot_start(filled, p) = p + local.at
    <2>1. DOMAIN e = EntryFields /\ PartReadable(filled.header_blob, store) /\ PartReadable(filled.pad_blob, store)
      BY <1>12, <1>13
    <2> QED
      BY <1>14, <1>15, <2>1, PartsReadBack
  <1> QED
    BY <1>8, <1>13, <1>16 DEF ReadBack

\* Its entries are numbered, as the listing is.
LEMMA MadeJarIsNumbered ==
  ASSUME NEW f, Scan(f, FALSE) # None, NEW scanned, NEW listed, NEW j, MadeFrom(f, scanned, listed, j)
  PROVE  \E n \in Nat : DOMAIN j.entries = 1..n
  <1>1. PICK n \in Nat : DOMAIN scanned.entries = 1..n
    BY ScanIsSound DEF MadeFrom, ScanSound
  <1>2. DOMAIN listed = JarFields /\ DOMAIN listed.entries = 1..n
    BY <1>1 DEF MadeFrom, JarOfScan, JarOf, JarFields
  <1>3. CASE j = listed
    BY <1>2, <1>3
  <1>4. CASE j # listed
    <2>1. AttachedTo(j, listed, slice_from_reader(f)[1])
      <3>1. attach_exact(f, listed) # listed
        BY <1>4 DEF MadeFrom
      <3>2. AttachedTo(attach_exact(f, listed), listed, slice_from_reader(f)[1])
        BY <1>2, <3>1, AttachedParts
      <3> QED
        BY <3>2 DEF MadeFrom
    <2> QED
      BY <1>2, <2>1 DEF AttachedTo
  <1> QED
    BY <1>3, <1>4

\* What was sliced and classified exact is written back as the file it was,
\* unless there are bytes no part has.
LEMMA ExactIsWhole ==
  ASSUME NEW f, IsFile(f), Scan(f, FALSE) # None,
         NEW scanned, NEW listed, NEW j, MadeFrom(f, scanned, listed, j),
         bit_identical_restore(j), NEW store, JarBlobs(j) \subseteq store,
         ~(j.entries = <<>> /\ Len(OrEmpty(j.prefix)) + Len(j.tail[1]) < Len(f))
  PROVE  write_exact_jar(j, store) = Some(f)
  <1> DEFINE cdata == [i \in DOMAIN j.entries |-> resolve_cdata(j, j.entries[i], store, FALSE)]
             headers == Headers(j.entries, store)
             pads == Pads(j.entries, store)
  <1>1. ScanSound(scanned) /\ JarSound(listed) /\ JarSound(j)
    BY ScanIsSound, ScannedJarIsSound, AttachedJarIsSound DEF MadeFrom
  <1>2. /\ DOMAIN listed = JarFields /\ listed.tail = None /\ listed.source = f
        /\ listed.prefix = SomeUnlessEmpty(scanned.prefix)
        /\ DOMAIN listed.entries = DOMAIN scanned.entries
    BY DEF MadeFrom, JarOfScan, JarOf, JarFields
  <1>3. j.tail # None
    BY DEF bit_identical_restore
  <1>4. PICK slice : slice = slice_from_reader(f)[1]
    OBVIOUS
  <1>5. /\ slice_from_reader(f) # None /\ slice.tail # None
        /\ j.prefix = listed.prefix /\ j.leading_pad = SomeUnlessEmpty(slice.leading_pad)
        /\ j.tail = slice.tail /\ j.nested = listed.nested /\ j.source = f
        /\ DOMAIN j.entries = DOMAIN listed.entries /\ j.entries = [i \in DOMAIN j.entries |-> j.entries[i]]
        /\ AttachedTo(j, listed, slice)
    <2>1. slice_from_reader(f) # None /\ AttachedTo(j, listed, slice)
      <3>1. DOMAIN listed = JarFields /\ attach_exact(f, listed) # listed
        BY <1>2, <1>3 DEF MadeFrom
      <3>2. /\ slice_from_reader(f) # None
            /\ AttachedTo(attach_exact(f, listed), listed, slice_from_reader(f)[1])
        BY <3>1, AttachedParts
      <3> QED
        BY <1>4, <3>2 DEF MadeFrom
    <2> QED
      BY <1>2, <1>3, <2>1 DEF AttachedTo
  <1>6. PICK layout : layout = detect_zip_layout(f)[1]
    OBVIOUS
  <1>7. PICK entries : entries = ZipArchive(f, layout.view_shift)[1].entries
    OBVIOUS
  <1>8. /\ LayoutIsTyped(layout) /\ ZipArchive(f, layout.view_shift) # None
        /\ \E front, cd, next : Cut(f, layout, entries, slice, front, cd, next)
    BY <1>4, <1>5, <1>6, <1>7, SliceIsCut
  <1>9. PICK front, cd, next : Cut(f, layout, entries, slice, front, cd, next)
    BY <1>8
  <1>10. scanned.prefix = Slice(f, 0, layout.prefix_len) /\ DOMAIN scanned.entries = DOMAIN entries
    BY <1>6, <1>7, ScanReads DEF MadeFrom
  <1>11. PICK n \in Nat : DOMAIN entries = 1..n
    BY <1>1, <1>10 DEF ScanSound
  <1>12. PICK p : p = layout.prefix_len
    OBVIOUS
  <1>13. /\ p \in Nat /\ front \in Nat /\ cd \in Nat /\ Len(f) \in Nat
         /\ p <= front /\ front <= cd /\ cd < Len(f)
    BY <1>8, <1>9, <1>12 DEF LayoutIsTyped, Cut, Tiles, IsFile
  <1>14. OrEmpty(j.prefix) = Slice(f, 0, p) /\ Len(OrEmpty(j.prefix)) = p
    <2>1. OrEmpty(j.prefix) = Slice(f, 0, p)
      <3>1. OrEmpty(SomeUnlessEmpty(scanned.prefix)) = scanned.prefix
        BY EmptyOrThere
      <3> QED
        BY <1>2, <1>5, <1>10, <1>12, <3>1
    <2>2. 0 \in Nat /\ p \in Nat /\ 0 <= p /\ p <= Len(f)
      BY <1>13
    <2>3. Len(Slice(f, 0, p)) = p - 0
      BY <2>2, SliceIsFile
    <2> QED
      BY <1>13, <2>1, <2>3
  <1>15. OrEmpty(j.prefix) \o OrEmpty(j.leading_pad) = Slice(f, 0, front)
    <2>1. OrEmpty(j.leading_pad) = slice.leading_pad
      BY <1>5, EmptyOrThere
    <2>2. Cat(Slice(f, 0, p), slice.leading_pad) = Slice(f, 0, front)
      BY <1>9, <1>12 DEF Cut
    <2> QED
      BY <1>14, <2>1, <2>2 DEF Cat
  <1>16. HasParts(j, store) /\ \A k \in DOMAIN j.nested : HasParts(j.nested[k], store)
    BY <1>1, JarBlobsAreIn
  <1>17. /\ PartReadable(j.prefix, store) /\ PartReadable(j.leading_pad, store)
         /\ get_blob(j.tail, store) # None
    BY <1>3, <1>16, GetBlobFinds DEF HasParts
  <1>18. DOMAIN j.entries = 1..n /\ n = Len(j.entries) /\ (j.entries = <<>> <=> n = 0)
    <2>1. DOMAIN j.entries = 1..n /\ j.entries = [i \in DOMAIN j.entries |-> j.entries[i]]
      BY <1>2, <1>5, <1>10, <1>11
    <2> QED
      BY <2>1, NumberedIsSequence
  <1>19. ASSUME NEW i \in 1..n
         PROVE  /\ headers[i] = Some(<<slice.locals[i].header>>)
                /\ cdata[i] = Some(slice.locals[i].cdata)
                /\ pads[i] = Some(slice.locals[i].pad)
                /\ j.entries[i].desc = slice.locals[i].desc
                /\ slot_start(j.entries[i], p) = p + slice.locals[i].at
    <2>1. slot_exact(j, j.entries[i]) /\ i \in DOMAIN scanned.entries
      BY <1>10, <1>11, <1>18 DEF bit_identical_restore
    <2>2. ReadBack(j, j.entries[i], store, p, slice.locals[i])
      <3>1. slice_from_reader(f) # None /\ AttachedTo(j, listed, slice) /\ p = Len(OrEmpty(j.prefix))
        BY <1>5, <1>14
      <3>2. HasParts(j, store) /\ \A k \in DOMAIN j.nested : HasParts(j.nested[k], store)
        BY <1>16
      <3> QED
        BY <1>1, <1>4, <2>1, <3>1, <3>2, SlotReadsBack
    <2>3. /\ headers[i] = load_header(j.entries[i], store) /\ pads[i] = PadOf(j.entries[i], store)
          /\ cdata[i] = resolve_cdata(j, j.entries[i], store, FALSE)
      BY <1>18 DEF Headers, Pads
    <2> QED
      BY <2>2, <2>3 DEF ReadBack
  <1>20. SlotsReadable(j.entries, store) /\ ~\E i \in DOMAIN cdata : cdata[i] = None
    <2>1. ASSUME NEW i \in 1..n
          PROVE  /\ load_header(j.entries[i], store) # None /\ PadOf(j.entries[i], store) # None
                 /\ cdata[i] # None
      <3>1. headers[i] # None /\ cdata[i] # None /\ pads[i] # None
        <4> HIDE DEF headers, cdata, pads
        <4>1. PICK x : x = <<slice.locals[i].header>>
          OBVIOUS
        <4>2. PICK y : y = slice.locals[i].cdata
          OBVIOUS
        <4>3. PICK z : z = slice.locals[i].pad
          OBVIOUS
        <4>4. headers[i] = Some(x) /\ cdata[i] = Some(y) /\ pads[i] = Some(z)
          BY <1>19, <4>1, <4>2, <4>3
        <4>5. Some(x) # None /\ Some(y) # None /\ Some(z) # None
          BY SomeIsThere
        <4> QED
          BY <4>4, <4>5
      <3>2. headers[i] = load_header(j.entries[i], store) /\ pads[i] = PadOf(j.entries[i], store)
        BY <1>18 DEF Headers, Pads
      <3> QED
        BY <3>1, <3>2
    <2> QED
      BY <1>18, <2>1 DEF SlotsReadable
  <1> HIDE DEF headers, cdata, pads
  <1>21. PICK locals : locals = slice.locals
    OBVIOUS
  <1>22. /\ DOMAIN locals = 1..n /\ Tiles(p, front, cd, locals, next)
         /\ \A i \in 1..n : locals[i].at \in Nat /\ locals[i].at <= next[i]
    BY <1>9, <1>11, <1>12, <1>21 DEF Cut
  <1>23. j.tail = Some(From(f, cd)) /\ Len(From(f, cd)) = Len(f) - cd
    <2>1. cd \in Nat /\ Len(f) \in Nat /\ cd <= Len(f) /\ Len(f) <= Len(f)
      BY <1>13
    <2>2. Len(Slice(f, cd, Len(f))) = Len(f) - cd
      BY <2>1, SliceIsFile
    <2> QED
      BY <1>5, <1>9, <2>2, FromIsSlice DEF Cut
  <1>24. locals = <<>> => cd = p
    <2> SUFFICES ASSUME locals = <<>> PROVE cd = p
      OBVIOUS
    <2>1. n = 0
      BY <1>22
    <2>2. ~(p + (Len(f) - cd) < Len(f))
      BY <1>14, <1>18, <1>23, <2>1, SomeIsThere
    <2> QED
      BY <1>13, <2>2
  <1>25. ASSUME NEW i \in 1..n
         PROVE  SlotIsPart(f, p + locals[i].at, p + next[i], j.entries[i], p,
                           headers[i][1], cdata[i][1], pads[i][1])
    <2>1. LocalIsPart(f, p + locals[i].at, p + next[i], locals[i])
      BY <1>9, <1>11, <1>12, <1>21 DEF Cut
    <2>2. /\ headers[i][1] = <<locals[i].header>> /\ cdata[i][1] = locals[i].cdata
          /\ pads[i][1] = locals[i].pad /\ j.entries[i].desc = locals[i].desc
          /\ slot_start(j.entries[i], p) = p + locals[i].at
      BY <1>19, <1>21, SomeIsThere
    <2> QED
      BY <2>1, <2>2 DEF SlotIsPart, LocalIsPart
  <1>26. PICK es : es = j.entries
    OBVIOUS
  <1>27. PICK slots : slots = WriteSlots(Slice(f, 0, front), es, p, headers, cdata, pads)
    OBVIOUS
  <1>28. Partial(f, slots) /\ \A q \in 1..cd : Shows(f, slots, q)
    <2>1. n = Len(es)
      BY <1>18, <1>26
    <2>2. \A i \in 1..n : SlotIsPart(f, p + locals[i].at, p + next[i], es[i], p,
                                     headers[i][1], cdata[i][1], pads[i][1])
      BY <1>25, <1>26
    <2> QED
      BY <1>13, <1>22, <1>24, <1>27, <2>1, <2>2, SlotsAreWritten
  <1>29. SetLen(WriteAt(slots, cd, From(f, cd)), Len(f)) = f
    BY <1>13, <1>28, TailCompletes
  <1> DEFINE prefix == OrEmpty(j.prefix)
             tail == j.tail[1]
             size == Len(j.source)
             written == WriteSlots(prefix \o OrEmpty(j.leading_pad), j.entries, Len(prefix),
                                   headers, cdata, pads)
             file == SetLen(WriteAt(written, size - Len(tail), tail), size)
  <1>30. /\ tail = From(f, cd) /\ size = Len(f) /\ size - Len(tail) = cd
         /\ written = slots /\ file = f
    <2>1. tail = From(f, cd) /\ size = Len(f)
      BY <1>5, <1>23, SomeIsThere
    <2>2. size - Len(tail) = cd
      <3> HIDE DEF size, tail
      <3> QED
        BY <1>13, <1>23, <2>1
    <2>3. written = slots
      BY <1>14, <1>15, <1>26, <1>27
    <2> QED
      BY <1>29, <2>1, <2>2, <2>3
  <1>31. ~(size < Len(prefix) + Len(tail))
    <2> HIDE DEF size, tail, prefix
    <2>1. Len(prefix) = p
      BY <1>14 DEF prefix
    <2> QED
      BY <1>13, <1>23, <1>30, <2>1
  <1>32. verify_source_identity(file, j)
    BY <1>5, <1>30 DEF verify_source_identity
  <1>33. write_exact_jar(j, store)
           = IF ~PartReadable(j.prefix, store) \/ ~PartReadable(j.leading_pad, store) THEN None
             ELSE IF get_blob(j.tail, store) = None \/ ~SlotsReadable(j.entries, store) THEN None
             ELSE IF size < Len(prefix) + Len(tail) \/ \E i \in DOMAIN cdata : cdata[i] = None THEN None
             ELSE IF verify_source_identity(file, j) THEN Some(file) ELSE None
    BY DEF write_exact_jar, headers, cdata, pads
  <1> HIDE DEF prefix, tail, size, file
  <1> QED
    BY <1>17, <1>20, <1>30, <1>31, <1>32, <1>33

-----------------------------------------------------------------------------
(* A jar whose tail was not kept.                                          *)

\* A directory of its own is refused for a name only.
LEMMA SyntheticCdIsWritten ==
  ASSUME NEW n \in Nat, NEW entries, DOMAIN entries = 1..n,
         \A i \in 1..n : ~entry_has_dotdot(entries[i].name), NEW start, NEW comment
  PROVE  write_synthetic_cd(entries, start, comment) # None
  <1> DEFINE rows == [i \in DOMAIN entries |-> write_cd_record(entries[i])]
  <1>1. Len(rows) = n
    <2>1. DOMAIN rows = 1..n /\ rows = [i \in DOMAIN rows |-> rows[i]]
      OBVIOUS
    <2> HIDE DEF rows
    <2> QED
      BY <2>1, NumberedIsSequence
  <1>2. ~\E i \in 1..Len(rows) : entry_has_dotdot(entries[i].name)
    BY <1>1
  <1> QED
    BY <1>2 DEF write_synthetic_cd, Some, None

\* Slots that can all be written as they were get a directory behind them.
LEMMA SeekIsWritten ==
  ASSUME NEW j, NEW store, PartReadable(j.prefix, store), PartReadable(j.leading_pad, store),
         NEW n \in Nat, DOMAIN j.entries = 1..n,
         \A i \in 1..n :
           /\ load_header(j.entries[i], store) # None /\ PadOf(j.entries[i], store) # None
           /\ resolve_cdata(j, j.entries[i], store, FALSE) # None
           /\ Len(resolve_cdata(j, j.entries[i], store, FALSE)[1]) = j.entries[i].comp
           /\ ~entry_has_dotdot(j.entries[i].name)
  PROVE  write_skip_exact_seek(j, store) # None
  <1> DEFINE es == j.entries
             cdata == [i \in DOMAIN es |-> resolve_cdata(j, es[i], store, FALSE)]
             prefix_len == Len(OrEmpty(j.prefix))
             front == OrEmpty(j.prefix) \o OrEmpty(j.leading_pad)
             slots == WriteSlots(front, es, prefix_len, Headers(es, store), cdata, Pads(es, store))
             slot_end(e) == slot_start(e, prefix_len) + 1 + e.comp + Len(e.desc) + Len(PadOf(e, store)[1])
             cd_start == Max({Len(front)} \union {slot_end(es[i]) : i \in DOMAIN es})
             row(e) == [name |-> e.name, bit3 |-> load_header(e, store)[1][1].bit3, method |-> e.method,
                        crc |-> e.crc, comp |-> e.comp, uncomp |-> e.uncomp,
                        off |-> arm1_cd_local_offset(e, prefix_len)]
             rows == [i \in DOMAIN es |-> row(es[i])]
             cd == write_synthetic_cd(rows, cd_start, j.comment)
  <1>1. SlotsReadable(es, store) /\ ~\E i \in DOMAIN es : cdata[i] = None
    BY DEF SlotsReadable
  <1>2. ~\E i \in DOMAIN es : Len(cdata[i][1]) # es[i].comp
    OBVIOUS
  <1>3. cd # None
    <2>1. DOMAIN rows = 1..n /\ \A i \in 1..n : rows[i].name = es[i].name
      OBVIOUS
    <2> HIDE DEF cd_start, rows
    <2> QED
      BY <2>1, SyntheticCdIsWritten
  <1>4. write_skip_exact_seek(j, store)
          = IF ~PartReadable(j.prefix, store) \/ ~PartReadable(j.leading_pad, store) THEN None
            ELSE IF ~SlotsReadable(es, store) \/ \E i \in DOMAIN es : cdata[i] = None THEN None
            ELSE IF \E i \in DOMAIN es : Len(cdata[i][1]) # es[i].comp THEN None
            ELSE IF cd = None THEN None
            ELSE Some(SetLen(WriteAt(slots, cd_start, cd[1]), cd_start + Len(cd[1])))
    BY DEF write_skip_exact_seek
  <1> HIDE DEF es, cdata, slots, cd_start, cd
  <1> QED
    BY <1>1, <1>2, <1>3, <1>4, SomeIsThere

\* So a jar of that class is restored from a complete store.
LEMMA SeekGivesJar ==
  ASSUME NEW f, IsFile(f), Scan(f, FALSE) # None,
         NEW scanned, NEW listed, NEW j, MadeFrom(f, scanned, listed, j),
         restore_backend(j) = "skip_exact_seek_synthetic_cd", NEW store, JarBlobs(j) \subseteq store,
         \A i \in DOMAIN j.entries : ~entry_has_dotdot(j.entries[i].name)
  PROVE  write_skip_exact_seek(j, store) # None
  <1>1. ScanSound(scanned) /\ JarSound(listed) /\ JarSound(j)
    BY ScanIsSound, ScannedJarIsSound, AttachedJarIsSound DEF MadeFrom
  <1>2. HasParts(j, store) /\ \A k \in DOMAIN j.nested : HasParts(j.nested[k], store)
    BY <1>1, JarBlobsAreIn
  <1>3. skip_exact_arm(j) = "skip_exact_seek_synthetic_cd"
    BY DEF restore_backend
  <1>4. \A i \in DOMAIN j.entries :
          /\ j.entries[i].header_hex # None \/ j.entries[i].header_blob # None
          /\ slot_exact(j, j.entries[i])
    BY <1>3 DEF skip_exact_arm, slot_resolves_at_recorded_csize
  <1>5. PICK n \in Nat : DOMAIN scanned.entries = 1..n
    BY <1>1 DEF ScanSound
  <1>6. /\ DOMAIN listed = JarFields /\ DOMAIN listed.entries = 1..n
        /\ \A i \in 1..n : listed.entries[i].header_hex = None /\ listed.entries[i].header_blob = None
    <2>1. DOMAIN listed = JarFields /\ DOMAIN listed.entries = 1..n
      BY <1>5 DEF MadeFrom, JarOfScan, JarOf, JarFields
    <2>2. ASSUME NEW i \in 1..n
          PROVE  listed.entries[i].header_hex = None /\ listed.entries[i].header_blob = None
      BY <1>5 DEF MadeFrom, JarOfScan, JarOf, entry_from_scan
    <2> QED
      BY <2>1, <2>2
  <1>7. CASE j = listed
    <2>1. n = 0
      BY <1>4, <1>6, <1>7
    <2>2. PartReadable(j.prefix, store) /\ PartReadable(j.leading_pad, store)
      BY <1>2 DEF HasParts
    <2>3. DOMAIN j.entries = 1..n /\ 1..n = {}
      BY <1>6, <1>7, <2>1
    <2> QED
      BY <2>2, <2>3, SeekIsWritten
  <1>8. CASE j # listed
    <2>1. PICK slice : slice = slice_from_reader(f)[1]
      OBVIOUS
    <2>2. slice_from_reader(f) # None /\ AttachedTo(j, listed, slice)
      <3>1. attach_exact(f, listed) # listed
        BY <1>8 DEF MadeFrom
      <3>2. /\ slice_from_reader(f) # None
            /\ AttachedTo(attach_exact(f, listed), listed, slice_from_reader(f)[1])
        BY <1>6, <3>1, AttachedParts
      <3> QED
        BY <2>1, <3>2 DEF MadeFrom
    <2>3. DOMAIN j.entries = 1..n
      BY <1>6, <2>2 DEF AttachedTo
    <2>4. PICK p : p = Len(OrEmpty(j.prefix))
      OBVIOUS
    <2>5. ASSUME NEW i \in 1..n
          PROVE  ReadBack(j, j.entries[i], store, p, slice.locals[i])
      <3>1. i \in DOMAIN scanned.entries /\ slot_exact(j, j.entries[i])
        BY <1>4, <1>5, <2>3
      <3> QED
        BY <1>1, <1>2, <2>1, <2>2, <2>4, <3>1, SlotReadsBack
    <2>6. ASSUME NEW i \in 1..n
          PROVE  /\ load_header(j.entries[i], store) # None /\ PadOf(j.entries[i], store) # None
                 /\ resolve_cdata(j, j.entries[i], store, FALSE) # None
                 /\ Len(resolve_cdata(j, j.entries[i], store, FALSE)[1]) = j.entries[i].comp
                 /\ ~entry_has_dotdot(j.entries[i].name)
      <3>1. PICK e, local : e = j.entries[i] /\ local = slice.locals[i]
        OBVIOUS
      <3>2. ReadBack(j, e, store, p, local)
        BY <2>5, <3>1
      <3>3. /\ load_header(e, store) # None /\ PadOf(e, store) # None
            /\ resolve_cdata(j, e, store, FALSE) # None
            /\ Len(resolve_cdata(j, e, store, FALSE)[1]) = e.comp
        <4>1. /\ load_header(e, store) = Some(<<local.header>>)
              /\ PadOf(e, store) = Some(local.pad)
              /\ resolve_cdata(j, e, store, FALSE) = Some(local.cdata)
              /\ e.comp = Len(local.cdata)
          BY <3>2 DEF ReadBack
        <4> QED
          BY <4>1, SomeIsThere
      <3>4. ~entry_has_dotdot(e.name)
        BY <2>3, <3>1
      <3> QED
        BY <3>1, <3>3, <3>4
    <2>7. PartReadable(j.prefix, store) /\ PartReadable(j.leading_pad, store)
      BY <1>2 DEF HasParts
    <2> QED
      BY <2>3, <2>6, <2>7, SeekIsWritten
  <1> QED
    BY <1>7, <1>8

\* Nothing but the contents is needed to zip a jar anew.
LEMMA ZippedAnewIsWritten ==
  ASSUME NEW j, JarSound(j), NEW n \in Nat, DOMAIN j.entries = 1..n, j.prefix = None,
         NEW store, JarBlobs(j) \subseteq store, NEW store_all
  PROVE  write_jar(j, store, store_all) # None
  <1> DEFINE S == {i \in DOMAIN j.entries : ~entry_has_dotdot(j.entries[i].name)}
             es == Picked(j.entries, S)
             content(e) == IF e.is_dir THEN Some(<<>>) ELSE read_entry_content(j, e, store)
  <1>1. HasParts(j, store) /\ \A k \in DOMAIN j.nested : HasParts(j.nested[k], store)
    BY JarBlobsAreIn
  <1>2. ASSUME NEW i \in DOMAIN j.entries
        PROVE  LET e == j.entries[i]
               IN content(e) # None /\ (~e.is_dir => Crc(content(e)[1]) = e.crc)
    <2>1. PICK e : e = j.entries[i]
      OBVIOUS
    <2>2. EntrySound(e) /\ PartReadable(e.blob, store)
      BY <1>1, <2>1 DEF JarSound, StencilSound, HasParts
    <2>3. CASE e.is_dir
      BY <2>1, <2>3, SomeIsThere
    <2>4. CASE ~e.is_dir /\ e.zip_index = None
      BY <2>1, <2>2, <2>4, GetBlobFinds DEF EntrySound, read_entry_content
    <2>5. CASE ~e.is_dir /\ e.zip_index # None
      <3>1. PICK index : index = j.nested[e.zip_index[1]]
        OBVIOUS
      <3>2. /\ e.zip_index[1] \in DOMAIN j.nested
            /\ reconstruct_child_zip(index, e.uncomp, StencilBlobs(index)) # None
            /\ Crc(reconstruct_child_zip(index, e.uncomp, StencilBlobs(index))[1]) = e.crc
        BY <2>1, <2>5, <3>1 DEF JarSound, ChildSound
      <3>3. HasParts(index, store) /\ StencilSound(index)
        BY <1>1, <3>1, <3>2 DEF JarSound, NestedSound
      <3>4. HasParts(index, StencilBlobs(index))
        BY <3>3, StencilBlobsAreIn
      <3>5. reconstruct_child_zip(index, e.uncomp, StencilBlobs(index))
              = reconstruct_child_zip(index, e.uncomp, store)
        BY <3>3, <3>4, ChildIsTheSame
      <3>6. content(e) = reconstruct_child_zip(index, e.uncomp, store)
        BY <2>2, <2>5, <3>1 DEF EntrySound, read_entry_content
      <3> HIDE DEF content
      <3> QED
        BY <2>1, <3>2, <3>5, <3>6
    <2> QED
      BY <2>3, <2>4, <2>5
  <1>3. /\ DOMAIN es = 1..Cardinality(S)
        /\ \A k \in DOMAIN es : \E i \in DOMAIN j.entries : es[k] = j.entries[i]
    <2>1. S \in SUBSET (1..n)
      OBVIOUS
    <2> HIDE DEF S
    <2>2. \A k \in 1..Cardinality(S) : Nth(S, k) \in S
      BY <2>1, NthIsMember
    <2> QED
      BY <2>1, <2>2 DEF Picked
  <1>4. /\ ~\E k \in DOMAIN es : content(es[k]) = None
        /\ ~\E k \in DOMAIN es : ~es[k].is_dir /\ Crc(content(es[k])[1]) # es[k].crc
    <2> HIDE DEF es, content
    <2> QED
      BY <1>2, <1>3
  <1>5. PartReadable(j.prefix, store) /\ Len(OrEmpty(j.prefix)) = 0
    BY <1>1, EmptySeq DEF HasParts, OrEmpty
  <1>6. \A file : fileabs_shift_tail(file, 0) # None
    BY SomeIsThere DEF fileabs_shift_tail
  <1>7. \/ write_jar(j, store, store_all) = None /\
              \/ ~PartReadable(j.prefix, store) \/ \E k \in DOMAIN es : content(es[k]) = None
              \/ \E k \in DOMAIN es : ~es[k].is_dir /\ Crc(content(es[k])[1]) # es[k].crc
        \/ \E file : write_jar(j, store, store_all) = fileabs_shift_tail(file, Len(OrEmpty(j.prefix)))
    BY DEF write_jar
  <1> HIDE DEF es, content
  <1> QED
    BY <1>4, <1>5, <1>6, <1>7

-----------------------------------------------------------------------------
(* The inductive invariant, one step per action.                           *)

\* A file has one scan or none.
LEMMA ScanIsOption ==
  ASSUME NEW f
  PROVE  ToSet(for_each_jar_entry_with_len(f))
           = IF Scan(f, FALSE) = None THEN {} ELSE {Scan(f, FALSE)[1]}
  <1>1. Scan(f, FALSE) = None \/ \E x : Scan(f, FALSE) = Some(x)
    BY DEF Scan, AndThen
  <1>2. ToSet(None) = {} /\ \A x : ToSet(Some(x)) = {x} /\ Some(x) # None /\ Some(x)[1] = x
    BY DEF ToSet, Some, None
  <1> QED
    BY <1>1, <1>2 DEF for_each_jar_entry_with_len

\* The scanned jar is sound.
LEMMA ScanJarKeeps ==
  ASSUME RoundTripInv, ScanJar
  PROVE  RoundTripInv'
  <1> USE DEF RoundTripInv
  <1> DEFINE scanned == for_each_jar_entry_with_len(now)
  <1>1. jar = None /\ blobs = {} /\ verdict = None /\ dest = None /\ now = origin.bytes
    BY DEF ScanJar, TypeOK
  <1>2. CASE scanned = None
    BY <1>1, <1>2 DEF ScanJar, TypeOK, None
  <1>3. CASE scanned # None
    <2>1. pc' = "scanned" /\ jar' = Some(JarOfScan(now, scanned[1]))
      BY <1>3 DEF ScanJar
    <2>2. ScanSound(scanned[1])
      BY <1>3, ScanIsSound DEF for_each_jar_entry_with_len
    <2> HIDE DEF scanned
    <2>3. jar' # None /\ jar'[1].source = origin.bytes /\ JarSound(jar'[1])
      BY <1>1, <2>1, <2>2, ScannedJarIsSound, ScanKeepsSource DEF Some, None
    <2>4. UNCHANGED <<origin, now, blobs, lost, verdict, dest>>
      BY DEF ScanJar
    <2>5. TypeOK'
      BY <1>1, <2>1, <2>3, <2>4 DEF TypeOK
    <2>6. JarIsAsRead'
      <3>1. scanned[1] \in ToSet(for_each_jar_entry_with_len(origin'.bytes))
        BY <1>1, <1>3, <2>4, ScanIsOption DEF scanned, for_each_jar_entry_with_len
      <3>2. jar'[1] = JarOfScan(origin'.bytes, scanned[1])
        BY <1>1, <2>1, <2>4, SomeIsThere
      <3> QED
        BY <2>1, <3>1, <3>2 DEF JarIsAsRead
    <2> QED
      BY <1>1, <2>1, <2>3, <2>4, <2>5, <2>6
  <1> QED
    BY <1>2, <1>3

\* The sliced one is, whatever file was sliced.
LEMMA AttachExactKeeps ==
  ASSUME RoundTripInv, AttachExact
  PROVE  RoundTripInv'
  <1> USE DEF RoundTripInv
  <1>1. /\ jar # None /\ verdict = None /\ dest = None
        /\ jar[1].source = origin.bytes /\ JarSound(jar[1])
    BY DEF AttachExact, TypeOK
  <1>2. /\ jar' = Some(attach_exact(now, jar[1])) /\ blobs' = JarBlobs(jar'[1]) /\ pc' = "packed"
        /\ UNCHANGED <<origin, now, lost, verdict, dest>>
    BY DEF AttachExact
  <1>3. jar' # None /\ jar'[1].source = origin.bytes /\ JarSound(jar'[1])
    BY <1>1, <1>2, AttachedJarIsSound, AttachKeepsSource DEF JarSound, Some, None
  <1>4. TypeOK'
    BY <1>1, <1>2, <1>3 DEF TypeOK, FullStore
  <1>5. JarIsAsRead'
    <2>1. PICK scanned \in ToSet(for_each_jar_entry_with_len(origin.bytes)) :
            jar[1] = JarOfScan(origin.bytes, scanned)
      BY <1>1 DEF AttachExact, JarIsAsRead
    <2>2. jar'[1] = attach_exact(now', JarOfScan(origin'.bytes, scanned))
      BY <1>2, <2>1, SomeIsThere
    <2> QED
      BY <1>2, <2>1, <2>2 DEF JarIsAsRead
  <1> QED
    BY <1>1, <1>2, <1>3, <1>4, <1>5 DEF FullStore

\* The other actions leave the jar alone.
LEMMA NextKeeps ==
  ASSUME RoundTripInv, [Next]_vars
  PROVE  RoundTripInv'
  <1>1. CASE ScanJar
    BY <1>1, ScanJarKeeps
  <1>2. CASE ReplaceSource
    <2>1. jar # None /\ JarIsAsRead => JarIsAsRead'
      BY <1>2 DEF ReplaceSource, JarIsAsRead
    <2> QED
      BY <1>2, <2>1 DEF RoundTripInv, ReplaceSource, TypeOK, FullStore
  <1>3. CASE AttachExact
    BY <1>3, AttachExactKeeps
  <1>4. CASE LoseBlob
    <2>1. JarIsAsRead => JarIsAsRead'
      BY <1>4 DEF LoseBlob, JarIsAsRead
    <2> QED
      BY <1>4, <2>1 DEF RoundTripInv, LoseBlob, TypeOK, FullStore, Some, None
  <1>5. CASE Verify
    <2>1. JarIsAsRead => JarIsAsRead'
      BY <1>5 DEF Verify, JarIsAsRead
    <2> QED
      BY <1>5, <2>1 DEF RoundTripInv, Verify, TypeOK, FullStore, Some, None
  <1>6. CASE Rehydrate
    <2>1. JarIsAsRead => JarIsAsRead'
      BY <1>6 DEF Rehydrate, JarIsAsRead
    <2> QED
      BY <1>6, <2>1 DEF RoundTripInv, Rehydrate, TypeOK, FullStore
  <1>7. CASE UNCHANGED vars
    <2>1. JarIsAsRead => JarIsAsRead'
      BY <1>7 DEF vars, JarIsAsRead
    <2> QED
      BY <1>7, <2>1 DEF RoundTripInv, TypeOK, FullStore, vars
  <1> QED
    BY <1>1, <1>2, <1>3, <1>4, <1>5, <1>6, <1>7 DEF Next, Finished

\* What is recorded of a JAR stays sound on its way through the three
\* commands, and every later state is made from that record and the blobs
\* that are there (for_each_jar_entry_with_len, attach_exact, verify,
\* restore_jars).
THEOREM RoundTripInvariant == Spec => []RoundTripInv
  <1>1. Init => RoundTripInv
    BY SourcesAssumption DEF Init, RoundTripInv, TypeOK, None
  <1> QED
    BY <1>1, NextKeeps, PTL DEF Spec

\* The record, the verdict and the restored file are there exactly in the
\* phases that have them.
THEOREM RoundTripTypes == Spec => []TypeOK
  <1>1. RoundTripInv => TypeOK
    BY DEF RoundTripInv
  <1> QED
    BY <1>1, RoundTripInvariant, PTL

\* The jar of an untouched source is what dehydrate makes of that file.
LEMMA JarIsMade ==
  ASSUME RoundTripInv, pc = "restored", Untouched
  PROVE  /\ jar # None /\ JarSound(jar[1]) /\ IsFile(origin.bytes)
         /\ Scan(origin.bytes, FALSE) # None
         /\ \E scanned, listed : MadeFrom(origin.bytes, scanned, listed, jar[1])
  <1>1. jar # None /\ JarSound(jar[1]) /\ JarIsAsRead /\ IsFile(origin.bytes)
    BY DEF RoundTripInv, TypeOK
  <1>2. PICK scanned \in ToSet(for_each_jar_entry_with_len(origin.bytes)) :
          jar[1] = attach_exact(now, JarOfScan(origin.bytes, scanned))
    BY <1>1 DEF JarIsAsRead
  <1>3. Scan(origin.bytes, FALSE) # None /\ scanned = Scan(origin.bytes, FALSE)[1]
    BY <1>2, ScanIsOption
  <1>4. MadeFrom(origin.bytes, scanned, JarOfScan(origin.bytes, scanned), jar[1])
    BY <1>2, <1>3 DEF MadeFrom, Untouched
  <1> QED
    BY <1>1, <1>3, <1>4

\* A restore of class exact writes the scanned file or fails; and it fails
\* only if a blob is lost, the source was another file when it was sliced,
\* or there are bytes no part has (slice_from_reader, write_exact_jar).
THEOREM ExactOrNothing == Spec => []ExactRestoresSource
  <1>1. RoundTripInv => ExactRestoresSource
    <2> SUFFICES ASSUME RoundTripInv, pc = "restored", Backend = "exact"
                 PROVE  \/ dest = Some(origin.bytes)
                        \/ dest = None /\ (lost # None \/ ~Untouched \/ UnlistedBytes)
      BY DEF ExactRestoresSource
    <2>1. /\ jar # None /\ jar[1].source = origin.bytes /\ JarIsAsRead
          /\ IsFile(origin.bytes)
      BY DEF RoundTripInv, TypeOK
    <2>2. dest = write_exact_jar(jar[1], blobs)
      BY DEF RoundTripInv, RestoreJar, Backend
    <2>3. dest # None => dest = Some(origin.bytes)
      <3>1. dest # None => dest[1] = origin.bytes
        BY <2>1, <2>2, ExactGivesSource
      <3>2. dest = None \/ \E x : dest = Some(x)
        BY <2>2 DEF write_exact_jar
      <3> QED
        BY <3>1, <3>2, SomeIsThere
    <2>4. ASSUME lost = None, Untouched, ~UnlistedBytes
          PROVE  dest = Some(origin.bytes)
      <3>1. blobs = JarBlobs(jar[1])
        BY <2>4 DEF RoundTripInv, FullStore
      <3>2. PICK scanned, listed : MadeFrom(origin.bytes, scanned, listed, jar[1])
        BY <2>4, JarIsMade
      <3>3. PICK f, j : f = origin.bytes /\ j = jar[1]
        OBVIOUS
      <3>4. MadeFrom(f, scanned, listed, j) /\ IsFile(f) /\ Scan(f, FALSE) # None
        BY <2>4, <3>2, <3>3, JarIsMade
      <3>5. bit_identical_restore(j)
        BY <3>3 DEF Backend, restore_backend, skip_exact_arm
      <3>6. ~(j.entries = <<>> /\ Len(OrEmpty(j.prefix)) + Len(j.tail[1]) < Len(f))
        BY <2>4, <3>3 DEF UnlistedBytes
      <3>7. JarBlobs(j) \subseteq blobs
        BY <3>1, <3>3
      <3>8. write_exact_jar(j, blobs) = Some(f)
        BY <3>4, <3>5, <3>6, <3>7, ExactIsWhole
      <3> QED
        BY <2>2, <3>3, <3>8
    <2> QED
      BY <2>3, <2>4
  <1> QED
    BY <1>1, RoundTripInvariant, PTL

\* What was packed from a file nobody replaced is restored by the writers
\* that patch nothing (write_exact_jar, write_skip_exact_seek, write_jar
\* without a launcher): every slot they need is in the archive and has the
\* size its entry says.
THEOREM UnpatchedJarsRestore == Spec => [](NothingIsPatched => PackedJarsRestore)
  <1>1. RoundTripInv /\ ExactRestoresSource => (NothingIsPatched => PackedJarsRestore)
    <2> SUFFICES ASSUME RoundTripInv, ExactRestoresSource, NothingIsPatched,
                        pc = "restored", lost = None, Untouched
                 PROVE  \/ dest # None
                        \/ Backend = "exact" /\ UnlistedBytes
                        \/ Backend = "skip_exact_seek_synthetic_cd" /\ ~NamesAreSafe
      BY DEF PackedJarsRestore
    <2>1. PICK scanned, listed : MadeFrom(origin.bytes, scanned, listed, jar[1])
      BY JarIsMade
    <2>2. PICK f, j : f = origin.bytes /\ j = jar[1]
      OBVIOUS
    <2>3. /\ MadeFrom(f, scanned, listed, j) /\ IsFile(f) /\ Scan(f, FALSE) # None
          /\ JarSound(j) /\ JarBlobs(j) \subseteq blobs
      BY <2>1, <2>2, JarIsMade DEF RoundTripInv, FullStore
    <2>4. PICK store_all \in BOOLEAN : dest = RestoreJar(j, blobs, store_all)
      BY <2>2 DEF RoundTripInv
    <2>5. CASE Backend = "exact"
      BY <2>5, SomeIsThere DEF ExactRestoresSource
    <2>6. CASE Backend = "skip_exact_seek_synthetic_cd" /\ NamesAreSafe
      <3>1. restore_backend(j) = "skip_exact_seek_synthetic_cd"
        BY <2>2, <2>6 DEF Backend
      <3>2. \A i \in DOMAIN j.entries : ~entry_has_dotdot(j.entries[i].name)
        BY <2>2, <2>6 DEF NamesAreSafe
      <3>3. dest = write_skip_exact_seek(j, blobs)
        BY <2>4, <3>1 DEF RestoreJar
      <3> QED
        BY <2>3, <3>1, <3>2, <3>3, SeekGivesJar
    <2>7. CASE Backend = "skip_exact_zipwriter" /\ jar[1].prefix = None
      <3>1. dest = write_jar(j, blobs, store_all)
        BY <2>2, <2>4, <2>7 DEF RestoreJar, Backend
      <3>2. PICK n \in Nat : DOMAIN j.entries = 1..n
        BY <2>3, MadeJarIsNumbered
      <3> QED
        BY <2>2, <2>3, <2>7, <3>1, <3>2, ZippedAnewIsWritten
    <2> QED
      BY <2>5, <2>6, <2>7 DEF NothingIsPatched
  <1> QED
    BY <1>1, RoundTripInvariant, ExactOrNothing, PTL

\* verify accepts an archive that lost nothing, whatever was packed.
THEOREM OwnPackIsAccepted == Spec => []VerifyAcceptsOwnPack
  <1>1. RoundTripInv => VerifyAcceptsOwnPack
    <2> SUFFICES ASSUME RoundTripInv, verdict # None, lost = None
                 PROVE  verdict = Some(TRUE)
      BY DEF VerifyAcceptsOwnPack
    <2>1. jar # None /\ JarSound(jar[1]) /\ blobs = JarBlobs(jar[1])
          /\ verdict = Some(verify_jar(jar[1], blobs))
      BY DEF RoundTripInv, TypeOK, FullStore
    <2>2. verify_jar(jar[1], blobs) = TRUE
      BY <2>1, VerifyAccepts DEF verify_jar
    <2> QED
      BY <2>1, <2>2
  <1> QED
    BY <1>1, RoundTripInvariant, PTL

\* What verify accepts has every blob, so it restores as if none could be
\* lost.
THEOREM AcceptedIsComplete == Spec => []VerifiedHasEveryBlob
  <1>1. RoundTripInv => VerifiedHasEveryBlob
    <2> SUFFICES ASSUME RoundTripInv, pc = "restored", verdict = Some(TRUE)
                 PROVE  dest \in {RestoreJar(jar[1], FullStore, store_all) : store_all \in BOOLEAN}
      BY DEF VerifiedHasEveryBlob
    <2>1. /\ JarSound(jar[1]) /\ blobs \subseteq FullStore
          /\ verdict = Some(verify_jar(jar[1], blobs))
          /\ \E store_all \in BOOLEAN : dest = RestoreJar(jar[1], blobs, store_all)
      BY DEF RoundTripInv, TypeOK, Some, None
    <2>2. verify_jar(jar[1], blobs)
      <3> SUFFICES ASSUME ~verify_jar(jar[1], blobs) PROVE FALSE
        OBVIOUS
      <3>1. verify_jar(jar[1], blobs) = FALSE
        BY DEF verify_jar
      <3>2. Some(TRUE) = Some(FALSE)
        BY <2>1, <3>1
      <3> QED
        BY <3>2 DEF Some
    <2>3. blobs = FullStore
      BY <2>1, <2>2, VerifiedIsComplete DEF FullStore
    <2> QED
      BY <2>1, <2>3
  <1> QED
    BY <1>1, RoundTripInvariant, PTL

=============================================================================
