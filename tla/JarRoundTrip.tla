----------------------------- MODULE JarRoundTrip -----------------------------
(***************************************************************************)
(* One JAR through ayzenpack: dehydrate scans it, opens the file a second  *)
(* time to slice it (another process may have replaced it by then), and    *)
(* puts the blobs into an archive; the archive may lose a blob; verify     *)
(* may be run on it; rehydrate writes the JAR again.                       *)
(*                                                                         *)
(* A source is [bytes, rows, prefix, counted, listing, comment, heirs]:    *)
(* the file, what a reader who knows how it was made would say is in it    *)
(* (counted: its offsets count from the start of the file), and the files  *)
(* that may take its place during the run.  The properties compare the     *)
(* restored file with that, never with the scanner's view of it.           *)
(***************************************************************************)
EXTENDS JarWriters, VerifyJar

CONSTANT Sources        \* the files a user may pack

ASSUME SourcesAssumption == \A source \in Sources : IsFile(source.bytes)

VARIABLES
    origin,     \* the source dehydrate scanned
    now,        \* the file that is at its path
    pc,         \* "listed", "scanned", "packed", "verified", "refused" or "restored"
    jar,        \* the Jar of the manifest, an option
    blobs,      \* the contents in the archive's payload
    lost,       \* the blob the archive lost, an option
    verdict,    \* what verify said, an option
    dest        \* what rehydrate left at the destination, an option

vars == <<origin, now, pc, jar, blobs, lost, verdict, dest>>

Init ==
    /\ origin \in Sources
    /\ now = origin.bytes
    /\ pc = "listed"
    /\ jar = None /\ blobs = {} /\ lost = None /\ verdict = None /\ dest = None

\* for_each_jar_entry_with_len and the explode probe of every member.
ScanJar ==
    /\ pc = "listed"
    /\ LET scanned == for_each_jar_entry_with_len(now)
       IN IF scanned = None THEN pc' = "refused" /\ UNCHANGED jar
          ELSE pc' = "scanned" /\ jar' = Some(JarOfScan(now, scanned[1]))
    /\ UNCHANGED <<origin, now, blobs, lost, verdict, dest>>

\* Somebody writes another JAR to the same path.
ReplaceSource ==
    /\ pc = "scanned" /\ now = origin.bytes
    /\ now' \in origin.heirs
    /\ UNCHANGED <<origin, pc, jar, blobs, lost, verdict, dest>>

\* Faulty variant: size and hashes are those of the second reading.
AttachExactRehashes ==
    /\ pc = "scanned"
    /\ jar' = Some([attach_exact(now, jar[1]) EXCEPT !.source = now])
    /\ blobs' = JarBlobs(jar'[1])
    /\ pc' = "packed"
    /\ UNCHANGED <<origin, now, lost, verdict, dest>>

\* attach_exact, then the jar is pushed and the archive is finished.
AttachExact ==
    /\ pc = "scanned"
    /\ jar' = Some(attach_exact(now, jar[1]))
    /\ blobs' = JarBlobs(jar'[1])
    /\ pc' = "packed"
    /\ UNCHANGED <<origin, now, lost, verdict, dest>>

\* An archive that was written without one of its blobs, in its records and
\* in its catalog, so that digest and catalog agree.
LoseBlob ==
    /\ pc = "packed" /\ lost = None
    /\ \E b \in blobs : blobs' = blobs \ {b} /\ lost' = Some(b)
    /\ UNCHANGED <<origin, now, pc, jar, verdict, dest>>

Verify ==
    /\ pc = "packed"
    /\ verdict' = Some(verify_jar(jar[1], blobs))
    /\ pc' = "verified"
    /\ UNCHANGED <<origin, now, jar, blobs, lost, dest>>

Rehydrate ==
    /\ pc = "verified"
    /\ \E store_all \in BOOLEAN : dest' = RestoreJar(jar[1], blobs, store_all)
    /\ pc' = "restored"
    /\ UNCHANGED <<origin, now, jar, blobs, lost, verdict>>

Finished == pc \in {"refused", "restored"} /\ UNCHANGED vars

Next == ScanJar \/ ReplaceSource \/ AttachExact \/ LoseBlob \/ Verify \/ Rehydrate \/ Finished

Spec == Init /\ [][Next]_vars

-----------------------------------------------------------------------------
(* Properties. *)

Untouched == now = origin.bytes
Backend == restore_backend(jar[1])
FullStore == JarBlobs(jar[1])

\* A jar record and an archive are there exactly when the run got that far
\* (dehydrate, verify and rehydrate are three commands in this order).
TypeOK ==
    /\ now \in {origin.bytes} \union origin.heirs
    /\ pc \in {"listed", "scanned", "packed", "verified", "refused", "restored"}
    /\ (jar # None) = (pc \notin {"listed", "refused"})
    /\ blobs \subseteq (IF jar = None THEN {} ELSE FullStore)
    /\ (verdict # None) = (pc \in {"verified", "restored"})
    /\ dest # None => pc = "restored"

\* What a scan of the cells f shows: the listing as name and content pairs.
ListingOf(scanned) ==
    {<<scanned.entries[i].name, scanned.payload[i]>> : i \in DOMAIN scanned.entries}

\* Bytes in front of the first local that are no launcher, since the file
\* starts with a ZIP structure, and that the directory does not count.
UncountedHole == origin.prefix = <<>> /\ ~origin.counted

\* The scan listed the outer archive and not one stored in it.
ListsItself ==
    {jar[1].entries[i].name : i \in DOMAIN jar[1].entries} = {item[1] : item \in origin.listing}

\* A well-formed JAR is not refused, unless it has a launcher and a name
\* twice or an uncounted hole, and its launcher, comment and names are
\* found: decoy headers in the prefix, zip -A offsets and a stored nested
\* ZIP whose EOCD the crate takes do not mislead scan.rs.  (The latch goes
\* unnoticed when the nested ZIP has as many entries as the outer one.)
PrefixIsFound ==
    /\ pc = "refused" =>
         \/ origin.prefix # <<>> /\ origin.rows > Cardinality(origin.listing)
         \/ UncountedHole
    /\ pc = "scanned" =>
         \/ ListsItself /\ OrEmpty(jar[1].prefix) = origin.prefix /\ jar[1].comment = origin.comment
         \/ UncountedHole /\ Len(jar[1].entries) = origin.rows

\* Bytes between the launcher and a directory that lists nothing: no part of
\* a slice has them.
UnlistedBytes ==
    /\ jar[1].entries = <<>>
    /\ Len(OrEmpty(jar[1].prefix)) + Len(jar[1].tail[1]) < Len(origin.bytes)

\* A restore of class exact gives the scanned bytes or fails, whatever was
\* lost and whatever the second reading of the source saw
\* (write_exact_jar, verify_source_identity); and it fails only if a blob
\* is lost, the source was replaced, or there are bytes nothing captured:
\* else the parts slice_from_reader cut are the whole file.
ExactRestoresSource ==
    pc = "restored" /\ Backend = "exact" =>
        \/ dest = Some(origin.bytes)
        \/ dest = None /\ (lost # None \/ ~Untouched \/ UnlistedBytes)

\* DESIGN.md:233: when every slot hits and the tail is kept, the restored
\* file is the source.
ExactIsByteIdentical ==
    pc = "restored" /\ Backend = "exact" /\ lost = None /\ Untouched => dest = Some(origin.bytes)

\* The values of a rebuild fit the fields the source had.
RebuildFits == Len(origin.bytes) + Len(jar[1].entries) < MaxU32

\* A new directory is refused if a name has a component "..".
NamesAreSafe == \A i \in DOMAIN jar[1].entries : ~entry_has_dotdot(jar[1].entries[i].name)

\* What was packed from a file nobody replaced can be restored, by whichever
\* writer its class selects (restore_jars).
PackedJarsRestore ==
    pc = "restored" /\ lost = None /\ Untouched =>
        \/ dest # None
        \/ Backend = "exact" /\ UnlistedBytes
        \/ Backend = "rebuild" /\ (~RebuildFits \/ UncountedHole)
        \/ Backend \in {"skip_exact_seek_synthetic_cd", "skip_exact_concat_synthetic_cd"}
             /\ ~NamesAreSafe

\* Leftover bytes between the directory and a Zip64 record: a rebuild then
\* patches the locator as if they were not there.
LeftoversBeforeZip64 ==
    LET tail == jar[1].tail[1]
        z == find_zip64(tail, find_eocd(tail)[1])
    IN z # None /\ At(tail, z[1]).size > Len(jar[1].entries)

\* DESIGN.md:204: "Rehydrate builds a valid ZIP from index + blobs": what it
\* restores from an archive verify accepted can be opened.
RestoredIsAZip ==
    pc = "restored" /\ verdict = Some(TRUE) /\ Untouched /\ ListsItself /\ dest # None =>
        for_each_jar_entry_with_len(dest[1]) # None

\* A reader that knows nothing of launchers finds the entries of f.
OffsetsAreTheFiles(f) == detect_zip_layout(f)[1].view_shift = 0

\* The restored file is a JAR ayzenpack itself would scan, with the source's
\* launcher, comment and contents, whether it was spliced, patched, given a
\* new directory or zipped anew (which leaves names with ".." out); and a
\* JAR that java could run from its launcher (zip -A) still is one.
RestoredListingIsSource ==
    /\ pc = "restored" /\ dest # None /\ Untouched /\ ListsItself
    /\ ~(Backend = "rebuild" /\ LeftoversBeforeZip64)
    =>  /\ \E again \in ToSet(for_each_jar_entry_with_len(dest[1])) :
              /\ again.prefix = origin.prefix
              /\ again.comment = origin.comment
              /\ ListingOf(again) = {item \in origin.listing :
                                        Backend = "skip_exact_zipwriter" => ~entry_has_dotdot(item[1])}
        /\ OffsetsAreTheFiles(origin.bytes) => OffsetsAreTheFiles(dest[1])

\* verify has no objection to what dehydrate wrote, even if the source was
\* replaced during the run.
VerifyAcceptsOwnPack == verdict # None /\ lost = None => verdict = Some(TRUE)

\* An archive verify accepts restores as the complete one would.
VerifiedHasEveryBlob ==
    pc = "restored" /\ verdict = Some(TRUE) =>
        dest \in {RestoreJar(jar[1], FullStore, store_all) : store_all \in BOOLEAN}

=============================================================================
