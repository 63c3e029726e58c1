# A verification project for ayzenpack

ayzenpack packs JAR files into one `.ayz` archive that stores every distinct
payload once (`dehydrate`), lists and verifies such an archive (`list`,
`verify`), and restores the JARs from it (`rehydrate`). This directory holds
TLA+ models of the parts of the program that are hard to test, TLC
configurations that check them on small instances, and TLAPS proofs of what
matters most for instances of any size. `PROJECT.json` maps each definition to
the lines of Rust it translates, lists the hazards each property is aimed at,
and names for each property a plausible bug that breaks it. Those bugs are the
operators marked "Faulty variant" beside the definition they replace; nothing
else refers to them.

## The system

| component | state | operations | hard part |
|---|---|---|---|
| blob sink (`dehydrate.rs`) | `seen`, `blobs`, END hasher, writer | `remember_blob` | an index kept beside the rows, for the life of the run |
| hash pipeline (`dehydrate.rs`) | reorder map, four counters, bytes in flight, pool, channel | `push_dir`, `push_exploded`, `wait_admit`, `spawn_file`, `drain_nonblocking`, `finish_jar` | threads, back-pressure, panics, counters reused for each JAR |
| container writer (`format/writer.rs`) | open frame, waiting TOC rows, offsets | `write_blob`, `finish` | offsets noted before the thing they locate is written |
| container readers (`format/record.rs`, `lib.rs`) | none | `open_ayz_layout`, `read_ayz_file`, `read_manifest_records`, `verify` | unfinished files, several readers of one format |
| spill and CAS (`rehydrate.rs`, `cas.rs`) | record stream, digests, a directory that may be shared and outlive the run | `spill_to_cas`, `put`, `read_named_blob` | non-atomic writes, leftovers, concurrent runs |
| path replacement (`dehydrate.rs`, `rehydrate.rs`) | sibling file, destination, `committed` | `PendingAyz`, `PendingRestore`, `replace_file` | crashes, refused renames, concurrent runs |
| JAR restore (`rehydrate.rs`) | the files of the restore tree | `restore_jars` and its guards | several files in one run, failures halfway, reruns |
| argument expansion, pack names | the argument list, names in use | `expand_inputs`, `unique_basename` | generated names that collide with given ones |
| JAR scanner (`scan.rs`) | none beyond one call | `detect_zip_layout`, `for_each_jar_entry_with_len`, `scan_from_bytes` | launchers, holes, `zip -A`, directories of nested ZIPs |
| stencil (`exact.rs`, `dehydrate.rs`, `deflate.rs`, `manifest.rs`) | the `Jar` of the manifest and its blobs | `slice_from_reader`, `classify_local`, `probe_explode`, `attach_exact`, `restore_backend` | two readings of one file, two parsers of one directory |
| JAR writers (`rehydrate.rs`, `reconstruct.rs`, `exact.rs`, `cd.rs`) | the file being written | the five writers, the patch functions, `reconstruct_child_zip` | offsets, sizes and Zip64 fields that move together |
| entry checks of `verify` (`lib.rs`) | none | `verify_entry`, `verify_nested_index` | what it forgets is missed only at the restore |
| `cli.rs`, `stats.rs`, `error.rs`, `hashutil.rs` | none | parsing, output, wrappers | none |

The main thread of `dehydrate` owns the sink and the writer. It calls the
scanner, which calls back once for each entry; the callback hands payloads to
the pool and applies finished ones to the sink, which feeds the writer. The
writer fills the sibling file of a `PendingAyz`, which replaces the output when
all is done. `rehydrate` is sequential within one process: it spills all
records to the CAS directory, compares three digests, then writes each selected
JAR through a `PendingRestore`, with the writer its restore class asks for. What the two sides share is the
file format, and with other processes the file system.

What makes each part correct:

- packing: the archive is the one that a single job writes, at any `--jobs`;
  memory stays under the cap; every run ends;
- container: every stored row locates what it names; all readers find the same
  manifest; an unfinished file does not open;
- spill: the two readers accept the same payloads, except that `verify` alone
  looks at the sizes and SHA-256 of the catalog; leftovers and overlapping puts
  leave no half written blob behind that a later run would not repair;
- replacement: old or new, never something in between; the outcome is true;
- restore: success means that every JAR is there, and nothing is lost that the
  options do not allow to be lost;
- one JAR: the launcher and the listing the scanner finds are those of the
  outer archive; what was packed can be restored; a restore of class exact
  gives the source byte by byte, and any other one gives a JAR with the same
  launcher, comment, names and contents; what `verify` accepts has every blob.

## Modules

    BlobSink <- SeqPack <- Pipeline <- PipelineInv <- PipelineProps <- MCPipeline
                                            ^                ^-- ArchiveProofs
                                            '-- PipelineProofs <-----'
    AtomicFile <-(refines)- Replace <- ReplaceProofs
    AyzWriter <- AyzWriterInv <- MCAyzWriter, AyzWriterProofs
    Spill <- SpillInv <- MCSpill, SpillProofs
    PackNames <- Restore <- RestoreInv <- MCRestore, RestoreProofs
    ZipCells <- ZipCrate <- ZipLayout <- ZipSlice <- ZipStencil <- VerifyJar  <-.
            ^-- ZipPatch <------------------------------- JarWriters <- JarRoundTrip
    JarRoundTrip <- JarRoundTripInv <- MCJarRoundTrip, JarRoundTripProofs
    Counting (members of a set of numbers in order, concatenation)
        <- ZipCells, PackNames, PipelineProps, NumberLemmas
    NumberLemmas <- ArchiveProofs, RestoreProofs, JarRoundTripProofs

A module `XInv` has the inductive invariant of X, which TLC checks in the run of
X and `XProofs` proves. The type invariant `TypeOK` of X is part of it.

**BlobSink** is `remember_blob`. The BLOB records, the END digest and the rows
of `blobs` grow in one call and in one order, so a single sequence stands for
all three. BLAKE3 is taken to be injective, here and everywhere.

**SeqPack** is packing with one job: the `pipeline == None` arms. It is the
specification of the pipeline. An input is what the scanner finds in a path:
whether it can be read, whether it is signed, its entries, and the blobs that
belong to the JAR itself (prefix, local headers and codecs, pad, tail).

**Pipeline** is packing with several jobs. The main thread is cut where a
worker can get in between; `call` is the method of `HashPipeline` it is in and
`pc` the loop within it:

| action | code |
|---|---|
| `ScanEntry`, `ScanEnds`, `ScanFails`, `UnreadableInput` | the loop over paths and the scanner's callback |
| `Receive`, `ReceivePanic`, `ReceivedAll` | `recv_one`, `try_recv_all` |
| `TakeOne`, `TakeEnds` | `take_in_order`, and the return to its caller |
| `Admit`, `ReturnBatch`, `WaitForRoom` | the three exits of `wait_admit` |
| `SpawnFile`, `InsertReady` | `spawn_file`; `push_dir` and `push_exploded` |
| `FinishWaits`, `FinishFlushes` | `finish_jar` |
| `ApplyBlob`, `ApplyEntry`, `ApplyCrcFails`, `Applied`, `StoreFails` | `apply_sequenced` and the loop around it |
| `SignatureFails`, `AttachBlob`, `AttachJar` | the tail of the per-JAR loop |
| `HashDone`, `HashPanics`, `HashAborts` | the worker's closure |

The pool is a set any member of which may finish next, which covers every
number of threads; the mpsc channel is a sequence. `Unwinds` tells a build
whose workers report a panic (`catch_unwind`) from the release profile, where
`panic = "abort"` ends the process. The `Err(())` of a panic carries no
sequence number, and neither does it in the model. **PipelineInv** holds the
inductive invariant, **PipelineProps** the reference definition of the archive and
of the memory that is really in use.

**AyzWriter** has the writer's fields as variables, and beside them what is
really in the file: each frame with its true position and length, each record
with its true offset. A frame compresses to any length in `CompressedLen`, so
nothing can hold by a lucky arithmetic of lengths. The readers are predicates
over that file. An I/O error ends the writer in the state `failed`.

**Spill** reads a payload record by record, as `spill_to_cas` does, with
`cas::put` in two steps (truncate, write), either of which may fail or be cut off
by a kill (`WriteFails`, `IoFails`, `Kill`). A blob file is absent, partial or
whole. `StreamAccepted` states what both readers ask of a stream, `VerifyAccepts`
what `read_records` and `verify` ask of it: the latter also compares the size and
the SHA-256 of each catalog row with the blob (lib.rs:122), which `spill_to_cas`
does not. Whether those agree is the field `right` of a MANIFEST record. The
variables `overtaken`, `interrupted` and `failed` have no counterpart in the code; they
remember whose put another one truncated, which files nobody will complete, and
who met an I/O error.

**AtomicFile** is the promise about one path, **Replace** the protocol that is
to keep it. Names point to inodes, so a handle that is still open and a name
that has moved on are different things. `Sequential` says whether runs may
overlap, `RenameMayFail` whether the system may refuse to rename over a file.
`PendingAyz` and `PendingRestore` are the same protocol; the differences (how
the sibling is checked, what follows the commit) are covered by
nondeterminism.

**PackNames** has `expand_inputs` and `unique_basename` as operators. A path is a
record of directory, stem and extension, since names are made from stems; a
directory is listed in any order (`WalkOrders`), and the sort and the removal of
duplicates come after. Selections and the sort are written with positions (`Picked`,
`Place`), since the prover knows no definition of `SelectSeq` and `SortSeq`.

**Restore** starts from the arguments of one `dehydrate` (`SkipInput`, `NameJar`,
`Packed`), so that the names it restores are names a pack can have. The constant
`Canonical` maps a path to the canonical path of its file, which
`collect_restore_meta` records, while `dedupe_inputs` compares the paths as they are
given: a file with two spellings is packed twice and has one `restore_path`. The module
then runs the protocol of Replace over all selected JARs of one tree, in fewer
steps per path, under all combinations of `--clean`, `--overwrite`,
`--restore-paths` and `--only`. `replace_file` has all its exits here too: `RenameFails`
over anything that exists goes on to `UnlinkDest` and `RenameAgain`, and a failure or a
kill may come between any two of them. `unlinked` remembers the destinations so
removed.

### One JAR

The ZIP modules are functions, and JarRoundTrip is the small state machine that
calls them in the order of the program: `ScanJar`, `AttachExact`, `Verify`,
`Rehydrate`, with two events from outside, `ReplaceSource` (the file changes
between the two times dehydrate opens it) and `LoseBlob` (an archive lacks a
blob its manifest names).

A file is a sequence of *cells*. Every ZIP structure is one cell, with the fields
the code reads as a record, and so is every unit of payload; offsets and sizes
count cells. That keeps all arithmetic of offsets (who adds the prefix, what a
hole shifts, which field needs Zip64) and drops the layout within a structure.
The sentinels 0xFFFFFFFF and 0xFFFF are the constants `MaxU32` and `MaxU16`, small
enough for a file of a dozen cells to reach them.

| module | code |
|---|---|
| `ZipCells` | resolving Zip64 fields, `find_eocd` and `find_cd_bounds`, codecs and the order in which `match_deflate` tries them |
| `ZipCrate` | external: the zip crate, from how `scan.rs`, `exact.rs` and `rehydrate.rs` use it |
| `ZipLayout` | `scan.rs`: where the archive starts, whether the listing is the outer one |
| `ZipSlice` | `exact.rs`: `slice_from_reader` and what it calls |
| `ZipStencil` | `dehydrate.rs`, `reconstruct.rs`, `manifest.rs`: `classify_local`, `probe_explode`, `attach_exact`, slots, `restore_backend` |
| `ZipPatch` | `exact.rs`, `cd.rs`: patching headers, rows and the end of the directory; a directory written anew |
| `JarWriters` | `rehydrate.rs`: the five writers |
| `VerifyJar` | `lib.rs`: the checks of entries and nested indexes |

DEFLATE is a codec name with a length: the streams of "zlib" and "flate2" are
reproducible, those of "other" are not and may be longer or shorter than what a
rebuild makes of them, so that a rebuilt slot grows, shrinks or keeps its size.

## Runs

| run | instance | shows |
|---|---|---|
| `pipeline` | 2 JARs of 7 and 4 entries around an unreadable path, cap 3 bytes | `ImplementsSequential` and the other safety properties on a concrete instance; at every moment, and at the end, the archive equals a reference definition of first-seen order; the charged payloads that are alive stay under the cap; the run always completes |
| `pipeline_panic` | strict, workers may panic, a signed JAR | every wait ends and the invariant holds to the moment of failure |
| `pipeline_strict` | strict, CRC mismatch, aborting build | every run ends |
| `ayz_writer` | all rows of up to 4 blobs of 4 sizes, 2 lengths per frame | the table of contents locates every blob; `list` and `verify` see the same manifest; grouping does not depend on compression; a file cut short is refused, also where it ends right behind an embedded archive of up to `MaxBlobs` blobs |
| `spill` | 2 processes over one `--cas-dir`; all payloads of up to 3 records of 14 kinds and of 4 records of 8 kinds, and whole ones with one record replaced; kills, I/O errors, reruns | `rehydrate` comes to restoring only over what `verify` accepts, catalog rows excepted, and fails over it only for an I/O error or a process it shares blobs with; overlapping puts of a blob converge to a whole file |
| `replace` | 3 runs, 2 pieces per file, failures and kills anywhere, refused renames | the invariant, the refinement of AtomicFile, true outcomes, no leftovers |
| `restore` | 21 commands over seven files, one of them under two spellings, two directories and a missing path; every walk order, every tree in the way, refused renames, one rerun | a pack has each path once under a name of its own, sorted or not; success means all restored; a destination is old or new, and empty only by `--clean` or by the unlink of `replace_file`; nothing is clobbered without leave |
| `jar_round_trip` | 2862 sources: 8 fronts x 7 endings x 19 kinds of entry, pairs and triples of them, files around the 32-bit limit, directories that list nothing | see below |
| `replace_shared` | 2 overlapping runs | violation: see below |
| `restore_clash` | JARs `y/a.jar.tmp` and `lib/a.jar` | violation: see below |
| `rebuild_leftovers` | one JAR with and without bytes behind its directory | violation: see below |
| `empty_directory` | an entry the directory does not list, with and without a launcher | violation: see below |

`jar_round_trip` compares what was restored with what the source was built from,
never with what the scanner made of it:

- `PrefixIsFound`: no decoy header, offset convention or nested directory misleads
  the scanner;
- `ExactRestoresSource`: a restore of class exact gives the scanned bytes or
  fails, also after `ReplaceSource` and `LoseBlob`; and without one of those it
  fails only if the directory lists nothing and there are bytes in front of it
  (`UnlistedBytes`);
- `PackedJarsRestore`: every other refusal of a writer would be a JAR that was
  packed for nothing; the three conditions under which one does refuse are named
  (`RebuildFits`, `UncountedHole`, `NamesAreSafe`);
- `RestoredListingIsSource`: the restored file, scanned again, has the source's
  launcher, comment, names and contents;
- `VerifyAcceptsOwnPack` and `VerifiedHasEveryBlob`: verify is neither stricter
  than dehydrate nor laxer than rehydrate.

Why the bounds are enough. The pipeline keeps nothing from one JAR to the next
but the sink (`JarLeavesNothing`), so two JARs show what any number does. The
entries include every kind, contents shared between entries, JARs and exploded
children, an entry over the cap, one that fits exactly and an empty one; up to
three payloads are in flight at a time. The writer's sizes lie
on, below and above the flush limit, and four blobs fill up to four frames. Four
records are enough for every order of BLOB, MANIFEST and END with one of them
doubled or out of place; those of four records leave out kinds that already fail
alone, such as a blob with a wrong name. Two processes are enough for a put to meet
a put or a read. With three runs, a run can find what a run found that found a
leftover. The commands of `restore` name files twice, spell them in two ways, name
and find them, exclude them, and have base names that differ in a generated suffix
only. The sources of
`jar_round_trip` have each feature alone and with the others; a slot meets at
most its neighbours, the prefix and the tail, so three entries give every
position. `MaxU32 = 13` lets sizes and offsets fall on both sides of the limit
and on it, and `MaxU16 = 3` does so for the number of entries.

Fairness. `PipeSpec` assumes weak fairness of the main thread, which never
stops by itself, and of the pool: rayon runs what it is given as long as a
thread is alive, and a panicking closure is caught within the closure. There is
no fairness on I/O errors, panics or aborts. The other modules check safety
only. `CHECK_DEADLOCK FALSE` is set, except for JarRoundTrip, since packing,
writing and restoring end.

### What the violated runs show

- `replace_shared`: the sibling name is fixed, so two `dehydrate -o` to one path
  write one file, and a file without a trailer can end up as the destination.
  The guarantee in the comment of `PendingAyz` holds for runs that follow one
  another, and for those it is proved.
- `restore_clash`: pack names are unique among themselves but not with regard to
  `name + ".tmp"`. A pack of `a.jar.tmp` and `a.jar` restores to `a.jar` alone and
  reports success.
- `rebuild_leftovers`: bytes between the last row of the directory and a Zip64
  record are counted by the source's directory size and kept with the tail
  (DESIGN.md:217 wants such JARs spliced). `write_rebuilt_jar` computes the Zip64
  locator from the rows alone, so the locator of the rebuilt JAR leads in front of
  the record. Restore reports success, and the result does not open.
  `RestoredListingIsSource` leaves out exactly these JARs
  (`LeftoversBeforeZip64`).
- `empty_directory`: `slice_from_reader` looks for bytes in front of the first
  local only if there is one. With a directory that lists nothing, what lies
  between the launcher (or the start) and the directory is in no part. Such a JAR
  is of class exact, `verify` accepts its archive, and `write_exact_jar` fails on
  the hash, though DESIGN.md:233 promises a byte-identical file for this class.
  The attempt to prove that an exact restore never fails showed it:
  `UnlistedBytes` is the one case in which the parts do not tile the file.

Facts of the ZIP side that the properties had to allow for:

- The check for a nested directory in `pk_start_is_nested_eocd_latch` compares
  numbers of entries. A file that starts with a ZIP structure, has a hole in front
  of its first entry that its offsets do not count, and stores a nested ZIP with as
  many entries as itself, is packed as if it were the nested one (`ListsItself`
  is false). With other numbers it is refused, as the tests of `scan.rs` want.
- A hole that the offsets do not count makes `detect_offset_mode` fail, so a JAR
  with such a hole and a slot to rebuild packs, verifies, and cannot be restored
  (`UncountedHole`), although DESIGN.md:204 promises a valid ZIP. An empty archive behind such a hole cannot be restored
  either and is not among the sources.
- A JAR with a launcher that lists a name twice is refused: the count of the crate
  is that of the distinct names.
- A rebuild cannot add a Zip64 field the source did not have: one that outgrows
  a 32-bit field fails, and one that reaches the sentinel exactly is written as
  if it were a value (`RebuildFits`).
- ZipWriter leaves out names with a `..` component, the writers that make a
  directory of their own fail on them, exact and rebuild keep them.
- When the source is replaced between the two readings, headers of the new file
  may be paired with contents of the old one. An exact restore then fails; a
  rebuild does not notice, which is why `RestoredListingIsSource` asks for an
  untouched source.

Facts of the restore side:

- Where a rename over an existing file is refused, `replace_file` unlinks the file and
  renames again, so a kill or a second refusal in between loses the old file, against
  the comment at `prepare_restore_dest` ("Dest is not unlinked") and DESIGN.md:180. On
  POSIX file systems the branch is practically unreachable; on Windows it is what the
  comment in the code says it is for. `ReplacesAtomically` allows the loss only there
  (`MayLose`), and `DestsAreOldOrNew` only for destinations in `unlinked`: `replace` and
  `restore` both reach it, so that dropping the exception makes either fail.
- `--clean` removes a destination before its JAR is rebuilt, so each failing run may
  cost one file (`DestsAreOldOrNew`).
- A file that has a JAR's sibling name is silently truncated (`NothingIsClobbered`
  excludes those names).
- A file packed under two spellings of its path is restored twice to one place by
  `--restore-paths`. This does no harm as long as both have the same bytes
  (`EveryJarIsRestored` and `DestsAreOldOrNew` speak of `Copies`); if the file changed
  between the two readings, the later one wins.
- An archive whose catalog states a wrong size or SHA-256 is refused by `verify` and
  restored by `rehydrate` (`VerifiedRestores` excepts it): every blob is checked by
  its BLAKE3 hash only.

## Proofs

`PipelineProofs` proves, for every sequence of inputs, every cap, every build
profile and every interleaving, under the assumptions `InputsAssumption` and
`PipelineAssumption` (the shape of an input, and a cap in `Nat`):

- `PipelineInvariant`: `PipeSpec => []IInv`. None of the safety properties is
  inductive by itself: that the cap holds needs the account to be exact, which
  needs every item to be in one place under its own number, which needs the
  control state to tell who may number an item. `IInv` is therefore a
  conjunction of parts: control (`ControlInv`), places of items (`PlaceInv`), no
  item lost except to a panic not yet heard of (`NothingLost`), results still
  due are in the pool or in the channel (`CountInv`), batches in scan order
  (`BatchInv`), the account (`InflightExact`) and room made before it is used
  (`RoomInv`). The step is proved action by action.
- `AccountIsExact`, `CapHolds`, `NeverAccountingDeadlock`, `DedupIsConsistent`,
  `JarsDoNotOverlap`, `PipelineTypes` follow from it. That the accounting
  deadlock cannot occur is the pigeonhole argument over `CountInv`,
  `NothingLost` and `InflightExact`: with nothing due and nothing to take,
  nothing is in flight.
- `ImplementsSequential`: `PipeSpec` implements SeqPack's `Spec`. Only the
  actions that apply, attach, skip, finish or fail touch the archive; `BatchInv`
  makes each of them the step that a single job would take next.

`ReplaceProofs` proves, for any number of runs and pieces and under
`Sequential`: `AtomicInvariant`, `OutcomesAreTrue`, `RunsReturnClean` (a run that
returns leaves no sibling behind) and `ReplacementIsAtomic`, the refinement of
AtomicFile. The invariant says which inode the sibling name
and the handle of the active run point to; without it a rename could put
anything at the destination.

`RestoreProofs` proves, for any arguments, walks, number of JARs, options,
failures, kills and runs:

- `PackHasUniqueNames`: the invariant adds to `NamesAreUnique` only that the
  catalog is a sequence; `NewNameIsNew` needs the least-number principle, since
  `unique_basename` takes the first free number.
- `PackHasEachPathOnce`: `ExpandedInputs` shows that what `expand_inputs` returns has
  the reached paths once each and, when sorted, in order, from lemmas on selection
  (`PickedElements`), duplicates, the stable sort and concatenation; `PackInv` carries
  that through the naming of the JARs, split between the catalog and what is left to do. It
  takes from `PathsAssumption` that paths are totally ordered and that a directory is
  what has paths below it.
- `CarefulRestoreKeepsFiles`: no step of a run without `--overwrite`, `--clean`
  and `--restore-paths` changes a path that holds something, sibling names
  excepted. By itself this does not survive the step from `guard_dest` to the
  rename; `FreeInv` says that in between the destination stays as free as it was
  found, or is itself a sibling name (the case of `restore_clash`).
- `RestoreInvariantHolds`: `RestoreInvariant`, and from it `RestoreTypes`,
  `SuccessRestoresEveryJar` and `DestinationsAreOldOrNew`, each in the form
  `[](DestsApart => ...)`. `DestsApart` says that no destination is the sibling
  name of a selected JAR, which nothing in the code sees to: `restore_clash` is
  the run in which it fails, and all states of `restore` satisfy it. "Each run
  empties at most one destination" is not inductive; `CleanInv` counts the destinations
  emptied by `--clean` or by `replace_file`'s unlink in every control state, with and
  without the JAR at hand, and `DoneInv` says where that JAR is. Two JARs may have one
  destination, so the counting is over paths, not over JARs.

`ArchiveProofs` proves what an archive is, for any inputs, jobs and cap:

- `SequentialPacking`: in SeqPack, the table is at every moment the first-seen
  table of the blobs applied so far (`SeqInv`). `FirstSeenOfNew`, `FirstSeenOfRepeated`
  and `RememberAppends` are the heart of it: the first-seen table of a sequence with
  one blob more is what `remember_blob` makes of the table before.
- `PackingIsFirstSeen` and `ArchiveIsTheInputs` carry that over to the pipeline
  through `ImplementsSequential`: the pipeline packs what a single job packs, and a
  single job packs the reference.
- `MemoryIsBounded`: the code's account leaves out the batch, so `CapHolds` says
  nothing of the payloads that are alive. Those are entries between the last one
  applied and the last one handed over, and `Span` is the number of bytes between
  the two. It shrinks as entries are applied, and `wait_admit` lets the next one in
  only once the batch is applied, within the cap or into an empty span (`SpanStep`).
  That the sum over the set of live items stays within the span is
  `SumIsWithinOffsets`.

The reference definitions are recursive functions and sums. What has to be known
of them for every length is proved from the least number for which it fails
(`LeastExists` in `NumberLemmas`, which rests on the well-foundedness of the natural
numbers), in place of an induction rule.

`AyzWriterProofs` proves, for any blobs, sizes, flush limit and compressed lengths,
`WriterInvariant` and from it `FramesTile`, `Grouping`, `TocIsRight`
and `ManifestIsLast`. A row of the table of contents is
noted before the frame it is in has an end, so `TocLocatesBlobs`, which speaks of the
finished file, is not inductive: `RowsInv` says of a waiting row which
record of the open frame it is about, and `PositionsInv` where that frame
will be put.

`SpillProofs` proves, for any number of processes over one directory, any payloads,
I/O errors, kills and reruns, `SpillInvariantHolds`, `ReadersAgree` and
`PutsConvergeHolds`. `ReadingInv` says what the records read so far are, which ties
the streaming reader to `StreamAccepted`. `DirectoryInv` says what a process may rely
on: a blob it has put is whole, unless it is putting the same content again or another
process shares the blob. Those two exceptions are all that a `put` that truncates
before it writes can do to a reader. `PutsConverge` is inductive with `ReadingInv`: each
truncation makes its process the one that is not overtaken, and only the end of
that one's put, or its interruption, settles what the file holds.

`JarRoundTripProofs` proves, for any sequence of cells as a source and any files
that may take its place, `RoundTripInvariant` and from it:

- `ExactOrNothing` (`ExactRestoresSource`). That nothing but the scanned bytes comes
  out needs only the comparison at the end of `write_exact_jar`. That the
  comparison succeeds is the longest proof of the project. The locals, each with
  its pad, tile the file from the first of them to the directory (`LocalsTile`:
  each ends where the next greater offset starts, and several entries may share
  one), so the slice is a cut of the file (`SliceIsCut`, which takes from the
  crate's listing and from `find_cd_bounds` that all places are inside the file).
  Every slot of class exact gives its stored bytes again (`SlotOfJarReproduces`):
  a DEFLATE stream because `match_deflate` compressed it and compared
  (`MatchReproduces`), a stored one because the listing read its content from the
  same cells (`MemberIsStored`), a nested ZIP because `probe_explode` put it
  together once (`ProbeIsSound`). Writing the slots in the order of the entries
  over the front gives the file up to the directory, whatever that order is and
  wherever slots overlap, since each writes only cells of the file at their own
  places (`Partial`, `SlotsAreWritten`), and the tail completes it
  (`TailCompletes`). `ExactIsWhole` puts this together.
- `UnpatchedJarsRestore`: `PackedJarsRestore` for the classes that patch nothing
  (`NothingIsPatched`). The slots of a jar without a tail are read back in the same way
  (`SlotReadsBack`), with the size the entry says, so that only a name can stop
  the directory behind them (`SeekGivesJar`); a ZIP written anew needs only the
  contents (`ZippedAnewIsWritten`).
- `OwnPackIsAccepted` and `AcceptedIsComplete`. They need `JarSound`: what
  `attach_exact` makes of any file has every blob in its place, and a nested ZIP is
  taken apart only where its own blobs put it together again;
  `verify_jar` is then shown to ask for each blob that one of the writers reads.

`JarIsAsRead` is the part of the invariant that says which scan and which slice a
jar was made from; without it nothing is known of the parts of a packed jar but that
they are there. Two assumptions are used: a source is a finite sequence of cells
whose fields have the types of the format (`SourcesAssumption`; every file is that,
read as structures where there are some and as raw bytes elsewhere), and the limit of a
prefix is a number (`PrefixAssumption`). That slots are written with a recursive function
(`Written`) has a price: that the function exists for every number of slots is shown first
(`WrittenIsDefined`).

Only model-checked:

- liveness under fairness (`CompletesUnlessIoFails`, `Terminates`): out of the
  prover's reach, as is anything with ENABLED;
- `OnlyWholeFilesOpen`: the files it cuts, and the archives embedded in them, are
  arithmetic of `LayoutAccepts` over bounded sizes;
- `PrefixIsFound` and `RestoredListingIsSource`: they relate the scanner's answer to how a
  source was built, and hold of the sources that MCJarRoundTrip builds; for an arbitrary
  sequence of cells there is nothing to compare with.
- `PackedJarsRestore` for the classes rebuild and concat, and behind a launcher for a ZIP
  written anew: whether a patched value fits, and which end record a search from the
  end finds, depends on how well formed the source is (a local header that contradicts
  its row, a comment that holds an end record), which is again a matter of how it
  was built.

## What the models leave out

- File contents below the level of a piece, a record or a blob; JSON, hex,
  names, logging, statistics.
- `--dry-run` (packing without a writer), v1 archives, header parsing.
- Symbolic links, permissions, and a sibling that cannot be removed
  (`Drop` ignores the error of `remove_file`).
- Reordering of writes by a crash of the machine: a kill is a kill of the
  process, and what it wrote is there. The code calls no fsync.
- In ZIP files: encryption, names that are not UTF-8 and the replacement of bytes in
  comments that are not (`scan.rs` decodes those lossily), the 64 KiB windows of the
  backward searches, methods other than stored and deflated, dates, modes,
  `--max-entry-bytes`, and the `raw_zip_blob` and `cdata_blob` of archives written
  by old versions, which the present writer never makes. Two wide descriptors
  whose sizes do not ask for Zip64 are not told apart by content but by length.
- A pattern of `--exclude` is a base name or a whole path; glob syntax is the
  glob crate's.
- A path that cannot be made canonical although its file has just been read: the
  code records it as it is, and a relative one is refused by `restore_dest`.
- In the account of memory: the header, pad, prefix and tail bytes of an exploded
  child, which the code does not charge either (dehydrate.rs:1158-1182).

## Plan

1. Done: all models of the list above; the theorems of the section on proofs.
2. **Composition**: the container writer driven by the packer, to state that an
   archive committed by Replace is one that Spill accepts.
