------------------------------- MODULE Spill --------------------------------
(***************************************************************************)
(* Reading an archive back: `rehydrate` streams the records of the payload *)
(* into a content-addressed directory (spill_to_cas), compares the digests *)
(* once it has seen END, and then restores from the directory.             *)
(*                                                                         *)
(* The directory may outlive the run (--cas-dir), hold what an earlier run *)
(* left when it was killed, and be filled by several runs at a time.       *)
(* cas::put is a plain fs::write: truncate, then write, either of which may *)
(* fail.  A blob file is therefore "absent", "partial" or "whole".         *)
(*                                                                         *)
(* A stream is the decompressed payload, record by record.  `good` says    *)
(* whether a blob's bytes hash to the name it carries; "torn" is a record  *)
(* that ends early or has an unknown type; BLAKE3 digests over a list of   *)
(* hashes are represented by the list.  Of a MANIFEST, `known` says whether *)
(* it parses and has the format's name, `right` whether the size and the    *)
(* SHA-256 of every row of its catalog are those of the blob.               *)
(***************************************************************************)
EXTENDS Naturals, Sequences, FiniteSets

CONSTANTS Proc,             \* rehydrate processes sharing one --cas-dir
          Hash,
          Streams,          \* the payloads the processes' input files may have
          Kills             \* processes may be killed

Record ==
  [kind : {"blob"}, hash : Hash, good : BOOLEAN]
    \cup [kind : {"manifest"}, blobs : Seq(Hash), known : BOOLEAN, right : BOOLEAN]
    \cup [kind : {"end"}, digest : Seq(Hash)]
    \cup [kind : {"torn"}]

ASSUME SpillAssumption == Streams \subseteq [Proc -> Seq(Record)] /\ Kills \in BOOLEAN

VARIABLES stream,           \* what each process reads
          pos,              \* records read so far
          manifest,         \* <<>> or <<the MANIFEST record>>
          hasher,           \* stream_hasher: hashes spilled so far
          pc,               \* where each process is
          restored,         \* blobs of the catalog read back
          cas,              \* hash -> "absent", "partial", "whole"
          overtaken,        \* processes whose put another one truncated
          interrupted,      \* files whose last truncation was never followed by the bytes
          failed            \* processes that met an I/O error in their present attempt

vars == <<stream, pos, manifest, hasher, pc, restored, cas, overtaken, interrupted, failed>>

TypeOK ==
  /\ stream \in [Proc -> Seq(Record)]
  /\ pos \in [Proc -> Nat]
  /\ manifest \in [Proc -> Seq(Record)]
  /\ hasher \in [Proc -> Seq(Hash)]
  /\ pc \in [Proc -> {"spill", "put", "check", "restore", "ok", "err", "killed"}]
  /\ restored \in [Proc -> Nat]
  /\ cas \in [Hash -> {"absent", "partial", "whole"}]
  /\ overtaken \subseteq Proc
  /\ interrupted \subseteq Hash
  /\ failed \subseteq Proc

\* A directory of any earlier history.
Init ==
  /\ stream \in Streams
  /\ cas \in [Hash -> {"absent", "partial", "whole"}]
  /\ pos = [p \in Proc |-> 0]
  /\ manifest = [p \in Proc |-> <<>>]
  /\ hasher = [p \in Proc |-> <<>>]
  /\ pc = [p \in Proc |-> "spill"]
  /\ restored = [p \in Proc |-> 0]
  /\ overtaken = {}
  /\ interrupted = {h \in Hash : cas[h] = "partial"}
  /\ failed = {}

AtEof(p) == pos[p] = Len(stream[p])
Rec(p) == stream[p][pos[p] + 1]
Reads(p, kind) == pc[p] = "spill" /\ ~AtEof(p) /\ Rec(p).kind = kind
Goto(p, l) == pc' = [pc EXCEPT ![p] = l]

\* The file of the blob being put: other processes may be putting it too.
Writers(h) == {q \in Proc : pc[q] = "put" /\ Rec(q).hash = h}

\* Faulty variant: the put is skipped when the file already exists.
BeginPutIfAbsent(p) ==
  /\ Reads(p, "blob")
  /\ manifest[p] = <<>>
  /\ Rec(p).good
  /\ IF cas[Rec(p).hash] = "absent"
       THEN /\ cas' = [cas EXCEPT ![Rec(p).hash] = "partial"]
            /\ Goto(p, "put")
            /\ UNCHANGED <<pos, hasher>>
       ELSE /\ hasher' = [hasher EXCEPT ![p] = Append(@, Rec(p).hash)]
            /\ pos' = [pos EXCEPT ![p] = @ + 1]
            /\ UNCHANGED <<cas, pc>>
  /\ UNCHANGED <<stream, manifest, restored, overtaken, interrupted, failed>>

\* A BLOB in its place with the right hash: its file is truncated.
BeginPut(p) ==
  /\ Reads(p, "blob")
  /\ manifest[p] = <<>>
  /\ Rec(p).good
  /\ cas' = [cas EXCEPT ![Rec(p).hash] = "partial"]
  /\ Goto(p, "put")
  /\ overtaken' = (overtaken \cup Writers(Rec(p).hash)) \ {p}
  /\ interrupted' = interrupted \ {Rec(p).hash}
  /\ UNCHANGED <<stream, pos, manifest, hasher, restored, failed>>

\* What the file may hold when a put stops short: what it has, or all of it if
\* the process was killed behind the last byte or others wrote the rest.
Short(p) == {cas[Rec(p).hash], "whole"}

\* All its bytes are written and the next record is read.  If another process
\* has truncated the file meanwhile, the bytes in front of that moment are
\* missing until they are written again.
EndPut(p) ==
  /\ pc[p] = "put"
  /\ \E s \in IF p \in overtaken THEN Short(p) ELSE {"whole"} :
       cas' = [cas EXCEPT ![Rec(p).hash] = s]
  /\ hasher' = [hasher EXCEPT ![p] = Append(@, Rec(p).hash)]
  /\ pos' = [pos EXCEPT ![p] = @ + 1]
  /\ Goto(p, "spill")
  /\ UNCHANGED <<stream, manifest, restored, overtaken, interrupted, failed>>

\* A put that stops for good: nobody will write what is missing if it was the
\* last to truncate the file.
Interrupt(p) ==
  /\ \E s \in Short(p) : cas' = [cas EXCEPT ![Rec(p).hash] = s]
  /\ interrupted' = interrupted \cup (IF p \in overtaken THEN {} ELSE {Rec(p).hash})

\* Faulty variant: the error of the write is dropped and the run goes on.
WriteFailsUnseen(p) ==
  /\ pc[p] = "put"
  /\ hasher' = [hasher EXCEPT ![p] = Append(@, Rec(p).hash)]
  /\ pos' = [pos EXCEPT ![p] = @ + 1]
  /\ Goto(p, "spill")
  /\ UNCHANGED <<stream, manifest, restored, cas, overtaken, interrupted, failed>>

\* fs::write fails behind the truncation, and `?` ends the run.
WriteFails(p) ==
  /\ pc[p] = "put"
  /\ Interrupt(p)
  /\ Goto(p, "err")
  /\ failed' = failed \cup {p}
  /\ UNCHANGED <<stream, pos, manifest, hasher, restored, overtaken>>

\* Any other I/O error: reading the archive, making the directory or opening
\* the file of a blob, reading one back, writing a JAR.
IoFails(p) ==
  /\ pc[p] \in {"spill", "restore"}
  /\ Goto(p, "err")
  /\ failed' = failed \cup {p}
  /\ UNCHANGED <<stream, pos, manifest, hasher, restored, cas, overtaken, interrupted>>

ReadManifest(p) ==
  /\ Reads(p, "manifest")
  /\ manifest[p] = <<>>
  /\ manifest' = [manifest EXCEPT ![p] = <<Rec(p)>>]
  /\ pos' = [pos EXCEPT ![p] = @ + 1]
  /\ UNCHANGED <<stream, hasher, pc, restored, cas, overtaken, interrupted, failed>>

ReadEnd(p) ==
  /\ Reads(p, "end")
  /\ manifest[p] # <<>>
  /\ Goto(p, "check")
  /\ UNCHANGED <<stream, pos, manifest, hasher, restored, cas, overtaken, interrupted, failed>>

\* A record out of order, a blob with the wrong name, a torn record, no END.
Refuse(p) ==
  /\ pc[p] = "spill"
  /\ \/ AtEof(p)
     \/ Reads(p, "torn")
     \/ Reads(p, "blob") /\ (manifest[p] # <<>> \/ ~Rec(p).good)
     \/ Reads(p, "manifest") /\ manifest[p] # <<>>
     \/ Reads(p, "end") /\ manifest[p] = <<>>
  /\ Goto(p, "err")
  /\ UNCHANGED <<stream, pos, manifest, hasher, restored, cas, overtaken, interrupted, failed>>

\* The three comparisons after END: what was spilled, what END says and what
\* the catalog lists must be the same blobs in the same order.
DigestsAgree(p) ==
  /\ hasher[p] = Rec(p).digest
  /\ manifest[p][1].blobs = Rec(p).digest
  /\ manifest[p][1].known

Check(p) ==
  /\ pc[p] = "check"
  /\ Goto(p, IF DigestsAgree(p) THEN "restore" ELSE "err")
  /\ UNCHANGED <<stream, pos, manifest, hasher, restored, cas, overtaken, interrupted, failed>>

\* read_named_blob for the blobs of the catalog, one after the other: a missing
\* file and a hash mismatch are errors.
Catalog(p) == manifest[p][1].blobs
NextBlob(p) == Catalog(p)[restored[p] + 1]
Restoring(p) == pc[p] = "restore" /\ restored[p] < Len(Catalog(p))

ReadBlob(p) ==
  /\ Restoring(p)
  /\ cas[NextBlob(p)] = "whole"
  /\ restored' = [restored EXCEPT ![p] = @ + 1]
  /\ UNCHANGED <<stream, pos, manifest, hasher, pc, cas, overtaken, interrupted, failed>>

ReadBlobFails(p) ==
  /\ Restoring(p)
  /\ cas[NextBlob(p)] # "whole"
  /\ Goto(p, "err")
  /\ UNCHANGED <<stream, pos, manifest, hasher, restored, cas, overtaken, interrupted, failed>>

Restored(p) ==
  /\ pc[p] = "restore"
  /\ restored[p] = Len(Catalog(p))
  /\ Goto(p, "ok")
  /\ UNCHANGED <<stream, pos, manifest, hasher, restored, cas, overtaken, interrupted, failed>>

\* Killed at any point, possibly in the middle of a put.
Kill(p) ==
  /\ Kills
  /\ \/ pc[p] \in {"spill", "check", "restore"} /\ UNCHANGED <<cas, interrupted>>
     \/ pc[p] = "put" /\ Interrupt(p)
  /\ Goto(p, "killed")
  /\ UNCHANGED <<stream, pos, manifest, hasher, restored, overtaken, failed>>

\* The same command again over the same directory.
Rerun(p) ==
  /\ pc[p] \in {"err", "killed"}
  /\ Goto(p, "spill")
  /\ pos' = [pos EXCEPT ![p] = 0]
  /\ manifest' = [manifest EXCEPT ![p] = <<>>]
  /\ hasher' = [hasher EXCEPT ![p] = <<>>]
  /\ restored' = [restored EXCEPT ![p] = 0]
  /\ failed' = failed \ {p}
  /\ UNCHANGED <<stream, cas, overtaken, interrupted>>

Step(p) ==
  \/ BeginPut(p) \/ EndPut(p) \/ WriteFails(p) \/ IoFails(p)
  \/ ReadManifest(p) \/ ReadEnd(p) \/ Refuse(p) \/ Check(p) \/ ReadBlob(p) \/ ReadBlobFails(p) \/ Restored(p)

Next == \E p \in Proc : Step(p) \/ Kill(p) \/ Rerun(p)

Spec == Init /\ [][Next]_vars

-----------------------------------------------------------------------------
(* `verify` on the same payload.                                           *)

\* read_records succeeds with END at e: one MANIFEST, after every BLOB.
RecordsEndAt(s, e) ==
  /\ s[e].kind = "end"
  /\ \A i \in 1..(e - 1) : s[i].kind \in {"blob", "manifest"}
  /\ Cardinality({i \in 1..(e - 1) : s[i].kind = "manifest"}) = 1
  /\ s[e - 1].kind = "manifest"

\* What both readers ask of the stream: blobs that hash to their names, and one
\* digest for the stream, for END and for the catalog.
Coherent(s, e) ==
  /\ RecordsEndAt(s, e)
  /\ \A i \in 1..(e - 2) : s[i].good
  /\ s[e].digest = [i \in 1..(e - 2) |-> s[i].hash]
  /\ s[e - 1].blobs = s[e].digest
  /\ s[e - 1].known

StreamAccepted(s) == \E e \in DOMAIN s : Coherent(s, e)

\* verify also compares the size and the SHA-256 of every row with the blob.
\* (What it checks of the JARs is in VerifyJar.)
VerifyAccepts(s) == \E e \in DOMAIN s : Coherent(s, e) /\ s[e - 1].right

-----------------------------------------------------------------------------
SharesBlob(p, q) ==
  \E i \in DOMAIN stream[p], j \in DOMAIN stream[q] :
    stream[p][i].kind = "blob" /\ stream[q][j].kind = "blob" /\ stream[p][i].hash = stream[q][j].hash

\* The streaming reader of `rehydrate` and the one of `verify`, which loads
\* everything first, agree on every stream of records but for one thing: a run
\* that has come to restoring had a stream that verify accepts, unless a size or
\* a SHA-256 of the catalog is wrong, which rehydrate does not look at.  In the
\* other direction a run over such a stream copes with any leftover in the
\* directory, its own from before it was killed included; only an I/O error or a
\* process that writes one of its files may make it fail.
VerifiedRestores ==
  \A p \in Proc :
    /\ pc[p] \in {"restore", "ok"} =>
         /\ StreamAccepted(stream[p])
         /\ VerifyAccepts(stream[p]) <=> manifest[p][1].right
    /\ pc[p] = "err" /\ StreamAccepted(stream[p]) =>
         p \in failed \/ \E q \in Proc \ {p} : SharesBlob(p, q)

\* Puts of one blob that overlap leave it whole, in whichever order they began
\* and end: a file is half written only while the process that truncated it last
\* still writes it, or when that one was killed or failed and nobody has begun
\* to put the blob again.
PutsConverge ==
  \A h \in Hash :
    cas[h] = "partial" => h \in interrupted \/ \E q \in Writers(h) : q \notin overtaken
=============================================================================
