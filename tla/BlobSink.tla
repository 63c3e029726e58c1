------------------------------ MODULE BlobSink ------------------------------
(***************************************************************************)
(* The first-seen blob store that `dehydrate` fills while it packs:        *)
(* `seen` maps a content hash to its row, `blobs` holds the rows in the    *)
(* order in which their content was first met.  The code keeps three more  *)
(* things in exactly this order - the BLOB records of the archive, the     *)
(* running END digest, and the manifest's `blobs` array - and updates all  *)
(* of them in one call of `remember_blob`, so one sequence stands for all. *)
(***************************************************************************)
EXTENDS Naturals, Sequences

CONSTANT Hash               \* content hashes (BLAKE3), treated as injective

VARIABLES blobs,            \* <<[hash, refs], ...>> in first-seen order
          seen              \* hash -> index of its row in blobs

sinkVars == <<blobs, seen>>

BlobRow == [hash : Hash, refs : Nat \ {0}]

SinkTypeOK ==
  /\ blobs \in Seq(BlobRow)
  /\ DOMAIN seen \subseteq Hash
  /\ \A h \in DOMAIN seen : seen[h] \in 1..Len(blobs)

SinkInit == blobs = <<>> /\ seen = [h \in {} |-> 0]

\* Faulty variants, for the mutation checks: a repeated content is not counted,
\* or the new content never enters the index.
RememberUncounted(h) ==
  \/ h \in DOMAIN seen /\ UNCHANGED sinkVars
  \/ /\ h \notin DOMAIN seen
     /\ blobs' = Append(blobs, [hash |-> h, refs |-> 1])
     /\ seen' = [x \in DOMAIN seen \cup {h} |->
                   IF x = h THEN Len(blobs) + 1 ELSE seen[x]]

RememberUnindexed(h) ==
  /\ blobs' = Append(blobs, [hash |-> h, refs |-> 1])
  /\ UNCHANGED seen

\* A repeated content only gains a reference; a new one is written, enters the
\* digest and gets a row of its own.
RememberBlob(h) ==
  \/ /\ h \in DOMAIN seen
     /\ blobs' = [blobs EXCEPT ![seen[h]].refs = @ + 1]
     /\ UNCHANGED seen
  \/ /\ h \notin DOMAIN seen
     /\ blobs' = Append(blobs, [hash |-> h, refs |-> 1])
     /\ seen' = [x \in DOMAIN seen \cup {h} |->
                   IF x = h THEN Len(blobs) + 1 ELSE seen[x]]

\* Deduplication and the index agree: every row is found under its own hash,
\* and every indexed hash points at its row, so no content is stored twice
\* (remember_blob keeps a HashMap of indices beside the Vec of rows).
SeenIndexesBlobs ==
  /\ \A i \in DOMAIN blobs : /\ blobs[i].hash \in DOMAIN seen
                             /\ seen[blobs[i].hash] = i
  /\ \A h \in DOMAIN seen : blobs[seen[h]].hash = h
=============================================================================
