----------------------------- MODULE AyzWriter ------------------------------
(***************************************************************************)
(* The streaming writer of the .ayz container (format v2) and its readers. *)
(*                                                                         *)
(* The payload is a row of zstd frames.  Blob records are grouped: a frame *)
(* is closed before a record that would take it over BLOB_FRAME_FLUSH      *)
(* uncompressed bytes.  The last frame holds MANIFEST and END alone, so    *)
(* that `list` can seek it through the table of contents; the TOC has a    *)
(* row for every blob.  The trailer closes the file.                       *)
(*                                                                         *)
(* `frames` is what is in the file: each frame with the position where it  *)
(* really starts, its compressed length (any number zstd cares to return)  *)
(* and its records, each with the uncompressed offset where it really is.  *)
(* The other variables are the fields of `AyzWriter`, which counts all of  *)
(* this for itself.                                                        *)
(***************************************************************************)
EXTENDS Integers, Sequences

CONSTANTS Hash,             \* content hashes
          Size,             \* Size[h]: length of the content with hash h
          BlobFrameFlush,   \* BLOB_FRAME_FLUSH
          BlobHead,         \* type + hash + size: 41 bytes before the content
          CompressedLen,    \* lengths a zstd frame may have
          HeaderTotal,      \* bytes of the file header
          ManifestLen,      \* uncompressed MANIFEST + END
          MaxBlobs          \* bound on write_blob calls, for TLC

TrailerLen == 64
TocOverhead == 28
TocEntrySize == 56

ASSUME WriterAssumption ==
  /\ Size \in [Hash -> Nat]
  /\ BlobFrameFlush \in Nat /\ BlobHead \in Nat \ {0} /\ MaxBlobs \in Nat
  /\ CompressedLen \subseteq Nat \ {0} /\ CompressedLen # {}
  /\ HeaderTotal \in Nat \ {0} /\ ManifestLen \in Nat \ {0}

VARIABLES filePos,          \* length of the file on disk after a flush
          frames,           \* closed frames: [at, zlen, recs, len]
          open,             \* the open frame: [recs, len]
          inFrame,          \* AyzState::Frame or Idle
          payloadBytes, pendingRows, tocEntries,
          frameRecBytes, frameRecOff,
          manifestOff, manifestLen,
          trailer,          \* the trailer written, or NoTrailer
          written,          \* the blobs handed to write_blob, in order
          stage             \* "blobs", "manifest", "toc", then "done", "failed"
                            \* (an I/O error) or "mismatch" (a length is wrong)

vars == <<filePos, frames, open, inFrame, payloadBytes, pendingRows, tocEntries,
          frameRecBytes, frameRecOff, manifestOff, manifestLen, trailer,
          written, stage>>

Rec == [kind : {"blob"}, hash : Hash, off : Nat]
         \cup [kind : {"manifest"}, blobs : Seq(Hash), off : Nat]
         \cup [kind : {"end"}, off : Nat]
Row == [hash : Hash, off : Nat, recOff : Nat]
TocRow == [hash : Hash, off : Nat, len : Nat, recOff : Nat]
NoTrailer == [payload |-> 0, toc |-> 0, blobs |-> 0]

TypeOK ==
  /\ filePos \in Nat
  /\ frames \in Seq([at : Nat, zlen : Nat, recs : Seq(Rec), len : Nat])
  /\ open \in [recs : Seq(Rec), len : Nat]
  /\ inFrame \in BOOLEAN
  /\ payloadBytes \in Nat /\ frameRecBytes \in Nat /\ frameRecOff \in Nat
  /\ pendingRows \in Seq(Row) /\ tocEntries \in Seq(TocRow)
  /\ manifestOff \in Nat /\ manifestLen \in Nat
  /\ trailer \in [payload : Nat, toc : Nat, blobs : Nat]
  /\ written \in Seq(Hash)
  /\ stage \in {"blobs", "manifest", "toc", "done", "failed", "mismatch"}

BlobRecordLen(h) == BlobHead + Size[h]
EmptyFrame == [recs |-> <<>>, len |-> 0]

Init ==
  /\ filePos = HeaderTotal
  /\ frames = <<>>
  /\ open = EmptyFrame
  /\ inFrame = FALSE
  /\ payloadBytes = 0 /\ frameRecBytes = 0 /\ frameRecOff = 0
  /\ pendingRows = <<>> /\ tocEntries = <<>>
  /\ manifestOff = 0 /\ manifestLen = 0
  /\ trailer = NoTrailer
  /\ written = <<>>
  /\ stage = "blobs"

-----------------------------------------------------------------------------
\* What closing the open frame leaves in the file and in the TOC, when zstd
\* has compressed it to z bytes: end_frame takes the length from the stream
\* position and gives it to every row that waits.
Closed(z) ==
  Append(frames, [at |-> filePos, zlen |-> z, recs |-> open.recs, len |-> open.len])

\* Faulty variant: the position is taken before the flush.
LenBeforeFlush(z) == filePos - (HeaderTotal + payloadBytes)
LenFromPos(z) == filePos + z - (HeaderTotal + payloadBytes)
RowsWith(zlen) ==
  tocEntries \o [k \in DOMAIN pendingRows |->
                   [hash |-> pendingRows[k].hash, off |-> pendingRows[k].off,
                    len |-> zlen, recOff |-> pendingRows[k].recOff]]

BlobRec(h, off) == [kind |-> "blob", hash |-> h, off |-> off]

\* Faulty variant: a record that fits exactly starts a new frame.
WouldFill(h) ==
  inFrame /\ frameRecBytes > 0
    /\ frameRecBytes + BlobRecordLen(h) >= BlobFrameFlush

WouldOverflow(h) ==
  inFrame /\ frameRecBytes > 0
    /\ frameRecBytes + BlobRecordLen(h) > BlobFrameFlush

\* write_blob into the frame that is open, or into the first one.
WriteBlob(h) ==
  /\ stage = "blobs" /\ Len(written) < MaxBlobs
  /\ ~WouldOverflow(h)
  /\ inFrame' = TRUE
  /\ LET recBytes == IF inFrame THEN frameRecBytes ELSE 0
         recOff == IF inFrame THEN frameRecOff ELSE 0
     IN  /\ pendingRows' = Append(pendingRows,
              [hash |-> h, off |-> payloadBytes, recOff |-> recOff])
         /\ frameRecBytes' = recBytes + BlobRecordLen(h)
         /\ frameRecOff' = recOff + BlobRecordLen(h)
  /\ open' = [recs |-> Append(open.recs, BlobRec(h, open.len)),
              len |-> open.len + BlobRecordLen(h)]
  /\ written' = Append(written, h)
  /\ UNCHANGED <<filePos, frames, payloadBytes, tocEntries, manifestOff,
                 manifestLen, trailer, stage>>

\* Faulty variant: the row is queued before the old frame is closed.
WriteBlobRowFirst(h) ==
  /\ stage = "blobs" /\ Len(written) < MaxBlobs
  /\ WouldOverflow(h)
  /\ \E z \in CompressedLen :
       /\ frames' = Closed(z)
       /\ filePos' = filePos + z
       /\ payloadBytes' = payloadBytes + LenFromPos(z)
       /\ tocEntries' = RowsWith(LenFromPos(z))
  /\ pendingRows' = <<[hash |-> h, off |-> payloadBytes, recOff |-> frameRecOff]>>
  /\ frameRecBytes' = BlobRecordLen(h)
  /\ frameRecOff' = BlobRecordLen(h)
  /\ open' = [recs |-> <<BlobRec(h, 0)>>, len |-> BlobRecordLen(h)]
  /\ written' = Append(written, h)
  /\ UNCHANGED <<inFrame, manifestOff, manifestLen, trailer, stage>>

\* write_blob that closes the frame first: end_frame, start_frame, then the
\* record.
WriteBlobInNewFrame(h) ==
  /\ stage = "blobs" /\ Len(written) < MaxBlobs
  /\ WouldOverflow(h)
  /\ \E z \in CompressedLen :
       /\ frames' = Closed(z)
       /\ filePos' = filePos + z
       /\ payloadBytes' = payloadBytes + LenFromPos(z)
       /\ tocEntries' = RowsWith(LenFromPos(z))
  /\ pendingRows' = <<[hash |-> h, off |-> payloadBytes', recOff |-> 0]>>
  /\ frameRecBytes' = BlobRecordLen(h)
  /\ frameRecOff' = BlobRecordLen(h)
  /\ open' = [recs |-> <<BlobRec(h, 0)>>, len |-> BlobRecordLen(h)]
  /\ written' = Append(written, h)
  /\ UNCHANGED <<inFrame, manifestOff, manifestLen, trailer, stage>>

\* finish, first part: the last blob frame is closed, if one is open.
FinishBlobs ==
  /\ stage = "blobs"
  /\ IF inFrame
       THEN \E z \in CompressedLen :
              /\ frames' = Closed(z)
              /\ filePos' = filePos + z
              /\ payloadBytes' = payloadBytes + LenFromPos(z)
              /\ tocEntries' = RowsWith(LenFromPos(z))
       ELSE UNCHANGED <<frames, filePos, payloadBytes, tocEntries>>
  /\ inFrame' = FALSE
  /\ open' = EmptyFrame
  /\ pendingRows' = <<>>
  /\ frameRecBytes' = 0 /\ frameRecOff' = 0
  /\ stage' = "manifest"
  /\ UNCHANGED <<manifestOff, manifestLen, trailer, written>>

\* Faulty variant: the offset of the manifest frame is taken after its end.
WriteManifestThenLocate ==
  /\ stage = "manifest"
  /\ \E z \in CompressedLen :
       /\ frames' = Append(frames,
            [at |-> filePos, zlen |-> z, len |-> ManifestLen,
             recs |-> <<[kind |-> "manifest", blobs |-> written, off |-> 0],
                        [kind |-> "end", off |-> ManifestLen - 1]>>])
       /\ filePos' = filePos + z
       /\ payloadBytes' = payloadBytes + LenFromPos(z)
       /\ manifestLen' = LenFromPos(z)
  /\ manifestOff' = payloadBytes'
  /\ stage' = "toc"
  /\ UNCHANGED <<open, inFrame, pendingRows, tocEntries, frameRecBytes,
                 frameRecOff, trailer, written>>

\* finish, second part: MANIFEST and END in a frame of their own.
WriteManifest ==
  /\ stage = "manifest"
  /\ \E z \in CompressedLen :
       /\ frames' = Append(frames,
            [at |-> filePos, zlen |-> z, len |-> ManifestLen,
             recs |-> <<[kind |-> "manifest", blobs |-> written, off |-> 0],
                        [kind |-> "end", off |-> ManifestLen - 1]>>])
       /\ filePos' = filePos + z
       /\ payloadBytes' = payloadBytes + LenFromPos(z)
       /\ manifestLen' = LenFromPos(z)
  /\ manifestOff' = payloadBytes
  /\ stage' = "toc"
  /\ UNCHANGED <<open, inFrame, pendingRows, tocEntries, frameRecBytes,
                 frameRecOff, trailer, written>>

EncodedLen(n) == TocOverhead + TocEntrySize * n

\* finish, last part: TOC and trailer, and the comparison of the file's length
\* with the sum of its parts (repeated by verify_finished_ayz).
WriteTail ==
  /\ stage = "toc"
  /\ LET toc == EncodedLen(Len(tocEntries))
     IN  /\ filePos' = filePos + toc + TrailerLen
         /\ trailer' = [payload |-> payloadBytes, toc |-> toc,
                        blobs |-> Len(written)]
         /\ stage' = IF filePos' = HeaderTotal + payloadBytes + toc + TrailerLen
                       THEN "done" ELSE "mismatch"
  /\ UNCHANGED <<frames, open, inFrame, payloadBytes, pendingRows, tocEntries,
                 frameRecBytes, frameRecOff, manifestOff, manifestLen, written>>

\* Any write may fail; the writer is dropped and the file stays unfinished.
WriteFails ==
  /\ stage \in {"blobs", "manifest", "toc"}
  /\ stage' = "failed"
  /\ UNCHANGED <<filePos, frames, open, inFrame, payloadBytes, pendingRows,
                 tocEntries, frameRecBytes, frameRecOff, manifestOff,
                 manifestLen, trailer, written>>

Next ==
  \/ \E h \in Hash : WriteBlob(h) \/ WriteBlobInNewFrame(h)
  \/ FinishBlobs \/ WriteManifest \/ WriteTail \/ WriteFails

Spec == Init /\ [][Next]_vars

-----------------------------------------------------------------------------
(* The readers.                                                            *)

\* Faulty variant: the lengths are only checked for plausibility.
LayoutIsPlausible(len, t) ==
  /\ len - TrailerLen - HeaderTotal - t.payload >= t.toc
  /\ t.toc >= TocOverhead
  /\ (t.toc - TocOverhead) % TocEntrySize = 0

\* open_ayz_layout on a file of `len` bytes whose last 64 bytes read as trailer
\* t: the lengths in the trailer must account for every byte.
LayoutAccepts(len, t) ==
  /\ len - TrailerLen - HeaderTotal - t.payload = t.toc
  /\ t.toc >= TocOverhead
  /\ (t.toc - TocOverhead) % TocEntrySize = 0

\* read_ayz_file decodes all frames of the payload, one after the other.
StreamBlobs ==
  {s \in (DOMAIN frames) \X (1..MaxBlobs) :
     s[2] \in DOMAIN frames[s[1]].recs /\ frames[s[1]].recs[s[2]].kind = "blob"}

\* A seek to a payload offset finds the frame that starts there, if any.
FramesAt(off) == {i \in DOMAIN frames : frames[i].at = HeaderTotal + off}

-----------------------------------------------------------------------------
\* The TOC has one row per blob in stream order, and a row is enough to find
\* its blob: it names where a frame really starts and ends and where in it the
\* record really is, however zstd compressed the frames before it.
TocLocatesBlobs ==
  stage = "done" =>
    /\ Len(tocEntries) = Len(written)
    /\ \A n \in DOMAIN tocEntries :
         LET row == tocEntries[n]
         IN  /\ row.hash = written[n]
             /\ \E i \in FramesAt(row.off) :
                  /\ frames[i].zlen = row.len
                  /\ BlobRec(row.hash, row.recOff) \in
                       {frames[i].recs[k] : k \in DOMAIN frames[i].recs}

\* `list` reads the manifest through the TOC and `verify` reads it at the end
\* of the stream: both find the same one, because it has the last frame to
\* itself and the TOC points at that frame.
ListReadsTheManifest ==
  stage = "done" =>
    /\ FramesAt(manifestOff) = {Len(frames)}
    /\ frames[Len(frames)].zlen = manifestLen
    /\ Len(frames[Len(frames)].recs) = 2
    /\ frames[Len(frames)].recs[1].kind = "manifest"
    /\ frames[Len(frames)].recs[1].blobs = written
    /\ \A s \in StreamBlobs : s[1] < Len(frames)

\* A blob frame stays within the flush limit unless a single record is larger,
\* and is closed only when the next record does not fit: the grouping is a
\* function of the blobs alone, whatever the compressed lengths.
FramesAreGrouped ==
  \A i \in DOMAIN frames : frames[i].recs[1].kind = "blob" =>
    /\ frames[i].len <= BlobFrameFlush \/ Len(frames[i].recs) = 1
    /\ i + 1 \in DOMAIN frames /\ frames[i + 1].recs[1].kind = "blob" =>
         frames[i].len + BlobRecordLen(frames[i + 1].recs[1].hash) > BlobFrameFlush

\* The frames fill the payload without gap or overlap, and the writer's own
\* sum of their lengths is where the file really ends.
FramesTileThePayload ==
  /\ \A i \in DOMAIN frames :
       frames[i].at = IF i = 1 THEN HeaderTotal
                               ELSE frames[i - 1].at + frames[i - 1].zlen
  /\ stage \in {"blobs", "manifest", "toc"} => filePos = HeaderTotal + payloadBytes
  /\ stage # "mismatch"

\* A finished file opens.  One that is cut right behind the trailer of an .ayz
\* file stored in it does not: the inner file may be anywhere in the payload, with
\* up to MaxBlobs blobs and any payload that the outer one has room for, its
\* header as long as the outer one (any other length is refused for that), but
\* toc_len must account for every byte from the start of the file.  (A cut where
\* no trailer ends is refused for its magic number; a content that has a trailer
\* without an archive before it is left out.)
OnlyWholeFilesOpen ==
  stage = "done" =>
    /\ LayoutAccepts(filePos, trailer)
    /\ \A off \in HeaderTotal..(HeaderTotal + payloadBytes - 1), n \in 0..MaxBlobs,
          payload \in 1..payloadBytes :
         LET inner == [payload |-> payload, toc |-> EncodedLen(n)]
             cut == off + HeaderTotal + payload + inner.toc + TrailerLen
         IN  ~LayoutAccepts(cut, inner)
=============================================================================
