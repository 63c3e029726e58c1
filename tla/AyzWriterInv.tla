---------------------------- MODULE AyzWriterInv -----------------------------
(***************************************************************************)
(* The inductive invariant of the container writer.  The theorems about it *)
(* are in AyzWriterProofs.tla; TLC checks that it holds.                   *)
(***************************************************************************)
EXTENDS AyzWriter

FrameEnd(i) == frames[i].at + frames[i].zlen

\* The frames lie one behind the other, and the last one ends where the writer
\* thinks that the payload does.
PositionsInv ==
  /\ FramesTileThePayload
  /\ \A i \in DOMAIN frames :
       frames[i].zlen > 0 /\ HeaderTotal <= frames[i].at /\ FrameEnd(i) <= HeaderTotal + payloadBytes
  /\ \A i, j \in DOMAIN frames : i < j => FrameEnd(i) <= frames[j].at
  /\ IF frames = <<>> THEN payloadBytes = 0 ELSE FrameEnd(Len(frames)) = HeaderTotal + payloadBytes

\* The counters are about the frame that is open; it has at least one record.
OpenInv ==
  /\ inFrame => frameRecBytes = open.len /\ frameRecOff = open.len
  /\ IF inFrame THEN open.recs # <<>> /\ open.len > 0
                ELSE open = EmptyFrame /\ pendingRows = <<>>
  /\ stage \in {"manifest", "toc", "done"} => ~inFrame
  /\ stage = "blobs" /\ ~inFrame => frames = <<>>

\* A row names the record of its blob in one of the closed frames fs.
RowHolds(fs, row) ==
  \E i \in DOMAIN fs :
    /\ fs[i].at = HeaderTotal + row.off
    /\ fs[i].zlen = row.len
    /\ \E k \in DOMAIN fs[i].recs : fs[i].recs[k] = BlobRec(row.hash, row.recOff)

\* A closed row holds; a waiting one will, wherever the open frame is closed.
RowsInv ==
  /\ Len(tocEntries) + Len(pendingRows) = Len(written)
  /\ Len(pendingRows) = Len(open.recs)
  /\ \A n \in DOMAIN tocEntries : tocEntries[n].hash = written[n] /\ RowHolds(frames, tocEntries[n])
  /\ \A k \in DOMAIN pendingRows :
       /\ pendingRows[k].hash = written[Len(tocEntries) + k]
       /\ pendingRows[k].off = payloadBytes
       /\ open.recs[k] = BlobRec(pendingRows[k].hash, pendingRows[k].recOff)

\* What is said of the closed frames holds of the open one too.
GroupsInv ==
  /\ FramesAreGrouped
  /\ \A i \in DOMAIN frames : frames[i].recs # <<>>
  /\ inFrame => open.len <= BlobFrameFlush \/ Len(open.recs) = 1
  /\ inFrame /\ frames # <<>> =>
       frames[Len(frames)].len + BlobRecordLen(open.recs[1].hash) > BlobFrameFlush

\* The end of the file: the frame of the manifest, TOC and trailer.
EndsInv ==
  /\ stage \in {"toc", "done"} =>
       /\ frames # <<>>
       /\ frames[Len(frames)].at = HeaderTotal + manifestOff
       /\ frames[Len(frames)].zlen = manifestLen
       /\ frames[Len(frames)].recs = <<[kind |-> "manifest", blobs |-> written, off |-> 0],
                                       [kind |-> "end", off |-> ManifestLen - 1]>>
  /\ stage = "done" =>
       /\ trailer.payload = payloadBytes
       /\ trailer.toc = EncodedLen(Len(tocEntries))
       /\ filePos = HeaderTotal + payloadBytes + trailer.toc + TrailerLen

WriterInv ==
  TypeOK /\ PositionsInv /\ OpenInv /\ RowsInv /\ GroupsInv /\ EndsInv
=============================================================================
