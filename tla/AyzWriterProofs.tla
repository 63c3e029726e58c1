--------------------------- MODULE AyzWriterProofs ----------------------------
(***************************************************************************)
(* Proof that the container writer keeps its own books right: its frames   *)
(* tile the payload, its table of contents finds every blob, and its       *)
(* manifest has the last frame to itself.  This holds for any number of    *)
(* blobs of any sizes and whatever zstd makes of them.                     *)
(***************************************************************************)
EXTENDS AyzWriterInv, TLAPS

Frame == [at : Nat, zlen : Nat, recs : Seq(Rec), len : Nat]

LEMMA Appended ==
  ASSUME NEW S, NEW s \in Seq(S), NEW e \in S
  PROVE  /\ Append(s, e) \in Seq(S)
         /\ Len(s) \in Nat /\ Len(Append(s, e)) = Len(s) + 1
         /\ DOMAIN s = 1..Len(s) /\ DOMAIN Append(s, e) = 1..(Len(s) + 1)
         /\ \A i \in DOMAIN s : Append(s, e)[i] = s[i]
         /\ Append(s, e)[Len(s) + 1] = e
         /\ Append(s, e) # <<>>
  OBVIOUS

LEMMA BlobRecType == ASSUME NEW h \in Hash, NEW n \in Nat PROVE BlobRec(h, n) \in Rec
  BY DEF BlobRec, Rec

LEMMA RecordLenType ==
  ASSUME NEW h \in Hash PROVE BlobRecordLen(h) \in Nat \ {0}
  BY WriterAssumption DEF BlobRecordLen

-----------------------------------------------------------------------------
(* What closing the open frame does.                                       *)

CloseWith(z) ==
  /\ frames' = Closed(z)
  /\ filePos' = filePos + z
  /\ payloadBytes' = payloadBytes + LenFromPos(z)
  /\ tocEntries' = RowsWith(LenFromPos(z))

LEMMA ClosedFrame ==
  ASSUME WriterInv, stage = "blobs", NEW z \in CompressedLen
  PROVE  /\ z \in Nat \ {0} /\ LenFromPos(z) = z
         /\ [at |-> filePos, zlen |-> z, recs |-> open.recs, len |-> open.len] \in Frame
         /\ Closed(z) \in Seq(Frame)
         /\ Len(Closed(z)) = Len(frames) + 1
         /\ DOMAIN Closed(z) = 1..(Len(frames) + 1) /\ DOMAIN frames = 1..Len(frames)
         /\ Len(frames) \in Nat
         /\ \A i \in DOMAIN frames : Closed(z)[i] = frames[i]
         /\ Closed(z)[Len(frames) + 1] =
              [at |-> HeaderTotal + payloadBytes, zlen |-> z, recs |-> open.recs, len |-> open.len]
         /\ Closed(z) # <<>>
  <1>1. z \in Nat \ {0}
    BY WriterAssumption
  <1>2. filePos = HeaderTotal + payloadBytes /\ payloadBytes \in Nat /\ HeaderTotal \in Nat
    BY WriterAssumption DEF WriterInv, PositionsInv, FramesTileThePayload, TypeOK
  <1>3. LenFromPos(z) = z
    BY <1>1, <1>2 DEF LenFromPos
  <1>4. [at |-> filePos, zlen |-> z, recs |-> open.recs, len |-> open.len] \in Frame
    BY <1>1 DEF WriterInv, TypeOK, Frame
  <1>5. frames \in Seq(Frame)
    BY DEF WriterInv, TypeOK, Frame
  <1> QED
    BY <1>1, <1>2, <1>3, <1>4, <1>5, Appended DEF Closed

LEMMA ClosedRows ==
  ASSUME WriterInv, NEW z \in Nat
  PROVE  /\ RowsWith(z) \in Seq(TocRow)
         /\ Len(RowsWith(z)) = Len(tocEntries) + Len(pendingRows)
         /\ Len(tocEntries) \in Nat /\ Len(pendingRows) \in Nat
         /\ DOMAIN tocEntries = 1..Len(tocEntries)
         /\ \A n \in 1..Len(tocEntries) : RowsWith(z)[n] = tocEntries[n]
         /\ \A k \in 1..Len(pendingRows) :
              RowsWith(z)[Len(tocEntries) + k] =
                [hash |-> pendingRows[k].hash, off |-> pendingRows[k].off,
                 len |-> z, recOff |-> pendingRows[k].recOff]
  <1> DEFINE row(k) == [hash |-> pendingRows[k].hash, off |-> pendingRows[k].off,
                        len |-> z, recOff |-> pendingRows[k].recOff]
             rows == [k \in DOMAIN pendingRows |-> row(k)]
  <1>1. pendingRows \in Seq(Row) /\ tocEntries \in Seq(TocRow)
    BY DEF WriterInv, TypeOK
  <1>2. \A k \in DOMAIN pendingRows : row(k) \in TocRow
    <2>1. \A k \in DOMAIN pendingRows : pendingRows[k] \in Row
      BY <1>1
    <2> QED
      BY <2>1 DEF Row, TocRow
  <1>3. rows \in Seq(TocRow) /\ Len(rows) = Len(pendingRows)
    <2>1. DOMAIN pendingRows = 1..Len(pendingRows) /\ Len(pendingRows) \in Nat
      BY <1>1
    <2> HIDE DEF row
    <2> QED
      BY <1>2, <2>1
  <1>4. \A k \in 1..Len(pendingRows) : rows[k] = row(k)
    BY <1>1
  <1>5. RowsWith(z) = tocEntries \o rows
    BY DEF RowsWith
  <1> HIDE DEF rows, row
  <1>6. /\ tocEntries \o rows \in Seq(TocRow)
        /\ Len(tocEntries \o rows) = Len(tocEntries) + Len(pendingRows)
        /\ \A n \in 1..Len(tocEntries) : (tocEntries \o rows)[n] = tocEntries[n]
    BY <1>1, <1>3
  <1>7. \A k \in 1..Len(pendingRows) : (tocEntries \o rows)[Len(tocEntries) + k] = rows[k]
    BY <1>1, <1>3
  <1> QED
    BY <1>1, <1>4, <1>5, <1>6, <1>7 DEF row

\* A frame of z bytes put where the file ends, and counted.
AppendFrame(f, z) ==
  /\ f \in Frame /\ f.at = filePos /\ f.zlen = z
  /\ frames' = Append(frames, f)
  /\ filePos' = filePos + z
  /\ payloadBytes' = payloadBytes + LenFromPos(z)

LEMMA AppendKeepsPositions ==
  ASSUME WriterInv, stage \in {"blobs", "manifest"},
         NEW z \in CompressedLen, NEW f, AppendFrame(f, z),
         stage' \in {"blobs", "manifest", "toc"}
  PROVE  PositionsInv'
  <1> DEFINE n == Len(frames)
             end == HeaderTotal + payloadBytes
  <1>1. /\ payloadBytes' = payloadBytes + z /\ filePos' = filePos + z
        /\ z \in Nat \ {0} /\ n \in Nat
        /\ DOMAIN frames = 1..n /\ DOMAIN frames' = 1..(n + 1) /\ Len(frames') = n + 1
        /\ frames' # <<>>
        /\ \A i \in 1..n : frames'[i] = frames[i]
        /\ frames'[n + 1].at = end /\ frames'[n + 1].zlen = z
    <2>1. /\ frames' = Append(frames, f) /\ filePos' = filePos + z
          /\ payloadBytes' = payloadBytes + LenFromPos(z)
          /\ f \in Frame /\ f.at = filePos /\ f.zlen = z
      BY DEF AppendFrame
    <2>2. filePos = end /\ payloadBytes \in Nat /\ HeaderTotal \in Nat /\ z \in Nat \ {0}
      BY WriterAssumption DEF WriterInv, PositionsInv, FramesTileThePayload, TypeOK
    <2>3. LenFromPos(z) = z
      BY <2>2 DEF LenFromPos
    <2>4. frames \in Seq(Frame)
      BY DEF WriterInv, TypeOK, Frame
    <2>5. /\ n \in Nat /\ DOMAIN frames = 1..n /\ DOMAIN Append(frames, f) = 1..(n + 1)
          /\ Len(Append(frames, f)) = n + 1 /\ Append(frames, f) # <<>>
          /\ \A i \in 1..n : Append(frames, f)[i] = frames[i]
          /\ Append(frames, f)[n + 1] = f
      BY <2>1, <2>4, Appended
    <2> HIDE DEF n, end
    <2> QED
      BY <2>1, <2>2, <2>3, <2>5
  <1>2. payloadBytes \in Nat /\ HeaderTotal \in Nat \ {0} /\ end \in Nat
    BY WriterAssumption DEF WriterInv, TypeOK
  <1>3. \A i \in 1..n : frames[i].at \in Nat /\ frames[i].zlen \in Nat
    <2>1. frames \in Seq(Frame)
      BY DEF WriterInv, TypeOK, Frame
    <2>2. \A i \in 1..n : frames[i] \in Frame
      BY <2>1
    <2> QED
      BY <2>2 DEF Frame
  <1>4. frames = <<>> <=> n = 0
    BY DEF WriterInv, TypeOK
  <1>5. /\ filePos = end
        /\ \A i \in 1..n : frames[i].at = IF i = 1 THEN HeaderTotal
                                          ELSE frames[i - 1].at + frames[i - 1].zlen
        /\ \A i \in 1..n : /\ frames[i].zlen > 0 /\ HeaderTotal <= frames[i].at
                           /\ frames[i].at + frames[i].zlen <= end
        /\ \A i, j \in 1..n : i < j => frames[i].at + frames[i].zlen <= frames[j].at
        /\ IF n = 0 THEN payloadBytes = 0 ELSE frames[n].at + frames[n].zlen = end
    BY <1>1, <1>4 DEF WriterInv, PositionsInv, FramesTileThePayload, FrameEnd
  <1> HIDE DEF n, end
  <1>6. ASSUME NEW i \in 1..(n + 1)
        PROVE  /\ frames'[i].at = IF i = 1 THEN HeaderTotal
                                           ELSE frames'[i - 1].at + frames'[i - 1].zlen
               /\ frames'[i].zlen > 0 /\ HeaderTotal <= frames'[i].at
               /\ frames'[i].at + frames'[i].zlen <= end + z
    <2>1. CASE i \in 1..n
      <3>1. frames'[i] = frames[i] /\ (i # 1 => frames'[i - 1] = frames[i - 1])
        BY <1>1, <2>1
      <3>2. frames'[i].at = IF i = 1 THEN HeaderTotal
                                     ELSE frames'[i - 1].at + frames'[i - 1].zlen
        BY <1>5, <2>1, <3>1
      <3>3. frames[i].at + frames[i].zlen <= end + z
        <4>1. /\ frames[i].at \in Nat /\ frames[i].zlen \in Nat
              /\ frames[i].at + frames[i].zlen <= end
          BY <1>3, <1>5, <2>1
        <4>2. z \in Nat /\ end \in Nat
          BY <1>1, <1>2
        <4> QED
          BY <4>1, <4>2
      <3> QED
        BY <1>5, <2>1, <3>1, <3>2, <3>3
    <2>2. CASE i = n + 1 /\ n = 0
      BY <1>1, <1>2, <1>5, <2>2 DEF end
    <2>3. CASE i = n + 1 /\ n # 0
      <3>1. frames'[i - 1] = frames[n] /\ n \in 1..n
        BY <1>1, <2>3
      <3> QED
        BY <1>1, <1>2, <1>3, <1>5, <2>3, <3>1 DEF end
    <2> QED
      BY <1>1, <2>1, <2>2, <2>3
  <1>7. \A i, j \in 1..(n + 1) :
          i < j => frames'[i].at + frames'[i].zlen <= frames'[j].at
    BY <1>1, <1>5
  <1>8. HeaderTotal + payloadBytes' = end + z /\ filePos' = end + z
    BY <1>1, <1>2, <1>5 DEF end
  <1>9. FramesTileThePayload'
    BY <1>1, <1>6, <1>8 DEF FramesTileThePayload
  <1> QED
    BY <1>1, <1>2, <1>6, <1>7, <1>8, <1>9 DEF PositionsInv, FrameEnd

LEMMA ClosingKeepsPositions ==
  ASSUME WriterInv, stage = "blobs", NEW z \in CompressedLen, CloseWith(z),
         stage' \in {"blobs", "manifest"}
  PROVE  PositionsInv'
  <1> DEFINE f == [at |-> filePos, zlen |-> z, recs |-> open.recs, len |-> open.len]
  <1>1. f \in Frame
    BY ClosedFrame
  <1>2. AppendFrame(f, z)
    BY <1>1 DEF AppendFrame, CloseWith, Closed
  <1> HIDE DEF f
  <1> QED
    BY <1>2, AppendKeepsPositions

LEMMA RowsStayInLongerFile ==
  ASSUME NEW fs, NEW gs, DOMAIN fs \subseteq DOMAIN gs, \A i \in DOMAIN fs : gs[i] = fs[i],
         NEW row, RowHolds(fs, row)
  PROVE  RowHolds(gs, row)
  BY DEF RowHolds

\* Closing a frame makes the rows that wait for it true.
LEMMA ClosingKeepsRows ==
  ASSUME WriterInv, stage = "blobs", NEW z \in CompressedLen, CloseWith(z)
  PROVE  /\ Len(tocEntries') = Len(written)
         /\ \A n \in 1..Len(written) :
              tocEntries'[n].hash = written[n] /\ RowHolds(frames', tocEntries'[n])
  <1> DEFINE t == Len(tocEntries)
             p == Len(pendingRows)
             m == Len(frames)
  <1>1. z \in Nat /\ frames' = Closed(z) /\ tocEntries' = RowsWith(z)
    BY ClosedFrame DEF CloseWith
  <1>2. t \in Nat /\ p \in Nat /\ DOMAIN tocEntries = 1..t /\ DOMAIN pendingRows = 1..p
    BY DEF WriterInv, TypeOK
  <1>3. Len(tocEntries') = t + p /\ t + p = Len(written) /\ Len(open.recs) = p
    BY <1>1, ClosedRows DEF WriterInv, RowsInv
  <1>4. ASSUME NEW n \in 1..t
        PROVE  tocEntries'[n].hash = written[n] /\ RowHolds(frames', tocEntries'[n])
    <2>1. tocEntries'[n] = tocEntries[n]
      BY <1>1, <1>4, ClosedRows
    <2>2. tocEntries[n].hash = written[n] /\ RowHolds(frames, tocEntries[n])
      BY <1>2, <1>4 DEF WriterInv, RowsInv
    <2>3. DOMAIN frames \subseteq DOMAIN frames' /\ \A i \in DOMAIN frames : frames'[i] = frames[i]
      <3>1. /\ m \in Nat /\ DOMAIN frames = 1..m /\ DOMAIN Closed(z) = 1..(m + 1)
            /\ \A i \in DOMAIN frames : Closed(z)[i] = frames[i]
        BY ClosedFrame
      <3> QED
        BY <1>1, <3>1
    <2> QED
      BY <2>1, <2>2, <2>3, RowsStayInLongerFile
  <1>5. ASSUME NEW k \in 1..p
        PROVE  /\ tocEntries'[t + k].hash = written[t + k]
               /\ RowHolds(frames', tocEntries'[t + k])
    <2>1. tocEntries'[t + k] = [hash |-> pendingRows[k].hash, off |-> pendingRows[k].off,
                                len |-> z, recOff |-> pendingRows[k].recOff]
      BY <1>1, <1>5, ClosedRows
    <2>2. /\ pendingRows[k].hash = written[t + k] /\ pendingRows[k].off = payloadBytes
          /\ open.recs[k] = BlobRec(pendingRows[k].hash, pendingRows[k].recOff)
      BY <1>2, <1>5 DEF WriterInv, RowsInv
    <2>3. k \in DOMAIN open.recs
      <3>1. open.recs \in Seq(Rec)
        BY DEF WriterInv, TypeOK
      <3> QED
        BY <1>3, <1>5, <3>1
    <2>4. m + 1 \in DOMAIN frames'
          /\ frames'[m + 1] = [at |-> HeaderTotal + payloadBytes, zlen |-> z,
                               recs |-> open.recs, len |-> open.len]
      <3>1. m \in Nat /\ DOMAIN frames' = 1..(m + 1)
        BY ClosedFrame DEF CloseWith
      <3>2. frames'[m + 1] = [at |-> HeaderTotal + payloadBytes, zlen |-> z,
                              recs |-> open.recs, len |-> open.len]
        BY ClosedFrame DEF CloseWith
      <3> QED
        BY <3>1, <3>2
    <2> HIDE DEF m
    <2> QED
      BY <2>1, <2>2, <2>3, <2>4 DEF RowHolds
  <1>6. ASSUME NEW n \in 1..(t + p), n \notin 1..t
        PROVE  n - t \in 1..p /\ t + (n - t) = n
    BY <1>2, <1>6
  <1> HIDE DEF t, p
  <1> QED
    BY <1>3, <1>4, <1>5, <1>6

LEMMA ClosingKeepsGroups ==
  ASSUME WriterInv, stage = "blobs", inFrame, NEW z \in CompressedLen, CloseWith(z)
  PROVE  /\ FramesAreGrouped'
         /\ \A i \in DOMAIN frames' : frames'[i].recs # <<>>
         /\ frames' # <<>> /\ frames'[Len(frames')].len = open.len
  <1> DEFINE n == Len(frames)
  <1>1. /\ n \in Nat /\ DOMAIN frames = 1..n /\ DOMAIN frames' = 1..(n + 1)
        /\ Len(frames') = n + 1 /\ frames' # <<>>
        /\ \A i \in 1..n : frames'[i] = frames[i]
    BY ClosedFrame DEF CloseWith
  <1>2. frames'[n + 1] = [at |-> HeaderTotal + payloadBytes, zlen |-> z,
                          recs |-> open.recs, len |-> open.len]
    BY ClosedFrame DEF CloseWith
  <1>3. frames'[n + 1].recs = open.recs /\ frames'[n + 1].len = open.len
    BY <1>2
  <1>4. /\ open.recs # <<>>
        /\ open.len <= BlobFrameFlush \/ Len(open.recs) = 1
        /\ n # 0 => frames[n].len + BlobRecordLen(open.recs[1].hash) > BlobFrameFlush
    BY DEF WriterInv, OpenInv, GroupsInv, TypeOK
  <1>5. \A i \in 1..n :
          /\ frames[i].recs # <<>>
          /\ frames[i].recs[1].kind = "blob" =>
               /\ frames[i].len <= BlobFrameFlush \/ Len(frames[i].recs) = 1
               /\ i + 1 \in 1..n /\ frames[i + 1].recs[1].kind = "blob" =>
                    frames[i].len + BlobRecordLen(frames[i + 1].recs[1].hash) > BlobFrameFlush
    BY <1>1 DEF WriterInv, GroupsInv, FramesAreGrouped
  <1> HIDE DEF n
  <1>6. ASSUME NEW i \in 1..(n + 1)
        PROVE  /\ frames'[i].recs # <<>>
               /\ frames'[i].recs[1].kind = "blob" =>
                    /\ frames'[i].len <= BlobFrameFlush \/ Len(frames'[i].recs) = 1
                    /\ i + 1 \in 1..(n + 1) /\ frames'[i + 1].recs[1].kind = "blob" =>
                         frames'[i].len + BlobRecordLen(frames'[i + 1].recs[1].hash) > BlobFrameFlush
    <2>1. CASE i = n + 1
      BY <1>1, <1>3, <1>4, <2>1
    <2>2. CASE i = n /\ n # 0
      BY <1>1, <1>3, <1>4, <1>5, <2>2
    <2>3. CASE i \in 1..n /\ i # n
      <3>1. i \in 1..n /\ i + 1 \in 1..n
        BY <1>1, <2>3
      <3> QED
        BY <1>1, <1>5, <3>1
    <2> QED
      BY <1>1, <2>1, <2>2, <2>3
  <1> QED
    BY <1>1, <1>3, <1>6 DEF FramesAreGrouped, BlobRecordLen

LEMMA ClosingKeepsTypes ==
  ASSUME WriterInv, stage = "blobs", NEW z \in CompressedLen, CloseWith(z)
  PROVE  /\ filePos' \in Nat /\ payloadBytes' \in Nat
         /\ frames' \in Seq(Frame) /\ tocEntries' \in Seq(TocRow)
         /\ filePos' = HeaderTotal + payloadBytes'
  <1>1. z \in Nat /\ LenFromPos(z) = z /\ Closed(z) \in Seq(Frame)
    BY ClosedFrame
  <1>2. RowsWith(LenFromPos(z)) \in Seq(TocRow)
    BY <1>1, ClosedRows
  <1>3. filePos \in Nat /\ payloadBytes \in Nat /\ HeaderTotal \in Nat
        /\ filePos = HeaderTotal + payloadBytes
    BY WriterAssumption DEF WriterInv, TypeOK, PositionsInv, FramesTileThePayload
  <1> QED
    BY <1>1, <1>2, <1>3 DEF CloseWith

-----------------------------------------------------------------------------
(* One lemma per action.                                                   *)

LEMMA InitHolds == Init => WriterInv
  <1> SUFFICES ASSUME Init PROVE WriterInv
    OBVIOUS
  <1> USE WriterAssumption DEF Init
  <1>1. TypeOK
    <2>1. \A S : <<>> \in Seq(S)
      OBVIOUS
    <2>2. open \in [recs : Seq(Rec), len : Nat] /\ trailer \in [payload : Nat, toc : Nat, blobs : Nat]
      BY <2>1 DEF EmptyFrame, NoTrailer
    <2> QED
      BY <2>1, <2>2 DEF TypeOK
  <1>2. PositionsInv
    BY DEF PositionsInv, FramesTileThePayload, FrameEnd
  <1>3. OpenInv
    BY DEF OpenInv, EmptyFrame
  <1>4. RowsInv
    BY DEF RowsInv, EmptyFrame
  <1>5. GroupsInv
    BY DEF GroupsInv, FramesAreGrouped
  <1>6. EndsInv
    BY DEF EndsInv
  <1> QED
    BY <1>1, <1>2, <1>3, <1>4, <1>5, <1>6 DEF WriterInv

LEMMA WriteBlobStep ==
  ASSUME WriterInv, NEW h \in Hash, WriteBlob(h)
  PROVE  WriterInv'
  <1> DEFINE row == [hash |-> h, off |-> payloadBytes,
                     recOff |-> IF inFrame THEN frameRecOff ELSE 0]
             rec == BlobRec(h, open.len)
             grown == open.len + BlobRecordLen(h)
  <1>1. /\ stage = "blobs" /\ stage' = "blobs" /\ inFrame' = TRUE
        /\ UNCHANGED <<filePos, frames, payloadBytes, tocEntries, manifestOff,
                       manifestLen, trailer>>
        /\ open' = [recs |-> Append(open.recs, rec), len |-> grown]
        /\ pendingRows' = Append(pendingRows, row)
        /\ written' = Append(written, h)
    BY DEF WriteBlob
  <1>2. /\ open.recs \in Seq(Rec) /\ open.len \in Nat /\ BlobRecordLen(h) \in Nat \ {0}
        /\ pendingRows \in Seq(Row) /\ written \in Seq(Hash) /\ payloadBytes \in Nat
        /\ frameRecOff \in Nat /\ frameRecBytes \in Nat /\ inFrame \in BOOLEAN
        /\ tocEntries \in Seq(TocRow)
    BY RecordLenType DEF WriterInv, TypeOK
  <1>3. row \in Row /\ rec \in Rec
    BY <1>2, BlobRecType DEF Row
  <1>4. /\ row.recOff = open.len
        /\ frameRecBytes' = grown /\ frameRecOff' = grown
        /\ ~inFrame => open.recs = <<>> /\ pendingRows = <<>> /\ frames = <<>>
    <2>1. CASE inFrame
      BY <2>1 DEF WriteBlob, WriterInv, OpenInv
    <2>2. CASE ~inFrame
      BY <1>1, <2>2, <1>2 DEF WriteBlob, WriterInv, OpenInv, EmptyFrame
    <2> QED
      BY <2>1, <2>2
  <1>5. open'.recs = Append(open.recs, rec) /\ open'.len = grown /\ grown \in Nat \ {0}
    <2>1. grown \in Nat \ {0}
      <3> HIDE DEF row, rec
      <3> QED
        BY <1>2
    <2> HIDE DEF row, rec, grown
    <2> QED
      BY <1>1, <2>1
  <1> HIDE DEF row, rec, grown
  <1>6. TypeOK'
    <2>1. Append(open.recs, rec) \in Seq(Rec) /\ Append(pendingRows, row) \in Seq(Row)
          /\ Append(written, h) \in Seq(Hash)
      BY <1>2, <1>3
    <2> QED
      BY <1>1, <1>2, <1>4, <1>5, <2>1 DEF WriterInv, TypeOK
  <1>7. PositionsInv'
    BY <1>1 DEF WriterInv, PositionsInv, FramesTileThePayload, FrameEnd
  <1>8. OpenInv'
    <2>1. Append(open.recs, rec) # <<>>
      <3>1. PICK r : r = open.recs
        OBVIOUS
      <3>2. r \in Seq(Rec) /\ Len(r) \in Nat
        BY <1>2, <3>1
      <3>3. Len(Append(r, rec)) = Len(r) + 1
        BY <1>3, <3>2
      <3>4. Len(<<>>) = 0 /\ Len(r) + 1 # 0
        BY <3>2
      <3> QED
        BY <3>1, <3>3, <3>4
    <2> QED
      BY <1>1, <1>4, <1>5, <2>1 DEF OpenInv
  <1>9. RowsInv'
    <2> DEFINE t == Len(tocEntries)
               p == Len(pendingRows)
    <2>1. /\ t \in Nat /\ p \in Nat /\ Len(written) = t + p /\ Len(open.recs) = p
          /\ DOMAIN tocEntries = 1..t /\ DOMAIN pendingRows = 1..p
      BY <1>2 DEF WriterInv, RowsInv
    <2>2. /\ Len(pendingRows') = p + 1 /\ DOMAIN pendingRows' = 1..(p + 1)
          /\ Len(open'.recs) = p + 1 /\ Len(written') = t + p + 1
          /\ \A k \in 1..p : pendingRows'[k] = pendingRows[k] /\ open'.recs[k] = open.recs[k]
          /\ pendingRows'[p + 1] = row /\ open'.recs[p + 1] = rec
          /\ \A n \in 1..(t + p) : written'[n] = written[n]
          /\ written'[t + p + 1] = h
      <3>1. /\ Len(Append(pendingRows, row)) = p + 1 /\ DOMAIN Append(pendingRows, row) = 1..(p + 1)
            /\ \A k \in 1..p : Append(pendingRows, row)[k] = pendingRows[k]
            /\ Append(pendingRows, row)[p + 1] = row
        BY <1>2, <1>3, Appended
      <3>2. /\ Len(Append(open.recs, rec)) = p + 1 /\ Append(open.recs, rec)[p + 1] = rec
            /\ \A k \in 1..p : Append(open.recs, rec)[k] = open.recs[k]
        BY <1>2, <1>3, <2>1
      <3>3. /\ Len(Append(written, h)) = t + p + 1 /\ Append(written, h)[t + p + 1] = h
            /\ \A n \in 1..(t + p) : Append(written, h)[n] = written[n]
        <4>1. /\ Len(Append(written, h)) = Len(written) + 1
              /\ Append(written, h)[Len(written) + 1] = h
              /\ \A n \in 1..Len(written) : Append(written, h)[n] = written[n]
          BY <1>2
        <4> HIDE DEF t, p
        <4> QED
          BY <2>1, <4>1
      <3> HIDE DEF t, p
      <3> QED
        BY <1>1, <1>5, <3>1, <3>2, <3>3
    <2>3. /\ \A n \in 1..t : tocEntries[n].hash = written[n] /\ RowHolds(frames, tocEntries[n])
          /\ \A k \in 1..p :
               /\ pendingRows[k].hash = written[t + k] /\ pendingRows[k].off = payloadBytes
               /\ open.recs[k] = BlobRec(pendingRows[k].hash, pendingRows[k].recOff)
      BY <2>1 DEF WriterInv, RowsInv
    <2>4. row.hash = h /\ row.off = payloadBytes /\ rec = BlobRec(row.hash, row.recOff)
      BY <1>4 DEF row, rec
    <2> HIDE DEF t, p
    <2>5. \A n \in 1..t : written'[n] = written[n]
      BY <2>1, <2>2
    <2>6. ASSUME NEW k \in 1..(p + 1)
          PROVE  /\ pendingRows'[k].hash = written'[t + k] /\ pendingRows'[k].off = payloadBytes
                 /\ open'.recs[k] = BlobRec(pendingRows'[k].hash, pendingRows'[k].recOff)
      <3>1. CASE k \in 1..p
        <4>1. t + k \in 1..(t + p)
          BY <2>1, <3>1
        <4> QED
          BY <2>2, <2>3, <3>1, <4>1
      <3>2. CASE k = p + 1
        <4>1. t + k = t + p + 1
          BY <2>1, <3>2
        <4> QED
          BY <2>2, <2>4, <3>2, <4>1
      <3> QED
        BY <2>1, <3>1, <3>2
    <2>7. Len(tocEntries') + Len(pendingRows') = Len(written') /\ DOMAIN tocEntries' = 1..t
          /\ Len(tocEntries') = t
      BY <1>1, <2>1, <2>2 DEF t
    <2>8. tocEntries' = tocEntries /\ frames' = frames /\ payloadBytes' = payloadBytes
      BY <1>1
    <2> QED
      BY <2>2, <2>3, <2>5, <2>6, <2>7, <2>8 DEF RowsInv, BlobRec
  <1>10. GroupsInv'
    <2>1. FramesAreGrouped' /\ \A i \in DOMAIN frames' : frames'[i].recs # <<>>
      BY <1>1 DEF WriterInv, GroupsInv, FramesAreGrouped, BlobRecordLen
    <2>2. grown <= BlobFrameFlush \/ Len(Append(open.recs, rec)) = 1
      <3>1. CASE inFrame
        <4>1. frameRecBytes = open.len /\ open.len > 0 /\ ~WouldOverflow(h)
          BY <3>1 DEF WriterInv, OpenInv, WriteBlob
        <4>2. BlobFrameFlush \in Nat
          BY WriterAssumption
        <4> QED
          BY <1>2, <3>1, <4>1, <4>2 DEF WouldOverflow, grown
      <3>2. CASE ~inFrame
        BY <1>2, <1>3, <1>4, <3>2
      <3> QED
        BY <3>1, <3>2
    <2>3. ASSUME frames # <<>>
          PROVE  frames[Len(frames)].len + BlobRecordLen(Append(open.recs, rec)[1].hash) > BlobFrameFlush
      <3>1. inFrame /\ open.recs # <<>>
        BY <1>4, <2>3 DEF WriterInv, OpenInv
      <3>2. Append(open.recs, rec)[1] = open.recs[1]
        BY <1>2, <1>3, <3>1
      <3> QED
        BY <2>3, <3>1, <3>2 DEF WriterInv, GroupsInv
    <2> QED
      BY <1>1, <1>5, <2>1, <2>2, <2>3 DEF GroupsInv, BlobRecordLen
  <1>11. EndsInv'
    BY <1>1 DEF EndsInv
  <1> QED
    BY <1>6, <1>7, <1>8, <1>9, <1>10, <1>11 DEF WriterInv

\* The record that starts a new frame, after the old one was closed.
LEMMA WriteBlobInNewFrameStep ==
  ASSUME WriterInv, NEW h \in Hash, WriteBlobInNewFrame(h)
  PROVE  WriterInv'
  <1> DEFINE row == [hash |-> h, off |-> payloadBytes', recOff |-> 0]
             rec == BlobRec(h, 0)
             t == Len(written)
  <1>1. PICK z \in CompressedLen : CloseWith(z)
    BY DEF WriteBlobInNewFrame, CloseWith
  <1>2. /\ stage = "blobs" /\ stage' = "blobs" /\ inFrame /\ inFrame' = inFrame
        /\ UNCHANGED <<manifestOff, manifestLen, trailer>>
        /\ open' = [recs |-> <<rec>>, len |-> BlobRecordLen(h)]
        /\ pendingRows' = <<row>>
        /\ written' = Append(written, h)
        /\ frameRecBytes' = BlobRecordLen(h) /\ frameRecOff' = BlobRecordLen(h)
    BY DEF WriteBlobInNewFrame, WouldOverflow
  <1>3. open'.recs = <<rec>> /\ open'.len = BlobRecordLen(h) /\ BlobRecordLen(h) \in Nat \ {0}
    BY <1>2, RecordLenType
  <1>4. /\ filePos' \in Nat /\ payloadBytes' \in Nat
        /\ frames' \in Seq(Frame) /\ tocEntries' \in Seq(TocRow)
    BY <1>1, <1>2, ClosingKeepsTypes
  <1>5. row \in Row /\ rec \in Rec
    BY <1>4, BlobRecType DEF Row
  <1>6. /\ written \in Seq(Hash) /\ Append(written, h) \in Seq(Hash) /\ t \in Nat
        /\ Len(Append(written, h)) = t + 1 /\ Append(written, h)[t + 1] = h
        /\ \A n \in 1..t : Append(written, h)[n] = written[n]
    BY DEF WriterInv, TypeOK
  <1>7. TypeOK'
    <2> HIDE DEF row, rec
    <2>1. <<rec>> \in Seq(Rec) /\ <<row>> \in Seq(Row)
      BY <1>5
    <2> QED
      BY <1>2, <1>3, <1>4, <1>6, <2>1 DEF WriterInv, TypeOK, Frame
  <1>8. PositionsInv'
    BY <1>1, <1>2, ClosingKeepsPositions
  <1>9. OpenInv'
    BY <1>2, <1>3 DEF OpenInv
  <1>10. RowsInv'
    <2>1. /\ Len(tocEntries') = t
          /\ \A n \in 1..t : tocEntries'[n].hash = written[n] /\ RowHolds(frames', tocEntries'[n])
      BY <1>1, <1>2, ClosingKeepsRows
    <2>2. DOMAIN tocEntries' = 1..t
      BY <1>4, <2>1
    <2>3. /\ Len(pendingRows') = 1 /\ DOMAIN pendingRows' = 1..1 /\ Len(open'.recs) = 1
          /\ pendingRows'[1] = row /\ open'.recs[1] = rec
      BY <1>2, <1>3
    <2>4. row.hash = h /\ row.off = payloadBytes' /\ rec = BlobRec(row.hash, row.recOff)
      OBVIOUS
    <2> HIDE DEF row, rec, t
    <2>5. \A k \in 1..1 : /\ pendingRows'[k].hash = written'[t + k]
                          /\ pendingRows'[k].off = payloadBytes'
                          /\ open'.recs[k] = BlobRec(pendingRows'[k].hash, pendingRows'[k].recOff)
      BY <1>2, <1>6, <2>3, <2>4
    <2>6. Len(tocEntries') + Len(pendingRows') = Len(written')
      BY <1>2, <1>6, <2>1, <2>3
    <2>7. \A n \in 1..t : tocEntries'[n].hash = written'[n]
      BY <1>2, <1>6, <2>1
    <2> QED
      BY <2>1, <2>2, <2>3, <2>5, <2>6, <2>7 DEF RowsInv, BlobRec
  <1>11. GroupsInv'
    <2>1. /\ FramesAreGrouped' /\ \A i \in DOMAIN frames' : frames'[i].recs # <<>>
          /\ frames'[Len(frames')].len = open.len
      BY <1>1, <1>2, ClosingKeepsGroups
    <2>2. open.len + BlobRecordLen(h) > BlobFrameFlush
      BY <1>2 DEF WriteBlobInNewFrame, WouldOverflow, WriterInv, OpenInv
    <2>3. Len(open'.recs) = 1 /\ open'.recs[1].hash = h
      BY <1>3 DEF BlobRec
    <2> QED
      BY <2>1, <2>2, <2>3 DEF GroupsInv, BlobRecordLen
  <1>12. EndsInv'
    BY <1>2 DEF EndsInv
  <1> QED
    BY <1>7, <1>8, <1>9, <1>10, <1>11, <1>12 DEF WriterInv

LEMMA FinishBlobsStep ==
  ASSUME WriterInv, FinishBlobs
  PROVE  WriterInv'
  <1>1. /\ stage = "blobs" /\ stage' = "manifest" /\ inFrame' = FALSE
        /\ open' = EmptyFrame /\ pendingRows' = <<>>
        /\ frameRecBytes' = 0 /\ frameRecOff' = 0
        /\ UNCHANGED <<manifestOff, manifestLen, trailer, written>>
    BY DEF FinishBlobs
  <1>2. CASE inFrame
    <2>1. PICK z \in CompressedLen : CloseWith(z)
      BY <1>2 DEF FinishBlobs, CloseWith
    <2>2. /\ filePos' \in Nat /\ payloadBytes' \in Nat
          /\ frames' \in Seq(Frame) /\ tocEntries' \in Seq(TocRow)
      BY <1>1, <2>1, ClosingKeepsTypes
    <2>3. TypeOK'
      <3>1. \A S : <<>> \in Seq(S)
        OBVIOUS
      <3>2. open' \in [recs : Seq(Rec), len : Nat]
        BY <1>1, <3>1 DEF EmptyFrame
      <3> QED
        BY <1>1, <2>2, <3>1, <3>2 DEF WriterInv, TypeOK, Frame
    <2>4. PositionsInv'
      BY <1>1, <2>1, ClosingKeepsPositions
    <2>5. OpenInv'
      BY <1>1 DEF OpenInv, EmptyFrame
    <2>6. RowsInv'
      <3>1. /\ Len(tocEntries') = Len(written)
            /\ \A n \in 1..Len(written) :
                 tocEntries'[n].hash = written[n] /\ RowHolds(frames', tocEntries'[n])
        BY <1>1, <2>1, ClosingKeepsRows
      <3>2. DOMAIN tocEntries' = 1..Len(written) /\ Len(written) \in Nat
        BY <2>2, <3>1 DEF WriterInv, TypeOK
      <3>3. Len(pendingRows') = 0 /\ DOMAIN pendingRows' = {} /\ Len(open'.recs) = 0
        BY <1>1 DEF EmptyFrame
      <3> QED
        BY <1>1, <3>1, <3>2, <3>3 DEF RowsInv
    <2>7. GroupsInv'
      BY <1>1, <1>2, <2>1, ClosingKeepsGroups DEF GroupsInv
    <2>8. EndsInv'
      BY <1>1 DEF EndsInv
    <2> QED
      BY <2>3, <2>4, <2>5, <2>6, <2>7, <2>8 DEF WriterInv
  <1>3. CASE ~inFrame
    <2>1. /\ UNCHANGED <<frames, filePos, payloadBytes, tocEntries>>
          /\ open = EmptyFrame /\ pendingRows = <<>>
      BY <1>3 DEF FinishBlobs, WriterInv, OpenInv
    <2>2. UNCHANGED <<open, pendingRows>>
      BY <1>1, <2>1
    <2>3. TypeOK'
      BY <1>1, <2>1, <2>2 DEF WriterInv, TypeOK
    <2>4. PositionsInv'
      BY <1>1, <2>1 DEF WriterInv, PositionsInv, FramesTileThePayload, FrameEnd
    <2>5. OpenInv'
      BY <1>1 DEF OpenInv, EmptyFrame
    <2>6. RowsInv'
      BY <1>1, <2>1, <2>2 DEF WriterInv, RowsInv
    <2>7. GroupsInv'
      BY <1>1, <2>1 DEF WriterInv, GroupsInv, FramesAreGrouped, BlobRecordLen
    <2>8. EndsInv'
      BY <1>1 DEF EndsInv
    <2> QED
      BY <2>3, <2>4, <2>5, <2>6, <2>7, <2>8 DEF WriterInv
  <1> QED
    BY <1>2, <1>3

LEMMA WriteManifestStep ==
  ASSUME WriterInv, WriteManifest
  PROVE  WriterInv'
  <1> DEFINE recs == <<[kind |-> "manifest", blobs |-> written, off |-> 0],
                       [kind |-> "end", off |-> ManifestLen - 1]>>
             f(z) == [at |-> filePos, zlen |-> z, len |-> ManifestLen, recs |-> recs]
             n == Len(frames)
  <1>1. PICK z \in CompressedLen : /\ frames' = Append(frames, f(z))
                                   /\ filePos' = filePos + z
                                   /\ payloadBytes' = payloadBytes + LenFromPos(z)
                                   /\ manifestLen' = LenFromPos(z)
    BY DEF WriteManifest
  <1>2. /\ stage = "manifest" /\ stage' = "toc" /\ manifestOff' = payloadBytes
        /\ UNCHANGED <<open, inFrame, pendingRows, tocEntries, frameRecBytes,
                       frameRecOff, trailer, written>>
    BY DEF WriteManifest
  <1>3. /\ filePos = HeaderTotal + payloadBytes /\ payloadBytes \in Nat /\ z \in Nat \ {0}
        /\ HeaderTotal \in Nat /\ ManifestLen \in Nat \ {0} /\ written \in Seq(Hash)
        /\ frames \in Seq(Frame) /\ filePos \in Nat
    BY <1>2, WriterAssumption DEF WriterInv, PositionsInv, FramesTileThePayload, TypeOK, Frame
  <1>4. LenFromPos(z) = z
    BY <1>3 DEF LenFromPos
  <1>5. recs \in Seq(Rec)
    <2>1. [kind |-> "manifest", blobs |-> written, off |-> 0] \in Rec
      BY <1>3 DEF Rec
    <2>2. [kind |-> "end", off |-> ManifestLen - 1] \in Rec
      BY <1>3 DEF Rec
    <2> QED
      BY <2>1, <2>2
  <1>6. f(z) \in Frame
    <2> HIDE DEF recs
    <2> QED
      BY <1>3, <1>5 DEF Frame
  <1>7. f(z).at = filePos /\ f(z).zlen = z /\ f(z).recs = recs
    OBVIOUS
  <1> HIDE DEF f
  <1>8. /\ frames' \in Seq(Frame) /\ n \in Nat /\ Len(frames') = n + 1
        /\ DOMAIN frames = 1..n /\ DOMAIN frames' = 1..(n + 1) /\ frames' # <<>>
        /\ \A i \in 1..n : frames'[i] = frames[i]
        /\ frames'[n + 1] = f(z)
    BY <1>1, <1>3, <1>6, Appended
  <1>9. recs # <<>> /\ recs[1].kind = "manifest"
    OBVIOUS
  <1>10. TypeOK'
    BY <1>1, <1>2, <1>3, <1>4, <1>8 DEF WriterInv, TypeOK, Frame
  <1>11. PositionsInv'
    <2>1. AppendFrame(f(z), z)
      BY <1>1, <1>6, <1>7 DEF AppendFrame
    <2> QED
      BY <1>2, <2>1, AppendKeepsPositions
  <1>12. OpenInv'
    BY <1>2 DEF WriterInv, OpenInv, EmptyFrame
  <1>13. RowsInv'
    <2>1. \A n1 \in DOMAIN tocEntries :
            tocEntries[n1].hash = written[n1] /\ RowHolds(frames, tocEntries[n1])
      BY DEF WriterInv, RowsInv
    <2>2. DOMAIN frames \subseteq DOMAIN frames' /\ \A i \in DOMAIN frames : frames'[i] = frames[i]
      BY <1>8
    <2>3. \A n1 \in DOMAIN tocEntries : RowHolds(frames', tocEntries[n1])
      BY <2>1, <2>2, RowsStayInLongerFile
    <2>4. pendingRows = <<>>
      BY <1>2 DEF WriterInv, OpenInv
    <2> QED
      BY <1>2, <2>1, <2>3, <2>4 DEF WriterInv, RowsInv
  <1>14. GroupsInv'
    <2>1. ~inFrame'
      BY <1>2 DEF WriterInv, OpenInv
    <2>2. \A i \in 1..n :
            /\ frames[i].recs # <<>>
            /\ frames[i].recs[1].kind = "blob" =>
                 /\ frames[i].len <= BlobFrameFlush \/ Len(frames[i].recs) = 1
                 /\ i + 1 \in 1..n /\ frames[i + 1].recs[1].kind = "blob" =>
                      frames[i].len + BlobRecordLen(frames[i + 1].recs[1].hash) > BlobFrameFlush
      BY <1>8 DEF WriterInv, GroupsInv, FramesAreGrouped
    <2>3. frames'[n + 1].recs = recs
      BY <1>7, <1>8
    <2> HIDE DEF n, recs
    <2>4. ASSUME NEW i \in 1..(n + 1)
          PROVE  /\ frames'[i].recs # <<>>
                 /\ frames'[i].recs[1].kind = "blob" =>
                      /\ frames'[i].len <= BlobFrameFlush \/ Len(frames'[i].recs) = 1
                      /\ i + 1 \in 1..(n + 1) /\ frames'[i + 1].recs[1].kind = "blob" =>
                           frames'[i].len + BlobRecordLen(frames'[i + 1].recs[1].hash) > BlobFrameFlush
      <3>1. CASE i = n + 1
        BY <1>9, <2>3, <3>1
      <3>2. CASE i = n
        BY <1>8, <1>9, <2>2, <2>3, <3>2
      <3>3. CASE i # n /\ i # n + 1
        <4>1. i \in 1..n /\ i + 1 \in 1..n
          BY <1>8, <3>3
        <4> QED
          BY <1>8, <2>2, <4>1
      <3> QED
        BY <3>1, <3>2, <3>3
    <2> QED
      BY <1>8, <2>1, <2>4 DEF GroupsInv, FramesAreGrouped, BlobRecordLen
  <1>15. EndsInv'
    <2>1. frames'[Len(frames')] = f(z)
      BY <1>8
    <2> QED
      BY <1>1, <1>2, <1>3, <1>4, <1>7, <1>8, <2>1 DEF EndsInv
  <1> QED
    BY <1>10, <1>11, <1>12, <1>13, <1>14, <1>15 DEF WriterInv

LEMMA WriteTailStep ==
  ASSUME WriterInv, WriteTail
  PROVE  WriterInv'
  <1> DEFINE toc == EncodedLen(Len(tocEntries))
  <1>1. /\ stage = "toc" /\ filePos' = filePos + toc + TrailerLen
        /\ trailer' = [payload |-> payloadBytes, toc |-> toc, blobs |-> Len(written)]
        /\ stage' = IF filePos' = HeaderTotal + payloadBytes + toc + TrailerLen
                      THEN "done" ELSE "mismatch"
        /\ UNCHANGED <<frames, open, inFrame, payloadBytes, pendingRows, tocEntries,
                       frameRecBytes, frameRecOff, manifestOff, manifestLen, written>>
    BY DEF WriteTail
  <1>2. /\ toc \in Nat /\ Len(written) \in Nat /\ payloadBytes \in Nat /\ filePos \in Nat
        /\ filePos = HeaderTotal + payloadBytes
    <2>1. Len(tocEntries) \in Nat /\ Len(written) \in Nat
      BY DEF WriterInv, TypeOK
    <2> QED
      BY <1>1, <2>1 DEF WriterInv, TypeOK, PositionsInv, FramesTileThePayload, EncodedLen,
                        TocOverhead, TocEntrySize
  <1> HIDE DEF toc
  <1>3. stage' = "done"
    BY <1>1, <1>2
  <1>4. TypeOK'
    <2>1. trailer' \in [payload : Nat, toc : Nat, blobs : Nat]
      BY <1>1, <1>2
    <2>2. filePos' \in Nat
      BY <1>1, <1>2 DEF TrailerLen
    <2> QED
      BY <1>1, <1>3, <2>1, <2>2 DEF WriterInv, TypeOK
  <1>5. PositionsInv'
    BY <1>1, <1>3 DEF WriterInv, PositionsInv, FramesTileThePayload, FrameEnd
  <1>6. OpenInv'
    BY <1>1, <1>3 DEF WriterInv, OpenInv, EmptyFrame
  <1>7. RowsInv'
    BY <1>1 DEF WriterInv, RowsInv
  <1>8. GroupsInv'
    BY <1>1 DEF WriterInv, GroupsInv, FramesAreGrouped, BlobRecordLen
  <1>9. EndsInv'
    BY <1>1, <1>2, <1>3 DEF WriterInv, EndsInv, toc
  <1> QED
    BY <1>4, <1>5, <1>6, <1>7, <1>8, <1>9 DEF WriterInv

LEMMA WriteFailsStep ==
  ASSUME WriterInv, WriteFails
  PROVE  WriterInv'
  BY DEF WriterInv, WriteFails, TypeOK, PositionsInv, FramesTileThePayload, FrameEnd,
         OpenInv, EmptyFrame, RowsInv, GroupsInv, FramesAreGrouped, BlobRecordLen, EndsInv

-----------------------------------------------------------------------------
\* The books of the writer are right at every moment of a run (AyzWriter), also
\* of one that fails.
THEOREM WriterInvariant == Spec => []WriterInv
  <1>1. WriterInv /\ UNCHANGED vars => WriterInv'
    <2> SUFFICES ASSUME WriterInv, UNCHANGED vars PROVE WriterInv'
      OBVIOUS
    <2> USE DEF vars, WriterInv
    <2>1. TypeOK' /\ OpenInv'
      BY DEF TypeOK, OpenInv, EmptyFrame
    <2>2. PositionsInv'
      BY DEF PositionsInv, FramesTileThePayload, FrameEnd
    <2>3. RowsInv' /\ EndsInv'
      BY DEF RowsInv, EndsInv
    <2>4. GroupsInv'
      BY DEF GroupsInv, FramesAreGrouped, BlobRecordLen
    <2> QED
      BY <2>1, <2>2, <2>3, <2>4
  <1>2. WriterInv /\ Next => WriterInv'
    BY WriteBlobStep, WriteBlobInNewFrameStep, FinishBlobsStep, WriteManifestStep,
       WriteTailStep, WriteFailsStep DEF Next
  <1> QED
    BY <1>1, <1>2, InitHolds, PTL DEF Spec

\* The variables hold what the fields of AyzWriter may hold.
THEOREM WriterTypes == Spec => []TypeOK
  <1>1. WriterInv => TypeOK
    BY DEF WriterInv
  <1> QED
    BY <1>1, WriterInvariant, PTL

\* payload_bytes is where the payload really ends, so that the comparison of
\* lengths in finish never fails, and the frames fill it without a gap.
THEOREM FramesTile == Spec => []FramesTileThePayload
  <1>1. WriterInv => FramesTileThePayload
    BY DEF WriterInv, PositionsInv
  <1> QED
    BY <1>1, WriterInvariant, PTL

\* The grouping of records into frames depends on the blobs alone.
THEOREM Grouping == Spec => []FramesAreGrouped
  <1>1. WriterInv => FramesAreGrouped
    BY DEF WriterInv, GroupsInv
  <1> QED
    BY <1>1, WriterInvariant, PTL

\* Every row of a finished TOC leads to its blob: the row waits in
\* pending_toc_rows until its frame is closed, and gets the length the frame
\* then has.
THEOREM TocIsRight == Spec => []TocLocatesBlobs
  <1>1. WriterInv => TocLocatesBlobs
    <2> SUFFICES ASSUME WriterInv, stage = "done" PROVE TocLocatesBlobs
      BY DEF TocLocatesBlobs
    <2>1. pendingRows = <<>>
      BY DEF WriterInv, OpenInv
    <2>2. Len(tocEntries) = Len(written)
      BY <2>1 DEF WriterInv, TypeOK, RowsInv
    <2>3. ASSUME NEW n \in DOMAIN tocEntries
          PROVE  /\ tocEntries[n].hash = written[n]
                 /\ \E i \in FramesAt(tocEntries[n].off) :
                      /\ frames[i].zlen = tocEntries[n].len
                      /\ BlobRec(tocEntries[n].hash, tocEntries[n].recOff) \in
                           {frames[i].recs[k] : k \in DOMAIN frames[i].recs}
      <3>1. tocEntries[n].hash = written[n] /\ RowHolds(frames, tocEntries[n])
        BY DEF WriterInv, RowsInv
      <3> QED
        BY <3>1 DEF RowHolds, FramesAt
    <2> QED
      BY <2>2, <2>3 DEF TocLocatesBlobs
  <1> QED
    BY <1>1, WriterInvariant, PTL

\* `list`, which seeks, and `verify`, which streams, read the same manifest: no
\* other frame starts where the TOC says the manifest's does.
THEOREM ManifestIsLast == Spec => []ListReadsTheManifest
  <1>1. WriterInv => ListReadsTheManifest
    <2> SUFFICES ASSUME WriterInv, stage = "done" PROVE ListReadsTheManifest
      BY DEF ListReadsTheManifest
    <2> DEFINE n == Len(frames)
    <2>1. /\ frames # <<>> /\ frames[n].at = HeaderTotal + manifestOff
          /\ frames[n].zlen = manifestLen
          /\ frames[n].recs = <<[kind |-> "manifest", blobs |-> written, off |-> 0],
                                [kind |-> "end", off |-> ManifestLen - 1]>>
      BY DEF WriterInv, EndsInv
    <2>2. n \in Nat /\ n \in DOMAIN frames /\ DOMAIN frames = 1..n
      <3>1. frames \in Seq(Frame)
        BY DEF WriterInv, TypeOK, Frame
      <3> QED
        BY <2>1, <3>1
    <2>3. FramesAt(manifestOff) = {n}
      <3>1. ASSUME NEW i \in DOMAIN frames, i # n PROVE frames[i].at # frames[n].at
        <4>1. i < n
          BY <2>2, <3>1
        <4>2. frames[i].zlen > 0 /\ frames[i].at + frames[i].zlen <= frames[n].at
          BY <2>2, <4>1 DEF WriterInv, PositionsInv, FrameEnd
        <4>3. frames[i].at \in Nat /\ frames[i].zlen \in Nat /\ frames[n].at \in Nat
          <5>1. frames \in Seq(Frame)
            BY DEF WriterInv, TypeOK, Frame
          <5>2. frames[i] \in Frame /\ frames[n] \in Frame
            BY <2>2, <5>1
          <5> QED
            BY <5>2 DEF Frame
        <4> QED
          BY <4>2, <4>3
      <3> HIDE DEF n
      <3> QED
        BY <2>1, <2>2, <3>1 DEF FramesAt
    <2>4. ASSUME NEW s \in StreamBlobs PROVE s[1] < n
      <3>1. s[1] \in 1..n /\ s[2] \in DOMAIN frames[s[1]].recs /\ frames[s[1]].recs[s[2]].kind = "blob"
        BY <2>2 DEF StreamBlobs
      <3>2. \A k \in DOMAIN frames[n].recs : frames[n].recs[k].kind # "blob"
        BY <2>1
      <3> HIDE DEF n
      <3> QED
        BY <2>2, <3>1, <3>2
    <2>5. Len(frames[n].recs) = 2 /\ frames[n].recs[1].kind = "manifest"
          /\ frames[n].recs[1].blobs = written
      BY <2>1
    <2> QED
      BY <2>1, <2>3, <2>4, <2>5 DEF ListReadsTheManifest
  <1> QED
    BY <1>1, WriterInvariant, PTL
=============================================================================
