--------------------------- MODULE PipelineProofs ---------------------------
(***************************************************************************)
(* Proofs about the hash pipeline, for every argument list, cap and hash   *)
(* set: its inductive invariant, the safety properties that follow, and    *)
(* that it implements packing with one job.                                *)
(***************************************************************************)
EXTENDS PipelineInv, FiniteSetTheorems, TLAPS

Reasons == {"input", "crc", "panic", "abort", "signed", "io"}

-----------------------------------------------------------------------------
(* Facts about the inputs.                                                 *)

\* Byte offsets are natural numbers that never decrease, and each entry's
\* kind, blobs and check result have their types.
LEMMA ItemFacts ==
  ASSUME input \in DOMAIN Inputs
  PROVE  /\ Len(Items) \in Nat
         /\ Items \in Seq(Item)
         /\ Own \in Seq(Hash)
         /\ \A k \in 1..Len(Items) :
              /\ Items[k].kind \in {"dir", "file", "zip"}
              /\ Items[k].blobs \in Seq(Hash)
              /\ Offset(k) \in Nat /\ Offset(k - 1) \in Nat
              /\ Bytes(k) \in Nat
              /\ Offset(k) = Offset(k - 1) + Bytes(k)
              /\ Items[k].kind = "dir" => Bytes(k) = 0
         /\ \A k \in 0..Len(Items) : Offset(k) \in Nat
<1> DEFINE Input == [readable : BOOLEAN, signed : BOOLEAN, items : Seq(Item),
                     offset : Seq(Nat), own : Seq(Hash)]
<1>0. Inputs \in Seq(Input) /\ input \in DOMAIN Inputs
  BY InputsAssumption
<1>1. /\ Inputs[input] \in Input
      /\ Len(Inputs[input].offset) = Len(Inputs[input].items)
  <2> HIDE DEF Input
  <2>1. Inputs[input] \in Input
    BY <1>0
  <2> QED BY <2>1, InputsAssumption
<1>2. /\ Len(Items) \in Nat /\ Items \in Seq(Item) /\ Own \in Seq(Hash)
      /\ \A k \in 1..Len(Items) : Items[k] \in Item
  BY <1>1 DEF Items, Own
<1>3. \A k \in 0..Len(Items) : Offset(k) \in Nat
  BY <1>1 DEF Offset, Items
<1>4. ASSUME NEW k \in 1..Len(Items)
      PROVE  /\ Offset(k) \in Nat /\ Offset(k - 1) \in Nat
             /\ Offset(k - 1) <= Offset(k)
             /\ Items[k].kind = "dir" => Offset(k - 1) = Offset(k)
  <2>1. k \in DOMAIN Inputs[input].items
    BY <1>1 DEF Items
  <2>2. LET before == IF k = 1 THEN 0 ELSE Inputs[input].offset[k - 1]
        IN  Inputs[input].items[k].kind = "dir" =>
              before = Inputs[input].offset[k]
    BY <2>1, InputsAssumption
  <2>3. k - 1 \in 0..Len(Items) /\ k \in 0..Len(Items)
    BY <1>2
  <2>4. Offset(k - 1) <= Offset(k)
    <3>1. CASE k = 1
      BY <3>1, <1>3, <2>3 DEF Offset
    <3>2. CASE k # 1
      <4>1. k - 1 \in DOMAIN Inputs[input].offset /\ k \in DOMAIN Inputs[input].offset
        BY <3>2, <1>1, <1>2, <2>3 DEF Items
      <4>2. Inputs[input].offset[k - 1] <= Inputs[input].offset[k]
        BY <4>1, InputsAssumption, k - 1 <= k
      <4> QED BY <3>2, <4>2 DEF Offset
    <3> QED BY <3>1, <3>2
  <2> QED BY <2>2, <2>3, <2>4, <1>3 DEF Offset, Items
<1>5. \A k \in 1..Len(Items) : /\ Items[k].kind \in {"dir", "file", "zip"}
                               /\ Items[k].blobs \in Seq(Hash)
  BY <1>2 DEF Item
<1>6. \A k \in 1..Len(Items) : /\ Bytes(k) \in Nat
                               /\ Offset(k) = Offset(k - 1) + Bytes(k)
                               /\ Items[k].kind = "dir" => Bytes(k) = 0
  BY <1>4 DEF Bytes
<1> QED BY <1>2, <1>3, <1>4, <1>5, <1>6

\* The same facts in the form in which single steps need them.
LEMMA ItemsAreFinite ==
  ASSUME input \in DOMAIN Inputs
  PROVE  Len(Items) \in Nat
BY ItemFacts

LEMMA KindOfItem ==
  ASSUME input \in DOMAIN Inputs, NEW k \in 1..Len(Items)
  PROVE  Items[k].kind \in {"dir", "file", "zip"} /\ Items[k].blobs \in Seq(Hash)
BY ItemFacts

LEMMA OffsetType ==
  ASSUME input \in DOMAIN Inputs, NEW k \in 0..Len(Items)
  PROVE  Offset(k) \in Nat
BY ItemFacts

LEMMA OffsetStep ==
  ASSUME input \in DOMAIN Inputs, NEW k \in Nat, k < Len(Items)
  PROVE  /\ Offset(k) \in Nat /\ Offset(k + 1) \in Nat /\ Bytes(k + 1) \in Nat
         /\ Offset(k + 1) = Offset(k) + Bytes(k + 1)
         /\ Items[k + 1].kind = "dir" => Bytes(k + 1) = 0
<1>1. Len(Items) \in Nat
  BY ItemsAreFinite
<1>2. k + 1 \in 1..Len(Items) /\ (k + 1) - 1 = k
  BY <1>1
<1> QED BY <1>2, ItemFacts

LEMMA OffsetsIncrease ==
  ASSUME input \in DOMAIN Inputs,
         NEW j \in 0..Len(Items), NEW k \in 0..Len(Items), j <= k
  PROVE  Offset(j) <= Offset(k)
<1>1. Len(Items) \in Nat /\ Offset(j) \in Nat /\ Offset(k) \in Nat
  BY ItemFacts
<1>2. CASE j = 0
  BY <1>1, <1>2 DEF Offset
<1>3. CASE j # 0
  <2> DEFINE Input == [readable : BOOLEAN, signed : BOOLEAN, items : Seq(Item),
                       offset : Seq(Nat), own : Seq(Hash)]
  <2>0. Inputs \in Seq(Input)
    BY InputsAssumption
  <2>1. Inputs[input] \in Input /\ Len(Inputs[input].offset) = Len(Inputs[input].items)
    <3>1. Inputs[input] \in Input
      <4> HIDE DEF Input
      <4> QED BY <2>0
    <3>2. Len(Inputs[input].offset) = Len(Inputs[input].items)
      BY InputsAssumption
    <3> QED BY <3>1, <3>2
  <2>2. j \in DOMAIN Inputs[input].offset /\ k \in DOMAIN Inputs[input].offset
    <3>1. Inputs[input].offset \in Seq(Nat)
      BY <2>1
    <3>2. DOMAIN Inputs[input].offset = 1..Len(Items)
      <4> HIDE DEF Input
      <4> QED BY <2>1, <3>1 DEF Items
    <3>3. j \in 1..Len(Items) /\ k \in 1..Len(Items)
      <4> HIDE DEF Input
      <4> QED BY <1>1, <1>3
    <3> QED BY <3>2, <3>3
  <2>3. Inputs[input].offset[j] <= Inputs[input].offset[k]
    BY <2>2, InputsAssumption
  <2> QED BY <1>3, <1>1, <2>3 DEF Offset
<1> QED BY <1>2, <1>3

LEMMA InputsDomain == Len(Inputs) \in Nat /\ DOMAIN Inputs = 1..Len(Inputs)
<1> DEFINE Input == [readable : BOOLEAN, signed : BOOLEAN, items : Seq(Item),
                     offset : Seq(Nat), own : Seq(Hash)]
<1>1. Inputs \in Seq(Input)
  BY InputsAssumption
<1> QED BY <1>1

-----------------------------------------------------------------------------
(* A failing step.                                                         *)

\* Once the run has failed only its types and the facts about the sink matter.
LEMMA FailKeepsInv ==
  ASSUME IInv, NEW reason \in Reasons, FailWith(reason)
  PROVE  IInv'
<1>1. TypeOK'
  BY DEF IInv, TypeOK, SinkTypeOK, FailWith, Reasons, Goto, CountersUnchanged
<1>2. InflightBounded' /\ SeenIndexesBlobs'
  BY DEF IInv, InflightBounded, SeenIndexesBlobs, FailWith, CountersUnchanged
<1>3. NoAccountingDeadlock' /\ status' = "failed" /\ pc' = "stop"
  BY DEF NoAccountingDeadlock, FailWith, Reasons, Goto
<1> QED BY <1>1, <1>2, <1>3 DEF IInv

-----------------------------------------------------------------------------
(* Steps that only move the main thread from one loop to another.          *)

OnlyControl ==
  /\ PackUnchanged /\ CountersUnchanged
  /\ UNCHANGED <<batch, pending, hashing, channel, err>>

PC == {"scan", "recvAll", "insert", "take", "decide", "block", "spawn",
       "apply", "attach", "stop"}
CALL == {"none", "admit", "push", "drain", "finish", "flush"}

\* The items, the results and the accounts are where they were; only what
\* depends on the place of the main thread has to be checked.
LEMMA ControlStep ==
  ASSUME IInv, status = "packing", OnlyControl, pc' \in PC, call' \in CALL,
         ControlInv', BatchInv', RoomInv'
  PROVE  IInv'
<1> USE DEF OnlyControl, PackUnchanged, CountersUnchanged
<1>1. TypeOK'
  BY DEF IInv, TypeOK, SinkTypeOK, PC, CALL
<1>2. InflightBounded' /\ SeenIndexesBlobs' /\ NoAccountingDeadlock'
  BY DEF IInv, InflightBounded, SeenIndexesBlobs, NoAccountingDeadlock
<1>3. PlaceInv' /\ NothingLost' /\ CountInv'
  BY DEF IInv, PlaceInv, InFlight, NothingLost, CountInv
<1>4. InflightExact'
  BY DEF IInv, InflightExact, Offset
<1>5. status' = "packing"
  OBVIOUS
<1> QED BY <1>1, <1>2, <1>3, <1>4, <1>5 DEF IInv

LEMMA ScanEntryInv == ASSUME IInv, ScanEntry PROVE IInv'
<1> USE DEF ScanEntry, AtInput, OnlyControl, PackUnchanged, CountersUnchanged, Goto
<1>1. status = "packing" /\ ControlInv /\ BatchInv /\ TypeOK
  BY DEF IInv, ControlInv, TypeOK
<1>2. Items[Current].kind \in {"dir", "file", "zip"}
  <2>1. nextSeq \in Nat /\ nextSeq < Len(Items) /\ input \in DOMAIN Inputs
    BY <1>1 DEF TypeOK
  <2>2. Current \in 1..Len(Items)
    BY <2>1, ItemsAreFinite DEF Current
  <2> QED BY <2>1, <2>2, KindOfItem
<1>3. ControlInv'
  BY <1>1, <1>2 DEF ControlInv, Current, Items, Flushed
<1>4. BatchInv'
  BY <1>1 DEF BatchInv, Taken, Flushed, NumItems, Items, ControlInv
<1>5. RoomInv'
  BY <1>1, <1>2 DEF RoomInv, Fits, Bytes, Offset, Items, Current, ControlInv
<1> QED BY <1>1, <1>3, <1>4, <1>5, ControlStep DEF PC, CALL, TypeOK

LEMMA ScanEndsInv == ASSUME IInv, ScanEnds PROVE IInv'
<1> USE DEF ScanEnds, OnlyControl, PackUnchanged, CountersUnchanged, Goto
<1>1. status = "packing" /\ ControlInv /\ BatchInv /\ TypeOK /\ RoomInv
        /\ CountInv /\ NothingLost /\ InflightExact
  BY DEF IInv, ControlInv, TypeOK, AtInput
<1>3. ControlInv'
  BY <1>1 DEF ControlInv, Current, Items, Flushed, TypeOK, AtInput
<1>4. BatchInv'
  BY <1>1 DEF BatchInv, Taken, Flushed, NumItems, Items, ControlInv, TypeOK, AtInput
<1>5. RoomInv'
  BY <1>1 DEF RoomInv, Fits, Bytes, Offset, Items, Current, ControlInv, CanAdmit, AtInput
<1> QED BY <1>1, <1>3, <1>4, <1>5, ControlStep DEF PC, CALL, TypeOK, AtInput

LEMMA ReceivedAllInv == ASSUME IInv, ReceivedAll PROVE IInv'
<1> USE DEF ReceivedAll, OnlyControl, PackUnchanged, CountersUnchanged, Goto
<1>1. status = "packing" /\ ControlInv /\ BatchInv /\ TypeOK /\ RoomInv
        /\ CountInv /\ NothingLost /\ InflightExact
  BY DEF IInv, ControlInv, TypeOK
<1>3. ControlInv'
  BY <1>1 DEF ControlInv, Current, Items, Flushed, TypeOK
<1>4. BatchInv'
  BY <1>1 DEF BatchInv, Taken, Flushed, NumItems, Items, ControlInv, TypeOK
<1>5. RoomInv'
  BY <1>1 DEF RoomInv, Fits, Bytes, Offset, Items, Current, ControlInv, CanAdmit
<1> QED BY <1>1, <1>3, <1>4, <1>5, ControlStep DEF PC, CALL, TypeOK

LEMMA AdmitInv == ASSUME IInv, Admit PROVE IInv'
<1> USE DEF Admit, OnlyControl, PackUnchanged, CountersUnchanged, Goto
<1>1. status = "packing" /\ ControlInv /\ BatchInv /\ TypeOK /\ RoomInv
        /\ CountInv /\ NothingLost /\ InflightExact
  BY DEF IInv, ControlInv, TypeOK, Deciding
<1>2. Items[Current].kind \in {"dir", "file", "zip"}
  <2>1. nextSeq \in Nat /\ nextSeq < Len(Items) /\ input \in DOMAIN Inputs
    BY <1>1 DEF TypeOK, ControlInv, Deciding
  <2>2. Current \in 1..Len(Items)
    BY <2>1, ItemsAreFinite DEF Current
  <2> QED BY <2>1, <2>2, KindOfItem
<1>3. ControlInv'
  BY <1>1, <1>2 DEF ControlInv, Current, Items, Flushed, TypeOK, Deciding
<1>4. BatchInv'
  BY <1>1, <1>2 DEF BatchInv, Taken, Flushed, NumItems, Items, ControlInv, TypeOK, Deciding
<1>5. RoomInv'
  BY <1>1, <1>2 DEF RoomInv, Fits, Bytes, Offset, Items, Current, ControlInv, CanAdmit, Deciding
<1> QED BY <1>1, <1>3, <1>4, <1>5, ControlStep DEF PC, CALL, TypeOK, Deciding

LEMMA ReturnBatchInv == ASSUME IInv, ReturnBatch PROVE IInv'
<1> USE DEF ReturnBatch, OnlyControl, PackUnchanged, CountersUnchanged, Goto
<1>1. status = "packing" /\ ControlInv /\ BatchInv /\ TypeOK /\ RoomInv
        /\ CountInv /\ NothingLost /\ InflightExact
  BY DEF IInv, ControlInv, TypeOK, Deciding
<1>3. ControlInv'
  BY <1>1 DEF ControlInv, Current, Items, Flushed, TypeOK, Deciding
<1>4. BatchInv'
  BY <1>1 DEF BatchInv, Taken, Flushed, NumItems, Items, ControlInv, TypeOK, Deciding
<1>5. RoomInv'
  BY <1>1 DEF RoomInv, Fits, Bytes, Offset, Items, Current, ControlInv, CanAdmit, Deciding
<1> QED BY <1>1, <1>3, <1>4, <1>5, ControlStep DEF PC, CALL, TypeOK, Deciding

LEMMA FinishWaitsInv == ASSUME IInv, FinishWaits PROVE IInv'
<1> USE DEF FinishWaits, OnlyControl, PackUnchanged, CountersUnchanged, Goto
<1>1. status = "packing" /\ ControlInv /\ BatchInv /\ TypeOK /\ RoomInv
        /\ CountInv /\ NothingLost /\ InflightExact
  BY DEF IInv, ControlInv, TypeOK
<1>3. ControlInv'
  BY <1>1 DEF ControlInv, Current, Items, Flushed, TypeOK
<1>4. BatchInv'
  BY <1>1 DEF BatchInv, Taken, Flushed, NumItems, Items, ControlInv, TypeOK
<1>5. RoomInv'
  BY <1>1 DEF RoomInv, Fits, Bytes, Offset, Items, Current, ControlInv, CanAdmit
<1> QED BY <1>1, <1>3, <1>4, <1>5, ControlStep DEF PC, CALL, TypeOK

LEMMA FinishFlushesInv == ASSUME IInv, FinishFlushes PROVE IInv'
<1> USE DEF FinishFlushes, OnlyControl, PackUnchanged, CountersUnchanged, Goto
<1>1. status = "packing" /\ ControlInv /\ BatchInv /\ TypeOK /\ RoomInv
        /\ CountInv /\ NothingLost /\ InflightExact
  BY DEF IInv, ControlInv, TypeOK
<1>3. ControlInv'
  BY <1>1 DEF ControlInv, Current, Items, Flushed, TypeOK
<1>4. BatchInv'
  BY <1>1 DEF BatchInv, Taken, Flushed, NumItems, Items, ControlInv, TypeOK
<1>5. RoomInv'
  BY <1>1 DEF RoomInv, Fits, Bytes, Offset, Items, Current, ControlInv, CanAdmit
<1> QED BY <1>1, <1>3, <1>4, <1>5, ControlStep DEF PC, CALL, TypeOK

LEMMA AppliedInv == ASSUME IInv, Applied PROVE IInv'
<1> USE DEF Applied, OnlyControl, PackUnchanged, CountersUnchanged, Goto
<1>1. status = "packing" /\ ControlInv /\ BatchInv /\ TypeOK /\ RoomInv
        /\ CountInv /\ NothingLost /\ InflightExact
  BY DEF IInv, ControlInv, TypeOK
<1>3. ControlInv'
  BY <1>1 DEF ControlInv, Current, Items, Flushed, TypeOK
<1>4. BatchInv'
  BY <1>1 DEF BatchInv, Taken, Flushed, NumItems, Items, ControlInv, TypeOK
<1>5. RoomInv'
  BY <1>1 DEF RoomInv, Fits, Bytes, Offset, Items, Current, ControlInv, CanAdmit
<1> QED BY <1>1, <1>3, <1>4, <1>5, ControlStep DEF PC, CALL, TypeOK

-----------------------------------------------------------------------------
(* The wait for room.                                                      *)

\* With every result received and the reorder map stuck, nothing is left in
\* flight: the gap in front of nextEmit would be an item nobody has.
LEMMA NothingDueNothingInFlight ==
  ASSUME IInv, status = "packing", received = spawned,
         nextEmit \notin DOMAIN pending
  PROVE  nextEmit = nextSeq /\ inflight = 0
<1>1. /\ TypeOK /\ ControlInv /\ NothingLost /\ CountInv /\ InflightExact
  BY DEF IInv
<1>2. Cardinality(hashing) \in Nat /\ Len(channel) \in Nat
  BY <1>1, FS_CardinalityType DEF TypeOK
<1>3. Cardinality(hashing) = 0 /\ Len(channel) = 0
  BY <1>1, <1>2 DEF CountInv, TypeOK
<1>4. hashing = {}
  BY <1>1, <1>3, FS_EmptySet DEF TypeOK
<1>5. DOMAIN channel = {}
  BY <1>1, <1>3 DEF TypeOK
<1>6. nextEmit = nextSeq
  <2>1. nextEmit \in Nat /\ nextSeq \in Nat /\ nextEmit <= nextSeq
    BY <1>1 DEF TypeOK, ControlInv
  <2>2. nextEmit \notin nextEmit..(nextSeq - 1)
    BY <1>1, <1>4, <1>5 DEF NothingLost
  <2> QED BY <2>1, <2>2
<1>7. Offset(nextSeq) \in Nat
  <2>1. CASE input \in DOMAIN Inputs
    BY <2>1, <1>1, ItemFacts DEF TypeOK, ControlInv
  <2>2. CASE input \notin DOMAIN Inputs
    BY <2>2, <1>1 DEF ControlInv, Offset
  <2> QED BY <2>1, <2>2
<1> QED BY <1>1, <1>6, <1>7 DEF InflightExact

\* The wait ends in a receive, never in the "accounting deadlock" error.
LEMMA WaitForRoomInv == ASSUME IInv, WaitForRoom PROVE IInv'
<1> USE DEF WaitForRoom, Deciding, OnlyControl, PackUnchanged,
            CountersUnchanged, Goto
<1>1. status = "packing" /\ ControlInv /\ BatchInv /\ TypeOK
  BY DEF IInv, ControlInv, TypeOK
<1>2. received # spawned
  <2> SUFFICES ASSUME received = spawned PROVE FALSE
    OBVIOUS
  <2>1. nextEmit \notin DOMAIN pending
    BY <1>1 DEF ControlInv
  <2>2. inflight = 0
    BY <1>1, <2>1, NothingDueNothingInFlight
  <2> QED BY <2>2 DEF CanAdmit
<1>3. ControlInv'
  BY <1>1, <1>2 DEF ControlInv, Current, Items, Flushed
<1>4. BatchInv'
  BY <1>1, <1>2 DEF BatchInv, Taken, Flushed, NumItems, Items
<1>5. RoomInv'
  BY <1>1, <1>2 DEF RoomInv
<1> QED BY <1>1, <1>2, <1>3, <1>4, <1>5, ControlStep DEF PC, CALL

-----------------------------------------------------------------------------
(* The scanner's other steps.                                              *)

LEMMA UnreadableInputInv == ASSUME IInv, UnreadableInput PROVE IInv'
<1> USE DEF UnreadableInput, AtInput
<1>1. CASE Strict
  BY <1>1, FailKeepsInv DEF Reasons
<1>2. CASE ~Strict
  <2> USE <1>2 DEF mainVars
  <2>1. /\ status = "packing" /\ TypeOK /\ ControlInv /\ BatchInv /\ PlaceInv
        /\ nextSeq = 0 /\ nextEmit = 0 /\ inflight = 0
    BY DEF IInv, ControlInv, TypeOK, InflightExact, Offset
  <2>2. TypeOK'
    <3>1. input' \in 1..(Len(Inputs) + 1)
      BY InputsDomain
    <3> QED BY <2>1, <3>1 DEF TypeOK, SinkTypeOK
  <2>3. InflightBounded' /\ SeenIndexesBlobs' /\ NoAccountingDeadlock'
    BY DEF IInv, InflightBounded, SeenIndexesBlobs, NoAccountingDeadlock
  <2>4. ControlInv'
    <3>1. input' \in DOMAIN Inputs => 0 <= Len(Inputs[input'].items)
      <4> DEFINE Input == [readable : BOOLEAN, signed : BOOLEAN, items : Seq(Item),
                           offset : Seq(Nat), own : Seq(Hash)]
      <4>1. Inputs \in Seq(Input)
        BY InputsAssumption
      <4>2. input' \in DOMAIN Inputs => Inputs[input'] \in Input
        <5> HIDE DEF Input
        <5> QED BY <4>1
      <4> QED BY <4>2
    <3> QED BY <2>1, <3>1 DEF ControlInv, Flushed, Items
  <2>5. PlaceInv' /\ NothingLost' /\ CountInv'
    BY DEF IInv, PlaceInv, InFlight, NothingLost, CountInv
  <2>6. BatchInv'
    BY <2>1 DEF BatchInv, Taken, Flushed, ControlInv
  <2>7. InflightExact'
    BY <2>1 DEF InflightExact, Offset
  <2>8. RoomInv'
    BY <2>1 DEF RoomInv, ControlInv
  <2> QED BY <2>1, <2>2, <2>3, <2>4, <2>5, <2>6, <2>7, <2>8 DEF IInv
<1> QED BY <1>1, <1>2, InputsAssumption

LEMMA AllPackedInv == ASSUME IInv, AllPacked PROVE IInv'
<1> USE DEF AllPacked, Goto, CountersUnchanged
<1>1. TypeOK'
  BY DEF IInv, TypeOK, SinkTypeOK
<1> QED BY <1>1 DEF IInv, InflightBounded, SeenIndexesBlobs, NoAccountingDeadlock

-----------------------------------------------------------------------------
(* The pool.                                                               *)

LEMMA HashDoneInv == ASSUME IInv, NEW job \in hashing, HashDone(job) PROVE IInv'
<1> USE DEF HashDone, PackUnchanged, mainVars
<1>1. /\ TypeOK /\ ControlInv /\ PlaceInv /\ NothingLost /\ CountInv
      /\ BatchInv /\ InflightExact /\ RoomInv
  BY DEF IInv
<1> DEFINE msg == [seq |-> job.seq, item |-> job.item, ok |-> TRUE]
<1>2. job \in Job /\ msg \in Result /\ IsFiniteSet(hashing)
  BY <1>1 DEF TypeOK, Job, Result
<1>3. TypeOK'
  BY <1>1, <1>2, FS_RemoveElement DEF TypeOK, SinkTypeOK
<1>4. /\ channel \in Seq(Result) /\ channel' \in Seq(Result)
      /\ Len(channel') = Len(channel) + 1
      /\ channel'[Len(channel) + 1] = msg
      /\ \A k \in DOMAIN channel : channel'[k] = channel[k]
      /\ DOMAIN channel' = DOMAIN channel \cup {Len(channel) + 1}
      /\ Len(channel) + 1 \notin DOMAIN channel
  BY <1>1, <1>2 DEF TypeOK
<1> HIDE DEF msg
<1>5. ControlInv' /\ BatchInv' /\ RoomInv' /\ InflightExact'
  <2>1. ControlInv'
    <3>1. UNCHANGED <<pc, call, err, input, nextSeq, nextEmit, pending, spawned, received>>
      OBVIOUS
    <3> HIDE DEF HashDone
    <3>2. Items' = Items /\ Current' = Current /\ (Flushed' <=> Flushed)
      BY <3>1 DEF Items, Current, Flushed
    <3> QED BY <1>1, <3>1, <3>2 DEF ControlInv
  <2>2. BatchInv'
    BY <1>1 DEF BatchInv, Flushed, Taken, NumItems, Items
  <2>3. RoomInv'
    BY <1>1 DEF RoomInv, Fits, Items, Current, Bytes, Offset
  <2>4. InflightExact'
    BY <1>1 DEF InflightExact, Offset
  <2> QED BY <2>1, <2>2, <2>3, <2>4
<1>6. PlaceInv'
  <2>1. \A j \in hashing' : InFlight(j.seq, j.item)'
    BY <1>1 DEF PlaceInv, InFlight
  <2>2. msg.seq = job.seq /\ msg.item = job.item /\ msg.ok
    BY DEF msg
  <2>3. InFlight(msg.seq, msg.item)'
    BY <1>1, <2>2 DEF PlaceInv, InFlight
  <2>4. \A j \in hashing' : j.seq # msg.seq
    <3> SUFFICES ASSUME NEW j \in hashing', j.seq = msg.seq PROVE FALSE
      OBVIOUS
    <3>1. j \in hashing /\ j # job /\ j.seq = job.seq
      BY <2>2
    <3>2. j.item = job.item
      BY <3>1, <1>1 DEF PlaceInv, InFlight
    <3>3. j \in Job
      BY <3>1, <1>1 DEF TypeOK
    <3> QED BY <3>1, <3>2, <3>3, <1>2 DEF Job
  <2>5. \A k \in DOMAIN channel : channel[k].ok =>
          InFlight(channel[k].seq, channel[k].item)' /\ channel[k].seq # msg.seq
    BY <1>1, <2>2 DEF PlaceInv, InFlight
  <2> QED BY <1>1, <1>4, <2>1, <2>2, <2>3, <2>4, <2>5 DEF PlaceInv
<1>7. NothingLost'
  BY <1>1, <1>4 DEF NothingLost, msg
<1>8. CountInv'
  <2>1. Cardinality(hashing') = Cardinality(hashing) - 1 /\ Cardinality(hashing) \in Nat
    BY <1>2, FS_RemoveElement, FS_CardinalityType
  <2>2. spawned' = spawned /\ received' = received /\ Len(channel) \in Nat
    BY <1>4
  <2> QED BY <1>1, <1>4, <2>1, <2>2 DEF CountInv, TypeOK
<1>9. InflightBounded' /\ SeenIndexesBlobs' /\ NoAccountingDeadlock'
  BY DEF IInv, InflightBounded, SeenIndexesBlobs, NoAccountingDeadlock
<1> QED BY <1>3, <1>5, <1>6, <1>7, <1>8, <1>9 DEF IInv

LEMMA HashPanicsInv == ASSUME IInv, NEW job \in hashing, HashPanics(job) PROVE IInv'
<1> USE DEF HashPanics, PackUnchanged, mainVars
<1>1. /\ TypeOK /\ ControlInv /\ PlaceInv /\ NothingLost /\ CountInv
      /\ BatchInv /\ InflightExact /\ RoomInv
  BY DEF IInv
<1> DEFINE msg == [seq |-> 0, item |-> 0, ok |-> FALSE]
<1>2. job \in Job /\ msg \in Result /\ ~msg.ok /\ IsFiniteSet(hashing)
  BY <1>1 DEF TypeOK, Job, Result
<1>3. TypeOK'
  BY <1>1, <1>2, FS_RemoveElement DEF TypeOK, SinkTypeOK
<1>4. /\ channel \in Seq(Result) /\ channel' \in Seq(Result)
      /\ Len(channel') = Len(channel) + 1
      /\ channel'[Len(channel) + 1] = msg
      /\ \A k \in DOMAIN channel : channel'[k] = channel[k]
      /\ DOMAIN channel' = DOMAIN channel \cup {Len(channel) + 1}
      /\ Len(channel) + 1 \notin DOMAIN channel
  BY <1>1, <1>2 DEF TypeOK
<1> HIDE DEF msg
<1>5. ControlInv' /\ BatchInv' /\ RoomInv' /\ InflightExact'
  <2>1. ControlInv'
    <3>1. UNCHANGED <<pc, call, err, input, nextSeq, nextEmit, pending, spawned, received>>
      OBVIOUS
    <3> HIDE DEF HashPanics
    <3>2. Items' = Items /\ Current' = Current /\ (Flushed' <=> Flushed)
      BY <3>1 DEF Items, Current, Flushed
    <3> QED BY <1>1, <3>1, <3>2 DEF ControlInv
  <2>2. BatchInv'
    BY <1>1 DEF BatchInv, Flushed, Taken, NumItems, Items
  <2>3. RoomInv'
    BY <1>1 DEF RoomInv, Fits, Items, Current, Bytes, Offset
  <2>4. InflightExact'
    BY <1>1 DEF InflightExact, Offset
  <2> QED BY <2>1, <2>2, <2>3, <2>4
<1>6. PlaceInv'
  BY <1>1, <1>2, <1>4 DEF PlaceInv, InFlight
<1>7. NothingLost'
  BY <1>2, <1>4 DEF NothingLost
<1>8. CountInv'
  <2>1. Cardinality(hashing') = Cardinality(hashing) - 1 /\ Cardinality(hashing) \in Nat
    BY <1>2, FS_RemoveElement, FS_CardinalityType
  <2>2. spawned' = spawned /\ received' = received /\ Len(channel) \in Nat
    BY <1>4
  <2> QED BY <1>1, <1>4, <2>1, <2>2 DEF CountInv, TypeOK
<1>9. InflightBounded' /\ SeenIndexesBlobs' /\ NoAccountingDeadlock'
  BY DEF IInv, InflightBounded, SeenIndexesBlobs, NoAccountingDeadlock
<1> QED BY <1>3, <1>5, <1>6, <1>7, <1>8, <1>9 DEF IInv

-----------------------------------------------------------------------------
(* Receiving, and taking in order.                                         *)

LEMMA ReceiveInv == ASSUME IInv, Receive PROVE IInv'
<1> USE DEF Receive, PackUnchanged, Goto
<1> DEFINE msg == Head(channel)
<1>1. /\ TypeOK /\ BatchInv /\ InflightExact /\ RoomInv
      /\ status = "packing" /\ ControlInv /\ PlaceInv /\ NothingLost /\ CountInv
  BY DEF IInv, ControlInv, TypeOK
<1>2. /\ channel \in Seq(Result) /\ channel' \in Seq(Result)
      /\ Len(channel) \in Nat \ {0} /\ Len(channel') = Len(channel) - 1
      /\ DOMAIN channel = 1..Len(channel) /\ DOMAIN channel' = 1..Len(channel')
      /\ \A k \in DOMAIN channel' : channel'[k] = channel[k + 1]
      /\ msg = channel[1] /\ msg \in Result
  BY <1>1 DEF TypeOK
<1> HIDE DEF msg
<1>3. InFlight(msg.seq, msg.item) /\ msg.ok
  BY <1>1, <1>2 DEF PlaceInv, msg
<1>4. /\ DOMAIN pending' = DOMAIN pending \cup {msg.seq}
      /\ pending'[msg.seq] = msg.seq + 1
      /\ \A s \in DOMAIN pending : pending'[s] = pending[s]
  BY <1>3 DEF InsertPending, InFlight, msg
<1>5. TypeOK'
  <2>1. DOMAIN pending' \subseteq Nat /\ \A s \in DOMAIN pending' : pending'[s] \in Nat \ {0}
    BY <1>1, <1>2, <1>4 DEF TypeOK, Result
  <2>2. /\ UNCHANGED <<blobs, seen, input, entries, nth, jars, status, call, batch,
                      nextSeq, nextEmit, spawned, inflight, peak, hashing, err>>
        /\ received' = received + 1 /\ pc' = "recvAll"
    OBVIOUS
  <2> HIDE DEF Receive
  <2>3. SinkTypeOK' /\ batch' \in Seq(Nat \ {0})
    BY <1>1, <2>2 DEF TypeOK, SinkTypeOK
  <2>4. /\ entries' \in Seq(Nat \ {0})
        /\ jars' \in Seq([input : Nat, entries : Seq(Nat \ {0})])
        /\ hashing' \subseteq Job /\ IsFiniteSet(hashing')
    BY <1>1, <2>2 DEF TypeOK
  <2>5. /\ input' \in 1..(Len(Inputs) + 1) /\ nth' \in Nat
        /\ nextSeq' \in Nat /\ nextEmit' \in Nat /\ spawned' \in Nat /\ received' \in Nat
        /\ inflight' \in Nat /\ peak' \in Nat
    BY <1>1, <2>2 DEF TypeOK
  <2>6. /\ status' \in {"packing", "done", "failed"} /\ err' = "none"
        /\ call' \in {"none", "admit", "push", "drain", "finish", "flush"}
    BY <1>1, <2>2 DEF TypeOK, ControlInv
  <2> QED BY <1>2, <2>1, <2>2, <2>3, <2>4, <2>5, <2>6 DEF TypeOK
<1>6. received + 1 <= spawned
  <2>1. Cardinality(hashing) \in Nat
    BY <1>1, FS_CardinalityType DEF TypeOK
  <2> QED BY <1>1, <1>2, <2>1 DEF CountInv, TypeOK
<1>7. ControlInv'
  BY <1>1, <1>6 DEF ControlInv, Flushed, Items, Current
<1>8. PlaceInv'
  <2>1. ASSUME NEW k \in DOMAIN channel', channel'[k].ok
        PROVE  /\ InFlight(channel'[k].seq, channel'[k].item)
               /\ channel'[k].seq # msg.seq
               /\ \A job \in hashing' : job.seq # channel'[k].seq
               /\ \A j \in DOMAIN channel' :
                    channel'[j].ok /\ channel'[j].seq = channel'[k].seq => j = k
    <3>1. k + 1 \in DOMAIN channel /\ channel'[k] = channel[k + 1] /\ k + 1 # 1
          /\ 1 \in DOMAIN channel /\ k \in Nat
      BY <1>2, <2>1
    <3>2. \A j \in DOMAIN channel' : j + 1 \in DOMAIN channel /\ j \in Nat
      BY <1>2
    <3> QED BY <3>1, <3>2, <2>1, <1>1, <1>2, <1>3 DEF PlaceInv
  <2>2. \A job \in hashing' : InFlight(job.seq, job.item)'
    <3>1. 1 \in DOMAIN channel
      BY <1>2
    <3> QED BY <3>1, <1>1, <1>2, <1>3, <1>4 DEF PlaceInv, InFlight
  <2>3. \A s \in DOMAIN pending' :
          s \in nextEmit'..(nextSeq' - 1) /\ pending'[s] = s + 1
    BY <1>1, <1>3, <1>4 DEF PlaceInv, InFlight
  <2>4. ASSUME NEW k \in DOMAIN channel', channel'[k].ok
        PROVE  InFlight(channel[k].seq, channel[k].item)'
    BY <2>1, <2>4, <1>4 DEF InFlight
  <2> QED BY <2>1, <2>2, <2>3, <2>4 DEF PlaceInv
<1>9. NothingLost'
  <2> SUFFICES ASSUME NEW s \in nextEmit..(nextSeq - 1), s \notin DOMAIN pending'
               PROVE  \/ \E job \in hashing' : job.seq = s
                      \/ \E k \in DOMAIN channel' :
                           channel'[k].ok => channel'[k].seq = s
    BY DEF NothingLost
  <2>1. s \notin DOMAIN pending /\ s # msg.seq
    BY <1>4
  <2>2. CASE \E job \in hashing : job.seq = s
    BY <2>2
  <2>3. ASSUME NEW k \in DOMAIN channel, channel[k].ok => channel[k].seq = s
        PROVE  \E j \in DOMAIN channel' : channel'[j].ok => channel'[j].seq = s
    <3>1. k # 1
      BY <2>1, <2>3, <1>2, <1>3
    <3>2. k - 1 \in DOMAIN channel' /\ channel'[k - 1] = channel[k]
      BY <3>1, <1>2
    <3> QED BY <3>2, <2>3
  <2> QED BY <1>1, <2>1, <2>2, <2>3 DEF NothingLost
<1>10. CountInv'
  <2>1. Cardinality(hashing) \in Nat
    BY <1>1, FS_CardinalityType DEF TypeOK
  <2>2. received' = received + 1 /\ spawned' = spawned
          /\ Cardinality(hashing') = Cardinality(hashing)
    OBVIOUS
  <2>3. received \in Nat /\ spawned \in Nat
    BY <1>1 DEF TypeOK
  <2>4. spawned - received = Cardinality(hashing) + Len(channel)
    BY <1>1 DEF CountInv
  <2> HIDE DEF Receive
  <2>5. spawned' - received' = Cardinality(hashing') + Len(channel')
    BY <1>2, <2>1, <2>2, <2>3, <2>4
  <2> QED BY <2>5 DEF CountInv
<1>11. BatchInv' /\ RoomInv' /\ InflightExact'
  BY <1>1 DEF ControlInv, BatchInv, RoomInv, InflightExact, Flushed, Taken,
     NumItems, Items, Current, Fits, Bytes, Offset
<1>12. InflightBounded' /\ SeenIndexesBlobs' /\ NoAccountingDeadlock'
  BY DEF IInv, InflightBounded, SeenIndexesBlobs, NoAccountingDeadlock
<1>13. status' = "packing"
  BY <1>1
<1> HIDE DEF Receive
<1> QED BY <1>5, <1>7, <1>8, <1>9, <1>10, <1>11, <1>12, <1>13 DEF IInv

LEMMA TakeOneInv == ASSUME IInv, TakeOne PROVE IInv'
<1> USE DEF TakeOne, PackUnchanged
<1>1. /\ TypeOK /\ BatchInv /\ InflightExact /\ RoomInv
      /\ status = "packing" /\ ControlInv /\ PlaceInv /\ NothingLost /\ CountInv
      /\ input \in DOMAIN Inputs
  BY DEF IInv, ControlInv, TypeOK
<1>2. /\ nextEmit \in Nat /\ nextSeq \in Nat /\ nextEmit < nextSeq
      /\ pending[nextEmit] = nextEmit + 1
  <2>1. nextEmit \in DOMAIN pending
    OBVIOUS
  <2> HIDE DEF TakeOne
  <2>2. nextEmit \in nextEmit..(nextSeq - 1) /\ pending[nextEmit] = nextEmit + 1
    BY <1>1, <2>1 DEF PlaceInv
  <2>3. nextEmit \in Nat /\ nextSeq \in Nat
    BY <1>1 DEF TypeOK
  <2> QED BY <2>2, <2>3
<1>3. inflight' = inflight - Bytes(nextEmit + 1) /\ inflight' \in Nat
  <2>1. nextSeq <= Len(Items) /\ Len(Items) \in Nat /\ input \in DOMAIN Inputs
    BY <1>1, ItemsAreFinite DEF ControlInv
  <2>2. /\ Offset(nextEmit + 1) = Offset(nextEmit) + Bytes(nextEmit + 1)
        /\ Offset(nextEmit) \in Nat /\ Offset(nextEmit + 1) \in Nat
        /\ Bytes(nextEmit + 1) \in Nat /\ Offset(nextSeq) \in Nat
    <3>1. nextEmit < Len(Items) /\ nextSeq \in 0..Len(Items)
      BY <1>2, <2>1
    <3> QED BY <1>2, <2>1, <3>1, OffsetStep, OffsetType
  <2>3. Offset(nextEmit + 1) <= Offset(nextSeq)
    BY <1>1, <1>2, <2>1, OffsetsIncrease
  <2>4. inflight = Offset(nextSeq) - Offset(nextEmit)
    BY <1>1 DEF InflightExact
  <2> QED BY <1>2, <2>2, <2>3, <2>4
<1>4. /\ DOMAIN pending' = DOMAIN pending \ {nextEmit}
      /\ \A s \in DOMAIN pending' : pending'[s] = pending[s]
  OBVIOUS
<1>5. batch \in Seq(Nat \ {0}) /\ batch' = Append(batch, nextEmit + 1)
  BY <1>1, <1>2 DEF TypeOK
<1>6. TypeOK'
  <2>1. batch' \in Seq(Nat \ {0})
    BY <1>2, <1>5
  <2>2. DOMAIN pending' \subseteq Nat /\ \A s \in DOMAIN pending' : pending'[s] \in Nat \ {0}
    BY <1>1, <1>4 DEF TypeOK
  <2> QED BY <1>1, <1>2, <1>3, <2>1, <2>2 DEF TypeOK, SinkTypeOK
<1>7. ControlInv'
  BY <1>1, <1>2 DEF ControlInv, Flushed, Items, Current
<1>8. PlaceInv'
  BY <1>1, <1>2, <1>4 DEF PlaceInv, InFlight
<1>9. NothingLost' /\ CountInv'
  <2>1. UNCHANGED <<nextSeq, spawned, received, hashing, channel>> /\ nextEmit' = nextEmit + 1
    OBVIOUS
  <2> HIDE DEF TakeOne
  <2>2. CountInv'
    BY <1>1, <2>1 DEF CountInv
  <2>3. \A s \in nextEmit'..(nextSeq' - 1) :
          s \in nextEmit..(nextSeq - 1) /\ (s \notin DOMAIN pending' => s \notin DOMAIN pending)
    BY <1>2, <1>4, <2>1
  <2>4. NothingLost'
    BY <1>1, <2>1, <2>3 DEF NothingLost
  <2> QED BY <2>2, <2>4
<1>10. BatchInv'
  <2>1. /\ Len(batch') = Len(batch) + 1 /\ DOMAIN batch' = 1..(Len(batch) + 1)
        /\ batch'[Len(batch) + 1] = nextEmit + 1
        /\ DOMAIN batch = 1..Len(batch) /\ Len(batch) \in Nat
        /\ \A k \in DOMAIN batch : batch'[k] = batch[k]
    BY <1>2, <1>5
  <2>2. Len(entries) + Len(batch) = nextEmit /\ Len(entries) \in Nat
    BY <1>1 DEF BatchInv, Taken, Flushed, TypeOK
  <2>3. \A k \in DOMAIN batch' : batch'[k] = Len(entries') + k
    BY <1>1, <2>1, <2>2 DEF BatchInv
  <2>4. Taken' = nextEmit + 1
    BY DEF Taken, Flushed
  <2> QED BY <1>1, <2>1, <2>2, <2>3, <2>4 DEF BatchInv
<1>11. InflightExact'
  <2>1. nextSeq <= Len(Items) /\ Len(Items) \in Nat /\ input \in DOMAIN Inputs
    BY <1>1, ItemsAreFinite DEF ControlInv
  <2>2. /\ Offset(nextEmit + 1) = Offset(nextEmit) + Bytes(nextEmit + 1)
        /\ Offset(nextEmit) \in Nat /\ Offset(nextEmit + 1) \in Nat
        /\ Bytes(nextEmit + 1) \in Nat /\ Offset(nextSeq) \in Nat
    <3>1. nextEmit < Len(Items) /\ nextSeq \in 0..Len(Items)
      BY <1>2, <2>1
    <3> QED BY <1>2, <2>1, <3>1, OffsetStep, OffsetType
  <2>3. inflight = Offset(nextSeq) - Offset(nextEmit)
    BY <1>1 DEF InflightExact
  <2>4. inflight' = Offset(nextSeq) - Offset(nextEmit + 1)
    BY <1>3, <2>2, <2>3
  <2>5. Offset(nextSeq)' = Offset(nextSeq) /\ Offset(nextEmit)' = Offset(nextEmit + 1)
    BY DEF Offset
  <2> QED BY <2>4, <2>5 DEF InflightExact
<1>12. RoomInv'
  BY <1>1 DEF RoomInv
<1>13. InflightBounded' /\ SeenIndexesBlobs' /\ NoAccountingDeadlock'
  BY DEF IInv, InflightBounded, SeenIndexesBlobs, NoAccountingDeadlock
<1> QED BY <1>6, <1>7, <1>8, <1>9, <1>10, <1>11, <1>12, <1>13 DEF IInv

LEMMA TakeEndsInv == ASSUME IInv, TakeEnds PROVE IInv'
<1> USE DEF TakeEnds, PackUnchanged, Goto
<1>1. /\ TypeOK /\ BatchInv /\ InflightExact /\ RoomInv
      /\ status = "packing" /\ ControlInv /\ PlaceInv /\ NothingLost /\ CountInv
      /\ input \in DOMAIN Inputs
  BY DEF IInv, ControlInv, TypeOK
<1>2. CASE call # "flush"
  <2> USE DEF OnlyControl, CountersUnchanged
  <2>1. OnlyControl
    BY <1>2
  <2>2. ControlInv'
    BY <1>1, <1>2, <2>1 DEF ControlInv, Current, Items, Flushed
  <2>3. BatchInv'
    BY <1>1, <1>2, <2>1 DEF BatchInv, Taken, Flushed, NumItems, Items, ControlInv
  <2>4. RoomInv'
    BY <1>1, <1>2, <2>1 DEF RoomInv
  <2> QED BY <1>1, <1>2, <2>1, <2>2, <2>3, <2>4, ControlStep DEF PC, CALL
<1>3. CASE call = "flush"
  <2>1. /\ nextEmit = nextSeq /\ inflight = 0 /\ received = spawned
        /\ nextSeq = Len(Items)
    BY <1>1, <1>3, NothingDueNothingInFlight DEF ControlInv
  <2>2. /\ DOMAIN pending = {} /\ hashing = {}
        /\ \A k \in DOMAIN channel : ~channel[k].ok
        /\ Cardinality(hashing) = 0 /\ Len(channel) = 0
    <3>1. nextEmit..(nextSeq - 1) = {}
      BY <1>1, <2>1 DEF TypeOK
    <3>2. Cardinality(hashing) \in Nat /\ Len(channel) \in Nat
      BY <1>1, FS_CardinalityType DEF TypeOK
    <3>3. Cardinality(hashing) = 0 /\ Len(channel) = 0
      BY <1>1, <2>1, <3>2 DEF CountInv, TypeOK
    <3> QED BY <1>1, <3>1, <3>3 DEF PlaceInv, InFlight
  <2>3. TypeOK'
    BY <1>1, <1>3 DEF TypeOK, SinkTypeOK
  <2>4. ControlInv'
    <3>1. Len(Items) \in Nat
      BY <1>1, ItemFacts
    <3> QED BY <1>1, <1>3, <3>1 DEF ControlInv, Flushed, Items, Current
  <2>5. PlaceInv' /\ NothingLost' /\ CountInv'
    BY <1>3, <2>2 DEF PlaceInv, InFlight, NothingLost, CountInv
  <2>6. BatchInv'
    BY <1>1, <1>3, <2>1 DEF BatchInv, Taken, Flushed, NumItems, Items
  <2>7. InflightExact' /\ RoomInv'
    BY <1>3, <2>1 DEF InflightExact, Offset, RoomInv
  <2>8. InflightBounded' /\ SeenIndexesBlobs' /\ NoAccountingDeadlock'
    BY DEF IInv, InflightBounded, SeenIndexesBlobs, NoAccountingDeadlock
  <2> QED BY <1>1, <2>3, <2>4, <2>5, <2>6, <2>7, <2>8 DEF IInv
<1> QED BY <1>2, <1>3

-----------------------------------------------------------------------------
(* Handing an entry over.                                                  *)

\* An entry that fits keeps the account exact and the high-water mark bounded.
LEMMA ChargeKeepsBounds ==
  ASSUME IInv, input \in DOMAIN Inputs, nextSeq < Len(Items), status = "packing",
         Fits, Charge(Bytes(Current)), nextSeq' = nextSeq + 1,
         UNCHANGED <<input, nextEmit, status>>
  PROVE  InflightExact' /\ InflightBounded' /\ inflight' \in Nat /\ peak' \in Nat
<1> USE DEF Charge, MaxOf
<1>1. /\ nextSeq \in Nat /\ nextEmit \in Nat /\ inflight \in Nat /\ peak \in Nat
      /\ nextEmit <= nextSeq /\ InflightExact
  BY DEF IInv, TypeOK, ControlInv
<1>2. /\ Len(Items) \in Nat /\ Current \in 1..Len(Items)
      /\ Bytes(Current) \in Nat /\ Offset(nextEmit) \in Nat
      /\ Offset(nextSeq + 1) = Offset(nextSeq) + Bytes(Current)
      /\ Offset(nextSeq) \in Nat
  <2>1. Len(Items) \in Nat
    BY ItemFacts
  <2>2. Current \in 1..Len(Items) /\ Current = nextSeq + 1 /\ Current - 1 = nextSeq
          /\ nextEmit \in 0..Len(Items)
    BY <1>1, <2>1 DEF Current
  <2>3. nextSeq \in Nat /\ nextSeq < Len(Items)
    BY <2>1, <2>2, <1>1
  <2> QED BY <1>1, <2>1, <2>2, <2>3, OffsetStep, OffsetType
<1>3. inflight' = inflight + Bytes(Current) /\ inflight' \in Nat /\ peak' \in Nat
  BY <1>1, <1>2
<1>4. InflightExact'
  <2>1. Offset(nextSeq)' = Offset(nextSeq + 1) /\ Offset(nextEmit)' = Offset(nextEmit)
    BY DEF Offset
  <2>2. inflight = Offset(nextSeq) - Offset(nextEmit)
    BY <1>1 DEF InflightExact
  <2> QED BY <1>2, <1>3, <2>1, <2>2 DEF InflightExact
<1>5. InflightBounded'
  <2>1. CASE peak' = peak
    BY <2>1 DEF IInv, InflightBounded
  <2>2. CASE peak' = inflight + Bytes(Current) /\ inflight # 0
    BY <2>2 DEF Fits, InflightBounded
  <2>3. CASE peak' = Bytes(Current) /\ inflight = 0
    <3>1. Bytes(Current) = Inputs[input].offset[Current]
            - (IF Current = 1 THEN 0 ELSE Inputs[input].offset[Current - 1])
      BY <1>2 DEF Bytes, Offset
    <3>2. Bytes(Current) <= Bytes(Current) /\ Current \in 1..Len(Inputs[input].items)
      BY <1>2 DEF Items
    <3> QED BY <2>3, <3>1, <3>2 DEF InflightBounded
  <2> QED BY <1>1, <1>2, <2>1, <2>2, <2>3
<1> QED BY <1>3, <1>4, <1>5

LEMMA SpawnFileInv == ASSUME IInv, SpawnFile PROVE IInv'
<1> USE DEF SpawnFile, PackUnchanged, Goto
<1>1. /\ TypeOK /\ BatchInv /\ RoomInv
      /\ status = "packing" /\ ControlInv /\ PlaceInv /\ NothingLost /\ CountInv
      /\ input \in DOMAIN Inputs /\ nextSeq < Len(Items) /\ Fits
  BY DEF IInv, ControlInv, TypeOK, RoomInv
<1>j. PICK job : job = [seq |-> nextSeq, item |-> Current]
  OBVIOUS
<1>2. /\ nextSeq \in Nat /\ nextEmit \in Nat /\ nextEmit <= nextSeq
      /\ Len(Items) \in Nat /\ job \in Job /\ job.seq = nextSeq
      /\ job.item = nextSeq + 1 /\ hashing' = hashing \cup {job}
  BY <1>1, <1>j, ItemFacts DEF TypeOK, Current, Job, ControlInv
<1>3. nextSeq \notin DOMAIN pending /\ \A j \in hashing : j.seq # nextSeq
  BY <1>1, <1>2 DEF PlaceInv, InFlight
<1>4. InflightExact' /\ InflightBounded' /\ inflight' \in Nat /\ peak' \in Nat
  BY <1>1, ChargeKeepsBounds
<1>5. IsFiniteSet(hashing') /\ Cardinality(hashing') = Cardinality(hashing) + 1
        /\ Cardinality(hashing) \in Nat
  <2>1. job \notin hashing /\ IsFiniteSet(hashing)
    BY <1>1, <1>2, <1>3 DEF TypeOK
  <2> QED BY <1>2, <2>1, FS_AddElement, FS_CardinalityType
<1>6. TypeOK'
  BY <1>1, <1>2, <1>4, <1>5 DEF TypeOK, SinkTypeOK
<1>7. ControlInv'
  BY <1>1, <1>2 DEF ControlInv, Flushed, Items, Current, TypeOK
<1>8. PlaceInv'
  <2>1. \A s \in DOMAIN pending : s \in nextEmit..nextSeq
    BY <1>1, <1>2 DEF PlaceInv
  <2>2. \A s, i \in Nat : InFlight(s, i) => InFlight(s, i)'
    BY <1>2 DEF InFlight
  <2>3. InFlight(job.seq, job.item)'
    BY <1>2, <1>3 DEF InFlight
  <2>4. \A j \in hashing : j.seq \in Nat /\ j.item \in Nat
    BY <1>1 DEF TypeOK, Job
  <2>5. \A k \in DOMAIN channel : channel[k].seq \in Nat /\ channel[k].item \in Nat
    <3>1. channel \in Seq(Result)
      BY <1>1 DEF TypeOK
    <3>2. \A k \in DOMAIN channel : channel[k] \in Result
      BY <3>1
    <3> QED BY <3>2 DEF Result
  <2>6. \A k \in DOMAIN channel : channel[k].ok => channel[k].seq # job.seq
    BY <1>1, <1>2, <2>5 DEF PlaceInv, InFlight
  <2>7. \A s \in DOMAIN pending' :
          s \in nextEmit'..(nextSeq' - 1) /\ pending'[s] = s + 1
    BY <1>1, <1>2, <2>1 DEF PlaceInv
  <2>8. \A j \in hashing' : InFlight(j.seq, j.item)'
    BY <1>1, <1>2, <2>2, <2>3, <2>4 DEF PlaceInv
  <2>9. \A k \in DOMAIN channel' : channel'[k].ok =>
          /\ InFlight(channel[k].seq, channel[k].item)'
          /\ \A j \in hashing' : j.seq # channel'[k].seq
          /\ \A l \in DOMAIN channel' :
               channel'[l].ok /\ channel'[l].seq = channel'[k].seq => l = k
    BY <1>1, <1>2, <2>2, <2>5, <2>6 DEF PlaceInv
  <2> QED BY <2>7, <2>8, <2>9 DEF PlaceInv
<1>9. NothingLost'
  <2>1. \A s \in nextEmit'..(nextSeq' - 1) : s = nextSeq \/ s \in nextEmit..(nextSeq - 1)
    BY <1>2
  <2> QED BY <1>1, <1>2, <2>1 DEF NothingLost
<1>10. CountInv'
  <2>1. spawned \in Nat /\ received \in Nat /\ Len(channel) \in Nat
    BY <1>1 DEF TypeOK
  <2> QED BY <1>1, <1>5, <2>1 DEF CountInv
<1>11. BatchInv'
  BY <1>1 DEF BatchInv, Taken, Flushed, NumItems, Items, ControlInv
<1>12. RoomInv' /\ SeenIndexesBlobs' /\ NoAccountingDeadlock'
  BY DEF RoomInv, IInv, SeenIndexesBlobs, NoAccountingDeadlock
<1> QED BY <1>4, <1>6, <1>7, <1>8, <1>9, <1>10, <1>11, <1>12 DEF IInv

LEMMA InsertReadyInv == ASSUME IInv, InsertReady PROVE IInv'
<1> USE DEF InsertReady, PackUnchanged, Goto
<1>1. /\ TypeOK /\ BatchInv /\ RoomInv /\ InflightExact /\ InflightBounded
      /\ status = "packing" /\ ControlInv /\ PlaceInv /\ NothingLost /\ CountInv
      /\ input \in DOMAIN Inputs /\ nextSeq < Len(Items)
      /\ Items[Current].kind = "zip" => Fits
  BY DEF IInv, ControlInv, TypeOK, RoomInv
<1>2. /\ nextSeq \in Nat /\ nextEmit \in Nat /\ nextEmit <= nextSeq
      /\ Len(Items) \in Nat /\ Current = nextSeq + 1
      /\ Current \in 1..Len(Items) /\ Current - 1 = nextSeq
  <2>1. nextSeq \in Nat /\ nextEmit \in Nat /\ nextEmit <= nextSeq
    BY <1>1 DEF TypeOK, ControlInv
  <2>2. Len(Items) \in Nat
    BY <1>1, ItemFacts
  <2> QED BY <1>1, <2>1, <2>2 DEF Current
<1>3. /\ DOMAIN pending' = DOMAIN pending \cup {nextSeq}
      /\ pending'[nextSeq] = nextSeq + 1
      /\ \A s \in DOMAIN pending : pending'[s] = pending[s]
  <2>1. nextSeq \notin DOMAIN pending
    BY <1>1, <1>2 DEF PlaceInv
  <2> QED BY <1>2, <2>1 DEF InsertPending
<1>4. InflightExact' /\ InflightBounded' /\ inflight' \in Nat /\ peak' \in Nat
  <2>1. CASE Items[Current].kind = "zip"
    BY <2>1, <1>1, ChargeKeepsBounds
  <2>2. CASE Items[Current].kind = "dir"
    <3>1. UNCHANGED <<inflight, peak>>
      BY <2>2
    <3>2. Offset(nextSeq + 1) = Offset(nextSeq)
      <4>1. input \in DOMAIN Inputs /\ nextSeq \in Nat /\ nextSeq < Len(Items)
        BY <1>1, <1>2
      <4>2. /\ Offset(nextSeq) \in Nat
            /\ Offset(nextSeq + 1) = Offset(nextSeq) + Bytes(nextSeq + 1)
            /\ Items[nextSeq + 1].kind = "dir" => Bytes(nextSeq + 1) = 0
        BY <4>1, OffsetStep
      <4>3. Bytes(nextSeq + 1) = 0
        BY <4>2, <2>2, <1>2
      <4> QED BY <4>2, <4>3
    <3>3. Offset(nextSeq)' = Offset(nextSeq + 1) /\ Offset(nextEmit)' = Offset(nextEmit)
      BY DEF Offset
    <3> QED BY <3>1, <3>2, <3>3, <1>1 DEF InflightExact, InflightBounded, TypeOK
  <2> QED BY <2>1, <2>2
<1>5. TypeOK'
  <2>1. DOMAIN pending' \subseteq Nat /\ \A s \in DOMAIN pending' : pending'[s] \in Nat \ {0}
    BY <1>1, <1>2, <1>3 DEF TypeOK
  <2> QED BY <1>1, <1>2, <1>4, <2>1 DEF TypeOK, SinkTypeOK
<1>6. ControlInv'
  BY <1>1, <1>2 DEF ControlInv, Flushed, Items, Current, TypeOK
<1>7. PlaceInv'
  <2>1. \A s \in nextEmit..(nextSeq - 1) :
          s \notin DOMAIN pending => s \notin DOMAIN pending'
    BY <1>2, <1>3
  <2>2. \A s, i : InFlight(s, i) => InFlight(s, i)'
    BY <1>2, <2>1 DEF InFlight
  <2>3. \A s \in DOMAIN pending' :
          s \in nextEmit'..(nextSeq' - 1) /\ pending'[s] = s + 1
    BY <1>1, <1>2, <1>3 DEF PlaceInv
  <2>4. \A k \in DOMAIN channel : channel[k].ok =>
          InFlight(channel[k].seq, channel[k].item)'
    BY <1>1, <2>2 DEF PlaceInv
  <2> QED BY <1>1, <2>2, <2>3, <2>4 DEF PlaceInv
<1>8. NothingLost'
  <2>1. \A s \in nextEmit'..(nextSeq' - 1) : s = nextSeq \/ s \in nextEmit..(nextSeq - 1)
    BY <1>2
  <2> QED BY <1>1, <1>3, <2>1 DEF NothingLost
<1>9. CountInv' /\ BatchInv'
  BY <1>1 DEF CountInv, BatchInv, Taken, Flushed, NumItems, Items, ControlInv
<1>10. RoomInv' /\ SeenIndexesBlobs' /\ NoAccountingDeadlock'
  BY DEF RoomInv, IInv, SeenIndexesBlobs, NoAccountingDeadlock
<1> QED BY <1>4, <1>5, <1>6, <1>7, <1>8, <1>9, <1>10 DEF IInv

-----------------------------------------------------------------------------
(* Applying.                                                               *)

\* One more blob keeps the sink's types and its index.
LEMMA RememberKeepsSink ==
  ASSUME SinkTypeOK, SeenIndexesBlobs, NEW h \in Hash, RememberBlob(h)
  PROVE  SinkTypeOK' /\ SeenIndexesBlobs'
<1>1. CASE h \in DOMAIN seen
  <2> DEFINE i == seen[h]
  <2>1. i \in 1..Len(blobs) /\ blobs[i] \in BlobRow /\ blobs[i].hash = h
    BY <1>1 DEF SinkTypeOK, SeenIndexesBlobs
  <2>2. seen' = seen /\ blobs' = [blobs EXCEPT ![i].refs = @ + 1]
    BY <1>1 DEF RememberBlob
  <2>3. blobs' \in Seq(BlobRow) /\ Len(blobs') = Len(blobs)
          /\ DOMAIN blobs' = DOMAIN blobs
    <3>1. blobs \in Seq(BlobRow)
      BY DEF SinkTypeOK
    <3> DEFINE row == [blobs[i] EXCEPT !.refs = @ + 1]
    <3>2. row \in BlobRow
      BY <2>1 DEF BlobRow
    <3>3. blobs' = [blobs EXCEPT ![i] = row]
      BY <2>2
    <3> HIDE DEF row, i
    <3> QED BY <2>1, <3>1, <3>2, <3>3
  <2>4. \A k \in DOMAIN blobs : blobs'[k].hash = blobs[k].hash
    BY <2>1, <2>2 DEF SinkTypeOK, BlobRow
  <2> QED BY <2>2, <2>3, <2>4 DEF SinkTypeOK, SeenIndexesBlobs
<1>2. CASE h \notin DOMAIN seen
  <2> DEFINE row == [hash |-> h, refs |-> 1]
  <2>1. row \in BlobRow /\ row.hash = h
    BY DEF BlobRow
  <2>2. /\ blobs' = Append(blobs, row)
        /\ seen' = [x \in DOMAIN seen \cup {h} |->
                      IF x = h THEN Len(blobs) + 1 ELSE seen[x]]
    BY <1>2 DEF RememberBlob
  <2> HIDE DEF row
  <2>3. /\ blobs' \in Seq(BlobRow) /\ Len(blobs') = Len(blobs) + 1
        /\ Len(blobs) \in Nat /\ DOMAIN blobs = 1..Len(blobs)
        /\ DOMAIN blobs' = 1..(Len(blobs) + 1)
        /\ blobs'[Len(blobs) + 1] = row
        /\ \A k \in DOMAIN blobs : blobs'[k] = blobs[k]
    BY <2>1, <2>2 DEF SinkTypeOK
  <2>4. /\ DOMAIN seen' = DOMAIN seen \cup {h}
        /\ seen'[h] = Len(blobs) + 1
        /\ \A x \in DOMAIN seen : seen'[x] = seen[x]
    BY <1>2, <2>2
  <2>5. SinkTypeOK'
    BY <2>3, <2>4 DEF SinkTypeOK
  <2>6. ASSUME NEW k \in DOMAIN blobs'
        PROVE  blobs'[k].hash \in DOMAIN seen' /\ seen'[blobs'[k].hash] = k
    BY <2>1, <2>3, <2>4 DEF SeenIndexesBlobs
  <2>7. ASSUME NEW x \in DOMAIN seen'
        PROVE  blobs'[seen'[x]].hash = x
    BY <2>1, <2>3, <2>4 DEF SeenIndexesBlobs, SinkTypeOK
  <2> QED BY <2>5, <2>6, <2>7 DEF SeenIndexesBlobs
<1> QED BY <1>1, <1>2

\* The next item to apply is the next entry of the catalog.
LEMMA HeadOfBatch ==
  ASSUME IInv, status = "packing", Applying
  PROVE  /\ Head(batch) = Len(entries) + 1
         /\ Head(batch) \in 1..Len(Items)
         /\ Len(entries) < Len(Items) /\ Len(entries) \in Nat
         /\ input \in DOMAIN Inputs /\ Inputs[input].readable
         /\ Items[Head(batch)].blobs \in Seq(Hash)
<1>1. TypeOK /\ ControlInv /\ BatchInv
  BY DEF IInv
<1>2. batch \in Seq(Nat \ {0}) /\ entries \in Seq(Nat \ {0}) /\ batch # <<>>
  BY <1>1 DEF TypeOK, Applying
<1>3. /\ Len(batch) \in Nat /\ Len(batch) > 0 /\ Len(entries) \in Nat
      /\ 1 \in DOMAIN batch /\ Head(batch) = batch[1]
  BY <1>2
<1>4. input \in DOMAIN Inputs /\ Inputs[input].readable
  BY <1>1 DEF ControlInv, Applying
<1>5. Head(batch) = Len(entries) + 1 /\ Len(entries) + Len(batch) = Taken
  BY <1>1, <1>3 DEF BatchInv
<1>6. Taken <= Len(Items) /\ Len(Items) \in Nat /\ Taken \in Nat
  BY <1>1, <1>4, ItemsAreFinite DEF Taken, NumItems, ControlInv, TypeOK
<1>7. Head(batch) \in 1..Len(Items)
  BY <1>3, <1>5, <1>6
<1>8. Items[Head(batch)].blobs \in Seq(Hash)
  BY <1>4, <1>7, KindOfItem
<1> QED BY <1>3, <1>4, <1>5, <1>6, <1>7, <1>8

LEMMA ApplyBlobInv == ASSUME IInv, ApplyBlob PROVE IInv'
<1> USE DEF ApplyBlob, mainVars
<1>1. /\ TypeOK /\ SeenIndexesBlobs /\ ControlInv /\ BatchInv /\ PlaceInv
      /\ NothingLost /\ CountInv /\ RoomInv /\ InflightExact /\ status = "packing"
  BY DEF IInv, ControlInv, TypeOK, Applying
<1>2. Items[Head(batch)].blobs[nth + 1] \in Hash
  <2> DEFINE bs == Items[Head(batch)].blobs
  <2>1. bs \in Seq(Hash)
    BY <1>1, HeadOfBatch
  <2>2. nth \in Nat /\ nth < Len(bs)
    BY <1>1 DEF TypeOK
  <2> HIDE DEF bs
  <2>3. bs[nth + 1] \in Hash
    BY <2>1, <2>2
  <2> QED BY <2>3 DEF bs
<1>3. SinkTypeOK' /\ SeenIndexesBlobs'
  BY <1>1, <1>2, RememberKeepsSink DEF TypeOK
<1>4. TypeOK'
  BY <1>1, <1>3 DEF TypeOK
<1>5. ControlInv' /\ PlaceInv' /\ NothingLost' /\ CountInv' /\ RoomInv' /\ InflightExact'
  <2>1. ControlInv'
    BY <1>1 DEF ControlInv, Flushed, Items, Current
  <2>2. PlaceInv' /\ NothingLost' /\ CountInv'
    BY <1>1 DEF PlaceInv, NothingLost, CountInv, InFlight
  <2>3. RoomInv' /\ InflightExact'
    BY <1>1 DEF RoomInv, InflightExact, Items, Current, Fits, Bytes, Offset
  <2> QED BY <2>1, <2>2, <2>3
<1>6. BatchInv'
  BY <1>1 DEF BatchInv, Taken, Flushed, NumItems, Items, Applying
<1>7. InflightBounded' /\ NoAccountingDeadlock'
  BY DEF IInv, InflightBounded, NoAccountingDeadlock
<1> QED BY <1>1, <1>3, <1>4, <1>5, <1>6, <1>7 DEF IInv

LEMMA ApplyEntryInv == ASSUME IInv, ApplyEntry PROVE IInv'
<1> USE DEF ApplyEntry
<1>1. /\ TypeOK /\ SeenIndexesBlobs /\ ControlInv /\ BatchInv /\ PlaceInv
      /\ NothingLost /\ CountInv /\ RoomInv /\ InflightExact /\ status = "packing"
  BY DEF IInv, ControlInv, TypeOK, Applying
<1>2. /\ Head(batch) = Len(entries) + 1 /\ Len(entries) \in Nat
      /\ batch \in Seq(Nat \ {0}) /\ entries \in Seq(Nat \ {0}) /\ batch # <<>>
  BY <1>1, HeadOfBatch DEF TypeOK, Applying
<1>3. /\ batch' \in Seq(Nat \ {0}) /\ Len(batch') = Len(batch) - 1
      /\ Len(batch) \in Nat \ {0}
      /\ DOMAIN batch = 1..Len(batch) /\ DOMAIN batch' = 1..(Len(batch) - 1)
      /\ \A k \in DOMAIN batch' : batch'[k] = batch[k + 1]
  BY <1>2
<1>4. /\ entries' \in Seq(Nat \ {0}) /\ Len(entries') = Len(entries) + 1
      /\ DOMAIN entries = 1..Len(entries) /\ DOMAIN entries' = 1..(Len(entries) + 1)
      /\ entries'[Len(entries) + 1] = Len(entries) + 1
      /\ \A k \in DOMAIN entries : entries'[k] = entries[k]
  BY <1>2
<1>5. TypeOK'
  BY <1>1, <1>3, <1>4 DEF TypeOK, SinkTypeOK
<1>6. ControlInv' /\ PlaceInv' /\ NothingLost' /\ CountInv' /\ RoomInv' /\ InflightExact'
  <2>1. ControlInv'
    BY <1>1 DEF ControlInv, Flushed, Items, Current
  <2>2. PlaceInv' /\ NothingLost' /\ CountInv'
    BY <1>1 DEF PlaceInv, NothingLost, CountInv, InFlight
  <2>3. RoomInv' /\ InflightExact'
    BY <1>1 DEF RoomInv, InflightExact, Items, Current, Fits, Bytes, Offset
  <2> QED BY <2>1, <2>2, <2>3
<1>7. BatchInv'
  <2>1. \A k \in DOMAIN entries' : entries'[k] = k
    BY <1>1, <1>2, <1>4 DEF BatchInv
  <2>2. \A k \in DOMAIN batch' : batch'[k] = Len(entries') + k
    <3> SUFFICES ASSUME NEW k \in DOMAIN batch'
                 PROVE  batch'[k] = Len(entries') + k
      OBVIOUS
    <3>1. k + 1 \in DOMAIN batch /\ k \in Nat
      BY <1>3
    <3>2. batch[k + 1] = Len(entries) + (k + 1)
      BY <1>1, <3>1 DEF BatchInv
    <3> QED BY <1>2, <1>3, <1>4, <3>1, <3>2
  <2>3. Taken' = Taken /\ Len(entries) + Len(batch) = Taken
    BY <1>1 DEF Taken, Flushed, NumItems, Items, BatchInv
  <2>4. Len(entries') + Len(batch') = Taken'
    BY <1>2, <1>3, <1>4, <2>3
  <2> QED BY <2>1, <2>2, <2>4 DEF BatchInv, Applying
<1>8. InflightBounded' /\ NoAccountingDeadlock' /\ SeenIndexesBlobs'
  BY DEF IInv, InflightBounded, NoAccountingDeadlock, SeenIndexesBlobs
<1> QED BY <1>1, <1>5, <1>6, <1>7, <1>8 DEF IInv

\* What is left of a JAR when its own blobs are due.
LEMMA AtAttach ==
  ASSUME IInv, status = "packing", pc = "attach"
  PROVE  /\ input \in DOMAIN Inputs /\ Inputs[input].readable
         /\ Own \in Seq(Hash) /\ Len(Items) \in Nat
         /\ batch = <<>> /\ Len(entries) = Len(Items)
         /\ nextSeq = 0 /\ nextEmit = 0 /\ spawned = 0 /\ received = 0
         /\ inflight = 0 /\ DOMAIN pending = {} /\ hashing = {} /\ channel = <<>>
<1>1. TypeOK /\ ControlInv /\ BatchInv /\ PlaceInv /\ CountInv /\ InflightExact
  BY DEF IInv
<1>2. input \in DOMAIN Inputs /\ Inputs[input].readable
  BY <1>1 DEF ControlInv
<1>3. Own \in Seq(Hash) /\ Len(Items) \in Nat
  BY <1>2, ItemFacts
<1>4. nextSeq = 0 /\ nextEmit = 0 /\ spawned = 0 /\ received = 0
  BY <1>1 DEF ControlInv, Flushed, TypeOK
<1>5. batch = <<>> /\ Len(entries) = Len(Items)
  <2>1. Taken = Len(Items)
    BY <1>2 DEF Taken, Flushed, NumItems
  <2>2. Len(entries) \in Nat
    BY <1>1 DEF TypeOK
  <2> QED BY <1>1, <2>1, <2>2 DEF BatchInv
<1>6. inflight = 0
  BY <1>1, <1>4 DEF InflightExact, Offset
<1>7. DOMAIN pending = {}
  <2>1. nextEmit..(nextSeq - 1) = {}
    BY <1>4
  <2> QED BY <1>1, <2>1 DEF PlaceInv
<1>8. hashing = {} /\ channel = <<>>
  <2>1. Cardinality(hashing) \in Nat /\ Len(channel) \in Nat
    BY <1>1, FS_CardinalityType DEF TypeOK
  <2>2. Cardinality(hashing) = 0 /\ Len(channel) = 0
    BY <1>1, <1>4, <2>1 DEF CountInv
  <2> QED BY <1>1, <2>2, FS_EmptySet DEF TypeOK
<1> QED BY <1>2, <1>3, <1>4, <1>5, <1>6, <1>7, <1>8

LEMMA AttachBlobInv == ASSUME IInv, AttachBlob PROVE IInv'
<1> USE DEF AttachBlob, mainVars
<1>1. /\ TypeOK /\ SeenIndexesBlobs /\ ControlInv /\ BatchInv /\ PlaceInv
      /\ NothingLost /\ CountInv /\ RoomInv /\ InflightExact /\ status = "packing"
  BY DEF IInv, ControlInv, TypeOK
<1>2. Own[nth + 1] \in Hash
  BY <1>1, AtAttach DEF TypeOK
<1>3. SinkTypeOK' /\ SeenIndexesBlobs'
  BY <1>1, <1>2, RememberKeepsSink DEF TypeOK
<1>4. TypeOK'
  BY <1>1, <1>3 DEF TypeOK
<1>5. ControlInv' /\ PlaceInv' /\ NothingLost' /\ CountInv' /\ RoomInv' /\ InflightExact'
  <2>1. ControlInv'
    BY <1>1 DEF ControlInv, Flushed, Items, Current
  <2>2. PlaceInv' /\ NothingLost' /\ CountInv'
    BY <1>1 DEF PlaceInv, NothingLost, CountInv, InFlight
  <2>3. RoomInv' /\ InflightExact'
    BY <1>1 DEF RoomInv, InflightExact, Items, Current, Fits, Bytes, Offset
  <2> QED BY <2>1, <2>2, <2>3
<1>6. BatchInv'
  BY <1>1 DEF BatchInv, Taken, Flushed, NumItems, Items
<1>7. InflightBounded' /\ NoAccountingDeadlock'
  BY DEF IInv, InflightBounded, NoAccountingDeadlock
<1> QED BY <1>1, <1>3, <1>4, <1>5, <1>6, <1>7 DEF IInv

LEMMA AttachJarInv == ASSUME IInv, AttachJar PROVE IInv'
<1> USE DEF AttachJar, Goto, CountersUnchanged
<1>1. /\ TypeOK /\ status = "packing" /\ err = "none"
  BY DEF IInv, ControlInv, TypeOK
<1>2. /\ input \in DOMAIN Inputs /\ batch = <<>>
      /\ nextSeq = 0 /\ nextEmit = 0 /\ spawned = 0 /\ received = 0
      /\ inflight = 0 /\ DOMAIN pending = {} /\ hashing = {} /\ channel = <<>>
  BY <1>1, AtAttach
<1>3. TypeOK'
  <2>1. input' \in 1..(Len(Inputs) + 1)
    BY <1>2, InputsDomain
  <2>2. jars' \in Seq([input : Nat, entries : Seq(Nat \ {0})])
    BY <1>1 DEF TypeOK
  <2> QED BY <1>1, <2>1, <2>2 DEF TypeOK, SinkTypeOK
<1>4. ControlInv'
  <2>1. input' \in DOMAIN Inputs => 0 <= Len(Inputs[input'].items)
    BY InputsAssumption
  <2> QED BY <1>1, <1>2, <2>1 DEF ControlInv, Flushed, Items
<1>5. PlaceInv' /\ NothingLost'
  BY <1>2 DEF PlaceInv, InFlight, NothingLost
<1>6. CountInv'
  BY <1>2, FS_EmptySet DEF CountInv
<1>7. BatchInv'
  BY <1>2 DEF BatchInv, Taken, Flushed
<1>8. InflightExact' /\ RoomInv'
  BY <1>2 DEF InflightExact, Offset, RoomInv
<1>9. InflightBounded' /\ NoAccountingDeadlock' /\ SeenIndexesBlobs'
  BY DEF IInv, InflightBounded, NoAccountingDeadlock, SeenIndexesBlobs
<1> QED BY <1>1, <1>3, <1>4, <1>5, <1>6, <1>7, <1>8, <1>9 DEF IInv

-----------------------------------------------------------------------------
(* The theorems.                                                           *)

\* The initial state satisfies the invariant.
LEMMA InitInv == PipeInit => IInv
<1> SUFFICES ASSUME PipeInit PROVE IInv
  OBVIOUS
<1> USE DEF PipeInit, Init, SinkInit
<1>1. 1 \in 1..(Len(Inputs) + 1)
  BY InputsDomain
<1>2. IsFiniteSet(hashing) /\ Cardinality(hashing) = 0
  BY FS_EmptySet
<1>3. TypeOK
  BY <1>1, <1>2 DEF TypeOK, SinkTypeOK
<1>4. InflightBounded /\ SeenIndexesBlobs /\ NoAccountingDeadlock
  BY PipelineAssumption DEF InflightBounded, SeenIndexesBlobs, NoAccountingDeadlock
<1>5. ControlInv
  <2>1. input \in DOMAIN Inputs => 0 <= Len(Inputs[input].items)
    BY InputsAssumption
  <2> QED BY <2>1 DEF ControlInv, Flushed, Items
<1>6. PlaceInv /\ NothingLost /\ BatchInv /\ InflightExact /\ RoomInv
  BY DEF PlaceInv, NothingLost, BatchInv, InflightExact, RoomInv, Taken, Flushed,
     Offset
<1>7. CountInv
  BY <1>2 DEF CountInv
<1> QED BY <1>3, <1>4, <1>5, <1>6, <1>7 DEF IInv

\* Every step of the pipeline keeps the invariant.
LEMMA NextInv == IInv /\ [PipeNext]_vars => IInv'
<1> SUFFICES ASSUME IInv, [PipeNext]_vars PROVE IInv'
  OBVIOUS
<1>1. ASSUME NEW reason \in Reasons, FailWith(reason) PROVE IInv'
  BY <1>1, FailKeepsInv
<1>2. CASE UnreadableInput
  BY <1>2, UnreadableInputInv
<1>3. CASE ScanEntry \/ ScanEnds \/ AllPacked
  BY <1>3, ScanEntryInv, ScanEndsInv, AllPackedInv
<1>4. CASE Receive \/ ReceivedAll \/ TakeOne \/ TakeEnds
  BY <1>4, ReceiveInv, ReceivedAllInv, TakeOneInv, TakeEndsInv
<1>5. CASE Admit \/ ReturnBatch \/ WaitForRoom
  BY <1>5, AdmitInv, ReturnBatchInv, WaitForRoomInv
<1>6. CASE SpawnFile \/ InsertReady \/ FinishWaits \/ FinishFlushes
  BY <1>6, SpawnFileInv, InsertReadyInv, FinishWaitsInv, FinishFlushesInv
<1>7. CASE ApplyBlob \/ ApplyEntry \/ Applied
  BY <1>7, ApplyBlobInv, ApplyEntryInv, AppliedInv
<1>8. CASE AttachBlob \/ AttachJar
  BY <1>8, AttachBlobInv, AttachJarInv
<1>9. CASE ReceivePanic \/ ApplyCrcFails \/ SignatureFails \/ HashAborts
             \/ ScanFails \/ StoreFails
  BY <1>1, <1>9 DEF ReceivePanic, ApplyCrcFails, SignatureFails, HashAborts,
     ScanFails, StoreFails, Reasons
<1>10. CASE Worker
  BY <1>10, HashDoneInv, HashPanicsInv DEF Worker
<1>11. CASE UNCHANGED vars
  <2>1. /\ UNCHANGED <<input, entries, nth, jars, status, blobs, seen>>
        /\ UNCHANGED <<pc, call, batch, pending, nextSeq, nextEmit, spawned, received>>
        /\ UNCHANGED <<inflight, peak, hashing, channel, err>>
    BY <1>11 DEF vars, mainVars
  <2>2. TypeOK'
    BY <2>1 DEF IInv, TypeOK, SinkTypeOK
  <2>3. InflightBounded' /\ SeenIndexesBlobs' /\ NoAccountingDeadlock'
    BY <2>1 DEF IInv, InflightBounded, SeenIndexesBlobs, NoAccountingDeadlock
  <2>4. status = "packing" => ControlInv' /\ PlaceInv' /\ NothingLost' /\ CountInv'
    BY <2>1 DEF IInv, ControlInv, PlaceInv, NothingLost, CountInv, InFlight, Flushed,
       Items, Current
  <2>5. status = "packing" => BatchInv' /\ InflightExact' /\ RoomInv'
    BY <2>1 DEF IInv, BatchInv, InflightExact, RoomInv, Flushed, Taken, NumItems,
       Items, Current, Fits, Bytes, Offset
  <2>6. status' = status /\ pc' = pc /\ (status # "packing" => pc = "stop")
    BY <2>1 DEF IInv
  <2> QED
    BY <2>2, <2>3, <2>4, <2>5, <2>6 DEF IInv
<1> QED BY <1>2, <1>3, <1>4, <1>5, <1>6, <1>7, <1>8, <1>9, <1>10, <1>11
        DEF PipeNext, MainStep

\* The inductive invariant holds in every reachable state.
THEOREM PipelineInvariant == PipeSpec => []IInv
<1>1. PipeInit => IInv
  BY InitInv
<1>2. IInv /\ [PipeNext]_vars => IInv'
  BY NextInv
<1> QED BY <1>1, <1>2, PTL DEF PipeSpec

\* Every variable keeps its type, for any argument list and cap.
THEOREM PipelineTypes == PipeSpec => []TypeOK
<1>1. IInv => TypeOK
  BY DEF IInv
<1> QED BY <1>1, PipelineInvariant, PTL

\* inflight_bytes is exactly what has been handed over and not taken out.
THEOREM AccountIsExact == PipeSpec => []InflightExact
<1>1. IInv => InflightExact
  BY DEF IInv, InflightExact
<1> QED BY <1>1, PipelineInvariant, PTL

\* The high-water mark never exceeds the cap or the largest single entry.
THEOREM CapHolds == PipeSpec => []InflightBounded
<1>1. IInv => InflightBounded
  BY DEF IInv
<1> QED BY <1>1, PipelineInvariant, PTL

\* The error "inflight accounting deadlock" cannot occur, even if workers panic.
THEOREM NeverAccountingDeadlock == PipeSpec => []NoAccountingDeadlock
<1>1. IInv => NoAccountingDeadlock
  BY DEF IInv
<1> QED BY <1>1, PipelineInvariant, PTL

\* The blob table holds each content once and the index finds it.
THEOREM DedupIsConsistent == PipeSpec => []SeenIndexesBlobs
<1>1. IInv => SeenIndexesBlobs
  BY DEF IInv
<1> QED BY <1>1, PipelineInvariant, PTL

\* Between JARs the pipeline is empty and the JAR's catalog is complete.
THEOREM JarsDoNotOverlap == PipeSpec => []JarLeavesNothing
<1>1. IInv => JarLeavesNothing
  <2> SUFFICES ASSUME IInv, status = "packing", pc = "attach"
               PROVE  /\ hashing = {} /\ channel = <<>> /\ DOMAIN pending = {}
                      /\ batch = <<>> /\ inflight = 0
                      /\ entries = [k \in 1..Len(Items) |-> k]
    BY DEF JarLeavesNothing
  <2>1. entries \in Seq(Nat \ {0}) /\ \A k \in DOMAIN entries : entries[k] = k
    BY DEF IInv, TypeOK, BatchInv
  <2>2. Len(entries) = Len(Items)
    BY AtAttach
  <2>3. entries = [k \in 1..Len(Items) |-> k]
    BY <2>1, <2>2
  <2> QED BY <2>3, AtAttach
<1> QED BY <1>1, PipelineInvariant, PTL

-----------------------------------------------------------------------------
(* Any number of jobs packs what one job packs.                            *)

\* A step of the pipeline is a step of the sequential packer or invisible to it.
LEMMA StepRefines == IInv /\ [PipeNext]_vars => [Next]_packVars
<1> SUFFICES ASSUME IInv, [PipeNext]_vars PROVE [Next]_packVars
  OBVIOUS
<1> USE DEF packVars
<1>1. pc # "stop" => status = "packing" /\ ControlInv
  BY DEF IInv, TypeOK
<1>2. ASSUME NEW reason, status = "packing", FailWith(reason)
      PROVE  [Next]_packVars
  BY <1>2 DEF FailWith, Fail, Next
<1>3. CASE UnreadableInput
  <2>1. status = "packing"
    BY <1>1, <1>3 DEF UnreadableInput, AtInput
  <2> QED BY <1>2, <1>3, <2>1 DEF UnreadableInput, AtInput, SkipInput, Next
<1>4. CASE AllPacked
  BY <1>1, <1>4 DEF AllPacked, Finish, Next
<1>5. CASE ReceivePanic \/ ApplyCrcFails \/ SignatureFails \/ HashAborts
             \/ ScanFails \/ StoreFails
  <2>1. status = "packing"
    BY <1>1, <1>5 DEF ReceivePanic, ApplyCrcFails, SignatureFails, HashAborts,
       ScanFails, StoreFails, Applying, AtInput
  <2> QED BY <1>2, <1>5, <2>1 DEF ReceivePanic, ApplyCrcFails, SignatureFails,
             HashAborts, ScanFails, StoreFails
<1>6. CASE ApplyBlob
  <2>1. status = "packing" /\ Applying
    BY <1>1, <1>6 DEF ApplyBlob, Applying
  <2>2. StoreEntryBlob
    BY <1>6, <2>1, HeadOfBatch DEF ApplyBlob, StoreEntryBlob, OnReadable
  <2> QED BY <2>2 DEF Next
<1>7. CASE ApplyEntry
  <2>1. status = "packing" /\ Applying
    BY <1>1, <1>7 DEF ApplyEntry, Applying
  <2>2. PushEntry
    BY <1>7, <2>1, HeadOfBatch DEF ApplyEntry, PushEntry, OnReadable
  <2> QED BY <2>2 DEF Next
<1>8. CASE AttachBlob
  <2>1. status = "packing"
    BY <1>1, <1>8 DEF AttachBlob
  <2>2. StoreJarBlob
    BY <1>8, <2>1, AtAttach DEF AttachBlob, StoreJarBlob, OnReadable
  <2> QED BY <2>2 DEF Next
<1>9. CASE AttachJar
  <2>1. status = "packing"
    BY <1>1, <1>9 DEF AttachJar
  <2>2. PushJar
    BY <1>9, <2>1, AtAttach DEF AttachJar, PushJar, OnReadable
  <2> QED BY <2>2 DEF Next
<1>10. CASE ScanEntry \/ ScanEnds \/ Receive \/ ReceivedAll \/ TakeOne \/ TakeEnds
              \/ Admit \/ ReturnBatch \/ SpawnFile \/ InsertReady
              \/ FinishWaits \/ FinishFlushes \/ Applied
  BY <1>10 DEF PackUnchanged, ScanEntry, ScanEnds, Receive, ReceivedAll, TakeOne,
     TakeEnds, Admit, ReturnBatch, SpawnFile, InsertReady, FinishWaits,
     FinishFlushes, Applied
<1>11. CASE WaitForRoom
  <2>1. status = "packing"
    BY <1>1, <1>11 DEF WaitForRoom, Deciding
  <2> QED BY <1>2, <1>11, <2>1 DEF WaitForRoom, PackUnchanged
<1>12. CASE Worker
  BY <1>12 DEF Worker, HashDone, HashPanics, PackUnchanged
<1>13. CASE UNCHANGED vars
  BY <1>13 DEF vars
<1> QED BY <1>3, <1>4, <1>5, <1>6, <1>7, <1>8, <1>9, <1>10, <1>11, <1>12, <1>13
        DEF PipeNext, MainStep

\* The pipeline implements packing with one job: the same blobs in the same
\* order with the same counts, and the same catalog, whatever the workers do.
THEOREM ImplementsSequential == PipeSpec => Spec
<1>1. PipeInit => Init
  BY DEF PipeInit
<1>2. IInv /\ [PipeNext]_vars => [Next]_packVars
  BY StepRefines
<1> QED BY <1>1, <1>2, PipelineInvariant, PTL DEF PipeSpec, Spec
=============================================================================
