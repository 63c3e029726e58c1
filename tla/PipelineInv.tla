----------------------------- MODULE PipelineInv -----------------------------
(***************************************************************************)
(* The inductive invariant of the hash pipeline.  The theorems about it    *)
(* are in PipelineProofs.tla; TLC checks that it holds, as an invariant of *)
(* the packing runs.  Every part speaks of a run that is still packing.    *)
(***************************************************************************)
EXTENDS Pipeline

NumItems == IF input \in DOMAIN Inputs THEN Len(Items) ELSE 0

\* Once finish_jar has reset the counters, the batch it returned (and then the
\* JAR) is what is left to apply.
Flushed == pc = "attach" \/ (pc = "apply" /\ call = "flush")
Taken == IF Flushed THEN NumItems ELSE nextEmit

\* Which loops of which calls the main thread can be in, and what it knows of
\* the current entry there.
ControlInv ==
  /\ err = "none"
  /\ pc # "stop"
  /\ pc = "scan" => call = "none"
  /\ pc = "attach" => call = "none"
  /\ pc \in {"decide", "block"} => call \in {"admit", "finish"}
  /\ pc = "spawn" => call = "admit"
  /\ pc = "insert" => call = "push"
  /\ pc = "apply" => call \in {"admit", "push", "drain", "flush"}
  /\ pc = "take" => call \in {"admit", "push", "drain", "finish", "flush"}
  /\ pc = "recvAll" => call \in {"admit", "push", "drain", "finish"}
  /\ pc # "scan" => input \in DOMAIN Inputs /\ Inputs[input].readable
  /\ input \in DOMAIN Inputs => nextSeq <= Len(Items)
  /\ input \notin DOMAIN Inputs => nextSeq = 0
  /\ input \in DOMAIN Inputs /\ ~Inputs[input].readable => nextSeq = 0
  /\ call = "admit" => nextSeq < Len(Items) /\ Items[Current].kind # "dir"
  /\ pc = "decide" /\ call = "admit" => nextEmit \notin DOMAIN pending
  /\ pc = "spawn" => Items[Current].kind = "file"
  /\ call = "push" /\ pc \in {"recvAll", "insert"} =>
       nextSeq < Len(Items) /\ Items[Current].kind \in {"dir", "zip"}
  /\ call = "push" /\ pc \in {"take", "apply"} => nextSeq > 0
  /\ call = "finish" => nextSeq = Len(Items)
  /\ call = "flush" /\ pc = "take" => nextSeq = Len(Items) /\ received = spawned
  /\ Flushed => nextSeq = 0 /\ spawned = 0 /\ received = 0
  /\ nextEmit <= nextSeq
  /\ received <= spawned

\* An item is numbered once, travels under that number, and is in one place.
InFlight(seq, item) ==
  /\ seq \in nextEmit..(nextSeq - 1)
  /\ item = seq + 1
  /\ seq \notin DOMAIN pending

PlaceInv ==
  /\ \A s \in DOMAIN pending : s \in nextEmit..(nextSeq - 1) /\ pending[s] = s + 1
  /\ \A job \in hashing : InFlight(job.seq, job.item)
  /\ \A k \in DOMAIN channel : channel[k].ok =>
       /\ InFlight(channel[k].seq, channel[k].item)
       /\ \A job \in hashing : job.seq # channel[k].seq
       /\ \A j \in DOMAIN channel :
            channel[j].ok /\ channel[j].seq = channel[k].seq => j = k

\* No item is lost, except to a panic that the main thread is yet to hear of.
NothingLost ==
  \A s \in nextEmit..(nextSeq - 1) :
    \/ s \in DOMAIN pending
    \/ \E job \in hashing : job.seq = s
    \/ \E k \in DOMAIN channel : channel[k].ok => channel[k].seq = s

\* Results still due are in the pool or in the channel.
CountInv == spawned - received = Cardinality(hashing) + Len(channel)

\* Taken items are applied in scan order, each once.
BatchInv ==
  /\ \A k \in DOMAIN entries : entries[k] = k
  /\ \A k \in DOMAIN batch : batch[k] = Len(entries) + k
  /\ Len(entries) + Len(batch) = Taken
  /\ pc \in {"scan", "spawn", "insert", "attach"} => batch = <<>>
  /\ pc = "recvAll" /\ call \in {"push", "drain"} => batch = <<>>
  /\ pc \notin {"apply", "attach"} => nth = 0
  /\ batch = <<>> /\ pc # "attach" => nth = 0

\* Room was made before anything is handed over, and stays.
Fits == inflight = 0 \/ inflight + Bytes(Current) <= MaxInflight

RoomInv ==
  /\ pc = "spawn" => Fits
  /\ call = "push" /\ pc \in {"recvAll", "insert"}
       /\ Items[Current].kind = "zip" => Fits

IInv ==
  /\ TypeOK
  /\ InflightBounded
  /\ SeenIndexesBlobs
  /\ status = "packing" =>
       ControlInv /\ PlaceInv /\ NothingLost /\ CountInv /\ BatchInv
         /\ InflightExact /\ RoomInv
  /\ status # "packing" => pc = "stop"
  /\ NoAccountingDeadlock
=============================================================================
