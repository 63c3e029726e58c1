------------------------------ MODULE Pipeline ------------------------------
(***************************************************************************)
(* Packing with several jobs: `dehydrate` with a HashPipeline.             *)
(*                                                                         *)
(* The main thread scans the entries of a JAR, hands the payload of each   *)
(* file to a pool of hash workers, receives the results over a channel in  *)
(* whatever order they finish, puts them back in scan order, and applies   *)
(* them to the blob sink.  A cap on the payload bytes in flight makes the  *)
(* main thread wait before it hands over the next one.                     *)
(*                                                                         *)
(* The main thread is cut where a worker can come between: each receive,   *)
(* each item taken out of the reorder map, each blob stored is one step.   *)
(* `call` names the pipeline method the main thread is in, `pc` the loop   *)
(* inside it.  The rayon pool is the set `hashing`, any member of which    *)
(* may finish next; the mpsc channel is a sequence.                        *)
(***************************************************************************)
EXTENDS SeqPack, FiniteSets

CONSTANTS MaxInflight,      \* --max-inflight-bytes
          MayPanic,         \* a hash worker may panic
          Unwinds           \* the build unwinds (tests) or aborts (release)

ASSUME PipelineAssumption ==
  MaxInflight \in Nat /\ MayPanic \in BOOLEAN /\ Unwinds \in BOOLEAN

VARIABLES pc,               \* where the main thread is
          call,             \* the HashPipeline method it is executing
          batch,            \* items taken in order, not yet applied
          pending,          \* reorder map: seq -> item number
          nextSeq, nextEmit, spawned, received,
          inflight,         \* inflight_bytes
          peak,             \* peak_inflight_bytes
          hashing,          \* jobs in the pool: [seq, item]
          channel,          \* results on their way: [seq, item, ok]
          err               \* why the run failed, or "none"

mainVars == <<pc, call, batch, pending, nextSeq, nextEmit, spawned, received,
              inflight, peak, err>>
vars == <<blobs, seen, input, entries, nth, jars, status, mainVars, hashing,
          channel>>

Offset(k) == IF k = 0 THEN 0 ELSE Inputs[input].offset[k]
Bytes(k) == Offset(k) - Offset(k - 1)

\* The item of the scanner callback: items are numbered in scan order and each
\* gets one sequence number, so the next seq counts the items handed over.
Current == nextSeq + 1

Job == [seq : Nat, item : Nat \ {0}]
Result == [seq : Nat, item : Nat, ok : BOOLEAN]

TypeOK ==
  /\ SinkTypeOK
  /\ input \in 1..(Len(Inputs) + 1)
  /\ entries \in Seq(Nat \ {0})
  /\ nth \in Nat
  /\ jars \in Seq([input : Nat, entries : Seq(Nat \ {0})])
  /\ status \in {"packing", "done", "failed"}
  /\ pc \in {"scan", "recvAll", "insert", "take", "decide", "block", "spawn",
             "apply", "attach", "stop"}
  /\ call \in {"none", "admit", "push", "drain", "finish", "flush"}
  /\ batch \in Seq(Nat \ {0})
  /\ DOMAIN pending \subseteq Nat /\ \A s \in DOMAIN pending : pending[s] \in Nat \ {0}
  /\ nextSeq \in Nat /\ nextEmit \in Nat /\ spawned \in Nat /\ received \in Nat
  /\ inflight \in Nat /\ peak \in Nat
  /\ hashing \subseteq Job /\ IsFiniteSet(hashing)
  /\ channel \in Seq(Result)
  /\ err \in {"none", "input", "crc", "panic", "abort", "deadlock", "signed",
              "io"}

PipeInit ==
  /\ Init
  /\ pc = "scan" /\ call = "none"
  /\ batch = <<>>
  /\ pending = [s \in {} |-> 0]
  /\ nextSeq = 0 /\ nextEmit = 0 /\ spawned = 0 /\ received = 0
  /\ inflight = 0 /\ peak = 0
  /\ hashing = {}
  /\ channel = <<>>
  /\ err = "none"

PackUnchanged == UNCHANGED <<blobs, seen, input, entries, nth, jars, status>>
CountersUnchanged ==
  UNCHANGED <<nextSeq, nextEmit, spawned, received, inflight, peak>>

Goto(p, c) == pc' = p /\ call' = c
MaxOf(a, b) == IF a >= b THEN a ELSE b
InsertPending(s, item) ==
  pending' = [x \in DOMAIN pending \cup {s} |->
                IF x = s THEN item ELSE pending[x]]

FailWith(reason) ==
  /\ status' = "failed"
  /\ err' = reason
  /\ Goto("stop", "none")
  /\ UNCHANGED <<blobs, seen, input, entries, nth, jars, batch, pending,
                 hashing, channel>>
  /\ CountersUnchanged

-----------------------------------------------------------------------------
(* The scanner: one callback per entry, then finish_jar.                   *)

AtInput == pc = "scan" /\ input \in DOMAIN Inputs

\* A path that cannot be read, or is a directory: skipped with a warning, or
\* the end of a strict run.
UnreadableInput ==
  /\ AtInput
  /\ ~Inputs[input].readable
  /\ IF Strict
       THEN FailWith("input")
       ELSE /\ input' = input + 1
            /\ UNCHANGED <<blobs, seen, entries, nth, jars, status, mainVars,
                           hashing, channel>>

\* A directory goes straight to push_dir, anything with bytes waits for room.
ScanEntry ==
  /\ AtInput
  /\ Inputs[input].readable
  /\ nextSeq < Len(Items)
  /\ Goto("recvAll", IF Items[Current].kind = "dir" THEN "push" ELSE "admit")
  /\ PackUnchanged /\ CountersUnchanged
  /\ UNCHANGED <<batch, pending, hashing, channel, err>>

ScanEnds ==
  /\ AtInput
  /\ Inputs[input].readable
  /\ nextSeq = Len(Items)
  /\ Goto("decide", "finish")
  /\ PackUnchanged /\ CountersUnchanged
  /\ UNCHANGED <<batch, pending, hashing, channel, err>>

\* A malformed archive, an entry over --max-entry-bytes, a non-UTF-8 name
\* under --strict: the scanner stops while workers are still hashing.
ScanFails == AtInput /\ Inputs[input].readable /\ FailWith("io")

AllPacked ==
  /\ pc = "scan"
  /\ input = Len(Inputs) + 1
  /\ status' = "done"
  /\ Goto("stop", "none")
  /\ UNCHANGED <<blobs, seen, input, entries, nth, jars, batch, pending,
                 hashing, channel, err>>
  /\ CountersUnchanged

-----------------------------------------------------------------------------
(* The hash pool.                                                          *)

\* Faulty variant: a worker that finds a CRC mismatch sends nothing back.
HashDoneQuietly(job) ==
  /\ status = "packing"
  /\ job \in hashing
  /\ hashing' = hashing \ {job}
  /\ channel' = IF Items[job.item].crcOk
                  THEN Append(channel, [seq |-> job.seq, item |-> job.item, ok |-> TRUE])
                  ELSE channel
  /\ PackUnchanged /\ UNCHANGED mainVars

HashDone(job) ==
  /\ status = "packing"
  /\ job \in hashing
  /\ hashing' = hashing \ {job}
  /\ channel' = Append(channel, [seq |-> job.seq, item |-> job.item, ok |-> TRUE])
  /\ PackUnchanged /\ UNCHANGED mainVars

\* Faulty variant: without catch_unwind the result is lost with the worker.
HashPanicsSilently(job) ==
  /\ status = "packing"
  /\ MayPanic /\ Unwinds
  /\ job \in hashing
  /\ hashing' = hashing \ {job}
  /\ UNCHANGED channel
  /\ PackUnchanged /\ UNCHANGED mainVars

\* catch_unwind turns a panic into an Err(()) that carries no seq.
HashPanics(job) ==
  /\ status = "packing"
  /\ MayPanic /\ Unwinds
  /\ job \in hashing
  /\ hashing' = hashing \ {job}
  /\ channel' = Append(channel, [seq |-> 0, item |-> 0, ok |-> FALSE])
  /\ PackUnchanged /\ UNCHANGED mainVars

\* With panic = "abort" the whole process dies where the worker panicked.
HashAborts ==
  /\ status = "packing"
  /\ MayPanic /\ ~Unwinds
  /\ hashing # {}
  /\ FailWith("abort")

-----------------------------------------------------------------------------
(* recv_one and try_recv_all.                                              *)

\* One message off the channel, in either of the two receive loops.
Receive ==
  /\ pc \in {"recvAll", "block"}
  /\ channel # <<>>
  /\ Head(channel).ok
  /\ received' = received + 1
  /\ InsertPending(Head(channel).seq, Head(channel).item)
  /\ channel' = Tail(channel)
  /\ Goto("recvAll", call)
  /\ PackUnchanged
  /\ UNCHANGED <<batch, nextSeq, nextEmit, spawned, inflight, peak, hashing, err>>

ReceivePanic ==
  /\ pc \in {"recvAll", "block"}
  /\ channel # <<>>
  /\ ~Head(channel).ok
  /\ FailWith("panic")

\* try_recv found the channel empty: the loop is over.
ReceivedAll ==
  /\ pc = "recvAll"
  /\ channel = <<>>
  /\ Goto(IF call = "push" THEN "insert" ELSE "take", call)
  /\ PackUnchanged /\ CountersUnchanged
  /\ UNCHANGED <<batch, pending, hashing, channel, err>>

-----------------------------------------------------------------------------
(* take_in_order: one item per step, then back to the caller.              *)

\* Faulty variants: results are taken as they arrive, or go to the front of the
\* batch, or their bytes stay charged.
TakeAny ==
  /\ pc = "take"
  /\ \E s \in DOMAIN pending :
       /\ batch' = Append(batch, pending[s])
       /\ inflight' = MaxOf(inflight, Bytes(pending[s])) - Bytes(pending[s])
       /\ pending' = [x \in DOMAIN pending \ {s} |-> pending[x]]
  /\ nextEmit' = nextEmit + 1
  /\ PackUnchanged
  /\ UNCHANGED <<pc, call, nextSeq, spawned, received, peak, hashing, channel, err>>

TakeToFront ==
  /\ pc = "take"
  /\ nextEmit \in DOMAIN pending
  /\ batch' = <<pending[nextEmit]>> \o batch
  /\ inflight' = MaxOf(inflight, Bytes(pending[nextEmit])) - Bytes(pending[nextEmit])
  /\ pending' = [s \in DOMAIN pending \ {nextEmit} |-> pending[s]]
  /\ nextEmit' = nextEmit + 1
  /\ PackUnchanged
  /\ UNCHANGED <<pc, call, nextSeq, spawned, received, peak, hashing, channel, err>>

TakeKeepsCharge ==
  /\ pc = "take"
  /\ nextEmit \in DOMAIN pending
  /\ batch' = Append(batch, pending[nextEmit])
  /\ pending' = [s \in DOMAIN pending \ {nextEmit} |-> pending[s]]
  /\ nextEmit' = nextEmit + 1
  /\ PackUnchanged
  /\ UNCHANGED <<pc, call, nextSeq, spawned, received, inflight, peak, hashing,
                 channel, err>>

TakeOne ==
  /\ pc = "take"
  /\ nextEmit \in DOMAIN pending
  /\ batch' = Append(batch, pending[nextEmit])
  /\ LET size == Bytes(pending[nextEmit])
     IN  inflight' = IF inflight < size THEN 0 ELSE inflight - size
  /\ pending' = [s \in DOMAIN pending \ {nextEmit} |-> pending[s]]
  /\ nextEmit' = nextEmit + 1
  /\ PackUnchanged
  /\ UNCHANGED <<pc, call, nextSeq, spawned, received, peak, hashing, channel, err>>

TakeEnds ==
  /\ pc = "take"
  /\ nextEmit \notin DOMAIN pending
  /\ \/ /\ call \in {"admit", "finish"}
        /\ Goto("decide", call)
        /\ UNCHANGED <<nextSeq, nextEmit, spawned, received>>
     \/ /\ call \in {"push", "drain"}
        /\ Goto("apply", call)
        /\ UNCHANGED <<nextSeq, nextEmit, spawned, received>>
     \/ /\ call = "flush"
        /\ Goto("apply", call)
        /\ nextSeq' = 0 /\ nextEmit' = 0 /\ spawned' = 0 /\ received' = 0
  /\ PackUnchanged
  /\ UNCHANGED <<batch, pending, inflight, peak, hashing, channel, err>>

-----------------------------------------------------------------------------
(* wait_admit: is there room for the next payload?                         *)

\* Faulty variants: the next payload is left out of the comparison, or gets no
\* exception when it alone is larger than the cap.
CanAdmitBeforeAdding == inflight <= MaxInflight
CanAdmitNoException == inflight + Bytes(Current) <= MaxInflight

CanAdmit == inflight = 0 \/ inflight + Bytes(Current) <= MaxInflight

Deciding == pc = "decide" /\ call = "admit"

\* Faulty variant: the payload is handed over before the batch is applied.
AdmitBeforeApplying ==
  /\ Deciding
  /\ CanAdmit
  /\ IF Items[Current].kind = "zip" THEN Goto("recvAll", "push")
                                    ELSE Goto("spawn", "admit")
  /\ PackUnchanged /\ CountersUnchanged
  /\ UNCHANGED <<batch, pending, hashing, channel, err>>

\* Room, and nothing left to apply: hand the payload over.
Admit ==
  /\ Deciding
  /\ CanAdmit /\ batch = <<>>
  /\ IF Items[Current].kind = "zip" THEN Goto("recvAll", "push")
                                    ELSE Goto("spawn", "admit")
  /\ PackUnchanged /\ CountersUnchanged
  /\ UNCHANGED <<batch, pending, hashing, channel, err>>

\* A batch goes back to be applied, after which wait_admit is called again.
ReturnBatch ==
  /\ Deciding
  /\ CanAdmit \/ received = spawned
  /\ batch # <<>>
  /\ Goto("apply", "admit")
  /\ PackUnchanged /\ CountersUnchanged
  /\ UNCHANGED <<batch, pending, hashing, channel, err>>

\* No room: block in recv while results are due.  With every result received
\* and nothing to apply nothing can make room, which the code takes for a
\* broken invariant and reports as "inflight accounting deadlock".
WaitForRoom ==
  /\ Deciding
  /\ ~CanAdmit
  /\ received = spawned => batch = <<>>
  /\ IF received = spawned
       THEN FailWith("deadlock")
       ELSE /\ Goto("block", "admit")
            /\ PackUnchanged /\ CountersUnchanged
            /\ UNCHANGED <<batch, pending, hashing, channel, err>>

-----------------------------------------------------------------------------
(* spawn_file, push_dir and push_exploded.                                 *)

Charge(size) == inflight' = inflight + size /\ peak' = MaxOf(peak, inflight + size)

SpawnFile ==
  /\ pc = "spawn"
  /\ hashing' = hashing \cup {[seq |-> nextSeq, item |-> Current]}
  /\ nextSeq' = nextSeq + 1
  /\ spawned' = spawned + 1
  /\ Charge(Bytes(Current))
  /\ Goto("recvAll", "drain")
  /\ PackUnchanged
  /\ UNCHANGED <<batch, pending, nextEmit, received, channel, err>>

\* Faulty variant: push_exploded does not charge the children.
InsertUncharged ==
  /\ pc = "insert"
  /\ InsertPending(nextSeq, Current)
  /\ nextSeq' = nextSeq + 1
  /\ Goto("take", "push")
  /\ PackUnchanged
  /\ UNCHANGED <<batch, nextEmit, spawned, received, inflight, peak, hashing,
                 channel, err>>

\* A directory or an exploded archive needs no worker: it enters the reorder
\* map at once, behind the results that are still due.
InsertReady ==
  /\ pc = "insert"
  /\ InsertPending(nextSeq, Current)
  /\ nextSeq' = nextSeq + 1
  /\ \/ /\ Items[Current].kind = "dir"
        /\ UNCHANGED <<inflight, peak>>
     \/ /\ Items[Current].kind = "zip"
        /\ Charge(Bytes(Current))
  /\ Goto("take", "push")
  /\ PackUnchanged
  /\ UNCHANGED <<batch, nextEmit, spawned, received, hashing, channel, err>>

-----------------------------------------------------------------------------
(* finish_jar: wait for every result that is still due.                    *)

FinishWaits ==
  /\ pc = "decide" /\ call = "finish"
  /\ received < spawned
  /\ Goto("block", "finish")
  /\ PackUnchanged /\ CountersUnchanged
  /\ UNCHANGED <<batch, pending, hashing, channel, err>>

\* Faulty variant: finish_jar returns what has arrived so far.
FinishFlushesEarly ==
  /\ pc = "decide" /\ call = "finish"
  /\ Goto("take", "flush")
  /\ PackUnchanged /\ CountersUnchanged
  /\ UNCHANGED <<batch, pending, hashing, channel, err>>

FinishFlushes ==
  /\ pc = "decide" /\ call = "finish"
  /\ received >= spawned
  /\ Goto("take", "flush")
  /\ PackUnchanged /\ CountersUnchanged
  /\ UNCHANGED <<batch, pending, hashing, channel, err>>

-----------------------------------------------------------------------------
(* apply_sequenced and the tail of the per-JAR loop.                       *)

Applying == pc = "apply" /\ batch # <<>>

ApplyCrcFails ==
  /\ Applying
  /\ ~CrcPasses(Items[Head(batch)])
  /\ FailWith("crc")

ApplyBlob ==
  /\ Applying
  /\ CrcPasses(Items[Head(batch)])
  /\ nth < Len(Items[Head(batch)].blobs)
  /\ RememberBlob(Items[Head(batch)].blobs[nth + 1])
  /\ nth' = nth + 1
  /\ UNCHANGED <<input, entries, jars, status, mainVars, hashing, channel>>

ApplyEntry ==
  /\ Applying
  /\ CrcPasses(Items[Head(batch)])
  /\ nth = Len(Items[Head(batch)].blobs)
  /\ entries' = Append(entries, Head(batch))
  /\ nth' = 0
  /\ batch' = Tail(batch)
  /\ UNCHANGED <<blobs, seen, input, jars, status, pc, call, pending, nextSeq,
                 nextEmit, spawned, received, inflight, peak, err, hashing,
                 channel>>

\* What the caller does once the batch is applied: wait_admit again, drain
\* after an exploded archive, or return to the scanner.
Applied ==
  /\ pc = "apply" /\ batch = <<>>
  /\ \/ call = "admit" /\ Goto("recvAll", "admit")
     \/ /\ call = "push"
        /\ IF Items[nextSeq].kind = "zip" THEN Goto("recvAll", "drain")
                                          ELSE Goto("scan", "none")
     \/ call = "drain" /\ Goto("scan", "none")
     \/ call = "flush" /\ Goto("attach", "none")
  /\ PackUnchanged /\ CountersUnchanged
  /\ UNCHANGED <<batch, pending, hashing, channel, err>>

\* write_blob or the second read of the JAR fails.
StoreFails ==
  /\ Applying \/ pc = "attach"
  /\ FailWith("io")

SignatureFails ==
  /\ pc = "attach"
  /\ ~SignaturePasses
  /\ FailWith("signed")

AttachBlob ==
  /\ pc = "attach"
  /\ SignaturePasses
  /\ nth < Len(Own)
  /\ RememberBlob(Own[nth + 1])
  /\ nth' = nth + 1
  /\ UNCHANGED <<input, entries, jars, status, mainVars, hashing, channel>>

AttachJar ==
  /\ pc = "attach"
  /\ SignaturePasses
  /\ nth = Len(Own)
  /\ jars' = Append(jars, [input |-> input, entries |-> entries])
  /\ entries' = <<>>
  /\ nth' = 0
  /\ input' = input + 1
  /\ Goto("scan", "none")
  /\ CountersUnchanged
  /\ UNCHANGED <<blobs, seen, status, batch, pending, hashing, channel, err>>

-----------------------------------------------------------------------------
MainStep ==
  \/ UnreadableInput \/ ScanEntry \/ ScanEnds \/ AllPacked
  \/ Receive \/ ReceivePanic \/ ReceivedAll \/ TakeOne \/ TakeEnds
  \/ Admit \/ ReturnBatch \/ WaitForRoom
  \/ SpawnFile \/ InsertReady \/ FinishWaits \/ FinishFlushes
  \/ ApplyCrcFails \/ ApplyBlob \/ ApplyEntry \/ Applied
  \/ SignatureFails \/ AttachBlob \/ AttachJar

Worker == \E job \in hashing : HashDone(job) \/ HashPanics(job)

PipeNext == MainStep \/ Worker \/ HashAborts \/ ScanFails \/ StoreFails

\* The main thread never stops by itself, and the pool runs what it was given.
PipeSpec ==
  /\ PipeInit /\ [][PipeNext]_vars
  /\ WF_vars(MainStep) /\ WF_vars(Worker)

-----------------------------------------------------------------------------
\* inflight_bytes is exactly the payload handed over and not yet taken out
\* again: the saturating subtraction of take_in_order never saturates, so no
\* byte of room is lost or invented over a long run.
InflightExact ==
  status = "packing" => inflight = Offset(nextSeq) - Offset(nextEmit)

\* The high-water mark stays within --max-inflight-bytes unless a single entry
\* is larger than the cap, and then within that entry (can_admit_inflight).
InflightBounded ==
  \/ peak <= MaxInflight
  \/ \E i \in DOMAIN Inputs : \E k \in 1..Len(Inputs[i].items) :
       peak <= Inputs[i].offset[k] - (IF k = 1 THEN 0 ELSE Inputs[i].offset[k - 1])

\* The error wait_admit keeps for an impossible state is indeed impossible:
\* with every result received and nothing to apply, nothing is in flight.
NoAccountingDeadlock == err # "deadlock"

\* finish_jar resets the sequence numbers to 0 for the next JAR.  By then the
\* JAR has left nothing behind - no job, no result, no reordered item, no
\* bytes - that could be taken for an item of the next one.
JarLeavesNothing ==
  status = "packing" /\ pc = "attach" =>
    /\ hashing = {} /\ channel = <<>> /\ DOMAIN pending = {} /\ batch = <<>>
    /\ inflight = 0
    /\ entries = [k \in 1..Len(Items) |-> k]
=============================================================================
