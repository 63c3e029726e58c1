------------------------------ MODULE SeqPack -------------------------------
(***************************************************************************)
(* Packing with one job: the main thread scans a JAR and applies each of   *)
(* its entries before it reads the next (the `pipeline == None` arms of    *)
(* `dehydrate`).  This is the specification of what packing means; the     *)
(* hash pipeline of Pipeline.tla must implement it at any number of jobs.  *)
(*                                                                         *)
(* An input is a path from the command line, as the scanner finds it:      *)
(*   readable  metadata succeeds and it is not a directory                 *)
(*   signed    carries META-INF signature files                            *)
(*   items     the entries in central-directory order.  A "dir" stores     *)
(*             nothing, a "file" its one payload, a "zip" (a STORE member  *)
(*             taken apart) the blobs of its children, in order            *)
(*   offset    offset[k] is the number of payload bytes of items 1..k that *)
(*             count against the in-flight cap                             *)
(*   own       blobs that belong to the JAR itself: prefix, tail, headers  *)
(***************************************************************************)
EXTENDS BlobSink

CONSTANTS Inputs,           \* the expanded argument list, a sequence
          Strict,           \* --strict
          FailOnSigned      \* --fail-on-signed

VARIABLES input,            \* index of the input being packed
          entries,          \* jar_entries: item numbers in catalog order
          nth,              \* blobs remembered so far of the current item or JAR
          jars,             \* the catalog: <<[input, entries], ...>>
          status            \* "packing", then "done" or "failed"

packVars == <<blobs, seen, input, entries, nth, jars, status>>

Item == [kind : {"dir", "file", "zip"}, blobs : Seq(Hash), crcOk : BOOLEAN]

ASSUME InputsAssumption ==
  /\ Strict \in BOOLEAN /\ FailOnSigned \in BOOLEAN
  /\ Inputs \in Seq([readable : BOOLEAN, signed : BOOLEAN, items : Seq(Item),
                     offset : Seq(Nat), own : Seq(Hash)])
  /\ \A i \in DOMAIN Inputs :
       /\ Len(Inputs[i].offset) = Len(Inputs[i].items)
       /\ \A j, k \in DOMAIN Inputs[i].offset :
            j <= k => Inputs[i].offset[j] <= Inputs[i].offset[k]
       /\ \A k \in DOMAIN Inputs[i].items :
            LET before == IF k = 1 THEN 0 ELSE Inputs[i].offset[k - 1]
                item == Inputs[i].items[k]
            IN  /\ item.kind = "dir" =>
                     before = Inputs[i].offset[k] /\ Len(item.blobs) = 0
                /\ item.kind = "file" => Len(item.blobs) = 1

Items == Inputs[input].items
Own == Inputs[input].own

\* check_crc: a mismatch stops a strict run and is a warning otherwise.
CrcPasses(item) == item.crcOk \/ ~Strict
SignaturePasses == ~Inputs[input].signed \/ ~FailOnSigned

Init ==
  /\ SinkInit
  /\ input = 1
  /\ entries = <<>>
  /\ nth = 0
  /\ jars = <<>>
  /\ status = "packing"

\* An unreadable path or a directory is skipped with a warning.
SkipInput ==
  /\ status = "packing"
  /\ input \in DOMAIN Inputs
  /\ ~Inputs[input].readable /\ ~Strict
  /\ input' = input + 1
  /\ UNCHANGED <<blobs, seen, entries, nth, jars, status>>

OnReadable ==
  /\ status = "packing"
  /\ input \in DOMAIN Inputs
  /\ Inputs[input].readable

\* remember_blob for the next blob of the next entry.
StoreEntryBlob ==
  /\ OnReadable
  /\ Len(entries) < Len(Items)
  /\ LET item == Items[Len(entries) + 1]
     IN  /\ CrcPasses(item)
         /\ nth < Len(item.blobs)
         /\ RememberBlob(item.blobs[nth + 1])
  /\ nth' = nth + 1
  /\ UNCHANGED <<input, entries, jars, status>>

\* jar_entries.push once all blobs of the entry are stored.
PushEntry ==
  /\ OnReadable
  /\ Len(entries) < Len(Items)
  /\ CrcPasses(Items[Len(entries) + 1])
  /\ nth = Len(Items[Len(entries) + 1].blobs)
  /\ entries' = Append(entries, Len(entries) + 1)
  /\ nth' = 0
  /\ UNCHANGED <<blobs, seen, input, jars, status>>

\* The JAR's own blobs follow those of its last entry.
StoreJarBlob ==
  /\ OnReadable
  /\ Len(entries) = Len(Items)
  /\ SignaturePasses
  /\ nth < Len(Own)
  /\ RememberBlob(Own[nth + 1])
  /\ nth' = nth + 1
  /\ UNCHANGED <<input, entries, jars, status>>

PushJar ==
  /\ OnReadable
  /\ Len(entries) = Len(Items)
  /\ SignaturePasses
  /\ nth = Len(Own)
  /\ jars' = Append(jars, [input |-> input, entries |-> entries])
  /\ entries' = <<>>
  /\ nth' = 0
  /\ input' = input + 1
  /\ UNCHANGED <<blobs, seen, status>>

Finish ==
  /\ status = "packing"
  /\ input = Len(Inputs) + 1
  /\ status' = "done"
  /\ UNCHANGED <<blobs, seen, input, entries, nth, jars>>

\* Any error - an unreadable path or a CRC mismatch under --strict, a broken
\* archive, a full disk - ends the run; nothing packed so far is committed.
Fail ==
  /\ status = "packing"
  /\ status' = "failed"
  /\ UNCHANGED <<blobs, seen, input, entries, nth, jars>>

Next == SkipInput \/ StoreEntryBlob \/ PushEntry \/ StoreJarBlob \/ PushJar
          \/ Finish \/ Fail

Spec == Init /\ [][Next]_packVars
=============================================================================
