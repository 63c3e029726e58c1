---------------------------- MODULE PipelineProps ----------------------------
(***************************************************************************)
(* What the hash pipeline must guarantee, in terms of Pipeline.tla alone   *)
(* (the properties that TLAPS proves are stated in Pipeline.tla) and       *)
(* against a reference definition of the archive's first-seen order.       *)
(***************************************************************************)
EXTENDS PipelineInv, Counting, SequencesExt

\* The payloads the pipeline still keeps in memory, wherever they are: in the
\* pool, in the channel, in the reorder map, or taken out and not yet applied.
\* They count what push_exploded and the workers' jobs are charged for; the
\* header, pad, prefix and tail bytes an exploded child carries along are
\* charged nowhere and are not counted here.
HeldItems ==
  {job.item : job \in hashing}
    \cup {channel[k].item : k \in {k \in DOMAIN channel : channel[k].ok}}
    \cup {pending[s] : s \in DOMAIN pending}
    \cup {batch[k] : k \in DOMAIN batch}

HeldBytes == MapThenSumSet(Bytes, HeldItems)

\* --max-inflight-bytes caps the uncompressed buffers of the hash pipeline,
\* and one entry larger than the cap is still admitted (DESIGN.md).  The code
\* subtracts an item when it takes it out of the map, while the buffer lives
\* on in the batch; the charged payloads that are alive stay below the cap all
\* the same, because wait_admit hands over nothing until the batch is applied.
HeldBounded ==
  status = "packing" /\ pc # "attach" /\ input \in DOMAIN Inputs =>
    \/ HeldBytes <= MaxInflight
    \/ \E k \in 1..Len(Items) : HeldBytes <= Bytes(k)

\* The blobs of one JAR, and of all, in the order in which a single job
\* meets them.
EntryBlobs(i) == [k \in DOMAIN Inputs[i].items |-> Inputs[i].items[k].blobs]
JarBlobs(i) == FlattenSeq(EntryBlobs(i)) \o Inputs[i].own
InputBlobs == [i \in DOMAIN Inputs |-> IF Inputs[i].readable THEN JarBlobs(i) ELSE <<>>]
AllBlobs == FlattenSeq(InputBlobs)

\* First occurrences of a sequence, in order, each with its multiplicity.
FirstSeen(s) ==
  LET first == {k \in DOMAIN s : \A j \in 1..(k - 1) : s[j] # s[k]}
      row(h) == [hash |-> h, refs |-> Cardinality({j \in DOMAIN s : s[j] = h})]
  IN  [n \in 1..Cardinality(first) |-> row(s[Nth(first, n)])]

\* The catalog of the inputs in S, in the order of the arguments.
CatalogOf(S) ==
  [n \in 1..Cardinality(S) |->
     [input |-> Nth(S, n), entries |-> [k \in DOMAIN Inputs[Nth(S, n)].items |-> k]]]

\* The finished archive does not depend on the number of jobs, on which worker
\* won, or on when the cap made the main thread wait: the blob table with its
\* reference counts (hence the record stream and the END digest) is the
\* first-seen table of the inputs, and every JAR lists its entries in order.
ArchiveIsDeterministic ==
  status = "done" =>
    /\ blobs = FirstSeen(AllBlobs)
    /\ jars = CatalogOf({i \in DOMAIN Inputs : Inputs[i].readable})

\* The blobs remembered so far.
NextBlobs == IF Len(entries) < Len(Items) THEN Items[Len(entries) + 1].blobs ELSE Own
CurrentBlobs == Joined(EntryBlobs(input), Len(entries)) \o SubSeq(NextBlobs, 1, nth)
Stored ==
  Joined(InputBlobs, input - 1) \o (IF input \in DOMAIN Inputs THEN CurrentBlobs ELSE <<>>)

\* At every moment of a run, also of one that fails, the blob table is the
\* first-seen table of what has been applied, and the catalog has the
\* readable inputs that are complete: remember_blob and jars.push depend on
\* nothing else.
PackedSoFar ==
  /\ input \in 1..(Len(Inputs) + 1)
  /\ entries = [k \in 1..Len(entries) |-> k]
  /\ input \in DOMAIN Inputs => Len(entries) <= Len(Items) /\ nth <= Len(NextBlobs)
  /\ input \in DOMAIN Inputs => Inputs[input].readable \/ (entries = <<>> /\ nth = 0)
  /\ input \notin DOMAIN Inputs => entries = <<>> /\ nth = 0
  /\ status = "done" => input = Len(Inputs) + 1
  /\ blobs = FirstSeen(Stored)
  /\ jars = CatalogOf({i \in DOMAIN Inputs : i < input /\ Inputs[i].readable})

\* The run ends, packed or failed: no wait in wait_admit or finish_jar is for a
\* result that will never come, also when a worker panics and its result is
\* lost, or the scanner gives up while workers are still busy.
Terminates == <>(status # "packing")

\* With inputs that are fit to pack and no panic, only an I/O error keeps a run
\* from its end: "the pipeline cannot stall" (DESIGN.md), whatever the cap.
CompletesUnlessIoFails == <>(status = "done" \/ err = "io")

=============================================================================
