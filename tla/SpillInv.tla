------------------------------ MODULE SpillInv -------------------------------
(***************************************************************************)
(* The inductive invariant of `rehydrate` reading an archive into a shared *)
(* directory.  The theorems about it are in SpillProofs.tla; TLC checks    *)
(* that it holds.                                                          *)
(***************************************************************************)
EXTENDS Spill

Shared(p) == \E q \in Proc \ {p} : SharesBlob(p, q)

\* The blobs read so far: what is in front of the MANIFEST.
Blobs(p) == IF manifest[p] = <<>> THEN pos[p] ELSE pos[p] - 1

\* What has been read is good blobs and then at most one MANIFEST, the digest
\* has an entry for each of the blobs, and the control state knows what is next.
ReadingInv(p) ==
  /\ pos[p] <= Len(stream[p])
  /\ manifest[p] # <<>> =>
       pos[p] > 0 /\ manifest[p] = <<stream[p][pos[p]]>> /\ stream[p][pos[p]].kind = "manifest"
  /\ Len(hasher[p]) = Blobs(p)
  /\ \A i \in 1..Blobs(p) :
       stream[p][i].kind = "blob" /\ stream[p][i].good /\ hasher[p][i] = stream[p][i].hash
  /\ pc[p] = "put" => ~AtEof(p) /\ manifest[p] = <<>> /\ Rec(p).kind = "blob" /\ Rec(p).good
  /\ pc[p] \in {"check", "restore", "ok"} =>
       ~AtEof(p) /\ manifest[p] # <<>> /\ Rec(p).kind = "end"
  /\ pc[p] \in {"restore", "ok"} => DigestsAgree(p)

\* A blob that has been put is whole, but while the same content is put again,
\* unless another process has it too; nobody else can meet this one's puts.
DirectoryInv(p) ==
  /\ p \in overtaken => Shared(p)
  /\ pc[p] \in {"spill", "put", "check", "restore"} =>
       \A i \in 1..Blobs(p) :
         \/ cas[stream[p][i].hash] = "whole"
         \/ pc[p] = "put" /\ Rec(p).hash = stream[p][i].hash
         \/ Shared(p)

SpillInvariant ==
  /\ TypeOK
  /\ \A p \in Proc : ReadingInv(p) /\ DirectoryInv(p)
  /\ VerifiedRestores
  /\ PutsConverge
=============================================================================
