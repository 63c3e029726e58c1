----------------------------- MODULE SpillProofs ------------------------------
(***************************************************************************)
(* Proof that `rehydrate` and `verify` agree on the record stream, and that *)
(* overlapping puts leave whole files, for any number of processes that    *)
(* fill one directory, any payloads, any leftovers, I/O errors, and        *)
(* processes killed and run again.                                         *)
(***************************************************************************)
EXTENDS SpillInv, FiniteSetTheorems, TLAPS

-----------------------------------------------------------------------------
(* What `verify` accepts.                                                  *)

\* Every record before the one MANIFEST, which is in front of END, is a BLOB.
LEMMA RecordsBeforeEnd ==
  ASSUME NEW s \in Seq(Record), NEW e \in DOMAIN s, RecordsEndAt(s, e)
  PROVE  /\ e - 1 \in DOMAIN s /\ s[e - 1].kind = "manifest"
         /\ \A i \in 1..(e - 2) : s[i].kind = "blob"
  <1> DEFINE M == {i \in 1..(e - 1) : s[i].kind = "manifest"}
  <1>1. e \in Nat /\ e >= 1 /\ DOMAIN s = 1..Len(s) /\ Len(s) \in Nat
    OBVIOUS
  <1>2. Cardinality(M) = 1 /\ IsFiniteSet(M)
    <2>1. IsFiniteSet(1..(e - 1))
      BY <1>1, FS_Interval
    <2> QED
      BY <2>1, FS_Subset DEF RecordsEndAt
  <1>3. PICK m : M = {m}
    <2> HIDE DEF M
    <2> QED
      BY <1>2, FS_Singleton
  <1>4. m \in 1..(e - 1)
    BY <1>3
  <1>5. s[e - 1].kind = "manifest" /\ \A i \in 1..(e - 1) : s[i].kind \in {"blob", "manifest"}
    BY DEF RecordsEndAt
  <1>6. e - 1 \in M
    BY <1>1, <1>4, <1>5
  <1>7. \A i \in 1..(e - 2) : i \in 1..(e - 1) /\ i # e - 1
    BY <1>1
  <1>8. \A i \in 1..(e - 2) : i \notin M
    <2> HIDE DEF M
    <2> QED
      BY <1>3, <1>6, <1>7
  <1> QED
    BY <1>1, <1>4, <1>5, <1>7, <1>8

\* The END of a stream that both readers accept is behind what a process has
\* read, and behind the MANIFEST if it has read one.
LEMMA EndIsAhead ==
  ASSUME TypeOK, NEW p \in Proc, ReadingInv(p),
         NEW e \in DOMAIN stream[p], Coherent(stream[p], e)
  PROVE  /\ pos[p] < e /\ stream[p][e].kind = "end"
         /\ \A i \in 1..(e - 2) : stream[p][i].kind = "blob" /\ stream[p][i].good
         /\ stream[p][e - 1].kind = "manifest"
         /\ manifest[p] # <<>> => pos[p] = e - 1
         /\ manifest[p] = <<>> => pos[p] < e - 1
  <1> DEFINE s == stream[p]
             n == pos[p]
  <1>1. s \in Seq(Record) /\ n \in Nat /\ e \in DOMAIN s
    BY DEF TypeOK
  <1>2. RecordsEndAt(s, e) /\ \A i \in 1..(e - 2) : s[i].good
    BY DEF Coherent
  <1>3. /\ e - 1 \in DOMAIN s /\ s[e - 1].kind = "manifest"
        /\ \A i \in 1..(e - 2) : s[i].kind = "blob"
    <2> HIDE DEF s
    <2> QED
      BY <1>1, <1>2, RecordsBeforeEnd
  <1>4. s[e].kind = "end" /\ e \in Nat /\ e - 1 \in Nat /\ e >= 2
    <2>1. DOMAIN s = 1..Len(s) /\ Len(s) \in Nat
      BY <1>1
    <2> QED
      BY <1>2, <1>3, <2>1 DEF RecordsEndAt
  <1>5. CASE manifest[p] # <<>>
    <2>1. n > 0 /\ s[n].kind = "manifest" /\ \A i \in 1..(n - 1) : s[i].kind = "blob"
      BY <1>5 DEF ReadingInv, Blobs
    <2>2. n = e - 1
      <3>1. ~(n < e - 1)
        <4>1. n < e - 1 => n \in 1..(e - 2)
          BY <1>1, <1>4, <2>1
        <4> QED
          BY <1>3, <2>1, <4>1
      <3>2. ~(n > e - 1)
        <4>1. n > e - 1 => e - 1 \in 1..(n - 1)
          BY <1>1, <1>4, <2>1
        <4> QED
          BY <1>3, <2>1, <4>1
      <3> QED
        BY <1>1, <1>4, <3>1, <3>2
    <2>3. n < e
      BY <1>1, <1>4, <2>2
    <2> QED
      BY <1>2, <1>3, <1>4, <1>5, <2>2, <2>3
  <1>6. CASE manifest[p] = <<>>
    <2>1. \A i \in 1..n : s[i].kind = "blob"
      BY <1>6 DEF ReadingInv, Blobs
    <2>2. n < e - 1
      <3>1. n >= e - 1 => e - 1 \in 1..n
        BY <1>1, <1>4
      <3> QED
        BY <1>1, <1>3, <1>4, <2>1, <3>1
    <2>3. n < e
      BY <1>1, <1>4, <2>2
    <2> QED
      BY <1>2, <1>3, <1>4, <1>6, <2>2, <2>3
  <1> QED
    BY <1>5, <1>6

\* A stream that both accept is never refused...
LEMMA AcceptedIsNotRefused ==
  ASSUME TypeOK, NEW p \in Proc, ReadingInv(p), Refuse(p)
  PROVE  ~StreamAccepted(stream[p])
  <1> DEFINE s == stream[p]
             n == pos[p]
  <1> SUFFICES ASSUME StreamAccepted(s) PROVE FALSE
    OBVIOUS
  <1>1. s \in Seq(Record) /\ n \in Nat /\ Len(s) \in Nat /\ DOMAIN s = 1..Len(s)
    BY DEF TypeOK
  <1>2. PICK e \in DOMAIN s :
          /\ n < e /\ s[e].kind = "end"
          /\ \A i \in 1..(e - 2) : s[i].kind = "blob" /\ s[i].good
          /\ s[e - 1].kind = "manifest"
          /\ manifest[p] # <<>> => n = e - 1
          /\ manifest[p] = <<>> => n < e - 1
    BY EndIsAhead DEF StreamAccepted
  <1>3. ~AtEof(p)
    BY <1>1, <1>2 DEF AtEof
  <1>4. CASE manifest[p] # <<>>
    <2>1. Rec(p).kind = "end"
      <3>1. n + 1 = e
        BY <1>1, <1>2, <1>4
      <3> QED
        BY <1>2, <3>1 DEF Rec
    <2> QED
      BY <1>3, <1>4, <2>1 DEF Refuse, Reads
  <1>5. CASE manifest[p] = <<>>
    <2>1. CASE n + 1 = e - 1
      <3>1. Rec(p).kind = "manifest"
        BY <1>2, <2>1 DEF Rec
      <3> QED
        BY <1>3, <1>5, <3>1 DEF Refuse, Reads
    <2>2. CASE n + 1 # e - 1
      <3>1. n + 1 \in 1..(e - 2)
        BY <1>1, <1>2, <1>5, <2>2
      <3>2. Rec(p).kind = "blob" /\ Rec(p).good
        BY <1>2, <3>1 DEF Rec
      <3> QED
        BY <1>3, <1>5, <3>2 DEF Refuse, Reads
    <2> QED
      BY <2>1, <2>2
  <1> QED
    BY <1>4, <1>5

\* ... and has the digests that are compared after END.
LEMMA DigestsDecide ==
  ASSUME TypeOK, NEW p \in Proc, ReadingInv(p), pc[p] = "check"
  PROVE  DigestsAgree(p) <=> StreamAccepted(stream[p])
  <1> DEFINE s == stream[p]
             n == pos[p]
  <1>1. /\ s \in Seq(Record) /\ n \in Nat /\ hasher[p] \in Seq(Hash)
        /\ Len(s) \in Nat /\ DOMAIN s = 1..Len(s)
    BY DEF TypeOK
  <1>2. /\ n < Len(s) /\ n > 0 /\ manifest[p] # <<>>
        /\ manifest[p] = <<s[n]>> /\ s[n].kind = "manifest" /\ s[n + 1].kind = "end"
        /\ \A i \in 1..(n - 1) : s[i].kind = "blob" /\ s[i].good /\ hasher[p][i] = s[i].hash
        /\ Len(hasher[p]) = n - 1
    BY <1>1 DEF ReadingInv, AtEof, Rec, Blobs
  <1>3. n + 1 \in DOMAIN s /\ n \in DOMAIN s /\ (n + 1) - 1 = n /\ (n + 1) - 2 = n - 1
    BY <1>1, <1>2
  <1>4. manifest[p][1] = s[n] /\ Rec(p) = s[n + 1]
    BY <1>2 DEF Rec
  <1>5. hasher[p] = [i \in 1..(n - 1) |-> s[i].hash]
    <2>1. hasher[p] = [i \in 1..(n - 1) |-> hasher[p][i]]
      BY <1>1, <1>2
    <2> HIDE DEF s, n
    <2> QED
      BY <1>2, <2>1
  <1>6. ASSUME DigestsAgree(p) PROVE StreamAccepted(s)
    <2>1. RecordsEndAt(s, n + 1)
      <3>1. {i \in 1..n : s[i].kind = "manifest"} = {n}
        <4>1. \A i \in 1..n : i = n \/ i \in 1..(n - 1)
          BY <1>1, <1>2
        <4> QED
          BY <1>1, <1>2, <4>1
      <3>2. Cardinality({i \in 1..n : s[i].kind = "manifest"}) = 1
        BY <3>1, FS_Singleton
      <3>3. \A i \in 1..n : s[i].kind \in {"blob", "manifest"}
        <4>1. \A i \in 1..n : i = n \/ i \in 1..(n - 1)
          BY <1>1, <1>2
        <4> QED
          BY <1>2, <4>1
      <3> QED
        BY <1>2, <1>3, <3>2, <3>3 DEF RecordsEndAt
    <2>2. /\ \A i \in 1..(n - 1) : s[i].good
          /\ s[n + 1].digest = [i \in 1..(n - 1) |-> s[i].hash]
          /\ s[n].blobs = s[n + 1].digest
          /\ s[n].known
      BY <1>2, <1>4, <1>5, <1>6 DEF DigestsAgree
    <2> HIDE DEF s, n
    <2> QED
      BY <1>3, <2>1, <2>2 DEF StreamAccepted, Coherent
  <1>7. ASSUME StreamAccepted(s) PROVE DigestsAgree(p)
    <2>a. PICK e \in DOMAIN s : Coherent(s, e)
      BY <1>7 DEF StreamAccepted
    <2>1. /\ n = e - 1
          /\ s[e].digest = [i \in 1..(e - 2) |-> s[i].hash]
          /\ s[e - 1].blobs = s[e].digest
          /\ s[e - 1].known
      BY <1>2, <2>a, EndIsAhead DEF Coherent
    <2>2. e = n + 1
      BY <1>1, <2>1
    <2>3. e - 1 = n /\ e - 2 = n - 1
      BY <1>1, <2>2
    <2>4. /\ s[n + 1].digest = [i \in 1..(n - 1) |-> s[i].hash]
          /\ s[n].blobs = s[n + 1].digest
          /\ s[n].known
      BY <2>1, <2>2, <2>3
    <2> HIDE DEF s, n
    <2> QED
      BY <1>4, <1>5, <2>4 DEF DigestsAgree
  <1> QED
    BY <1>6, <1>7

\* What `verify` asks beyond that is the rows of the MANIFEST that was read.
LEMMA RowsDecide ==
  ASSUME TypeOK, NEW p \in Proc, ReadingInv(p), manifest[p] # <<>>, StreamAccepted(stream[p])
  PROVE  VerifyAccepts(stream[p]) <=> manifest[p][1].right
  <1>1. manifest[p][1] = stream[p][pos[p]]
    BY DEF ReadingInv
  <1>2. \A e \in DOMAIN stream[p] : Coherent(stream[p], e) => pos[p] = e - 1
    BY EndIsAhead
  <1> QED
    BY <1>1, <1>2 DEF VerifyAccepts, StreamAccepted

-----------------------------------------------------------------------------
(* A step of one process, seen from another.                               *)

RestoresVerified(p) ==
  /\ pc[p] \in {"restore", "ok"} =>
       /\ StreamAccepted(stream[p])
       /\ VerifyAccepts(stream[p]) <=> manifest[p][1].right
  /\ pc[p] = "err" /\ StreamAccepted(stream[p]) => p \in failed \/ Shared(p)

ProcessInv(p) == ReadingInv(p) /\ DirectoryInv(p) /\ RestoresVerified(p)

LEMMA InvByProcess ==
  SpillInvariant <=> TypeOK /\ PutsConverge /\ \A p \in Proc : ProcessInv(p)
  BY DEF SpillInvariant, ProcessInv, RestoresVerified, VerifiedRestores, Shared

Same(p) ==
  /\ pos'[p] = pos[p] /\ manifest'[p] = manifest[p] /\ hasher'[p] = hasher[p]

\* What a process has read stays as it is when others take steps, and when it
\* goes where nothing is said of the next record.
LEMMA ReadingStays ==
  ASSUME stream' = stream, NEW p, Same(p), ReadingInv(p),
         pc'[p] = pc[p] \/ pc'[p] \in {"spill", "err", "killed"}
  PROVE  ReadingInv(p)'
  BY DEF ReadingInv, Same, Blobs, AtEof, Rec, DigestsAgree

\* Files of its own that a process has put stay whole when the others write only
\* whole files or contents that it has itself.
LEMMA DirectoryStays ==
  ASSUME stream' = stream, NEW p, Same(p), DirectoryInv(p),
         pc'[p] = pc[p] \/ pc'[p] \in {"err", "killed"}
           \/ (pc[p] \in {"spill", "check", "restore"} /\ pc'[p] \in {"check", "restore", "ok"}),
         p \in overtaken' => p \in overtaken \/ Shared(p),
         \A i \in 1..Blobs(p) :
           LET h == stream[p][i].hash
           IN  cas'[h] = cas[h] \/ cas'[h] = "whole" \/ Shared(p)
  PROVE  DirectoryInv(p)'
  <1>1. Blobs(p)' = Blobs(p)
    BY DEF Blobs, Same
  <1>2. Shared(p)' <=> Shared(p)
    BY DEF Shared, SharesBlob
  <1>3. Rec(p)' = Rec(p)
    BY DEF Rec, Same
  <1>4. p \in overtaken' => Shared(p)
    BY DEF DirectoryInv
  <1>5. ASSUME pc'[p] \in {"spill", "put", "check", "restore"}, NEW i \in 1..Blobs(p)
        PROVE  \/ cas'[stream[p][i].hash] = "whole"
               \/ pc'[p] = "put" /\ Rec(p).hash = stream[p][i].hash
               \/ Shared(p)
    <2>1. pc[p] \in {"spill", "put", "check", "restore"} /\ (pc[p] = "put" => pc'[p] = "put")
      BY <1>5
    <2>2. \/ cas[stream[p][i].hash] = "whole"
          \/ pc[p] = "put" /\ Rec(p).hash = stream[p][i].hash
          \/ Shared(p)
      BY <2>1 DEF DirectoryInv
    <2> QED
      BY <2>1, <2>2
  <1> QED
    BY <1>1, <1>2, <1>3, <1>4, <1>5 DEF DirectoryInv

LEMMA PropsStay ==
  ASSUME stream' = stream, NEW p, Same(p), RestoresVerified(p),
         p \in failed => p \in failed',
         pc'[p] = pc[p] \/ pc'[p] \notin {"err", "restore", "ok"}
  PROVE  RestoresVerified(p)'
  <1>1. Shared(p)' <=> Shared(p)
    BY DEF Shared, SharesBlob
  <1>2. manifest'[p] = manifest[p]
    BY DEF Same
  <1> QED
    BY <1>1, <1>2 DEF RestoresVerified

\* A process that does nothing while the others keep to its files.
Idle(p) ==
  /\ Same(p) /\ pc'[p] = pc[p]
  /\ p \in failed => p \in failed'
  /\ p \in overtaken' => p \in overtaken \/ Shared(p)
  /\ \A i \in 1..Blobs(p) :
       LET h == stream[p][i].hash
       IN  cas'[h] = cas[h] \/ cas'[h] = "whole" \/ Shared(p)

LEMMA IdleProcess ==
  ASSUME stream' = stream, NEW p, ProcessInv(p), Idle(p)
  PROVE  ProcessInv(p)'
  BY ReadingStays, DirectoryStays, PropsStay DEF ProcessInv, Idle

LEMMA GotoEffect ==
  ASSUME TypeOK, NEW p \in Proc, NEW l, Goto(p, l)
  PROVE  pc'[p] = l /\ \A q \in Proc \ {p} : pc'[q] = pc[q]
  BY DEF TypeOK, Goto

-----------------------------------------------------------------------------
(* Types.                                                                  *)

LEMMA RecordTypes ==
  ASSUME TypeOK, NEW p \in Proc, ~AtEof(p), pos[p] <= Len(stream[p])
  PROVE  /\ Rec(p) \in Record /\ pos[p] + 1 \in DOMAIN stream[p]
         /\ Rec(p).kind = "blob" => Rec(p).hash \in Hash
  <1>1. stream[p] \in Seq(Record) /\ pos[p] \in Nat /\ Len(stream[p]) \in Nat
    BY DEF TypeOK
  <1>2. pos[p] + 1 \in DOMAIN stream[p]
    BY <1>1 DEF AtEof
  <1>3. Rec(p) \in Record
    BY <1>1, <1>2 DEF Rec
  <1> QED
    BY <1>2, <1>3 DEF Record

LEMMA TypesStay ==
  ASSUME SpillInvariant, Next
  PROVE  TypeOK'
  <1> PICK p \in Proc : Step(p) \/ Kill(p) \/ Rerun(p)
    BY DEF Next
  <1>1. TypeOK /\ ReadingInv(p) /\ pos[p] <= Len(stream[p])
    BY DEF SpillInvariant, ReadingInv
  <1> USE DEF Goto
  <1>2. CASE BeginPut(p)
    <2>1. Rec(p).hash \in Hash
      BY <1>1, <1>2, RecordTypes DEF BeginPut, Reads
    <2>2. Writers(Rec(p).hash) \subseteq Proc
      BY DEF Writers
    <2>3. overtaken' \subseteq Proc /\ interrupted' \subseteq Hash
      BY <1>1, <1>2, <2>2 DEF BeginPut, TypeOK
    <2>4. cas' \in [Hash -> {"absent", "partial", "whole"}] /\ pc' \in [Proc -> {"spill", "put", "check", "restore", "ok", "err", "killed"}]
      BY <1>1, <1>2, <2>1 DEF BeginPut, TypeOK
    <2>5. UNCHANGED <<stream, pos, manifest, hasher, restored, failed>>
      BY <1>2 DEF BeginPut
    <2> QED
      BY <1>1, <2>3, <2>4, <2>5 DEF TypeOK
  <1>3. CASE EndPut(p)
    <2>1. Rec(p).hash \in Hash
      BY <1>1, <1>3, RecordTypes DEF EndPut, ReadingInv
    <2>2. PICK s \in {"absent", "partial", "whole"} : cas' = [cas EXCEPT ![Rec(p).hash] = s]
      BY <1>1, <1>3, <2>1 DEF EndPut, Short, TypeOK
    <2>3. cas' \in [Hash -> {"absent", "partial", "whole"}]
      BY <1>1, <2>1, <2>2 DEF TypeOK
    <2>4. hasher' \in [Proc -> Seq(Hash)]
      <3>1. Append(hasher[p], Rec(p).hash) \in Seq(Hash)
        BY <1>1, <2>1 DEF TypeOK
      <3> QED
        BY <1>1, <1>3, <3>1 DEF EndPut, TypeOK
    <2>5. pos' \in [Proc -> Nat] /\ pc' \in [Proc -> {"spill", "put", "check", "restore", "ok", "err", "killed"}]
      BY <1>1, <1>3 DEF EndPut, TypeOK
    <2>6. UNCHANGED <<stream, manifest, restored, overtaken, interrupted, failed>>
      BY <1>3 DEF EndPut
    <2> QED
      BY <1>1, <2>3, <2>4, <2>5, <2>6 DEF TypeOK
  <1>4. CASE ReadManifest(p)
    <2>1. <<Rec(p)>> \in Seq(Record)
      BY <1>1, <1>4, RecordTypes DEF ReadManifest, Reads
    <2>2. manifest' \in [Proc -> Seq(Record)] /\ pos' \in [Proc -> Nat]
      BY <1>1, <1>4, <2>1 DEF ReadManifest, TypeOK
    <2> QED
      BY <1>1, <1>4, <2>2 DEF ReadManifest, TypeOK
  <1>5. CASE ReadEnd(p) \/ Refuse(p) \/ Check(p) \/ ReadBlobFails(p) \/ Restored(p)
    <2>1. UNCHANGED <<stream, pos, manifest, hasher, restored, cas, overtaken, interrupted, failed>>
      BY <1>5 DEF ReadEnd, Refuse, Check, ReadBlobFails, Restored
    <2>2. \E l \in {"check", "err", "restore", "ok"} : Goto(p, l)
      BY <1>5 DEF ReadEnd, Refuse, Check, ReadBlobFails, Restored
    <2>3. pc' \in [Proc -> {"spill", "put", "check", "restore", "ok", "err", "killed"}]
      BY <1>1, <2>2 DEF TypeOK
    <2> QED
      BY <1>1, <2>1, <2>3 DEF TypeOK
  <1>6. CASE ReadBlob(p)
    <2>1. restored' \in [Proc -> Nat]
      BY <1>1, <1>6 DEF ReadBlob, TypeOK
    <2> QED
      BY <1>1, <1>6, <2>1 DEF ReadBlob, TypeOK
  <1>7. CASE Rerun(p)
    <2>1. \A S : <<>> \in Seq(S)
      OBVIOUS
    <2>2. /\ manifest' \in [Proc -> Seq(Record)] /\ hasher' \in [Proc -> Seq(Hash)]
          /\ restored' \in [Proc -> Nat] /\ pos' \in [Proc -> Nat]
          /\ pc' \in [Proc -> {"spill", "put", "check", "restore", "ok", "err", "killed"}]
      BY <1>1, <1>7, <2>1 DEF Rerun, TypeOK
    <2>3. failed' \subseteq Proc
      BY <1>1, <1>7 DEF Rerun, TypeOK
    <2> QED
      BY <1>1, <1>7, <2>2, <2>3 DEF Rerun, TypeOK
  <1>8. CASE WriteFails(p) \/ (Kill(p) /\ pc[p] = "put")
    <2>1. Interrupt(p) /\ pc[p] = "put" /\ UNCHANGED <<stream, pos, manifest, hasher, restored, overtaken>>
      BY <1>8 DEF WriteFails, Kill
    <2>2. Rec(p).hash \in Hash
      BY <1>1, <2>1, RecordTypes DEF ReadingInv
    <2>3. cas' \in [Hash -> {"absent", "partial", "whole"}] /\ interrupted' \subseteq Hash
      BY <1>1, <2>1, <2>2 DEF Interrupt, Short, TypeOK
    <2>4. failed' \subseteq Proc /\ pc' \in [Proc -> {"spill", "put", "check", "restore", "ok", "err", "killed"}]
      BY <1>1, <1>8 DEF WriteFails, Kill, TypeOK
    <2> QED
      BY <1>1, <2>1, <2>3, <2>4 DEF TypeOK
  <1>9. CASE IoFails(p) \/ (Kill(p) /\ pc[p] # "put")
    <2>1. UNCHANGED <<stream, pos, manifest, hasher, restored, cas, overtaken, interrupted>>
      BY <1>9 DEF IoFails, Kill
    <2>2. failed' \subseteq Proc /\ pc' \in [Proc -> {"spill", "put", "check", "restore", "ok", "err", "killed"}]
      BY <1>1, <1>9 DEF IoFails, Kill, TypeOK
    <2> QED
      BY <1>1, <2>1, <2>2 DEF TypeOK
  <1> QED
    BY <1>2, <1>3, <1>4, <1>5, <1>6, <1>7, <1>8, <1>9 DEF Step

-----------------------------------------------------------------------------
(* One lemma per action.                                                   *)

\* A blob that two processes have is shared by each of them.
LEMMA BothShare ==
  ASSUME TypeOK, NEW p \in Proc, NEW q \in Proc, p # q,
         NEW i \in DOMAIN stream[p], NEW j \in DOMAIN stream[q],
         stream[p][i].kind = "blob", stream[q][j].kind = "blob",
         stream[p][i].hash = stream[q][j].hash
  PROVE  Shared(p) /\ Shared(q)
  BY DEF Shared, SharesBlob

LEMMA BlobsRead ==
  ASSUME TypeOK, NEW p \in Proc, ReadingInv(p)
  PROVE  /\ Blobs(p) \in Nat
         /\ \A i \in 1..Blobs(p) : i \in DOMAIN stream[p] /\ stream[p][i].kind = "blob"
  <1>1. pos[p] \in Nat /\ stream[p] \in Seq(Record)
    BY DEF TypeOK
  <1>2. /\ Blobs(p) \in Nat /\ Blobs(p) <= pos[p] /\ pos[p] <= Len(stream[p])
        /\ \A i \in 1..Blobs(p) : stream[p][i].kind = "blob"
    BY <1>1 DEF ReadingInv, Blobs
  <1> HIDE DEF Blobs
  <1>3. DOMAIN stream[p] = 1..Len(stream[p]) /\ Len(stream[p]) \in Nat
    BY <1>1
  <1> QED
    BY <1>1, <1>2, <1>3

LEMMA BeginPutStep ==
  ASSUME SpillInvariant, NEW p \in Proc, BeginPut(p), NEW q \in Proc
  PROVE  ProcessInv(q)'
  <1> DEFINE h == Rec(p).hash
  <1>1. TypeOK /\ ProcessInv(p) /\ ProcessInv(q)
    BY InvByProcess
  <1>2. /\ pc[p] = "spill" /\ ~AtEof(p) /\ Rec(p).kind = "blob" /\ Rec(p).good
        /\ manifest[p] = <<>>
        /\ UNCHANGED <<stream, pos, manifest, hasher, restored, failed>>
        /\ cas' = [cas EXCEPT ![h] = "partial"]
        /\ pc'[p] = "put" /\ \A r \in Proc \ {p} : pc'[r] = pc[r]
    BY <1>1, GotoEffect DEF BeginPut, Reads
  <1>3. pos[p] + 1 \in DOMAIN stream[p]
    BY <1>1, <1>2, RecordTypes DEF ProcessInv, ReadingInv
  <1>4. \A r \in Writers(h) : r \in Proc \ {p} /\ Shared(r) /\ Shared(p)
    <2> SUFFICES ASSUME NEW r \in Writers(h) PROVE r \in Proc \ {p} /\ Shared(r) /\ Shared(p)
      OBVIOUS
    <2>1. r \in Proc /\ r # p /\ pc[r] = "put" /\ Rec(r).hash = h
      BY <1>2 DEF Writers
    <2>2. ReadingInv(r)
      BY <2>1 DEF SpillInvariant
    <2>3. Rec(r).kind = "blob" /\ pos[r] + 1 \in DOMAIN stream[r]
      BY <1>1, <2>1, <2>2, RecordTypes DEF ReadingInv
    <2> QED
      BY <1>1, <1>2, <1>3, <2>1, <2>3, BothShare DEF Rec
  <1>5. q \in overtaken' => q \in overtaken \/ Shared(q)
    BY <1>4 DEF BeginPut
  <1>6. \A g : g # h => cas'[g] = cas[g]
    BY <1>1, <1>2 DEF TypeOK
  <1>7. CASE q # p
    <2>1. ASSUME NEW i \in 1..Blobs(q)
          PROVE  cas'[stream[q][i].hash] = cas[stream[q][i].hash] \/ Shared(q)
      <3>1. i \in DOMAIN stream[q] /\ stream[q][i].kind = "blob"
        BY <1>1, BlobsRead DEF ProcessInv
      <3>2. CASE stream[q][i].hash = h
        BY <1>1, <1>2, <1>3, <1>7, <3>1, <3>2, BothShare DEF Rec
      <3>3. CASE stream[q][i].hash # h
        BY <1>6, <3>3
      <3> QED
        BY <3>2, <3>3
    <2>2. Idle(q)
      BY <1>2, <1>5, <1>7, <2>1 DEF Idle, Same
    <2> QED
      BY <1>1, <1>2, <2>2, IdleProcess
  <1>8. CASE q = p
    <2>1. ReadingInv(p)'
      BY <1>1, <1>2 DEF ProcessInv, ReadingInv, Blobs, AtEof, Rec
    <2>2. DirectoryInv(p)'
      <3>1. Shared(p)' <=> Shared(p)
        BY <1>2 DEF Shared, SharesBlob
      <3>2. Blobs(p)' = Blobs(p) /\ Rec(p)' = Rec(p)
        BY <1>2 DEF Blobs, Rec
      <3>3. p \in overtaken' => Shared(p)
        BY <1>1, <1>5, <1>8 DEF ProcessInv, DirectoryInv
      <3>4. ASSUME NEW i \in 1..Blobs(p)
            PROVE  \/ cas'[stream[p][i].hash] = "whole" \/ h = stream[p][i].hash \/ Shared(p)
        <4>1. cas[stream[p][i].hash] = "whole" \/ Shared(p)
          BY <1>1, <1>2 DEF ProcessInv, DirectoryInv
        <4> QED
          BY <1>6, <4>1
      <3> QED
        BY <1>2, <3>1, <3>2, <3>3, <3>4 DEF DirectoryInv
    <2>3. RestoresVerified(p)'
      BY <1>1, <1>2, PropsStay DEF ProcessInv, Same
    <2> QED
      BY <1>8, <2>1, <2>2, <2>3 DEF ProcessInv
  <1> QED
    BY <1>7, <1>8

LEMMA EndPutStep ==
  ASSUME SpillInvariant, NEW p \in Proc, EndPut(p), NEW q \in Proc
  PROVE  ProcessInv(q)'
  <1> DEFINE h == Rec(p).hash
             n == pos[p]
  <1>1. TypeOK /\ ProcessInv(p) /\ ProcessInv(q)
    BY InvByProcess
  <1>2. PICK s : cas' = [cas EXCEPT ![h] = s] /\ (s = "whole" \/ p \in overtaken)
    BY DEF EndPut
  <1>3. /\ pc[p] = "put"
        /\ UNCHANGED <<stream, manifest, restored, overtaken, interrupted, failed>>
        /\ hasher' = [hasher EXCEPT ![p] = Append(@, h)]
        /\ pos' = [pos EXCEPT ![p] = @ + 1]
        /\ pc'[p] = "spill" /\ \A r \in Proc \ {p} : pc'[r] = pc[r]
    BY <1>1, GotoEffect DEF EndPut
  <1>4. ~AtEof(p) /\ manifest[p] = <<>> /\ Rec(p).kind = "blob" /\ Rec(p).good
    BY <1>1, <1>3 DEF ProcessInv, ReadingInv
  <1>5. n + 1 \in DOMAIN stream[p] /\ h \in Hash /\ Rec(p) = stream[p][n + 1] /\ n \in Nat
        /\ DOMAIN stream[p] = 1..Len(stream[p]) /\ Len(stream[p]) \in Nat
    <2>1. n <= Len(stream[p])
      BY <1>1 DEF ProcessInv, ReadingInv
    <2>2. n + 1 \in DOMAIN stream[p] /\ h \in Hash
      BY <1>1, <1>4, <2>1, RecordTypes
    <2>3. stream[p] \in Seq(Record) /\ n \in Nat
      BY <1>1 DEF TypeOK
    <2> QED
      BY <2>2, <2>3 DEF Rec
  <1>6. cas'[h] = s /\ \A g : g # h => cas'[g] = cas[g]
    BY <1>1, <1>2, <1>5 DEF TypeOK
  <1>7. s = "whole" \/ Shared(p)
    BY <1>1, <1>2 DEF ProcessInv, DirectoryInv
  <1> HIDE DEF h
  <1>8. CASE q # p
    <2>1. ASSUME NEW i \in 1..Blobs(q)
          PROVE  \/ cas'[stream[q][i].hash] = cas[stream[q][i].hash] \/ Shared(q)
      <3>1. i \in DOMAIN stream[q] /\ stream[q][i].kind = "blob"
        BY <1>1, BlobsRead DEF ProcessInv
      <3>2. CASE stream[q][i].hash = h
        BY <1>1, <1>4, <1>5, <1>8, <3>1, <3>2, BothShare DEF h
      <3>3. CASE stream[q][i].hash # h
        BY <1>6, <3>3
      <3> QED
        BY <3>2, <3>3
    <2>2. Idle(q)
      BY <1>1, <1>3, <1>8, <2>1 DEF Idle, Same, TypeOK
    <2> QED
      BY <1>1, <1>3, <2>2, IdleProcess
  <1>9. CASE q = p
    <2>1. /\ pos'[p] = n + 1 /\ hasher'[p] = Append(hasher[p], h)
          /\ manifest'[p] = <<>> /\ stream'[p] = stream[p]
      BY <1>1, <1>3, <1>4 DEF TypeOK
    <2>2. /\ Blobs(p) = n /\ Blobs(p)' = n + 1
          /\ Len(hasher[p]) = n /\ hasher[p] \in Seq(Hash)
          /\ \A i \in 1..n :
               stream[p][i].kind = "blob" /\ stream[p][i].good /\ hasher[p][i] = stream[p][i].hash
      BY <1>1, <1>4, <2>1 DEF Blobs, ProcessInv, ReadingInv, TypeOK
    <2>3. /\ Len(hasher'[p]) = n + 1 /\ hasher'[p][n + 1] = h
          /\ \A i \in 1..n : hasher'[p][i] = hasher[p][i]
      BY <1>5, <2>1, <2>2
    <2>4. stream[p][n + 1].hash = h /\ stream[p][n + 1].kind = "blob" /\ stream[p][n + 1].good
      BY <1>4, <1>5 DEF h
    <2> HIDE DEF n
    <2>5. \A i \in 1..(n + 1) :
            stream[p][i].kind = "blob" /\ stream[p][i].good /\ hasher'[p][i] = stream[p][i].hash
      <3> SUFFICES ASSUME NEW i \in 1..(n + 1)
                   PROVE  /\ stream[p][i].kind = "blob" /\ stream[p][i].good
                          /\ hasher'[p][i] = stream[p][i].hash
        OBVIOUS
      <3>1. CASE i = n + 1
        BY <2>3, <2>4, <3>1
      <3>2. CASE i # n + 1
        <4>1. i \in 1..n
          BY <1>5, <3>2
        <4> QED
          BY <2>2, <2>3, <4>1
      <3> QED
        BY <3>1, <3>2
    <2>6. ReadingInv(p)'
      BY <1>3, <1>5, <2>1, <2>2, <2>3, <2>5 DEF ReadingInv
    <2>7. DirectoryInv(p)'
      <3>1. Shared(p)' <=> Shared(p)
        BY <1>3 DEF Shared, SharesBlob
      <3>2. p \in overtaken' => Shared(p)
        BY <1>1, <1>3 DEF ProcessInv, DirectoryInv
      <3>3. ASSUME NEW i \in 1..(n + 1)
            PROVE  cas'[stream[p][i].hash] = "whole" \/ Shared(p)
        <4>1. CASE stream[p][i].hash = h
          BY <1>6, <1>7, <4>1
        <4>2. CASE stream[p][i].hash # h
          <5>1. i \in 1..n
            BY <1>5, <2>4, <4>2
          <5>2. cas[stream[p][i].hash] = "whole" \/ Shared(p)
            BY <1>1, <1>3, <2>2, <4>2, <5>1 DEF ProcessInv, DirectoryInv, h
          <5> QED
            BY <1>6, <4>2, <5>2
        <4> QED
          BY <4>1, <4>2
      <3> QED
        BY <1>3, <2>2, <3>1, <3>2, <3>3 DEF DirectoryInv
    <2>8. RestoresVerified(p)'
      <3>1. Shared(p)' <=> Shared(p)
        BY <1>3 DEF Shared, SharesBlob
      <3> QED
        BY <1>1, <1>3, <3>1 DEF ProcessInv, RestoresVerified
    <2> QED
      BY <1>9, <2>6, <2>7, <2>8 DEF ProcessInv
  <1> QED
    BY <1>8, <1>9

LEMMA ReadManifestStep ==
  ASSUME SpillInvariant, NEW p \in Proc, ReadManifest(p), NEW q \in Proc
  PROVE  ProcessInv(q)'
  <1> DEFINE n == pos[p]
  <1>1. TypeOK /\ ProcessInv(p) /\ ProcessInv(q)
    BY InvByProcess
  <1>2. /\ pc[p] = "spill" /\ ~AtEof(p) /\ Rec(p).kind = "manifest" /\ manifest[p] = <<>>
        /\ UNCHANGED <<stream, hasher, pc, restored, cas, overtaken, interrupted, failed>>
        /\ manifest' = [manifest EXCEPT ![p] = <<Rec(p)>>]
        /\ pos' = [pos EXCEPT ![p] = @ + 1]
    BY DEF ReadManifest, Reads
  <1>3. CASE q # p
    <2>1. Idle(q)
      BY <1>1, <1>2, <1>3 DEF Idle, Same, TypeOK
    <2> QED
      BY <1>1, <1>2, <2>1, IdleProcess
  <1>4. CASE q = p
    <2>1. /\ n + 1 \in DOMAIN stream[p] /\ n \in Nat /\ Rec(p) = stream[p][n + 1]
          /\ n + 1 <= Len(stream[p])
      <3>1. pos[p] <= Len(stream[p]) /\ ~AtEof(p)
        BY <1>1, <1>2 DEF ProcessInv, ReadingInv
      <3>2. pos[p] + 1 \in DOMAIN stream[p]
        BY <1>1, <3>1, RecordTypes
      <3>3. stream[p] \in Seq(Record) /\ pos[p] \in Nat
        BY <1>1 DEF TypeOK
      <3>4. Rec(p) = stream[p][n + 1]
        BY DEF Rec
      <3> QED
        BY <3>2, <3>3, <3>4
    <2>2. pos'[p] = n + 1 /\ manifest'[p] = <<stream[p][n + 1]>>
      BY <1>1, <1>2, <2>1 DEF TypeOK
    <2>3. Blobs(p) = n /\ Blobs(p)' = n
      <3>1. manifest'[p] # <<>> /\ (n + 1) - 1 = n
        BY <2>1, <2>2
      <3>2. Blobs(p)' = pos'[p] - 1
        BY <3>1 DEF Blobs
      <3> QED
        BY <1>2, <2>2, <3>1, <3>2 DEF Blobs
    <2>4. ReadingInv(p)'
      BY <1>1, <1>2, <2>1, <2>2, <2>3 DEF ProcessInv, ReadingInv
    <2>5. DirectoryInv(p)'
      <3>1. Shared(p)' <=> Shared(p)
        BY <1>2 DEF Shared, SharesBlob
      <3> QED
        BY <1>1, <1>2, <2>3, <3>1 DEF ProcessInv, DirectoryInv
    <2>6. RestoresVerified(p)'
      <3>1. Shared(p)' <=> Shared(p)
        BY <1>2 DEF Shared, SharesBlob
      <3> QED
        BY <1>1, <1>2, <3>1 DEF ProcessInv, RestoresVerified
    <2> QED
      BY <1>4, <2>4, <2>5, <2>6 DEF ProcessInv
  <1> QED
    BY <1>3, <1>4

\* The steps that only go on: those of the other processes and, for the one
\* itself, all but what is said of where it goes.
LEMMA MovesOnly ==
  ASSUME SpillInvariant, NEW p \in Proc, NEW l, Goto(p, l), NEW q \in Proc \ {p},
         UNCHANGED <<stream, pos, manifest, hasher, overtaken>>, q \in failed => q \in failed',
         \A h : cas'[h] = cas[h] \/ cas'[h] = "whole"
  PROVE  ProcessInv(q)'
  <1>1. TypeOK /\ ProcessInv(q)
    BY InvByProcess
  <1>2. Idle(q)
    BY <1>1, GotoEffect DEF Idle, Same
  <1> QED
    BY <1>1, <1>2, IdleProcess

LEMMA ReadEndStep ==
  ASSUME SpillInvariant, NEW p \in Proc, ReadEnd(p), NEW q \in Proc
  PROVE  ProcessInv(q)'
  <1>1. TypeOK /\ ProcessInv(p) /\ ProcessInv(q)
    BY InvByProcess
  <1>2. /\ pc[p] = "spill" /\ ~AtEof(p) /\ Rec(p).kind = "end" /\ manifest[p] # <<>>
        /\ UNCHANGED <<stream, pos, manifest, hasher, restored, cas, overtaken, interrupted, failed>>
        /\ Goto(p, "check")
    BY DEF ReadEnd, Reads
  <1>3. CASE q # p
    BY <1>2, <1>3, MovesOnly
  <1>4. CASE q = p
    <2>1. pc'[p] = "check" /\ Same(p)
      BY <1>1, <1>2, GotoEffect DEF Same
    <2>2. ReadingInv(p)'
      BY <1>1, <1>2, <2>1 DEF ProcessInv, ReadingInv, Blobs, AtEof, Rec
    <2>3. DirectoryInv(p)'
      BY <1>1, <1>2, <2>1, DirectoryStays DEF ProcessInv
    <2>4. RestoresVerified(p)'
      BY <1>1, <1>2, <2>1, PropsStay DEF ProcessInv
    <2> QED
      BY <1>4, <2>2, <2>3, <2>4 DEF ProcessInv
  <1> QED
    BY <1>3, <1>4

\* Only what neither reader accepts is refused.
LEMMA RefuseStep ==
  ASSUME SpillInvariant, NEW p \in Proc, Refuse(p), NEW q \in Proc
  PROVE  ProcessInv(q)'
  <1>1. TypeOK /\ ProcessInv(p) /\ ProcessInv(q)
    BY InvByProcess
  <1>2. /\ UNCHANGED <<stream, pos, manifest, hasher, restored, cas, overtaken, interrupted, failed>>
        /\ Goto(p, "err")
    BY DEF Refuse
  <1>3. CASE q # p
    BY <1>2, <1>3, MovesOnly
  <1>4. CASE q = p
    <2>1. pc'[p] = "err" /\ Same(p)
      BY <1>1, <1>2, GotoEffect DEF Same
    <2>2. ReadingInv(p)'
      BY <1>1, <1>2, <2>1, ReadingStays DEF ProcessInv
    <2>3. DirectoryInv(p)'
      BY <1>1, <1>2, <2>1, DirectoryStays DEF ProcessInv
    <2>4. ~StreamAccepted(stream[p])
      BY <1>1, AcceptedIsNotRefused DEF ProcessInv
    <2>5. RestoresVerified(p)'
      BY <1>1, <1>2, <2>1, <2>4 DEF ProcessInv, RestoresVerified
    <2> QED
      BY <1>4, <2>2, <2>3, <2>5 DEF ProcessInv
  <1> QED
    BY <1>3, <1>4

LEMMA CheckStep ==
  ASSUME SpillInvariant, NEW p \in Proc, Check(p), NEW q \in Proc
  PROVE  ProcessInv(q)'
  <1>1. TypeOK /\ ProcessInv(p) /\ ProcessInv(q)
    BY InvByProcess
  <1>2. /\ pc[p] = "check"
        /\ UNCHANGED <<stream, pos, manifest, hasher, restored, cas, overtaken, interrupted, failed>>
        /\ Goto(p, IF DigestsAgree(p) THEN "restore" ELSE "err")
    BY DEF Check
  <1>3. CASE q # p
    BY <1>2, <1>3, MovesOnly
  <1>4. CASE q = p
    <2>1. Same(p) /\ pc'[p] = IF DigestsAgree(p) THEN "restore" ELSE "err"
      BY <1>1, <1>2, GotoEffect DEF Same
    <2>2. DigestsAgree(p) <=> StreamAccepted(stream[p])
      BY <1>1, <1>2, DigestsDecide DEF ProcessInv
    <2>3. ReadingInv(p)'
      BY <1>1, <1>2, <2>1 DEF ProcessInv, ReadingInv, Blobs, AtEof, Rec, DigestsAgree
    <2>4. DirectoryInv(p)'
      BY <1>1, <1>2, <2>1, DirectoryStays DEF ProcessInv
    <2>5. RestoresVerified(p)'
      <3>1. pc'[p] \in {"restore", "err"} /\ (pc'[p] = "restore" <=> StreamAccepted(stream[p]))
        BY <2>1, <2>2
      <3>2. StreamAccepted(stream[p]) => (VerifyAccepts(stream[p]) <=> manifest[p][1].right)
        BY <1>1, <1>2, RowsDecide DEF ProcessInv, ReadingInv
      <3> QED
        BY <1>2, <3>1, <3>2 DEF RestoresVerified
    <2> QED
      BY <1>4, <2>3, <2>4, <2>5 DEF ProcessInv
  <1> QED
    BY <1>3, <1>4

LEMMA ReadBlobStep ==
  ASSUME SpillInvariant, NEW p \in Proc, ReadBlob(p), NEW q \in Proc
  PROVE  ProcessInv(q)'
  <1>1. TypeOK /\ ProcessInv(p) /\ ProcessInv(q)
    BY InvByProcess
  <1>2. /\ UNCHANGED <<stream, pos, manifest, hasher, pc, cas, overtaken, interrupted, failed>>
        /\ Same(q)
    BY DEF ReadBlob, Same
  <1>3. Idle(q)
    BY <1>2 DEF Idle
  <1> QED
    BY <1>1, <1>2, <1>3, IdleProcess

\* The blobs of the catalog are the ones the process has put: one that is not
\* whole has been cut by somebody else.
LEMMA ReadBlobFailsStep ==
  ASSUME SpillInvariant, NEW p \in Proc, ReadBlobFails(p), NEW q \in Proc
  PROVE  ProcessInv(q)'
  <1>1. TypeOK /\ ProcessInv(p) /\ ProcessInv(q)
    BY InvByProcess
  <1>2. /\ UNCHANGED <<stream, pos, manifest, hasher, restored, cas, overtaken, interrupted, failed>>
        /\ Goto(p, "err")
        /\ pc[p] = "restore" /\ restored[p] < Len(Catalog(p)) /\ cas[NextBlob(p)] # "whole"
    BY DEF ReadBlobFails, Restoring
  <1>3. CASE q # p
    BY <1>2, <1>3, MovesOnly
  <1>4. CASE q = p
    <2>1. pc'[p] = "err" /\ Same(p)
      BY <1>1, <1>2, GotoEffect DEF Same
    <2>2. ReadingInv(p)'
      BY <1>1, <1>2, <2>1, ReadingStays DEF ProcessInv
    <2>3. DirectoryInv(p)'
      BY <1>1, <1>2, <2>1, DirectoryStays DEF ProcessInv
    <2>4. Shared(p)
      <3> DEFINE k == restored[p] + 1
      <3>1. hasher[p] = Catalog(p) /\ Len(hasher[p]) = Blobs(p)
        BY <1>1, <1>2 DEF ProcessInv, ReadingInv, DigestsAgree, Catalog
      <3>2. k \in 1..Blobs(p)
        <4>1. restored[p] \in Nat /\ Blobs(p) \in Nat
          BY <1>1, BlobsRead DEF TypeOK, ProcessInv
        <4> QED
          BY <1>2, <3>1, <4>1
      <3>3. NextBlob(p) = stream[p][k].hash
        BY <1>1, <3>1, <3>2 DEF NextBlob, ProcessInv, ReadingInv
      <3> HIDE DEF k
      <3> QED
        BY <1>1, <1>2, <3>2, <3>3 DEF ProcessInv, DirectoryInv
    <2>5. RestoresVerified(p)'
      <3>1. Shared(p)'
        BY <1>2, <2>4 DEF Shared, SharesBlob
      <3> QED
        BY <1>1, <1>2, <2>1, <3>1 DEF ProcessInv, RestoresVerified
    <2> QED
      BY <1>4, <2>2, <2>3, <2>5 DEF ProcessInv
  <1> QED
    BY <1>3, <1>4

LEMMA RestoredStep ==
  ASSUME SpillInvariant, NEW p \in Proc, Restored(p), NEW q \in Proc
  PROVE  ProcessInv(q)'
  <1>1. TypeOK /\ ProcessInv(p) /\ ProcessInv(q)
    BY InvByProcess
  <1>2. /\ UNCHANGED <<stream, pos, manifest, hasher, restored, cas, overtaken, interrupted, failed>>
        /\ Goto(p, "ok")
        /\ pc[p] = "restore"
    BY DEF Restored
  <1>3. CASE q # p
    BY <1>2, <1>3, MovesOnly
  <1>4. CASE q = p
    <2>1. pc'[p] = "ok" /\ Same(p)
      BY <1>1, <1>2, GotoEffect DEF Same
    <2>2. ReadingInv(p)'
      BY <1>1, <1>2, <2>1 DEF ProcessInv, ReadingInv, Blobs, AtEof, Rec, DigestsAgree
    <2>3. DirectoryInv(p)'
      BY <1>1, <1>2, <2>1, DirectoryStays DEF ProcessInv
    <2>4. RestoresVerified(p)'
      BY <1>1, <1>2, <2>1 DEF ProcessInv, RestoresVerified
    <2> QED
      BY <1>4, <2>2, <2>3, <2>4 DEF ProcessInv
  <1> QED
    BY <1>3, <1>4

\* What a put that stops short leaves is what the file has, or all of it.
LEMMA InterruptedFile ==
  ASSUME SpillInvariant, NEW p \in Proc, pc[p] = "put", Interrupt(p)
  PROVE  /\ \A g : cas'[g] = cas[g] \/ cas'[g] = "whole"
         /\ \A g : g # Rec(p).hash => cas'[g] = cas[g]
  <1>1. PICK s \in Short(p) : cas' = [cas EXCEPT ![Rec(p).hash] = s]
    BY DEF Interrupt
  <1>2. s = cas[Rec(p).hash] \/ s = "whole"
    BY DEF Short
  <1>3. cas \in [Hash -> {"absent", "partial", "whole"}]
    BY DEF SpillInvariant, TypeOK
  <1>4. Rec(p).hash \in Hash
    BY RecordTypes DEF SpillInvariant, ReadingInv
  <1>5. \A g : g # Rec(p).hash => cas'[g] = cas[g]
    BY <1>1, <1>3
  <1>6. cas'[Rec(p).hash] = s
    BY <1>1, <1>3, <1>4
  <1> QED
    BY <1>2, <1>5, <1>6

\* A process that stops, by an I/O error or killed, and leaves a file as above.
LEMMA StopsShort ==
  ASSUME SpillInvariant, NEW p \in Proc, NEW q \in Proc, NEW l \in {"err", "killed"}, Goto(p, l),
         UNCHANGED <<stream, pos, manifest, hasher, overtaken>>,
         failed \subseteq failed', l = "err" => p \in failed',
         \A h : cas'[h] = cas[h] \/ cas'[h] = "whole"
  PROVE  ProcessInv(q)'
  <1>1. TypeOK /\ ProcessInv(p) /\ ProcessInv(q)
    BY InvByProcess
  <1>2. CASE q # p
    BY <1>2, MovesOnly
  <1>3. CASE q = p
    <2>1. pc'[p] = l /\ Same(p)
      BY <1>1, GotoEffect DEF Same
    <2>2. ReadingInv(p)'
      BY <1>1, <2>1, ReadingStays DEF ProcessInv
    <2>3. DirectoryInv(p)'
      BY <1>1, <2>1, DirectoryStays DEF ProcessInv
    <2>4. RestoresVerified(p)'
      BY <2>1 DEF RestoresVerified
    <2> QED
      BY <1>3, <2>2, <2>3, <2>4 DEF ProcessInv
  <1> QED
    BY <1>2, <1>3

LEMMA IoFailsStep ==
  ASSUME SpillInvariant, NEW p \in Proc, IoFails(p), NEW q \in Proc
  PROVE  ProcessInv(q)'
  <1>1. /\ UNCHANGED <<stream, pos, manifest, hasher, cas, overtaken>>
        /\ Goto(p, "err") /\ failed' = failed \cup {p}
    BY DEF IoFails
  <1> QED
    BY <1>1, StopsShort

LEMMA WriteFailsStep ==
  ASSUME SpillInvariant, NEW p \in Proc, WriteFails(p), NEW q \in Proc
  PROVE  ProcessInv(q)'
  <1>1. /\ UNCHANGED <<stream, pos, manifest, hasher, overtaken>>
        /\ Goto(p, "err") /\ failed' = failed \cup {p} /\ pc[p] = "put" /\ Interrupt(p)
    BY DEF WriteFails
  <1>2. \A h : cas'[h] = cas[h] \/ cas'[h] = "whole"
    BY <1>1, InterruptedFile
  <1> QED
    BY <1>1, <1>2, StopsShort

LEMMA KillStep ==
  ASSUME SpillInvariant, NEW p \in Proc, Kill(p), NEW q \in Proc
  PROVE  ProcessInv(q)'
  <1>1. /\ UNCHANGED <<stream, pos, manifest, hasher, overtaken, failed>>
        /\ Goto(p, "killed") /\ (cas' = cas \/ (pc[p] = "put" /\ Interrupt(p)))
    BY DEF Kill
  <1>2. \A h : cas'[h] = cas[h] \/ cas'[h] = "whole"
    BY <1>1, InterruptedFile
  <1> QED
    BY <1>1, <1>2, StopsShort

\* What a process reads from the start it has not put yet.
LEMMA FreshProcess ==
  ASSUME NEW p, stream[p] \in Seq(Record), p \in overtaken => Shared(p),
         pos[p] = 0, manifest[p] = <<>>, hasher[p] = <<>>, pc[p] = "spill"
  PROVE  ProcessInv(p)
  <1>1. Blobs(p) = 0 /\ 1..0 = {}
    BY DEF Blobs
  <1>2. Len(stream[p]) \in Nat
    OBVIOUS
  <1>3. ReadingInv(p)
    BY <1>1, <1>2 DEF ReadingInv
  <1>4. DirectoryInv(p)
    BY <1>1 DEF DirectoryInv
  <1>5. RestoresVerified(p)
    BY DEF RestoresVerified
  <1> QED
    BY <1>3, <1>4, <1>5 DEF ProcessInv

LEMMA RerunStep ==
  ASSUME SpillInvariant, NEW p \in Proc, Rerun(p), TypeOK', NEW q \in Proc
  PROVE  ProcessInv(q)'
  <1>1. TypeOK /\ ProcessInv(p) /\ ProcessInv(q)
    BY InvByProcess
  <1>2. /\ pos' = [pos EXCEPT ![p] = 0] /\ manifest' = [manifest EXCEPT ![p] = <<>>]
        /\ hasher' = [hasher EXCEPT ![p] = <<>>] /\ failed' = failed \ {p}
        /\ UNCHANGED <<stream, cas, overtaken>>
        /\ pc'[p] = "spill" /\ \A r \in Proc \ {p} : pc'[r] = pc[r]
    BY <1>1, GotoEffect DEF Rerun
  <1>3. CASE q # p
    <2>1. Idle(q)
      BY <1>1, <1>2, <1>3 DEF Idle, Same, TypeOK
    <2> QED
      BY <1>1, <1>2, <2>1, IdleProcess
  <1>4. CASE q = p
    <2>1. (p \in overtaken => Shared(p))'
      <3>1. Shared(p)' <=> Shared(p)
        BY <1>2 DEF Shared, SharesBlob
      <3> QED
        BY <1>1, <1>2, <3>1 DEF ProcessInv, DirectoryInv
    <2>2. /\ pos'[p] = 0 /\ manifest'[p] = <<>> /\ hasher'[p] = <<>>
          /\ stream'[p] \in Seq(Record)
      BY <1>1, <1>2 DEF TypeOK
    <2>3. ReadingInv(p)'
      <3>1. Blobs(p)' = 0 /\ 1..0 = {} /\ Len(stream'[p]) \in Nat
        BY <2>2 DEF Blobs
      <3> QED
        BY <1>2, <2>2, <3>1 DEF ReadingInv
    <2>4. DirectoryInv(p)'
      <3>1. Blobs(p)' = 0 /\ 1..0 = {}
        BY <2>2 DEF Blobs
      <3> QED
        BY <2>1, <3>1 DEF DirectoryInv
    <2>5. RestoresVerified(p)'
      BY <1>2, <2>2 DEF RestoresVerified
    <2> QED
      BY <1>4, <2>3, <2>4, <2>5 DEF ProcessInv
  <1> QED
    BY <1>3, <1>4

-----------------------------------------------------------------------------
(* Puts of one blob that overlap.                                          *)

\* Who writes a file changes by the process that takes the step alone.
LEMMA WritersChange ==
  ASSUME TypeOK, NEW p \in Proc, stream' = stream,
         \A q \in Proc \ {p} : pc'[q] = pc[q] /\ pos'[q] = pos[q], NEW h
  PROVE  Writers(h)' \ {p} = Writers(h) \ {p}
  BY DEF Writers, Rec

\* A step that is not part of a put.
LEMMA OthersConverge ==
  ASSUME SpillInvariant, NEW p \in Proc, pc[p] # "put", stream' = stream,
         \A q \in Proc \ {p} : pc'[q] = pc[q] /\ pos'[q] = pos[q],
         UNCHANGED <<cas, overtaken, interrupted>>
  PROVE  PutsConverge'
  <1>1. \A h : Writers(h)' \ {p} = Writers(h) \ {p}
    BY WritersChange DEF SpillInvariant
  <1>2. \A h : p \notin Writers(h)
    BY DEF Writers
  <1> QED
    BY <1>1, <1>2 DEF SpillInvariant, PutsConverge

\* A put that ends, or stops short and says so, when it was not the last to
\* truncate the file: the last one still answers for it.
LEMMA PutEndsConverging ==
  ASSUME SpillInvariant, NEW p \in Proc, pc[p] = "put", stream' = stream,
         \A q \in Proc \ {p} : pc'[q] = pc[q] /\ pos'[q] = pos[q],
         \A g : g # Rec(p).hash => cas'[g] = cas[g],
         overtaken' = overtaken, interrupted \subseteq interrupted',
         LET h == Rec(p).hash
         IN  cas'[h] = "whole" \/ h \in interrupted' \/ (cas'[h] = cas[h] /\ p \in overtaken)
  PROVE  PutsConverge'
  <1> DEFINE h == Rec(p).hash
  <1>1. \A g : Writers(g)' \ {p} = Writers(g) \ {p}
    BY WritersChange DEF SpillInvariant
  <1>2. \A g : g # h => p \notin Writers(g)
    BY DEF Writers
  <1> HIDE DEF h
  <1>3. ASSUME NEW g \in Hash, cas'[g] = "partial", g \notin interrupted'
        PROVE  \E q \in Writers(g)' : q \notin overtaken'
    <2>1. cas[g] = "partial" /\ g \notin interrupted /\ (g = h => p \in overtaken)
      BY <1>3 DEF h
    <2>2. PICK q \in Writers(g) : q \notin overtaken
      BY <2>1 DEF SpillInvariant, PutsConverge
    <2>3. q # p
      BY <1>2, <2>1, <2>2
    <2> QED
      BY <1>1, <2>2, <2>3
  <1> QED
    BY <1>3 DEF PutsConverge

LEMMA PutsKeepConverging ==
  ASSUME SpillInvariant, Next
  PROVE  PutsConverge'
  <1>1. TypeOK
    BY DEF SpillInvariant
  <1>2. PICK p \in Proc : Step(p) \/ Kill(p) \/ Rerun(p)
    BY DEF Next
  <1>3. CASE BeginPut(p)
    <2>0. PICK h : h = Rec(p).hash
      OBVIOUS
    <2>1. /\ cas' = [cas EXCEPT ![h] = "partial"] /\ interrupted' = interrupted \ {h}
          /\ overtaken' = (overtaken \cup Writers(h)) \ {p}
          /\ pc[p] = "spill" /\ pc'[p] = "put" /\ \A q \in Proc \ {p} : pc'[q] = pc[q]
          /\ stream' = stream /\ pos' = pos
      BY <1>1, <1>3, <2>0, GotoEffect DEF BeginPut, Reads
    <2>2. p \in Writers(h)' /\ p \notin overtaken'
      BY <2>0, <2>1 DEF Writers, Rec
    <2>3. \A g : Writers(g)' \ {p} = Writers(g) \ {p}
      BY <1>1, <2>1, WritersChange
    <2>4. \A g : g # h => cas'[g] = cas[g]
      BY <1>1, <2>1 DEF TypeOK
    <2>5. \A g, q : q \in Writers(g) /\ g # h => q \notin Writers(h)
      BY DEF Writers
    <2>6. ASSUME NEW g \in Hash, cas'[g] = "partial", g \notin interrupted', g # h
          PROVE  \E q \in Writers(g)' : q \notin overtaken'
      <3>1. PICK q \in Writers(g) : q \notin overtaken
        BY <2>1, <2>4, <2>6 DEF SpillInvariant, PutsConverge
      <3>2. q # p
        BY <2>1, <3>1 DEF Writers
      <3> QED
        BY <2>1, <2>3, <2>5, <2>6, <3>1, <3>2
    <2>7. \A g \in Hash : cas'[g] = "partial" =>
            g \in interrupted' \/ \E q \in Writers(g)' : q \notin overtaken'
      <3> SUFFICES ASSUME NEW g \in Hash, cas'[g] = "partial", g \notin interrupted'
                   PROVE  \E q \in Writers(g)' : q \notin overtaken'
        OBVIOUS
      <3>1. CASE g = h
        BY <2>2, <3>1
      <3>2. CASE g # h
        BY <2>6, <3>2
      <3> QED
        BY <3>1, <3>2
    <2> QED
      BY <2>7 DEF PutsConverge
  <1>4. CASE EndPut(p)
    <2>1. /\ pc[p] = "put" /\ \A q \in Proc \ {p} : pc'[q] = pc[q] /\ pos'[q] = pos[q]
          /\ UNCHANGED <<stream, overtaken, interrupted>>
      BY <1>1, <1>4, GotoEffect DEF EndPut, TypeOK
    <2>2. PICK s : /\ cas' = [cas EXCEPT ![Rec(p).hash] = s]
                   /\ s = "whole" \/ (s = cas[Rec(p).hash] /\ p \in overtaken)
      BY <1>4 DEF EndPut, Short
    <2>3. Rec(p).hash \in Hash
      BY <2>1, RecordTypes DEF SpillInvariant, ReadingInv
    <2>4. cas'[Rec(p).hash] = s /\ \A g : g # Rec(p).hash => cas'[g] = cas[g]
      BY <1>1, <2>2, <2>3 DEF TypeOK
    <2> QED
      BY <2>1, <2>2, <2>4, PutEndsConverging
  <1>5. CASE WriteFails(p) \/ (Kill(p) /\ pc[p] = "put")
    <2>1. Interrupt(p) /\ pc[p] = "put" /\ UNCHANGED <<stream, pos, overtaken>>
      BY <1>5 DEF WriteFails, Kill
    <2>2. \A q \in Proc \ {p} : pc'[q] = pc[q]
      BY <1>1, <1>5, GotoEffect DEF WriteFails, Kill
    <2>3. /\ \A g : cas'[g] = cas[g] \/ cas'[g] = "whole"
          /\ \A g : g # Rec(p).hash => cas'[g] = cas[g]
      BY <2>1, InterruptedFile
    <2>4. /\ interrupted \subseteq interrupted'
          /\ Rec(p).hash \in interrupted' \/ p \in overtaken
      BY <2>1 DEF Interrupt
    <2> QED
      BY <2>1, <2>2, <2>3, <2>4, PutEndsConverging
  <1>6. CASE Rerun(p)
    <2>1. /\ \A q \in Proc \ {p} : pc'[q] = pc[q] /\ pos'[q] = pos[q]
          /\ pc[p] # "put" /\ UNCHANGED <<stream, cas, overtaken, interrupted>>
      BY <1>1, <1>6, GotoEffect DEF Rerun, TypeOK
    <2> QED
      BY <2>1, OthersConverge
  <1>7. CASE ReadManifest(p) \/ ReadBlob(p)
    <2>1. /\ \A q \in Proc \ {p} : pc'[q] = pc[q] /\ pos'[q] = pos[q]
          /\ pc[p] # "put" /\ UNCHANGED <<stream, cas, overtaken, interrupted>>
      BY <1>1, <1>7 DEF ReadManifest, ReadBlob, Reads, Restoring, TypeOK
    <2> QED
      BY <2>1, OthersConverge
  <1>8. CASE \/ ReadEnd(p) \/ Refuse(p) \/ Check(p) \/ ReadBlobFails(p) \/ Restored(p)
             \/ IoFails(p) \/ (Kill(p) /\ pc[p] # "put")
    <2>1. pc[p] # "put" /\ UNCHANGED <<stream, pos, cas, overtaken, interrupted>>
      BY <1>8 DEF ReadEnd, Refuse, Check, ReadBlobFails, Restored, IoFails, Kill, Reads, Restoring
    <2>2. \E l : Goto(p, l)
      BY <1>8 DEF ReadEnd, Refuse, Check, ReadBlobFails, Restored, IoFails, Kill
    <2>3. \A q \in Proc \ {p} : pc'[q] = pc[q]
      BY <1>1, <2>2, GotoEffect
    <2> QED
      BY <2>1, <2>3, OthersConverge
  <1> QED
    BY <1>2, <1>3, <1>4, <1>5, <1>6, <1>7, <1>8 DEF Step

-----------------------------------------------------------------------------
(* The theorems.                                                           *)

LEMMA InitHolds ==
  Init => SpillInvariant
  <1> SUFFICES ASSUME Init PROVE SpillInvariant
    OBVIOUS
  <1>1. stream \in [Proc -> Seq(Record)]
    BY SpillAssumption DEF Init
  <1>2. TypeOK
    <2>1. \A S : <<>> \in Seq(S)
      OBVIOUS
    <2> QED
      BY <1>1, <2>1 DEF Init, TypeOK
  <1>3. \A p \in Proc : ProcessInv(p)
    BY <1>1, FreshProcess DEF Init
  <1>4. PutsConverge
    BY DEF Init, PutsConverge
  <1> QED
    BY <1>2, <1>3, <1>4, InvByProcess

LEMMA StepHolds ==
  SpillInvariant /\ [Next]_vars => SpillInvariant'
  <1> SUFFICES ASSUME SpillInvariant, [Next]_vars PROVE SpillInvariant'
    OBVIOUS
  <1>1. CASE Next
    <2>1. TypeOK'
      BY <1>1, TypesStay
    <2>2. PICK p \in Proc : Step(p) \/ Kill(p) \/ Rerun(p)
      BY <1>1 DEF Next
    <2>3. \A q \in Proc : ProcessInv(q)'
      BY <2>1, <2>2, BeginPutStep, EndPutStep, WriteFailsStep, IoFailsStep, ReadManifestStep,
         ReadEndStep, RefuseStep, CheckStep, ReadBlobStep, ReadBlobFailsStep, RestoredStep,
         KillStep, RerunStep DEF Step
    <2>4. PutsConverge'
      BY <1>1, PutsKeepConverging
    <2> QED
      BY <2>1, <2>3, <2>4 DEF SpillInvariant, ProcessInv, RestoresVerified, VerifiedRestores, Shared
  <1>2. CASE UNCHANGED vars
    <2>1. TypeOK'
      BY <1>2 DEF vars, SpillInvariant, TypeOK
    <2>2. \A q \in Proc : ProcessInv(q) /\ Idle(q) /\ stream' = stream
      BY <1>2, InvByProcess DEF vars, Idle, Same
    <2>3. \A q \in Proc : ProcessInv(q)'
      BY <2>2, IdleProcess
    <2>4. PutsConverge'
      BY <1>2 DEF vars, SpillInvariant, PutsConverge, Writers, Rec
    <2> QED
      BY <2>1, <2>3, <2>4 DEF SpillInvariant, ProcessInv, RestoresVerified, VerifiedRestores, Shared
  <1> QED
    BY <1>1, <1>2

\* spill_to_cas and the restore that follows it keep what has been read, the
\* digest and the blob files of the directory in step, whatever the others do.
THEOREM SpillInvariantHolds ==
  Spec => []SpillInvariant
  BY InitHolds, StepHolds, PTL DEF Spec

\* The state keeps its types.
THEOREM SpillTypes ==
  Spec => []TypeOK
  <1>1. SpillInvariant => TypeOK
    BY DEF SpillInvariant
  <1> QED
    BY <1>1, SpillInvariantHolds, PTL

\* rehydrate and verify agree on the record stream, and verify asks no more of
\* it than the sizes and SHA-256 of the catalog's rows; leftovers of killed runs
\* do not matter, only I/O errors and processes that put the same blobs.
THEOREM ReadersAgree ==
  Spec => []VerifiedRestores
  <1>1. SpillInvariant => VerifiedRestores
    BY DEF SpillInvariant
  <1> QED
    BY <1>1, SpillInvariantHolds, PTL

\* Overlapping puts of one blob leave its file whole, unless the one that
\* truncated it last was killed or failed.
THEOREM PutsConvergeHolds ==
  Spec => []PutsConverge
  <1>1. SpillInvariant => PutsConverge
    BY DEF SpillInvariant
  <1> QED
    BY <1>1, SpillInvariantHolds, PTL
=============================================================================
