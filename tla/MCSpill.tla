------------------------------ MODULE MCSpill -------------------------------
(***************************************************************************)
(* One process that reads any payload of up to three records, or of four   *)
(* of the more telling kinds, and has the directory for itself (the file   *)
(* of the other is empty); or a whole payload, or one with a record        *)
(* replaced, beside a second process that reads a whole one.  Both may be  *)
(* killed and may meet I/O errors.                                         *)
(***************************************************************************)
EXTENDS SpillInv, SequencesExt

CONSTANTS a, b, p1, p2

Blob(h, g) == [kind |-> "blob", hash |-> h, good |-> g]
Manifest(bs, known, right) ==
  [kind |-> "manifest", blobs |-> bs, known |-> known, right |-> right]
End(bs) == [kind |-> "end", digest |-> bs]
Torn == [kind |-> "torn"]

MCHash == {a, b}
MCProc == {p1, p2}

AnyRecord ==
  {Blob(a, TRUE), Blob(b, TRUE), Blob(a, FALSE), Torn,
   Manifest(<<a>>, TRUE, TRUE), Manifest(<<a, b>>, TRUE, TRUE), Manifest(<<b, a>>, TRUE, TRUE),
   Manifest(<<a>>, FALSE, TRUE), Manifest(<<a>>, TRUE, FALSE), Manifest(<<a, b>>, TRUE, FALSE),
   Manifest(<<>>, TRUE, TRUE),
   End(<<a>>), End(<<a, b>>), End(<<>>)}

TellingRecord ==
  {Blob(a, TRUE), Blob(b, TRUE), Torn, Manifest(<<a>>, TRUE, TRUE), Manifest(<<a, b>>, TRUE, TRUE),
   Manifest(<<a, b>>, TRUE, FALSE), End(<<a>>), End(<<a, b>>)}

WholeStreams ==
  {<<Blob(a, TRUE), Blob(b, TRUE), Manifest(<<a, b>>, TRUE, TRUE), End(<<a, b>>)>>,
   <<Blob(b, TRUE), Manifest(<<b>>, TRUE, TRUE), End(<<b>>)>>}

OneOff == {[s EXCEPT ![i] = r] : s \in WholeStreams, i \in 1..3, r \in AnyRecord}
            \cup {[s EXCEPT ![Len(s)] = r] : s \in WholeStreams, r \in AnyRecord}

Payloads(s, t) == p1 :> s @@ p2 :> t

MCStreams ==
  {Payloads(s, <<>>) : s \in SeqOf(AnyRecord, 3) \cup SeqOf(TellingRecord, 4)}
    \cup {Payloads(s, t) : s \in WholeStreams \cup OneOff, t \in WholeStreams}
=============================================================================
