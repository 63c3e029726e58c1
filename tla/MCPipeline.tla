----------------------------- MODULE MCPipeline -----------------------------
(***************************************************************************)
(* Small argument lists for TLC: every kind of entry, contents shared      *)
(* between entries, JARs and exploded children, an entry over the cap, an  *)
(* empty payload, and an unreadable path between two JARs.                 *)
(***************************************************************************)
EXTENDS PipelineProps

CONSTANTS a, b, c, d        \* contents

File(h) == [kind |-> "file", blobs |-> <<h>>, crcOk |-> TRUE]
BadFile(h) == [kind |-> "file", blobs |-> <<h>>, crcOk |-> FALSE]
Exploded(hs) == [kind |-> "zip", blobs |-> hs, crcOk |-> TRUE]
Dir == [kind |-> "dir", blobs |-> <<>>, crcOk |-> TRUE]
Jar(items, offset, own) ==
  [readable |-> TRUE, signed |-> FALSE, items |-> items, offset |-> offset,
   own |-> own]
Unreadable ==
  [readable |-> FALSE, signed |-> FALSE, items |-> <<>>, offset |-> <<>>,
   own |-> <<>>]

MCHash == {a, b, c, d}

\* Under a cap of 3: five buffers of 1 and 2 bytes go out of order, the
\* exploded archive overlaps files on both sides, the last entry of the first
\* JAR alone exceeds the cap, one payload is empty, one CRC mismatch is only a
\* warning.
MCInputs ==
  << Jar(<<File(a), Dir, File(b), File(a), Exploded(<<b, c>>), File(c), File(d)>>,
         <<1, 1, 2, 3, 4, 6, 11>>, <<d>>),
     Unreadable,
     Jar(<<File(d), File(a), BadFile(b), File(c)>>, <<1, 2, 2, 4>>, <<d, b>>) >>

\* A JAR that packs, then a signed one under --fail-on-signed.
MCFailing ==
  << Jar(<<File(a), Exploded(<<b>>), File(c)>>, <<2, 4, 5>>, <<>>),
     [Jar(<<File(b), File(a)>>, <<1, 2>>, <<d>>) EXCEPT !.signed = TRUE] >>

\* A JAR that packs, then one with a CRC mismatch under --strict.
MCFailingStrict ==
  << Jar(<<File(a), Dir, File(c), File(d)>>, <<2, 2, 4, 5>>, <<a>>),
     Jar(<<File(c), BadFile(b), Exploded(<<a, d>>)>>, <<1, 3, 4>>, <<>>) >>
=============================================================================
