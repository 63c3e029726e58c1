---------------------------- MODULE MCAyzWriter -----------------------------
(***************************************************************************)
(* Contents around the flush limit of 10 record bytes with a record head   *)
(* of 1: an empty one, one that fits nine times less than it looks, one    *)
(* that fills a frame exactly, and one that exceeds it alone.              *)
(***************************************************************************)
EXTENDS AyzWriterInv, TLC

CONSTANTS empty, small, exact, large

MCHash == {empty, small, exact, large}
MCSize == (empty :> 0) @@ (small :> 4) @@ (exact :> 9) @@ (large :> 12)
=============================================================================
