------------------------------- MODULE Counting -------------------------------
(***************************************************************************)
(* The members of a set of numbers in their order, the elements of a       *)
(* sequence that stand there, and the sequences in a sequence as one.      *)
(***************************************************************************)
EXTENDS Integers, FiniteSets, Sequences

\* How many members of S there are up to i, and the k-th of them.
UpTo(S, i) == Cardinality({j \in S : j <= i})
Nth(S, k) == CHOOSE i \in S : UpTo(S, i) = k

\* The elements of s at the positions in S, in their order.
Picked(s, S) == [k \in 1..Cardinality(S) |-> s[Nth(S, k)]]

\* The first n sequences of s in one.
Flat(s) ==
  LET flat[i \in 1..Len(s)] == IF i = 1 THEN s[i] ELSE flat[i - 1] \o s[i]
  IN  flat
Joined(s, n) == IF n = 0 THEN <<>> ELSE Flat(s)[n]

=============================================================================
