----------------------------- MODULE AtomicFile -----------------------------
(***************************************************************************)
(* What `dehydrate -o FILE` and a restored JAR promise about one path: a   *)
(* reader finds nothing or the old file until, in a single step, it finds  *)
(* the whole new one.  A run that fails or is killed takes no step here -  *)
(* except on a system that refuses to rename over an existing file, where  *)
(* the old one has to be given up first.                                   *)
(***************************************************************************)
CONSTANTS Run,              \* the runs that write the path
          Absent, Old,      \* what is there before the first of them
          New(_),           \* the whole file of a run
          MayLose           \* the system may refuse to rename over a file

VARIABLE value

Init == value \in {Absent, Old}

Replace(r) == value' = New(r)

Lose == MayLose /\ value' = Absent

Next == Lose \/ \E r \in Run : Replace(r)

Spec == Init /\ [][Next]_value
=============================================================================
