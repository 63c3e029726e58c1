----------------------------- MODULE RestoreInv ------------------------------
(***************************************************************************)
(* The inductive invariant of a run of restores.  The theorems about it    *)
(* are in RestoreProofs.tla; TLC checks that it holds.                     *)
(***************************************************************************)
EXTENDS Restore

\* --restore-paths goes on only if every JAR has a path.
Located == opts.restorePaths => \A j \in DOMAIN jars : jars[j].restore_path # None

\* No JAR's destination is the sibling name of a selected one.  Nothing in the
\* code sees to that (MCRestoreClash).
DestsApart ==
  Located =>
    /\ \A j \in selected : Dest(j) \in Path /\ Tmp(j) \in Path
    /\ \A i, j \in selected : Dest(i) # Tmp(j)

AtJar == pc \in {"create", "write", "rename", "unlink", "rename2", "attrs", "drop"}

BeforeRestore ==
  pc \in {"pack", "unpacked"} =>
    files = before /\ selected = {} /\ next = 1 /\ unlinked = {} /\ runs = 1

\* What the control state says of the command line and of the JAR at hand.
PlaceInv ==
  /\ AtJar => next \in selected
  /\ pc = "attrs" => opts.restorePaths
  /\ pc \in {"guard", "ok"} \/ AtJar => Located
  /\ pc = "start" => next = 1
  /\ pc = "ok" => next = Len(jars) + 1

\* The selected JARs before the one at hand are in place, except that the one at
\* hand may be about to take the place of an equal one; and it is itself in its
\* sibling or in its own place once it has been written.
DoneInv ==
  /\ pc \in {"guard", "ok"} \/ AtJar =>
       \A j \in selected : j < next =>
         files[Dest(j)] \in Copies(j) \/ (AtJar /\ Dest(j) = Dest(next))
  /\ pc \in {"rename", "unlink", "rename2"} => files[Tmp(next)] = next
  /\ pc = "attrs" => files[Dest(next)] = next

\* Of the destinations that have been emptied, one at most is owed to this run,
\* and none as soon as the JAR at hand is in place.
CleanInv ==
  Located =>
    /\ \A j \in selected :
         \/ files[Dest(j)] \in {before[Dest(j)]} \cup Copies(j)
         \/ files[Dest(j)] = Absent /\ ((opts.clean /\ ~opts.restorePaths) \/ Dest(j) \in unlinked)
    /\ Cardinality(Emptied) <= runs
    /\ pc \in {"start", "guard", "attrs"} => Cardinality(Emptied) < runs
    /\ AtJar => Cardinality(Emptied \ {Dest(next)}) < runs

RestoreInvariant ==
  /\ BeforeRestore
  /\ DestsApart => TypeOK /\ PlaceInv /\ DoneInv /\ CleanInv
=============================================================================
