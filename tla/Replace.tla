------------------------------ MODULE Replace -------------------------------
(***************************************************************************)
(* Writing one output path: the protocol of PendingAyz (`dehydrate -o`)    *)
(* and PendingRestore (each restored JAR).  The file is written under a    *)
(* sibling name, checked there, and renamed over the destination; dropping *)
(* the pending value before that removes the sibling.                      *)
(*                                                                         *)
(* A run is one execution of the command.  Several may use the same path,  *)
(* one after the other or, where Sequential is FALSE, at the same time.    *)
(* Both names are directory entries pointing at inodes, so that a handle   *)
(* that is still open and a name that has moved on are told apart.  Run r  *)
(* creates at most inode r.  A file holds a number of pieces of one run,   *)
(* the last of which carries the trailer; it is not `pure` once two runs   *)
(* have written into it.                                                   *)
(***************************************************************************)
EXTENDS Integers

CONSTANTS NumRuns, Pieces,
          Sequential,       \* no two runs at the same time
          RenameMayFail     \* rename over an existing file may be refused

ASSUME ReplaceAssumption ==
  /\ NumRuns \in Nat /\ Pieces \in Nat \ {0}
  /\ Sequential \in BOOLEAN /\ RenameMayFail \in BOOLEAN

Run == 1..NumRuns
NoFile == 0
OldDest == NumRuns + 1      \* inodes of files that are there before any run
OldTmp == NumRuns + 2
Inode == 1..(NumRuns + 2)

VARIABLES dest, tmp,        \* the two directory entries
          data,             \* inode -> content
          pc, fd, at,       \* per run: where it is, its handle, pieces written
          committed,        \* per run: PendingAyz.committed
          result,           \* per run: "none", "ok", "err" or "killed"
          sidecar           \* the run whose manifest the sidecar file holds, or 0

vars == <<dest, tmp, data, pc, fd, at, committed, result, sidecar>>

Content == [by : 0..NumRuns, part : 0..Pieces, pure : BOOLEAN]
Piece(r, n) == [by |-> r, part |-> n, pure |-> TRUE]
Whole(r) == Piece(r, Pieces)

TypeOK ==
  /\ dest \in Inode \cup {NoFile} /\ tmp \in Inode \cup {NoFile}
  /\ data \in [Inode -> Content]
  /\ pc \in [Run -> {"new", "write", "rename", "unlink", "rename2", "after",
                     "drop", "over"}]
  /\ fd \in [Run -> Inode \cup {NoFile}]
  /\ at \in [Run -> 0..Pieces]
  /\ committed \in [Run -> BOOLEAN]
  /\ result \in [Run -> {"none", "ok", "err", "killed"}]
  /\ sidecar \in Run \cup {0}

\* The destination may exist, and so may a file under the sibling name: left
\* by a killed run, or somebody else's.
Init ==
  /\ dest \in {NoFile, OldDest}
  /\ tmp \in {NoFile, OldTmp}
  /\ data = [i \in Inode |-> IF i = OldDest THEN Whole(0) ELSE Piece(0, 0)]
  /\ pc = [r \in Run |-> "new"]
  /\ fd = [r \in Run |-> NoFile]
  /\ at = [r \in Run |-> 0]
  /\ committed = [r \in Run |-> FALSE]
  /\ result = [r \in Run |-> "none"]
  /\ sidecar = 0

Active(r) == pc[r] \notin {"new", "over"}
MayStart(r) == pc[r] = "new" /\ (Sequential => \A q \in Run : ~Active(q))
Goto(r, l) == pc' = [pc EXCEPT ![r] = l]

\* File::create opens the sibling, emptying a file that has the name already.
Create(r) ==
  /\ MayStart(r)
  /\ tmp' = IF tmp = NoFile THEN r ELSE tmp
  /\ fd' = [fd EXCEPT ![r] = tmp']
  /\ data' = [data EXCEPT ![tmp'] = Piece(r, 0)]
  /\ Goto(r, "write")
  /\ UNCHANGED <<dest, at, committed, result, sidecar>>

CreateFails(r) ==
  /\ MayStart(r)
  /\ Goto(r, "drop")
  /\ UNCHANGED <<dest, tmp, data, fd, at, committed, result, sidecar>>

\* A write lands in the inode the handle was opened on, at the handle's own
\* offset, whatever its name is by now and whoever else writes there.
WritePiece(r) ==
  /\ pc[r] = "write"
  /\ at[r] < Pieces
  /\ LET old == data[fd[r]]
         mine == old.pure /\ old.part = at[r] /\ (at[r] = 0 \/ old.by = r)
     IN  data' = [data EXCEPT ![fd[r]] =
                    [by |-> r, part |-> at[r] + 1, pure |-> mine]]
  /\ at' = [at EXCEPT ![r] = @ + 1]
  /\ UNCHANGED <<dest, tmp, pc, fd, committed, result, sidecar>>

\* The handle is closed and the finished sibling is opened again by name
\* (verify_finished_ayz, finish_exact): it must have the right length and end in
\* a trailer, which a file with pieces of two runs may happen to do.
LooksFinished(c) == c.part = Pieces \/ ~c.pure

\* Faulty variant: what is there so far is taken for finished.
CheckNothing(r) ==
  /\ pc[r] = "write"
  /\ tmp # NoFile
  /\ Goto(r, "rename")
  /\ UNCHANGED <<dest, tmp, data, fd, at, committed, result, sidecar>>

CheckFinished(r) ==
  /\ pc[r] = "write"
  /\ at[r] = Pieces
  /\ tmp # NoFile /\ LooksFinished(data[tmp])
  /\ Goto(r, "rename")
  /\ UNCHANGED <<dest, tmp, data, fd, at, committed, result, sidecar>>

\* Faulty variant: an error returns past the value that would be dropped.
FailsWithoutDrop(r) ==
  /\ pc[r] \in {"write", "rename"}
  /\ result' = [result EXCEPT ![r] = "err"]
  /\ Goto(r, "over")
  /\ UNCHANGED <<dest, tmp, data, fd, at, committed, sidecar>>

\* Faulty variant: the sidecar is written before the commit.
FailsAfterSidecar(r) ==
  /\ pc[r] \in {"write", "rename"}
  /\ sidecar' = IF pc[r] = "rename" THEN r ELSE sidecar
  /\ Goto(r, "drop")
  /\ UNCHANGED <<dest, tmp, data, fd, at, committed, result>>

\* An error anywhere before the commit: a broken input, a full disk, a check
\* that fails.
FailsBeforeCommit(r) ==
  /\ pc[r] \in {"write", "rename"}
  /\ Goto(r, "drop")
  /\ UNCHANGED <<dest, tmp, data, fd, at, committed, result, sidecar>>

\* Faulty variant: the destination is opened and overwritten in place.
CopyOver(r) ==
  /\ dest' = IF dest = NoFile THEN tmp ELSE dest
  /\ tmp' = NoFile
  /\ data' = [data EXCEPT ![dest'] = Piece(r, 1)]
  /\ committed' = [committed EXCEPT ![r] = TRUE]
  /\ Goto(r, "after")
  /\ UNCHANGED <<fd, at, result, sidecar>>

Moved(r) ==
  /\ dest' = tmp
  /\ tmp' = NoFile
  /\ committed' = [committed EXCEPT ![r] = TRUE]
  /\ Goto(r, "after")
  /\ UNCHANGED <<data, fd, at, result, sidecar>>

\* replace_file: rename, and where that fails although the destination exists
\* ("Windows cannot replace an existing dest"), unlink it and rename again.
Rename(r) ==
  /\ pc[r] = "rename"
  /\ tmp # NoFile
  /\ Moved(r)

RenameFails(r) ==
  /\ pc[r] = "rename"
  /\ tmp = NoFile \/ RenameMayFail
  /\ Goto(r, IF dest # NoFile THEN "unlink" ELSE "drop")
  /\ UNCHANGED <<dest, tmp, data, fd, at, committed, result, sidecar>>

UnlinkDest(r) ==
  /\ pc[r] = "unlink"
  /\ \/ dest # NoFile /\ dest' = NoFile /\ Goto(r, "rename2")
     \/ dest' = dest /\ Goto(r, "drop")
  /\ UNCHANGED <<tmp, data, fd, at, committed, result, sidecar>>

RenameAgain(r) ==
  /\ pc[r] = "rename2"
  /\ \/ tmp # NoFile /\ Moved(r)
     \/ /\ tmp = NoFile \/ RenameMayFail
        /\ Goto(r, "drop")
        /\ UNCHANGED <<dest, tmp, data, fd, at, committed, result, sidecar>>

\* What follows the commit: the sidecar manifest of `dehydrate`, or the mode
\* and owner of a restored JAR.  It may fail, and then the command fails.
AfterCommit(r) ==
  /\ pc[r] = "after"
  /\ \/ sidecar' = r /\ result' = [result EXCEPT ![r] = "ok"]
     \/ UNCHANGED sidecar /\ result' = [result EXCEPT ![r] = "ok"]
     \/ UNCHANGED sidecar /\ result' = [result EXCEPT ![r] = "err"]
  /\ Goto(r, "over")
  /\ UNCHANGED <<dest, tmp, data, fd, at, committed>>

\* Drop without commit: remove the file under the sibling name, whosever it is.
DropPending(r) ==
  /\ pc[r] = "drop"
  /\ tmp' = NoFile
  /\ result' = [result EXCEPT ![r] = "err"]
  /\ Goto(r, "over")
  /\ UNCHANGED <<dest, data, fd, at, committed, sidecar>>

\* The process is killed (or, in a release build, a worker panics): nothing is
\* dropped and the sibling stays.
Kill(r) ==
  /\ Active(r)
  /\ result' = [result EXCEPT ![r] = "killed"]
  /\ Goto(r, "over")
  /\ UNCHANGED <<dest, tmp, data, fd, at, committed, sidecar>>

Step(r) ==
  \/ Create(r) \/ CreateFails(r) \/ WritePiece(r) \/ CheckFinished(r)
  \/ FailsBeforeCommit(r) \/ Rename(r) \/ RenameFails(r) \/ UnlinkDest(r)
  \/ RenameAgain(r) \/ AfterCommit(r) \/ DropPending(r) \/ Kill(r)

Next == \E r \in Run : Step(r)

Spec == Init /\ [][Next]_vars

-----------------------------------------------------------------------------
Absent == [by |-> 0, part |-> 0, pure |-> FALSE]
Visible == IF dest = NoFile THEN Absent ELSE data[dest]

\* The inductive invariant of runs that follow one another: the two names never
\* share an inode, only the active run writes, and it writes into the inode that
\* the sibling name points at.
OneActive == \A q, r \in Run : Active(q) /\ Active(r) => q = r

DestIsFinished ==
  dest # NoFile =>
    /\ dest # tmp
    /\ data[dest].pure /\ data[dest].part = Pieces
    /\ data[dest].by = 0 \/ committed[data[dest].by]

Progress(r) ==
  /\ pc[r] = "new" => tmp # r /\ dest # r /\ at[r] = 0
  /\ pc[r] = "write" => fd[r] = tmp /\ tmp # NoFile /\ data[tmp] = Piece(r, at[r])
  /\ pc[r] \in {"rename", "unlink", "rename2"} =>
       tmp # NoFile /\ data[tmp] = Whole(r)
  /\ pc[r] \in {"unlink", "rename2"} => RenameMayFail
  /\ pc[r] = "after" => committed[r] /\ tmp = NoFile

AtomicInv ==
  /\ TypeOK
  /\ OneActive
  /\ DestIsFinished
  /\ \A r \in Run : Progress(r)
  /\ \A r \in Run : result[r] = "ok" \/ sidecar = r => committed[r]

Atomic == INSTANCE AtomicFile WITH Run <- Run, Absent <- Absent, Old <- Whole(0),
                                   New <- Whole, MayLose <- RenameMayFail,
                                   value <- Visible

\* A reader of the path sees the old file or a whole new one at any moment, in
\* runs that succeed, fail or are killed at any point and are started again,
\* also where the sibling name is taken when they start (PendingAyz: "a failed
\* or aborted dehydrate cannot replace dest with a header-and-no-trailer file").
\* Only where rename itself is refused may the old file disappear.
ReplacesAtomically == Atomic!Spec

\* What a run reports is true of the path: it ends in "ok", or leaves a sidecar
\* manifest, only after its file was put in place, and the path never holds the
\* file of a run that did not commit.
OutcomeIsTrue ==
  \A r \in Run :
    /\ result[r] = "ok" \/ sidecar = r => committed[r]
    /\ Visible.by = r => committed[r]

\* A run that returns, well or with an error at any point after the pending
\* value exists, leaves no sibling, not even the one that a killed run before it
\* left there.
ReturnsClean ==
  [][\A r \in Run : result[r] = "none" /\ result'[r] \in {"ok", "err"}
       => tmp' = NoFile]_vars

\* No unfinished file is ever found at the path while no run is active.
NoUnfinishedDest ==
  (\A q \in Run : ~Active(q)) /\ dest # NoFile =>
    Visible.pure /\ Visible.part = Pieces
=============================================================================
