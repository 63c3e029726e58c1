--------------------------- MODULE ReplaceProofs ----------------------------
(***************************************************************************)
(* Proof that the protocol of Replace.tla replaces the file atomically,    *)
(* for any number of runs one after the other, killed or failing anywhere, *)
(* and files of any length.                                                *)
(***************************************************************************)
EXTENDS Replace, TLAPS

LEMMA InitEstablishes == Init => AtomicInv
  <1> SUFFICES ASSUME Init PROVE AtomicInv
    OBVIOUS
  <1> USE ReplaceAssumption
  <1>1. TypeOK
    BY DEF Init, TypeOK, Run, Inode, NoFile, OldDest, OldTmp, Content, Piece, Whole
  <1>2. OneActive
    BY DEF Init, OneActive, Active
  <1>3. DestIsFinished
    BY DEF Init, DestIsFinished, Inode, NoFile, OldDest, OldTmp, Piece, Whole
  <1>4. \A r \in Run : Progress(r)
    BY DEF Init, Progress, Run, NoFile, OldDest, OldTmp
  <1>5. \A r \in Run : result[r] = "ok" \/ sidecar = r => committed[r]
    BY DEF Init, Run
  <1> QED
    BY <1>1, <1>2, <1>3, <1>4, <1>5 DEF AtomicInv

\* Typing of a step that is taken from typed variables, once for all actions.
LEMMA TypesStay == TypeOK /\ [Next]_vars => TypeOK'
  <1> SUFFICES ASSUME TypeOK, [Next]_vars PROVE TypeOK'
    OBVIOUS
  <1> USE ReplaceAssumption DEF TypeOK, Goto
  <1>1. CASE UNCHANGED vars
    BY <1>1 DEF vars
  <1>2. ASSUME NEW r \in Run, Step(r) PROVE TypeOK'
    <2>1. r \in Inode /\ NoFile \notin Inode
      BY DEF Run, Inode, NoFile
    <2>2. /\ \A n \in 0..Pieces : Piece(r, n) \in Content
          /\ Piece(r, 0) \in Content
      BY DEF Piece, Content, Run
    <2>3. CASE Create(r)
      <3>1. tmp' \in Inode
        BY <2>1, <2>3 DEF Create
      <3> QED
        BY <2>1, <2>2, <2>3, <3>1 DEF Create
    <2>4. CASE CreateFails(r)
      BY <2>4 DEF CreateFails
    <2>5. CASE WritePiece(r)
      <3>1. at[r] + 1 \in 0..Pieces
        BY <2>5 DEF WritePiece
      <3>2. \A b \in BOOLEAN :
              [by |-> r, part |-> at[r] + 1, pure |-> b] \in Content
        BY <3>1 DEF Content, Run
      <3>3. data' \in [Inode -> Content]
        <4> DEFINE old == data[fd[r]]
                   mine == old.pure /\ old.part = at[r] /\ (at[r] = 0 \/ old.by = r)
        <4>1. data' = [data EXCEPT ![fd[r]] =
                         [by |-> r, part |-> at[r] + 1, pure |-> mine]]
          BY <2>5 DEF WritePiece
        <4>2. mine = TRUE \/ mine = FALSE
          OBVIOUS
        <4>3. [by |-> r, part |-> at[r] + 1, pure |-> mine] \in Content
          BY <3>2, <4>2
        <4> HIDE DEF mine
        <4> QED
          BY <4>1, <4>3
      <3> QED
        BY <2>5, <3>1, <3>3 DEF WritePiece
    <2>6. CASE CheckFinished(r)
      BY <2>6 DEF CheckFinished
    <2>7. CASE FailsBeforeCommit(r)
      BY <2>7 DEF FailsBeforeCommit
    <2>8. CASE Rename(r)
      BY <2>8 DEF Rename, Moved
    <2>9. CASE RenameFails(r)
      BY <2>9 DEF RenameFails
    <2>10. CASE UnlinkDest(r)
      BY <2>10 DEF UnlinkDest
    <2>11. CASE RenameAgain(r)
      BY <2>11 DEF RenameAgain, Moved
    <2>12. CASE AfterCommit(r)
      BY <2>12 DEF AfterCommit
    <2>13. CASE DropPending(r)
      BY <2>13 DEF DropPending
    <2>14. CASE Kill(r)
      BY <2>14 DEF Kill
    <2> QED
      BY <1>2, <2>3, <2>4, <2>5, <2>6, <2>7, <2>8, <2>9, <2>10, <2>11, <2>12,
         <2>13, <2>14 DEF Step
  <1> QED
    BY <1>1, <1>2 DEF Next

\* Where runs do not overlap, no other run is active during
\* a step, and that leaves the other runs' part of the invariant alone.
LEMMA InvariantStays ==
  ASSUME Sequential, AtomicInv, [Next]_vars
  PROVE  AtomicInv'
  <1> USE ReplaceAssumption
  <1>1. TypeOK'
    BY TypesStay DEF AtomicInv
  <1>2. CASE UNCHANGED vars
    BY <1>1, <1>2 DEF vars, AtomicInv, TypeOK, OneActive, Active, DestIsFinished,
                      Progress
  <1>3. ASSUME NEW r \in Run, Step(r) PROVE AtomicInv'
    <2>1. TypeOK /\ OneActive /\ DestIsFinished /\ Progress(r)
      BY <1>3 DEF AtomicInv
    <2>2. \A q \in Run \ {r} : pc[q] \in {"new", "over"}
      BY <1>3, <2>1 DEF Step, OneActive, Active, MayStart, Create, CreateFails,
           WritePiece, CheckFinished, FailsBeforeCommit, Rename, RenameFails,
           UnlinkDest, RenameAgain, AfterCommit, DropPending, Kill
    <2>3. /\ pc' = [pc EXCEPT ![r] = pc'[r]]
          /\ pc'[r] # "new"
      BY <1>3, <2>1 DEF Step, TypeOK, Goto, Moved, Create, CreateFails, WritePiece,
           CheckFinished, FailsBeforeCommit, Rename, RenameFails, UnlinkDest,
           RenameAgain, AfterCommit, DropPending, Kill
    <2>4. OneActive'
      <3>1. \A q \in Run \ {r} : ~Active(q)'
        BY <2>1, <2>2, <2>3 DEF Active, TypeOK
      <3> QED
        BY <3>1 DEF OneActive
    <2>5. r \in Inode /\ r # NoFile /\ Run \subseteq Inode
      BY DEF Run, Inode, NoFile
    <2>6. /\ committed'[r] \/ ~committed[r]
          /\ \A q \in Run \ {r} :
               /\ committed'[q] = committed[q]
               /\ at'[q] = at[q]
               /\ result'[q] = result[q]
      BY <1>3, <2>1 DEF Step, TypeOK, Moved, Create, CreateFails, WritePiece,
           CheckFinished, FailsBeforeCommit, Rename, RenameFails, UnlinkDest,
           RenameAgain, AfterCommit, DropPending, Kill
    <2>7. DestIsFinished' /\ Progress(r)'
      <3>1. CASE Create(r)
        <4>1. /\ tmp' = IF tmp = NoFile THEN r ELSE tmp
              /\ tmp' \in Inode /\ tmp' # NoFile
              /\ dest' = dest /\ at' = at /\ committed' = committed
              /\ fd'[r] = tmp' /\ pc'[r] = "write" /\ pc[r] = "new"
              /\ data' = [data EXCEPT ![tmp'] = Piece(r, 0)]
          BY <2>1, <2>5, <3>1 DEF Create, MayStart, Goto, TypeOK, Inode, NoFile
        <4>2. dest' # NoFile => dest' # tmp'
          BY <2>1, <4>1 DEF DestIsFinished, Progress
        <4>3. dest' # NoFile => data'[dest'] = data[dest]
          BY <2>1, <4>1, <4>2 DEF TypeOK
        <4>4. data'[tmp'] = Piece(r, 0) /\ at'[r] = 0
          BY <2>1, <4>1 DEF TypeOK, Progress
        <4> QED
          BY <2>1, <4>1, <4>2, <4>3, <4>4 DEF DestIsFinished, Progress
      <3>2. CASE WritePiece(r)
        <4>1. /\ fd[r] = tmp /\ tmp # NoFile /\ tmp \in Inode
              /\ data[tmp] = Piece(r, at[r])
              /\ pc[r] = "write" /\ pc' = pc /\ fd' = fd /\ tmp' = tmp
              /\ dest' = dest /\ committed' = committed
              /\ at'[r] = at[r] + 1
          BY <2>1, <3>2 DEF WritePiece, Progress, TypeOK, NoFile
        <4>2. data' = [data EXCEPT ![tmp] = Piece(r, at[r] + 1)]
          <5>1. data[tmp].pure = TRUE /\ data[tmp].part = at[r] /\ data[tmp].by = r
            BY <4>1 DEF Piece
          <5> QED
            BY <3>2, <4>1, <5>1 DEF WritePiece, Piece
        <4>3. dest # NoFile => data'[dest] = data[dest]
          BY <2>1, <4>1, <4>2 DEF DestIsFinished, TypeOK
        <4>4. data'[tmp] = Piece(r, at'[r])
          BY <2>1, <4>1, <4>2 DEF TypeOK
        <4> QED
          BY <2>1, <4>1, <4>3, <4>4 DEF DestIsFinished, Progress
      <3>3. CASE CheckFinished(r)
        BY <2>1, <2>3, <3>3 DEF CheckFinished, Goto, DestIsFinished, Progress, TypeOK, Whole
      <3>4. ASSUME pc[r] \in {"rename", "rename2"}, tmp # NoFile, Moved(r)
            PROVE  DestIsFinished' /\ Progress(r)'
        <4>1. /\ dest' = tmp /\ tmp' = NoFile /\ tmp # NoFile /\ tmp \in Inode
              /\ data' = data /\ data[tmp] = Whole(r)
              /\ committed'[r] = TRUE /\ pc'[r] = "after"
          BY <2>1, <3>4 DEF Moved, Goto, Progress, TypeOK, NoFile
        <4> QED
          BY <4>1 DEF DestIsFinished, Progress, Whole, Piece
      <3>5. CASE RenameFails(r) \/ UnlinkDest(r)
        BY <2>1, <2>3, <3>5 DEF RenameFails, UnlinkDest, Goto, DestIsFinished, Progress,
             TypeOK
      <3>6. CASE Rename(r)
        BY <3>4, <3>6 DEF Rename
      <3>7. CASE RenameAgain(r)
        <4>1. CASE tmp # NoFile /\ Moved(r)
          BY <3>4, <3>7, <4>1 DEF RenameAgain
        <4>2. CASE ~(tmp # NoFile /\ Moved(r))
          BY <2>1, <2>3, <3>7, <4>2 DEF RenameAgain, Goto, DestIsFinished, Progress, TypeOK
        <4> QED
          BY <4>1, <4>2
      <3>8. CASE DropPending(r)
        BY <2>1, <2>3, <3>8 DEF DropPending, Goto, DestIsFinished, Progress, TypeOK
      <3>9. CASE CreateFails(r) \/ FailsBeforeCommit(r) \/ AfterCommit(r) \/ Kill(r)
        BY <2>1, <2>3, <3>9 DEF CreateFails, FailsBeforeCommit, AfterCommit, Kill, Goto,
             DestIsFinished, Progress, TypeOK
      <3> QED
        BY <1>3, <3>1, <3>2, <3>3, <3>5, <3>6, <3>7, <3>8, <3>9 DEF Step
    <2>8. ASSUME NEW q \in Run \ {r} PROVE Progress(q)'
      <3>1. pc'[q] = pc[q] /\ pc[q] \in {"new", "over"} /\ Progress(q)
        BY <2>1, <2>2, <2>3, <1>3 DEF TypeOK, AtomicInv
      <3>2. (tmp' = tmp \/ tmp' = r \/ tmp' = NoFile) /\ (dest' = dest \/ dest' = tmp \/ dest' = NoFile)
        BY <1>3 DEF Step, Moved, Create, CreateFails, WritePiece, CheckFinished,
             FailsBeforeCommit, Rename, RenameFails, UnlinkDest, RenameAgain,
             AfterCommit, DropPending, Kill
      <3>3. pc[q] = "new" => tmp' # q /\ dest' # q /\ at'[q] = 0
        BY <2>5, <2>6, <3>1, <3>2 DEF Progress, Run, NoFile
      <3> QED
        BY <3>1, <3>3 DEF Progress
    <2>9. ASSUME NEW q \in Run PROVE (result[q] = "ok" \/ sidecar = q => committed[q])'
      <3>1. (result[q] = "ok" \/ sidecar = q => committed[q]) /\ Progress(r)
        BY <1>3 DEF AtomicInv
      <3>2. (sidecar' = sidecar \/ (sidecar' = r /\ pc[r] = "after"))
              /\ (result'[r] = result[r] \/ result'[r] # "ok" \/ pc[r] = "after")
        BY <1>3, <2>1 DEF TypeOK, Step, Moved, Create, CreateFails, WritePiece,
             CheckFinished, FailsBeforeCommit, Rename, RenameFails, UnlinkDest,
             RenameAgain, AfterCommit, DropPending, Kill
      <3> QED
        BY <2>6, <3>1, <3>2 DEF Progress
    <2> QED
      BY <1>1, <2>4, <2>7, <2>8, <2>9 DEF AtomicInv
  <1> QED
    BY <1>2, <1>3 DEF Next

\* The invariant holds in every state of such runs.
THEOREM AtomicInvariant ==
  ASSUME Sequential
  PROVE  Spec => []AtomicInv
  <1>1. Init => AtomicInv
    BY InitEstablishes
  <1>2. AtomicInv /\ [Next]_vars => AtomicInv'
    BY InvariantStays
  <1> QED
    BY <1>1, <1>2, PTL DEF Spec

\* "ok", a sidecar manifest and the file at the path all imply a commit.
THEOREM OutcomesAreTrue ==
  ASSUME Sequential
  PROVE  Spec => []OutcomeIsTrue
  <1>1. AtomicInv => OutcomeIsTrue
    <2> SUFFICES ASSUME AtomicInv, NEW r \in Run
                 PROVE  /\ result[r] = "ok" \/ sidecar = r => committed[r]
                        /\ Visible.by = r => committed[r]
      BY DEF OutcomeIsTrue
    <2>1. r # 0
      BY DEF Run
    <2> QED
      BY <2>1 DEF AtomicInv, DestIsFinished, Visible, Absent
  <1> QED
    BY <1>1, AtomicInvariant, PTL

\* Every step either leaves what a reader finds at the path alone or puts the
\* whole file of one run there.
LEMMA StepIsAtomic ==
  ASSUME Sequential, AtomicInv, [Next]_vars
  PROVE  [Atomic!Next]_Visible
  <1> USE ReplaceAssumption
  <1>1. CASE UNCHANGED vars
    BY <1>1 DEF vars, Visible
  <1>2. ASSUME NEW r \in Run, Step(r) PROVE [Atomic!Next]_Visible
    <2>1. TypeOK /\ DestIsFinished /\ Progress(r)
      BY <1>2 DEF AtomicInv
    <2>2. CASE Create(r)
      <3>1. dest' = dest /\ data' = [data EXCEPT ![tmp'] = Piece(r, 0)]
        BY <2>2 DEF Create
      <3>2. dest # NoFile => dest # tmp'
        BY <2>1, <2>2 DEF Create, MayStart, DestIsFinished, Progress
      <3>3. Visible' = Visible
        BY <2>1, <3>1, <3>2 DEF Visible, TypeOK
      <3> QED
        BY <3>3
    <2>3. CASE WritePiece(r)
      <3>1. /\ dest' = dest /\ (dest # NoFile => dest # fd[r])
            /\ \E c : data' = [data EXCEPT ![fd[r]] = c]
        BY <2>1, <2>3 DEF WritePiece, DestIsFinished, Progress
      <3>2. Visible' = Visible
        BY <2>1, <3>1 DEF Visible, TypeOK
      <3> QED
        BY <3>2
    <2>4. ASSUME pc[r] \in {"rename", "rename2"}, tmp # NoFile, Moved(r)
          PROVE  [Atomic!Next]_Visible
      <3>1. dest' = tmp /\ tmp # NoFile /\ data' = data /\ data[tmp] = Whole(r)
        BY <2>1, <2>4 DEF Moved, Progress
      <3>2. Visible' = Whole(r)
        BY <3>1 DEF Visible
      <3> QED
        BY <3>2 DEF Atomic!Next, Atomic!Replace
    <2>5. CASE UnlinkDest(r)
      <3>1. RenameMayFail /\ data' = data /\ (dest' = dest \/ dest' = NoFile)
        BY <2>1, <2>5 DEF UnlinkDest, Progress
      <3>2. Visible' = Visible \/ Visible' = Absent
        BY <3>1 DEF Visible
      <3> QED
        BY <3>1, <3>2 DEF Atomic!Next, Atomic!Lose
    <2>7. CASE Rename(r)
      BY <2>4, <2>7 DEF Rename
    <2>8. CASE RenameAgain(r)
      <3>1. CASE tmp # NoFile /\ Moved(r)
        BY <2>4, <2>8, <3>1 DEF RenameAgain
      <3>2. CASE ~(tmp # NoFile /\ Moved(r))
        BY <2>8, <3>2 DEF RenameAgain, Visible
      <3> QED
        BY <3>1, <3>2
    <2>6. CASE \/ CreateFails(r) \/ CheckFinished(r) \/ FailsBeforeCommit(r)
               \/ RenameFails(r) \/ AfterCommit(r) \/ DropPending(r) \/ Kill(r)
      BY <2>6 DEF CreateFails, CheckFinished, FailsBeforeCommit, RenameFails,
           AfterCommit, DropPending, Kill, Visible
    <2> QED
      BY <1>2, <2>2, <2>3, <2>5, <2>6, <2>7, <2>8 DEF Step
  <1> QED
    BY <1>1, <1>2 DEF Next

\* Runs that follow one another implement the atomic file, whatever happens to
\* each of them; where rename replaces existing files (RenameMayFail = FALSE)
\* the old file cannot be lost either.
THEOREM ReplacementIsAtomic ==
  ASSUME Sequential
  PROVE  Spec => ReplacesAtomically
  <1>1. Init => Atomic!Init
    <2> SUFFICES ASSUME Init PROVE Visible \in {Absent, Whole(0)}
      BY DEF Atomic!Init
    <2>1. OldDest \in Inode /\ OldDest # NoFile
      BY ReplaceAssumption DEF OldDest, Inode, NoFile
    <2> QED
      BY <2>1 DEF Init, Visible
  <1>2. AtomicInv /\ [Next]_vars => [Atomic!Next]_Visible
    BY StepIsAtomic
  <1> QED
    BY <1>1, <1>2, AtomicInvariant, PTL DEF Spec, ReplacesAtomically, Atomic!Spec

\* A run returns after its commit, which has taken the sibling name away, or
\* through the drop, which removes it.
LEMMA ReturnIsClean ==
  ASSUME AtomicInv, [Next]_vars, NEW r \in Run, result[r] = "none", result'[r] \in {"ok", "err"}
  PROVE  tmp' = NoFile
  <1>1. CASE UNCHANGED vars
    BY <1>1 DEF vars
  <1>2. ASSUME NEW q \in Run, Step(q) PROVE tmp' = NoFile
    <2>1. TypeOK /\ Progress(q)
      BY <1>2 DEF AtomicInv
    <2>2. CASE AfterCommit(q)
      BY <2>1, <2>2 DEF AfterCommit, Progress
    <2>3. CASE DropPending(q)
      BY <2>3 DEF DropPending
    <2>4. CASE Kill(q)
      BY <2>1, <2>4 DEF Kill, TypeOK
    <2>5. CASE \/ Create(q) \/ CreateFails(q) \/ WritePiece(q) \/ CheckFinished(q)
               \/ FailsBeforeCommit(q) \/ Rename(q) \/ RenameFails(q) \/ UnlinkDest(q)
               \/ RenameAgain(q)
      <3>1. result' = result
        BY <2>5 DEF Create, CreateFails, WritePiece, CheckFinished, FailsBeforeCommit, Rename,
             RenameFails, UnlinkDest, RenameAgain, Moved
      <3> QED
        BY <3>1
    <2> QED
      BY <1>2, <2>2, <2>3, <2>4, <2>5 DEF Step
  <1> QED
    BY <1>1, <1>2 DEF Next

\* A run that returns leaves nothing under the sibling name (Drop for
\* PendingAyz and PendingRestore).
THEOREM RunsReturnClean ==
  ASSUME Sequential
  PROVE  Spec => ReturnsClean
  <1>1. AtomicInv /\ [Next]_vars =>
          [\A r \in Run : result[r] = "none" /\ result'[r] \in {"ok", "err"} => tmp' = NoFile]_vars
    BY ReturnIsClean
  <1> QED
    BY <1>1, AtomicInvariant, PTL DEF Spec, ReturnsClean

=============================================================================
