------------------------------ MODULE Restore -------------------------------
(***************************************************************************)
(* A pack and the restore of its JARs.  `dehydrate` turns its arguments    *)
(* into a list of JARs with names of their own (PackNames); `rehydrate`    *)
(* writes the selected ones, one after the other (restore_jars).  Each JAR *)
(* is guarded against an existing destination, written under the sibling   *)
(* name of that destination, checked, and renamed over it; the protocol    *)
(* for a single path is Replace.tla's.  What is added here is that several *)
(* paths are written by one run, that a run may be killed or fail between  *)
(* any two of them and be started again, and that one JAR's sibling name   *)
(* may be another JAR's name.                                              *)
(***************************************************************************)
EXTENDS PackNames

CONSTANTS Canonical,        \* path -> the canonical path of what it names
          Path,             \* the paths restores write to
          Out,              \* the directory of -d
          Commands,         \* dehydrate: [args, exclude, recursive, sort, strict]
          Trees,            \* command -> what the paths may hold before a restore
          MaxRuns           \* bound on the number of runs of rehydrate

\* What a path holds: nothing, a directory, the user's own file, an unfinished
\* file, or the restored JAR number n.
Absent == 0
Directory == -1
Own == -2
Unfinished == -3

Sibling(p) ==
  [p EXCEPT !.stem = IF p.ext = "" THEN p.stem ELSE p.stem \o "." \o p.ext,
            !.ext = "tmp"]

ASSUME RestoreAssumption ==
  /\ MaxRuns \in Nat \ {0}
  /\ DOMAIN Canonical = DOMAIN Kind
  /\ \A c \in Commands : c.args \in Seq(DOMAIN Kind)
  /\ \A c \in Commands : Trees[c] \subseteq [Path -> {Absent, Directory, Own}]

Options == [clean : BOOLEAN, overwrite : BOOLEAN, restorePaths : BOOLEAN]

VARIABLES command,          \* the command line of dehydrate
          todo,             \* its expanded inputs that are not packed yet
          stamped,          \* packed with --restore-paths
          jars,             \* the catalog: [name, source_path, restore_path]
                            \* per JAR, restore_path an option
          files,            \* path -> content
          before,           \* the files before the first run
          opts, selected,   \* the command line; selected by --only
          next,             \* the next JAR to restore
          pc,
          unlinked,         \* the destinations replace_file has unlinked so far
          runs              \* how often rehydrate has been started

packing == <<command, todo, stamped, jars>>
vars == <<packing, files, before, opts, selected, next, pc, unlinked, runs>>

Content == {Absent, Directory, Own, Unfinished} \cup DOMAIN jars

TypeOK ==
  /\ files \in [Path -> Content]
  /\ before \in [Path -> {Absent, Directory, Own}]
  /\ opts \in Options
  /\ selected \subseteq DOMAIN jars
  /\ next \in 1..(Len(jars) + 1)
  /\ pc \in {"pack", "unpacked", "start", "guard", "create", "write", "rename",
             "unlink", "rename2", "attrs", "drop", "ok", "err", "killed"}
  /\ unlinked \subseteq Path
  /\ runs \in 1..MaxRuns

\* The arguments have been expanded; walks[d] is the order in which the
\* system lists directory d.
Init ==
  /\ command \in Commands
  /\ \E walks \in {w \in [DOMAIN Below -> UNION {WalkOrders(d) : d \in DOMAIN Below}] :
                      \A d \in DOMAIN Below : w[d] \in WalkOrders(d)} :
       LET inputs == expand_inputs(command.args, command, walks)
       IN  /\ todo = IF inputs = None THEN <<>> ELSE inputs[1]
           /\ pc = IF inputs = None THEN "unpacked" ELSE "pack"
  /\ stamped \in BOOLEAN
  /\ jars = <<>>
  /\ before \in Trees[command]
  /\ files = before
  /\ opts \in Options
  /\ selected = {}
  /\ next = 1
  /\ unlinked = {}
  /\ runs = 1

-----------------------------------------------------------------------------
(* dehydrate: one step per input, and the archive is finished.             *)

Packing == pc = "pack" /\ todo # <<>>

PackUnchanged ==
  UNCHANGED <<command, stamped, files, before, opts, selected, next, unlinked, runs>>

\* A path that is gone or a directory: a warning, unless the run is strict.
SkipInput ==
  /\ Packing
  /\ Kind[Head(todo)] # "file"
  /\ pc' = IF command.strict THEN "unpacked" ELSE "pack"
  /\ todo' = Tail(todo)
  /\ UNCHANGED jars
  /\ PackUnchanged

\* The JAR gets a name and, with --restore-paths, the canonical form of its path
\* (collect_restore_meta; the file has just been read, so there is one).
NameJar ==
  /\ Packing
  /\ Kind[Head(todo)] = "file"
  /\ LET name == unique_basename(BaseName(Head(todo)), {jars[j].name : j \in DOMAIN jars})
     IN  IF name = None
         THEN pc' = "unpacked" /\ UNCHANGED <<todo, jars>>
         ELSE /\ jars' = Append(jars,
                   [name |-> name[1], source_path |-> Head(todo),
                    restore_path |-> IF stamped THEN Some(Canonical[Head(todo)]) ELSE None])
              /\ todo' = Tail(todo)
              /\ UNCHANGED pc
  /\ PackUnchanged

\* The archive is in place; some of its JARs are to be restored.
Packed ==
  /\ pc = "pack" /\ todo = <<>>
  /\ selected' \in SUBSET DOMAIN jars
  /\ pc' = "start"
  /\ UNCHANGED <<packing, files, before, opts, next, unlinked, runs>>

-----------------------------------------------------------------------------
(* rehydrate.                                                              *)

InOut(name) == [dir |-> Out, stem |-> name.stem, ext |-> name.ext]
Dest(j) == IF opts.restorePaths THEN jars[j].restore_path[1] ELSE InOut(jars[j].name)
Tmp(j) == Sibling(Dest(j))

Same == UNCHANGED <<packing, before, opts, selected, unlinked, runs>>
Goto(l) == pc' = l /\ UNCHANGED <<files, next>> /\ Same
Put(p, c) == files' = [files EXCEPT ![p] = c]
ToNext == next' = next + 1 /\ pc' = "guard"

\* --restore-paths wants every JAR of the pack to know its path, the selected
\* ones and the others.
Start ==
  /\ pc = "start"
  /\ Goto(IF opts.restorePaths /\ \E j \in DOMAIN jars : jars[j].restore_path = None
            THEN "err" ELSE "guard")

SkipUnselected ==
  /\ pc = "guard"
  /\ next \in DOMAIN jars \ selected
  /\ ToNext /\ UNCHANGED files /\ Same

Guarding == pc = "guard" /\ next \in selected

\* --restore-paths: overwrites what is there, but no directory.
GuardHome ==
  /\ Guarding
  /\ opts.restorePaths
  /\ Goto(IF files[Dest(next)] = Directory THEN "err" ELSE "create")

\* An existing destination is removed by --clean, kept for now by --overwrite,
\* and otherwise stops the run.
\*
\* Faulty variants: what --clean removes is removed before the first JAR, or
\* the existence of the destination is not looked at.
GuardNameCleansAll ==
  /\ Guarding
  /\ ~opts.restorePaths
  /\ IF files[Dest(next)] # Absent /\ opts.clean /\ files[Dest(next)] # Directory
       THEN /\ files' = [p \in Path |->
                          IF \E j \in selected : p = Dest(j) /\ j >= next
                            THEN Absent ELSE files[p]]
            /\ pc' = "create"
            /\ UNCHANGED next /\ Same
       ELSE Goto(IF files[Dest(next)] = Absent \/ (opts.overwrite /\ ~opts.clean)
                   THEN "create" ELSE "err")

GuardNothing ==
  /\ Guarding
  /\ ~opts.restorePaths
  /\ Goto("create")

GuardName ==
  /\ Guarding
  /\ ~opts.restorePaths
  /\ IF files[Dest(next)] # Absent /\ opts.clean /\ files[Dest(next)] # Directory
       THEN /\ Put(Dest(next), Absent)
            /\ pc' = "create"
            /\ UNCHANGED next /\ Same
       ELSE Goto(IF files[Dest(next)] = Absent \/ (opts.overwrite /\ ~opts.clean)
                   THEN "create" ELSE "err")

\* create_restore_tmp; a sibling that is there is emptied.
CreateTmp ==
  /\ pc = "create"
  /\ files[Tmp(next)] # Directory
  /\ Put(Tmp(next), Unfinished)
  /\ pc' = "write"
  /\ UNCHANGED next /\ Same

CreateTmpFails == pc = "create" /\ Goto("drop")

\* One of the writers fills the sibling from the blobs and checks the result.
WriteJar ==
  /\ pc = "write"
  /\ Put(Tmp(next), next)
  /\ pc' = "rename"
  /\ UNCHANGED next /\ Same

\* Faulty variant: a JAR that fails is left out and the run goes on.
WriteJarSkips == pc = "write" /\ ToNext /\ UNCHANGED files /\ Same

WriteJarFails == pc = "write" /\ Goto("drop")

\* replace_file renames the sibling over the destination.  Where that fails,
\* although something is there ("Windows cannot replace an existing dest"), it
\* unlinks the destination and renames again.  A directory can be neither
\* replaced nor unlinked.
Replaced ==
  /\ files[Dest(next)] # Directory
  /\ files' = [files EXCEPT ![Dest(next)] = files[Tmp(next)], ![Tmp(next)] = Absent]
  /\ IF opts.restorePaths THEN pc' = "attrs" /\ UNCHANGED next ELSE ToNext
  /\ Same

Rename == pc = "rename" /\ Replaced

RenameFails ==
  pc = "rename" /\ Goto(IF files[Dest(next)] = Absent THEN "drop" ELSE "unlink")

UnlinkDest ==
  /\ pc = "unlink"
  /\ files[Dest(next)] # Directory
  /\ Put(Dest(next), Absent)
  /\ unlinked' = unlinked \cup {Dest(next)}
  /\ pc' = "rename2"
  /\ UNCHANGED <<packing, before, opts, selected, next, runs>>

UnlinkFails == pc = "unlink" /\ Goto("drop")

RenameAgain == pc = "rename2" /\ Replaced

RenameAgainFails == pc = "rename2" /\ Goto("drop")

\* apply_restore_attrs: mode and owner, after the file is in place.
ApplyAttrs ==
  /\ pc = "attrs"
  /\ \/ ToNext /\ UNCHANGED files /\ Same
     \/ Goto("err")

\* Drop for PendingRestore.
DropTmp ==
  /\ pc = "drop"
  /\ IF files[Tmp(next)] = Directory THEN UNCHANGED files ELSE Put(Tmp(next), Absent)
  /\ pc' = "err"
  /\ UNCHANGED next /\ Same

Finish == pc = "guard" /\ next = Len(jars) + 1 /\ Goto("ok")

Running == pc \notin {"pack", "unpacked", "ok", "err", "killed"}

Kill == Running /\ Goto("killed")

\* The same command once more.
Rerun ==
  /\ pc \in {"ok", "err", "killed"}
  /\ runs < MaxRuns
  /\ runs' = runs + 1
  /\ next' = 1
  /\ pc' = "start"
  /\ UNCHANGED <<packing, files, before, opts, selected, unlinked>>

Next ==
  \/ SkipInput \/ NameJar \/ Packed
  \/ Start \/ SkipUnselected \/ GuardHome \/ GuardName \/ CreateTmp
  \/ CreateTmpFails \/ WriteJar \/ WriteJarFails \/ Rename \/ RenameFails
  \/ UnlinkDest \/ UnlinkFails \/ RenameAgain \/ RenameAgainFails
  \/ ApplyAttrs \/ DropTmp \/ Finish \/ Kill \/ Rerun

Spec == Init /\ [][Next]_vars

-----------------------------------------------------------------------------
\* The files a command packs: an argument whatever it is called, what a walk
\* finds only if it is called like an archive, and nothing that is excluded.
Reached(c) ==
  LET kept == {p \in ToSet(c.args) : ~path_excluded(p, c.exclude)}
      walked == IF c.recursive THEN UNION {Below[d] : d \in kept \cap DOMAIN Below} ELSE {}
  IN  {p \in kept : Kind[p] = "file"}
        \cup {p \in walked : /\ Kind[p] = "file"
                             /\ is_archive_path(p) /\ ~path_excluded(p, c.exclude)}

\* A pack has each of those paths once, although one may be named twice, or named
\* and found; with --sort-inputs in an order that neither the order of the
\* arguments nor that of the walk can change.  It is paths that dedupe_inputs
\* compares, not files: "./a" and "a" are both packed.
PacksEachPathOnce ==
  pc \notin {"pack", "unpacked"} =>
    LET path == [j \in DOMAIN jars |-> jars[j].source_path]
    IN  /\ IsInjective(path) /\ ToSet(path) = Reached(command)
        /\ command.sort => \A i, j \in DOMAIN path : i < j => PathLess(path[i], path[j])

\* No two JARs of a pack have one name, although a generated name may be the
\* real one of an input before or after it ("`-d` restore would otherwise
\* overwrite", DESIGN.md).
NamesAreUnique == \A i, j \in DOMAIN jars : jars[i].name = jars[j].name => i = j

\* The JARs that go where JAR j goes: with --restore-paths a file that has been
\* packed under two spellings of its path is restored twice to one place.
Copies(j) == {i \in selected : Dest(i) = Dest(j)}

\* A run that succeeds has put every selected JAR, whole, at its destination, or
\* a JAR of the same file.
EveryJarIsRestored ==
  pc = "ok" => \A j \in selected : files[Dest(j)] \in Copies(j)

\* At any moment, after any number of runs that failed or were killed, a
\* destination holds what it held before or a whole restored JAR.  It can have
\* become empty only because --clean removed it or replace_file unlinked it,
\* and each run does so to one destination at most.  (The code's docs leave out
\* the second cause: "Restore does not unlink dest first", DESIGN.md.)
Emptied ==
  {p \in {Dest(j) : j \in selected} : files[p] = Absent /\ before[p] # Absent}

DestsAreOldOrNew ==
  (\A j \in DOMAIN jars : jars[j].restore_path # None) \/ ~opts.restorePaths =>
    /\ \A j \in selected :
         Dest(j) \in Emptied \/ files[Dest(j)] \in {before[Dest(j)]} \cup Copies(j)
    /\ \A p \in Emptied : (opts.clean /\ ~opts.restorePaths) \/ p \in unlinked
    /\ Cardinality(Emptied) <= runs

\* "default: fail if the target JAR exists": without --overwrite, --clean or
\* --restore-paths no file that was there before is lost, and one that the
\* command itself restored earlier is as safe.
NothingIsClobbered ==
  [][~opts.overwrite /\ ~opts.clean /\ ~opts.restorePaths =>
       \A p \in Path \ {Tmp(j) : j \in selected} :
         files[p] # Absent => files'[p] = files[p]]_vars
=============================================================================
