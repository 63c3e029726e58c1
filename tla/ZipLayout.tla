------------------------------ MODULE ZipLayout -------------------------------
(***************************************************************************)
(* How scan.rs decides where the ZIP starts in a JAR that has bytes in     *)
(* front of it, and whether the listing it gets from the zip crate is the  *)
(* one of the outer central directory.                                     *)
(*                                                                         *)
(* A layout is [prefix_len, view_shift]: the launcher is [0, prefix_len),  *)
(* and offsets are relative to view_shift (prefix_len when they are        *)
(* ZIP-relative, 0 when zip -A made them file-absolute).  scan_jar is the  *)
(* whole reading of one JAR: its listing and the content of every file.    *)
(***************************************************************************)
EXTENDS ZipCrate

CONSTANT MaxPrefix      \* MAX_PREFIX: a longer prefix is refused

ASSUME PrefixAssumption == MaxPrefix \in Nat

Layout(prefix_len, view_shift) == [prefix_len |-> prefix_len, view_shift |-> view_shift]

-----------------------------------------------------------------------------
(* The real first local header: the least offset of the directory. *)

\* Faulty variant: a header of any name.
local_any_name(f, at, name) == Is(f, at, "lfh")

local_name_eq(f, at, name) == Is(f, at, "lfh") /\ At(f, at).name = name

\* A decoy header of another name does not count, nor does offset 0.
find_local_named(f, name) ==
    LET hits == {i \in 1..MaxPrefix : local_name_eq(f, i, name)}
    IN IF hits = {} THEN None ELSE Some(Min(hits))

cd_local_offset(r) ==
    LET v == CdFields(r)
    IN IF r.off # MaxU32 THEN Some(r.off)
       ELSE IF Slots(v, 3) > Len(r.x) THEN None ELSE Some(r.x[Slots(v, 3)])

\* [off, name] of the least offset among the complete rows; the first row
\* that is none, or whose offset cannot be resolved, ends the reading.
read_cd_min_local(f, cd, size) ==
    LET complete(i) == Is(f, i, "cd") /\ cd_local_offset(At(f, i)) # None
        read == {i \in cd..(cd + size - 1) : \A j \in cd..i : complete(j)}
        off(i) == cd_local_offset(At(f, i))[1]
        best == {i \in read : \A j \in read : off(i) < off(j) \/ (off(i) = off(j) /\ i <= j)}
    IN IF read = {} THEN None
       ELSE LET i == CHOOSE i \in best : TRUE
            IN Some([off |-> off(i), name |-> At(f, i).name])

\* After zip -A the recorded offset is the place in the file; otherwise the
\* local header of that name is searched for from the front.
find_cd_first_local(f) ==
    AndThen(find_cd_bounds(f), LAMBDA b :
      IF b.n = 0 \/ b.size = 0 \/ ~Is(f, b.at - b.size, "cd") THEN None
      ELSE AndThen(read_cd_min_local(f, b.at - b.size, b.size), LAMBDA least :
             IF local_name_eq(f, least.off, least.name) THEN Some(least.off)
             ELSE find_local_named(f, least.name)))

-----------------------------------------------------------------------------
(* The layout. *)

\* Opening is not enough: the crate may have latched onto a stored nested
\* ZIP.  The count must be the outer one and entry 0 must start the archive.
zip_archive_opens(f, view_shift, prefix_len, outer_entries) ==
    \E archive \in ToSet(ZipArchive(f, view_shift)) :
       /\ Len(archive.entries) = outer_entries
       /\ Len(archive.entries) > 0 => archive.entries[1].start + view_shift = prefix_len

layout_from_first_pk(f) ==
    AndThen(find_cd_first_local(f), LAMBDA first :
      IF first = 0 \/ first > MaxPrefix THEN None
      ELSE LET opens(view_shift) ==
                 zip_archive_opens(f, view_shift, first, find_cd_bounds(f)[1].n)
           IN IF opens(first) THEN Some(Layout(first, first))
              ELSE IF opens(0) THEN Some(Layout(first, 0)) ELSE None)

confirm_zip_at(f, at) == Is(f, at, "lfh") \/ Is(f, at, "eocd")

\* An empty archive behind a prefix has no local header to look for.
layout_from_eocd_empty(f) ==
    AndThen(find_cd_bounds(f), LAMBDA b :
      LET extra == b.at - b.size - b.off
      IN IF b.n # 0 \/ b.size # 0 \/ extra < 0 \/ extra > MaxPrefix THEN None
         ELSE IF extra # 0
         THEN IF confirm_zip_at(f, extra) THEN Some(Layout(extra, extra)) ELSE None
         ELSE IF b.off \in 1..MaxPrefix /\ confirm_zip_at(f, b.off)
              THEN Some(Layout(b.off, 0)) ELSE None)

detect_zip_layout(f) ==
    IF Is(f, 0, "lfh") \/ Is(f, 0, "eocd") THEN Some(Layout(0, 0))
    ELSE OrElse(layout_from_first_pk(f), layout_from_eocd_empty(f))

-----------------------------------------------------------------------------
(* A file that starts with a ZIP structure has no prefix to check, so its  *)
(* listing is compared with the count of the outer directory.              *)

\* A hole in front of the first local, and the view shifted past it lists
\* the outer count: the crate took the EOCD of a nested ZIP.
pk_start_is_nested_eocd_latch(f, len, n) ==
    /\ len # n
    /\ \E first \in ToSet(find_cd_first_local(f)) :
          first # 0 /\ zip_archive_opens(f, first, first, n)

\* The outer scan lets a duplicate name through, the child probe does not.
ListingRefused(f, layout, archive, child) ==
    IF layout.prefix_len # 0 THEN FALSE
    ELSE IF find_cd_bounds(f) = None THEN TRUE
    ELSE IF child THEN Len(archive.entries) # find_cd_bounds(f)[1].n
    ELSE pk_start_is_nested_eocd_latch(f, Len(archive.entries), find_cd_bounds(f)[1].n)

is_dir(name) == name \in DirNames

ScannedEntry(e) ==
    [name |-> e.name, is_dir |-> is_dir(e.name), crc |-> e.crc, method |-> e.method,
     uncomp |-> e.uncomp, comp |-> e.comp]

\* Listing and contents, or None when the JAR is refused: not a ZIP, a
\* latched listing, or an entry that does not read back.  A directory has
\* no content.  Names and comments are values here; the code decodes the comment
\* as UTF-8, with replacement characters where it is none.
Scan(f, child) ==
    AndThen(detect_zip_layout(f), LAMBDA layout :
    AndThen(ZipArchive(f, layout.view_shift), LAMBDA archive :
      LET content(i) == IF is_dir(archive.entries[i].name) THEN Some(<<>>) ELSE ReadEntry(archive, i)
      IN IF \/ ListingRefused(f, layout, archive, child)
            \/ \E i \in DOMAIN archive.entries : content(i) = None
         THEN None
         ELSE Some([prefix |-> Slice(f, 0, layout.prefix_len), comment |-> archive.comment,
                    entries |-> [i \in DOMAIN archive.entries |-> ScannedEntry(archive.entries[i])],
                    payload |-> [i \in DOMAIN archive.entries |-> content(i)[1]]])))

for_each_jar_entry_with_len(f) == Scan(f, FALSE)
scan_from_bytes(f) == Scan(f, TRUE)

=============================================================================
