---------------------------- MODULE ExtractedFs -----------------------------
(***************************************************************************)
(* ExtractedFilesystem (src/crate/src/core/extracted_fs.rs): a view of     *)
(* loose files, or of the files of a ZAR or STFS package, with whole files *)
(* overridden in memory.  Loose files are read through one reader at a     *)
(* time, the active one; a package is read through its own reader, here    *)
(* what FileStore promises.                                                *)
(*                                                                         *)
(* A name JavaScript passes is a path, with a leading separator or without *)
(* (lead); a name of a package has none.  new() refuses a path that is     *)
(* passed twice; nobody looks whether a package lists one twice.           *)
(***************************************************************************)
EXTENDS Integers, SequencesExt, FiniteSetsExt

CONSTANTS
  Loose,        \* the lists of loose files JavaScript may pass
  Packages,     \* the listings a package may have
  Lower         \* name |-> its ASCII lower case

\* A name is split at its separators, which leaves a component at least.
ListedFile == [lead : BOOLEAN, path : Seq(STRING) \ {<<>>}, size : Nat]

ASSUME ExtractedFsAssumption == Loose \cup Packages \subseteq Seq(ListedFile)

VARIABLES
  backing,      \* "parts" or "package", "none" where new() returns an error
  parts,        \* the names and sizes of its files
  active,       \* number of the loose file being read, 0 without one
  overrides,    \* numbers of the files overridden
  answer        \* caller: the range read last, and what came back

fsVars == <<backing, parts, active, overrides, answer>>

NoAnswer == [file |-> 0, offset |-> 0, len |-> 0, ok |-> FALSE, bytes |-> <<>>]

-----------------------------------------------------------------------------
(* Names and directories                                                     *)

\* normalize(): leading separators are dropped.
Normalize(name) == name.path

IsSafePathComponent(component) == component \notin {"", ".", ".."}

\* validate_names()
ValidNames(names) ==
  /\ names # <<>>
  /\ \A i \in DOMAIN names : \A c \in Range(Normalize(names[i])) : IsSafePathComponent(c)
  /\ \A i, j \in DOMAIN names : Normalize(names[i]) = Normalize(names[j]) => i = j

FileEntries == [i \in DOMAIN parts |-> [path |-> Normalize(parts[i]), size |-> parts[i].size]]

Directory == [is_directory |-> TRUE, len |-> 0]

\* A map in which a key has a value, whether it had one before or none.
Insert(map, key, value) ==
  [x \in DOMAIN map \cup {key} |-> IF x = key THEN value ELSE map[x]]

\* Faulty: a directory replaces the file that has its name.
AddChildLast(children, dir, entry) ==
  LET first == entry.path[Len(dir) + 1]
      child == IF Len(entry.path) = Len(dir) + 1
               THEN [is_directory |-> FALSE, len |-> entry.size] ELSE Directory
  IN IF IsStrictPrefix(dir, entry.path) THEN Insert(children, first, child) ELSE children

\* A file replaces the directory that has its name, not the other way round.
AddChild(children, dir, entry) ==
  LET first == entry.path[Len(dir) + 1]
      is_file == Len(entry.path) = Len(dir) + 1
  IN IF ~IsStrictPrefix(dir, entry.path) THEN children
     ELSE IF is_file THEN Insert(children, first, [is_directory |-> FALSE, len |-> entry.size])
     ELSE IF first \in DOMAIN children THEN children
     ELSE Insert(children, first, Directory)

\* read_dir_over(): name |-> entry of the children of a directory.
ReadDir(dir) ==
  FoldLeft(LAMBDA c, entry : LET children == c IN AddChild(children, dir, entry),
           <<>>, FileEntries)

\* find(): the first file with this path, 0 without one.
Find(path) == SelectInSeq(FileEntries, LAMBDA entry : entry.path = path)

\* find_launch_executable(): default.xex in the root, else the last default.xbe.
AtRoot(name) == {i \in DOMAIN parts : /\ Len(FileEntries[i].path) = 1
                                      /\ Lower[FileEntries[i].path[1]] = name}

LaunchExecutable ==
  CASE AtRoot("default.xex") # {} -> Min(AtRoot("default.xex"))
    [] AtRoot("default.xbe") # {} /\ AtRoot("default.xex") = {} -> Max(AtRoot("default.xbe"))
    [] OTHER -> 0

-----------------------------------------------------------------------------
(* Reading                                                                   *)

\* Faulty: a reader that is active serves every file.
ReaderIsAny(file) == IF active = 0 THEN file ELSE active

\* The reader that is active after it was made sure to be the file's.
ReaderOf(file) == file

\* The bytes of a range: of the override, of the part read, of the package.
RangeBytes(file, offset, len) ==
  [k \in 1 .. len |->
     [file |-> IF file \in overrides \/ backing = "package" THEN file ELSE ReaderOf(file),
      pos |-> offset + k, by |-> IF file \in overrides THEN "override" ELSE "source"]]

\* read_exact_at() leaves the file's reader active, whether it throws or not.
Activate(file) ==
  active' = IF backing = "parts" /\ file \notin overrides THEN ReaderOf(file) ELSE active

InBounds(file, offset, len) == offset + len <= parts[file].size

\* An override is in memory, and reading nothing asks nobody.
MayThrow(file, len) == file \notin overrides /\ len > 0

Answer(file, offset, len, ok) ==
  answer' = [file |-> file, offset |-> offset, len |-> len, ok |-> ok,
             bytes |-> IF ok THEN RangeBytes(file, offset, len) ELSE <<>>]

\* override_file(): the same number of bytes, or an error.
OverrideFile(path) ==
  /\ Find(path) # 0
  /\ overrides' = overrides \cup {Find(path)}
  /\ UNCHANGED <<backing, parts, active, answer>>

CopyLen(file, offset, size) == Min({size, Max({parts[file].size - offset, 0})})

\* copy_file_in(), called by the library that lays out an image for a range
\* that begins in the file: what the file has of it; the rest is zeros.
CopyFileIn(path, offset, size) ==
  LET file == Find(path)
      len == CopyLen(file, offset, size)
  IN /\ file # 0
     /\ InBounds(file, offset, 0)
     /\ Activate(file)
     /\ \E ok \in BOOLEAN : /\ ~ok => MayThrow(file, len)
                            /\ Answer(file, offset, len, ok)
     /\ UNCHANGED <<backing, parts, overrides>>

\* read_launch_executable(): the whole file.
ReadLaunchExecutable ==
  /\ LaunchExecutable # 0
  /\ Activate(LaunchExecutable)
  /\ \E ok \in BOOLEAN :
       /\ ~ok => MayThrow(LaunchExecutable, parts[LaunchExecutable].size)
       /\ Answer(LaunchExecutable, 0, parts[LaunchExecutable].size, ok)
  /\ UNCHANGED <<backing, parts, overrides>>

\* new(), new_from_zar() and new_from_stfs().
NamesOf(files) == [i \in DOMAIN files |-> [lead |-> files[i].lead, path |-> files[i].path]]

FsInit ==
  /\ \/ /\ parts \in Loose
        /\ backing = IF ValidNames(NamesOf(parts)) THEN "parts" ELSE "none"
     \/ parts \in Packages /\ backing = "package"
  /\ active = 0
  /\ overrides = {}
  /\ answer = NoAnswer
=============================================================================
