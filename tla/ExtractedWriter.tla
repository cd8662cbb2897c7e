-------------------------- MODULE ExtractedWriter ---------------------------
(***************************************************************************)
(* ExtractedSession (src/crate/src/formats/extracted.rs) and its sources:  *)
(* the files of a disc image, found by the walk of its directory tables,   *)
(* or those of an ExtractedFilesystem, are handed over one after the other *)
(* under their names; the launch executable may be patched on the way.     *)
(* A read that throws is repeated by the driver.                           *)
(***************************************************************************)
EXTENDS ExtractedFs, Xdvdfs

CONSTANTS
  Images,         \* the discs to extract, records of Xdvdfs with a container
  ChunkLimits,    \* the arguments of nextChunk() to try
  UpdateNames,    \* names that begin with $SYSTEMUPDATE, in any case
  XbeNames,       \* names that end in default.xbe, in any case
  NoXbe,          \* names of files that are no executable
  Paths,          \* paths to override or to copy
  Ranges,         \* <<offset, size>> of copies
  MaxFailures     \* bound on the errors a driver takes

ASSUME ExtractedAssumption ==
  /\ \A disc \in Images : IsImage(disc) /\ disc.container \in {"raw", "packed"}
  /\ ChunkLimits \subseteq Nat \ {0}
  /\ Ranges \subseteq Nat \X Nat
  /\ MaxFailures \in Nat \ {0}

VARIABLES
  phase,          \* "new", "open", "refused" or "streaming"
  image,          \* the disc, or NoImage
  probed,         \* what a probe finds on it, whenever it is done
  files,          \* what the session hands over
  current_index,
  current_offset_in_file,
  started,
  last_returned_name,
  xbe_patch,      \* whether the executable is to be patched
  xbe_index,      \* its place in files, 0 without one
  pending_patched,\* the bytes of the patched file that are left
  failures,       \* errors so far
  out             \* driver: place in the manifest |-> the bytes received while
                  \* the session was there, and the names they came under

sessionVars == <<files, current_index, current_offset_in_file, started, last_returned_name,
                 xbe_patch, xbe_index, pending_patched>>
vars == <<fsVars, phase, image, probed, sessionVars, failures, out>>

NoImage ==
  [container |-> "none", magics |-> {}, length |-> 0,
   root |-> [sector |-> 0, size |-> 0], tables |-> <<>>]
NoName == <<>>
Nothing == [pending |-> FALSE, bytes |-> <<>>]

-----------------------------------------------------------------------------
(* The source of an image: XisoSource, or a container without an offset      *)

ImageOffset(disc) == IF disc.container = "raw" THEN RootOffset[IsoType(disc)] ELSE 0

\* What a reader over the source sees: the image from its offset on, in whole
\* sectors.
Stream(disc) ==
  [disc EXCEPT
     !.length = ((@ - ImageOffset(disc)) \div SectorSize) * SectorSize,
     !.magics = {type \in DOMAIN RootOffset : \E known \in @ :
                   RootOffset[known] = ImageOffset(disc) + RootOffset[type]}]

\* source::open() and probe_source_over(), which reads the stream again.
Probe(disc) ==
  IF IsoType(disc) = NoType \/ IsoType(Stream(disc)) = NoType
  THEN [ok |-> FALSE, offset |-> 0, length |-> 0, entries |-> <<>>]
  ELSE LET walk == ReadRoot(Stream(disc))
       IN [ok |-> walk.ok, entries |-> walk.entries,
           offset |-> ImageOffset(disc), length |-> Stream(disc).length]

\* filter() and retain(): the elements that are in a set, in their order.
Kept(elements, set) ==
  FoldLeft(LAMBDA kept, e : IF e \in set THEN Append(kept, e) ELSE kept, <<>>, elements)

DiscFiles ==
  LET found == Kept(probed.entries, {e \in Range(probed.entries) : ~e.is_directory})
  IN [i \in DOMAIN found |->
        [path |-> found[i].path, size |-> found[i].size,
         image_offset |-> probed.offset + found[i].sector * SectorSize, fs_index |-> 0]]

FsFiles ==
  [i \in DOMAIN FileEntries |->
     [path |-> FileEntries[i].path, size |-> FileEntries[i].size,
      image_offset |-> 0, fs_index |-> i]]

-----------------------------------------------------------------------------
(* Opening                                                                   *)

\* Faulty: the place in the listing is taken for the place in the session.
FsIndexShifted(listed) == [i \in DOMAIN listed |-> [listed[i] EXCEPT !.fs_index = i]]

KeepFsIndex(listed) == listed

Retained(listed, skip_system_update) ==
  KeepFsIndex(IF skip_system_update
              THEN Kept(listed, {f \in Range(listed) : f.path[1] \notin UpdateNames})
              ELSE listed)

\* is_root_default_xbe()
IsRootDefaultXbe(path) == Len(path) = 1 /\ path[1] \in XbeNames

\* source::open() fails where there is nothing to read.
OpenSource ==
  /\ phase = "new"
  /\ phase' = IF (image = NoImage /\ backing = "none")
                 \/ (image # NoImage /\ ~probed.ok) THEN "refused" ELSE "open"
  /\ UNCHANGED <<fsVars, image, probed, sessionVars, failures, out>>

\* What else an open view of files serves before a session takes it over.
UseFs ==
  /\ phase = "open" /\ image = NoImage
  /\ \/ \E path \in Paths : OverrideFile(path)
     \/ \E path \in Paths, range \in Ranges : CopyFileIn(path, range[1], range[2])
     \/ ReadLaunchExecutable
  /\ UNCHANGED <<phase, image, probed, sessionVars, failures, out>>

\* open() and open_from_extracted()
OpenSession ==
  /\ phase = "open"
  /\ \E skip_system_update, patch \in BOOLEAN :
       /\ files' = Retained(IF image = NoImage THEN FsFiles ELSE DiscFiles,
                            skip_system_update)
       /\ xbe_patch' = patch
  /\ xbe_index' = SelectInSeq(files', LAMBDA f : IsRootDefaultXbe(f.path))
  /\ phase' = "streaming"
  /\ UNCHANGED <<fsVars, image, probed, current_index, current_offset_in_file, started,
                 last_returned_name, pending_patched, failures, out>>

-----------------------------------------------------------------------------
(* next_chunk()                                                              *)

Current == files[current_index]
IsDone == current_index > Len(files)
OutputManifest == [i \in DOMAIN files |-> files[i].size]

\* read_exact_in_file() of an image: nothing is read beyond the last sector.
SeekPos(file, offset) == file.image_offset - probed.offset + offset
StreamBytes(seek_pos, len) ==
  [k \in 1 .. len |-> [file |-> 0, pos |-> probed.offset + seek_pos + k, by |-> "source"]]
InStream(seek_pos, len) == len = 0 \/ seek_pos + len <= probed.length

\* Reading a range of the current file; a read that throws leaves no bytes.
ReadThere(offset, len, ok) ==
  /\ IF image = NoImage
     THEN /\ Activate(Current.fs_index)
          /\ Answer(Current.fs_index, offset, len, ok)
          /\ ~ok => MayThrow(Current.fs_index, len)
          /\ UNCHANGED <<backing, parts, overrides>>
     ELSE /\ IF ok THEN InStream(SeekPos(Current, offset), len) ELSE len > 0
          /\ UNCHANGED fsVars

BytesThere(offset, len) ==
  IF image = NoImage THEN RangeBytes(Current.fs_index, offset, len)
  ELSE StreamBytes(SeekPos(Current, offset), len)

Patched(bytes) == [k \in DOMAIN bytes |-> [bytes[k] EXCEPT !.by = "patch"]]

\* The driver gets a chunk, which belongs to the current file.
Deliver(name, bytes) ==
  LET before == IF current_index \in DOMAIN out THEN out[current_index]
                ELSE [names |-> {}, bytes |-> <<>>]
  IN out' = Insert(out, current_index,
                   [names |-> before.names \cup {name}, bytes |-> before.bytes \o bytes])

PatchThis == xbe_patch /\ xbe_index = current_index

\* Hands over more of the patched file, which ends by being all handed over.
FromPending(name, bytes, max_bytes) ==
  LET n == Min({max_bytes, Len(bytes)})
      finished == n = Len(bytes)
  IN /\ pending_patched' = IF finished THEN Nothing
                           ELSE [pending |-> TRUE, bytes |-> SubSeq(bytes, n + 1, Len(bytes))]
     /\ current_index' = IF finished THEN current_index + 1 ELSE current_index
     /\ started' = IF finished THEN FALSE ELSE started
     /\ Deliver(name, SubSeq(bytes, 1, n))

\* The patch fails on what is no XBE.
Patchable(file) == Last(file.path) \notin NoXbe /\ file.size > 0

\* The file to patch is read whole, once.
NextPatchedChunk(max_bytes) ==
  /\ PatchThis
  /\ IF pending_patched.pending
     THEN /\ FromPending(last_returned_name, pending_patched.bytes, max_bytes)
          /\ UNCHANGED <<fsVars, last_returned_name>>
     ELSE /\ Patchable(Current)
          /\ ReadThere(0, Current.size, TRUE)
          /\ last_returned_name' = Current.path
          /\ FromPending(Current.path, Patched(BytesThere(0, Current.size)), max_bytes)
  /\ UNCHANGED <<current_offset_in_file, failures>>

\* The first read of a file is at its beginning.
OffsetInFile == IF started THEN current_offset_in_file ELSE 0

ToRead(max_bytes) == Min({max_bytes, Current.size - OffsetInFile})

NextFileChunk(max_bytes) ==
  /\ ~PatchThis
  /\ LET n == ToRead(max_bytes)
         finished == OffsetInFile + n >= Current.size
     IN /\ ReadThere(OffsetInFile, n, TRUE)
        /\ current_offset_in_file' = OffsetInFile + n
        /\ current_index' = IF finished THEN current_index + 1 ELSE current_index
        /\ started' = ~finished
        /\ last_returned_name' = Current.path
        /\ Deliver(Current.path, BytesThere(OffsetInFile, n))
  /\ UNCHANGED <<pending_patched, failures>>

\* Faulty: what could not be read counts as read.
OffsetAfterThrow(max_bytes) == OffsetInFile + ToRead(max_bytes)

OffsetKeptOnThrow(max_bytes) == OffsetInFile

\* A read throws, or can never succeed, or the patch does not apply.
ChunkFails(max_bytes) ==
  LET whole == PatchThis
      n == IF whole THEN Current.size ELSE ToRead(max_bytes)
      offset == IF whole THEN 0 ELSE OffsetInFile
  IN /\ ~(whole /\ pending_patched.pending)
     /\ \E ok \in BOOLEAN : /\ ok => whole /\ ~Patchable(Current)
                            /\ ReadThere(offset, n, ok)
     /\ current_offset_in_file' = IF whole THEN current_offset_in_file
                                  ELSE OffsetKeptOnThrow(max_bytes)
     /\ started' = (started \/ ~whole)
     /\ last_returned_name' = IF whole THEN last_returned_name ELSE Current.path
     /\ failures' = failures + 1
     /\ UNCHANGED <<current_index, pending_patched, out>>

NextChunk ==
  /\ phase = "streaming" /\ ~IsDone /\ failures < MaxFailures
  /\ \E max_bytes \in ChunkLimits :
       NextPatchedChunk(max_bytes) \/ NextFileChunk(max_bytes) \/ ChunkFails(max_bytes)
  /\ UNCHANGED <<phase, image, probed, files, xbe_patch, xbe_index>>

-----------------------------------------------------------------------------
Init ==
  /\ \/ FsInit /\ image = NoImage
     \/ /\ image \in Images
        /\ backing = "none" /\ parts = <<>> /\ active = 0 /\ overrides = {}
        /\ answer = NoAnswer
  /\ probed = Probe(image)
  /\ phase = "new"
  /\ files = <<>> /\ current_index = 1 /\ current_offset_in_file = 0
  /\ started = FALSE /\ last_returned_name = NoName
  /\ xbe_patch = FALSE /\ xbe_index = 0 /\ pending_patched = Nothing
  /\ failures = 0 /\ out = <<>>

Next == OpenSource \/ UseFs \/ OpenSession \/ NextChunk

Spec == Init /\ [][Next]_vars /\ WF_vars(OpenSource) /\ WF_vars(OpenSession) /\ WF_vars(NextChunk)

-----------------------------------------------------------------------------
(* Properties                                                                *)

\* The type invariant: the session's fields have the types the code gives
\* them, and a file is pending only if it is the one to patch.
TypeOK ==
  /\ phase \in {"new", "open", "refused", "streaming"}
  /\ backing \in {"parts", "package", "none"}
  /\ active \in 0 .. Len(parts) /\ overrides \subseteq DOMAIN parts
  /\ current_index \in 1 .. Len(files) + 1
  /\ started => current_offset_in_file \in 0 .. Current.size
  /\ xbe_index \in 0 .. Len(files)
  /\ pending_patched.pending => PatchThis
  /\ failures \in 0 .. MaxFailures

Tagged(bytes, tag) == [k \in DOMAIN bytes |-> [bytes[k] EXCEPT !.by = tag]]

\* The bytes of a file on the disc: behind the root of the volume found there,
\* from the sector its directory entry names.
OnDisc(path) ==
  LET entry == CHOOSE e \in Range(probed.entries) : e.path = path
  IN [k \in 1 .. entry.size |->
        [file |-> 0, by |-> "source",
         pos |-> RootOffset[IsoType(image)] + entry.sector * SectorSize + k]]

InListing(file) ==
  [k \in 1 .. FileEntries[file].size |->
     [file |-> file, pos |-> k, by |-> IF file \in overrides THEN "override" ELSE "source"]]

\* A packed container is taken to hold an image from the root of its volume
\* on.  What is read of one that does not is not what the tree names.
StoredAtRoot ==
  image.container = "packed" /\ IsoType(image) # NoType => RootOffset[IsoType(image)] = 0

\* What the i-th file of the session may be: of a package, one of those that
\* are listed under its path.
Contents(i) ==
  LET own == IF image = NoImage
             THEN {InListing(f) : f \in {g \in DOMAIN FileEntries :
                                           FileEntries[g].path = files[i].path}}
             ELSE {OnDisc(files[i].path)}
  IN IF xbe_patch /\ xbe_index = i THEN {Tagged(bytes, "patch") : bytes \in own} ELSE own

\* Files listed under one path arrive one after the other, as listed.
InListedOrder ==
  image = NoImage =>
    \A i, j \in DOMAIN out : i < j =>
      \A x \in Range(out[i].bytes), y \in Range(out[j].bytes) : x.file < y.file

\* While the session is at a file the driver gets, under its name and no
\* other, a prefix of that file's own bytes, from the place the directory tree
\* or the listing gives it, whatever threw, was skipped or was patched before;
\* a session that is done has handed over every file whole, the empty ones
\* too.  Only a package can list a path twice: both files come, in turn.
FilesArriveWhole ==
  /\ \A i \in DOMAIN out : i \in DOMAIN files /\ out[i].names = {files[i].path}
  /\ StoredAtRoot => \A i \in DOMAIN out : \E content \in Contents(i) :
                       /\ IsPrefix(out[i].bytes, content)
                       /\ IsDone => out[i].bytes = content
  /\ IsDone => DOMAIN out = DOMAIN files
  /\ InListedOrder

\* What holds of the session in every state.
SessionSound == TypeOK /\ FilesArriveWhole

\* The directory tables that can be reached from the root: those in every set
\* that has the root and, with a table, the tables its directories name.
Subdirectories(disc, sectors) ==
  {node \in UNION {Range(disc.tables[s]) : s \in sectors \cap DOMAIN disc.tables} :
     node.is_directory /\ node.size # 0}

IsClosed(disc, sectors) ==
  /\ disc.root.size # 0 => disc.root.sector \in sectors
  /\ \A node \in Subdirectories(disc, sectors) : node.sector \in sectors

ReachedTables(disc) ==
  LET known == {disc.root.sector} \cup
                 {node.sector : node \in Subdirectories(disc, DOMAIN disc.tables)}
  IN {sector \in known : \A S \in SUBSET known : IsClosed(disc, S) => sector \in S}

IfRoot(disc, sector, x) == IF sector = disc.root.sector THEN {x} ELSE {}

\* The sizes a reachable table is named with.
NamedSizes(disc, sector) ==
  {node.size : node \in {n \in Subdirectories(disc, ReachedTables(disc)) : n.sector = sector}}
    \cup IfRoot(disc, sector, disc.root.size)

\* The directories of a listing that name a table, and what one of them holds.
DirsAt(disc, walk, sector) ==
  {e.path : e \in {x \in Range(walk.entries) : x.is_directory /\ x.size # 0 /\ x.sector = sector}}
    \cup IfRoot(disc, sector, <<>>)

FoundIn(walk, dir) ==
  {[name |-> Last(e.path), is_directory |-> e.is_directory, sector |-> e.sector, size |-> e.size] :
     e \in {x \in Range(walk.entries) : Front(x.path) = dir}}

\* The walk over a disc's directory tables ends even where they form a loop.
\* It succeeds if every table that can be reached can be read, in every size
\* it is named with, and only if each can be in one of them.  Then it lists
\* the nodes of each of these tables once, under one of the directories that
\* name the table, and nothing else.
WalkIsComplete ==
  image # NoImage /\ IsoType(image) # NoType =>
    LET walk == ReadRoot(image)
        Readable(sector, size) == RegionReadable(image, [sector |-> sector, size |-> size])
    IN /\ walk.ok => walk.stack = <<>>
       /\ (\A sector \in ReachedTables(image) : \A size \in NamedSizes(image, sector) :
             Readable(sector, size)) => walk.ok
       /\ walk.ok =>
            /\ \A sector \in ReachedTables(image) :
                 /\ \E size \in NamedSizes(image, sector) : Readable(sector, size)
                 /\ \E dir \in DirsAt(image, walk, sector) :
                      /\ FoundIn(walk, dir) = Range(image.tables[sector])
                      /\ \A other \in DirsAt(image, walk, sector) \ {dir} : FoundIn(walk, other) = {}
            /\ \A e \in Range(walk.entries) : \E sector \in ReachedTables(image) :
                 Front(e.path) \in DirsAt(image, walk, sector)
            /\ \A i, j \in DOMAIN walk.entries :
                 walk.entries[i].path = walk.entries[j].path => i = j

\* The last file listed under a path.
LastListed(path) ==
  CHOOSE j \in DOMAIN FileEntries :
    /\ FileEntries[j].path = path
    /\ \A k \in DOMAIN FileEntries : k > j => FileEntries[k].path # path

\* The library that lays out an image from listings of directories comes to
\* every file, in its own directory and with its size, except those for which
\* another file stands where a directory is needed, or is listed last under
\* the same path with a size of its own.
RebuildReachesFiles ==
  phase \in {"open", "streaming"} /\ image = NoImage =>
    \A i \in DOMAIN FileEntries :
      LET path == FileEntries[i].path
          child(n) == ReadDir(SubSeq(path, 1, n - 1))
          reached == /\ \A n \in DOMAIN path : path[n] \in DOMAIN child(n)
                     /\ \A n \in 1 .. Len(path) - 1 : child(n)[path[n]].is_directory
                     /\ child(Len(path))[Last(path)] =
                          [is_directory |-> FALSE, len |-> FileEntries[i].size]
      IN reached <=> /\ \A j \in DOMAIN FileEntries : ~IsStrictPrefix(FileEntries[j].path, path)
                     /\ FileEntries[LastListed(path)].size = FileEntries[i].size

\* Both ways between trees and listings, of a disc and of an image to be.
TreesAreWhole == WalkIsComplete /\ RebuildReachesFiles

\* The refinement mapping to PartStream: nothing is planned but the listing.
Written ==
  [i \in DOMAIN files |-> IF i \in DOMAIN out THEN Len(out[i].bytes) ELSE 0]

Stage ==
  IF phase = "refused" \/ failures = MaxFailures THEN "failed"
  ELSE IF phase # "streaming" THEN "planning"
  ELSE IF IsDone THEN "done" ELSE "streaming"

Driver ==
  INSTANCE PartStream WITH phase <- Stage, manifest <- OutputManifest, written <- Written

\* The session hands over exactly what its manifest promises, file after
\* file, and a driver that keeps calling gets there or gives up.
ImplementsPartStream == Driver!LiveSpec

\* The refinement mapping to FileStore: every file as it was, or overridden.
\* No two bytes have the same number.
Numbered(file, pos, by) ==
  2 * ((file + pos) * (file + pos) + pos) + (IF by = "override" THEN 1 ELSE 0)

Number(bytes) ==
  [k \in DOMAIN bytes |-> Numbered(bytes[k].file, bytes[k].pos, bytes[k].by)]

Store ==
  IF phase \in {"new", "refused"} THEN <<>>
  ELSE [i \in DOMAIN parts |-> Number(InListing(i))]

View == INSTANCE FileStore WITH store <- Store, answer <- [answer EXCEPT !.bytes = Number(@)]

\* The view of files implements FileStore: the session's reads, copies into
\* an image and overrides of whole files, whichever reader was active before.
ImplementsFileStore == View!Spec
=============================================================================
