----------------------------- MODULE SplitParts -----------------------------
(***************************************************************************)
(* Files that may together be one image: the concatenation                 *)
(* MultiPartReader makes of them (src/crate/src/core/source.rs), what the  *)
(* XDVDFS parser of Xdvdfs finds in it, and the tests a header and an      *)
(* ordering have to pass (src/crate/src/core/split_detect).                *)
(*                                                                         *)
(* A part says which bytes it holds: those of a disc of Discs from byte    *)
(* `from` on.  A byte of a concatenation is the disc and the offset it is  *)
(* taken from, so that a descriptor, a table or an executable is there     *)
(* exactly if all its bytes are, in their order, whoever they come from.   *)
(***************************************************************************)
EXTENDS Xdvdfs

CONSTANTS
  Discs,          \* name |-> an image of Xdvdfs with exes and a title
  ExtensionOf     \* name of a file |-> its extension in lower case

Lost == [disc |-> "lost", at |-> 0]    \* a byte that cannot be read

PartSize(parts, i) == parts[i].size

\* ends: where each part ends in the concatenation
Ends(parts) ==
  [i \in DOMAIN parts |-> FoldLeft(LAMBDA sum, part : sum + part.size, 0, SubSeq(parts, 1, i))]

TotalSize(parts) == IF parts = <<>> THEN 0 ELSE Last(Ends(parts))

\* locate_in(): the part that holds a position, past a boundary the next one.
LocateIn(ends, pos) == Min({Cardinality({i \in DOMAIN ends : ends[i] <= pos}) + 1, Len(ends)})

PartStart(ends, i) == IF i = 1 THEN 0 ELSE ends[i - 1]

ByteOf(part, offset) ==
  IF part.lost THEN Lost ELSE [disc |-> part.disc, at |-> part.from + offset]

Concatenate(parts, ends) ==
  [pos \in 1 .. Last(ends) |->
     LET i == LocateIn(ends, pos - 1) IN ByteOf(parts[i], pos - 1 - PartStart(ends, i))]

\* MultiPartReader
Bytes(parts) == Concatenate(parts, Ends(parts))

-----------------------------------------------------------------------------
(* What the parser finds in a run of bytes                                   *)

\* len bytes of one disc in their order
IsRun(bytes, pos, len) ==
  /\ pos + len <= Len(bytes)
  /\ bytes[pos + 1].disc \in DOMAIN Discs
  /\ \A k \in 0 .. len - 1 : bytes[pos + k + 1] = [bytes[pos + 1] EXCEPT !.at = @ + k]

Origin(bytes, pos) == bytes[pos + 1]

\* The volume whose descriptor stands at a known offset.
DescriptorAt(bytes, type) ==
  {d \in DOMAIN Discs :
     /\ IsRun(bytes, RootOffset[type], DescriptorEnd)
     /\ \E t \in Discs[d].magics : Origin(bytes, RootOffset[type]) = [disc |-> d, at |-> RootOffset[t]]}

\* The table of a directory at a byte, {} without one.
TableAt(bytes, pos) ==
  IF ~IsRun(bytes, pos, SectorSize) THEN {}
  ELSE LET from == Origin(bytes, pos)
           disc == Discs[from.disc]
       IN {disc.tables[s] : s \in {s \in DOMAIN disc.tables :
                                     from.at = RootOffset[IsoType(disc)] + s * SectorSize}}

\* The executable whose first len bytes stand at a byte, {} without one.
ExeAt(bytes, pos, len) ==
  IF ~IsRun(bytes, pos, len) THEN {}
  ELSE LET from == Origin(bytes, pos)
       IN {Discs[from.disc].exes[a] : a \in DOMAIN Discs[from.disc].exes \cap {from.at}}

TablesFrom(bytes, root) ==
  [s \in {s \in 0 .. Len(bytes) \div SectorSize : TableAt(bytes, root + s * SectorSize) # {}} |->
     CHOOSE t \in TableAt(bytes, root + s * SectorSize) : TRUE]

\* A run of bytes as an image of Xdvdfs, without a volume and with one.
Blank(bytes) ==
  [length |-> Len(bytes), bytes |-> bytes,
   magics |-> {type \in DOMAIN RootOffset : DescriptorAt(bytes, type) # {}},
   root |-> [sector |-> 0, size |-> 0], tables |-> <<>>]

Mounted(blank, type) ==
  IF type = NoType THEN blank
  ELSE [blank EXCEPT
          !.root = Discs[CHOOSE d \in DescriptorAt(blank.bytes, type) : TRUE].root,
          !.tables = TablesFrom(blank.bytes, RootOffset[type])]

Mount(blank) == Mounted(blank, IsoType(blank))

View(parts) == Mount(Blank(Bytes(parts)))

-----------------------------------------------------------------------------
(* probe.rs and TitleInfo::from_image()                                      *)

\* The root and the entries are all the size of an image is known from.
RequiredTotal(view, probed) == RootOffset[IsoType(view)] + MaxUsedPrefixSize(probed)

IsComplete(view, probed) ==
  probed.tree_fully_walked /\ view.length >= RequiredTotal(view, probed)

\* probe_completeness(); a read that throws is a volume that is not there, or
\* a walk that does not finish.
Completeness(view, probed) ==
  IF probed.recognised
  THEN [recognised |-> TRUE, is_complete |-> IsComplete(view, probed),
        required |-> RequiredTotal(view, probed)]
  ELSE [recognised |-> FALSE, is_complete |-> FALSE, required |-> 0]

NoTitle == [id |-> "none", disc_count |-> 0, disc_number |-> 0]

\* The launch executable: default.xex, else default.xbe.
LaunchEntries(entries) ==
  LET Named(name) == SelectSeq(entries, LAMBDA e : e.path = <<name>>)
  IN Named("default.xex") \o Named("default.xbe")

BeginOf(view, entry) == RootOffset[IsoType(view)] + entry.sector * SectorSize

\* An executable with its whole header at a byte.
HeaderAt(bytes, pos, kind) ==
  \E exe \in ExeAt(bytes, pos, 1) : exe.kind = kind /\ ExeAt(bytes, pos, exe.header) # {}

TitleAt(bytes, pos, name) ==
  IF HeaderAt(bytes, pos, ExtensionOf[name]) THEN Discs[Origin(bytes, pos).disc].title ELSE NoTitle

FromLaunch(view, launch) ==
  IF launch = <<>> THEN NoTitle
  ELSE TitleAt(view.bytes, BeginOf(view, launch[1]), Last(launch[1].path))

FromImage(view, probed) == FromLaunch(view, LaunchEntries(probed.entries))

-----------------------------------------------------------------------------
(* verify.rs                                                                 *)

\* A file that is a whole executable is no fragment of an image.
IsSelfContainedKnownFile(part) ==
  part.ext \in {"xex", "xbe"} /\ HeaderAt(Bytes(<<part>>), 0, part.ext)

\* What a probe finds in a file.
ProbedView(part, view, probed) ==
  [completeness |-> Completeness(view, probed),
   title |-> FromImage(view, probed),
   known_file |-> IsSelfContainedKnownFile(part)]

ProbeView(part, view) == ProbedView(part, view, ProbeStaged(view))

Probe(part) == ProbeView(part, View(<<part>>))

Checkable == {"xex", "xbe", "dll"}

\* verifiable_entries_past(): executables that begin at the boundary or past it.
VerifiableEntriesPast(probed, boundary) ==
  {e \in Range(probed.entries) :
     /\ ~e.is_directory
     /\ ExtensionOf[Last(e.path)] \in Checkable
     /\ e.sector * SectorSize >= boundary}

MagicMatches(view, entry) ==
  \E exe \in ExeAt(view.bytes, BeginOf(view, entry), 1) : exe.kind = ExtensionOf[Last(entry.path)]

\* Faulty: a total that is one byte short passes.
LongEnough(view, probed) == view.length + 1 >= RequiredTotal(view, probed)

HoldsEveryByte(view, probed) == view.length >= RequiredTotal(view, probed)

VerifiesProbed(first, view, probed) ==
  /\ probed.recognised
  /\ probed.tree_fully_walked
  /\ HoldsEveryByte(view, probed)
  /\ first >= RootOffset[IsoType(view)]
  /\ \A e \in VerifiableEntriesPast(probed, first - RootOffset[IsoType(view)]) : MagicMatches(view, e)

Verifies(first, view) == VerifiesProbed(first, view, ProbeStaged(view))

\* verify_ordering_impl(): the image parses, no byte is missing, and every
\* executable past the first part shows its magic.
VerifyOrdering(parts) == parts # <<>> /\ Verifies(PartSize(parts, 1), View(parts))

-----------------------------------------------------------------------------
(* What an image is                                                          *)

\* The whole tree is there, and executables are where the directories say.
HoldsTree(first, view, walk) ==
  /\ IsoType(view) # NoType
  /\ walk.ok
  /\ \A e \in Range(walk.entries) :
       /\ BeginOf(view, e) + e.size <= view.length
       /\ ~e.is_directory /\ ExtensionOf[Last(e.path)] \in Checkable /\ BeginOf(view, e) >= first
            => MagicMatches(view, e)

HoldsView(first, view) == HoldsTree(first, view, ReadRoot(view))

HoldsImage(parts) == HoldsView(PartSize(parts, 1), View(parts))
=============================================================================
