------------------------------- MODULE Scrub -------------------------------
(***************************************************************************)
(* Scrubbing (src/crate/src/core/scrub.rs): which sectors of a disc image  *)
(* a conversion keeps, which it zeroes and where it cuts the image off.    *)
(* scan() marks the sectors that files and directory tables claim.         *)
(* plan_direct(), which the CCI, CISO and GOD writers call when they open, *)
(* adds a search for the security sectors of an original Xbox disc: the    *)
(* one run of exactly SecurityRunLen blank, unclaimed sectors.  XisoWriter *)
(* extends this module with the XISO writer, which calls scan() alone.     *)
(*                                                                         *)
(* A step of the search reads one sector through JavaScript, so it is one  *)
(* action and may throw.  A sector is abstracted to whether it is blank    *)
(* (all zero); a directory entry to the bytes it claims.                   *)
(***************************************************************************)
EXTENDS Integers, Sequences, FiniteSets, FiniteSetsExt

CONSTANTS
  DiscSizes,          \* image lengths considered, in sectors
  Roots,              \* root directory tables: records [sector, size]
  Entries,            \* directory entries: [sector, size, is_directory]
  MaxEntries,         \* most entries of an image
  MaxMarks,           \* most sectors of an image that are not blank
  RootOffsets,        \* places of the game partition, in sectors
  SectorSize,         \* SECTOR_SIZE
  VolumeDescriptor,   \* VOLUME_DESCRIPTOR_SECTOR
  RedumpTotal,        \* REDUMP_TOTAL_SECTORS
  RedumpVideo,        \* REDUMP_VIDEO_SECTORS
  SecurityScanEnd,    \* SECURITY_SCAN_END_SECTOR
  SecurityRunLen      \* SECURITY_RUN_LEN

\* Sizes of images are 64 bits wide and the fields of an entry 32: there are
\* finitely many of each.
ASSUME ScrubAssumption ==
  /\ IsFiniteSet(DiscSizes) /\ IsFiniteSet(Entries)
  /\ DiscSizes \subseteq Nat \ {0}
  /\ Roots \subseteq [sector : Nat, size : Nat \ {0}]
  /\ Entries \subseteq [sector : Nat, size : Nat, is_directory : BOOLEAN]
  /\ RootOffsets \subseteq Nat
  /\ {MaxEntries, MaxMarks, VolumeDescriptor, SecurityScanEnd} \subseteq Nat
  /\ {SectorSize, RedumpTotal, SecurityRunLen} \subseteq Nat \ {0}
  /\ RedumpVideo \in 1 .. RedumpTotal - 1
  /\ \A root \in Roots : root.sector > VolumeDescriptor

VARIABLES
  disc,          \* the source: its sectors, directory tree and executable
  mode,          \* ScrubMode "none", "partial" or XisoMode "trim", "zero", "full"
  pc,            \* "opening", "scanning", "planned", then the session's state
  sector_index,  \* loop variable of scan_for_zero_run()
  run_start,     \* its run_start; NoRun for None
  total_sectors, \* the plan: sectors to convert ...
  zero_sectors   \* ... and those of them to zero; {} also stands for None

scanVars == <<sector_index, run_start>>
planVars == <<total_sectors, zero_sectors>>
scrubVars == <<disc, mode, pc, scanVars, planVars>>

NoRun == -1
Partial == mode = "partial"

Discs ==
  {d \in [sectors : DiscSizes,
          root : Roots,
          entries : UNION {kSubset(k, Entries) : k \in 0 .. MaxEntries},
          executable : {"xbe", "xex", "none"},
          root_offset : {o * SectorSize : o \in RootOffsets},
          marks : UNION {kSubset(k, 0 .. Max(DiscSizes) - 1) : k \in 0 .. MaxMarks}] :
     /\ d.marks \subseteq 0 .. d.sectors - 1
     /\ d.executable # "none" => \E e \in d.entries : ~e.is_directory}

-----------------------------------------------------------------------------
(* scan().  A definition marked "faulty" is the one after it with a          *)
(* plausible bug, kept to show which property would notice.                  *)

CeilDiv(a, b) == (a + b - 1) \div b

\* file_size as the callers derive it from the opened source.
FileSize == disc.root_offset + disc.sectors * SectorSize

FullSectors == CeilDiv(FileSize - disc.root_offset, SectorSize)

\* Where a region begins and ends in the file.
Start(region) == disc.root_offset + region.sector * SectorSize
End(region) == Start(region) + region.size

\* mark_region: the sectors a region claims, the last one possibly in part.
MarkRegion(region) ==
  (Start(region) - disc.root_offset) \div SectorSize ..
    CeilDiv(End(region) - disc.root_offset, SectorSize) - 1

Files == {e \in disc.entries : ~e.is_directory}

\* mark_directory_table_sectors: the root table and every subdirectory's.
DirectoryTables == {disc.root} \cup {e \in disc.entries : e.is_directory}

UsedSectors ==
  {VolumeDescriptor} \cup UNION {MarkRegion(r) : r \in Files \cup DirectoryTables}

MaxEnd == Max({disc.root_offset} \cup {End(r) : r \in Files \cup DirectoryTables})

\* scan() returns an error for a claim beyond the image, then for an image
\* without a launch executable.
ScanFails == Max(UsedSectors) >= FullSectors \/ disc.executable = "none"

X360 == disc.executable = "xex"

-----------------------------------------------------------------------------
(* plan_direct()                                                             *)

TrimmedSectors(trimmed_len) == CeilDiv(trimmed_len, SectorSize)

\* The plan of a partial scrub that protects the security sectors found.
PartialTotal(security) ==
  TrimmedSectors(Max({MaxEnd - disc.root_offset} \cup
                     {(s + 1) * SectorSize : s \in security}))

PartialMask(security) ==
  IF X360 THEN {} ELSE (0 .. PartialTotal(security) - 1) \ (UsedSectors \cup security)

PlanPartial(security) ==
  /\ pc' = "planned"
  /\ total_sectors' = PartialTotal(security)
  /\ zero_sectors' = PartialMask(security)

\* Only images of a redump's size are searched, with or without the video
\* partition.
HasRedumpSize == FullSectors \in {RedumpTotal - RedumpVideo, RedumpTotal}

LastScanned == Min({SecurityScanEnd, FullSectors - 1})

\* Mode none copies everything.
PlanNone ==
  /\ pc = "opening"
  /\ mode = "none"
  /\ pc' = "planned"
  /\ total_sectors' = FullSectors
  /\ UNCHANGED <<disc, mode, scanVars, zero_sectors>>

\* Mode partial with nothing to search for: an error, or a plan at once.
PlanWithoutSearch ==
  /\ pc = "opening"
  /\ Partial
  /\ \/ /\ ScanFails
        /\ pc' = "failed"
        /\ UNCHANGED planVars
     \/ /\ ~ScanFails
        /\ X360 \/ ~HasRedumpSize
        /\ PlanPartial({})
  /\ UNCHANGED <<disc, mode, scanVars>>

\* find_security_sectors() enters scan_for_zero_run().
BeginSearch ==
  /\ pc = "opening"
  /\ Partial
  /\ ~ScanFails
  /\ ~X360
  /\ HasRedumpSize
  /\ pc' = "scanning"
  /\ UNCHANGED <<disc, mode, scanVars, planVars>>

\* The sector of the image at the reader's position: the position adds
\* root_offset although the reader begins at the game partition.
SectorRead == (disc.root_offset + sector_index * SectorSize) \div SectorSize

InsideImage(sector) == sector < disc.sectors

\* Blank and unclaimed: the sector may belong to the run searched for.
IsCandidate ==
  /\ SectorRead \notin disc.marks
  /\ sector_index \notin UsedSectors

\* Faulty: a longer run will do.
LongEnough(start, end) == end - start >= SecurityRunLen - 1

\* The run start .. end has exactly the length searched for.
IsSecurityRun(start, end) == end - start = SecurityRunLen - 1

\* One iteration of scan_for_zero_run(): read a sector; it opens a run, goes
\* on with it, or ends it, and then the search may be over.
ScanSector ==
  /\ pc = "scanning"
  /\ sector_index <= LastScanned
  /\ InsideImage(SectorRead)
  /\ \/ /\ IsCandidate
        /\ run_start' = IF run_start = NoRun THEN sector_index ELSE run_start
        /\ sector_index' = sector_index + 1
        /\ UNCHANGED <<pc, planVars>>
     \/ /\ ~IsCandidate
        /\ run_start = NoRun \/ ~IsSecurityRun(run_start, sector_index - 1)
        /\ run_start' = NoRun
        /\ sector_index' = sector_index + 1
        /\ UNCHANGED <<pc, planVars>>
     \/ /\ ~IsCandidate
        /\ run_start # NoRun
        /\ IsSecurityRun(run_start, sector_index - 1)
        /\ PlanPartial(run_start .. sector_index - 1)
        /\ UNCHANGED scanVars
  /\ UNCHANGED <<disc, mode>>

\* The search has seen every sector and found nothing.
EndSearch ==
  /\ pc = "scanning"
  /\ sector_index > LastScanned
  /\ PlanPartial({})
  /\ UNCHANGED <<disc, mode, scanVars>>

\* JavaScript throws: the error ends the conversion before it has begun.
ScanReadFails ==
  /\ pc = "scanning"
  /\ sector_index <= LastScanned
  /\ pc' = "failed"
  /\ UNCHANGED <<disc, mode, scanVars, planVars>>

\* So does read_exact() when it meets the end of the image.
SearchOvershoots == ~InsideImage(SectorRead) /\ ScanReadFails

ScrubStep ==
  \/ PlanNone \/ PlanWithoutSearch \/ BeginSearch
  \/ ScanSector \/ SearchOvershoots \/ EndSearch

ScrubInit ==
  /\ disc \in Discs
  /\ mode \in {"none", "partial", "trim", "zero", "full"}
  /\ pc = "opening"
  /\ sector_index = 0
  /\ run_start = NoRun
  /\ total_sectors = 0
  /\ zero_sectors = {}

-----------------------------------------------------------------------------
(* What a plan has to respect, said of bytes and whole runs                  *)

\* A sector is needed if it is the volume descriptor or a byte of it belongs
\* to a file or a directory table.
Needed(s) ==
  \/ s = VolumeDescriptor
  \/ \E r \in disc.entries \cup {disc.root} :
       \E byte \in r.sector * SectorSize .. r.sector * SectorSize + r.size - 1 :
         byte \div SectorSize = s

Spare(s) == s \notin disc.marks /\ ~Needed(s)

\* The first sectors of the runs of exactly SecurityRunLen spare sectors that
\* another sector, within the bound of the search, ends.
SecurityRuns ==
  {first \in 0 .. LastScanned - SecurityRunLen :
     /\ \A s \in first .. first + SecurityRunLen - 1 : Spare(s)
     /\ ~Spare(first + SecurityRunLen)
     /\ first > 0 => ~Spare(first - 1)}

\* The security sectors of an original Xbox disc of a redump's size.
SecuritySectors ==
  IF X360 \/ ~HasRedumpSize \/ SecurityRuns = {} THEN {}
  ELSE LET first == Min(SecurityRuns) IN first .. first + SecurityRunLen - 1

Kept(s) == s < total_sectors /\ s \notin zero_sectors
=============================================================================
