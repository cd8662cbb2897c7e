----------------------------- MODULE XisoWriter -----------------------------
(***************************************************************************)
(* XisoSession (src/crate/src/formats/xiso/write.rs): hands over an XDVDFS *)
(* image, trimmed, zeroed in its gaps or rebuilt, as one stream or cut     *)
(* into files at SPLIT_MARGIN.  Nothing is planned by hash_next_part(): the*)
(* manifest is known when the session opens.                               *)
(*                                                                         *)
(* Every next_chunk() reads the source once, so it is one step, and one    *)
(* that throws can be repeated.  The driver that appends each chunk to the *)
(* file currentEntryName() names, and gives up after MaxFailures throws,   *)
(* is part of the model.                                                   *)
(***************************************************************************)
EXTENDS Scrub

CONSTANTS
  SplitSectors,       \* SPLIT_MARGIN_SECTORS
  ChunkSectors,       \* values of the sectors_per_chunk option
  ChunkLimits,        \* values of max_bytes the driver passes
  MaxRebuilt,         \* longest image a rebuild makes, in sectors
  MaxFailures         \* throws of next_chunk() after which a driver gives up

ASSUME XisoAssumption ==
  /\ {SplitSectors, MaxRebuilt, MaxFailures} \subseteq Nat \ {0}
  /\ ChunkSectors \subseteq Nat
  /\ ChunkLimits \subseteq Nat

VARIABLES
  split,                 \* the option, which comes with a base_name
  sectors_per_chunk,     \* the fields of XisoSession
  current_sector,
  current_entry_name,    \* number of the split file, from 0; 0 also without
  output_manifest,       \* sizes of the split files
  failures,              \* driver: throws so far
  written,               \* driver: size of every output file
  landed                 \* driver: where each sector was written, and as what

xisoVars == <<split, sectors_per_chunk, current_sector, current_entry_name,
              output_manifest>>
driverVars == <<failures, written, landed>>
vars == <<scrubVars, xisoVars, driverVars>>

LargestImage == Max(DiscSizes \cup {MaxRebuilt})

\* Enough for a file of every sector; a trimmed image may end where an entry
\* of no bytes lies, beyond the image.
Names == 0 .. Max({LargestImage} \cup {e.sector : e \in Entries})

Nowhere == [name |-> 0, offset |-> -1, content |-> "image"]

-----------------------------------------------------------------------------
(* Opening                                                                   *)

\* build_output_manifest_for: the margin for every file but the last.
BuildOutputManifest(total) ==
  [p \in 1 .. CeilDiv(total, SplitSectors) |->
     Min({SplitSectors, total - (p - 1) * SplitSectors}) * SectorSize]

TrimTotal == CeilDiv(MaxEnd - disc.root_offset, SectorSize)

ZeroMask == IF X360 THEN {} ELSE (0 .. FullSectors - 1) \ UsedSectors

\* The tail of open() for every mode.
Finish(total, zero) ==
  /\ pc' = "idle"
  /\ total_sectors' = total
  /\ zero_sectors' = zero
  /\ split' \in BOOLEAN
  /\ \E n \in ChunkSectors : sectors_per_chunk' = Max({n, 1})
  /\ output_manifest' = IF split' THEN BuildOutputManifest(total) ELSE <<>>
  /\ UNCHANGED <<disc, mode, scanVars, current_sector, current_entry_name,
                 driverVars>>

OpenTrim ==
  /\ pc = "opening"
  /\ mode = "trim"
  /\ ~ScanFails
  /\ Finish(TrimTotal, {})

OpenZero ==
  /\ pc = "opening"
  /\ mode = "zero"
  /\ ~ScanFails
  /\ Finish(FullSectors, ZeroMask)

\* Mode full, and any mode with extracted files for a source: the library
\* lays out a new image of some length.
OpenRebuilt ==
  /\ pc = "opening"
  /\ mode = "full"
  /\ \E total \in 1 .. MaxRebuilt : Finish(total, {})

\* open() returns an error: scan() refuses the image, a read it needs throws,
\* or a split is asked for without a name.
OpenFails ==
  /\ pc = "opening"
  /\ mode \in {"trim", "zero", "full"}
  /\ pc' = "failed"
  /\ UNCHANGED <<disc, mode, scanVars, planVars, xisoVars, driverVars>>

-----------------------------------------------------------------------------
(* Streaming                                                                 *)

IsDone == current_sector >= total_sectors

SplitIndex == current_sector \div SplitSectors

EntryName == IF split THEN SplitIndex ELSE current_entry_name

\* Faulty: a chunk is not kept within its split file.
UnclampedEnd(max) ==
  LET limit == Min({sectors_per_chunk, Max({max \div SectorSize, 1})})
  IN Min({current_sector + limit, total_sectors})

\* The end of the next chunk: bounded by the option, by max bytes, by the
\* split file and by the image.
ChunkEnd(max) ==
  LET limit == Min({sectors_per_chunk, Max({max \div SectorSize, 1})})
      boundary == (SplitIndex + 1) * SplitSectors
      clamped == IF split THEN Min({limit, boundary - current_sector}) ELSE limit
  IN Min({current_sector + clamped, total_sectors})

\* Faulty: the mask is looked up relative to the chunk.
ContentInChunk(s) == IF s - current_sector \in zero_sectors THEN "zero" ELSE "image"

Content(s) == IF s \in zero_sectors THEN "zero" ELSE "image"

\* A direct source ends with the image; a rebuilt one has all its sectors.
Readable(end) == mode = "full" \/ end <= disc.sectors

NextChunk(max) ==
  LET end == ChunkEnd(max) IN
  /\ pc = "idle"
  /\ ~IsDone
  /\ Readable(end)
  /\ current_entry_name' = EntryName
  /\ current_sector' = end
  /\ written' = [written EXCEPT ![EntryName] = @ + (end - current_sector) * SectorSize]
  /\ landed' =
       [s \in DOMAIN landed |->
          IF s \in current_sector .. end - 1
          THEN [name |-> EntryName,
                offset |-> written[EntryName] + (s - current_sector) * SectorSize,
                content |-> Content(s)]
          ELSE landed[s]]
  /\ UNCHANGED <<scrubVars, split, sectors_per_chunk, output_manifest, failures>>

\* What a next_chunk() that throws leaves behind: the name is set, the cursor
\* is not, so the driver may call again.
Throw ==
  /\ pc = "idle"
  /\ ~IsDone
  /\ failures < MaxFailures
  /\ failures' = failures + 1
  /\ current_entry_name' = EntryName
  /\ pc' = IF failures' = MaxFailures THEN "failed" ELSE "idle"
  /\ UNCHANGED <<disc, mode, scanVars, planVars, split, sectors_per_chunk,
                 current_sector, output_manifest, written, landed>>

\* JavaScript throws.
ReadFails == Throw

\* read_exact() meets the end of the image, as it must for this chunk.
ReadBeyondImage == (\E max \in ChunkLimits : ~Readable(ChunkEnd(max))) /\ Throw

Ended ==
  /\ pc \in {"planned", "failed"} \/ (pc = "idle" /\ IsDone)
  /\ UNCHANGED vars

Init ==
  /\ ScrubInit
  /\ split = FALSE
  /\ sectors_per_chunk = 1
  /\ current_sector = 0
  /\ current_entry_name = 0
  /\ output_manifest = <<>>
  /\ failures = 0
  /\ written = [name \in Names |-> 0]
  /\ landed = [s \in 0 .. LargestImage - 1 |-> Nowhere]

Call ==
  \/ ScrubStep /\ UNCHANGED <<xisoVars, driverVars>>
  \/ OpenTrim \/ OpenZero \/ OpenRebuilt \/ OpenFails
  \/ \E max \in ChunkLimits : NextChunk(max)
  \/ ReadBeyondImage

Next ==
  \/ Call
  \/ ScanReadFails /\ UNCHANGED <<xisoVars, driverVars>>
  \/ ReadFails
  \/ Ended

Spec == Init /\ [][Next]_vars

\* A driver that keeps calling; JavaScript need not ever throw.
FairSpec == Spec /\ WF_vars(Call)

-----------------------------------------------------------------------------
(* Properties                                                                *)

\* The plan and the session have the types the code gives them, the cursor
\* stays within the plan and the mask within the sectors it applies to.
TypeOK ==
  /\ mode \in {"none", "partial", "trim", "zero", "full"}
  /\ pc \in {"opening", "scanning", "planned", "idle", "failed"}
  /\ sector_index \in 0 .. LastScanned + 1
  /\ run_start \in {NoRun} \cup 0 .. LastScanned
  /\ total_sectors \in Nat
  /\ zero_sectors \subseteq 0 .. total_sectors - 1
  /\ split \in BOOLEAN
  /\ sectors_per_chunk \in Nat \ {0}
  /\ current_sector \in 0 .. total_sectors
  /\ current_entry_name \in 0 .. Max({Len(output_manifest) - 1, 0})
  /\ output_manifest \in Seq(Nat \ {0})
  /\ failures \in 0 .. MaxFailures
  /\ written \in [Names -> Nat]
  /\ landed \in [0 .. LargestImage - 1 ->
                   [name : Names, offset : Int, content : {"image", "zero"}]]

Planned == pc \in {"planned", "idle"}

\* However a disc is scrubbed, no sector with a byte of a file or directory
\* table is cut off or zeroed, and the plan reaches beyond the image only
\* if an entry of no bytes lies there, which scan() does not notice.
UsedSectorsKept ==
  Planned /\ mode # "full" =>
    /\ \A s \in 0 .. disc.sectors - 1 : Needed(s) => Kept(s)
    /\ total_sectors > disc.sectors =>
         \E e \in disc.entries : e.size = 0 /\ e.sector > disc.sectors

\* A partial scrub of an original Xbox disc keeps, beyond what is needed,
\* the security sectors and nothing else: the loop of scan_for_zero_run()
\* finds the first run of exactly the right length, if there is one.  Behind
\* a root offset, where it reads other sectors than it names, it promises
\* less: it keeps a run of the right length or none, or meets the end of the
\* image and fails.
SecuritySectorsKept ==
  pc = "planned" /\ Partial /\ ~X360 =>
    LET spared == {s \in 0 .. disc.sectors - 1 : Kept(s) /\ ~Needed(s)}
    IN IF disc.root_offset = 0 THEN spared = SecuritySectors
       ELSE spared \in {{}} \cup {first .. first + SecurityRunLen - 1 :
                                  first \in 0 .. LastScanned}

\* What holds of plan and session in every state.
PlanSound == TypeOK /\ UsedSectorsKept /\ SecuritySectorsKept

\* Every sector lands once, in order, in the split file and at the offset
\* that its number gives, as it is or zeroed as the mode demands.
SectorsLandInPlace ==
  \A s \in DOMAIN landed :
    /\ (landed[s] # Nowhere) <=> s < current_sector
    /\ landed[s] # Nowhere =>
         /\ landed[s].name = (IF split THEN s \div SplitSectors ELSE 0)
         /\ landed[s].offset =
              SectorSize * (IF split THEN s % SplitSectors ELSE s)
         /\ landed[s].content =
              (IF mode = "zero" /\ ~X360 /\ ~Needed(s) THEN "zero" ELSE "image")

\* The refinement mapping to PartStream; an unsplit stream is one file.  A
\* plan that is handed on to the writer of another format promises nothing.
Phase ==
  CASE pc = "failed" -> "failed"
    [] pc = "planned" -> "done"
    [] pc = "idle" -> IF IsDone THEN "done" ELSE "streaming"
    [] OTHER -> "planning"

Promised ==
  IF pc \in {"opening", "scanning", "planned"} \/ total_sectors = 0 THEN <<>>
  ELSE IF split THEN output_manifest ELSE <<total_sectors * SectorSize>>

HandedOver == [p \in DOMAIN Promised |-> written[p - 1]]

Stream ==
  INSTANCE PartStream WITH phase <- Phase, manifest <- Promised, written <- HandedOver

\* The session implements PartStream: the files named at open() get exactly
\* the promised bytes, one after the other, whichever calls throw, and a
\* driver that keeps calling gets there or meets an error.
ImplementsPartStream == Stream!LiveSpec
=============================================================================
