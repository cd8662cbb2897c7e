----------------------------- MODULE CisoWriter -----------------------------
(***************************************************************************)
(* CisoSession (src/crate/src/formats/ciso/write.rs): the two-pass writer  *)
(* of the CISO format.  Unlike a CCI part, a CISO part is not              *)
(* self-contained: one header and one index, at the start of the first     *)
(* part, serve all parts, and an index position is relative to whichever   *)
(* part its sector lies in.  hash_next_part() fills the index;             *)
(* next_chunk() hands over header and index, then walks the sectors and    *)
(* decides again, on its own, where every part ends.                       *)
(*                                                                         *)
(* As in CciWriter, a loop iteration is a step, since it calls back into   *)
(* JavaScript for the sector's bytes; a sector is the length of what is    *)
(* stored for it; and the driver that appends every chunk to the file      *)
(* currentEntryName() names is part of the model.  CisoReader opens what   *)
(* has been written.                                                       *)
(***************************************************************************)
EXTENDS Integers, Sequences, FiniteSets

CONSTANTS
  MaxSectors,         \* longest image considered
  StoredLens,         \* lengths compress_sector() can return
  SectorSize,         \* SECTOR_SIZE, the length of a sector stored raw
  HeaderSize,         \* bytes of the header (24)
  AlignMult,          \* 1 << header.alignment
  EntrySize,          \* bytes of one index entry (4)
  SplitPoint,         \* FILE_SPLIT_POINT
  PaddingModulus,     \* FILE_PADDING_MODULUS
  BatchSectors,       \* SIZING_BATCH_SECTORS
  ChunkLimits         \* values of max_bytes the driver passes

ASSUME CisoAssumption ==
  /\ MaxSectors \in Nat
  /\ StoredLens \subseteq 1 .. SectorSize
  /\ SectorSize \in Nat \ {0, 1}
  /\ HeaderSize \in Nat
  /\ AlignMult \in Nat \ {0}
  /\ EntrySize \in Nat \ {0}
  /\ SplitPoint \in Nat
  /\ PaddingModulus \in Nat \ {0}
  /\ BatchSectors \in Nat \ {0}
  /\ ChunkLimits \subseteq Nat \ {0}
  /\ SectorSize % AlignMult = 0
  /\ HeaderSize % AlignMult = 0
  /\ EntrySize % AlignMult = 0
  /\ SplitPoint > SectorSize + AlignMult
  /\ SplitPoint > HeaderSize + EntrySize * (MaxSectors + 1)

VARIABLES
  image,                     \* stored length of every sector of the image
  total_data_sectors,
  index_table,               \* the fields of CisoSession, in its order
  sizing_next_sector,
  sizing_position,
  sizing_part_start,
  sizing_part_sizes,
  sizing_done,
  header_index_pos,
  stream_next_sector,
  stream_position,
  stream_part_start,
  stream_part_index,
  stream_part_needs_padding,
  current_entry_name,
  output_manifest,
  pc,                        \* "idle" between calls, else the running loop
  sector,                    \* loop variable of hash_next_part()
  max_bytes,                 \* argument of the running next_chunk()
  out_len,                   \* bytes in its `out` buffer
  written,                   \* driver: size of every output file
  landed                     \* driver: where each sector was written

imageVars == <<image, total_data_sectors>>
sizingVars == <<index_table, sizing_next_sector, sizing_position,
                sizing_part_start, sizing_part_sizes, sizing_done,
                output_manifest>>
streamVars == <<header_index_pos, stream_next_sector, stream_position,
                stream_part_start, stream_part_index, stream_part_needs_padding>>
callVars == <<pc, sector, max_bytes, out_len>>
driverVars == <<written, landed>>

vars == <<imageVars, sizingVars, streamVars, current_entry_name, callVars,
          driverVars>>

-----------------------------------------------------------------------------
(* Helpers.  A definition marked "faulty" is not part of the model: it is    *)
(* the definition after it with a plausible bug, kept to show which property *)
(* would notice.                                                             *)

Smaller(a, b) == IF a <= b THEN a ELSE b

Sectors == 0 .. total_data_sectors - 1
Names == 0 .. MaxSectors

\* A sector's place in the output: a file and an offset; Nowhere until then.
Nowhere == [name |-> 0, offset |-> -1]

\* Bytes of the header and of an index of one entry per sector and one more.
StartPosition == HeaderSize + EntrySize * (total_data_sectors + 1)

\* Bytes from x to the next multiple of m.
UpTo(m, x) == (m - (x % m)) % m

\* compress_sector(): a block that is not shorter is stored as it is.
IsCompressed(stored) == stored < SectorSize

AlignPadding(position) == UpTo(AlignMult, position)

PaddedPartSize(size) == size + UpTo(PaddingModulus, size)

\* Faulty: a part that needs no padding gets a full block of it.
AlwaysPadded(part_len) == PaddingModulus - (part_len % PaddingModulus)

\* The zero bytes next_chunk() hands over after a part's last sector.
TrailingPad(part_len) == PaddedPartSize(part_len) - part_len

\* Faulty: numbered names start at 2.
OutputNameTooHigh(index, total_parts) == IF total_parts <= 1 THEN 0 ELSE index + 2

\* output_name_for: 0 stands for the bare "game.cso" of a single-part
\* output, n for "game.n.cso".
OutputNameFor(index, total_parts) == IF total_parts <= 1 THEN 0 ELSE index + 1

TotalParts == Len(sizing_part_sizes)
SplitName(index) == OutputNameFor(index, TotalParts)

-----------------------------------------------------------------------------
(* Sizing                                                                    *)

\* Faulty: a batch that never gets anywhere.
EmptyBatchEnd == Smaller(sizing_next_sector, total_data_sectors)

BatchEnd == Smaller(sizing_next_sector + BatchSectors, total_data_sectors)

AlignedPosition == sizing_position + AlignPadding(sizing_position)

SizingSplits == AlignedPosition - sizing_part_start >= SplitPoint

PartStart == IF SizingSplits THEN AlignedPosition ELSE sizing_part_start

PartSizes(end) == Append(sizing_part_sizes, PaddedPartSize(end - sizing_part_start))

\* Where the next sector goes, relative to its part.
LocalPosition == AlignedPosition - PartStart

Init ==
  /\ total_data_sectors \in 1 .. MaxSectors
  /\ image \in [Sectors -> StoredLens]
  /\ index_table = [s \in 0 .. total_data_sectors |->
                      [position |-> 0, compressed |-> FALSE]]
  /\ sizing_next_sector = 0
  /\ sizing_position = StartPosition
  /\ sizing_part_start = 0
  /\ sizing_part_sizes = <<>>
  /\ sizing_done = FALSE
  /\ header_index_pos = 0
  /\ stream_next_sector = 0
  /\ stream_position = StartPosition
  /\ stream_part_start = 0
  /\ stream_part_index = 0
  /\ stream_part_needs_padding = FALSE
  /\ current_entry_name = OutputNameFor(0, 1)
  /\ output_manifest = <<>>
  /\ pc = "idle"
  /\ sector = 0
  /\ max_bytes = 0
  /\ out_len = 0
  /\ written = [name \in Names |-> 0]
  /\ landed = [s \in Sectors |-> Nowhere]

\* hash_next_part() enters its loop over one batch.
HashNextPart ==
  /\ pc = "idle"
  /\ ~sizing_done
  /\ pc' = "sizing"
  /\ sector' = sizing_next_sector
  /\ UNCHANGED <<imageVars, sizingVars, streamVars, current_entry_name,
                 max_bytes, out_len, driverVars>>

\* What an iteration of the loop does before it reads the sector: align the
\* position, then finish the part if it has reached the split point.
MakeRoom ==
  /\ pc = "sizing"
  /\ sector < BatchEnd
  /\ sizing_part_sizes' =
       IF SizingSplits THEN PartSizes(AlignedPosition) ELSE sizing_part_sizes
  /\ sizing_part_start' = PartStart
  /\ UNCHANGED <<imageVars, sizing_next_sector, sizing_done, output_manifest,
                 streamVars, current_entry_name, max_bytes, out_len, driverVars>>

SizeSector ==
  /\ MakeRoom
  /\ index_table' = [index_table EXCEPT ![sector] =
                       [position |-> LocalPosition \div AlignMult,
                        compressed |-> IsCompressed(image[sector])]]
  /\ sizing_position' = AlignedPosition + image[sector]
  /\ sector' = sector + 1
  /\ UNCHANGED pc

\* The batch is sized but sectors remain: hash_next_part() returns false.
YieldBatch ==
  /\ pc = "sizing"
  /\ sector = BatchEnd
  /\ sector < total_data_sectors
  /\ sizing_next_sector' = BatchEnd
  /\ pc' = "idle"
  /\ UNCHANGED <<imageVars, index_table, sizing_position, sizing_part_start,
                 sizing_part_sizes, sizing_done, output_manifest, streamVars,
                 current_entry_name, sector, max_bytes, out_len, driverVars>>

\* The last batch is sized: the last index entry marks the end of the data,
\* the open part is finished and the manifest published.
FinishLastBatch ==
  /\ pc = "sizing"
  /\ sector = BatchEnd
  /\ sector = total_data_sectors
  /\ sizing_next_sector' = BatchEnd
  /\ index_table' = [index_table EXCEPT ![total_data_sectors] =
                       [position |-> (sizing_position - sizing_part_start) \div AlignMult,
                        compressed |-> FALSE]]
  /\ sizing_part_sizes' = PartSizes(sizing_position)
  /\ sizing_part_start' = sizing_position
  /\ output_manifest' =
       LET sizes == PartSizes(sizing_position)
       IN [p \in 1 .. Len(sizes) |->
             [name |-> OutputNameFor(p - 1, Len(sizes)), size |-> sizes[p]]]
  /\ current_entry_name' = OutputNameFor(0, Len(PartSizes(sizing_position)))
  /\ sizing_done' = TRUE
  /\ pc' = "idle"
  /\ UNCHANGED <<imageVars, sizing_position, streamVars, sector, max_bytes,
                 out_len, driverVars>>

-----------------------------------------------------------------------------
(* Streaming                                                                 *)

\* Faulty: done although the last part's padding is still to come.
IsDoneEarly ==
  /\ sizing_done
  /\ header_index_pos >= StartPosition
  /\ stream_next_sector >= total_data_sectors

IsDone ==
  /\ sizing_done
  /\ header_index_pos >= StartPosition
  /\ stream_next_sector >= total_data_sectors
  /\ ~stream_part_needs_padding

\* The driver appends a chunk of n bytes to the file it was told.
AppendToFile(name, n) == written' = [written EXCEPT ![name] = @ + n]

\* The header and the index, in chunks of at most max bytes.
StreamHeaderAndIndex(max) ==
  /\ pc = "idle"
  /\ sizing_done
  /\ header_index_pos < StartPosition
  /\ current_entry_name' = SplitName(0)
  /\ LET end == Smaller(header_index_pos + max, StartPosition)
     IN /\ AppendToFile(SplitName(0), end - header_index_pos)
        /\ header_index_pos' = end
  /\ UNCHANGED <<imageVars, sizingVars, stream_next_sector, stream_position,
                 stream_part_start, stream_part_index,
                 stream_part_needs_padding, callVars, landed>>

\* The call after the one that finished a part: its padding, still under
\* the name of that part.
StreamPadding ==
  /\ pc = "idle"
  /\ sizing_done
  /\ header_index_pos >= StartPosition
  /\ stream_part_needs_padding
  /\ AppendToFile(current_entry_name,
                  TrailingPad(stream_position - stream_part_start))
  /\ stream_part_start' = stream_position
  /\ stream_part_needs_padding' = FALSE
  /\ stream_part_index' = IF stream_next_sector < total_data_sectors
                          THEN stream_part_index + 1 ELSE stream_part_index
  /\ UNCHANGED <<imageVars, sizingVars, header_index_pos, stream_next_sector,
                 stream_position, current_entry_name, callVars, landed>>

\* next_chunk() enters its loop over sectors.
StreamSectors(max) ==
  /\ pc = "idle"
  /\ sizing_done
  /\ header_index_pos >= StartPosition
  /\ ~stream_part_needs_padding
  /\ stream_next_sector < total_data_sectors
  /\ current_entry_name' = SplitName(stream_part_index)
  /\ pc' = "emitting"
  /\ max_bytes' = max
  /\ out_len' = 0
  /\ UNCHANGED <<imageVars, sizingVars, streamVars, sector, driverVars>>

LoopContinues ==
  /\ stream_next_sector < total_data_sectors
  /\ out_len < max_bytes
  /\ ~stream_part_needs_padding

\* One iteration: alignment padding, then the sector; the part ends if it
\* has reached the split point or the image is at its end.
EmitSector ==
  /\ pc = "emitting"
  /\ LoopContinues
  /\ LET pad == AlignPadding(stream_position)
         len == image[stream_next_sector]
     IN /\ landed' = [landed EXCEPT ![stream_next_sector] =
                        [name |-> current_entry_name,
                         offset |-> written[current_entry_name] + out_len + pad]]
        /\ out_len' = out_len + pad + len
        /\ stream_position' = stream_position + pad + len
        /\ stream_next_sector' = stream_next_sector + 1
        /\ stream_part_needs_padding' =
             \/ stream_position' - stream_part_start >= SplitPoint
             \/ stream_next_sector' >= total_data_sectors
  /\ UNCHANGED <<imageVars, sizingVars, header_index_pos, stream_part_start,
                 stream_part_index, current_entry_name, pc, sector, max_bytes,
                 written>>

ReturnSectors ==
  /\ pc = "emitting"
  /\ ~LoopContinues
  /\ AppendToFile(current_entry_name, out_len)
  /\ pc' = "idle"
  /\ max_bytes' = 0
  /\ out_len' = 0
  /\ UNCHANGED <<imageVars, sizingVars, streamVars, current_entry_name, sector,
                 landed>>

-----------------------------------------------------------------------------
(* The JavaScript read callback fails inside either loop: the call throws    *)
(* and the driver drops the session.  The interrupted iteration has already  *)
(* moved its position.                                                       *)

SizingReadFails ==
  /\ MakeRoom
  /\ sizing_position' = AlignedPosition
  /\ pc' = "failed"
  /\ UNCHANGED <<index_table, sector>>

StreamingReadFails ==
  /\ pc = "emitting"
  /\ LoopContinues
  /\ LET pad == AlignPadding(stream_position)
     IN /\ out_len' = out_len + pad
        /\ stream_position' = stream_position + pad
  /\ pc' = "failed"
  /\ UNCHANGED <<imageVars, sizingVars, header_index_pos, stream_next_sector,
                 stream_part_start, stream_part_index,
                 stream_part_needs_padding, current_entry_name, sector,
                 max_bytes, driverVars>>

\* Calls on a finished session return nothing and change nothing.
Ended ==
  /\ pc = "failed" \/ (pc = "idle" /\ IsDone)
  /\ UNCHANGED vars

Call ==
  \/ HashNextPart \/ SizeSector \/ YieldBatch \/ FinishLastBatch
  \/ \E max \in ChunkLimits : StreamHeaderAndIndex(max) \/ StreamSectors(max)
  \/ StreamPadding \/ EmitSector \/ ReturnSectors

Next == Call \/ SizingReadFails \/ StreamingReadFails \/ Ended

Spec == Init /\ [][Next]_vars

\* A driver that keeps calling until isDone(): while (!session.isDone()).
FairSpec == Spec /\ WF_vars(Call)

-----------------------------------------------------------------------------
(* Properties                                                                *)

\* The fields of the session and of the driver have the types the code
\* gives them; cursors stay within the image, names among the parts.
TypeOK ==
  /\ total_data_sectors \in 1 .. MaxSectors
  /\ image \in [Sectors -> StoredLens]
  /\ index_table \in [0 .. total_data_sectors -> [position : Nat, compressed : BOOLEAN]]
  /\ sizing_next_sector \in 0 .. total_data_sectors
  /\ sizing_position \in Nat
  /\ sizing_part_start \in 0 .. sizing_position
  /\ sizing_part_sizes \in Seq(Nat)
  /\ sizing_done \in BOOLEAN
  /\ header_index_pos \in 0 .. StartPosition
  /\ stream_next_sector \in 0 .. total_data_sectors
  /\ stream_position \in Nat
  /\ stream_part_start \in 0 .. stream_position
  /\ stream_part_index \in Nat
  /\ stream_part_needs_padding \in BOOLEAN
  /\ current_entry_name \in Names
  /\ output_manifest \in Seq([name : Nat, size : Nat])
  /\ pc \in {"idle", "sizing", "emitting", "failed"}
  /\ sector \in 0 .. total_data_sectors
  /\ max_bytes \in Nat
  /\ out_len \in Nat
  /\ written \in [Names -> Nat]
  /\ landed \in [Sectors -> [name : Names, offset : Int]]

\* The passes cut the image alike up to sector s: each part that ends before
\* s, according to the index, ends aligned.  Otherwise the streaming pass,
\* which asks for the split point before it aligns, cuts elsewhere or starts
\* the next part with the alignment padding the index does not count.
InStep(s) ==
  \A b \in 1 .. s : index_table[b].position < index_table[b - 1].position =>
    image[b - 1] % AlignMult = 0

\* The manifest describes what the streaming pass will hand over.
ManifestHolds == sizing_done /\ InStep(total_data_sectors - 1)

\* The refinement mapping to PartStream.  A session whose passes do not cut
\* the image alike has promised nothing when it comes to its end.
Phase ==
  IF pc = "failed" THEN "failed"
  ELSE IF pc = "idle" /\ IsDone THEN IF ManifestHolds THEN "done" ELSE "failed"
  ELSE IF ManifestHolds THEN "streaming" ELSE "planning"

Published == IF ManifestHolds THEN output_manifest ELSE <<>>

Promised == [p \in DOMAIN Published |-> Published[p].size]

HandedOver == [p \in DOMAIN Published |-> written[Published[p].name]]

Stream ==
  INSTANCE PartStream WITH phase <- Phase, manifest <- Promised, written <- HandedOver

\* The session implements PartStream: planning ends with a manifest, bytes
\* are handed over file after file, done means complete; and a driver that
\* keeps calling comes to the end, or to a read that failed.  The manifest
\* is a promise only if the passes cut the image alike; the end is reached
\* whatever the image.
ImplementsPartStream == Stream!LiveSpec
=============================================================================
