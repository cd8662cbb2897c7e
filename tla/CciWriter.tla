------------------------------ MODULE CciWriter ------------------------------
(***************************************************************************)
(* CciSession (src/crate/src/formats/cci/write.rs): the two-pass writer of *)
(* the CCI format.  hash_next_part() sizes the image in batches and cuts   *)
(* it into parts; next_chunk() then streams every part as header, sector   *)
(* slots and index.  Every part is self-contained: it has its own header   *)
(* and its own index, whose positions are relative to the part.            *)
(*                                                                         *)
(* The two loops over sectors are modelled one iteration at a time, since  *)
(* every iteration calls back into JavaScript for the sector's bytes and   *)
(* that read may fail; pc says which loop is running.  A sector is its LZ4 *)
(* block length: all the writer does depends on that.  The driver of the   *)
(* session (src/npm/src/session.ts) is part of the model: it appends each  *)
(* chunk to the file named by currentEntryName(), and drops a session      *)
(* whose call threw.                                                       *)
(***************************************************************************)
EXTENDS Integers, Sequences

CONSTANTS
  MaxSectors,    \* longest image considered
  Lz4Lens,       \* LZ4 block lengths a sector can have
  SectorSize,    \* SECTOR_SIZE
  HeaderSize,    \* HEADER_SIZE
  AlignMult,     \* ALIGN_MULT, 1 << INDEX_ALIGNMENT
  EntrySize,     \* bytes of one index entry (4)
  IndexLimit,    \* 2^31: index values at or above it collide with the flag
  SplitPoint,    \* FILE_SPLIT_POINT
  BatchSectors,  \* SIZING_BATCH_SECTORS
  ChunkLimits    \* values of max_bytes the driver passes

ASSUME CciAssumption ==
  /\ MaxSectors \in Nat
  /\ Lz4Lens \subseteq Nat
  /\ SectorSize \in Nat \ {0}
  /\ HeaderSize \in Nat \ {0}
  /\ AlignMult \in Nat \ {0}
  /\ EntrySize \in Nat \ {0}
  /\ IndexLimit \in Nat
  /\ SplitPoint \in Nat
  /\ BatchSectors \in Nat \ {0}
  /\ ChunkLimits \subseteq Nat \ {0}
  /\ SectorSize > 4 + AlignMult
  /\ SectorSize % AlignMult = 0
  /\ HeaderSize % AlignMult = 0
  /\ HeaderSize <= SplitPoint

\* A part cut at the split point fits into 31-bit index positions.
ASSUME IndexFits == SplitPoint + SectorSize < IndexLimit * AlignMult

VARIABLES
  image,                    \* LZ4 block length of every sector of the image
  total_data_sectors,
  sizing_next_sector,       \* the fields of CciSession, in its order
  sizing_part_first_sector,
  sizing_part_position,
  sizing_part_index_infos,  \* per sector: end of its slot within the part's
                            \* data area, and whether it is compressed
  sizing_done,
  parts,
  stream_part,
  stream_stage,
  stream_blob_pos,
  stream_sector_cursor,
  current_entry_name,
  output_manifest,
  pc,                       \* "idle" between calls, else the running loop
  sector,                   \* loop variable of hash_next_part()
  max_bytes,                \* argument of the running next_chunk()
  out_len,                  \* bytes in its `out` buffer
  written,                  \* driver: size of every output file
  landed                    \* driver: where each sector's slot was written

sizingVars == <<sizing_next_sector, sizing_part_first_sector,
                sizing_part_position, sizing_part_index_infos, sizing_done,
                parts, output_manifest>>
streamVars == <<stream_part, stream_stage, stream_blob_pos,
                stream_sector_cursor>>
callVars == <<pc, sector, max_bytes, out_len>>
imageVars == <<image, total_data_sectors>>
driverVars == <<written, landed>>

vars == <<imageVars, sizingVars, streamVars, callVars, current_entry_name,
          driverVars>>

-----------------------------------------------------------------------------
(* Helpers of format.rs.  A definition marked "faulty" is not part of the    *)
(* model: it is the definition after it with a plausible bug, kept to show   *)
(* which property would notice.                                              *)

Smaller(a, b) == IF a <= b THEN a ELSE b

\* compress_sector_cci: a block is kept only when it saves enough.
IsCompressed(lz4) == 0 < lz4 /\ lz4 < SectorSize - (4 + AlignMult)

\* Faulty: the slot is not rounded up.
UnroundedWrittenLen(lz4) == lz4 + 1

\* compressed_written_len: one byte for the padding's length, then the
\* block, then padding up to a multiple of ALIGN_MULT.
CompressedWrittenLen(lz4) == ((lz4 + 1 + AlignMult - 1) \div AlignMult) * AlignMult

PaddingLen(lz4) == CompressedWrittenLen(lz4) - (lz4 + 1)

\* Bytes of a sector's slot as the sizing pass counts them.
SlotLen(lz4) == IF IsCompressed(lz4) THEN CompressedWrittenLen(lz4) ELSE SectorSize

\* Faulty: the byte that holds the padding's length is not emitted.
EmittedWithoutPrefix(lz4) ==
  IF IsCompressed(lz4) THEN lz4 + PaddingLen(lz4) ELSE SectorSize

\* Bytes of a sector's slot as the streaming pass emits them: the padding's
\* length, the block and the padding, or the sector itself.
EmittedLen(lz4) ==
  IF IsCompressed(lz4) THEN 1 + lz4 + PaddingLen(lz4) ELSE SectorSize

\* Faulty: numbered names start at 2.
OutputNameTooHigh(index, total_parts) == IF total_parts <= 1 THEN 0 ELSE index + 2

\* output_name_for: 0 stands for the bare "game.cci" of a single-part
\* output, n for "game.n.cci".
OutputNameFor(index, total_parts) == IF total_parts <= 1 THEN 0 ELSE index + 1

Names == 0 .. MaxSectors

\* A sector's place in the output: a file and an offset; Nowhere until then.
Nowhere == [name |-> 0, offset |-> -1]

-----------------------------------------------------------------------------
(* Sizing                                                                    *)

\* Bytes of all slots recorded for the part being sized.
DataLen(infos) == IF infos = <<>> THEN 0 ELSE infos[Len(infos)].end

IndexBytes(n) == EntrySize * (n + 1)

\* The part finalize_sizing_part() pushes for the recorded slots: index
\* entry i holds the slot's start, the last entry the end of the data.
FinalizedPart ==
  LET infos == sizing_part_index_infos
      n == Len(infos)
      Start(i) == HeaderSize + (IF i = 1 THEN 0 ELSE infos[i - 1].end)
      index_offset == HeaderSize + DataLen(infos)
  IN [first_sector |-> sizing_part_first_sector,
      sector_count |-> n,
      uncompressed_size |-> n * SectorSize,
      index_offset |-> index_offset,
      index |-> [i \in 1 .. n + 1 |->
                   [position |-> Start(i) \div AlignMult,
                    compressed |-> IF i <= n THEN infos[i].compressed ELSE FALSE]],
      total_size |-> index_offset + IndexBytes(n)]

\* Faulty: the next part starts over at the sector of the last one.
SameFirstSector == sizing_part_first_sector

\* First sector of the part after the one being finalized.
NextFirstSector == sizing_part_first_sector + Len(sizing_part_index_infos)

\* Faulty: the split point is checked one slot too late.
PartIsOverfull == sizing_part_position > SplitPoint + SectorSize

\* check_and_manage_sizing_write() finalizes the part that has outgrown
\* the split point before the next sector is added.
PartIsFull == sizing_part_position > SplitPoint

\* finish_sizing(): names depend on the final number of parts.
FinishSizing(all_parts) ==
  /\ parts' = all_parts
  /\ output_manifest' =
       [i \in 1 .. Len(all_parts) |->
          [name |-> OutputNameFor(i - 1, Len(all_parts)),
           size |-> all_parts[i].total_size]]
  /\ current_entry_name' = OutputNameFor(0, Len(all_parts))
  /\ stream_part' = 0
  /\ stream_stage' = "header"
  /\ stream_blob_pos' = 0
  /\ sizing_done' = TRUE

\* Faulty: a batch that never gets anywhere.
EmptyBatchEnd == Smaller(sizing_next_sector, total_data_sectors)

BatchEnd == Smaller(sizing_next_sector + BatchSectors, total_data_sectors)

Init ==
  /\ total_data_sectors \in 0 .. MaxSectors
  /\ image \in [0 .. total_data_sectors - 1 -> Lz4Lens]
  /\ sizing_next_sector = 0
  /\ sizing_part_first_sector = 0
  /\ sizing_part_position = 0
  /\ sizing_part_index_infos = <<>>
  /\ sizing_done = FALSE
  /\ parts = <<>>
  /\ stream_part = 0
  /\ stream_stage = "header"
  /\ stream_blob_pos = 0
  /\ stream_sector_cursor = 0
  /\ current_entry_name = OutputNameFor(0, 1)
  /\ output_manifest = <<>>
  /\ pc = "idle"
  /\ sector = 0
  /\ max_bytes = 0
  /\ out_len = 0
  /\ written = [name \in Names |-> 0]
  /\ landed = [s \in 0 .. total_data_sectors - 1 |-> Nowhere]

\* hash_next_part() enters its loop over one batch.
HashNextPart ==
  /\ pc = "idle"
  /\ ~sizing_done
  /\ total_data_sectors > 0
  /\ pc' = "sizing"
  /\ sector' = sizing_next_sector
  /\ UNCHANGED <<imageVars, sizingVars, streamVars, max_bytes, out_len,
                 current_entry_name, driverVars>>

\* hash_next_part() of an image without sectors: one part with no slots.
HashEmptyImage ==
  /\ pc = "idle"
  /\ ~sizing_done
  /\ total_data_sectors = 0
  /\ FinishSizing(Append(parts, FinalizedPart))
  /\ sizing_part_index_infos' = <<>>
  /\ sizing_part_position' = 0
  /\ UNCHANGED <<imageVars, sizing_next_sector, sizing_part_first_sector,
                 stream_sector_cursor, callVars, driverVars>>

\* check_and_manage_sizing_write(), before each sector: a full part is
\* finalized, and a part that is just beginning counts its header first.
ManageSizingWrite ==
  /\ parts' = IF PartIsFull THEN Append(parts, FinalizedPart) ELSE parts
  /\ sizing_part_first_sector' =
       IF PartIsFull THEN NextFirstSector ELSE sizing_part_first_sector

ManagedInfos == IF PartIsFull THEN <<>> ELSE sizing_part_index_infos

ManagedPosition ==
  LET counted == IF PartIsFull THEN 0 ELSE sizing_part_position
  IN IF ManagedInfos = <<>> /\ counted = 0 THEN HeaderSize ELSE counted

\* One iteration of the sizing loop: start a new part if the current one is
\* full, then record the slot of the sector just read.
SizeSector ==
  /\ pc = "sizing"
  /\ sector < BatchEnd
  /\ ManageSizingWrite
  /\ LET len == SlotLen(image[sector])
     IN /\ sizing_part_index_infos' =
             Append(ManagedInfos, [end |-> DataLen(ManagedInfos) + len,
                                   compressed |-> IsCompressed(image[sector])])
        /\ sizing_part_position' = ManagedPosition + len
  /\ sector' = sector + 1
  /\ UNCHANGED <<imageVars, sizing_next_sector, sizing_done, output_manifest,
                 streamVars, pc, max_bytes, out_len, current_entry_name,
                 driverVars>>

\* The batch is sized but sectors remain: hash_next_part() returns false.
YieldBatch ==
  /\ pc = "sizing"
  /\ sector = BatchEnd
  /\ sector < total_data_sectors
  /\ sizing_next_sector' = BatchEnd
  /\ pc' = "idle"
  /\ UNCHANGED <<imageVars, sizing_part_first_sector, sizing_part_position,
                 sizing_part_index_infos, sizing_done, parts, output_manifest,
                 streamVars, sector, max_bytes, out_len, current_entry_name,
                 driverVars>>

\* The last batch is sized: finalize the open part, publish the manifest.
FinishLastBatch ==
  /\ pc = "sizing"
  /\ sector = BatchEnd
  /\ sector = total_data_sectors
  /\ sizing_next_sector' = BatchEnd
  /\ sizing_part_index_infos' = <<>>
  /\ sizing_part_position' = 0
  /\ sizing_part_first_sector' = NextFirstSector
  /\ FinishSizing(Append(parts, FinalizedPart))
  /\ pc' = "idle"
  /\ UNCHANGED <<imageVars, stream_sector_cursor, sector, max_bytes, out_len,
                 driverVars>>

-----------------------------------------------------------------------------
(* Streaming                                                                 *)

\* Faulty: done while the last part is still being streamed.
IsDoneEarly == sizing_done /\ stream_part >= Len(parts) - 1

IsDone == sizing_done /\ stream_part >= Len(parts)

CurrentPart == parts[stream_part + 1]
EndSector == CurrentPart.first_sector + CurrentPart.sector_count
CurrentName == OutputNameFor(stream_part, Len(parts))

\* What every next_chunk() call that finds a part left does first.
NextChunkCalled ==
  /\ pc = "idle"
  /\ sizing_done
  /\ stream_part < Len(parts)
  /\ current_entry_name' = CurrentName

\* The driver appends a chunk of n bytes to the file it was told.
AppendToFile(name, n) == written' = [written EXCEPT ![name] = @ + n]

StreamHeader(max) ==
  /\ NextChunkCalled
  /\ stream_stage = "header"
  /\ LET end == Smaller(stream_blob_pos + max, HeaderSize)
     IN /\ AppendToFile(CurrentName, end - stream_blob_pos)
        /\ IF end >= HeaderSize
           THEN /\ stream_stage' = "sectors"
                /\ stream_sector_cursor' = CurrentPart.first_sector
                /\ stream_blob_pos' = 0
           ELSE /\ stream_blob_pos' = end
                /\ UNCHANGED <<stream_stage, stream_sector_cursor>>
  /\ UNCHANGED <<imageVars, sizingVars, stream_part, callVars, landed>>

\* next_chunk() enters its loop over the part's sectors.
StreamSectors(max) ==
  /\ NextChunkCalled
  /\ stream_stage = "sectors"
  /\ stream_sector_cursor < EndSector
  /\ pc' = "emitting"
  /\ max_bytes' = max
  /\ out_len' = 0
  /\ UNCHANGED <<imageVars, sizingVars, streamVars, sector, driverVars>>

LoopContinues == stream_sector_cursor < EndSector /\ out_len < max_bytes

\* One iteration: the sector is read, compressed again and appended to out.
EmitSector ==
  /\ pc = "emitting"
  /\ LoopContinues
  /\ landed' = [landed EXCEPT ![stream_sector_cursor] =
                  [name |-> current_entry_name,
                   offset |-> written[current_entry_name] + out_len]]
  /\ out_len' = out_len + EmittedLen(image[stream_sector_cursor])
  /\ stream_sector_cursor' = stream_sector_cursor + 1
  /\ UNCHANGED <<imageVars, sizingVars, stream_part, stream_stage,
                 stream_blob_pos, pc, sector, max_bytes, current_entry_name,
                 written>>

ReturnSectors ==
  /\ pc = "emitting"
  /\ ~LoopContinues
  /\ AppendToFile(current_entry_name, out_len)
  /\ pc' = "idle"
  /\ max_bytes' = 0
  /\ out_len' = 0
  /\ UNCHANGED <<imageVars, sizingVars, streamVars, sector,
                 current_entry_name, landed>>

\* The index stage; a call that finds the part's sectors exhausted moves to
\* it and calls itself again, so it streams index bytes in the same call.
StreamIndex(max) ==
  /\ NextChunkCalled
  /\ \/ stream_stage = "index"
     \/ stream_stage = "sectors" /\ stream_sector_cursor >= EndSector
  /\ LET from == IF stream_stage = "index" THEN stream_blob_pos ELSE 0
         size == EntrySize * Len(CurrentPart.index)
         end == Smaller(from + max, size)
     IN /\ AppendToFile(CurrentName, end - from)
        /\ IF end >= size
           THEN /\ stream_part' = stream_part + 1
                /\ stream_stage' = "header"
                /\ stream_blob_pos' = 0
           ELSE /\ stream_stage' = "index"
                /\ stream_blob_pos' = end
                /\ UNCHANGED stream_part
  /\ UNCHANGED <<imageVars, sizingVars, stream_sector_cursor, callVars, landed>>

-----------------------------------------------------------------------------
(* The JavaScript read callback fails inside either loop: the call throws  *)
(* and the driver drops the session.                                       *)

\* While sizing: the iteration has already made room for the sector.
SizingReadFails ==
  /\ pc = "sizing"
  /\ sector < BatchEnd
  /\ ManageSizingWrite
  /\ sizing_part_index_infos' = ManagedInfos
  /\ sizing_part_position' = ManagedPosition
  /\ pc' = "failed"
  /\ UNCHANGED <<imageVars, sizing_next_sector, sizing_done, output_manifest,
                 streamVars, sector, max_bytes, out_len, current_entry_name,
                 driverVars>>

\* While streaming: what the call had put into `out` is lost, although the
\* cursor has passed it.
StreamingReadFails ==
  /\ pc = "emitting"
  /\ LoopContinues
  /\ pc' = "failed"
  /\ UNCHANGED <<imageVars, sizingVars, streamVars, sector, max_bytes, out_len,
                 current_entry_name, driverVars>>

\* Calls on a finished session return nothing and change nothing.
Ended ==
  /\ pc = "failed" \/ (pc = "idle" /\ IsDone)
  /\ UNCHANGED vars

Call ==
  \/ HashNextPart \/ HashEmptyImage \/ SizeSector \/ YieldBatch
  \/ FinishLastBatch
  \/ \E max \in ChunkLimits :
       StreamHeader(max) \/ StreamSectors(max) \/ StreamIndex(max)
  \/ EmitSector \/ ReturnSectors

Next == Call \/ SizingReadFails \/ StreamingReadFails \/ Ended

Spec == Init /\ [][Next]_vars

\* A driver that keeps calling until isDone(): while (!session.isDone()).
FairSpec == Spec /\ WF_vars(Call)

-----------------------------------------------------------------------------
(* Properties                                                                *)

SlotInfo == [end : Nat, compressed : BOOLEAN]
IndexEntry == [position : Nat, compressed : BOOLEAN]
Part == [first_sector : Nat, sector_count : Nat, uncompressed_size : Nat,
         index_offset : Nat, index : Seq(IndexEntry), total_size : Nat]

\* The fields of the session and of the driver have the types the code
\* gives them; cursors stay within the image.
TypeOK ==
  /\ total_data_sectors \in 0 .. MaxSectors
  /\ image \in [0 .. total_data_sectors - 1 -> Lz4Lens]
  /\ sizing_next_sector \in 0 .. total_data_sectors
  /\ sizing_part_first_sector \in 0 .. total_data_sectors
  /\ sizing_part_position \in Nat
  /\ sizing_part_index_infos \in Seq(SlotInfo)
  /\ sizing_done \in BOOLEAN
  /\ parts \in Seq(Part)
  /\ stream_part \in Nat
  /\ stream_stage \in {"header", "sectors", "index"}
  /\ stream_blob_pos \in Nat
  /\ stream_sector_cursor \in 0 .. total_data_sectors
  /\ current_entry_name \in Names
  /\ output_manifest \in Seq([name : Nat, size : Nat])
  /\ pc \in {"idle", "sizing", "emitting", "failed"}
  /\ sector \in 0 .. total_data_sectors
  /\ max_bytes \in Nat
  /\ out_len \in Nat
  /\ written \in [Names -> Nat]
  /\ landed \in [0 .. total_data_sectors - 1 -> [name : Names, offset : Int]]

\* The parts cut so far cover the image from its first sector on without
\* gap or overlap, and no part but that of an empty image is empty; when
\* sizing ends they cover the whole image, so streaming, which walks the
\* image part by part, emits every sector exactly once.
PartsPartitionImage ==
  /\ \A p \in DOMAIN parts :
       /\ parts[p].first_sector =
            IF p = 1 THEN 0
            ELSE parts[p - 1].first_sector + parts[p - 1].sector_count
       /\ parts[p].sector_count > 0 \/ total_data_sectors = 0
  /\ sizing_done =>
       /\ parts # <<>>
       /\ parts[Len(parts)].first_sector + parts[Len(parts)].sector_count
            = total_data_sectors

\* The reader's check of a part (cci/read.rs): it rejects an index that
\* decreases, that does not end at the header's index_offset, or that has
\* another number of sectors than the header.  The writer never produces one.
ReaderAccepts(part) ==
  LET Position(i) == part.index[i].position * AlignMult
      n == Len(part.index) - 1
  IN /\ part.index_offset >= HeaderSize
     /\ part.total_size - part.index_offset = EntrySize * Len(part.index)
     /\ n >= 0
     /\ \A i \in 1 .. n : Position(i) <= Position(i + 1)
     /\ Position(n + 1) = part.index_offset
     /\ n * SectorSize = part.uncompressed_size

EveryPartReadable == \A p \in DOMAIN parts : ReaderAccepts(parts[p])

\* Where a reader of the finished files looks for sector number i of part p
\* (cci/read.rs, read_sector): the slot's file, offset and length, and
\* whether it would copy the slot or decompress it.
ReaderSlot(p, i) ==
  LET entry == parts[p].index[i]
      start == entry.position * AlignMult
      len == parts[p].index[i + 1].position * AlignMult - start
  IN [name |-> OutputNameFor(p - 1, Len(parts)), offset |-> start, len |-> len,
      raw |-> ~entry.compressed /\ len = SectorSize]

\* The index written in the first pass describes the bytes written in the
\* second: a sector that has been streamed lies in the file and at the
\* offset where a reader will look for it, in a slot of the length it will
\* read, stored the way it will decode it.
IndexFindsEverySector ==
  sizing_done =>
    \A p \in DOMAIN parts : \A i \in 1 .. parts[p].sector_count :
      LET s == parts[p].first_sector + i - 1
          slot == ReaderSlot(p, i)
      IN /\ slot.len = SlotLen(image[s])
         /\ slot.raw = ~IsCompressed(image[s])
         /\ landed[s] # Nowhere =>
              landed[s] = [name |-> slot.name, offset |-> slot.offset]
         /\ IsDone => landed[s] # Nowhere

\* A part never exceeds the split point by more than one slot plus its own
\* index, and every index position leaves the flag bit free: the "control
\* flow elsewhere" the comment of finalize_sizing_part() relies on.
PartsStayBounded ==
  \A p \in DOMAIN parts :
    /\ parts[p].index_offset <= SplitPoint + SectorSize
    /\ \A i \in DOMAIN parts[p].index : parts[p].index[i].position < IndexLimit

\* No file outgrows the manifest, and when is_done() turns true every file
\* named by the manifest has exactly the promised size and no other file
\* has been written.
ManifestKept ==
  sizing_done =>
    /\ \A p \in DOMAIN output_manifest :
         LET file == written[output_manifest[p].name]
         IN /\ file <= output_manifest[p].size
            /\ IsDone => file = output_manifest[p].size
    /\ \A name \in Names :
         written[name] > 0 =>
           \E p \in DOMAIN output_manifest : output_manifest[p].name = name

\* The refinement mapping to PartStream.
Phase ==
  IF pc = "failed" THEN "failed"
  ELSE IF IsDone THEN "done"
  ELSE IF sizing_done THEN "streaming" ELSE "planning"

Promised == [p \in DOMAIN output_manifest |-> output_manifest[p].size]

HandedOver == [p \in DOMAIN output_manifest |-> written[output_manifest[p].name]]

Stream ==
  INSTANCE PartStream WITH phase <- Phase, manifest <- Promised, written <- HandedOver

\* The session implements PartStream: planning ends with a manifest, bytes
\* are handed over file after file, done means complete.
ImplementsPartStream == Stream!Spec

\* A driver that keeps calling finishes: the session is done, or a read of
\* the source failed.
EventuallyDone == <>(IsDone \/ pc = "failed")
=============================================================================
