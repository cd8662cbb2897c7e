----------------------------- MODULE ZarWriter ------------------------------
(***************************************************************************)
(* ZarSession (src/crate/src/formats/zar/write.rs): compresses the files   *)
(* of a source, laid end to end, in blocks of BlockBytes bytes, and appends*)
(* what a reader needs to find them: the records of where blocks begin,    *)
(* the name table, the file tree and the footer.                           *)
(*                                                                         *)
(* One call of next_chunk() is many steps of advance(), each an action     *)
(* here, and any of them that reads the source may throw: the call ends    *)
(* there, what it has queued stays queued, and the driver may call again.  *)
(* The hash in the footer is left out, as no reader in the code checks it. *)
(***************************************************************************)
EXTENDS ZarLayout

CONSTANTS
  Listings,           \* the lists of files a source may hold
  BlockBytes,         \* BLOCK_SIZE
  EntriesPerRecord,   \* ENTRIES_PER_OFFSET_RECORD
  RecordSize,         \* bytes of an offset record
  FooterSize,         \* FOOTER_SIZE
  StoredLengths,      \* bytes a block may compress to
  Alignment,          \* 8
  EntrySize,          \* 16, bytes of an entry of the file tree
  ChunkLimits,        \* values of max_bytes the driver passes
  MaxThrows           \* throws of next_chunk() after which a driver gives up

\* Where the bytes of the n-th file begin when all are laid end to end.
FileStart(list, n) == FoldLeft(+, 0, [f \in 1 .. n - 1 |-> list[f].size])

\* The format has room for Word * Half bytes; sources have fewer.
ASSUME ZarAssumption ==
  /\ \A list \in Listings :
       /\ list \in Seq([path : Seq(DOMAIN Fold), size : Nat])
       /\ FileStart(list, Len(list) + 1) < Word * Half
  /\ {BlockBytes, EntriesPerRecord, RecordSize, FooterSize, Alignment, EntrySize,
      MaxThrows} \subseteq Nat \ {0}
  /\ StoredLengths \subseteq Nat \ {0}
  /\ ChunkLimits \subseteq Nat \ {0}

VARIABLES
  files,               \* the fields of ZarSession
  name_table_bytes,
  file_tree_bytes,
  total_input_bytes,
  phase,               \* "refused" where build() returns an error
  current_file,
  current_file_pos,
  block_buffer,
  total_emitted,
  blocks_written,
  offset_records,
  pending_output,      \* its length
  sections,
  call,                \* max_bytes of the call in progress, 0 without one
  archive,             \* all that was emitted: where, how long and what
  throws,              \* driver: throws so far
  written              \* driver: bytes received

planVars == <<files, name_table_bytes, file_tree_bytes, total_input_bytes>>
sessionVars == <<planVars, phase, current_file, current_file_pos, block_buffer,
                 total_emitted, blocks_written, offset_records, pending_output,
                 sections>>
writerVars == <<sessionVars, call, archive, throws, written>>

-----------------------------------------------------------------------------
(* Opening                                                                   *)

NoSections == [compressed_data |-> 0, offset_records |-> [offset |-> 0, size |-> 0],
               names |-> [offset |-> 0, size |-> 0], file_tree |-> [offset |-> 0, size |-> 0]]

\* build(): the directory is made before a byte is read, or refused.
Build ==
  LET tree == PathTree(files)
      names == Interned(tree.arena)
  IN /\ phase = IF tree.ok THEN "Streaming" ELSE "refused"
     /\ name_table_bytes = IF tree.ok THEN NameTable(names) ELSE <<>>
     /\ file_tree_bytes = IF tree.ok THEN FileTree(tree.arena, names) ELSE <<>>
     /\ total_input_bytes = tree.running_offset

-----------------------------------------------------------------------------
(* Emitting                                                                  *)

\* emit(), of something this long
Emit(kind, what, len) ==
  /\ archive' = Append(archive, [at |-> total_emitted, len |-> len,
                                 kind |-> kind, what |-> what])
  /\ pending_output' = pending_output + len
  /\ total_emitted' = total_emitted + len

ZeroByte == [file |-> 0, pos |-> 0]

\* Every EntriesPerRecord-th block begins a new record.
NewRecord(n) == n % EntriesPerRecord = 0

Recorded(len) ==
  LET records == IF NewRecord(blocks_written)
                 THEN Append(offset_records, [base_offset |-> total_emitted, sizes |-> <<>>])
                 ELSE offset_records
  IN [records EXCEPT ![Len(records)].sizes = Append(@, len - 1)]

\* Faulty: a block that compresses to its own length is kept compressed.
KeptCompressed(len) == len <= BlockBytes

\* compressed.len() < BLOCK_SIZE
WorthCompressing(len) == len < BlockBytes

\* store_block(), of a block that compresses to some length.
StoreBlock(data) ==
  \E len \in StoredLengths :
    LET out_len == IF WorthCompressing(len) THEN len ELSE BlockBytes IN
    /\ Emit(IF WorthCompressing(len) THEN "zstd" ELSE "raw", data, out_len)
    /\ offset_records' = Recorded(out_len)
    /\ blocks_written' = blocks_written + 1
    /\ block_buffer' = <<>>

KeepBuffer(data) ==
  /\ block_buffer' = data
  /\ UNCHANGED <<archive, pending_output, total_emitted, offset_records, blocks_written>>

-----------------------------------------------------------------------------
(* advance(): one action per arm and early return                            *)

\* next_chunk() goes on until enough is queued or nothing is left to do.
Advancing == call > 0 /\ pending_output < call /\ phase # "Done"

Streaming == Advancing /\ phase = "Streaming"

PaddedBlock ==
  block_buffer \o [i \in 1 .. BlockBytes - Len(block_buffer) |-> ZeroByte]

\* No file is left: the last block is padded, if it is not empty.
FlushBlocks ==
  /\ Streaming
  /\ current_file > Len(files)
  /\ phase' = "AlignPad"
  /\ IF block_buffer = <<>> THEN KeepBuffer(<<>>) ELSE StoreBlock(PaddedBlock)
  /\ UNCHANGED <<planVars, current_file, current_file_pos, sections, call, throws, written>>

RemainingInFile == files[current_file].size - current_file_pos

InFile == Streaming /\ current_file <= Len(files)

\* A file that has no byte left, as one of no bytes from the start.
SkipFile ==
  /\ InFile
  /\ RemainingInFile = 0
  /\ current_file' = current_file + 1
  /\ current_file_pos' = 0
  /\ KeepBuffer(block_buffer)
  /\ UNCHANGED <<planVars, phase, sections, call, throws, written>>

ToRead == Min({BlockBytes - Len(block_buffer), RemainingInFile})

BytesRead(want) ==
  [i \in 1 .. want |-> [file |-> current_file, pos |-> current_file_pos + i]]

ReadFile ==
  /\ InFile
  /\ RemainingInFile > 0
  /\ LET pos == current_file_pos + ToRead
         buffer == block_buffer \o BytesRead(ToRead)
         ended == pos >= files[current_file].size
     IN /\ current_file' = IF ended THEN current_file + 1 ELSE current_file
        /\ current_file_pos' = IF ended THEN 0 ELSE pos
        /\ IF Len(buffer) = BlockBytes THEN StoreBlock(buffer) ELSE KeepBuffer(buffer)
  /\ UNCHANGED <<planVars, phase, sections, call, throws, written>>

\* The buffer is truncated to what it held.
BufferTruncated == block_buffer

\* The read throws, and next_chunk() with it.
FileReadFails ==
  /\ InFile
  /\ RemainingInFile > 0
  /\ throws < MaxThrows
  /\ throws' = throws + 1
  /\ call' = 0
  /\ KeepBuffer(BufferTruncated)
  /\ UNCHANGED <<planVars, phase, current_file, current_file_pos, sections, written>>

Pad == (Alignment - (total_emitted % Alignment)) % Alignment

\* A step that emits a section, or padding, and goes to the next phase; what
\* it emits is of the kind its phase is named for.
Section(from, to, what, len) ==
  /\ Advancing
  /\ phase = from
  /\ phase' = to
  /\ IF len = 0 THEN UNCHANGED <<archive, pending_output, total_emitted>> ELSE Emit(from, what, len)
  /\ UNCHANGED <<planVars, current_file, current_file_pos, block_buffer, blocks_written,
                 offset_records, call, throws, written>>

Span(len) == [offset |-> total_emitted, size |-> len]

AlignPad ==
  /\ Section("AlignPad", "OffsetRecords", <<>>, Pad)
  /\ sections' = [sections EXCEPT !.compressed_data = total_emitted]

\* A record that is not full is filled up with zeros.
FullRecords ==
  [r \in DOMAIN offset_records |->
     [offset_records[r] EXCEPT
        !.sizes = @ \o [i \in 1 .. EntriesPerRecord - Len(@) |-> 0]]]

OffsetRecords ==
  LET len == RecordSize * Len(offset_records) IN
  /\ Section("OffsetRecords", "NameTable", FullRecords, len)
  /\ sections' = [sections EXCEPT !.offset_records = Span(len)]

NameTableSection ==
  LET len == Len(name_table_bytes) IN
  /\ Section("NameTable", "FileTree", name_table_bytes, len)
  /\ sections' = [sections EXCEPT !.names = Span(len)]

FileTreeSection ==
  LET len == EntrySize * Len(file_tree_bytes) IN
  /\ Section("FileTree", "Footer", file_tree_bytes, len)
  /\ sections' = [sections EXCEPT !.file_tree = Span(len)]

TotalSize == total_emitted + FooterSize

Footer ==
  /\ Section("Footer", "Done", [sections |-> sections, total_size |-> TotalSize], FooterSize)
  /\ UNCHANGED sections

-----------------------------------------------------------------------------
(* next_chunk() and the driver                                               *)

ArchiveDone == phase = "Done" /\ pending_output = 0

BeginCall(max) ==
  /\ phase # "refused"
  /\ call = 0
  /\ ~ArchiveDone
  /\ throws < MaxThrows
  /\ call' = max
  /\ UNCHANGED <<sessionVars, archive, throws, written>>

\* Faulty: only what exceeds the limit is drained.
DrainExcess == Max({pending_output - call, 0})

Drain == Min({call, pending_output})

ReturnChunk ==
  /\ call > 0
  /\ ~Advancing
  /\ pending_output' = pending_output - Drain
  /\ written' = written + Drain
  /\ call' = 0
  /\ UNCHANGED <<planVars, phase, current_file, current_file_pos, block_buffer, total_emitted,
                 blocks_written, offset_records, sections, archive, throws>>

WriterInit ==
  /\ files \in Listings
  /\ Build
  /\ current_file = 1
  /\ current_file_pos = 0
  /\ block_buffer = <<>>
  /\ total_emitted = 0
  /\ blocks_written = 0
  /\ offset_records = <<>>
  /\ pending_output = 0
  /\ sections = NoSections
  /\ call = 0
  /\ archive = <<>>
  /\ throws = 0
  /\ written = 0

Advance ==
  \/ FlushBlocks \/ SkipFile \/ ReadFile
  \/ AlignPad \/ OffsetRecords \/ NameTableSection \/ FileTreeSection \/ Footer

WriterCall == Advance \/ ReturnChunk \/ \E max \in ChunkLimits : BeginCall(max)

\* units_done() and output_manifest()
UnitsDone == Min({blocks_written * BlockBytes + Len(block_buffer), total_input_bytes})

OutputManifest == IF phase = "Done" THEN <<total_emitted>> ELSE <<>>
=============================================================================
