----------------------------- MODULE ZarReader ------------------------------
(***************************************************************************)
(* ZarArchiveReader (src/crate/src/formats/zar/read.rs) over the archive a *)
(* ZarSession handed over: open() parses the footer, the records and the   *)
(* directory; read_file_range() reads block by block and keeps the block   *)
(* it decompressed last.                                                   *)
(*                                                                         *)
(* A read may throw at any of its blocks; the blocks before it have been   *)
(* cached by then, and the caller may go on with other reads.              *)
(***************************************************************************)
EXTENDS ZarWriter

CONSTANTS
  ReadOffsets,     \* where the ranges a caller reads begin
  ReadLengths      \* and how long they are

ASSUME ZarReaderAssumption == ReadOffsets \subseteq Nat /\ ReadLengths \subseteq Nat \ {0}

VARIABLES
  reader,          \* "closed", "open" or "rejected"
  listed,          \* files
  cached_block,
  answer           \* caller: the range read last, and what came back

zarReaderVars == <<reader, listed, cached_block, answer>>
zarVars == <<writerVars, zarReaderVars>>

NoBlock == [index |-> -1, data |-> <<>>]
NoAnswer == [file |-> 0, offset |-> 0, len |-> 0, ok |-> FALSE, bytes |-> <<>>]

-----------------------------------------------------------------------------
(* open()                                                                    *)

\* What is read at an offset of the archive when this many bytes are asked
\* for; anything but a thing that was emitted there is noise.
Noise == [kind |-> "noise", what |-> <<>>]

ReadAt(offset, len) ==
  IF \E i \in DOMAIN archive : archive[i].at = offset /\ archive[i].len = len
  THEN archive[CHOOSE i \in DOMAIN archive : archive[i].at = offset /\ archive[i].len = len]
  ELSE Noise

SectionAt(span) == ReadAt(span.offset, span.size).what

FooterItem == ReadAt(written - FooterSize, FooterSize)
FooterRead == FooterItem.what

InFileRange(span) == span.offset + span.size <= written

\* The checks of open(), the ones of magic numbers left out.
Acceptable ==
  /\ written > FooterSize
  /\ FooterItem.kind = "Footer"
  /\ FooterRead.total_size = written
  /\ LET s == FooterRead.sections IN
     /\ s.compressed_data <= written
     /\ InFileRange(s.offset_records) /\ InFileRange(s.names) /\ InFileRange(s.file_tree)
     /\ s.offset_records.size % RecordSize = 0
     /\ s.file_tree.size % EntrySize = 0

Directory ==
  BuildFiles(SectionAt(FooterRead.sections.names), SectionAt(FooterRead.sections.file_tree))

OpenReader ==
  /\ ArchiveDone
  /\ reader = "closed"
  /\ call = 0
  /\ IF Acceptable /\ Directory.ok
     THEN reader' = "open" /\ listed' = Directory.files
     ELSE reader' = "rejected" /\ listed' = <<>>
  /\ UNCHANGED <<writerVars, cached_block, answer>>

-----------------------------------------------------------------------------
(* read_file_range()                                                         *)

ReadRecords == SectionAt(FooterRead.sections.offset_records)

\* Where a block begins: its record's base, and the blocks before it.
CompressedOffset(index) ==
  LET record == ReadRecords[(index \div EntriesPerRecord) + 1]
  IN record.base_offset
       + FoldLeft(+, 0, [i \in 1 .. index % EntriesPerRecord |-> record.sizes[i] + 1])

StoredLen(index) ==
  ReadRecords[(index \div EntriesPerRecord) + 1].sizes[(index % EntriesPerRecord) + 1] + 1

Undecodable == <<>>

NoiseBlock == [i \in 1 .. BlockBytes |-> ZeroByte]

\* ensure_block() from the archive: a block of full length is taken as it is,
\* any other is decompressed, and must come out as long as a block.
Decoded(index) ==
  LET item == ReadAt(CompressedOffset(index), StoredLen(index))
  IN IF StoredLen(index) = BlockBytes
     THEN IF item.kind = "raw" THEN item.what ELSE NoiseBlock
     ELSE IF item.kind = "zstd" /\ Len(item.what) = BlockBytes THEN item.what
     ELSE Undecodable

CacheServes(index) == cached_block.index = index

BlockData(index) == IF CacheServes(index) THEN cached_block.data ELSE Decoded(index)

\* The blocks a range touches.
BlocksOf(file, offset, len) ==
  LET from == listed[file].offset + offset
  IN [i \in 1 .. ((from + len - 1) \div BlockBytes) - (from \div BlockBytes) + 1 |->
        (from \div BlockBytes) + i - 1]

InFileBounds(file, offset, len) == offset + len <= listed[file].size

RangeBytes(file, offset, len) ==
  LET from == listed[file].offset + offset IN
  [k \in 1 .. len |->
     BlockData((from + k - 1) \div BlockBytes)[((from + k - 1) % BlockBytes) + 1]]

Cache(index) == cached_block' = [index |-> index, data |-> BlockData(index)]

ReadError(file, offset, len) ==
  answer' = [file |-> file, offset |-> offset, len |-> len, ok |-> FALSE, bytes |-> <<>>]

\* A block that does not decode is an error, and costs the cached block.
ReadFileRange(file, offset, len) ==
  LET blocks == BlocksOf(file, offset, len) IN
  /\ reader = "open"
  /\ InFileBounds(file, offset, len)
  /\ IF \A i \in DOMAIN blocks : BlockData(blocks[i]) # Undecodable
     THEN /\ answer' = [file |-> file, offset |-> offset, len |-> len, ok |-> TRUE,
                        bytes |-> RangeBytes(file, offset, len)]
          /\ Cache(Last(blocks))
     ELSE ReadError(file, offset, len) /\ cached_block' = NoBlock
  /\ UNCHANGED <<writerVars, reader, listed>>

\* "read past end of file"
ReadPastEnd(file, offset, len) ==
  /\ reader = "open"
  /\ ~InFileBounds(file, offset, len)
  /\ ReadError(file, offset, len)
  /\ UNCHANGED <<writerVars, reader, listed, cached_block>>

\* Faulty: the block that was to be read has replaced the cached one.
CacheAfterThrow(blocks, i) ==
  [index |-> blocks[i], data |-> IF i = 1 THEN cached_block.data ELSE BlockData(blocks[i - 1])]

\* The cached block is replaced only after the read.
CacheBeforeBlock(blocks, i) ==
  IF i = 1 THEN cached_block
  ELSE [index |-> blocks[i - 1], data |-> BlockData(blocks[i - 1])]

\* The read of the i-th block throws.
BlockReadFails(file, offset, len, i) ==
  LET blocks == BlocksOf(file, offset, len) IN
  /\ reader = "open"
  /\ InFileBounds(file, offset, len)
  /\ i \in DOMAIN blocks
  /\ i = 1 => ~CacheServes(blocks[i])
  /\ \A j \in 1 .. i - 1 : BlockData(blocks[j]) # Undecodable
  /\ ReadError(file, offset, len)
  /\ cached_block' = CacheBeforeBlock(blocks, i)
  /\ UNCHANGED <<writerVars, reader, listed>>

ReadStep(file, offset, len) ==
  \/ ReadFileRange(file, offset, len)
  \/ ReadPastEnd(file, offset, len)
  \/ \E i \in 1 .. len : BlockReadFails(file, offset, len, i)

-----------------------------------------------------------------------------
Ended ==
  /\ call = 0
  /\ phase = "refused" \/ throws = MaxThrows \/ reader # "closed"
  /\ UNCHANGED zarVars

ZarInit ==
  /\ WriterInit
  /\ reader = "closed"
  /\ listed = <<>>
  /\ cached_block = NoBlock
  /\ answer = NoAnswer

ZarNext ==
  \/ WriterCall /\ UNCHANGED zarReaderVars
  \/ FileReadFails /\ UNCHANGED zarReaderVars
  \/ OpenReader
  \/ \E file \in DOMAIN listed, offset \in ReadOffsets, len \in ReadLengths :
       ReadStep(file, offset, len)
  \/ Ended

\* A driver that keeps calling; JavaScript need not ever throw.
ZarSpec == ZarInit /\ [][ZarNext]_zarVars /\ WF_zarVars(WriterCall /\ UNCHANGED zarReaderVars)

-----------------------------------------------------------------------------
(* Properties                                                                *)

Byte == [file : Nat, pos : Nat]

\* The session's and the reader's fields have the types the code gives them;
\* the buffer never holds a full block between steps.
ZarTypeOK ==
  /\ phase \in {"refused", "Streaming", "AlignPad", "OffsetRecords",
                "NameTable", "FileTree", "Footer", "Done"}
  /\ current_file \in 1 .. Len(files) + 1
  /\ current_file_pos \in Nat
  /\ block_buffer \in Seq(Byte) /\ Len(block_buffer) < BlockBytes
  /\ blocks_written \in Nat
  /\ \A i \in DOMAIN offset_records :
       /\ offset_records[i].base_offset \in Nat
       /\ offset_records[i].sizes \in Seq(0 .. BlockBytes - 1)
       /\ Len(offset_records[i].sizes) \in 1 .. EntriesPerRecord
  /\ pending_output \in Nat
  /\ call \in ChunkLimits \cup {0}
  /\ throws \in 0 .. MaxThrows
  /\ reader \in {"closed", "open", "rejected"}
  /\ cached_block = NoBlock \/ (cached_block.index \in Nat /\ cached_block.data \in Seq(Byte))

\* units_done() is exactly the bytes read so far, whatever was thrown and
\* repeated on the way: no byte is lost or counted twice between the files,
\* the buffer and the blocks.
ProgressIsBytesRead ==
  UnitsDone = FileStart(files, current_file) + current_file_pos

\* Every byte emitted is handed over once, and the manifest, known when the
\* footer is, promises exactly what the driver ends up with.
ManifestIsWhatArrives ==
  /\ written + pending_output = total_emitted
  /\ ArchiveDone => OutputManifest = <<written>>

\* The path as the archive spells it: a directory keeps the case its name had
\* when it came first.
Spelled(path, original) ==
  /\ Len(path) = Len(original)
  /\ Last(path) = Encoded[Last(original)]
  /\ \A i \in DOMAIN path :
       \E name \in DOMAIN Fold : /\ Fold[name] = Fold[original[i]]
                                 /\ path[i] = Encoded[name]

\* The reader accepts every archive the writer finishes, and lists its files
\* once each, under the Windows-1252 form of its path (a directory keeps the
\* case of its first mention), with its size and the place of its first byte.
ListingRoundTrips ==
  /\ reader # "rejected"
  /\ reader = "open" =>
       /\ Len(listed) = Len(files)
       /\ \E from \in [DOMAIN listed -> DOMAIN files] :
            /\ \A i, j \in DOMAIN listed : from[i] = from[j] => i = j
            /\ \A i \in DOMAIN listed :
                 /\ Spelled(listed[i].path, files[from[i]].path)
                 /\ listed[i].size = files[from[i]].size
                 /\ listed[i].offset = FileStart(files, from[i])

\* The bytes of the source, file after file.
EndToEnd(list) ==
  FoldLeft(\o, <<>>, [f \in DOMAIN list |->
                        [i \in 1 .. list[f].size |-> [file |-> f, pos |-> i]]])

SourceBytes == EndToEnd(files)

\* Every block of an archive is found through its record and decodes to its
\* part of the source, the last one padded.
EveryBlockDecodes ==
  reader = "open" =>
    \A index \in 0 .. blocks_written - 1 :
      Decoded(index) =
        [i \in 1 .. BlockBytes |->
           IF index * BlockBytes + i \in DOMAIN SourceBytes
           THEN SourceBytes[index * BlockBytes + i] ELSE ZeroByte]

\* What holds of the session and its archive in every state.
ArchiveSound ==
  ZarTypeOK /\ ProgressIsBytesRead /\ ManifestIsWhatArrives /\ EveryBlockDecodes

\* A path is refused exactly if a component repeats a sibling that is a file,
\* or the whole path repeats one before, without regard to case.
RefusedExactlyIfAmbiguous ==
  LET folded(f) == [i \in DOMAIN files[f].path |-> Fold[files[f].path[i]]]
      clash == \/ \E f \in DOMAIN files : files[f].path = <<>>
               \/ \E f, g \in DOMAIN files : f # g /\ IsPrefix(folded(f), folded(g))
  IN (phase = "refused") <=> clash

\* What becomes of the paths of the source.
DirectoryRoundTrips == ListingRoundTrips /\ RefusedExactlyIfAmbiguous

\* The refinement mapping to FileStore: the range of every file listed.
Number(bytes) == [i \in DOMAIN bytes |-> bytes[i].file * (Word * Half) + bytes[i].pos]

Store ==
  [i \in DOMAIN listed |->
     Number(SubSeq(SourceBytes, listed[i].offset + 1, listed[i].offset + listed[i].size))]

Files ==
  INSTANCE FileStore WITH
    store <- Store, answer <- [answer EXCEPT !.bytes = Number(@)]

\* The reader implements FileStore: a range that can be read is that range of
\* the source, whichever blocks were cached, evicted or failed before.
ImplementsFileStore == Files!Spec

\* A driver that keeps calling is done, was refused, or gave up.
EventuallyDone == <>(ArchiveDone \/ phase = "refused" \/ throws = MaxThrows)
=============================================================================
