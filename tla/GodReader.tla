------------------------------ MODULE GodReader ------------------------------
(***************************************************************************)
(* GodSource (src/crate/src/formats/god/read.rs): what a reader makes of   *)
(* the Data files a finished GodSession has written.  It knows the number  *)
(* of files and the size of the last one, and computes where a sector is.  *)
(***************************************************************************)
EXTENDS GodWriter

CONSTANT SectorBytes   \* SECTOR_SIZE: the bytes told apart in a sector

ASSUME SectorAssumption == SectorBytes \in Nat \ {0}

\* A read that throws, and a place that is not the image's.
Refused == -1
Foreign == -2

DataFiles == [i \in 0 .. part_count - 1 |-> files[i]]

\* open(): there is a last part of at least a block.
Opens == part_count > 0 /\ SizeOf(files[part_count - 1]) >= BlockSectors

\* total_sectors: the data blocks of the last Data file, from its size, and
\* those of the files before it, which are full.
TotalSectors ==
  LET total_blocks_last == SizeOf(files[part_count - 1]) \div BlockSectors
      hash_table_blocks == (total_blocks_last - 1) \div (BlocksPerSubpart + 1)
      data_blocks_last == total_blocks_last - 1 - hash_table_blocks
  IN (data_blocks_last + BlocksPerPart * (part_count - 1)) * BlockSectors

\* Faulty: the hash table of the sector's own subpart is not counted.
RemapBehindEarlierTables(s) ==
  LET block_num == s \div BlockSectors
      block_in_file == block_num % BlocksPerPart
      subpart_index == block_in_file \div BlocksPerSubpart
  IN [file |-> block_num \div BlocksPerPart,
      offset |-> (1 + subpart_index + block_in_file) * BlockSectors + (s % BlockSectors)]

\* remap_sector(): the Data file of sector s, and the offset in it.
RemapSector(s) ==
  LET block_num == s \div BlockSectors
      block_in_file == block_num % BlocksPerPart
      subpart_index == block_in_file \div BlocksPerSubpart
  IN [file |-> block_num \div BlocksPerPart,
      offset |-> (1 + (subpart_index + 1) + block_in_file) * BlockSectors + (s % BlockSectors)]

\* The sector of the image at an offset of a file; only the last block of a
\* file may be short.
SectorAt(file, offset) ==
  LET block == file[(offset \div BlockSectors) + 1]
      within == offset % BlockSectors
  IN IF block[1] = "data" THEN block[2] + within ELSE Foreign

\* read_sector(): reader_for() opens the file it is in, read_exact() refuses
\* what lies behind its end.
ReadSector(data_files, s) ==
  LET place == RemapSector(s)
  IN IF place.file \notin DOMAIN data_files THEN Refused
     ELSE IF place.offset >= SizeOf(data_files[place.file]) THEN Refused
     ELSE SectorAt(data_files[place.file], place.offset)

Larger(a, b) == IF a >= b THEN a ELSE b

\* The bytes of the sector at place s of the image a read of
\* [offset, offset + len) copies, copy_start to copy_end; held is the sector
\* that was found there.
Copied(held, s, offset, len) ==
  LET start == s * SectorBytes
      copy_start == Larger(offset, start) - start
      copy_end == Smaller(offset + len, start + SectorBytes) - start
  IN [k \in 1 .. copy_end - copy_start |-> held * SectorBytes + copy_start + k - 1]

\* read_bytes(): sector by sector; the first that fails ends it.
ReadBytes(data_files, offset, len) ==
  LET first == offset \div SectorBytes
      last == (offset + len - 1) \div SectorBytes
      held == [s \in first .. last |-> ReadSector(data_files, s)]
  IN IF \E s \in first .. last : held[s] = Refused THEN <<Refused>>
     ELSE FoldLeft(LAMBDA out, k : out \o Copied(held[first + k], first + k, offset, len), <<>>,
                   [k \in 1 .. last - first + 1 |-> k - 1])

-----------------------------------------------------------------------------
(* Properties                                                                *)

\* Reads that begin or end within a sector, some across several.
Reads == (0 .. data_size * SectorBytes) \X {1, 2, 3 * SectorBytes}

\* Once a session is done, a reader opens its files and counts no fewer
\* sectors than the image has.  Its count of hash tables in the last file may
\* leave it a block too many: the image comes back byte for byte, and a read
\* of a sector counted in excess throws, never returning a hash table or the
\* bytes of another file (GodSource).
ReaderFindsEverySector ==
  IsDone =>
    /\ Opens
    /\ TotalSectors \in data_size .. data_size + BlockSectors
    /\ \A s \in data_size .. TotalSectors - 1 : ReadSector(DataFiles, s) = Refused
    /\ \A read \in Reads :
         LET end == read[1] + read[2]
         IN ReadBytes(DataFiles, read[1], read[2]) =
              IF end <= data_size * SectorBytes
              THEN [k \in 1 .. read[2] |-> read[1] + k - 1] ELSE <<Refused>>
=============================================================================
