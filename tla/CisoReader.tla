----------------------------- MODULE CisoReader -----------------------------
(***************************************************************************)
(* CisoSource (src/crate/src/formats/ciso/read.rs) over the files a        *)
(* session of CisoWriter has made.  There is no table of parts: the reader *)
(* takes header and index from the first file, infers where parts begin    *)
(* from positions that go down, and derives the stored length of a sector  *)
(* from the distance to the next position.                                 *)
(*                                                                         *)
(* A read of a sector ends in one of three ways: "bytes", the sector's     *)
(* own; "garbled", others; or "error".  That a part answers with the bytes *)
(* of its file is the subject of JsReader.                                 *)
(***************************************************************************)
EXTENDS CisoWriter

CONSTANT WordValues   \* 2^32: positions and lengths are u32

\* The longest part, with all its padding, is shorter.
ASSUME WordAssumption ==
  /\ WordValues \in Nat
  /\ SplitPoint + SectorSize + AlignMult + PaddingModulus <= WordValues

-----------------------------------------------------------------------------
(* Opening                                                                   *)

\* The index holds an entry for every sector and one for the end.
IndexBytes == EntrySize * (total_data_sectors + 1)

\* parse_header_and_index() and validate_index_table_size(): the table must
\* fit into the first part behind the header.
IndexFits(part0_size) == IndexBytes <= part0_size - HeaderSize

\* part_boundaries: the sectors whose position is below their predecessor's.
PartBoundaries ==
  {0} \cup {s \in 1 .. total_data_sectors - 1 :
              index_table[s].position < index_table[s - 1].position}

\* Faulty: the sector a part begins with is looked for in the part before.
LocateBefore(s) == Cardinality({b \in PartBoundaries : b < s}) - (IF s = 0 THEN 0 ELSE 1)

\* locate_part: the part, counted from 0, that begins at or before s.
LocatePart(s) == Cardinality({b \in PartBoundaries : b <= s}) - 1

\* The files of a finished session, in the order of their numbers.
PartSize(p) == written[SplitName(p)]

\* CisoSource::open
Opens ==
  /\ TotalParts > 0
  /\ IndexFits(PartSize(0))
  /\ TotalParts >= Cardinality(PartBoundaries)

\* total_data_sectors()
SectorsFound == IndexBytes \div EntrySize - 1

-----------------------------------------------------------------------------
(* Reading a sector                                                          *)

StoredOffset(s) == index_table[s].position * AlignMult

\* The difference of two u32 positions, shifted: it wraps around.
StoredLength(s) ==
  ((index_table[s + 1].position - index_table[s].position) * AlignMult) % WordValues

\* Faulty: a sector must end before the file does.
RangeFitsInside(offset, length, size) == offset + length < size

\* validate_stored_range()
RangeFits(offset, length, size) == offset + length <= size

\* decode_lz4_sector(): a block is decoded if all of it is there; what
\* follows it is read as the mark that ends the frame.
Decoded(s, length) == IF image[s] <= length THEN "bytes" ELSE "garbled"

\* What is in part p at an offset: the sector landed there, or other bytes.
Holds(s, p, offset) == landed[s] = [name |-> SplitName(p), offset |-> offset]

\* read_sector()
ReadSector(s) ==
  LET offset == StoredOffset(s)
      length == StoredLength(s)
      part == LocatePart(s)
  IN IF \/ s >= SectorsFound
        \/ ~RangeFits(offset, length, PartSize(part))
        \/ ~index_table[s].compressed /\ length # SectorSize
     THEN "error"
     ELSE IF ~Holds(s, part, offset) THEN "garbled"
     ELSE IF index_table[s].compressed THEN Decoded(s, length) ELSE "bytes"

\* read_bytes(): sector by sector, and the first that fails ends it.
ReadBytes(offset, length) ==
  LET touched == (offset \div SectorSize) .. ((offset + length - 1) \div SectorSize)
      answers == {ReadSector(s) : s \in touched}
  IN IF "error" \in answers THEN "error"
     ELSE IF "garbled" \in answers THEN "garbled" ELSE "bytes"

-----------------------------------------------------------------------------
(* Properties                                                                *)

\* Both passes cut the image at the same sectors: a sector is streamed into
\* the file of the part that the index, written before, puts it in.
PassesAgree ==
  sizing_done =>
    \A s \in Sectors :
      landed[s] # Nowhere => landed[s].name = SplitName(LocatePart(s))

\* The session's fields keep their types, and what the first pass has written
\* into the index describes what the second hands over: as long as every
\* part before it ended aligned, a sector lands in the file of the part a
\* reader looks for it in, at the offset the index gives it there.
SessionSound ==
  /\ TypeOK
  /\ \A s \in Sectors :
       landed[s] # Nowhere /\ InStep(s) =>
         landed[s] = [name |-> SplitName(LocatePart(s)), offset |-> StoredOffset(s)]

\* The last sector of a part that is not the last: the next position is that
\* of another file.
EndsPart(s) == s + 1 \in PartBoundaries

\* Only the last position is rounded down.
CutShort(s) == s + 1 = total_data_sectors /\ image[s] % AlignMult # 0

\* What the reader can be relied on for: the sector lies where the index says
\* and the next position, which tells its length, is that of its own end.
Readable(s) == InStep(s) /\ ~EndsPart(s) /\ ~CutShort(s)

\* The finished files of any image open, with all their sectors, and every
\* readable sector is read back, alone and in a range that crosses into
\* another; a range that leaves the image is refused.
ReaderFindsSectors ==
  pc = "idle" /\ IsDone =>
    /\ Opens
    /\ SectorsFound = total_data_sectors
    /\ \A s \in Sectors : Readable(s) => ReadSector(s) = "bytes"
    /\ \A s \in Sectors : s + 1 \in Sectors /\ Readable(s) /\ Readable(s + 1) =>
         ReadBytes(s * SectorSize + 1, SectorSize) = "bytes"
    /\ ReadBytes(total_data_sectors * SectorSize - 1, 2) = "error"

\* What npm/test/conversion-session/ciso/splitting.test.ts:52 says of a split
\* image: it is read like the same image in one part, sector for sector.  Asked
\* here of the images that both passes cut alike.
SplitReadsAsUnsplit ==
  pc = "idle" /\ IsDone /\ ManifestHolds =>
    \A s \in Sectors : ReadSector(s) = (IF CutShort(s) THEN "garbled" ELSE "bytes")
=============================================================================
