------------------------------ MODULE CciReader ------------------------------
(***************************************************************************)
(* CciSource (src/crate/src/formats/cci/read.rs): what a reader makes of   *)
(* the files a finished CciSession has written.  Every part is opened on   *)
(* its own, a sector is looked up by the number of sectors of the parts    *)
(* before it, and its slot is copied or decoded.                           *)
(*                                                                         *)
(* A read answers the sector, or byte, of the image it returns; "error"    *)
(* where the code refuses, "garbled" where it would return other bytes.    *)
(***************************************************************************)
EXTENDS CciWriter, SequencesExt

Parts == DOMAIN parts

\* CciSource::open(): at least one part, and each with a header and an index
\* that fit each other; a file is as long as what was written to it.
Opens ==
  /\ Parts # {}
  /\ \A p \in Parts :
       ReaderAccepts([parts[p] EXCEPT !.total_size = written[OutputNameFor(p - 1, Len(parts))]])

SectorsOf(p) == Len(parts[p].index) - 1

\* sector_offsets: the sectors of the parts before p.
SectorOffset(p) == FoldLeft(+, 0, [q \in 1 .. p - 1 |-> SectorsOf(q)])

SectorsFound == SectorOffset(Len(parts) + 1)

\* Faulty: the sector a part begins with is looked for in the part before.
LocateBefore(s) == {p \in Parts : p = 1 \/ SectorOffset(p) < s}

\* locate(): the parts that begin at or before s; the last of them has it.
LocateIn(s) == {p \in Parts : SectorOffset(p) <= s}

\* The sector whose slot begins at an offset of a file.
SectorAt(name, offset) ==
  {s \in DOMAIN landed : landed[s] = [name |-> name, offset |-> offset]}

\* Decoding the slot of t: the length of the padding comes first, and a
\* block is decoded only if exactly its bytes are there.
Decoded(t, len) ==
  IF len < 1 \/ len < 1 + PaddingLen(image[t]) THEN "error"
  ELSE IF IsCompressed(image[t]) /\ len - (1 + PaddingLen(image[t])) = image[t]
  THEN "bytes" ELSE "garbled"

\* A slot copied as it is: of a sector stored as it is.
Copied(t) == IF IsCompressed(image[t]) THEN "garbled" ELSE "bytes"

\* read_sector()
ReadSector(s) ==
  IF s >= SectorsFound \/ LocateIn(s) = {} THEN "error"
  ELSE LET p == CHOOSE q \in LocateIn(s) : \A r \in LocateIn(s) : r <= q
           within == s - SectorOffset(p)
           slot == ReaderSlot(p, within + 1)
       IN IF within >= SectorsOf(p) THEN "error"
          ELSE IF s \notin SectorAt(slot.name, slot.offset) THEN "garbled"
          ELSE IF slot.raw THEN Copied(s) ELSE Decoded(s, slot.len)

Larger(a, b) == IF a >= b THEN a ELSE b

\* The bytes of sector s a read of [offset, offset + len) is after, counted
\* from the beginning of the image: copy_start to copy_end.
Wanted(s, offset, len) ==
  LET start == s * SectorSize
      copy_start == Larger(offset, start) - start
      copy_end == Smaller(offset + len, start + SectorSize) - start
  IN [k \in 1 .. copy_end - copy_start |-> start + copy_start + k - 1]

\* read_bytes(): sector by sector; the first that fails ends it.
ReadBytes(offset, len) ==
  LET first == offset \div SectorSize
      touched == [k \in 1 .. ((offset + len - 1) \div SectorSize) - first + 1 |-> first + k - 1]
  IN IF len = 0 THEN <<>>
     ELSE IF \E k \in DOMAIN touched : ReadSector(touched[k]) # "bytes" THEN <<"error">>
     ELSE FoldLeft(LAMBDA out, s : out \o Wanted(s, offset, len), <<>>, touched)

-----------------------------------------------------------------------------
(* Properties                                                                *)

\* The files of a finished session open as an image of as many sectors; every
\* sector comes back, from the part and in the form it was stored in, and a
\* read that begins or ends anywhere in a sector, or runs on into the next
\* part, returns exactly the bytes asked for.  What lies behind the image is
\* refused (CciSource).
ReaderReadsImage ==
  IsDone =>
    /\ Opens
    /\ SectorsFound = total_data_sectors
    /\ \A s \in DOMAIN image :
         /\ ReadSector(s) = "bytes"
         /\ \A before \in {0, 1, SectorSize - 1}, after \in {0, 1, SectorSize} :
              LET offset == s * SectorSize + before
                  len == SectorSize - before + after
              IN ReadBytes(offset, len) =
                   IF offset + len <= total_data_sectors * SectorSize
                   THEN [k \in 1 .. len |-> offset + k - 1] ELSE <<"error">>
    /\ ReadSector(total_data_sectors) = "error"
=============================================================================
