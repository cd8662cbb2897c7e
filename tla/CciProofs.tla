------------------------------ MODULE CciProofs ------------------------------
(***************************************************************************)
(* Proofs about CciWriter and CciReader: for every image and every value   *)
(* of the sizes, the writer cuts the image into parts without gap or       *)
(* overlap, its index finds every sector where the streaming pass put it,  *)
(* the files hold exactly what the manifest promised, and a reader gets    *)
(* every sector and every range of bytes back from them.                   *)
(*                                                                         *)
(* None of these is inductive as it stands.  The inductive invariant IInv  *)
(* ties the two passes together through the image: the sizing pass has     *)
(* recorded, for the sectors it has seen, ends of slots that differ by     *)
(* SlotLen (InfosOK); every finalized part's index repeats them (PartOK);  *)
(* and the streaming pass has written, in the file of the part it is in,   *)
(* exactly as many bytes as the index assigns to the sectors before its    *)
(* cursor (StreamOK).                                                      *)
(***************************************************************************)
EXTENDS CciReader, CommonLemmas

-----------------------------------------------------------------------------
(* The inductive invariant                                                   *)

Aligned(x) == x % AlignMult = 0

Rounded(x) == ((x + AlignMult - 1) \div AlignMult) * AlignMult

SlotStart(infos, i) == IF i = 1 THEN 0 ELSE infos[i - 1].end

\* Slots recorded for the sectors of img from first on: back to back, each
\* aligned, none beyond the last one's end.
SlotsOK(infos, first, img) ==
  \A i \in 1 .. Len(infos) :
    /\ infos[i].end = SlotStart(infos, i) + SlotLen(img[first + i - 1])
    /\ infos[i].compressed = IsCompressed(img[first + i - 1])
    /\ Aligned(infos[i].end)
    /\ infos[i].end <= DataLen(infos)

\* The part being sized.
InfosOK ==
  LET infos == sizing_part_index_infos
  IN /\ sizing_part_first_sector + Len(infos) <= total_data_sectors
     /\ SlotsOK(infos, sizing_part_first_sector, image)
     /\ ~sizing_done /\ pc # "failed" =>
          sizing_part_position = IF infos = <<>> THEN 0 ELSE HeaderSize + DataLen(infos)
     /\ HeaderSize + DataLen(infos) <= SplitPoint + SectorSize

Pos(part, i) == part.index[i].position * AlignMult

\* A finalized part's index describes the slots of its sectors, in an image
\* img of total sectors.
PartOK(part, img, total) ==
  LET n == part.sector_count
  IN /\ part \in Part
     /\ Len(part.index) = n + 1
     /\ part.first_sector + n <= total
     /\ n > 0 \/ total = 0
     /\ part.uncompressed_size = n * SectorSize
     /\ Pos(part, 1) = HeaderSize
     /\ \A i \in 1 .. n :
          /\ Pos(part, i + 1) = Pos(part, i) + SlotLen(img[part.first_sector + i - 1])
          /\ part.index[i].compressed = IsCompressed(img[part.first_sector + i - 1])
     /\ \A i \in 1 .. n + 1 : Pos(part, i) <= part.index_offset
     /\ part.index_offset = Pos(part, n + 1)
     /\ part.index_offset <= SplitPoint + SectorSize
     /\ part.total_size = part.index_offset + EntrySize * (n + 1)

\* Parts ps follow one another from sector 0 on and end where the next one
\* will begin.
ChainOK(ps, next, img, total) ==
  /\ \A p \in 1 .. Len(ps) : PartOK(ps[p], img, total)
  /\ ps # <<>> => ps[1].first_sector = 0
  /\ \A p \in 1 .. Len(ps) - 1 :
       ps[p + 1].first_sector = ps[p].first_sector + ps[p].sector_count
  /\ \A p, q \in 1 .. Len(ps) :
       p < q => ps[p].first_sector + ps[p].sector_count <= ps[q].first_sector
  /\ \A p \in 1 .. Len(ps) : ps[p].first_sector + ps[p].sector_count <= next
  /\ IF ps = <<>> THEN next = 0
     ELSE next = ps[Len(ps)].first_sector + ps[Len(ps)].sector_count
  /\ total > 0 => Len(ps) <= next
  /\ total = 0 => Len(ps) <= 1

PartsOK == ChainOK(parts, sizing_part_first_sector, image, total_data_sectors)

\* Before the manifest is published nothing has been streamed.
PlanningOK ==
  ~sizing_done =>
    /\ sizing_part_first_sector + Len(sizing_part_index_infos) =
         (IF pc = "idle" THEN sizing_next_sector ELSE sector)
    /\ pc # "emitting" /\ out_len = 0
    /\ pc # "idle" => sector <= BatchEnd
    /\ pc = "sizing" => total_data_sectors > 0
    /\ sizing_part_index_infos = <<>> /\ pc # "failed" => sizing_part_first_sector = 0
    /\ total_data_sectors = 0 => parts = <<>>
    /\ output_manifest = <<>>
    /\ written = [name \in Names |-> 0]
    /\ landed = [s \in 0 .. total_data_sectors - 1 |-> Nowhere]

NameOf(p) == OutputNameFor(p - 1, Len(parts))

\* Bytes of part p's file written so far.
BytesOf(p) ==
  IF p <= stream_part THEN parts[p].total_size
  ELSE IF p > stream_part + 1 \/ stream_part = Len(parts) THEN 0
  ELSE IF stream_stage = "header" THEN stream_blob_pos
  ELSE IF stream_stage = "index" THEN parts[p].index_offset + stream_blob_pos
  ELSE Pos(parts[p], stream_sector_cursor - parts[p].first_sector + 1) - out_len

\* Whether the streaming pass has emitted the i-th sector of part p.
Emitted(p, i) ==
  \/ p <= stream_part
  \/ /\ p = stream_part + 1
     /\ \/ stream_stage = "index"
        \/ /\ stream_stage = "sectors"
           /\ parts[p].first_sector + i - 1 < stream_sector_cursor

\* The streaming pass, once the manifest is published.
StreamOK ==
  sizing_done =>
    /\ parts # <<>>
    /\ sizing_part_first_sector = total_data_sectors
    /\ pc # "sizing"
    /\ output_manifest = [p \in 1 .. Len(parts) |->
                            [name |-> NameOf(p), size |-> parts[p].total_size]]
    /\ stream_part <= Len(parts)
    /\ stream_stage = "header" => stream_blob_pos < HeaderSize
    /\ stream_part = Len(parts) => stream_stage = "header" /\ stream_blob_pos = 0
    /\ stream_stage = "index" => stream_blob_pos < EntrySize * Len(CurrentPart.index)
    /\ stream_stage = "sectors" =>
         CurrentPart.first_sector <= stream_sector_cursor /\ stream_sector_cursor <= EndSector
    /\ pc = "idle" => out_len = 0
    /\ pc = "emitting" => /\ stream_part < Len(parts)
                          /\ stream_stage = "sectors"
                          /\ current_entry_name = CurrentName
    /\ \A p \in 1 .. Len(parts) : written[NameOf(p)] = BytesOf(p)
    /\ \A name \in Names : written[name] > 0 => \E p \in 1 .. Len(parts) : NameOf(p) = name
    /\ \A p \in 1 .. Len(parts) : \A i \in 1 .. parts[p].sector_count :
         landed[parts[p].first_sector + i - 1] = IF Emitted(p, i)
           THEN [name |-> NameOf(p), offset |-> Pos(parts[p], i)] ELSE Nowhere

IInv == TypeOK /\ InfosOK /\ PartsOK /\ PlanningOK /\ StreamOK

-----------------------------------------------------------------------------
(* Arithmetic of aligned sizes                                               *)

\* A multiple of a is divisible by a.
LEMMA MultipleIsAligned ==
  ASSUME NEW a \in Nat \ {0}, NEW k \in Nat
  PROVE  (k * a) % a = 0
  OBVIOUS

\* Dividing an aligned position and multiplying it back, as writer and
\* reader of an index entry do, loses nothing.
LEMMA DivThenMult ==
  ASSUME NEW x \in Nat, Aligned(x)
  PROVE  x \div AlignMult \in Nat /\ (x \div AlignMult) * AlignMult = x
  BY CciAssumption DEF Aligned

\* A sum of aligned sizes is aligned.
LEMMA AlignedSum ==
  ASSUME NEW x \in Nat, NEW y \in Nat, Aligned(x), Aligned(y)
  PROVE  Aligned(x + y)
<1>0. AlignMult \in Nat \ {0} BY CciAssumption
<1>1. x \div AlignMult \in Nat /\ (x \div AlignMult) * AlignMult = x BY DivThenMult
<1>2. y \div AlignMult \in Nat /\ (y \div AlignMult) * AlignMult = y BY DivThenMult
<1>3. \A q, r, a \in Nat : (q + r) * a = q * a + r * a OBVIOUS
<1>4. x + y = (x \div AlignMult + y \div AlignMult) * AlignMult BY <1>0, <1>1, <1>2, <1>3
<1>5. x \div AlignMult + y \div AlignMult \in Nat BY <1>1, <1>2
<1> QED BY <1>0, <1>4, <1>5, MultipleIsAligned DEF Aligned

\* Rounding up to a multiple of ALIGN_MULT reaches the next multiple.
LEMMA RoundUp ==
  ASSUME NEW x \in Nat
  PROVE  /\ Rounded(x) \in Nat
         /\ x <= Rounded(x)
         /\ Rounded(x) < x + AlignMult
         /\ Aligned(Rounded(x))
<1>0. AlignMult \in Nat \ {0} BY CciAssumption
<1>1. (x + AlignMult - 1) \div AlignMult \in Nat BY <1>0
<1>2. Aligned(((x + AlignMult - 1) \div AlignMult) * AlignMult)
  BY <1>0, <1>1, MultipleIsAligned DEF Aligned
<1> QED BY <1>0, <1>1, <1>2 DEF Rounded

\* A slot is never empty, never longer than a sector, always aligned, and
\* the streaming pass emits as many bytes as the sizing pass counted; only
\* a raw sector fills a whole slot.
LEMMA SlotLenFacts ==
  ASSUME NEW lz4 \in Lz4Lens
  PROVE  /\ SlotLen(lz4) \in Nat
         /\ 0 < SlotLen(lz4)
         /\ SlotLen(lz4) <= SectorSize
         /\ Aligned(SlotLen(lz4))
         /\ EmittedLen(lz4) = SlotLen(lz4)
         /\ IsCompressed(lz4) \in BOOLEAN
         /\ IsCompressed(lz4) => SlotLen(lz4) < SectorSize
<1> USE CciAssumption
<1>1. lz4 \in Nat OBVIOUS
<1>2. /\ CompressedWrittenLen(lz4) \in Nat
      /\ lz4 + 1 <= CompressedWrittenLen(lz4)
      /\ CompressedWrittenLen(lz4) < lz4 + 1 + AlignMult
      /\ Aligned(CompressedWrittenLen(lz4))
  <2>1. lz4 + 1 \in Nat /\ CompressedWrittenLen(lz4) = Rounded(lz4 + 1)
    BY <1>1 DEF CompressedWrittenLen, Rounded
  <2> QED BY <2>1, RoundUp
<1>3. CASE IsCompressed(lz4) BY <1>1, <1>2, <1>3 DEF SlotLen, EmittedLen, PaddingLen, IsCompressed
<1>4. CASE ~IsCompressed(lz4) BY <1>4 DEF SlotLen, EmittedLen, IsCompressed, Aligned
<1> QED BY <1>3, <1>4

-----------------------------------------------------------------------------
(* The sizing pass                                                           *)

\* A freshly opened session satisfies the invariant.
LEMMA InitIInv == Init => IInv
<1> USE CciAssumption
<1> SUFFICES ASSUME Init PROVE IInv OBVIOUS
<1>1. TypeOK
  <2>1. total_data_sectors \in 0 .. MaxSectors /\ total_data_sectors \in Nat BY DEF Init
  <2>2. 0 \in 0 .. total_data_sectors /\ 0 \in Names BY <2>1 DEF Names
  <2>3. current_entry_name = 0 BY DEF Init, OutputNameFor
  <2>4. written \in [Names -> Nat] BY DEF Init
  <2>5. landed \in [0 .. total_data_sectors - 1 -> [name : Names, offset : Int]] BY <2>2 DEF Init, Nowhere
  <2>6. sizing_part_index_infos \in Seq(SlotInfo) /\ parts \in Seq(Part) BY DEF Init
  <2>7. output_manifest \in Seq([name : Nat, size : Nat]) BY DEF Init
  <2>8. image \in [0 .. total_data_sectors - 1 -> Lz4Lens] BY DEF Init
  <2>9. /\ sizing_next_sector = 0 /\ sizing_part_first_sector = 0
        /\ sizing_part_position = 0 /\ sizing_done = FALSE
        /\ stream_part = 0 /\ stream_stage = "header" /\ stream_blob_pos = 0
        /\ stream_sector_cursor = 0 /\ pc = "idle" /\ sector = 0
        /\ max_bytes = 0 /\ out_len = 0
    BY DEF Init
  <2> QED BY <2>1, <2>2, <2>3, <2>4, <2>5, <2>6, <2>7, <2>8, <2>9 DEF TypeOK
<1>2. InfosOK BY DEF Init, InfosOK, SlotsOK, DataLen
<1>3. PartsOK BY DEF Init, PartsOK, ChainOK
<1>4. PlanningOK BY DEF Init, PlanningOK
<1>5. StreamOK BY DEF Init, StreamOK
<1> QED BY <1>1, <1>2, <1>3, <1>4, <1>5 DEF IInv

\* The part finalize_sizing_part() builds from well-formed slots has an index
\* that describes them.
LEMMA FinalizedPartOK ==
  ASSUME TypeOK, InfosOK, sizing_part_index_infos # <<>> \/ total_data_sectors = 0
  PROVE  /\ FinalizedPart \in Part
         /\ FinalizedPart.first_sector = sizing_part_first_sector
         /\ FinalizedPart.sector_count = Len(sizing_part_index_infos)
         /\ PartOK(FinalizedPart, image, total_data_sectors)
<1> USE CciAssumption
<1> DEFINE infos == sizing_part_index_infos
           n == Len(infos)
           Start(i) == HeaderSize + (IF i = 1 THEN 0 ELSE infos[i - 1].end)
           part == FinalizedPart
<1>1. /\ infos \in Seq(SlotInfo)
      /\ n \in Nat
      /\ \A i \in 1 .. n : infos[i] \in SlotInfo /\ infos[i].end \in Nat
      /\ sizing_part_first_sector \in Nat
      /\ total_data_sectors \in Nat
  <2>1. infos \in Seq(SlotInfo) BY DEF TypeOK
  <2>2. sizing_part_first_sector \in Nat /\ total_data_sectors \in Nat BY DEF TypeOK
  <2>3. \A i \in 1 .. n : infos[i] \in SlotInfo BY <2>1
  <2>4. \A i \in 1 .. n : infos[i].end \in Nat BY <2>3 DEF SlotInfo
  <2> HIDE DEF infos
  <2> QED BY <2>1, <2>2, <2>3, <2>4
<1>2. DataLen(infos) \in Nat BY <1>1 DEF DataLen
<1>3. \A i \in 1 .. n + 1 : Start(i) \in Nat /\ Aligned(Start(i))
  <2> SUFFICES ASSUME NEW i \in 1 .. n + 1
      PROVE  Start(i) \in Nat /\ Aligned(Start(i))
    OBVIOUS
  <2>0. Aligned(HeaderSize) BY DEF Aligned
  <2>1. CASE i = 1 BY <2>0, <2>1
  <2>2. CASE i # 1
    <3>1. i - 1 \in 1 .. n BY <2>2, <1>1
    <3>2. infos[i - 1].end \in Nat /\ Aligned(infos[i - 1].end)
      <4>1. Aligned(infos[i - 1].end) BY <3>1 DEF InfosOK, SlotsOK
      <4> QED BY <3>1, <4>1, <1>1
    <3>3. Aligned(HeaderSize + infos[i - 1].end)
      <4> HIDE DEF infos
      <4> QED BY <2>0, <3>2, AlignedSum
    <3>4. Start(i) = HeaderSize + infos[i - 1].end BY <2>2
    <3> HIDE DEF infos, Start
    <3> QED BY <3>2, <3>3, <3>4
  <2> QED BY <2>1, <2>2
<1>4. part.index = [i \in 1 .. n + 1 |->
    [position |-> Start(i) \div AlignMult,
     compressed |-> IF i <= n THEN infos[i].compressed ELSE FALSE]]
  BY DEF FinalizedPart
<1>5. \A i \in 1 .. n + 1 :
    /\ part.index[i].position \in Nat
    /\ part.index[i].compressed \in BOOLEAN
    /\ Pos(part, i) = Start(i)
  <2> SUFFICES ASSUME NEW i \in 1 .. n + 1
      PROVE  /\ part.index[i].position \in Nat
             /\ part.index[i].compressed \in BOOLEAN
             /\ Pos(part, i) = Start(i)
    OBVIOUS
  <2>1. part.index[i].position = Start(i) \div AlignMult BY <1>4
  <2>2. part.index[i].compressed \in BOOLEAN
    <3>1. part.index[i].compressed = IF i <= n THEN infos[i].compressed ELSE FALSE
      <4>1. part.index[i] = [position |-> Start(i) \div AlignMult,
          compressed |-> IF i <= n THEN infos[i].compressed ELSE FALSE]
        <5> HIDE DEF part, Start, infos, n
        <5> QED BY <1>4
      <4> HIDE DEF part, Start, infos, n
      <4> QED BY <4>1
    <3>2. i <= n => infos[i].compressed \in BOOLEAN
      <4> HAVE i <= n
      <4>1. infos[i] \in SlotInfo BY <1>1
      <4> HIDE DEF infos
      <4> QED BY <4>1 DEF SlotInfo
    <3> HIDE DEF part, infos, n
    <3> QED BY <3>1, <3>2
  <2>3. Start(i) \div AlignMult \in Nat /\ (Start(i) \div AlignMult) * AlignMult = Start(i)
    <3> HIDE DEF Start
    <3> QED BY <1>3, DivThenMult
  <2> QED BY <2>1, <2>2, <2>3 DEF Pos
<1>6. part.index \in Seq(IndexEntry) /\ Len(part.index) = n + 1
  <2>1. DOMAIN part.index = 1 .. n + 1 BY <1>4
  <2>2. \A i \in 1 .. n + 1 : part.index[i] \in IndexEntry
    <3> SUFFICES ASSUME NEW i \in 1 .. n + 1
        PROVE  part.index[i] \in IndexEntry
      OBVIOUS
    <3>1. part.index[i] = [position |-> part.index[i].position,
        compressed |-> part.index[i].compressed]
      BY <1>4
    <3> HIDE DEF part
    <3> QED BY <3>1, <1>5 DEF IndexEntry
  <2>3. part.index = [i \in 1 .. n + 1 |-> part.index[i]] BY <1>4
  <2>4. n + 1 \in Nat BY <1>1
  <2> HIDE DEF part, n
  <2> QED BY <2>1, <2>2, <2>3, <2>4
<1>7. /\ part.first_sector = sizing_part_first_sector
      /\ part.sector_count = n
      /\ part.uncompressed_size = n * SectorSize
      /\ part.index_offset = HeaderSize + DataLen(infos)
      /\ part.total_size = part.index_offset + EntrySize * (n + 1)
  BY DEF FinalizedPart, IndexBytes
<1>8. part \in Part
  <2>1. n * SectorSize \in Nat /\ EntrySize * (n + 1) \in Nat BY <1>1
  <2>2. part = [first_sector |-> part.first_sector, sector_count |-> part.sector_count,
      uncompressed_size |-> part.uncompressed_size, index_offset |-> part.index_offset,
      index |-> part.index, total_size |-> part.total_size]
    BY DEF FinalizedPart
  <2>3. HeaderSize + DataLen(infos) \in Nat BY <1>2
  <2>4. /\ part.first_sector \in Nat /\ part.sector_count \in Nat
        /\ part.uncompressed_size \in Nat /\ part.index_offset \in Nat
        /\ part.index \in Seq(IndexEntry)
    BY <2>1, <2>3, <1>1, <1>6, <1>7
  <2>5. part.total_size \in Nat
    <3> HIDE DEF part, n
    <3> QED BY <2>1, <2>4, <1>7
  <2> HIDE DEF part, infos, n
  <2> QED BY <2>2, <2>4, <2>5 DEF Part
<1>9. Start(n + 1) = HeaderSize + DataLen(infos) BY <1>1 DEF DataLen
<1>10. \A i \in 1 .. n : Start(i + 1) = Start(i) + SlotLen(image[sizing_part_first_sector + i - 1])
  <2> SUFFICES ASSUME NEW i \in 1 .. n
      PROVE  Start(i + 1) = Start(i) + SlotLen(image[sizing_part_first_sector + i - 1])
    OBVIOUS
  <2>1. infos[i].end = SlotStart(infos, i) + SlotLen(image[sizing_part_first_sector + i - 1])
    BY DEF InfosOK, SlotsOK
  <2>2. SlotStart(infos, i) \in Nat BY <1>1 DEF SlotStart
  <2>3. image[sizing_part_first_sector + i - 1] \in Lz4Lens
    <3>1. /\ image \in [0 .. total_data_sectors - 1 -> Lz4Lens]
          /\ sizing_part_first_sector \in Nat /\ total_data_sectors \in Nat
      BY CciAssumption DEF TypeOK
    <3>2. sizing_part_first_sector + n <= total_data_sectors BY DEF InfosOK
    <3>3. n \in Nat /\ i \in 1 .. n BY <1>1
    <3> HIDE DEF n
    <3>4. sizing_part_first_sector + i - 1 \in 0 .. total_data_sectors - 1 BY <3>1, <3>2, <3>3
    <3> QED BY <3>1, <3>4
  <2>4. SlotLen(image[sizing_part_first_sector + i - 1]) \in Nat BY <2>3, SlotLenFacts
  <2>5. Start(i + 1) = HeaderSize + infos[i].end BY <1>1
  <2>6. Start(i) = HeaderSize + SlotStart(infos, i) BY DEF SlotStart
  <2> HIDE DEF Start, infos
  <2> QED BY <2>1, <2>2, <2>4, <2>5, <2>6
<1>11. \A i \in 1 .. n + 1 : Start(i) <= HeaderSize + DataLen(infos)
  <2> SUFFICES ASSUME NEW i \in 1 .. n + 1
      PROVE  Start(i) <= HeaderSize + DataLen(infos)
    OBVIOUS
  <2>1. CASE i = 1 BY <2>1, <1>2
  <2>2. CASE i # 1
    <3>1. i - 1 \in 1 .. n BY <2>2, <1>1
    <3>2. infos[i - 1].end <= DataLen(infos) /\ infos[i - 1].end \in Nat
      BY <3>1, <1>1 DEF InfosOK, SlotsOK
    <3> QED BY <2>2, <3>2, <1>2
  <2> QED BY <2>1, <2>2
<1>12. PartOK(part, image, total_data_sectors)
  <2>1. n > 0 \/ total_data_sectors = 0 BY <1>1
  <2>2. \A i \in 1 .. n : part.index[i].compressed = IsCompressed(image[part.first_sector + i - 1])
    BY <1>1, <1>4, <1>7 DEF InfosOK, SlotsOK
  <2>3. part.first_sector + n <= total_data_sectors BY <1>7 DEF InfosOK
  <2>4. Pos(part, 1) = HeaderSize BY <1>1, <1>5
  <2>5. \A i \in 1 .. n :
      Pos(part, i + 1) = Pos(part, i) + SlotLen(image[part.first_sector + i - 1])
    <3> SUFFICES ASSUME NEW i \in 1 .. n
        PROVE  Pos(part, i + 1) = Pos(part, i) + SlotLen(image[part.first_sector + i - 1])
      OBVIOUS
    <3>1. i \in 1 .. n + 1 /\ i + 1 \in 1 .. n + 1 BY <1>1
    <3> HIDE DEF part, Start, n
    <3> QED BY <3>1, <1>5, <1>7, <1>10
  <2>6. \A i \in 1 .. n + 1 : Pos(part, i) <= part.index_offset
    <3> HIDE DEF part, Start, n
    <3> QED BY <1>5, <1>7, <1>11
  <2>7. part.index_offset = Pos(part, n + 1)
    <3>1. n + 1 \in 1 .. n + 1 BY <1>1
    <3> HIDE DEF part, Start, n
    <3> QED BY <3>1, <1>5, <1>7, <1>9
  <2>8. part.index_offset <= SplitPoint + SectorSize BY <1>7 DEF InfosOK
  <2> HIDE DEF part, Start, n
  <2> QED BY <1>6, <1>7, <1>8, <2>1, <2>2, <2>3, <2>4, <2>5, <2>6, <2>7, <2>8 DEF PartOK
<1> QED BY <1>7, <1>8, <1>12

\* Recording one more slot keeps the recorded slots well-formed.
LEMMA AppendSlotOK ==
  ASSUME NEW infos \in Seq(SlotInfo), NEW first \in Nat, NEW img, SlotsOK(infos, first, img),
         img[first + Len(infos)] \in Lz4Lens, NEW slot,
         slot = [end |-> DataLen(infos) + SlotLen(img[first + Len(infos)]),
                 compressed |-> IsCompressed(img[first + Len(infos)])]
  PROVE  /\ Append(infos, slot) \in Seq(SlotInfo)
         /\ Len(Append(infos, slot)) = Len(infos) + 1
         /\ SlotsOK(Append(infos, slot), first, img)
         /\ DataLen(Append(infos, slot)) = DataLen(infos) + SlotLen(img[first + Len(infos)])
<1> DEFINE n == Len(infos)
           len == SlotLen(img[first + n])
           all == Append(infos, slot)
<1>1. n \in Nat /\ Len(all) = n + 1 /\ all # <<>> OBVIOUS
<1>2. /\ \A i \in 1 .. n : all[i] = infos[i]
      /\ all[n + 1] = slot
  OBVIOUS
<1>3. DataLen(infos) \in Nat /\ Aligned(DataLen(infos))
  <2>1. CASE infos = <<>> BY <2>1, CciAssumption DEF DataLen, Aligned
  <2>2. CASE infos # <<>>
    <3>1. n \in 1 .. n /\ infos[n] \in SlotInfo BY <2>2
    <3>2. infos[n].end \in Nat BY <3>1 DEF SlotInfo
    <3>3. Aligned(infos[n].end) BY <3>1 DEF SlotsOK
    <3> QED BY <2>2, <3>2, <3>3 DEF DataLen
  <2> QED BY <2>1, <2>2
<1>4. /\ len \in Nat /\ 0 < len /\ Aligned(len)
      /\ IsCompressed(img[first + n]) \in BOOLEAN
  BY SlotLenFacts
<1>5. DataLen(infos) + len \in Nat /\ Aligned(DataLen(infos) + len)
  <2>1. DataLen(infos) + len \in Nat BY <1>3, <1>4
  <2>2. Aligned(DataLen(infos) + len)
    <3> HIDE DEF len
    <3>1. \A x, y \in Nat : Aligned(x) /\ Aligned(y) => Aligned(x + y) BY AlignedSum
    <3> QED BY <1>3, <1>4, <3>1
  <2> QED BY <2>1, <2>2
<1>6. slot \in SlotInfo BY <1>4, <1>5 DEF SlotInfo
<1>7. all \in Seq(SlotInfo) BY <1>6
<1>8. slot.end = DataLen(infos) + len /\ slot.compressed = IsCompressed(img[first + n]) OBVIOUS
<1>9. DataLen(all) = DataLen(infos) + len BY <1>1, <1>2, <1>8 DEF DataLen
<1>10. SlotsOK(all, first, img)
  <2> SUFFICES ASSUME NEW i \in 1 .. n + 1
      PROVE  /\ all[i].end = SlotStart(all, i) + SlotLen(img[first + i - 1])
             /\ all[i].compressed = IsCompressed(img[first + i - 1])
             /\ Aligned(all[i].end)
             /\ all[i].end <= DataLen(all)
    BY <1>1 DEF SlotsOK
  <2>1. CASE i \in 1 .. n
    <3>1. SlotStart(all, i) = SlotStart(infos, i) BY <1>2, <2>1 DEF SlotStart
    <3>2. infos[i].end \in Nat
      <4>1. infos[i] \in SlotInfo BY <2>1
      <4> QED BY <4>1 DEF SlotInfo
    <3>3. /\ infos[i].end = SlotStart(infos, i) + SlotLen(img[first + i - 1])
          /\ infos[i].compressed = IsCompressed(img[first + i - 1])
          /\ Aligned(infos[i].end)
          /\ infos[i].end <= DataLen(infos)
      BY <2>1 DEF SlotsOK
    <3> HIDE DEF all, len, n
    <3> QED BY <1>2, <1>3, <1>4, <1>9, <2>1, <3>1, <3>2, <3>3
  <2>2. CASE i = n + 1
    <3>1. first + i - 1 = first + n BY <1>1, <2>2
    <3>2. SlotStart(all, i) = DataLen(infos)
      <4>1. CASE n = 0 BY <2>2, <4>1 DEF SlotStart, DataLen
      <4>2. CASE n # 0 BY <1>1, <1>2, <2>2, <4>2 DEF SlotStart, DataLen
      <4> QED BY <4>1, <4>2
    <3> HIDE DEF all, n
    <3> QED BY <1>2, <1>5, <1>8, <1>9, <2>2, <3>1, <3>2
  <2> QED BY <1>1, <2>1, <2>2
<1> QED BY <1>1, <1>7, <1>9, <1>10

\* Pushing a well-formed part that starts where the last one ended keeps the
\* parts a chain.
LEMMA AppendChainOK ==
  ASSUME NEW ps \in Seq(Part), NEW next \in Nat, NEW img, NEW total \in Nat,
         ChainOK(ps, next, img, total), NEW part \in Part, PartOK(part, img, total),
         part.first_sector = next, ps = <<>> \/ total > 0
  PROVE  /\ Append(ps, part) \in Seq(Part)
         /\ ChainOK(Append(ps, part), next + part.sector_count, img, total)
<1> DEFINE n == Len(ps)
           all == Append(ps, part)
           EndOf(x) == x.first_sector + x.sector_count
<1>1. n \in Nat /\ Len(all) = n + 1 /\ all # <<>> /\ all \in Seq(Part) OBVIOUS
<1>2. /\ \A p \in 1 .. n : all[p] = ps[p]
      /\ all[n + 1] = part
  OBVIOUS
<1>3. /\ \A p \in 1 .. n : ps[p] \in Part
      /\ \A x \in Part : x.first_sector \in Nat /\ x.sector_count \in Nat
  <2>1. \A p \in 1 .. n : ps[p] \in Part OBVIOUS
  <2>2. \A x \in Part : x.first_sector \in Nat /\ x.sector_count \in Nat BY DEF Part
  <2> QED BY <2>1, <2>2
<1>4. part.first_sector = next /\ part.sector_count \in Nat BY <1>3
<1>5. /\ \A p \in 1 .. n : PartOK(ps[p], img, total)
      /\ ps # <<>> => ps[1].first_sector = 0
      /\ \A p \in 1 .. n - 1 : ps[p + 1].first_sector = EndOf(ps[p])
      /\ \A p, q \in 1 .. n : p < q => EndOf(ps[p]) <= ps[q].first_sector
      /\ \A p \in 1 .. n : EndOf(ps[p]) <= next
      /\ ps = <<>> => next = 0
      /\ ps # <<>> => next = EndOf(ps[n])
      /\ total > 0 => n <= next
  BY DEF ChainOK
<1>6. part.sector_count > 0 \/ total = 0 BY DEF PartOK
<1>7. ps = <<>> <=> n = 0 OBVIOUS
<1>8. \A p \in 1 .. n + 1 : p \in 1 .. n \/ p = n + 1 BY <1>1
<1> HIDE DEF n, all
<1>9. \A p \in 1 .. n + 1 : PartOK(all[p], img, total) BY <1>2, <1>5, <1>8
<1>10. all[1].first_sector = 0
  <2>1. CASE n = 0 BY <1>2, <1>4, <1>5, <1>7, <2>1
  <2>2. CASE n # 0
    <3>1. 1 \in 1 .. n BY <1>1, <2>2
    <3> QED BY <1>2, <1>5, <1>7, <2>2, <3>1
  <2> QED BY <2>1, <2>2
<1>11. \A p \in 1 .. n : all[p + 1].first_sector = EndOf(all[p])
  <2> SUFFICES ASSUME NEW p \in 1 .. n
      PROVE  all[p + 1].first_sector = EndOf(all[p])
    OBVIOUS
  <2>1. CASE p = n BY <1>1, <1>2, <1>4, <1>5, <1>7, <2>1
  <2>2. CASE p # n
    <3>1. p \in 1 .. n - 1 /\ p + 1 \in 1 .. n BY <1>1, <2>2
    <3> QED BY <1>2, <1>5, <3>1
  <2> QED BY <2>1, <2>2
<1>12. \A p, q \in 1 .. n + 1 : p < q => EndOf(all[p]) <= all[q].first_sector
  <2> SUFFICES ASSUME NEW p \in 1 .. n + 1, NEW q \in 1 .. n + 1, p < q
      PROVE  EndOf(all[p]) <= all[q].first_sector
    OBVIOUS
  <2>1. p \in 1 .. n BY <1>1
  <2>2. CASE q \in 1 .. n BY <1>2, <1>5, <2>1, <2>2
  <2>3. CASE q = n + 1 BY <1>2, <1>4, <1>5, <2>1, <2>3
  <2> QED BY <1>8, <2>2, <2>3
<1>13. \A p \in 1 .. n + 1 : EndOf(all[p]) <= next + part.sector_count
  <2> SUFFICES ASSUME NEW p \in 1 .. n + 1
      PROVE  EndOf(all[p]) <= next + part.sector_count
    OBVIOUS
  <2>1. CASE p \in 1 .. n
    <3>1. EndOf(ps[p]) <= next /\ EndOf(ps[p]) \in Nat BY <1>3, <1>5, <2>1
    <3> QED BY <1>2, <1>4, <2>1, <3>1
  <2>2. CASE p = n + 1 BY <1>2, <1>4, <2>2
  <2> QED BY <1>8, <2>1, <2>2
<1>14. next + part.sector_count = EndOf(all[n + 1]) BY <1>2, <1>4
<1>15. total > 0 => n + 1 <= next + part.sector_count BY <1>1, <1>4, <1>5, <1>6
<1>16. total = 0 => n + 1 <= 1 BY <1>7
<1>17. n + 1 - 1 = n BY <1>1
<1> QED
  <2>1. ChainOK(all, next + part.sector_count, img, total)
    BY <1>1, <1>9, <1>10, <1>11, <1>12, <1>13, <1>14, <1>15, <1>16, <1>17 DEF ChainOK
  <2> QED BY <1>1, <2>1 DEF all

\* Finalizing the open part keeps the parts a chain.
LEMMA FinalizeOK ==
  ASSUME TypeOK, InfosOK, PartsOK,
         sizing_part_index_infos # <<>> \/ (total_data_sectors = 0 /\ parts = <<>>)
  PROVE  /\ Append(parts, FinalizedPart) \in Seq(Part)
         /\ ChainOK(Append(parts, FinalizedPart), NextFirstSector, image, total_data_sectors)
         /\ NextFirstSector \in 0 .. total_data_sectors
<1>1. /\ FinalizedPart \in Part
      /\ FinalizedPart.first_sector = sizing_part_first_sector
      /\ FinalizedPart.sector_count = Len(sizing_part_index_infos)
      /\ PartOK(FinalizedPart, image, total_data_sectors)
  BY FinalizedPartOK
<1>2. /\ parts \in Seq(Part)
      /\ sizing_part_first_sector \in Nat
      /\ total_data_sectors \in Nat
      /\ sizing_part_index_infos \in Seq(SlotInfo)
  BY CciAssumption DEF TypeOK
<1>3. sizing_part_index_infos # <<>> => total_data_sectors > 0 BY <1>2 DEF InfosOK
<1>4. NextFirstSector = sizing_part_first_sector + FinalizedPart.sector_count BY <1>1 DEF NextFirstSector
<1>5. NextFirstSector \in 0 .. total_data_sectors BY <1>2 DEF InfosOK, NextFirstSector
<1> QED BY <1>1, <1>2, <1>3, <1>4, <1>5, AppendChainOK DEF PartsOK

\* A batch ends within the image.
LEMMA BatchEndType ==
  ASSUME TypeOK
  PROVE  BatchEnd \in 0 .. total_data_sectors
<1>1. sizing_next_sector \in Nat /\ total_data_sectors \in Nat BY CciAssumption DEF TypeOK
<1> QED BY <1>1, CciAssumption DEF BatchEnd, Smaller

\* Entering the sizing loop keeps the invariant.
LEMMA HashNextPartIInv ==
  ASSUME IInv, HashNextPart
  PROVE  IInv'
<1> USE DEF IInv, HashNextPart, imageVars, sizingVars, streamVars, driverVars
<1>1. TypeOK' BY DEF TypeOK
<1>2. InfosOK' BY DEF InfosOK
<1>3. PartsOK' BY DEF PartsOK
<1>4. PlanningOK'
  <2>1. sizing_next_sector <= BatchEnd BY CciAssumption DEF TypeOK, BatchEnd, Smaller
  <2> QED BY <2>1 DEF PlanningOK, BatchEnd
<1>5. StreamOK' BY DEF StreamOK
<1> QED BY <1>1, <1>2, <1>3, <1>4, <1>5

\* hash_next_part() returning false keeps the invariant.
LEMMA YieldBatchIInv ==
  ASSUME IInv, YieldBatch
  PROVE  IInv'
<1> USE DEF IInv, YieldBatch, imageVars, sizingVars, streamVars, driverVars
<1>1. TypeOK' BY BatchEndType DEF TypeOK
<1>2. InfosOK' BY DEF InfosOK
<1>3. PartsOK' BY DEF PartsOK
<1>4. PlanningOK' BY DEF PlanningOK
<1>5. StreamOK' BY DEF StreamOK
<1> QED BY <1>1, <1>2, <1>3, <1>4, <1>5

\* A read that fails while streaming changes nothing the invariant is about.
LEMMA StreamingReadFailsIInv ==
  ASSUME IInv, StreamingReadFails
  PROVE  IInv'
<1> USE DEF IInv, StreamingReadFails, imageVars, sizingVars, streamVars, driverVars
<1>0. sizing_done BY DEF PlanningOK
<1>1. TypeOK' BY DEF TypeOK
<1>2. InfosOK' BY <1>0 DEF InfosOK
<1>3. PartsOK' BY DEF PartsOK
<1>4. PlanningOK' BY <1>0 DEF PlanningOK
<1>5. StreamOK' BY DEF StreamOK, CurrentPart, EndSector, NameOf, BytesOf, Emitted
<1> QED BY <1>1, <1>2, <1>3, <1>4, <1>5

ManagedFirst == IF PartIsFull THEN NextFirstSector ELSE sizing_part_first_sector

\* check_and_manage_sizing_write() leaves a part that ends at the sector to
\* come, has room for it, and follows the parts finalized so far.
LEMMA ManagedOK ==
  ASSUME IInv, pc = "sizing", sector < BatchEnd, ManageSizingWrite
  PROVE  /\ ~sizing_done
         /\ total_data_sectors > 0
         /\ sector < total_data_sectors
         /\ ManagedInfos \in Seq(SlotInfo)
         /\ SlotsOK(ManagedInfos, ManagedFirst, image)
         /\ ManagedFirst + Len(ManagedInfos) = sector
         /\ ManagedFirst \in 0 .. total_data_sectors
         /\ sizing_part_first_sector' = ManagedFirst
         /\ DataLen(ManagedInfos) \in Nat
         /\ HeaderSize + DataLen(ManagedInfos) <= SplitPoint
         /\ ManagedPosition = HeaderSize + DataLen(ManagedInfos)
         /\ parts' \in Seq(Part)
         /\ ChainOK(parts', ManagedFirst, image, total_data_sectors)
<1> USE CciAssumption
<1>1. /\ total_data_sectors \in Nat
      /\ sizing_part_index_infos \in Seq(SlotInfo)
      /\ sizing_part_first_sector \in 0 .. total_data_sectors
      /\ sizing_part_position \in Nat
      /\ sector \in Nat
      /\ BatchEnd \in Nat /\ BatchEnd <= total_data_sectors
      /\ parts \in Seq(Part)
  BY BatchEndType DEF IInv, TypeOK
<1>2. ~sizing_done BY DEF IInv, StreamOK
<1>3. /\ sizing_part_first_sector + Len(sizing_part_index_infos) = sector
      /\ total_data_sectors > 0
  BY <1>2 DEF IInv, PlanningOK
<1>4. sizing_part_position =
    IF sizing_part_index_infos = <<>> THEN 0
    ELSE HeaderSize + DataLen(sizing_part_index_infos)
  BY <1>2 DEF IInv, InfosOK
<1>5. PartIsFull => sizing_part_index_infos # <<>> BY <1>1, <1>4 DEF PartIsFull
<1>6. PartIsFull => /\ Append(parts, FinalizedPart) \in Seq(Part)
                    /\ ChainOK(Append(parts, FinalizedPart), NextFirstSector,
                               image, total_data_sectors)
                    /\ NextFirstSector \in 0 .. total_data_sectors
  BY <1>5, FinalizeOK DEF IInv
<1>7. /\ sizing_part_first_sector' = ManagedFirst
      /\ parts' = IF PartIsFull THEN Append(parts, FinalizedPart) ELSE parts
  BY DEF ManageSizingWrite, ManagedFirst
<1>8. /\ parts' \in Seq(Part)
      /\ ChainOK(parts', ManagedFirst, image, total_data_sectors)
      /\ ManagedFirst \in 0 .. total_data_sectors
  BY <1>1, <1>6, <1>7 DEF IInv, PartsOK, ManagedFirst
<1>9. CASE PartIsFull
  <2>1. ManagedInfos = <<>> /\ Len(ManagedInfos) = 0 /\ ManagedFirst = sector
    BY <1>3, <1>9 DEF ManagedInfos, ManagedFirst, NextFirstSector
  <2>2. SlotsOK(<<>>, ManagedFirst, image) BY DEF SlotsOK
  <2>3. ManagedInfos \in Seq(SlotInfo) BY <2>1
  <2>4. DataLen(ManagedInfos) = 0 /\ ManagedPosition = HeaderSize
    BY <1>9, <2>1 DEF DataLen, ManagedPosition
  <2> QED BY <1>1, <1>2, <1>3, <1>7, <1>8, <2>1, <2>2, <2>3, <2>4
<1>10. CASE ~PartIsFull
  <2>1. ManagedInfos = sizing_part_index_infos /\ ManagedFirst = sizing_part_first_sector
    BY <1>10 DEF ManagedInfos, ManagedFirst
  <2>2. SlotsOK(ManagedInfos, ManagedFirst, image) BY <2>1 DEF IInv, InfosOK
  <2>3. CASE sizing_part_index_infos = <<>>
    <3>1. DataLen(ManagedInfos) = 0 /\ ManagedPosition = HeaderSize
      BY <1>4, <1>10, <2>1, <2>3 DEF DataLen, ManagedPosition
    <3> QED BY <1>1, <1>2, <1>3, <1>7, <1>8, <2>1, <2>2, <3>1
  <2>4. CASE sizing_part_index_infos # <<>>
    <3>1. DataLen(ManagedInfos) \in Nat
      <4>1. sizing_part_index_infos[Len(sizing_part_index_infos)] \in SlotInfo BY <1>1, <2>4
      <4> QED BY <2>1, <2>4, <4>1 DEF DataLen, SlotInfo
    <3>2. sizing_part_position = HeaderSize + DataLen(ManagedInfos) BY <1>4, <2>1, <2>4
    <3>3. ManagedPosition = sizing_part_position BY <1>10, <2>1, <2>4 DEF ManagedPosition
    <3>4. sizing_part_position <= SplitPoint BY <1>1, <1>10 DEF PartIsFull
    <3> QED BY <1>1, <1>2, <1>3, <1>7, <1>8, <2>1, <2>2, <3>1, <3>2, <3>3, <3>4
  <2> QED BY <2>3, <2>4
<1> QED BY <1>9, <1>10

\* A read that fails while sizing leaves the part without the sector.
LEMMA SizingReadFailsIInv ==
  ASSUME IInv, SizingReadFails
  PROVE  IInv'
<1> USE CciAssumption
<1>1. /\ pc = "sizing" /\ sector < BatchEnd /\ ManageSizingWrite
      /\ sizing_part_index_infos' = ManagedInfos
      /\ sizing_part_position' = ManagedPosition
      /\ pc' = "failed"
      /\ UNCHANGED <<imageVars, sizing_next_sector, sizing_done, output_manifest,
                     streamVars, sector, max_bytes, out_len, current_entry_name, driverVars>>
  BY DEF SizingReadFails
<1>2. /\ ~sizing_done
      /\ total_data_sectors > 0
      /\ sector < total_data_sectors
      /\ ManagedInfos \in Seq(SlotInfo)
      /\ SlotsOK(ManagedInfos, ManagedFirst, image)
      /\ ManagedFirst + Len(ManagedInfos) = sector
      /\ ManagedFirst \in 0 .. total_data_sectors
      /\ sizing_part_first_sector' = ManagedFirst
      /\ DataLen(ManagedInfos) \in Nat
      /\ HeaderSize + DataLen(ManagedInfos) <= SplitPoint
      /\ ManagedPosition = HeaderSize + DataLen(ManagedInfos)
      /\ parts' \in Seq(Part)
      /\ ChainOK(parts', ManagedFirst, image, total_data_sectors)
  BY <1>1, ManagedOK
<1>3. TypeOK'
  <2>1. ManagedPosition \in Nat BY <1>2
  <2>2. /\ total_data_sectors' \in 0 .. MaxSectors
        /\ image' \in [0 .. total_data_sectors' - 1 -> Lz4Lens]
        /\ sizing_next_sector' \in 0 .. total_data_sectors'
        /\ sizing_part_first_sector' \in 0 .. total_data_sectors'
        /\ stream_sector_cursor' \in 0 .. total_data_sectors'
        /\ sector' \in 0 .. total_data_sectors'
    BY <1>1, <1>2 DEF IInv, TypeOK, imageVars, streamVars
  <2>3. /\ sizing_part_position' \in Nat
        /\ sizing_part_index_infos' \in Seq(SlotInfo)
        /\ parts' \in Seq(Part)
        /\ pc' \in {"idle", "sizing", "emitting", "failed"}
    BY <1>1, <1>2, <2>1
  <2>4. /\ written' \in [Names -> Nat]
        /\ landed' \in [0 .. total_data_sectors' - 1 -> [name : Names, offset : Int]]
    BY <1>1 DEF IInv, TypeOK, imageVars, driverVars
  <2> QED BY <1>1, <2>2, <2>3, <2>4 DEF IInv, TypeOK, streamVars
<1>4. InfosOK'
  <2>1. sector \in Nat /\ total_data_sectors \in Nat BY DEF IInv, TypeOK
  <2>2. sizing_part_first_sector' + Len(sizing_part_index_infos') <= total_data_sectors'
    BY <1>1, <1>2, <2>1 DEF imageVars
  <2>3. HeaderSize + DataLen(ManagedInfos) <= SplitPoint + SectorSize BY <1>2
  <2> QED BY <1>1, <1>2, <2>2, <2>3 DEF InfosOK, imageVars
<1>5. PartsOK' BY <1>1, <1>2 DEF PartsOK, imageVars
<1>6. PlanningOK'
  <2>1. sector' <= BatchEnd'
    <3>1. BatchEnd' = BatchEnd /\ sector' = sector BY <1>1 DEF BatchEnd, imageVars
    <3>2. sector \in Nat /\ BatchEnd \in Nat BY BatchEndType DEF IInv, TypeOK
    <3> QED BY <1>1, <3>1, <3>2
  <2> QED BY <1>1, <1>2, <2>1 DEF IInv, PlanningOK, imageVars, driverVars
<1>7. StreamOK' BY <1>1, <1>2 DEF StreamOK
<1> QED BY <1>3, <1>4, <1>5, <1>6, <1>7 DEF IInv

\* The next sector's slot extends the part being sized.
LEMMA SizeSectorIInv ==
  ASSUME IInv, SizeSector
  PROVE  IInv'
<1> USE CciAssumption
<1> DEFINE base == ManagedInfos
           first == ManagedFirst
           lz4 == image[sector]
           slot == [end |-> DataLen(base) + SlotLen(lz4), compressed |-> IsCompressed(lz4)]
<1>1. /\ total_data_sectors \in Nat
      /\ sector \in Nat
      /\ BatchEnd \in Nat /\ BatchEnd <= total_data_sectors
  BY BatchEndType DEF IInv, TypeOK
<1>2. /\ pc = "sizing" /\ sector < BatchEnd /\ ManageSizingWrite
      /\ sizing_part_index_infos' = Append(base, slot)
      /\ sizing_part_position' = ManagedPosition + SlotLen(lz4)
      /\ sector' = sector + 1
  BY DEF SizeSector
<1>3. UNCHANGED <<imageVars, sizing_next_sector, sizing_done, output_manifest,
    streamVars, pc, max_bytes, out_len, current_entry_name, driverVars>>
  BY DEF SizeSector
<1>4. /\ ~sizing_done
      /\ total_data_sectors > 0
      /\ base \in Seq(SlotInfo)
      /\ SlotsOK(base, first, image)
      /\ first + Len(base) = sector
      /\ first \in 0 .. total_data_sectors
      /\ sizing_part_first_sector' = first
      /\ DataLen(base) \in Nat
      /\ HeaderSize + DataLen(base) <= SplitPoint
      /\ ManagedPosition = HeaderSize + DataLen(base)
      /\ parts' \in Seq(Part)
      /\ ChainOK(parts', first, image, total_data_sectors)
  BY <1>2, ManagedOK
<1>8. /\ base \in Seq(SlotInfo)
      /\ SlotsOK(base, first, image)
      /\ first + Len(base) = sector
      /\ first \in 0 .. total_data_sectors
  BY <1>4
<1>9. lz4 \in Lz4Lens BY <1>1, <1>2 DEF IInv, TypeOK
<1>10. /\ Append(base, slot) \in Seq(SlotInfo)
       /\ Len(Append(base, slot)) = Len(base) + 1
       /\ SlotsOK(Append(base, slot), first, image)
       /\ DataLen(Append(base, slot)) = DataLen(base) + SlotLen(lz4)
  <2>1. /\ image[first + Len(base)] = lz4
        /\ slot = [end |-> DataLen(base) + SlotLen(image[first + Len(base)]),
                   compressed |-> IsCompressed(image[first + Len(base)])]
        /\ first \in Nat
    BY <1>8
  <2> HIDE DEF base, first, lz4, slot
  <2> QED BY <1>8, <1>9, <2>1, AppendSlotOK
<1>20. Append(base, slot) # <<>>
  <2>1. Len(Append(base, slot)) # 0
    <3> HIDE DEF base, slot
    <3> QED BY <1>8, <1>10
  <2> HIDE DEF base, slot
  <2> QED BY <2>1
<1>11. SlotLen(lz4) \in Nat /\ SlotLen(lz4) <= SectorSize BY <1>9, SlotLenFacts
<1>12. DataLen(base) \in Nat BY <1>4
<1>13. HeaderSize + DataLen(base) <= SplitPoint BY <1>4
<1>14. sizing_part_position' = HeaderSize + DataLen(base) + SlotLen(lz4) BY <1>2, <1>4
<1>15. TypeOK'
  <2>1. parts' \in Seq(Part) BY <1>4
  <2>2. sizing_part_position' \in Nat
    <3> HIDE DEF base, lz4
    <3> QED BY <1>11, <1>12, <1>14
  <2>3. sizing_part_index_infos' \in Seq(SlotInfo) BY <1>2, <1>10
  <2>4. sizing_part_first_sector' \in 0 .. total_data_sectors BY <1>4
  <2>5. sector' \in 0 .. total_data_sectors BY <1>1, <1>2
  <2> QED BY <1>3, <2>1, <2>2, <2>3, <2>4, <2>5 DEF IInv, TypeOK, imageVars, streamVars, driverVars
<1>16. InfosOK'
  <2>1. Append(base, slot) # <<>> BY <1>20
  <2>2. first + Len(Append(base, slot)) <= total_data_sectors
    <3> HIDE DEF base, first, slot
    <3> QED BY <1>1, <1>2, <1>8, <1>10
  <2>3. HeaderSize + DataLen(base) + SlotLen(lz4) <= SplitPoint + SectorSize
    <3> HIDE DEF base, lz4
    <3> QED BY <1>11, <1>12, <1>13
  <2>4. image' = image /\ total_data_sectors' = total_data_sectors BY <1>3 DEF imageVars
  <2>5. HeaderSize + (DataLen(base) + SlotLen(lz4)) = HeaderSize + DataLen(base) + SlotLen(lz4)
    <3> HIDE DEF base, lz4
    <3> QED BY <1>11, <1>12
  <2> HIDE DEF base, first, lz4, slot
  <2> QED BY <1>2, <1>4, <1>10, <1>14, <2>1, <2>2, <2>3, <2>4, <2>5 DEF InfosOK
<1>17. PartsOK' BY <1>3, <1>4 DEF PartsOK, imageVars
<1>18. PlanningOK'
  <2>1. sizing_part_first_sector' + Len(sizing_part_index_infos') = sector'
    <3> HIDE DEF base, first, slot
    <3> QED BY <1>1, <1>2, <1>4, <1>10
  <2>2. sizing_part_index_infos' # <<>> BY <1>2, <1>20
  <2>3. sector' <= BatchEnd' BY <1>1, <1>2, <1>3 DEF BatchEnd, imageVars
  <2>4. total_data_sectors' > 0 /\ pc' = "sizing" BY <1>2, <1>3, <1>4 DEF imageVars
  <2> QED BY <1>3, <1>4, <2>1, <2>2, <2>3, <2>4 DEF IInv, PlanningOK, imageVars, driverVars
<1>19. StreamOK' BY <1>3, <1>4 DEF StreamOK
<1> QED BY <1>15, <1>16, <1>17, <1>18, <1>19 DEF IInv

\* Output names are in Names and tell the parts of a chain apart.
LEMMA NamesDiffer ==
  ASSUME NEW ps \in Seq(Part), NEW next \in Nat, NEW img, NEW total \in 0 .. MaxSectors,
         next <= total, ChainOK(ps, next, img, total)
  PROVE  /\ OutputNameFor(0, Len(ps)) \in Names
         /\ \A p \in 1 .. Len(ps) : OutputNameFor(p - 1, Len(ps)) \in Names
         /\ \A p, q \in 1 .. Len(ps) :
              OutputNameFor(p - 1, Len(ps)) = OutputNameFor(q - 1, Len(ps)) => p = q
<1> DEFINE n == Len(ps)
<1>1. /\ n \in Nat /\ MaxSectors \in Nat /\ total \in Nat /\ total <= MaxSectors
      /\ total > 0 => n <= total
      /\ total = 0 => n <= 1
  BY CciAssumption DEF ChainOK
<1> HIDE DEF n
<1>2. /\ OutputNameFor(0, n) \in Names
      /\ \A p \in 1 .. n : OutputNameFor(p - 1, n) \in Names
      /\ \A p, q \in 1 .. n : OutputNameFor(p - 1, n) = OutputNameFor(q - 1, n) => p = q
  BY <1>1 DEF OutputNameFor, Names
<1> QED BY <1>2 DEF n

\* Publishing the manifest once the whole image is cut.
LEMMA FinishIInv ==
  ASSUME IInv, ~sizing_done,
         sizing_part_index_infos # <<>> \/ (total_data_sectors = 0 /\ parts = <<>>),
         NextFirstSector = total_data_sectors, FinishSizing(Append(parts, FinalizedPart)),
         sizing_part_index_infos' = <<>>, sizing_part_position' = 0,
         sizing_part_first_sector' = total_data_sectors,
         sizing_next_sector' \in 0 .. total_data_sectors, pc' = "idle",
         UNCHANGED <<imageVars, stream_sector_cursor, sector, max_bytes, out_len, driverVars>>
  PROVE  IInv'
<1> USE CciAssumption
<1> DEFINE all == Append(parts, FinalizedPart)
           n == Len(all)
<1>1. /\ total_data_sectors \in Nat
      /\ total_data_sectors \in 0 .. MaxSectors
      /\ parts \in Seq(Part)
  BY DEF IInv, TypeOK
<1>2. /\ all \in Seq(Part)
      /\ ChainOK(all, total_data_sectors, image, total_data_sectors)
  BY FinalizeOK DEF IInv
<1>3. n \in Nat /\ n > 0 /\ all # <<>> BY <1>1
<1>4. /\ parts' = all
      /\ output_manifest' = [i \in 1 .. n |->
           [name |-> OutputNameFor(i - 1, n), size |-> all[i].total_size]]
      /\ current_entry_name' = OutputNameFor(0, n)
      /\ stream_part' = 0
      /\ stream_stage' = "header"
      /\ stream_blob_pos' = 0
      /\ sizing_done' = TRUE
  BY DEF FinishSizing
<1>5. image' = image /\ total_data_sectors' = total_data_sectors BY DEF imageVars
<1> HIDE DEF all
<1>6. /\ OutputNameFor(0, n) \in Names
      /\ \A p \in 1 .. n : OutputNameFor(p - 1, n) \in Names
  BY <1>1, <1>2, NamesDiffer
<1>7. output_manifest' \in Seq([name : Nat, size : Nat])
  <2>1. \A i \in 1 .. n : all[i].total_size \in Nat
    <3> SUFFICES ASSUME NEW i \in 1 .. n PROVE all[i].total_size \in Nat OBVIOUS
    <3>1. all[i] \in Part BY <1>2
    <3> QED BY <3>1 DEF Part
  <2>2. \A i \in 1 .. n : OutputNameFor(i - 1, n) \in Nat BY <1>6 DEF Names
  <2> HIDE DEF n
  <2> QED BY <1>3, <1>4, <2>1, <2>2
<1>8. TypeOK'
  <2>1. parts' \in Seq(Part) /\ current_entry_name' \in Names BY <1>2, <1>4, <1>6
  <2>2. sizing_part_index_infos' \in Seq(SlotInfo) OBVIOUS
  <2>3. sizing_part_first_sector' \in 0 .. total_data_sectors BY <1>1
  <2> HIDE DEF n
  <2> QED BY <1>4, <1>7, <2>1, <2>2, <2>3 DEF IInv, TypeOK, imageVars, driverVars
<1>9. InfosOK' BY <1>1, <1>5 DEF InfosOK, SlotsOK, DataLen
<1>10. PartsOK' BY <1>2, <1>4, <1>5 DEF PartsOK
<1>11. PlanningOK' BY <1>4 DEF PlanningOK
<1>12. /\ written = [name \in Names |-> 0]
       /\ landed = [s \in 0 .. total_data_sectors - 1 |-> Nowhere]
       /\ out_len = 0
  BY DEF IInv, PlanningOK
<1>13. StreamOK'
  <2>1. output_manifest' = [p \in 1 .. Len(parts') |->
      [name |-> NameOf(p)', size |-> parts'[p].total_size]]
    BY <1>4 DEF NameOf
  <2>2. \A p \in 1 .. n : NameOf(p)' = OutputNameFor(p - 1, n) BY <1>4 DEF NameOf
  <2>3. \A p \in 1 .. n : written'[NameOf(p)'] = BytesOf(p)'
    <3> SUFFICES ASSUME NEW p \in 1 .. n PROVE written'[NameOf(p)'] = BytesOf(p)' OBVIOUS
    <3>1. written'[NameOf(p)'] = 0 BY <1>6, <1>12, <2>2 DEF driverVars
    <3>2. BytesOf(p)' = 0
      <4> HIDE DEF n
      <4> QED BY <1>3, <1>4 DEF BytesOf
    <3> QED BY <3>1, <3>2
  <2>4. \A name \in Names : ~(written'[name] > 0) BY <1>12 DEF driverVars
  <2>5. \A p \in 1 .. n : \A i \in 1 .. all[p].sector_count :
      landed'[all[p].first_sector + i - 1] = Nowhere /\ ~Emitted(p, i)'
    <3> SUFFICES ASSUME NEW p \in 1 .. n, NEW i \in 1 .. all[p].sector_count
        PROVE  landed'[all[p].first_sector + i - 1] = Nowhere /\ ~Emitted(p, i)'
      OBVIOUS
    <3>1. /\ all[p] \in Part
          /\ PartOK(all[p], image, total_data_sectors)
      BY <1>2 DEF ChainOK
    <3>2. all[p].first_sector + i - 1 \in 0 .. total_data_sectors - 1
      <4>1. all[p].first_sector \in Nat /\ all[p].sector_count \in Nat BY <3>1 DEF Part
      <4>2. all[p].first_sector + all[p].sector_count <= total_data_sectors BY <3>1 DEF PartOK
      <4>3. total_data_sectors \in Nat BY <1>1
      <4> QED BY <4>1, <4>2, <4>3
    <3>3. ~Emitted(p, i)'
      <4> HIDE DEF n
      <4> QED BY <1>3, <1>4 DEF Emitted
    <3> QED BY <1>12, <3>2, <3>3 DEF driverVars
  <2>6. n = Len(parts') BY <1>4
  <2>7. 0 < HeaderSize OBVIOUS
  <2> HIDE DEF n
  <2> QED BY <1>3, <1>4, <1>5, <1>12, <2>1, <2>3, <2>4, <2>5, <2>6, <2>7 DEF StreamOK
<1> QED BY <1>8, <1>9, <1>10, <1>11, <1>13 DEF IInv

\* Sizing an image without sectors keeps the invariant.
LEMMA HashEmptyImageIInv ==
  ASSUME IInv, HashEmptyImage
  PROVE  IInv'
<1>1. ~sizing_done /\ total_data_sectors = 0 BY DEF HashEmptyImage
<1>2. parts = <<>> /\ sizing_part_first_sector = 0 BY <1>1, CciAssumption DEF IInv, PlanningOK, TypeOK
<1>3. Len(sizing_part_index_infos) = 0
  <2>1. sizing_part_index_infos \in Seq(SlotInfo) BY DEF IInv, TypeOK
  <2>2. Len(sizing_part_index_infos) \in Nat BY <2>1
  <2>3. sizing_part_first_sector + Len(sizing_part_index_infos) <= 0 BY <1>1 DEF IInv, InfosOK
  <2> QED BY <1>2, <2>2, <2>3
<1>4. NextFirstSector = 0 BY <1>2, <1>3 DEF NextFirstSector
<1> QED BY <1>1, <1>2, <1>4, FinishIInv DEF HashEmptyImage, callVars, IInv, TypeOK

\* Publishing the manifest after the last batch keeps the invariant.
LEMMA FinishLastBatchIInv ==
  ASSUME IInv, FinishLastBatch
  PROVE  IInv'
<1>1. /\ pc = "sizing"
      /\ sector = total_data_sectors
      /\ sizing_next_sector' = BatchEnd
      /\ sizing_part_first_sector' = NextFirstSector
  BY DEF FinishLastBatch
<1>2. ~sizing_done BY <1>1 DEF IInv, StreamOK
<1>3. NextFirstSector = total_data_sectors BY <1>1, <1>2 DEF IInv, PlanningOK, NextFirstSector
<1>4. sizing_part_index_infos # <<>>
  <2> SUFFICES ASSUME sizing_part_index_infos = <<>> PROVE FALSE OBVIOUS
  <2>1. sizing_part_first_sector = 0 /\ total_data_sectors > 0 BY <1>1, <1>2 DEF IInv, PlanningOK
  <2>2. Len(sizing_part_index_infos) = 0 OBVIOUS
  <2>3. NextFirstSector = 0 BY <2>1, <2>2 DEF NextFirstSector
  <2> QED BY <1>3, <2>1, <2>3
<1>5. BatchEnd \in 0 .. total_data_sectors BY BatchEndType DEF IInv
<1> QED BY <1>1, <1>2, <1>3, <1>4, <1>5, FinishIInv DEF FinishLastBatch

-----------------------------------------------------------------------------
(* The streaming pass                                                        *)

\* What is known while some part is being streamed.
LEMMA CurrentFacts ==
  ASSUME IInv, sizing_done, stream_part < Len(parts)
  PROVE  /\ stream_part \in Nat /\ stream_part + 1 \in 1 .. Len(parts)
         /\ CurrentPart = parts[stream_part + 1]
         /\ CurrentPart \in Part
         /\ PartOK(CurrentPart, image, total_data_sectors)
         /\ EndSector \in 0 .. total_data_sectors
         /\ CurrentName = NameOf(stream_part + 1)
         /\ \A p \in 1 .. Len(parts) : NameOf(p) \in Names
         /\ \A p, q \in 1 .. Len(parts) : NameOf(p) = NameOf(q) => p = q
<1>1. /\ stream_part \in Nat
      /\ parts \in Seq(Part)
      /\ total_data_sectors \in 0 .. MaxSectors
      /\ total_data_sectors \in Nat
      /\ sizing_part_first_sector \in Nat
      /\ sizing_part_first_sector <= total_data_sectors
  BY CciAssumption DEF IInv, TypeOK
<1>2. stream_part + 1 \in 1 .. Len(parts) BY <1>1
<1>3. CurrentPart = parts[stream_part + 1] /\ CurrentPart \in Part BY <1>1, <1>2 DEF CurrentPart
<1>4. ChainOK(parts, sizing_part_first_sector, image, total_data_sectors) BY DEF IInv, PartsOK
<1>5. PartOK(CurrentPart, image, total_data_sectors) BY <1>2, <1>3, <1>4 DEF ChainOK
<1>6. EndSector \in 0 .. total_data_sectors
  <2>1. CurrentPart.first_sector \in Nat /\ CurrentPart.sector_count \in Nat BY <1>3 DEF Part
  <2>2. CurrentPart.first_sector + CurrentPart.sector_count <= total_data_sectors BY <1>5 DEF PartOK
  <2> QED BY <1>1, <2>1, <2>2 DEF EndSector
<1>7. CurrentName = NameOf(stream_part + 1)
  <2>1. stream_part + 1 - 1 = stream_part BY <1>1
  <2> QED BY <1>1, <2>1 DEF CurrentName, NameOf, OutputNameFor
<1>8. /\ \A p \in 1 .. Len(parts) : NameOf(p) \in Names
      /\ \A p, q \in 1 .. Len(parts) : NameOf(p) = NameOf(q) => p = q
  BY <1>1, <1>4, NamesDiffer DEF NameOf
<1> QED BY <1>1, <1>2, <1>3, <1>5, <1>6, <1>7, <1>8

\* What is known of a part's index.
LEMMA PosFacts ==
  ASSUME NEW part \in Part, NEW img, NEW total \in Nat, PartOK(part, img, total)
  PROVE  /\ part.first_sector \in Nat
         /\ part.sector_count \in Nat
         /\ part.index_offset \in Nat
         /\ part.total_size \in Nat
         /\ Len(part.index) = part.sector_count + 1
         /\ \A i \in 1 .. part.sector_count + 1 : Pos(part, i) \in Nat
         /\ Pos(part, 1) = HeaderSize
         /\ \A i \in 1 .. part.sector_count :
              Pos(part, i + 1) = Pos(part, i) + SlotLen(img[part.first_sector + i - 1])
         /\ part.index_offset = Pos(part, part.sector_count + 1)
         /\ part.total_size = part.index_offset + EntrySize * Len(part.index)
<1>1. /\ part.first_sector \in Nat /\ part.sector_count \in Nat
      /\ part.index_offset \in Nat /\ part.total_size \in Nat
      /\ part.index \in Seq(IndexEntry)
  BY DEF Part
<1>2. Len(part.index) = part.sector_count + 1 BY DEF PartOK
<1>3. \A i \in 1 .. part.sector_count + 1 : Pos(part, i) \in Nat
  <2> SUFFICES ASSUME NEW i \in 1 .. part.sector_count + 1
      PROVE  Pos(part, i) \in Nat
    OBVIOUS
  <2>1. part.index[i] \in IndexEntry BY <1>1, <1>2
  <2>2. part.index[i].position \in Nat BY <2>1 DEF IndexEntry
  <2> QED BY <2>2, CciAssumption DEF Pos
<1> QED BY <1>1, <1>2, <1>3 DEF PartOK

\* A chunk goes to the current part's file and to no other.
LEMMA AppendFacts ==
  ASSUME IInv, sizing_done, stream_part < Len(parts), NEW k \in Nat,
         AppendToFile(NameOf(stream_part + 1), k)
  PROVE  /\ written' \in [Names -> Nat]
         /\ written'[NameOf(stream_part + 1)] = BytesOf(stream_part + 1) + k
         /\ \A p \in 1 .. Len(parts) : p # stream_part + 1 => written'[NameOf(p)] = BytesOf(p)
         /\ \A name \in Names :
              written'[name] > 0 => \E p \in 1 .. Len(parts) : NameOf(p) = name
<1> DEFINE cur == stream_part + 1
<1>1. /\ cur \in 1 .. Len(parts)
      /\ \A p \in 1 .. Len(parts) : NameOf(p) \in Names
      /\ \A p, q \in 1 .. Len(parts) : NameOf(p) = NameOf(q) => p = q
  BY CurrentFacts
<1>2. written \in [Names -> Nat] BY DEF IInv, TypeOK
<1>3. written' = [written EXCEPT ![NameOf(cur)] = @ + k] BY DEF AppendToFile
<1>4. /\ \A p \in 1 .. Len(parts) : written[NameOf(p)] = BytesOf(p)
      /\ \A name \in Names : written[name] > 0 => \E p \in 1 .. Len(parts) : NameOf(p) = name
  BY DEF IInv, StreamOK
<1> HIDE DEF cur
<1>5. written' \in [Names -> Nat] BY <1>1, <1>2, <1>3
<1>6. written'[NameOf(cur)] = BytesOf(cur) + k BY <1>1, <1>2, <1>3, <1>4
<1>7. \A p \in 1 .. Len(parts) : p # cur => written'[NameOf(p)] = BytesOf(p) BY <1>1, <1>2, <1>3, <1>4
<1>8. \A name \in Names :
    written'[name] > 0 => \E p \in 1 .. Len(parts) : NameOf(p) = name
  <2> SUFFICES ASSUME NEW name \in Names, written'[name] > 0
      PROVE  \E p \in 1 .. Len(parts) : NameOf(p) = name
    OBVIOUS
  <2>1. CASE name = NameOf(cur) BY <1>1, <2>1
  <2>2. CASE name # NameOf(cur) BY <1>2, <1>3, <1>4, <2>2
  <2> QED BY <2>1, <2>2
<1> QED BY <1>5, <1>6, <1>7, <1>8 DEF cur

\* Streaming leaves the cut of the image alone.
LEMMA CutUnchanged ==
  ASSUME IInv, sizing_done, UNCHANGED <<imageVars, sizingVars>>
  PROVE  InfosOK' /\ PartsOK' /\ PlanningOK'
<1> USE DEF IInv, imageVars, sizingVars
<1>1. InfosOK' BY DEF InfosOK
<1>2. PartsOK' BY DEF PartsOK
<1>3. PlanningOK' BY DEF PlanningOK
<1> QED BY <1>1, <1>2, <1>3

\* Handing over header bytes keeps the invariant.
LEMMA StreamHeaderIInv ==
  ASSUME IInv, NEW max \in ChunkLimits, StreamHeader(max)
  PROVE  IInv'
<1> USE CciAssumption
<1> DEFINE cur == stream_part + 1
           end == Smaller(stream_blob_pos + max, HeaderSize)
           k == end - stream_blob_pos
<1>1. /\ pc = "idle" /\ sizing_done /\ stream_part < Len(parts)
      /\ stream_stage = "header"
      /\ current_entry_name' = CurrentName
      /\ AppendToFile(CurrentName, k)
      /\ UNCHANGED <<imageVars, sizingVars, stream_part, callVars, landed>>
  BY DEF StreamHeader, NextChunkCalled
<1>2. /\ stream_part \in Nat /\ cur \in 1 .. Len(parts)
      /\ CurrentPart = parts[cur]
      /\ CurrentPart \in Part
      /\ PartOK(CurrentPart, image, total_data_sectors)
      /\ EndSector \in 0 .. total_data_sectors
      /\ CurrentName = NameOf(cur)
      /\ CurrentName \in Names
  BY <1>1, CurrentFacts
<1>3. /\ total_data_sectors \in Nat
      /\ stream_blob_pos \in Nat /\ max \in Nat \ {0}
      /\ stream_blob_pos < HeaderSize
  BY <1>1 DEF IInv, TypeOK, StreamOK
<1>4. end \in Nat /\ k \in Nat /\ end <= HeaderSize /\ stream_blob_pos + k = end BY <1>3 DEF Smaller
<1>5. /\ CurrentPart.first_sector \in Nat /\ CurrentPart.sector_count \in Nat
      /\ EndSector = CurrentPart.first_sector + CurrentPart.sector_count
      /\ Pos(CurrentPart, 1) = HeaderSize
  BY <1>2, <1>3, PosFacts DEF EndSector
<1> HIDE DEF k, cur
<1>6. \/ /\ end = HeaderSize
         /\ stream_stage' = "sectors"
         /\ stream_sector_cursor' = CurrentPart.first_sector
         /\ stream_blob_pos' = 0
      \/ /\ end < HeaderSize
         /\ stream_stage' = stream_stage
         /\ stream_sector_cursor' = stream_sector_cursor
         /\ stream_blob_pos' = end
  <2>1. IF end >= HeaderSize
        THEN /\ stream_stage' = "sectors"
             /\ stream_sector_cursor' = CurrentPart.first_sector
             /\ stream_blob_pos' = 0
        ELSE /\ stream_blob_pos' = end
             /\ UNCHANGED <<stream_stage, stream_sector_cursor>>
    BY DEF StreamHeader
  <2> HIDE DEF end
  <2> QED BY <1>4, <2>1
<1> HIDE DEF end
<1>7. /\ parts' = parts /\ sizing_done' = sizing_done
      /\ stream_part' = stream_part /\ pc' = pc /\ out_len' = out_len
      /\ out_len = 0
      /\ image' = image /\ total_data_sectors' = total_data_sectors
  BY <1>1 DEF sizingVars, callVars, imageVars, IInv, StreamOK
<1>8. /\ written' \in [Names -> Nat]
      /\ written'[NameOf(cur)] = BytesOf(cur) + k
      /\ \A p \in 1 .. Len(parts) : p # cur => written'[NameOf(p)] = BytesOf(p)
      /\ \A name \in Names : written'[name] > 0 => \E p \in 1 .. Len(parts) : NameOf(p) = name
  BY <1>1, <1>2, <1>4, AppendFacts DEF cur
<1>9. TypeOK'
  <2>1. stream_sector_cursor' \in 0 .. total_data_sectors
    <3>1. stream_sector_cursor \in 0 .. total_data_sectors BY DEF IInv, TypeOK
    <3>2. CurrentPart.first_sector \in 0 .. total_data_sectors
      <4>1. /\ EndSector \in 0 .. total_data_sectors
            /\ EndSector = CurrentPart.first_sector + CurrentPart.sector_count
            /\ CurrentPart.first_sector \in Nat /\ CurrentPart.sector_count \in Nat
        BY <1>2, <1>5
      <4> QED BY <1>3, <4>1
    <3> QED BY <1>6, <3>1, <3>2
  <2>2. stream_blob_pos' \in Nat BY <1>4, <1>6
  <2>3. stream_stage' \in {"header", "sectors", "index"} BY <1>1, <1>6
  <2> QED BY <1>1, <1>2, <1>8, <2>1, <2>2, <2>3 DEF IInv, TypeOK, imageVars, sizingVars, callVars
<1>10. StreamOK'
  <2>1. \A p \in 1 .. Len(parts) : NameOf(p)' = NameOf(p) BY <1>7 DEF NameOf
  <2>2. \A p \in 1 .. Len(parts) : written'[NameOf(p)] = BytesOf(p)'
    <3> SUFFICES ASSUME NEW p \in 1 .. Len(parts)
        PROVE  written'[NameOf(p)] = BytesOf(p)'
      OBVIOUS
    <3>1. CASE p = cur
      <4>1. BytesOf(cur) = stream_blob_pos BY <1>1, <1>2 DEF BytesOf, cur
      <4>2. BytesOf(p)' = end
        <5>1. CASE end = HeaderSize
          <6>1. CurrentPart.first_sector - CurrentPart.first_sector + 1 = 1 BY <1>5
          <6> QED BY <1>1, <1>2, <1>4, <1>5, <1>6, <1>7, <3>1, <5>1, <6>1 DEF BytesOf, cur
        <5>2. CASE end # HeaderSize BY <1>1, <1>2, <1>4, <1>6, <1>7, <3>1, <5>2 DEF BytesOf, cur
        <5> QED BY <5>1, <5>2
      <4> QED BY <1>4, <1>8, <3>1, <4>1, <4>2
    <3>2. CASE p # cur
      <4>1. BytesOf(p)' = BytesOf(p) BY <1>2, <1>7, <3>2 DEF BytesOf, cur
      <4> QED BY <1>8, <3>2, <4>1
    <3> QED BY <3>1, <3>2
  <2>3. \A p \in 1 .. Len(parts) : \A i \in 1 .. parts[p].sector_count :
      Emitted(p, i)' = Emitted(p, i)
    <3> SUFFICES ASSUME NEW p \in 1 .. Len(parts), NEW i \in 1 .. parts[p].sector_count
        PROVE  Emitted(p, i)' <=> Emitted(p, i)
      BY DEF Emitted
    <3>1. ~(CurrentPart.first_sector + i - 1 < CurrentPart.first_sector) BY <1>5
    <3> QED BY <1>1, <1>2, <1>6, <1>7, <3>1 DEF Emitted, cur
  <2>4. CurrentPart' = CurrentPart /\ EndSector' = EndSector BY <1>7 DEF CurrentPart, EndSector
  <2>5. stream_stage' = "header" => stream_blob_pos' < HeaderSize BY <1>6
  <2>6. stream_stage' = "sectors" =>
      /\ CurrentPart.first_sector <= stream_sector_cursor'
      /\ stream_sector_cursor' <= EndSector
    BY <1>1, <1>5, <1>6
  <2>7. /\ parts' # <<>>
        /\ sizing_part_first_sector' = total_data_sectors'
        /\ pc' = "idle" /\ out_len' = 0
        /\ output_manifest' = [p \in 1 .. Len(parts') |->
             [name |-> NameOf(p)', size |-> parts'[p].total_size]]
    BY <1>1, <1>7, <2>1 DEF IInv, StreamOK, sizingVars
  <2>8. \A p \in 1 .. Len(parts') : written'[NameOf(p)'] = BytesOf(p)' BY <1>7, <2>1, <2>2
  <2>9. \A name \in Names :
      written'[name] > 0 => \E p \in 1 .. Len(parts') : NameOf(p)' = name
    BY <1>7, <1>8, <2>1
  <2>10. \A p \in 1 .. Len(parts') : \A i \in 1 .. parts'[p].sector_count :
      landed'[parts'[p].first_sector + i - 1] = IF Emitted(p, i)'
        THEN [name |-> NameOf(p)', offset |-> Pos(parts'[p], i)] ELSE Nowhere
    BY <1>1, <1>7, <2>1, <2>3 DEF IInv, StreamOK
  <2>11. /\ stream_part' < Len(parts')
         /\ stream_stage' # "index"
         /\ stream_part' <= Len(parts')
    BY <1>1, <1>2, <1>6, <1>7
  <2>12. pc' # "sizing" /\ pc' # "emitting" BY <2>7
  <2>13. stream_stage' = "sectors" =>
      /\ CurrentPart'.first_sector <= stream_sector_cursor'
      /\ stream_sector_cursor' <= EndSector'
    BY <2>4, <2>6
  <2>14. stream_part' # Len(parts')
    <3>1. stream_part \in Nat BY <1>2
    <3>2. Len(parts) \in Nat
      <4>1. parts \in Seq(Part) BY DEF IInv, TypeOK
      <4> QED BY <4>1
    <3> QED BY <1>1, <1>7, <3>1, <3>2
  <2> QED BY <2>5, <2>7, <2>8, <2>9, <2>10, <2>11, <2>12, <2>13, <2>14 DEF StreamOK
<1> QED BY <1>1, <1>9, <1>10, CutUnchanged DEF IInv

\* Entering the emitting loop keeps the invariant.
LEMMA StreamSectorsIInv ==
  ASSUME IInv, NEW max \in ChunkLimits, StreamSectors(max)
  PROVE  IInv'
<1>1. /\ pc = "idle" /\ sizing_done /\ stream_part < Len(parts)
      /\ stream_stage = "sectors"
      /\ current_entry_name' = CurrentName
      /\ pc' = "emitting" /\ max_bytes' = max /\ out_len' = 0
      /\ UNCHANGED <<imageVars, sizingVars, streamVars, sector, driverVars>>
  BY DEF StreamSectors, NextChunkCalled
<1>2. CurrentName \in Names BY <1>1, CurrentFacts
<1>3. TypeOK' BY <1>1, <1>2, CciAssumption DEF IInv, TypeOK, imageVars, sizingVars, streamVars, driverVars
<1>4. out_len = 0 BY <1>1 DEF IInv, StreamOK
<1>5. StreamOK'
  BY <1>1, <1>4 DEF IInv, StreamOK, NameOf, BytesOf, Emitted, CurrentPart, EndSector, CurrentName,
     sizingVars, streamVars, driverVars, imageVars
<1> QED BY <1>1, <1>3, <1>5, CutUnchanged DEF IInv

\* Handing over a chunk of slots keeps the invariant.
LEMMA ReturnSectorsIInv ==
  ASSUME IInv, ReturnSectors
  PROVE  IInv'
<1> DEFINE cur == stream_part + 1
<1>1. /\ pc = "emitting"
      /\ AppendToFile(current_entry_name, out_len)
      /\ pc' = "idle" /\ max_bytes' = 0 /\ out_len' = 0
      /\ UNCHANGED <<imageVars, sizingVars, streamVars, sector, current_entry_name, landed>>
  BY DEF ReturnSectors
<1>2. sizing_done BY <1>1 DEF IInv, PlanningOK
<1>3. /\ stream_part < Len(parts) /\ stream_stage = "sectors"
      /\ current_entry_name = CurrentName
      /\ CurrentPart.first_sector <= stream_sector_cursor
      /\ stream_sector_cursor <= EndSector
  BY <1>1, <1>2 DEF IInv, StreamOK
<1>4. /\ stream_part \in Nat /\ cur \in 1 .. Len(parts)
      /\ CurrentPart = parts[cur]
      /\ CurrentPart \in Part
      /\ PartOK(CurrentPart, image, total_data_sectors)
      /\ CurrentName = NameOf(cur)
  BY <1>2, <1>3, CurrentFacts
<1>5. out_len \in Nat /\ stream_sector_cursor \in Nat /\ total_data_sectors \in Nat
  BY CciAssumption DEF IInv, TypeOK
<1> HIDE DEF cur
<1>6. /\ written' \in [Names -> Nat]
      /\ written'[NameOf(cur)] = BytesOf(cur) + out_len
      /\ \A p \in 1 .. Len(parts) : p # cur => written'[NameOf(p)] = BytesOf(p)
      /\ \A name \in Names : written'[name] > 0 => \E p \in 1 .. Len(parts) : NameOf(p) = name
  BY <1>1, <1>2, <1>3, <1>4, <1>5, AppendFacts DEF cur
<1>7. TypeOK' BY <1>1, <1>6 DEF IInv, TypeOK, imageVars, sizingVars, streamVars
<1>8. /\ parts' = parts /\ sizing_done' = sizing_done /\ stream_part' = stream_part
      /\ stream_stage' = stream_stage /\ stream_sector_cursor' = stream_sector_cursor
      /\ stream_blob_pos' = stream_blob_pos
  BY <1>1 DEF sizingVars, streamVars
<1>9. StreamOK'
  <2>1. \A p \in 1 .. Len(parts) : NameOf(p)' = NameOf(p) BY <1>8 DEF NameOf
  <2>2. \A p \in 1 .. Len(parts) : written'[NameOf(p)] = BytesOf(p)'
    <3> SUFFICES ASSUME NEW p \in 1 .. Len(parts)
        PROVE  written'[NameOf(p)] = BytesOf(p)'
      OBVIOUS
    <3>1. CASE p = cur
      <4> DEFINE at == Pos(CurrentPart, stream_sector_cursor - CurrentPart.first_sector + 1)
      <4>1. at \in Nat
        <5>1. /\ CurrentPart.first_sector \in Nat /\ CurrentPart.sector_count \in Nat
              /\ \A i \in 1 .. CurrentPart.sector_count + 1 : Pos(CurrentPart, i) \in Nat
          BY <1>4, <1>5, PosFacts
        <5>2. stream_sector_cursor - CurrentPart.first_sector + 1
            \in 1 .. CurrentPart.sector_count + 1
          BY <1>3, <1>5, <5>1 DEF EndSector
        <5> QED BY <5>1, <5>2
      <4>2. BytesOf(cur) = at - out_len BY <1>3, <1>4 DEF BytesOf, cur
      <4>3. BytesOf(p)' = at - 0 BY <1>1, <1>3, <1>4, <1>8, <3>1 DEF BytesOf, cur
      <4> HIDE DEF at
      <4> QED BY <1>5, <1>6, <3>1, <4>1, <4>2, <4>3
    <3>2. CASE p # cur
      <4>1. BytesOf(p)' = BytesOf(p) BY <1>4, <1>8, <3>2 DEF BytesOf, cur
      <4> QED BY <1>6, <3>2, <4>1
    <3> QED BY <3>1, <3>2
  <2>3. \A p \in 1 .. Len(parts) : \A i \in 1 .. parts[p].sector_count :
      Emitted(p, i)' = Emitted(p, i)
    BY <1>8 DEF Emitted
  <2>4. CurrentPart' = CurrentPart /\ EndSector' = EndSector BY <1>8 DEF CurrentPart, EndSector
  <2> QED BY <1>1, <1>3, <1>6, <1>8, <2>1, <2>2, <2>3, <2>4 DEF IInv, StreamOK, sizingVars, imageVars
<1> QED BY <1>1, <1>2, <1>7, <1>9, CutUnchanged DEF IInv

\* A sector's slot lands where its index entry says.
LEMMA EmitSectorIInv ==
  ASSUME IInv, EmitSector
  PROVE  IInv'
<1> DEFINE cur == stream_part + 1
           c == stream_sector_cursor
           part == CurrentPart
           i0 == c - part.first_sector + 1
           len == SlotLen(image[c])
<1>1. /\ pc = "emitting" /\ LoopContinues
      /\ landed' = [landed EXCEPT ![c] = [name |-> current_entry_name,
                       offset |-> written[current_entry_name] + out_len]]
      /\ out_len' = out_len + EmittedLen(image[c])
      /\ stream_sector_cursor' = c + 1
      /\ UNCHANGED <<imageVars, sizingVars, stream_part, stream_stage,
                     stream_blob_pos, pc, sector, max_bytes, current_entry_name, written>>
  BY DEF EmitSector
<1>2. sizing_done BY <1>1 DEF IInv, PlanningOK
<1>3. /\ stream_part < Len(parts) /\ stream_stage = "sectors"
      /\ current_entry_name = CurrentName
      /\ part.first_sector <= c
      /\ c < EndSector
  BY <1>1, <1>2 DEF IInv, StreamOK, LoopContinues
<1>4. /\ stream_part \in Nat /\ cur \in 1 .. Len(parts)
      /\ part = parts[cur]
      /\ part \in Part
      /\ PartOK(part, image, total_data_sectors)
      /\ EndSector \in 0 .. total_data_sectors
      /\ CurrentName = NameOf(cur)
      /\ CurrentName \in Names
      /\ \A p \in 1 .. Len(parts) : NameOf(p) \in Names
  BY <1>2, <1>3, CurrentFacts
<1>5. /\ out_len \in Nat /\ c \in Nat /\ total_data_sectors \in Nat
      /\ landed \in [0 .. total_data_sectors - 1 -> [name : Names, offset : Int]]
      /\ parts \in Seq(Part)
  BY CciAssumption DEF IInv, TypeOK
<1>6. /\ part.first_sector \in Nat /\ part.sector_count \in Nat
      /\ EndSector = part.first_sector + part.sector_count
      /\ \A i \in 1 .. part.sector_count + 1 : Pos(part, i) \in Nat
      /\ \A i \in 1 .. part.sector_count :
           Pos(part, i + 1) = Pos(part, i) + SlotLen(image[part.first_sector + i - 1])
  BY <1>4, <1>5, PosFacts DEF EndSector
<1>7. /\ c \in 0 .. total_data_sectors - 1
      /\ image[c] \in Lz4Lens
  BY <1>3, <1>4, <1>5 DEF IInv, TypeOK
<1>8. len \in Nat /\ EmittedLen(image[c]) = len BY <1>7, SlotLenFacts
<1>9. i0 \in 1 .. part.sector_count /\ part.first_sector + i0 - 1 = c
  <2>1. c < part.first_sector + part.sector_count BY <1>3, <1>6
  <2>2. part.first_sector \in Nat /\ part.sector_count \in Nat BY <1>6
  <2> HIDE DEF part, c
  <2> QED BY <1>3, <1>5, <2>1, <2>2
<1>10. written[NameOf(cur)] + out_len = Pos(part, i0)
  <2>1. written[NameOf(cur)] = BytesOf(cur) BY <1>2, <1>4 DEF IInv, StreamOK
  <2>2. BytesOf(cur) = Pos(part, i0) - out_len BY <1>3, <1>4 DEF BytesOf
  <2>3. Pos(part, i0) \in Nat BY <1>6, <1>9
  <2> QED BY <1>5, <2>1, <2>2, <2>3
<1>11. Pos(part, i0 + 1) = Pos(part, i0) + len BY <1>6, <1>9
<1>12. landed' = [landed EXCEPT ![c] = [name |-> NameOf(cur), offset |-> Pos(part, i0)]]
  BY <1>1, <1>3, <1>4, <1>10
<1>13. /\ parts' = parts /\ sizing_done' = sizing_done /\ stream_part' = stream_part
       /\ stream_stage' = stream_stage /\ stream_blob_pos' = stream_blob_pos
       /\ image' = image /\ total_data_sectors' = total_data_sectors
       /\ pc' = pc
  BY <1>1 DEF sizingVars, imageVars
<1>14. TypeOK'
  <2>1. landed' \in [0 .. total_data_sectors - 1 -> [name : Names, offset : Int]]
    <3>1. Pos(part, i0) \in Int /\ NameOf(cur) \in Names BY <1>4, <1>6, <1>9
    <3> HIDE DEF c, cur, i0, part
    <3> QED BY <1>5, <1>7, <1>12, <3>1
  <2>2. stream_sector_cursor' \in 0 .. total_data_sectors BY <1>1, <1>7, <1>5
  <2>3. out_len' \in Nat BY <1>1, <1>5, <1>8
  <2> QED BY <1>1, <2>1, <2>2, <2>3 DEF IInv, TypeOK, imageVars, sizingVars
<1>15. \A p \in 1 .. Len(parts) : NameOf(p)' = NameOf(p) BY <1>13 DEF NameOf
<1>16. \A p \in 1 .. Len(parts) : written'[NameOf(p)] = BytesOf(p)'
  <2> SUFFICES ASSUME NEW p \in 1 .. Len(parts)
      PROVE  written'[NameOf(p)] = BytesOf(p)'
    OBVIOUS
  <2>1. written'[NameOf(p)] = written[NameOf(p)] /\ written[NameOf(p)] = BytesOf(p)
    BY <1>1, <1>2 DEF IInv, StreamOK
  <2>2. CASE p = cur
    <3>1. BytesOf(p)' = Pos(part, c + 1 - part.first_sector + 1) - out_len'
      <4>1. BytesOf(p)' =
          Pos(parts[p], stream_sector_cursor' - parts[p].first_sector + 1) - out_len'
        BY <1>3, <1>4, <1>13, <2>2 DEF BytesOf, Pos
      <4>2. parts[p] = part /\ stream_sector_cursor' = c + 1 BY <1>1, <1>4, <2>2
      <4>3. Pos(parts[p], stream_sector_cursor' - parts[p].first_sector + 1)
          = Pos(part, c + 1 - part.first_sector + 1)
        <5>1. stream_sector_cursor' - parts[p].first_sector + 1 = c + 1 - part.first_sector + 1
          <6>1. c \in Nat /\ part.first_sector \in Nat BY <1>5, <1>6
          <6>2. parts[p].first_sector = part.first_sector BY <4>2
          <6> HIDE DEF part, c
          <6> QED BY <4>2, <6>1, <6>2
        <5> QED BY <4>2, <5>1, Zenon
      <4> QED BY <4>1, <4>3
    <3>2. c + 1 - part.first_sector + 1 = i0 + 1 BY <1>5, <1>6
    <3>3. Pos(part, i0) \in Nat /\ written[NameOf(p)] = Pos(part, i0) - out_len
      <4>1. Pos(part, i0) \in Nat BY <1>6, <1>9
      <4>2. BytesOf(p) = Pos(part, i0) - out_len BY <1>3, <1>4, <2>2 DEF BytesOf
      <4> QED BY <2>1, <4>1, <4>2
    <3>4. out_len' = out_len + len BY <1>1, <1>8
    <3> HIDE DEF len, part, c, i0
    <3> QED BY <1>5, <1>8, <1>11, <2>1, <3>1, <3>2, <3>3, <3>4
  <2>3. CASE p # cur
    <3>1. BytesOf(p)' = BytesOf(p) BY <1>4, <1>13, <2>3 DEF BytesOf
    <3> QED BY <2>1, <3>1
  <2> QED BY <2>2, <2>3
<1>17. \A p \in 1 .. Len(parts) : \A i \in 1 .. parts[p].sector_count :
    landed'[parts[p].first_sector + i - 1] =
      IF Emitted(p, i)' THEN [name |-> NameOf(p), offset |-> Pos(parts[p], i)] ELSE Nowhere
  <2> SUFFICES ASSUME NEW p \in 1 .. Len(parts), NEW i \in 1 .. parts[p].sector_count
      PROVE  landed'[parts[p].first_sector + i - 1] = IF Emitted(p, i)'
               THEN [name |-> NameOf(p), offset |-> Pos(parts[p], i)] ELSE Nowhere
    OBVIOUS
  <2> DEFINE s == parts[p].first_sector + i - 1
  <2>1. landed[s] = IF Emitted(p, i)
      THEN [name |-> NameOf(p), offset |-> Pos(parts[p], i)] ELSE Nowhere
    BY <1>2 DEF IInv, StreamOK
  <2>2. parts[p] \in Part /\ PartOK(parts[p], image, total_data_sectors)
    BY <1>5 DEF IInv, PartsOK, ChainOK
  <2>3. /\ parts[p].first_sector \in Nat /\ parts[p].sector_count \in Nat
        /\ parts[p].first_sector + parts[p].sector_count <= total_data_sectors
    BY <2>2 DEF Part, PartOK
  <2>4. s \in 0 .. total_data_sectors - 1 /\ i \in Nat BY <1>5, <2>3
  <2>5. CASE p = cur /\ i = i0
    <3>1. s = c BY <1>4, <1>9, <2>5
    <3>2. landed'[s] = [name |-> NameOf(p), offset |-> Pos(parts[p], i)]
      <4> HIDE DEF c, s, i0, cur, part
      <4> QED BY <1>4, <1>5, <1>7, <1>12, <2>5, <3>1
    <3>3. Emitted(p, i)' BY <1>1, <1>3, <1>4, <1>5, <1>13, <2>5, <3>1 DEF Emitted
    <3> QED BY <3>2, <3>3
  <2>6. CASE p # cur \/ i # i0
    <3>1. s # c
      <4>1. CASE p = cur
        <5>1. i # i0 /\ s = part.first_sector + i - 1 BY <1>4, <2>6, <4>1
        <5>2. /\ part.first_sector \in Nat /\ i \in Nat /\ i0 \in Nat
              /\ part.first_sector + i0 - 1 = c
          BY <1>6, <1>9, <2>4
        <5> HIDE DEF s, part, c, i0
        <5> QED BY <5>1, <5>2
      <4>2. CASE p # cur
        <5>1. /\ p < cur => parts[p].first_sector + parts[p].sector_count <= part.first_sector
              /\ cur < p => EndSector <= parts[p].first_sector
          BY <1>4, <1>6 DEF IInv, PartsOK, ChainOK
        <5>2. p < cur \/ cur < p BY <1>4, <4>2
        <5>3. /\ s < parts[p].first_sector + parts[p].sector_count
              /\ parts[p].first_sector <= s
          BY <2>3, <2>4
        <5>4. part.first_sector <= c /\ c < EndSector /\ EndSector \in Nat BY <1>3, <1>4, <1>5
        <5>5. s \in Nat /\ part.first_sector \in Nat BY <1>6, <2>3, <2>4
        <5> HIDE DEF s, part, c, cur
        <5> QED BY <1>5, <2>3, <5>1, <5>2, <5>3, <5>4, <5>5
      <4> QED BY <4>1, <4>2
    <3>2. landed'[s] = landed[s]
      <4> HIDE DEF c, s, i0, cur, part
      <4> QED BY <1>5, <1>7, <1>12, <2>4, <3>1
    <3>3. Emitted(p, i)' <=> Emitted(p, i)
      <4>1. (s < c + 1) <=> (s < c) BY <1>5, <2>4, <3>1
      <4> QED BY <1>1, <1>13, <4>1 DEF Emitted
    <3> QED BY <2>1, <3>2, <3>3
  <2> QED BY <2>5, <2>6
<1>18. StreamOK'
  <2>1. CurrentPart' = CurrentPart /\ EndSector' = EndSector /\ CurrentName' = CurrentName
    BY <1>13 DEF CurrentPart, EndSector, CurrentName
  <2>2. /\ CurrentPart.first_sector <= stream_sector_cursor'
        /\ stream_sector_cursor' <= EndSector
    BY <1>1, <1>3, <1>4, <1>5, <1>6
  <2>3. output_manifest' = output_manifest /\ sizing_part_first_sector' = sizing_part_first_sector
    BY <1>1 DEF sizingVars
  <2> HIDE DEF part, c, cur, i0, len
  <2> QED BY <1>1, <1>2, <1>3, <1>13, <1>15, <1>16, <1>17, <2>1, <2>2, <2>3 DEF IInv, StreamOK
<1> QED BY <1>1, <1>2, <1>14, <1>18, CutUnchanged DEF IInv

\* Handing over index bytes, perhaps the part's last, keeps the invariant.
LEMMA StreamIndexIInv ==
  ASSUME IInv, NEW max \in ChunkLimits, StreamIndex(max)
  PROVE  IInv'
<1> USE CciAssumption
<1> DEFINE cur == stream_part + 1
           from == IF stream_stage = "index" THEN stream_blob_pos ELSE 0
           size == EntrySize * Len(CurrentPart.index)
           end == Smaller(from + max, size)
           k == end - from
<1>1. /\ pc = "idle" /\ sizing_done /\ stream_part < Len(parts)
      /\ \/ stream_stage = "index"
         \/ stream_stage = "sectors" /\ stream_sector_cursor >= EndSector
      /\ current_entry_name' = CurrentName
      /\ AppendToFile(CurrentName, k)
      /\ UNCHANGED <<imageVars, sizingVars, stream_sector_cursor, callVars, landed>>
  BY DEF StreamIndex, NextChunkCalled
<1>2. /\ stream_part \in Nat /\ cur \in 1 .. Len(parts)
      /\ CurrentPart = parts[cur]
      /\ CurrentPart \in Part
      /\ PartOK(CurrentPart, image, total_data_sectors)
      /\ EndSector \in 0 .. total_data_sectors
      /\ CurrentName = NameOf(cur)
      /\ CurrentName \in Names
  BY <1>1, CurrentFacts
<1>3. /\ total_data_sectors \in Nat
      /\ stream_blob_pos \in Nat /\ max \in Nat \ {0}
      /\ stream_sector_cursor \in Nat
      /\ parts \in Seq(Part) /\ Len(parts) \in Nat
  BY DEF IInv, TypeOK
<1>4. /\ CurrentPart.first_sector \in Nat /\ CurrentPart.sector_count \in Nat
      /\ CurrentPart.index_offset \in Nat
      /\ EndSector = CurrentPart.first_sector + CurrentPart.sector_count
      /\ CurrentPart.index_offset = Pos(CurrentPart, CurrentPart.sector_count + 1)
      /\ Len(CurrentPart.index) = CurrentPart.sector_count + 1
      /\ CurrentPart.total_size = CurrentPart.index_offset + size
  BY <1>2, <1>3, PosFacts DEF EndSector
<1>5. size \in Nat /\ size > 0
  <2>1. CurrentPart.sector_count + 1 \in Nat \ {0} BY <1>4
  <2>2. \A a, b \in Nat \ {0} : a * b \in Nat /\ a * b > 0 OBVIOUS
  <2> QED BY <1>4, <2>1, <2>2
<1>6. from \in Nat /\ from < size BY <1>1, <1>3, <1>5 DEF IInv, StreamOK
<1> HIDE DEF size, from
<1>7. end \in Nat /\ end <= size /\ k \in Nat /\ from + k = end BY <1>3, <1>5, <1>6 DEF Smaller
<1>8. IF end >= size
      THEN /\ stream_part' = stream_part + 1
           /\ stream_stage' = "header"
           /\ stream_blob_pos' = 0
      ELSE /\ stream_stage' = "index"
           /\ stream_blob_pos' = end
           /\ UNCHANGED stream_part
  BY DEF StreamIndex, size, from
<1> HIDE DEF k, end, cur
<1>9. BytesOf(cur) = CurrentPart.index_offset + from
  <2>1. CASE stream_stage = "index" BY <1>1, <1>2, <2>1 DEF BytesOf, cur, from
  <2>2. CASE stream_stage = "sectors"
    <3>1. stream_sector_cursor = EndSector /\ out_len = 0 BY <1>1, <1>2, <1>3, <2>2 DEF IInv, StreamOK
    <3>2. stream_sector_cursor - CurrentPart.first_sector + 1 = CurrentPart.sector_count + 1
      BY <1>3, <1>4, <3>1
    <3>3. BytesOf(cur) =
        Pos(CurrentPart, stream_sector_cursor - CurrentPart.first_sector + 1) - out_len
      BY <1>1, <1>2, <2>2 DEF BytesOf, cur
    <3> QED BY <1>4, <2>2, <3>1, <3>2, <3>3 DEF from
  <2> QED BY <1>1, <2>1, <2>2
<1>10. /\ written' \in [Names -> Nat]
       /\ written'[NameOf(cur)] = CurrentPart.index_offset + end
       /\ \A p \in 1 .. Len(parts) : p # cur => written'[NameOf(p)] = BytesOf(p)
       /\ \A name \in Names :
            written'[name] > 0 => \E p \in 1 .. Len(parts) : NameOf(p) = name
  <2>1. /\ written' \in [Names -> Nat]
        /\ written'[NameOf(cur)] = BytesOf(cur) + k
        /\ \A p \in 1 .. Len(parts) : p # cur => written'[NameOf(p)] = BytesOf(p)
        /\ \A name \in Names :
             written'[name] > 0 => \E p \in 1 .. Len(parts) : NameOf(p) = name
    BY <1>1, <1>2, <1>7, AppendFacts DEF cur
  <2>2. BytesOf(cur) + k = CurrentPart.index_offset + end
    <3>1. CurrentPart.index_offset \in Nat BY <1>4
    <3>2. \A a, b, c, d \in Nat : \A x \in Int : b + x = c => (a + b) + x = a + c OBVIOUS
    <3>3. k \in Int BY <1>7
    <3> QED BY <1>6, <1>7, <1>9, <3>1, <3>2, <3>3
  <2> QED BY <2>1, <2>2
<1>11. /\ parts' = parts /\ sizing_done' = sizing_done
       /\ stream_sector_cursor' = stream_sector_cursor
       /\ pc' = pc /\ out_len' = out_len
       /\ image' = image /\ total_data_sectors' = total_data_sectors
  BY <1>1 DEF sizingVars, callVars, imageVars
<1>12. stream_part' \in Nat /\ stream_blob_pos' \in Nat
       /\ stream_stage' \in {"header", "sectors", "index"}
       /\ stream_part' <= Len(parts)
  BY <1>1, <1>2, <1>3, <1>7, <1>8
<1>13. TypeOK' BY <1>1, <1>2, <1>10, <1>12 DEF IInv, TypeOK, imageVars, sizingVars, callVars
<1>14. out_len = 0 BY <1>1 DEF IInv, StreamOK
<1>15. StreamOK'
  <2>1. \A p \in 1 .. Len(parts) : NameOf(p)' = NameOf(p) BY <1>11 DEF NameOf
  <2>2. \A p \in 1 .. Len(parts) : written'[NameOf(p)] = BytesOf(p)'
    <3> SUFFICES ASSUME NEW p \in 1 .. Len(parts)
        PROVE  written'[NameOf(p)] = BytesOf(p)'
      OBVIOUS
    <3>1. CASE p = cur
      <4>1. CASE end >= size
        <5>1. BytesOf(p)' = CurrentPart.total_size BY <1>2, <1>8, <1>11, <3>1, <4>1 DEF BytesOf, cur
        <5>2. end = size BY <1>5, <1>7, <4>1
        <5> QED BY <1>4, <1>10, <3>1, <5>1, <5>2
      <4>2. CASE ~(end >= size)
        <5>1. BytesOf(p)' = CurrentPart.index_offset + end
          BY <1>1, <1>2, <1>8, <1>11, <3>1, <4>2 DEF BytesOf, cur
        <5> QED BY <1>10, <3>1, <5>1
      <4> QED BY <4>1, <4>2
    <3>2. CASE p # cur
      <4>1. BytesOf(p)' = BytesOf(p) BY <1>1, <1>2, <1>8, <1>11, <3>2 DEF BytesOf, cur
      <4> QED BY <1>10, <3>2, <4>1
    <3> QED BY <3>1, <3>2
  <2>3. \A p \in 1 .. Len(parts) : \A i \in 1 .. parts[p].sector_count :
      Emitted(p, i)' = Emitted(p, i)
    <3> SUFFICES ASSUME NEW p \in 1 .. Len(parts), NEW i \in 1 .. parts[p].sector_count
        PROVE  Emitted(p, i)' <=> Emitted(p, i)
      BY DEF Emitted
    <3>1. CASE p = cur
      <4>1. Emitted(p, i)
        <5>1. CurrentPart.first_sector + i - 1 < EndSector BY <1>2, <1>4, <3>1
        <5> QED BY <1>1, <1>2, <1>3, <1>4, <3>1, <5>1 DEF Emitted, cur
      <4>2. Emitted(p, i)' BY <1>2, <1>8, <3>1 DEF Emitted, cur
      <4> QED BY <4>1, <4>2
    <3>2. CASE p # cur BY <1>2, <1>8, <1>11, <3>2 DEF Emitted, cur
    <3> QED BY <3>1, <3>2
  <2>4. stream_part' = Len(parts) => stream_stage' = "header" /\ stream_blob_pos' = 0 BY <1>1, <1>8
  <2>5. stream_stage' = "index" => stream_blob_pos' < EntrySize * Len(CurrentPart'.index)
    <3>1. stream_stage' = "index" => stream_blob_pos' < size /\ CurrentPart' = CurrentPart
      BY <1>5, <1>7, <1>8, <1>11 DEF CurrentPart
    <3> QED BY <3>1 DEF size
  <2>6. stream_stage' = "header" => stream_blob_pos' < HeaderSize BY <1>8
  <2>7. stream_stage' # "sectors" BY <1>8
  <2>8. /\ parts' # <<>>
        /\ sizing_part_first_sector' = total_data_sectors'
        /\ pc' = "idle" /\ out_len' = 0
        /\ output_manifest' = [p \in 1 .. Len(parts') |->
             [name |-> NameOf(p)', size |-> parts'[p].total_size]]
    BY <1>1, <1>11, <1>14, <2>1 DEF IInv, StreamOK, sizingVars
  <2>9. \A p \in 1 .. Len(parts') : written'[NameOf(p)'] = BytesOf(p)' BY <1>11, <2>1, <2>2
  <2>10. \A name \in Names :
      written'[name] > 0 => \E p \in 1 .. Len(parts') : NameOf(p)' = name
    BY <1>10, <1>11, <2>1
  <2>11. \A p \in 1 .. Len(parts') : \A i \in 1 .. parts'[p].sector_count :
      landed'[parts'[p].first_sector + i - 1] = IF Emitted(p, i)'
        THEN [name |-> NameOf(p)', offset |-> Pos(parts'[p], i)] ELSE Nowhere
    BY <1>1, <1>11, <2>1, <2>3 DEF IInv, StreamOK
  <2>12. stream_part' <= Len(parts') BY <1>11, <1>12
  <2>13. stream_part' = Len(parts') => stream_stage' = "header" /\ stream_blob_pos' = 0 BY <1>11, <2>4
  <2>14. pc' # "sizing" /\ pc' # "emitting" BY <2>8
  <2> QED BY <2>5, <2>6, <2>7, <2>8, <2>9, <2>10, <2>11, <2>12, <2>13, <2>14 DEF StreamOK
<1> QED BY <1>1, <1>13, <1>15, CutUnchanged DEF IInv

\* Doing nothing keeps the invariant.
LEMMA StutterIInv ==
  ASSUME IInv, UNCHANGED vars
  PROVE  IInv'
<1> USE DEF IInv, vars, imageVars, sizingVars, streamVars, callVars, driverVars
<1>1. TypeOK' BY DEF TypeOK
<1>2. InfosOK' BY DEF InfosOK
<1>3. PartsOK' BY DEF PartsOK
<1>4. PlanningOK' BY DEF PlanningOK, BatchEnd
<1>5. StreamOK' BY DEF StreamOK, NameOf, BytesOf, Emitted, CurrentPart, EndSector, CurrentName
<1> QED BY <1>1, <1>2, <1>3, <1>4, <1>5

\* Every step keeps the invariant.
LEMMA NextIInv == IInv /\ [Next]_vars => IInv'
<1> SUFFICES ASSUME IInv, [Next]_vars PROVE IInv' OBVIOUS
<1>1. CASE HashNextPart BY <1>1, HashNextPartIInv
<1>2. CASE HashEmptyImage BY <1>2, HashEmptyImageIInv
<1>3. CASE SizeSector BY <1>3, SizeSectorIInv
<1>4. CASE YieldBatch BY <1>4, YieldBatchIInv
<1>5. CASE FinishLastBatch BY <1>5, FinishLastBatchIInv
<1>6. ASSUME NEW max \in ChunkLimits, StreamHeader(max) PROVE IInv' BY <1>6, StreamHeaderIInv
<1>7. ASSUME NEW max \in ChunkLimits, StreamSectors(max) PROVE IInv' BY <1>7, StreamSectorsIInv
<1>8. ASSUME NEW max \in ChunkLimits, StreamIndex(max) PROVE IInv' BY <1>8, StreamIndexIInv
<1>9. CASE EmitSector BY <1>9, EmitSectorIInv
<1>10. CASE ReturnSectors BY <1>10, ReturnSectorsIInv
<1>11. CASE SizingReadFails BY <1>11, SizingReadFailsIInv
<1>13. CASE StreamingReadFails BY <1>13, StreamingReadFailsIInv
<1>12. CASE UNCHANGED vars BY <1>12, StutterIInv
<1> QED BY <1>1, <1>2, <1>3, <1>4, <1>5, <1>6, <1>7, <1>8, <1>9, <1>10, <1>11, <1>12,
     <1>13 DEF Next, Call, Ended

-----------------------------------------------------------------------------
(* What the invariant says of the properties                                 *)

\* IInv holds in every reachable state.
THEOREM Invariant == Spec => []IInv
BY InitIInv, NextIInv, PTL DEF Spec

\* The session's and the driver's state keeps its types: no cursor leaves
\* the image.
THEOREM TypeCorrect == Spec => []TypeOK
<1>1. IInv => TypeOK BY DEF IInv
<1> QED BY Invariant, <1>1, PTL

\* The parts are numbered from 1.
LEMMA PartsDomain ==
  ASSUME IInv
  PROVE  DOMAIN parts = 1 .. Len(parts) /\ Len(parts) \in Nat
<1>1. parts \in Seq(Part) BY DEF IInv, TypeOK
<1> QED BY <1>1

\* What IInv says of each finalized part.
LEMMA PartsFacts ==
  ASSUME IInv, NEW p \in 1 .. Len(parts)
  PROVE  /\ parts[p] \in Part
         /\ PartOK(parts[p], image, total_data_sectors)
         /\ total_data_sectors \in Nat
         /\ Len(parts) \in Nat
         /\ DOMAIN parts = 1 .. Len(parts)
<1>1. parts \in Seq(Part) /\ total_data_sectors \in Nat BY CciAssumption DEF IInv, TypeOK
<1>2. PartOK(parts[p], image, total_data_sectors) BY DEF IInv, PartsOK, ChainOK
<1> QED BY <1>1, <1>2

\* The parts cover the image without gap or overlap (hash_next_part,
\* finalize_sizing_part).
THEOREM PartsPartition == Spec => []PartsPartitionImage
<1>1. ASSUME IInv PROVE PartsPartitionImage
  <2>1. parts \in Seq(Part) /\ Len(parts) \in Nat /\ DOMAIN parts = 1 .. Len(parts)
    BY <1>1 DEF IInv, TypeOK
  <2>2. ChainOK(parts, sizing_part_first_sector, image, total_data_sectors) BY <1>1 DEF IInv, PartsOK
  <2>3. ASSUME NEW p \in 1 .. Len(parts)
        PROVE  /\ parts[p].first_sector = IF p = 1 THEN 0
                    ELSE parts[p - 1].first_sector + parts[p - 1].sector_count
               /\ parts[p].sector_count > 0 \/ total_data_sectors = 0
    <3>1. parts[p].sector_count > 0 \/ total_data_sectors = 0 BY <2>2 DEF ChainOK, PartOK
    <3>2. CASE p = 1
      <4>1. parts # <<>> BY <2>1
      <4> QED BY <2>2, <3>1, <3>2, <4>1 DEF ChainOK
    <3>3. CASE p # 1
      <4>1. p - 1 \in 1 .. Len(parts) - 1 /\ p - 1 + 1 = p BY <2>1, <3>3
      <4>2. parts[p - 1 + 1].first_sector =
          parts[p - 1].first_sector + parts[p - 1].sector_count
        BY <2>2, <4>1 DEF ChainOK
      <4> QED BY <3>1, <3>3, <4>1, <4>2
    <3> QED BY <3>2, <3>3
  <2>4. sizing_done => parts # <<>> /\ sizing_part_first_sector = total_data_sectors
    BY <1>1 DEF IInv, StreamOK
  <2>5. parts # <<>> => sizing_part_first_sector =
      parts[Len(parts)].first_sector + parts[Len(parts)].sector_count
    BY <2>2 DEF ChainOK
  <2> QED BY <2>1, <2>3, <2>4, <2>5 DEF PartsPartitionImage
<1> QED BY Invariant, <1>1, PTL

\* Header and index of every part fit each other.
LEMMA ReadableParts == IInv => EveryPartReadable
<1>1. ASSUME IInv PROVE EveryPartReadable
  <2> SUFFICES ASSUME NEW p \in 1 .. Len(parts) PROVE ReaderAccepts(parts[p])
    BY <1>1, PartsDomain DEF EveryPartReadable
  <2> DEFINE part == parts[p]
             n == part.sector_count
  <2>1. /\ part \in Part /\ PartOK(part, image, total_data_sectors)
        /\ total_data_sectors \in Nat
    BY <1>1, PartsFacts
  <2> HIDE DEF part
  <2>2. /\ n \in Nat /\ Len(part.index) = n + 1
        /\ part.first_sector \in Nat
        /\ part.index_offset \in Nat
        /\ \A i \in 1 .. n + 1 : Pos(part, i) \in Nat
        /\ Pos(part, 1) = HeaderSize
        /\ \A i \in 1 .. n :
             Pos(part, i + 1) = Pos(part, i) + SlotLen(image[part.first_sector + i - 1])
        /\ part.index_offset = Pos(part, n + 1)
        /\ part.total_size = part.index_offset + EntrySize * Len(part.index)
    BY <2>1, PosFacts
  <2>3. /\ part.first_sector + n <= total_data_sectors
        /\ part.uncompressed_size = n * SectorSize
        /\ \A i \in 1 .. n + 1 : Pos(part, i) <= part.index_offset
    BY <2>1 DEF PartOK
  <2> HIDE DEF n
  <2>4. part.index_offset >= HeaderSize
    <3>1. 1 \in 1 .. n + 1 BY <2>2
    <3> QED BY <2>2, <2>3, <3>1
  <2>5. part.total_size - part.index_offset = EntrySize * Len(part.index)
    <3>1. EntrySize * Len(part.index) \in Nat BY <2>2, CciAssumption
    <3> QED BY <2>2, <3>1
  <2>6. \A i \in 1 .. n : Pos(part, i) <= Pos(part, i + 1)
    <3> SUFFICES ASSUME NEW i \in 1 .. n PROVE Pos(part, i) <= Pos(part, i + 1) OBVIOUS
    <3>1. image[part.first_sector + i - 1] \in Lz4Lens
      <4>1. part.first_sector + i - 1 \in 0 .. total_data_sectors - 1
        <5>1. /\ part.first_sector \in Nat /\ n \in Nat /\ total_data_sectors \in Nat
              /\ part.first_sector + n <= total_data_sectors
          BY <2>1, <2>2, <2>3
        <5> QED BY <5>1
      <4> QED BY <1>1, <4>1 DEF IInv, TypeOK
    <3>2. SlotLen(image[part.first_sector + i - 1]) \in Nat BY <3>1, SlotLenFacts
    <3>3. i \in 1 .. n + 1 BY <2>2
    <3> QED BY <2>2, <3>2, <3>3
  <2>7. Len(part.index) - 1 = n BY <2>2
  <2>8. ReaderAccepts(part) BY <2>2, <2>3, <2>4, <2>5, <2>6, <2>7 DEF ReaderAccepts, Pos
  <2> QED BY <2>8 DEF part
<1> QED BY <1>1

\* No part the writer plans is rejected by the reader's checks of header
\* and index (cci/read.rs, parse_header_and_index).
THEOREM PartsReadable == Spec => []EveryPartReadable
BY Invariant, ReadableParts, PTL

\* No part outgrows the split point by more than a slot, and every index
\* position fits into the 31 bits the format has for it: the assertion
\* finalize_sizing_part() leaves to "control flow elsewhere".
THEOREM PartsBounded == Spec => []PartsStayBounded
<1>1. ASSUME IInv PROVE PartsStayBounded
  <2> SUFFICES ASSUME NEW p \in 1 .. Len(parts)
      PROVE  /\ parts[p].index_offset <= SplitPoint + SectorSize
             /\ \A i \in DOMAIN parts[p].index : parts[p].index[i].position < IndexLimit
    BY <1>1, PartsDomain DEF PartsStayBounded
  <2>1. /\ parts[p] \in Part /\ PartOK(parts[p], image, total_data_sectors) BY <1>1, PartsFacts
  <2>2. parts[p].index_offset <= SplitPoint + SectorSize BY <2>1 DEF PartOK
  <2>3. ASSUME NEW i \in DOMAIN parts[p].index
        PROVE  parts[p].index[i].position < IndexLimit
    <3> DEFINE x == parts[p].index[i].position
    <3>1. parts[p].index \in Seq(IndexEntry) /\ parts[p].index_offset \in Nat BY <2>1 DEF Part
    <3>2. i \in 1 .. parts[p].sector_count + 1 BY <2>1, <3>1 DEF PartOK
    <3>3. parts[p].index[i] \in IndexEntry BY <3>1
    <3>4. x \in Nat BY <3>3 DEF IndexEntry
    <3>5. x * AlignMult <= parts[p].index_offset BY <2>1, <3>2 DEF PartOK, Pos
    <3> HIDE DEF x
    <3>6. x * AlignMult \in Nat /\ IndexLimit * AlignMult \in Nat BY <3>4, CciAssumption
    <3>7. x * AlignMult < IndexLimit * AlignMult BY <2>2, <3>1, <3>5, <3>6, CciAssumption, IndexFits
    <3>8. \A a, b \in Nat : \A m \in Nat \ {0} : a * m < b * m => a < b OBVIOUS
    <3>9. x < IndexLimit BY <3>4, <3>7, <3>8, CciAssumption
    <3> QED BY <3>9 DEF x
  <2> QED BY <2>2, <2>3
<1> QED BY Invariant, <1>1, PTL

\* Every slot the index describes is as the streaming pass emits it.
LEMMA IndexPlaces == IInv => IndexFindsEverySector
<1>1. ASSUME IInv PROVE IndexFindsEverySector
  <2> SUFFICES ASSUME sizing_done, NEW p \in 1 .. Len(parts),
             NEW i \in 1 .. parts[p].sector_count
      PROVE  LET s == parts[p].first_sector + i - 1
                 slot == ReaderSlot(p, i)
             IN /\ slot.len = SlotLen(image[s])
                /\ slot.raw = ~IsCompressed(image[s])
                /\ landed[s] # Nowhere =>
                     landed[s] = [name |-> slot.name, offset |-> slot.offset]
                /\ IsDone => landed[s] # Nowhere
    BY <1>1, PartsDomain DEF IndexFindsEverySector
  <2> DEFINE part == parts[p]
             s == part.first_sector + i - 1
             slot == ReaderSlot(p, i)
             len == SlotLen(image[s])
  <2>1. /\ part \in Part /\ PartOK(part, image, total_data_sectors)
        /\ total_data_sectors \in Nat /\ Len(parts) \in Nat
    BY <1>1, PartsFacts
  <2>2. /\ part.first_sector \in Nat /\ part.sector_count \in Nat
        /\ Pos(part, i) \in Nat
        /\ Pos(part, i + 1) = Pos(part, i) + len
        /\ part.index[i].compressed = IsCompressed(image[s])
        /\ part.first_sector + part.sector_count <= total_data_sectors
    <3>1. part.sector_count \in Nat BY <2>1 DEF Part
    <3>2. i \in 1 .. part.sector_count + 1 BY <3>1
    <3>3. /\ part.first_sector \in Nat
          /\ Pos(part, i) \in Nat
          /\ Pos(part, i + 1) = Pos(part, i) + len
      BY <2>1, <3>2, PosFacts
    <3>4. /\ part.index[i].compressed = IsCompressed(image[s])
          /\ part.first_sector + part.sector_count <= total_data_sectors
      BY <2>1 DEF PartOK
    <3> QED BY <3>1, <3>3, <3>4
  <2>3. image[s] \in Lz4Lens
    <3>1. /\ image \in [0 .. total_data_sectors - 1 -> Lz4Lens]
          /\ total_data_sectors \in Nat
      BY <1>1, CciAssumption DEF IInv, TypeOK
    <3>2. /\ part.first_sector \in Nat /\ part.sector_count \in Nat
          /\ part.first_sector + part.sector_count <= total_data_sectors
          /\ i \in 1 .. part.sector_count
      BY <2>1, <2>2 DEF Part
    <3> HIDE DEF part
    <3>3. s \in 0 .. total_data_sectors - 1 BY <3>1, <3>2
    <3> HIDE DEF s
    <3> QED BY <3>1, <3>3
  <2>4. /\ len \in Nat
        /\ IsCompressed(image[s]) \in BOOLEAN
        /\ IsCompressed(image[s]) <=> len # SectorSize
    <3> HIDE DEF s
    <3>1. /\ len \in Nat
          /\ IsCompressed(image[s]) \in BOOLEAN
          /\ IsCompressed(image[s]) => len < SectorSize
      BY <2>3, SlotLenFacts
    <3>2. ~IsCompressed(image[s]) => len = SectorSize BY DEF SlotLen
    <3>3. SectorSize \in Nat BY CciAssumption
    <3> HIDE DEF len
    <3> QED BY <3>1, <3>2, <3>3
  <2>5. slot = [name |-> NameOf(p), offset |-> Pos(part, i),
      len |-> Pos(part, i + 1) - Pos(part, i), raw |-> ~part.index[i].compressed
                /\ Pos(part, i + 1) - Pos(part, i) = SectorSize]
    BY DEF ReaderSlot, NameOf, Pos
  <2>6. slot.len = len
    <3> HIDE DEF slot, part, len
    <3> QED BY <2>2, <2>4, <2>5
  <2>7. slot.raw = ~IsCompressed(image[s])
    <3>1. slot.raw = (~part.index[i].compressed /\ slot.len = SectorSize)
      <4> HIDE DEF slot
      <4> QED BY <2>5
    <3> HIDE DEF slot, part, len, s
    <3> QED BY <2>2, <2>4, <2>6, <3>1
  <2>8. landed[s] = IF Emitted(p, i) THEN [name |-> NameOf(p), offset |-> Pos(part, i)]
      ELSE Nowhere
    BY <1>1 DEF IInv, StreamOK
  <2>9. landed[s] # Nowhere => landed[s] = [name |-> slot.name, offset |-> slot.offset]
    <3> HIDE DEF slot, s, part
    <3> QED BY <2>5, <2>8
  <2>10. IsDone => landed[s] # Nowhere
    <3> HAVE IsDone
    <3>1. stream_part \in Nat BY <1>1 DEF IInv, TypeOK
    <3>2. Emitted(p, i) BY <2>1, <3>1 DEF IsDone, Emitted
    <3>3. landed[s].offset = Pos(part, i) BY <2>8, <3>2
    <3>4. Nowhere.offset = -1 BY DEF Nowhere
    <3> QED BY <2>2, <3>3, <3>4
  <2> QED BY <2>6, <2>7, <2>9, <2>10
<1> QED BY <1>1

\* The index planned in the first pass leads a reader to every sector the
\* second pass emitted (next_chunk against cci/read.rs, read_sector).
THEOREM IndexFinds == Spec => []IndexFindsEverySector
BY Invariant, IndexPlaces, PTL

-----------------------------------------------------------------------------
(* The session keeps its manifest and implements PartStream                  *)

FileOK(p) ==
  /\ BytesOf(p) <= parts[p].total_size
  /\ IsDone => BytesOf(p) = parts[p].total_size

\* No part's file is longer than planned; the files before the current one
\* are complete, those after it are empty.
LEMMA BytesBounded ==
  ASSUME IInv, sizing_done, NEW p \in 1 .. Len(parts)
  PROVE  /\ BytesOf(p) \in Nat
         /\ parts[p].total_size \in Nat
         /\ BytesOf(p) <= parts[p].total_size
         /\ p <= stream_part => BytesOf(p) = parts[p].total_size
         /\ p > stream_part + 1 => BytesOf(p) = 0
         /\ IsDone => BytesOf(p) = parts[p].total_size
<1>1. /\ parts[p] \in Part /\ PartOK(parts[p], image, total_data_sectors)
      /\ total_data_sectors \in Nat /\ Len(parts) \in Nat
  BY PartsFacts
<1>2. /\ stream_part \in Nat /\ stream_blob_pos \in Nat /\ out_len \in Nat
      /\ stream_sector_cursor \in Nat
      /\ written \in [Names -> Nat]
  BY CciAssumption DEF IInv, TypeOK
<1>3. /\ parts[p].first_sector \in Nat /\ parts[p].sector_count \in Nat
      /\ parts[p].index_offset \in Nat /\ parts[p].total_size \in Nat
      /\ Len(parts[p].index) = parts[p].sector_count + 1
      /\ \A i \in 1 .. parts[p].sector_count + 1 : Pos(parts[p], i) \in Nat
      /\ Pos(parts[p], 1) = HeaderSize
      /\ parts[p].total_size = parts[p].index_offset + EntrySize * Len(parts[p].index)
  BY <1>1, PosFacts
<1>4. \A i \in 1 .. parts[p].sector_count + 1 : Pos(parts[p], i) <= parts[p].index_offset
  BY <1>1 DEF PartOK
<1>5. EntrySize * Len(parts[p].index) \in Nat BY <1>3, CciAssumption
<1>6. parts[p].index_offset <= parts[p].total_size BY <1>3, <1>5
<1>7. HeaderSize <= parts[p].index_offset
  <2>1. 1 \in 1 .. parts[p].sector_count + 1 BY <1>3
  <2> QED BY <1>3, <1>4, <2>1
<1>8. BytesOf(p) \in Nat
  <2>1. stream_part < Len(parts) => NameOf(p) \in Names BY CurrentFacts
  <2>2. written[NameOf(p)] = BytesOf(p) BY DEF IInv, StreamOK
  <2>3. CASE stream_part < Len(parts) BY <1>2, <2>1, <2>2, <2>3
  <2>4. CASE ~(stream_part < Len(parts)) BY <1>1, <1>2, <1>3, <2>4 DEF BytesOf
  <2> QED BY <2>3, <2>4
<1>9. p <= stream_part => BytesOf(p) = parts[p].total_size BY DEF BytesOf
<1>10. p > stream_part + 1 => BytesOf(p) = 0 BY <1>2 DEF BytesOf
<1>11. IsDone => BytesOf(p) = parts[p].total_size BY <1>1, <1>2 DEF IsDone, BytesOf
<1>12. BytesOf(p) <= parts[p].total_size
  <2>1. CASE p <= stream_part BY <1>3, <1>9, <2>1
  <2>2. CASE p > stream_part + 1 BY <1>3, <1>10, <2>2
  <2>3. CASE p = stream_part + 1
    <3>1. /\ stream_part < Len(parts) /\ CurrentPart = parts[p]
          /\ ~(p <= stream_part) /\ ~(p > stream_part + 1) /\ stream_part # Len(parts)
      BY <1>1, <1>2, <2>3 DEF CurrentPart
    <3>2. CASE stream_stage = "header"
      <4>1. BytesOf(p) = stream_blob_pos /\ stream_blob_pos < HeaderSize
        BY <3>1, <3>2 DEF BytesOf, IInv, StreamOK
      <4> QED BY <1>2, <1>3, <1>6, <1>7, <4>1, CciAssumption
    <3>3. CASE stream_stage = "index"
      <4>1. BytesOf(p) = parts[p].index_offset + stream_blob_pos BY <3>1, <3>3 DEF BytesOf
      <4>2. stream_blob_pos < EntrySize * Len(parts[p].index) BY <3>1, <3>3 DEF IInv, StreamOK
      <4> QED BY <1>2, <1>3, <1>5, <4>1, <4>2
    <3>4. CASE stream_stage = "sectors"
      <4> DEFINE i == stream_sector_cursor - parts[p].first_sector + 1
      <4>1. i \in 1 .. parts[p].sector_count + 1
        <5>1. parts[p].first_sector <= stream_sector_cursor
              /\ stream_sector_cursor <= parts[p].first_sector + parts[p].sector_count
          BY <3>1, <3>4 DEF IInv, StreamOK, EndSector
        <5> QED BY <1>2, <1>3, <5>1
      <4>2. BytesOf(p) = Pos(parts[p], i) - out_len BY <3>1, <3>4 DEF BytesOf
      <4> HIDE DEF i
      <4>3. Pos(parts[p], i) \in Nat /\ Pos(parts[p], i) <= parts[p].index_offset BY <1>3, <1>4, <4>1
      <4> QED BY <1>2, <1>3, <1>6, <4>2, <4>3
    <3>5. stream_stage \in {"header", "sectors", "index"} BY DEF IInv, TypeOK
    <3> QED BY <3>2, <3>3, <3>4, <3>5
  <2> QED BY <1>1, <1>2, <2>1, <2>2, <2>3
<1> QED BY <1>3, <1>8, <1>9, <1>10, <1>11, <1>12

\* What the refinement mapping gives once the manifest is published.
LEMMA PromisedFacts ==
  ASSUME IInv, sizing_done
  PROVE  /\ DOMAIN output_manifest = 1 .. Len(parts)
         /\ \A p \in 1 .. Len(parts) : output_manifest[p].name = NameOf(p)
         /\ \A p \in 1 .. Len(parts) : output_manifest[p].size = parts[p].total_size
         /\ Promised = [p \in 1 .. Len(parts) |-> parts[p].total_size]
         /\ HandedOver = [p \in 1 .. Len(parts) |-> written[NameOf(p)]]
         /\ \A p \in 1 .. Len(parts) : written[NameOf(p)] = BytesOf(p)
<1>1. output_manifest = [p \in 1 .. Len(parts) |->
    [name |-> NameOf(p), size |-> parts[p].total_size]]
  BY DEF IInv, StreamOK
<1>2. DOMAIN output_manifest = 1 .. Len(parts) BY <1>1
<1>3. \A p \in 1 .. Len(parts) :
    output_manifest[p] = [name |-> NameOf(p), size |-> parts[p].total_size]
  BY <1>1
<1>4. \A p \in 1 .. Len(parts) :
    output_manifest[p].name = NameOf(p) /\ output_manifest[p].size = parts[p].total_size
  <2> SUFFICES ASSUME NEW p \in 1 .. Len(parts)
      PROVE  /\ output_manifest[p].name = NameOf(p)
             /\ output_manifest[p].size = parts[p].total_size
    OBVIOUS
  <2>1. output_manifest[p] = [name |-> NameOf(p), size |-> parts[p].total_size] BY <1>3
  <2> QED BY <2>1
<1>5. Promised = [p \in 1 .. Len(parts) |-> parts[p].total_size] BY <1>2, <1>4 DEF Promised
<1>6. HandedOver = [p \in 1 .. Len(parts) |-> written[NameOf(p)]] BY <1>2, <1>4 DEF HandedOver
<1>7. \A p \in 1 .. Len(parts) : written[NameOf(p)] = BytesOf(p) BY DEF IInv, StreamOK
<1> QED BY <1>2, <1>4, <1>5, <1>6, <1>7

\* Every file holds at most, and when is_done() is true exactly, what the
\* manifest promised, and nothing else has been written.
THEOREM KeepsManifest == Spec => []ManifestKept
<1>1. ASSUME IInv PROVE ManifestKept
  <2> SUFFICES ASSUME sizing_done
      PROVE  /\ \A p \in DOMAIN output_manifest :
                  LET file == written[output_manifest[p].name]
                  IN /\ file <= output_manifest[p].size
                     /\ IsDone => file = output_manifest[p].size
             /\ \A name \in Names : written[name] > 0 => \E p \in DOMAIN output_manifest :
                      output_manifest[p].name = name
    BY DEF ManifestKept
  <2>1. /\ DOMAIN output_manifest = 1 .. Len(parts)
        /\ \A p \in 1 .. Len(parts) : output_manifest[p].name = NameOf(p)
        /\ \A p \in 1 .. Len(parts) : output_manifest[p].size = parts[p].total_size
        /\ \A p \in 1 .. Len(parts) : written[NameOf(p)] = BytesOf(p)
    BY <1>1, PromisedFacts
  <2>2. \A p \in 1 .. Len(parts) : FileOK(p) BY <1>1, BytesBounded DEF FileOK
  <2>3. \A name \in Names : written[name] > 0 => \E p \in 1 .. Len(parts) : NameOf(p) = name
    BY <1>1 DEF IInv, StreamOK
  <2>4. \A p \in DOMAIN output_manifest :
      LET file == written[output_manifest[p].name]
      IN /\ file <= output_manifest[p].size
         /\ IsDone => file = output_manifest[p].size
    <3> SUFFICES ASSUME NEW p \in 1 .. Len(parts)
        PROVE  LET file == written[output_manifest[p].name]
               IN /\ file <= output_manifest[p].size
                  /\ IsDone => file = output_manifest[p].size
      BY <2>1
    <3>1. written[output_manifest[p].name] = BytesOf(p) BY <2>1
    <3>2. output_manifest[p].size = parts[p].total_size BY <2>1
    <3>3. /\ BytesOf(p) <= parts[p].total_size
          /\ IsDone => BytesOf(p) = parts[p].total_size
      <4>1. FileOK(p) BY <2>2
      <4> QED BY <4>1 DEF FileOK
    <3> QED BY <3>1, <3>2, <3>3
  <2>5. \A name \in Names :
      written[name] > 0 => \E p \in DOMAIN output_manifest : output_manifest[p].name = name
    BY <2>1, <2>3
  <2> QED BY <2>4, <2>5
<1> QED BY Invariant, <1>1, PTL

\* A step that hands nothing over and publishes nothing is a stutter.
LEMMA Silent ==
  ASSUME IInv, pc # "failed", pc' # "failed", sizing_done' = sizing_done,
         sizing_done => UNCHANGED <<stream_part, parts>>,
         UNCHANGED <<output_manifest, written>>
  PROVE  UNCHANGED Stream!vars
<1>1. Phase' = Phase BY DEF Phase, IsDone
<1>2. Promised' = Promised /\ HandedOver' = HandedOver BY DEF Promised, HandedOver
<1> QED BY <1>1, <1>2 DEF Stream!vars

\* Publishing the manifest is PartStream's Publish.
LEMMA Publishes ==
  ASSUME IInv, IInv', ~sizing_done, sizing_done', stream_part' = 0,
         pc # "failed", pc' # "failed", written' = written
  PROVE  Stream!Publish
<1>1. Phase = "planning" BY DEF Phase, IsDone
<1>2. Phase' = "streaming"
  <2>1. parts' # <<>> /\ parts' \in Seq(Part) BY DEF IInv, StreamOK, TypeOK
  <2>2. ~(0 >= Len(parts')) BY <2>1
  <2> QED BY <2>2 DEF Phase, IsDone
<1>3. /\ output_manifest' \in Seq([name : Nat, size : Nat])
      /\ DOMAIN output_manifest' = 1 .. Len(output_manifest')
      /\ Len(output_manifest') \in Nat
  <2>1. output_manifest' \in Seq([name : Nat, size : Nat]) BY DEF IInv, TypeOK
  <2> QED BY <2>1
<1>4. Promised' \in Seq(Nat)
  <2>1. \A p \in 1 .. Len(output_manifest') : output_manifest'[p].size \in Nat
    <3> SUFFICES ASSUME NEW p \in 1 .. Len(output_manifest')
        PROVE  output_manifest'[p].size \in Nat
      OBVIOUS
    <3>1. output_manifest'[p] \in [name : Nat, size : Nat]
      <4>1. \A S : \A m \in Seq(S) : \A j \in 1 .. Len(m) : m[j] \in S OBVIOUS
      <4> QED BY <1>3, <4>1
    <3> QED BY <3>1
  <2>2. Promised' = [p \in 1 .. Len(output_manifest') |-> output_manifest'[p].size] BY <1>3 DEF Promised
  <2> QED BY <1>3, <2>1, <2>2
<1>5. HandedOver' = [p \in DOMAIN Promised' |-> 0]
  <2>1. written = [name \in Names |-> 0] BY DEF IInv, PlanningOK
  <2>2. \A p \in DOMAIN output_manifest' : output_manifest'[p].name \in Names
    <3>1. /\ DOMAIN output_manifest' = 1 .. Len(parts')
          /\ \A p \in 1 .. Len(parts') : output_manifest'[p].name = NameOf(p)'
      <4>1. output_manifest' = [p \in 1 .. Len(parts') |->
          [name |-> NameOf(p)', size |-> parts'[p].total_size]]
        BY DEF IInv, StreamOK
      <4> QED BY <4>1
    <3>2. \A p \in 1 .. Len(parts') : NameOf(p)' \in Names
      <4>1. /\ parts' \in Seq(Part)
            /\ total_data_sectors' \in 0 .. MaxSectors
            /\ sizing_part_first_sector' \in Nat
            /\ sizing_part_first_sector' <= total_data_sectors'
        BY CciAssumption DEF IInv, TypeOK
      <4>2. ChainOK(parts', sizing_part_first_sector', image', total_data_sectors') BY DEF IInv, PartsOK
      <4> QED BY <4>1, <4>2, NamesDiffer DEF NameOf
    <3> QED BY <3>1, <3>2
  <2>3. DOMAIN Promised' = DOMAIN output_manifest' BY DEF Promised
  <2> QED BY <2>1, <2>2, <2>3 DEF HandedOver
<1> QED BY <1>1, <1>2, <1>4, <1>5 DEF Stream!Publish

\* BytesBounded of the next state.
LEMMA BytesBoundedNext ==
  (IInv /\ sizing_done => \A p \in 1 .. Len(parts) : FileOK(p))'
<1>1. IInv /\ sizing_done => \A p \in 1 .. Len(parts) : FileOK(p) BY BytesBounded DEF FileOK
<1> QED BY <1>1, PTL

\* Appending a chunk to the current part's file is PartStream's Deliver.
LEMMA Delivers ==
  ASSUME IInv, IInv', sizing_done, sizing_done', stream_part < Len(parts),
         pc # "failed", pc' # "failed", NEW k \in Nat,
         AppendToFile(NameOf(stream_part + 1), k), UNCHANGED <<parts, output_manifest>>
  PROVE  \E p \in DOMAIN Promised : Stream!Deliver(p)
<1> DEFINE cur == stream_part + 1
<1>1. /\ stream_part \in Nat /\ cur \in 1 .. Len(parts)
      /\ \A p \in 1 .. Len(parts) : NameOf(p) \in Names
      /\ \A p, q \in 1 .. Len(parts) : NameOf(p) = NameOf(q) => p = q
  BY CurrentFacts
<1> HIDE DEF cur
<1>2. /\ Promised = [p \in 1 .. Len(parts) |-> parts[p].total_size]
      /\ HandedOver = [p \in 1 .. Len(parts) |-> written[NameOf(p)]]
      /\ \A p \in 1 .. Len(parts) : written[NameOf(p)] = BytesOf(p)
  BY PromisedFacts
<1>3. \A p \in 1 .. Len(parts) : NameOf(p)' = NameOf(p) BY DEF NameOf
<1>4. Promised' = Promised BY DEF Promised
<1>5. HandedOver' = [p \in 1 .. Len(parts) |-> written'[NameOf(p)]]
  <2>1. /\ DOMAIN output_manifest = 1 .. Len(parts)
        /\ \A p \in 1 .. Len(parts) : output_manifest[p].name = NameOf(p)
    BY PromisedFacts
  <2> QED BY <2>1 DEF HandedOver
<1>6. Phase = "streaming" BY <1>1, PartsDomain DEF Phase, IsDone
<1>7. Phase' \in {"streaming", "done"} /\ (Phase' = "done" => IsDone') BY DEF Phase
<1>8. \A p \in 1 .. Len(parts) :
    /\ written'[NameOf(p)] = BytesOf(p)'
    /\ written'[NameOf(p)] <= parts[p].total_size
    /\ IsDone' => written'[NameOf(p)] = parts[p].total_size
  <2> SUFFICES ASSUME NEW p \in 1 .. Len(parts)
      PROVE  /\ written'[NameOf(p)] = BytesOf(p)'
             /\ written'[NameOf(p)] <= parts[p].total_size
             /\ IsDone' => written'[NameOf(p)] = parts[p].total_size
    OBVIOUS
  <2>1. written'[NameOf(p)] = BytesOf(p)' BY <1>3 DEF IInv, StreamOK
  <2>2. /\ BytesOf(p)' <= parts'[p].total_size
        /\ IsDone' => BytesOf(p)' = parts'[p].total_size
    <3>1. IInv' /\ sizing_done' /\ p \in 1 .. Len(parts') OBVIOUS
    <3>2. FileOK(p)' BY <3>1, BytesBoundedNext
    <3> QED BY <3>2 DEF FileOK
  <2> QED BY <2>1, <2>2
<1>9. \A q \in DOMAIN Promised : q < cur => HandedOver[q] = Promised[q]
  BY <1>1, <1>2, BytesBounded DEF cur
<1>10. \A q \in DOMAIN Promised : q > cur => HandedOver[q] = 0 BY <1>1, <1>2, BytesBounded DEF cur
<1>11. /\ written \in [Names -> Nat]
       /\ written' = [written EXCEPT ![NameOf(cur)] = @ + k]
  BY DEF IInv, TypeOK, AppendToFile, cur
<1>12. /\ written'[NameOf(cur)] = written[NameOf(cur)] + k
       /\ written[NameOf(cur)] \in Nat
       /\ \A p \in 1 .. Len(parts) : p # cur => written'[NameOf(p)] = written[NameOf(p)]
  BY <1>1, <1>11
<1>13. HandedOver' = [HandedOver EXCEPT ![cur] = written'[NameOf(cur)]] BY <1>1, <1>2, <1>5, <1>12
<1>14. written'[NameOf(cur)] \in HandedOver[cur] .. Promised[cur]
  <2>1. HandedOver[cur] = written[NameOf(cur)] /\ Promised[cur] = parts[cur].total_size BY <1>1, <1>2
  <2>2. parts[cur].total_size \in Nat BY <1>1, BytesBounded
  <2> QED BY <1>1, <1>8, <1>12, <2>1, <2>2
<1>15. Phase' = "done" => HandedOver' = Promised' BY <1>2, <1>4, <1>5, <1>7, <1>8
<1>16. cur \in DOMAIN Promised BY <1>1, <1>2
<1>17. Stream!Deliver(cur)
  BY <1>4, <1>6, <1>7, <1>9, <1>10, <1>13, <1>14, <1>15 DEF Stream!Deliver, Stream!Complete
<1> QED BY <1>16, <1>17

\* Every step of the session is a step of PartStream or changes nothing it sees.
LEMMA StepRefines ==
  ASSUME IInv, IInv', [Next]_vars
  PROVE  [Stream!Next]_(Stream!vars)
<1> USE DEF imageVars, sizingVars, streamVars, callVars, driverVars
<1>1. CASE HashNextPart BY <1>1, Silent DEF HashNextPart
<1>2. CASE HashEmptyImage BY <1>2, Publishes DEF HashEmptyImage, FinishSizing, Stream!Next
<1>3. CASE SizeSector
  <2>1. ~sizing_done BY <1>3 DEF SizeSector, IInv, StreamOK
  <2> QED BY <1>3, <2>1, Silent DEF SizeSector
<1>4. CASE YieldBatch BY <1>4, Silent DEF YieldBatch
<1>5. CASE FinishLastBatch
  <2>1. ~sizing_done BY <1>5 DEF FinishLastBatch, IInv, StreamOK
  <2> QED BY <1>5, <2>1, Publishes DEF FinishLastBatch, FinishSizing, Stream!Next
<1>6. ASSUME NEW max \in ChunkLimits, StreamHeader(max)
      PROVE  \E p \in DOMAIN Promised : Stream!Deliver(p)
  <2> DEFINE k == Smaller(stream_blob_pos + max, HeaderSize) - stream_blob_pos
  <2>1. /\ pc = "idle" /\ sizing_done /\ stream_part < Len(parts)
        /\ stream_stage = "header"
        /\ AppendToFile(CurrentName, k)
        /\ UNCHANGED <<parts, output_manifest, sizing_done, pc>>
    BY <1>6 DEF StreamHeader, NextChunkCalled
  <2>2. k \in Nat BY <1>6, <2>1, CciAssumption DEF IInv, TypeOK, StreamOK, Smaller
  <2>3. CurrentName = NameOf(stream_part + 1) BY <2>1, CurrentFacts
  <2> HIDE DEF k
  <2> QED BY <2>1, <2>2, <2>3, Delivers
<1>7. ASSUME NEW max \in ChunkLimits, StreamSectors(max)
      PROVE  UNCHANGED Stream!vars
  BY <1>7, Silent DEF StreamSectors, NextChunkCalled
<1>8. ASSUME NEW max \in ChunkLimits, StreamIndex(max)
      PROVE  \E p \in DOMAIN Promised : Stream!Deliver(p)
  <2> DEFINE from == IF stream_stage = "index" THEN stream_blob_pos ELSE 0
             size == EntrySize * Len(CurrentPart.index)
             k == Smaller(from + max, size) - from
  <2>1. /\ pc = "idle" /\ sizing_done /\ stream_part < Len(parts)
        /\ AppendToFile(CurrentName, k)
        /\ UNCHANGED <<parts, output_manifest, sizing_done, pc>>
    BY <1>8 DEF StreamIndex, NextChunkCalled
  <2>2. CurrentName = NameOf(stream_part + 1) /\ CurrentPart \in Part BY <2>1, CurrentFacts
  <2>3. size \in Nat
    <3>1. Len(CurrentPart.index) \in Nat BY <2>2 DEF Part
    <3> QED BY <3>1, CciAssumption
  <2>4. from \in Nat /\ from <= size
    <3>1. stream_blob_pos \in Nat BY DEF IInv, TypeOK
    <3>2. stream_stage = "index" => stream_blob_pos < size BY <2>1 DEF IInv, StreamOK
    <3> HIDE DEF size
    <3> QED BY <2>3, <3>1, <3>2
  <2>5. k \in Nat
    <3> HIDE DEF from, size
    <3> QED BY <1>8, <2>3, <2>4, CciAssumption DEF Smaller
  <2> HIDE DEF k
  <2> QED BY <2>1, <2>2, <2>5, Delivers
<1>9. CASE EmitSector BY <1>9, Silent DEF EmitSector
<1>10. CASE ReturnSectors
  <2>1. /\ pc = "emitting" /\ pc' = "idle"
        /\ AppendToFile(current_entry_name, out_len)
        /\ UNCHANGED <<parts, output_manifest, sizing_done>>
    BY <1>10 DEF ReturnSectors
  <2>2. sizing_done BY <2>1 DEF IInv, PlanningOK
  <2>3. stream_part < Len(parts) /\ current_entry_name = CurrentName BY <2>1, <2>2 DEF IInv, StreamOK
  <2>4. CurrentName = NameOf(stream_part + 1) /\ out_len \in Nat
    BY <2>2, <2>3, CurrentFacts DEF IInv, TypeOK
  <2>5. \E p \in DOMAIN Promised : Stream!Deliver(p) BY <2>1, <2>2, <2>3, <2>4, Delivers
  <2> QED BY <2>5 DEF Stream!Next
<1>11. CASE SizingReadFails \/ StreamingReadFails
  <2>1. /\ pc \in {"sizing", "emitting"} /\ pc' = "failed"
        /\ UNCHANGED <<output_manifest, written>>
    BY <1>11 DEF SizingReadFails, StreamingReadFails, sizingVars, driverVars
  <2>2. Phase \in {"planning", "streaming"}
    <3>1. ~IsDone
      <4>1. sizing_done => stream_part < Len(parts) BY <2>1 DEF IInv, StreamOK
      <4>2. stream_part \in Nat /\ Len(parts) \in Nat BY PartsDomain DEF IInv, TypeOK
      <4> QED BY <4>1, <4>2 DEF IsDone
    <3> QED BY <2>1, <3>1 DEF Phase
  <2>3. Phase' = "failed" BY <2>1 DEF Phase
  <2>4. Promised' = Promised /\ HandedOver' = HandedOver BY <2>1 DEF Promised, HandedOver
  <2> QED BY <2>2, <2>3, <2>4 DEF Stream!Next, Stream!Fail
<1>12. CASE UNCHANGED vars BY <1>12 DEF vars, Stream!vars, Phase, IsDone, Promised, HandedOver
<1>13. [Next]_vars OBVIOUS
<1> QED
  BY <1>1, <1>2, <1>3, <1>4, <1>5, <1>6, <1>7, <1>8, <1>9, <1>10, <1>11, <1>12, <1>13 DEF Next, Call,
     Ended, Stream!Next

\* A CCI session is a PartStream session: one planning pass, one manifest,
\* then the promised bytes of one file after the other.
THEOREM Refines == Spec => ImplementsPartStream
<1>1. Init => Stream!Init
  <2> SUFFICES ASSUME Init PROVE Stream!Init OBVIOUS
  <2>1. Phase = "planning" BY DEF Init, Phase, IsDone
  <2>2. output_manifest = <<>> BY DEF Init
  <2>3. Promised = <<>> /\ HandedOver = <<>> BY <2>2 DEF Promised, HandedOver
  <2> QED BY <2>1, <2>3 DEF Stream!Init
<1>2. IInv /\ IInv' /\ [Next]_vars => [Stream!Next]_(Stream!vars) BY StepRefines
<1> QED BY Invariant, <1>1, <1>2, PTL DEF Spec, ImplementsPartStream, Stream!Spec

-----------------------------------------------------------------------------
(* The reader of the finished files.                                         *)

\* A finished session: its parts one after the other, and the files complete.
Begin(p) == IF p \in 1 .. Len(parts) THEN parts[p].first_sector ELSE total_data_sectors

LEMMA Finished ==
  ASSUME IInv, IsDone
  PROVE  /\ Len(parts) \in Nat \ {0} /\ total_data_sectors \in Nat
         /\ DOMAIN parts = 1 .. Len(parts)
         /\ Begin(1) = 0 /\ Begin(Len(parts) + 1) = total_data_sectors
         /\ \A p \in 1 .. Len(parts) :
              /\ parts[p].first_sector \in Nat /\ parts[p].sector_count \in Nat
              /\ Begin(p) = parts[p].first_sector
              /\ Len(parts[p].index) = parts[p].sector_count + 1
              /\ Begin(p + 1) = Begin(p) + parts[p].sector_count
              /\ written[NameOf(p)] = parts[p].total_size
<1> DEFINE n == Len(parts)
<1>1. /\ parts \in Seq(Part) /\ n \in Nat /\ DOMAIN parts = 1 .. n /\ parts # <<>>
      /\ total_data_sectors \in Nat /\ stream_part \in Nat /\ n <= stream_part
      /\ sizing_part_first_sector = total_data_sectors
      /\ \A p \in 1 .. n : written[NameOf(p)] = BytesOf(p)
  BY CciAssumption DEF IInv, TypeOK, StreamOK, IsDone
<1>2. n # 0 BY <1>1
<1>3. ChainOK(parts, sizing_part_first_sector, image, total_data_sectors) BY DEF IInv, PartsOK
<1>4. /\ parts[1].first_sector = 0
      /\ parts[n].first_sector + parts[n].sector_count = total_data_sectors
      /\ \A p \in 1 .. n - 1 :
           parts[p + 1].first_sector = parts[p].first_sector + parts[p].sector_count
  BY <1>1, <1>3 DEF ChainOK
<1>5. Begin(1) = 0 /\ Begin(n + 1) = total_data_sectors
  <2>1. 1 \in 1 .. n /\ n + 1 \notin 1 .. n BY <1>1, <1>2
  <2> QED BY <1>4, <2>1 DEF Begin
<1>6. ASSUME NEW p \in 1 .. n
      PROVE  /\ parts[p].first_sector \in Nat /\ parts[p].sector_count \in Nat
             /\ Begin(p) = parts[p].first_sector
             /\ Len(parts[p].index) = parts[p].sector_count + 1
             /\ Begin(p + 1) = Begin(p) + parts[p].sector_count
             /\ written[NameOf(p)] = parts[p].total_size
  <2>1. /\ parts[p].first_sector \in Nat /\ parts[p].sector_count \in Nat
        /\ Len(parts[p].index) = parts[p].sector_count + 1
    BY PartsFacts, PosFacts
  <2>2. Begin(p) = parts[p].first_sector BY DEF Begin
  <2>3. Begin(p + 1) = Begin(p) + parts[p].sector_count
    <3>1. CASE p = n BY <1>4, <1>5, <2>2, <3>1
    <3>2. CASE p # n
      <4>1. p \in 1 .. n - 1 /\ p + 1 \in 1 .. n
        <5> HIDE DEF n
        <5> QED BY <1>1, <3>2
      <4>2. Begin(p + 1) = parts[p + 1].first_sector BY <4>1 DEF Begin
      <4> QED BY <1>4, <2>2, <4>1, <4>2
    <3> QED BY <3>1, <3>2
  <2>4. p <= stream_part BY <1>1
  <2>5. written[NameOf(p)] = parts[p].total_size BY <1>1, <2>4 DEF BytesOf
  <2> QED BY <2>1, <2>2, <2>3, <2>5
<1> QED BY <1>1, <1>2, <1>5, <1>6

\* open() accepts the files.
LEMMA FilesOpen ==
  ASSUME IInv, IsDone
  PROVE  Opens
<1>1. /\ Len(parts) \in Nat \ {0} /\ DOMAIN parts = 1 .. Len(parts)
      /\ \A p \in 1 .. Len(parts) : written[NameOf(p)] = parts[p].total_size
  BY Finished
<1>2. Parts # {} BY <1>1 DEF Parts
<1>3. ASSUME NEW p \in Parts
      PROVE  ReaderAccepts([parts[p] EXCEPT
                              !.total_size = written[OutputNameFor(p - 1, Len(parts))]])
  <2> DEFINE part == parts[p]
             seen == [part EXCEPT !.total_size = written[NameOf(p)]]
  <2>1. p \in 1 .. Len(parts) BY <1>1, <1>3 DEF Parts
  <2>2. ReaderAccepts(part) BY <1>1, <2>1, ReadableParts DEF EveryPartReadable
  <2>3. part \in Part /\ written[NameOf(p)] = part.total_size BY <1>1, <2>1, PartsFacts
  <2> HIDE DEF part
  <2>4. seen = part BY <2>3 DEF Part
  <2> QED BY <2>2, <2>4 DEF NameOf, part
<1> QED BY <1>2, <1>3 DEF Opens

\* sector_offsets: where the parts begin, and how many sectors there are.
LEMMA Offsets ==
  ASSUME IInv, IsDone
  PROVE  /\ \A p \in 1 .. Len(parts) :
              /\ SectorsOf(p) = parts[p].sector_count
              /\ SectorOffset(p) = parts[p].first_sector
         /\ SectorsFound = total_data_sectors
<1> DEFINE n == Len(parts)
<1>1. /\ n \in Nat \ {0} /\ total_data_sectors \in Nat
      /\ Begin(1) = 0 /\ Begin(n + 1) = total_data_sectors
      /\ \A p \in 1 .. n :
           /\ parts[p].first_sector \in Nat /\ parts[p].sector_count \in Nat
           /\ Begin(p) = parts[p].first_sector
           /\ Len(parts[p].index) = parts[p].sector_count + 1
           /\ Begin(p + 1) = Begin(p) + parts[p].sector_count
  BY Finished
<1> HIDE DEF n
<1>2. ASSUME NEW p \in 1 .. n PROVE SectorsOf(p) = parts[p].sector_count
  <2>1. parts[p].sector_count \in Nat /\ Len(parts[p].index) = parts[p].sector_count + 1
    BY ONLY <1>1, p \in 1 .. n
  <2>2. Len(parts[p].index) - 1 = parts[p].sector_count BY ONLY <2>1
  <2> QED BY ONLY <2>2 DEF SectorsOf
<1>3. ASSUME NEW p \in 1 .. n + 1 PROVE SectorOffset(p) = Begin(p)
  <2> DEFINE m == p - 1
             g == [q \in 1 .. m |-> SectorsOf(q)]
             T == [k \in 0 .. m |-> Begin(k + 1)]
  <2>1. m \in Nat /\ m <= n /\ m + 1 = p BY <1>1
  <2> HIDE DEF m
  <2>2. HasLen(g, m) BY <2>1 DEF HasLen
  <2>3. ASSUME NEW q \in 1 .. m
        PROVE  g[q] = parts[q].sector_count /\ g[q] \in Nat /\ Begin(q + 1) = Begin(q) + g[q]
    <3>1. q \in 1 .. n BY <1>1, <2>1
    <3> QED BY <1>1, <1>2, <3>1
  <2>4. ASSUME NEW k \in 0 .. m PROVE Begin(k + 1) \in Nat
    <3>1. CASE k = n BY <1>1, <3>1
    <3>2. CASE k # n
      <4>1. k + 1 \in 1 .. n BY <1>1, <2>1, <3>2
      <4> QED BY <1>1, <4>1
    <3> QED BY <3>1, <3>2
  <2>5. T \in [0 .. m -> Nat] BY <2>4
  <2>6. T[0] = 0 /\ T[m] = Begin(p) BY <1>1, <2>1
  <2>7. ASSUME NEW k \in 1 .. m PROVE T[k] = T[k - 1] + g[k]
    <3>1. k \in 0 .. m /\ k - 1 \in 0 .. m /\ (k - 1) + 1 = k BY <2>1
    <3>2. T[k] = Begin(k + 1) /\ T[k - 1] = Begin(k) BY <3>1
    <3> QED BY <2>3, <3>2
  <2> HIDE DEF g, T
  <2>8. IsSum(T, g, m) BY <2>5, <2>6, <2>7 DEF IsSum
  <2>9. FoldLeft(+, 0, g) = T[m]
    <3>1. PICK S : IsSum(S, g, m) /\ FoldLeft(+, 0, g) = S[m] BY <2>1, <2>2, <2>3, FoldedSum
    <3>2. S[m] = T[m] BY <2>1, <2>8, <3>1, SumUnique
    <3> QED BY <3>1, <3>2
  <2> QED BY <2>6, <2>9 DEF SectorOffset, g, m
<1>4. SectorsFound = total_data_sectors
  <2>1. n + 1 \in 1 .. n + 1 BY <1>1
  <2> QED BY <1>1, <1>3, <2>1 DEF SectorsFound, n
<1>5. ASSUME NEW p \in 1 .. n PROVE SectorOffset(p) = parts[p].first_sector
  <2>1. p \in 1 .. n + 1 BY <1>1
  <2> QED BY <1>1, <1>3, <2>1
<1> QED BY <1>2, <1>4, <1>5 DEF n

\* locate() finds the part a sector is in.
LEMMA Located ==
  ASSUME IInv, IsDone, NEW s \in 0 .. total_data_sectors - 1
  PROVE  \E p \in 1 .. Len(parts) :
           /\ LocateIn(s) # {}
           /\ p = CHOOSE q \in LocateIn(s) : \A r \in LocateIn(s) : r <= q
           /\ s - parts[p].first_sector \in 0 .. parts[p].sector_count - 1
<1> DEFINE n == Len(parts)
           L == LocateIn(s)
           p == CHOOSE q \in L : \A r \in L : r <= q
<1>1. /\ n \in Nat \ {0} /\ total_data_sectors \in Nat /\ DOMAIN parts = 1 .. n
      /\ Begin(1) = 0 /\ Begin(n + 1) = total_data_sectors
      /\ \A q \in 1 .. n :
           /\ parts[q].first_sector \in Nat /\ parts[q].sector_count \in Nat
           /\ Begin(q) = parts[q].first_sector
           /\ Begin(q + 1) = Begin(q) + parts[q].sector_count
  BY Finished
<1>2. \A q \in 1 .. n : SectorOffset(q) = parts[q].first_sector BY Offsets
<1>3. Parts = 1 .. n BY <1>1 DEF Parts
<1> HIDE DEF n
<1>4. L = {q \in 1 .. n : Begin(q) <= s} BY <1>1, <1>2, <1>3 DEF LocateIn
<1>5. 1 \in L BY <1>1, <1>4
<1> HIDE DEF L
<1>6. L \in SUBSET Int /\ n \in Int /\ L # {} /\ \A q \in L : q <= n BY <1>1, <1>4, <1>5
<1>7. \E q \in L : \A r \in L : r <= q BY <1>6, IntMax
<1>8. p \in L /\ \A r \in L : r <= p BY <1>7
<1> HIDE DEF p
<1>9. p \in 1 .. n /\ Begin(p) <= s BY <1>4, <1>8
<1>10. s < Begin(p + 1)
  <2>1. CASE p = n BY <1>1, <2>1
  <2>2. CASE p # n
    <3>1. p + 1 \in 1 .. n /\ ~(p + 1 <= p) BY <1>1, <1>9, <2>2
    <3>2. p + 1 \notin L BY <1>8, <3>1
    <3>3. Begin(p + 1) \in Nat BY <1>1, <3>1
    <3> QED BY <1>4, <3>1, <3>2, <3>3
  <2> QED BY <2>1, <2>2
<1>11. s - parts[p].first_sector \in 0 .. parts[p].sector_count - 1
  <2> DEFINE first == parts[p].first_sector
             count == parts[p].sector_count
  <2>1. first \in Nat /\ count \in Nat /\ Begin(p) = first /\ Begin(p + 1) = first + count BY <1>1, <1>9
  <2> HIDE DEF first, count
  <2>2. s - first \in 0 .. count - 1 BY <1>9, <1>10, <2>1
  <2> QED BY <2>2 DEF first, count
<1> QED BY <1>5, <1>9, <1>11 DEF n, L, p

\* read_sector() returns every sector of the image and refuses what lies
\* behind it.
LEMMA SectorBytesFound ==
  ASSUME IInv, IsDone
  PROVE  /\ \A s \in 0 .. total_data_sectors - 1 : ReadSector(s) = "bytes"
         /\ \A s \in Nat : s >= total_data_sectors => ReadSector(s) = "error"
<1>1. SectorsFound = total_data_sectors /\ total_data_sectors \in Nat BY Offsets, Finished
<1>2. ASSUME NEW s \in Nat, s >= total_data_sectors
      PROVE  ReadSector(s) = "error"
  BY <1>1, <1>2 DEF ReadSector
<1>3. ASSUME NEW s \in 0 .. total_data_sectors - 1
      PROVE  ReadSector(s) = "bytes"
  <2>1. PICK p \in 1 .. Len(parts) :
      /\ LocateIn(s) # {}
      /\ p = CHOOSE q \in LocateIn(s) : \A r \in LocateIn(s) : r <= q
      /\ s - parts[p].first_sector \in 0 .. parts[p].sector_count - 1
    BY Located
  <2> DEFINE within == s - SectorOffset(p)
             i == within + 1
             slot == ReaderSlot(p, i)
  <2>2. SectorOffset(p) = parts[p].first_sector /\ SectorsOf(p) = parts[p].sector_count BY Offsets
  <2>3. parts[p].first_sector \in Nat /\ parts[p].sector_count \in Nat
        /\ p \in DOMAIN parts
    BY Finished
  <2>4. /\ i \in 1 .. parts[p].sector_count /\ parts[p].first_sector + i - 1 = s
        /\ ~(within >= SectorsOf(p))
    BY <2>1, <2>2, <2>3
  <2>5. sizing_done BY DEF IsDone
  <2> HIDE DEF i
  <2>6. /\ slot.len = SlotLen(image[s])
        /\ slot.raw = ~IsCompressed(image[s])
        /\ landed[s] # Nowhere => landed[s] = [name |-> slot.name, offset |-> slot.offset]
        /\ landed[s] # Nowhere
    BY <2>3, <2>4, <2>5, IndexPlaces DEF IndexFindsEverySector
  <2>7. /\ DOMAIN landed = 0 .. total_data_sectors - 1
        /\ image[s] \in Lz4Lens
    BY DEF IInv, TypeOK
  <2> HIDE DEF slot
  <2>8. s \in SectorAt(slot.name, slot.offset) BY <2>6, <2>7 DEF SectorAt
  <2> DEFINE lz4 == image[s]
  <2>9. /\ SlotLen(lz4) \in Nat /\ IsCompressed(lz4) \in BOOLEAN
        /\ EmittedLen(lz4) = SlotLen(lz4) /\ lz4 \in Nat
    BY <2>7, SlotLenFacts, CciAssumption
  <2> HIDE DEF lz4
  <2>10. CASE ~IsCompressed(lz4)
    <3>1. Copied(s) = "bytes" BY <2>10 DEF Copied, lz4
    <3>2. slot.raw BY <2>6, <2>10 DEF lz4
    <3>3. ReadSector(s) = Copied(s) BY <1>1, <2>1, <2>4, <2>8, <3>2 DEF ReadSector, slot, i
    <3> QED BY <3>1, <3>3
  <2>11. CASE IsCompressed(lz4)
    <3>1. ~slot.raw BY <2>6, <2>11 DEF lz4
    <3>2. ReadSector(s) = Decoded(s, slot.len) BY <1>1, <2>1, <2>4, <2>8, <3>1 DEF ReadSector, slot, i
    <3> DEFINE pad == PaddingLen(lz4)
               len == slot.len
    <3>3. len = 1 + lz4 + pad /\ pad \in Nat
      <4>1. len = EmittedLen(lz4) BY <2>6, <2>9 DEF lz4
      <4>2. EmittedLen(lz4) = 1 + lz4 + pad BY <2>11 DEF EmittedLen
      <4>3. pad \in Nat
        <5>1. CompressedWrittenLen(lz4) = Rounded(lz4 + 1) /\ lz4 + 1 \in Nat
          BY <2>9 DEF CompressedWrittenLen, Rounded
        <5>2. CompressedWrittenLen(lz4) \in Nat /\ lz4 + 1 <= CompressedWrittenLen(lz4) BY <5>1, RoundUp
        <5> QED BY <2>9, <5>2 DEF PaddingLen
      <4> QED BY <4>1, <4>2, <4>3
    <3> HIDE DEF pad, len
    <3>4. ~(len < 1) /\ ~(len < 1 + pad) /\ len - (1 + pad) = lz4 BY <2>9, <3>3
    <3>5. Decoded(s, len) = "bytes" BY <2>11, <3>4 DEF Decoded, pad, lz4
    <3> QED BY <3>2, <3>5 DEF len
  <2> QED BY <2>9, <2>10, <2>11
<1> QED BY <1>2, <1>3

\* read_bytes() within the image, and across its end.
LEMMA BytesFound ==
  ASSUME IInv, IsDone, NEW offset \in Nat, NEW len \in Nat \ {0},
         offset + len <= total_data_sectors * SectorSize
  PROVE  ReadBytes(offset, len) = [k \in 1 .. len |-> offset + k - 1]
<1> DEFINE first == offset \div SectorSize
           last == (offset + len - 1) \div SectorSize
           n == last - first + 1
           touched == [k \in 1 .. n |-> first + k - 1]
           g == [k \in 1 .. n |-> Wanted(first + k - 1, offset, len)]
           iter == CHOOSE f : f = [s \in SUBSET DOMAIN touched |->
                     IF s = {} THEN <<>>
                     ELSE f[s \ {Max(s)}] \o Wanted(touched[Max(s)], offset, len)]
<1>1. SectorSize \in Nat \ {0} /\ total_data_sectors \in Nat BY Finished, CciAssumption
<1>2. /\ first \in Nat /\ last \in Nat /\ first <= last
      /\ last * SectorSize \in Nat /\ last * SectorSize < offset + len
  BY <1>1, ReadSectors
<1>3. last < total_data_sectors
  <2> SUFFICES ASSUME total_data_sectors <= last PROVE FALSE BY <1>1, <1>2
  <2>1. total_data_sectors * SectorSize <= last * SectorSize BY <1>1, <1>2, MultMonotonic
  <2>2. total_data_sectors * SectorSize \in Nat BY <1>1
  <2> HIDE DEF last
  <2> QED BY <1>1, <1>2, <2>1, <2>2
<1>4. DOMAIN touched = 1 .. n /\ n \in Nat BY <1>2
<1>5. ASSUME NEW k \in 1 .. n
      PROVE  ReadSector(touched[k]) = "bytes" /\ first + k - 1 \in Nat
  <2>1. touched[k] = first + k - 1 OBVIOUS
  <2> HIDE DEF first, last
  <2>2. first + k - 1 \in 0 .. total_data_sectors - 1 BY <1>1, <1>2, <1>3
  <2> HIDE DEF touched
  <2> QED BY <1>1, <2>1, <2>2, SectorBytesFound
<1>6. ~(\E k \in DOMAIN touched : ReadSector(touched[k]) # "bytes") BY <1>4, <1>5
<1>7. ReadBytes(offset, len) = iter[DOMAIN touched] BY <1>6 DEF ReadBytes, FoldLeft, MapThenFoldSet
<1>8. AreCopied(g, first, n, SectorSize, offset, len)
  <2> SUFFICES ASSUME NEW k \in 1 .. n
      PROVE  g[k] = Interval(CopyStart(first + k - 1, SectorSize, offset),
                             CopyEnd(first + k - 1, SectorSize, offset, len))
    BY DEF AreCopied
  <2> DEFINE s == first + k - 1
             start == s * SectorSize
             a == CopyStart(s, SectorSize, offset)
             b == CopyEnd(s, SectorSize, offset, len)
  <2>1. s \in Nat /\ g[k] = Wanted(s, offset, len) BY <1>5
  <2> HIDE DEF s
  <2>2. start \in Nat BY <1>1, <2>1
  <2>3. a = Larger(offset, start) /\ b = Smaller(offset + len, start + SectorSize)
    BY DEF CopyStart, CopyEnd, Larger, Smaller
  <2> HIDE DEF a, b, start
  <2>4. a \in Int /\ b \in Int BY <1>1, <2>2, <2>3 DEF Larger, Smaller
  <2>5. Wanted(s, offset, len)
      = [m \in 1 .. (b - start) - (a - start) |-> start + (a - start) + m - 1]
    BY <2>3 DEF Wanted, start
  <2>6. (b - start) - (a - start) = b - a BY <2>2, <2>4
  <2>7. start + (a - start) = a BY <2>2, <2>4
  <2>8. Wanted(s, offset, len) = [m \in 1 .. b - a |-> a + m - 1] BY <2>5, <2>6, <2>7
  <2> QED BY <2>1, <2>8 DEF Interval, a, b, s
<1>9. ASSUME NEW s \in SUBSET (1 .. n), s # {}
      PROVE  g[Max(s)] = Wanted(touched[Max(s)], offset, len)
  <2>1. Max(s) \in 1 .. n BY <1>4, <1>9, MaxOfUpTo
  <2> QED BY <2>1
<1>10. CoversRange(first, n, SectorSize, offset, len) BY DEF CoversRange
<1> HIDE DEF g, touched, n
<1>11. PICK F : IsConcatFold(F, g, n) BY <1>4, ConcatFoldExists
<1>12. F = [s \in SUBSET DOMAIN touched |->
    IF s = {} THEN <<>> ELSE F[s \ {Max(s)}] \o Wanted(touched[Max(s)], offset, len)]
  BY <1>4, <1>9, <1>11 DEF IsConcatFold
<1>13. iter = [s \in SUBSET DOMAIN touched |->
    IF s = {} THEN <<>> ELSE iter[s \ {Max(s)}] \o Wanted(touched[Max(s)], offset, len)]
  BY <1>12
<1> HIDE DEF iter
<1>14. IsConcatFold(iter, g, n) BY <1>4, <1>9, <1>13 DEF IsConcatFold
<1> HIDE DEF first
<1>15. iter[1 .. n] = Interval(offset, offset + len)
  BY ONLY <1>1, <1>8, <1>10, <1>14, offset \in Nat, len \in Nat \ {0}, ReadConcats
<1>16. Interval(offset, offset + len) = [k \in 1 .. len |-> offset + k - 1]
  <2>1. (offset + len) - offset = len OBVIOUS
  <2> QED BY <2>1 DEF Interval
<1> QED BY <1>4, <1>7, <1>15, <1>16

LEMMA BytesRefused ==
  ASSUME IInv, IsDone, NEW offset \in Nat, NEW len \in Nat \ {0},
         ~(offset + len <= total_data_sectors * SectorSize)
  PROVE  ReadBytes(offset, len) = <<"error">>
<1> DEFINE first == offset \div SectorSize
           last == (offset + len - 1) \div SectorSize
           n == last - first + 1
           touched == [k \in 1 .. n |-> first + k - 1]
<1>1. SectorSize \in Nat \ {0} /\ total_data_sectors \in Nat BY Finished, CciAssumption
<1>2. /\ first \in Nat /\ last \in Nat /\ first <= last
      /\ last * SectorSize \in Nat /\ offset + len <= last * SectorSize + SectorSize
  BY <1>1, ReadSectors
<1>3. total_data_sectors <= last
  <2> SUFFICES ASSUME last + 1 <= total_data_sectors PROVE FALSE BY <1>1, <1>2
  <2> HIDE DEF last
  <2>1. (last + 1) * SectorSize <= total_data_sectors * SectorSize BY <1>1, <1>2, MultMonotonic
  <2>2. (last + 1) * SectorSize = last * SectorSize + SectorSize BY <1>1, <1>2
  <2>3. total_data_sectors * SectorSize \in Nat BY <1>1
  <2> QED BY <1>1, <1>2, <2>1, <2>2, <2>3
<1>4. n \in DOMAIN touched /\ touched[n] = last BY <1>2
<1>5. ReadSector(last) = "error" BY <1>2, <1>3, SectorBytesFound
<1>6. \E k \in DOMAIN touched : ReadSector(touched[k]) # "bytes" BY <1>4, <1>5
<1> QED BY <1>6 DEF ReadBytes

\* What a finished session wrote opens and reads back as the image: every
\* sector in its part and in the form it is stored in, every read of bytes
\* within the image, and nothing behind it (CciSource).
THEOREM ReaderReads == Spec => []ReaderReadsImage
<1>1. IInv => ReaderReadsImage
  <2> SUFFICES ASSUME IInv, IsDone PROVE ReaderReadsImage BY DEF ReaderReadsImage
  <2>1. total_data_sectors \in Nat /\ SectorSize \in Nat \ {0} BY Finished, CciAssumption
  <2>2. DOMAIN image = 0 .. total_data_sectors - 1 BY DEF IInv, TypeOK
  <2>3. ASSUME NEW s \in DOMAIN image
        PROVE  /\ ReadSector(s) = "bytes"
               /\ \A before \in {0, 1, SectorSize - 1}, after \in {0, 1, SectorSize} :
                    LET offset == s * SectorSize + before
                        len == SectorSize - before + after
                    IN ReadBytes(offset, len) =
                         IF offset + len <= total_data_sectors * SectorSize
                         THEN [k \in 1 .. len |-> offset + k - 1] ELSE <<"error">>
    <3>1. ReadSector(s) = "bytes" BY <2>2, SectorBytesFound
    <3>2. ASSUME NEW before \in {0, 1, SectorSize - 1}, NEW after \in {0, 1, SectorSize}
          PROVE  LET offset == s * SectorSize + before
                     len == SectorSize - before + after
                 IN ReadBytes(offset, len) =
                      IF offset + len <= total_data_sectors * SectorSize
                      THEN [k \in 1 .. len |-> offset + k - 1] ELSE <<"error">>
      <4> DEFINE offset == s * SectorSize + before
                 len == SectorSize - before + after
      <4>1. before \in 0 .. SectorSize - 1 /\ after \in Nat BY <2>1, CciAssumption
      <4>2. s * SectorSize \in Nat BY <2>1, <2>2
      <4>3. offset \in Nat /\ len \in Nat \ {0} BY <2>1, <4>1, <4>2
      <4> HIDE DEF offset, len
      <4>4. ReadBytes(offset, len) = IF offset + len <= total_data_sectors * SectorSize
          THEN [k \in 1 .. len |-> offset + k - 1] ELSE <<"error">>
        <5>1. CASE offset + len <= total_data_sectors * SectorSize BY <4>3, <5>1, BytesFound
        <5>2. CASE ~(offset + len <= total_data_sectors * SectorSize) BY <4>3, <5>2, BytesRefused
        <5> QED BY <5>1, <5>2
      <4> QED BY <4>4 DEF offset, len
    <3> QED BY <3>1, <3>2
  <2>4. ReadSector(total_data_sectors) = "error" BY <2>1, SectorBytesFound
  <2> QED BY <2>3, <2>4, FilesOpen, Offsets DEF ReaderReadsImage
<1> QED BY Invariant, <1>1, PTL
=============================================================================
